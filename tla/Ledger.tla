------------------------------- MODULE Ledger -------------------------------
(***************************************************************************)
(* What the lending contract promises its users, in coins: an account of   *)
(* what each of them owns and owes, and of the coins at hand.  Shares,     *)
(* indexes, rates and totals are not visible here.  An account moves with  *)
(* the coins that are paid, up to `Dust` coins of rounding, which its      *)
(* holder loses; and it earns and owes interest as time passes.            *)
(***************************************************************************)
EXTENDS Integers

CONSTANTS
    User, Denom,
    Dust            \* the coins that rounding may cost in a step

VARIABLES
    owned,          \* owned[<<u, d>>]: the coins of d that u may withdraw
    owed,           \* owed[<<u, d>>]: the coins of d that repay u's debt
    cash,           \* cash[d]: the coins of d at hand
    now

ledgerVars == <<owned, owed, cash, now>>

Account == User \X Denom

Init ==
    /\ owned = [k \in Account |-> 0]
    /\ owed = [k \in Account |-> 0]
    /\ cash = [d \in Denom |-> 0]
    /\ now = 0

Received(d) == cash'[d] - cash[d]

Paid(d) == cash[d] - cash'[d]

\* Within a block nothing moves but these entries.
OnlyMoves(accounts_owned, accounts_owed, denom) ==
    /\ now' = now
    /\ \A d \in Denom \ {denom} : cash'[d] = cash[d]
    /\ \A k \in Account \ accounts_owned : owned'[k] = owned[k]
    /\ \A k \in Account \ accounts_owed : owed'[k] = owed[k]

Deposit(u, d) ==
    /\ Received(d) > 0
    /\ OnlyMoves({<<u, d>>}, {}, d)
    /\ owned'[<<u, d>>] \in owned[<<u, d>>] + Received(d) - Dust
                              .. owned[<<u, d>>] + Received(d)

Withdraw(u, d) ==
    /\ Paid(d) > 0
    /\ Paid(d) <= owned[<<u, d>>]
    /\ OnlyMoves({<<u, d>>}, {}, d)
    /\ owned'[<<u, d>>] \in owned[<<u, d>>] - Paid(d) - Dust
                              .. owned[<<u, d>>] - Paid(d)

Borrow(u, d) ==
    /\ Paid(d) > 0
    /\ OnlyMoves({}, {<<u, d>>}, d)
    /\ owed'[<<u, d>>] \in owed[<<u, d>>] + Paid(d)
                             .. owed[<<u, d>>] + Paid(d) + Dust

\* By u or by another.  No more is kept than is owed.
Repaid(u, d) ==
    /\ Received(d) >= 0
    /\ Received(d) <= owed[<<u, d>>]
    /\ owed'[<<u, d>>] \in owed[<<u, d>>] - Received(d)
                             .. owed[<<u, d>>] - Received(d) + Dust

Repay(u, d) == Repaid(u, d) /\ OnlyMoves({}, {<<u, d>>}, d)

\* r gets what u loses, against a repayment of u's debt.
Liquidate(u, r, c, d) ==
    LET taken == owned[<<u, c>>] - owned'[<<u, c>>]
        given == owned'[<<r, c>>] - owned[<<r, c>>]
    IN  /\ Repaid(u, d)
        /\ OnlyMoves({<<u, c>>, <<r, c>>}, {<<u, d>>}, d)
        /\ IF u = r THEN taken = 0
           ELSE /\ taken >= 0
                /\ given \in taken - Dust .. taken + Dust
                /\ taken > 0 => Received(d) > 0

\* Interest, to everybody who owns and of everybody who owes.
TimePasses ==
    /\ now' > now
    /\ \A k \in Account : owned'[k] >= owned[k] /\ owed'[k] >= owed[k]
    /\ cash' = cash

Next ==
    \/ \E u \in User, d \in Denom :
        \/ Deposit(u, d)
        \/ Withdraw(u, d)
        \/ Borrow(u, d)
        \/ Repay(u, d)
        \/ \E r \in User, c \in Denom : Liquidate(u, r, c, d)
    \/ TimePasses

Spec == Init /\ [][Next]_ledgerVars
=============================================================================
