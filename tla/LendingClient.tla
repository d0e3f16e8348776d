--------------------------- MODULE LendingClient ---------------------------
(***************************************************************************)
(* A client of the lending contract that reads all the debts of a user     *)
(* page by page while transactions go on.                                  *)
(***************************************************************************)
EXTENDS LendingQueries

CONSTANTS
    Reader,         \* the user whose debts are read
    LimitInput      \* the limits the client asks for

ASSUME ClientAssumption == LimitInput \subseteq (Nat \ {0}) \cup {NoLimit}

VARIABLES last, answers, finished, steady   \* see Paging

DebtKeys == KeysOf({d \in Denom : HasDebt(Reader, d)})

Walk == INSTANCE Paging WITH Key <- KeysOf(Denom), entries <- DebtKeys

StartAfter == IF last = 0 THEN None ELSE CHOOSE d \in Denom : DenomKey[d] = last

ClientInit ==
    /\ Init
    /\ last = 0
    /\ answers = [k \in KeysOf(Denom) |-> 0]
    /\ finished = FALSE
    /\ steady = DebtKeys

\* QueryMsg::UserDebts, asked until a page is empty.
ReadPage ==
    /\ \E limit \in LimitInput :
        \E page \in QueryUserDebts(Reader, StartAfter, limit) :
            Walk!TakePage(KeysOf(DOMAIN page))
    /\ UNCHANGED vars

Transaction ==
    /\ Next
    /\ steady' = steady \cap DebtKeys'
    /\ UNCHANGED <<last, answers, finished>>

ClientNext == Transaction \/ ReadPage

ClientSpec == ClientInit /\ [][ClientNext]_<<vars, last, answers, finished, steady>>

\* The client keeps asking.
FairClientSpec ==
    ClientSpec /\ WF_<<vars, last, answers, finished, steady>>(ReadPage)

-----------------------------------------------------------------------------

\* Reading a user's debts page by page is a walk through a paged map, so that it
\* misses no debt that is there all along and repeats none, whatever is borrowed
\* and repaid in between; for the transactions between two pages save and
\* remove entries, and never move one to another key.
DebtsWalkIsPaged == Walk!Spec

\* At its end the client was given every debt that was there all along, and no
\* debt twice.
DebtsWalkComplete == Walk!WalkComplete

\* It comes to an end, as long as every debt is in a denom with a market.  (The
\* doc of UserDebts says that it gets all debt positions of a user, but the query
\* fails as a whole for a debt of zero that a loan limit wrote in a denom without
\* a market.)
DebtsWalkEnds == Walk!WalkEnds
=============================================================================
