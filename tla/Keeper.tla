------------------------------- MODULE Keeper -------------------------------
(***************************************************************************)
(* The oracle and the keeper that its TWAP sources depend on.  The script  *)
(* scripts/deploy/sei/recordTwapSnapshots.ts records the snapshots of one  *)
(* denom, once; that somebody runs it for all TWAP sources, at least every *)
(* Interval seconds, is an assumption.  The contract leaves it to anybody  *)
(* to record snapshots, so others do so as well, at any time; the rate     *)
(* limit may then skip the keeper's own.                                   *)
(*                                                                         *)
(* The owner has set the sources and leaves them alone.  Which snapshots   *)
(* there are does not depend on prices, so the pairs do not trade here.    *)
(***************************************************************************)
EXTENDS Oracle

CONSTANTS
    Sources,        \* the TWAP source of each denom that has one
    Interval        \* the seconds between two runs of the keeper

ASSUME KeeperAssumption ==
    /\ \A d \in DOMAIN Sources :
        <<d, Sources[d]>> \in SourceInput /\ Sources[d].type = "astroport_twap"
    /\ Interval \in Nat \ {0}

VARIABLE due        \* the time of the keeper's next run

keeperVars == <<oracleVars, due>>

\* Any moment after the owner has set the sources.
KeeperInit ==
    /\ \E a \in Admin : role = InitialRole(a)
    /\ base_denom \in BaseInput
    /\ price_sources = [d \in DOMAIN Sources \cup {base_denom} |->
                            IF d = base_denom THEN [type |-> "fixed", price |-> One]
                            ELSE Sources[d]]
    /\ \A d \in DOMAIN Sources : ValidSource(d, Sources[d])
    /\ snapshots = EmptyMap
    /\ swap \in [Side -> UNION {Return[k] : k \in Side}]
    /\ \A k \in Side : swap[k] \in Return[k]
    /\ cumulative = [k \in Side |-> 0]
    /\ feeds = EmptyMap
    /\ now = 0
    /\ due \in 0 .. Interval

KeeperRuns ==
    /\ now = due
    /\ RecordTwapSnapshots(DOMAIN Sources)
    /\ due' = now + Interval

\* The keeper is punctual.
TimePasses ==
    /\ now < due
    /\ Tick(1)
    /\ UNCHANGED due

OthersRecord ==
    /\ \E denoms \in RecordInput : RecordTwapSnapshots(denoms)
    /\ UNCHANGED due

KeeperNext == KeeperRuns \/ TimePasses \/ OthersRecord

KeeperSpec ==
    /\ KeeperInit
    /\ [][KeeperNext]_keeperVars
    /\ WF_keeperVars(KeeperRuns)
    /\ WF_keeperVars(TimePasses)

-----------------------------------------------------------------------------

Available(d) == TwapAvailable(d, Sources[d])

\* Once there is a snapshot to start the average from, there always is one: when
\* the last usable one leaves the window the next has entered it, whatever the
\* others record, the rate limit skips and recording purges.  A keeper that
\* comes every tolerance + 2 seconds suffices: then no two snapshots are more
\* than the window's 2 * tolerance + 1 seconds apart.
TwapStaysAvailable ==
    [][\A d \in DOMAIN Sources : Available(d) => Available(d)']_keeperVars

\* With a keeper every TWAP source comes to have an average, for good: others,
\* by recording whenever they like, cannot keep the list from growing into the
\* window.
TwapEventuallyAvailable == \A d \in DOMAIN Sources : <>[]Available(d)
=============================================================================
