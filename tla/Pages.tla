------------------------------- MODULE Pages -------------------------------
(***************************************************************************)
(* The paged queries of the contracts, all of them                         *)
(*     range(start_after, Ascending).take(limit)                           *)
(* over a map: contracts/lending/src/query.rs, contracts/oracle/base/src/  *)
(* contract.rs and contracts/address-provider/src/contract.rs.             *)
(*                                                                         *)
(* Keys are positive numbers, in the order of their bytes.  A page after   *)
(* 0 is the first one.                                                     *)
(***************************************************************************)
EXTENDS Integers, FiniteSets

CONSTANTS
    DefaultLimit,   \* DEFAULT_LIMIT
    MaxLimit,       \* MAX_LIMIT
    NoLimit         \* the limit that is not given

ASSUME LimitAssumption == DefaultLimit \in Nat \ {0} /\ MaxLimit \in Nat \ {0}

\* limit.unwrap_or(DEFAULT_LIMIT).min(MAX_LIMIT)
PageSize(limit) ==
    LET asked == IF limit = NoLimit THEN DefaultLimit ELSE limit
    IN  IF asked < MaxLimit THEN asked ELSE MaxLimit

\* Mutant: the page starts at the last key, not after it.
RestAndStart(keys, start) == {k \in keys : k >= start}

\* Bound::exclusive
Rest(keys, start) == {k \in keys : k > start}

\* The first keys after `start`, as many as fit or as there are.
IsPage(page, keys, start, limit) ==
    LET rest == Rest(keys, start)
    IN  /\ page \subseteq rest
        /\ \A k \in page, other \in rest \ page : k < other
        /\ Cardinality(page) <= PageSize(limit)
        /\ Cardinality(page) < PageSize(limit) => page = rest

Page(keys, start, limit) ==
    CHOOSE page \in SUBSET keys : IsPage(page, keys, start, limit)

\* Mutant: every page is the first one.
FirstPageOf(items, Keys, start, limit) ==
    {i \in items : Keys[i] \in Page({Keys[j] : j \in items}, 0, limit)}

\* The items whose keys are on a page.
PageOf(items, Keys, start, limit) ==
    {i \in items : Keys[i] \in Page({Keys[j] : j \in items}, start, limit)}

\* A page is collected into one answer, and fails when one of its items does.
\* (A query is the set of its answers: one, or none where it fails.)
Collected(items, Answer(_)) ==
    IF \E i \in items : Answer(i) = {} THEN {}
    ELSE {[i \in items |-> CHOOSE item \in Answer(i) : TRUE]}
=============================================================================
