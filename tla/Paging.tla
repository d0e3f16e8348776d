------------------------------- MODULE Paging -------------------------------
(***************************************************************************)
(* What the paged queries of the contracts are for: a client that reads a  *)
(* whole map, a page in each query, while transactions add and remove      *)
(* entries between two pages.                                              *)
(*                                                                         *)
(* The client is external.  It asks for a page after the last key it was   *)
(* given, and stops at an empty page: a short one may have been cut by     *)
(* MAX_LIMIT, whatever limit was asked for.                                *)
(***************************************************************************)
EXTENDS Pages

CONSTANTS
    Key,            \* the keys of the map
    LimitInput      \* the limits the client asks for

PagingAssumption ==
    /\ Key \subseteq Nat \ {0}
    /\ IsFiniteSet(Key)
    /\ LimitInput \subseteq (Nat \ {0}) \cup {NoLimit}

VARIABLES
    entries,        \* the keys of the map
    last,           \* start_after: the last key the client was given, or 0
    answers,        \* whether the client was given a key once (1) or more often (2)
    finished,       \* whether the client has seen an empty page
    steady          \* the keys that were in the map ever since the client began

clientVars == <<last, answers, finished, steady>>

pagingVars == <<entries, clientVars>>

-----------------------------------------------------------------------------

Init ==
    /\ entries \in SUBSET Key
    /\ last = 0
    /\ answers = [k \in Key |-> 0]
    /\ finished = FALSE
    /\ steady = entries

\* Transactions save and remove entries.
Change ==
    /\ entries' \in SUBSET Key
    /\ steady' = steady \cap entries'
    /\ UNCHANGED <<last, answers, finished>>

\* What the client makes of a page.
TakePage(page) ==
    /\ ~finished
    /\ finished' = (page = {})
    /\ last' \in {k \in page : \A other \in page : other <= k} \cup
                    {k \in {last} : page = {}}
    /\ answers' = [k \in Key |-> IF k \in page /\ answers[k] < 2
                                THEN answers[k] + 1 ELSE answers[k]]
    /\ UNCHANGED steady

NextPage ==
    /\ \E limit \in LimitInput, page \in SUBSET entries :
        /\ IsPage(page, entries, last, limit)
        /\ TakePage(page)
    /\ UNCHANGED entries

Next == Change \/ NextPage

Spec == Init /\ [][Next]_pagingVars

\* The client keeps asking.
FairSpec == Spec /\ WF_pagingVars(NextPage)

-----------------------------------------------------------------------------

PagingTypeOK ==
    /\ entries \subseteq Key
    /\ last \in Nat
    /\ answers \in [Key -> 0 .. 2]
    /\ finished \in BOOLEAN
    /\ steady \subseteq entries

\* A client that has come to the end was given every entry that was there all
\* along, and no key more than once, whatever was added and removed between its
\* pages, before or after the key it had come to.
WalkComplete ==
    /\ \A k \in Key : answers[k] <= 1
    /\ finished => \A k \in steady : answers[k] = 1

\* Every walk comes to its end, however often the map changes meanwhile.
WalkEnds == <>finished
=============================================================================
