----------------------------- MODULE OwnerRole -----------------------------
(***************************************************************************)
(* The ownership record every contract of the repository keeps: the crate  *)
(* mars-owner, whose source is not in this repository.  It is modelled     *)
(* from its use in src/: the contracts forward OwnerUpdate messages to     *)
(* Owner::update, and ask assert_owner, is_owner and is_emergency_owner.   *)
(*                                                                         *)
(* A role is a value; the contract that holds it makes it a variable.      *)
(***************************************************************************)
CONSTANTS
    Admin,      \* the addresses that may come to hold a role
    None        \* nobody

ASSUME NoneAssumption == None \notin Admin

Role == [owner : Admin \cup {None}, proposed : Admin \cup {None},
         emergency_owner : Admin \cup {None}]

InitialRole(a) == [owner |-> a, proposed |-> None, emergency_owner |-> None]

OwnerUpdates ==
    {"propose_new_owner", "clear_proposed", "accept_proposed",
     "abolish_owner_role", "set_emergency_owner", "clear_emergency_owner"}

IsOwner(role, a) == role.owner = a

IsEmergencyOwner(role, a) == role.emergency_owner = a

\* The roles that an update sent by a may lead to; empty when it is refused.
\* Once abolished, a role has no owner and nobody can update it again.
UpdatedRoles(role, update, a) ==
    IF update = "accept_proposed"
    THEN {[role EXCEPT !.owner = a, !.proposed = None] : p \in {role.proposed} \cap {a}}
    ELSE IF ~IsOwner(role, a) THEN {}
    ELSE CASE update = "propose_new_owner" -> {[role EXCEPT !.proposed = b] : b \in Admin}
           [] update = "clear_proposed" -> {[role EXCEPT !.proposed = None]}
           [] update = "set_emergency_owner" ->
                {[role EXCEPT !.emergency_owner = b] : b \in Admin}
           [] update = "clear_emergency_owner" ->
                {[role EXCEPT !.emergency_owner = None]}
           [] update = "abolish_owner_role" ->
                {[owner |-> None, proposed |-> None, emergency_owner |-> None]}
=============================================================================
