------------------------------ MODULE Storage ------------------------------
(***************************************************************************)
(* cw_storage_plus::Map as the contracts use it: a partial function from   *)
(* keys to values.  (The library is external; only save, remove, load and  *)
(* may_load appear in src/.)  A map keyed by pairs is iterated by its      *)
(* first component, prefix(u).                                             *)
(***************************************************************************)

EmptyMap == [k \in {} |-> {}]

Save(map, key, value) ==
    [k \in DOMAIN map \cup {key} |-> IF k = key THEN value ELSE map[k]]

Remove(map, key) == [k \in DOMAIN map \ {key} |-> map[k]]

\* may_load followed by unwrap_or
LoadOr(map, key, default) == IF key \in DOMAIN map THEN map[key] ELSE default

IsMap(map, Key, Value) == DOMAIN map \subseteq Key /\ map \in [DOMAIN map -> Value]
=============================================================================
