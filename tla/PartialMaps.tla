----------------------------- MODULE PartialMaps ------------------------------
(* std::map and std::unordered_map as functions with a finite domain.       *)
EXTENDS Functions

\* map[key] = value
Put(map, key, value) ==
  [k \in DOMAIN map \cup {key} |-> IF k = key THEN value ELSE map[k]]

\* map.erase of every key in keys
Erase(map, keys) == Restrict(map, DOMAIN map \ keys)
=============================================================================
