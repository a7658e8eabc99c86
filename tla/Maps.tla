-------------------------------- MODULE Maps --------------------------------
(* Maps with a key set that varies, as Go maps and SQL tables have. *)

EmptyMap == [x \in {} |-> x]

(* f maps some elements of S to elements of T. *)
IsMap(f, S, T) ==
    /\ f = [x \in DOMAIN f |-> f[x]]
    /\ DOMAIN f \subseteq S
    /\ \A x \in DOMAIN f : f[x] \in T

Put(f, k, v) == [x \in DOMAIN f \cup {k} |-> IF x = k THEN v ELSE f[x]]

Remove(f, k) == [x \in DOMAIN f \ {k} |-> f[x]]

(* g agrees with f wherever f is defined. *)
Extends(g, f) == DOMAIN f \subseteq DOMAIN g /\ \A x \in DOMAIN f : g[x] = f[x]
=============================================================================
