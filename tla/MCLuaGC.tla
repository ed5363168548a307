------------------------------ MODULE MCLuaGC -------------------------------
(* Instance of LuaGC for TLC, with the reachability its liveness is about. *)
EXTENDS LuaGC

(* What the scripts can come to, strongly or through a weak table.         *)
Reachable ==
    LET within[n \in Nat] ==
            IF n = 0 THEN {Main}
            ELSE LET near == within[n - 1] IN near \cup UNION {Refs(o) : o \in near}
    IN  within[Cardinality(live)]

(* Everything a script can come to is allocated.                           *)
ReachableIsLive == Reachable \subseteq live

(* Garbage is freed in the end, if neither a finalizer nor a lookup of the *)
(* string brings it back.                                                  *)
GarbageIsFreed ==
    \A o \in Tables \cup Closures :
        (o \in live /\ o \notin Reachable) ~> (o \notin live \/ o \in Reachable)
=============================================================================
