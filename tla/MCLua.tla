------------------------------- MODULE MCLua --------------------------------
(* Instance for TLC of the parts of the script state that are specified    *)
(* each for itself: tables, coVars, pattern matching, and chunks that  *)
(* are compiled and run.  A behaviour is one of a part, named by unit; the *)
(* other parts are left out of it.                                         *)
EXTENDS LuaCoroutine, MCLuaChunks, MCLuaPattern

CONSTANTS IntKey, StrKey, Event, Value, None, ArraySizes, HashSizes, MaxInt,
          Subjects, Patterns, Replacements, Keep, MaxCaptures

VARIABLES unit,      \* the part a behaviour is about
          t, map, trav, subject, items, anchored, lib

(* The strings share the main position of the integer 1 in a table of four *)
(* nodes, and not in larger ones.                                          *)
KeyHash(k) == IF k \in Event THEN 1 ELSE IF k \in StrKey THEN 5 ELSE k

Tables == INSTANCE LuaTable WITH Nil <- None, Hash <- KeyHash
Pat == INSTANCE LuaPattern

ASSUME PartsAssumption == Tables!TableAssumption

tables == <<t, map, trav>>
patterns == <<subject, items, anchored, lib>>

Idle(var) == var = "idle"
IdleTable == Idle(t) /\ Idle(map) /\ Idle(trav)
IdleCoroutines == th = << >> /\ native = << >> /\ raising = FALSE /\ ended = {} /\ spilled = {}
IdlePatterns == Idle(subject) /\ Idle(items) /\ Idle(anchored) /\ Idle(lib)
IdleChunks == Idle(program) /\ Idle(func) /\ Idle(L)

Init ==
    \/ unit = "table" /\ Tables!TableInit /\ IdleCoroutines /\ IdlePatterns /\ IdleChunks
    \/ unit = "coroutine" /\ CoInit /\ IdleTable /\ IdlePatterns /\ IdleChunks
    \/ unit = "pattern" /\ Pat!PatternInit /\ IdleTable /\ IdleCoroutines /\ IdleChunks
    \/ unit = "chunk" /\ ChunkInit /\ IdleTable /\ IdleCoroutines /\ IdlePatterns

Next ==
    /\ unit' = unit
    /\ \/ unit = "table" /\ Tables!TableNext /\ UNCHANGED <<coVars, patterns, chunkVars>>
       \/ unit = "coroutine" /\ CoNext /\ UNCHANGED <<tables, patterns, chunkVars>>
       \/ unit = "pattern" /\ Pat!PatternNext /\ UNCHANGED <<tables, coVars, chunkVars>>
       \/ unit = "chunk" /\ ChunkNext /\ UNCHANGED <<tables, coVars, patterns>>

(* What is stated in the modules, of the behaviours of their part.  The    *)
(* invariants of coroutines hold of an empty C stack.                      *)
TableIsAMap == unit = "table" => Tables!TableIsAMap
TraversalIsComplete == unit = "table" => Tables!TraversalIsComplete
MatchMeansPattern == unit = "pattern" => Pat!MatchMeansPattern
EveryMatchOnce == unit = "pattern" => Pat!EveryMatchOnce
ChunkMeansText == [][unit = "chunk" => EndsAsMeant]_chunkVars
ChunkIsSound == [][unit = "chunk" => KeepsSound]_chunkVars
=============================================================================
