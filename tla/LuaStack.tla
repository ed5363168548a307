------------------------------ MODULE LuaStack ------------------------------
(***************************************************************************)
(* The operand stack of a lua_State as the C API shows it to the plugin    *)
(* (src/netdisk4tc/lua/lapi.c, ldo.c): a sequence of values, the last one  *)
(* at index -1.  Only the calls the plugin makes are here; what a value    *)
(* is, is left to the module that uses them.                               *)
(***************************************************************************)
EXTENDS Sequences, Integers

Push(st, v) == Append(st, v)

(* lua_settop with a negative index, which is what lua_pop(L, n) is.       *)
Pop(st, n) == SubSeq(st, 1, Len(st) - n)

(* The value at a negative index.                                          *)
At(st, idx) == st[Len(st) + 1 + idx]

(* Where the called function lies below its n arguments.                   *)
FuncAt(st, n) == Len(st) - n

(* The end of a call whose function lies at place `func': everything from  *)
(* there on makes room for the results, or for the message of an error     *)
(* that a protected call caught.                                           *)
Returned(st, func, results) == SubSeq(st, 1, func - 1) \o results
Caught(st, func, message)   == Append(SubSeq(st, 1, func - 1), message)

(* lua_next: the key at the top gives way to the next key and its value,   *)
(* or goes without a successor.                                            *)
NextRow(st, key, value) == Push(Push(Pop(st, 1), key), value)
NextEnds(st) == Pop(st, 1)
=============================================================================
