---------------------------- MODULE LuaVerifier ----------------------------
(***************************************************************************)
(* The code checker of Lua (src/netdisk4tc/lua/ldebug.c, luaG_checkcode):  *)
(* what a function must satisfy for the virtual machine to run it without  *)
(* checks of its own.  It is run on the functions a script loads as        *)
(* binary, and asserted of those that the compiler makes.                  *)
(***************************************************************************)
EXTENDS LuaCode

PreCheck(pt) ==
    /\ pt.maxstack <= MaxStack
    /\ pt.numparams + (IF "HASARG" \in pt.vararg THEN 1 ELSE 0) <= pt.maxstack
    /\ "NEEDSARG" \in pt.vararg => "HASARG" \in pt.vararg
    /\ pt.code # << >> /\ Last(pt.code).op = "RETURN"

(* luaG_checkopenop                                                        *)
OpenOp(i) == i.op \in {"CALL", "TAILCALL", "RETURN", "SETLIST"} /\ i.b = 0

CheckReg(pt, r) == r < pt.maxstack

CheckArgMode(pt, r, mode) ==
    CASE mode = "N" -> r = 0
      [] mode = "R" -> CheckReg(pt, r)
      [] mode = "K" -> IF IsK(r) THEN IndexK(r) < Len(pt.k) ELSE CheckReg(pt, r)
      [] OTHER      -> TRUE

(* A jump stays inside and does not lead to the count of a SETLIST: the    *)
(* instructions before its target that look like a SETLIST with a count    *)
(* behind are even in number.                                              *)
CheckJump(pt, dest) ==
    LET looks(p) == pt.code[p].op = "SETLIST" /\ pt.code[p].c = 0
        ends     == {j \in 0 .. dest : j = dest \/ ~looks(dest - j)}
    IN  dest \in 0 .. Len(pt.code) - 1 /\ (CHOOSE j \in ends : \A i \in ends : j <= i) % 2 = 0

CheckArgs(pt, pc, i) ==
    IF i.op \in ABx THEN BMode(i.op) = "K" => i.b < Len(pt.k)
    ELSE IF i.op \in AsBx THEN CheckJump(pt, pc + 1 + i.b)
    ELSE CheckArgMode(pt, i.b, BMode(i.op)) /\ CheckArgMode(pt, i.c, CMode(i.op))

(* What an instruction needs besides its modes.                            *)
CheckOp(pt, pc, i) ==
    LET next == pt.code[pc + 2] IN
    CASE i.op = "LOADBOOL" -> i.c = 1 => /\ pc + 2 < Len(pt.code)
                                         /\ ~(next.op = "SETLIST" /\ next.c = 0)
      [] i.op \in {"GETUPVAL", "SETUPVAL"} -> i.b < pt.nups
      [] i.op \in {"GETGLOBAL", "SETGLOBAL"} -> pt.k[i.b + 1][1] = "str"
      [] i.op = "SELF" -> CheckReg(pt, i.a + 1)
      [] i.op = "CONCAT" -> i.b < i.c
      [] i.op = "TFORLOOP" -> i.c >= 1 /\ CheckReg(pt, i.a + 2 + i.c)
      [] i.op \in {"FORLOOP", "FORPREP"} -> CheckReg(pt, i.a + 3)
      [] i.op \in {"CALL", "TAILCALL"} ->
            /\ i.b # 0 => CheckReg(pt, i.a + i.b - 1)
            /\ IF i.c - 1 = MultRet THEN OpenOp(next) ELSE i.c # 1 => CheckReg(pt, i.a + i.c - 2)
      [] i.op = "RETURN" -> i.b > 1 => CheckReg(pt, i.a + i.b - 2)
      [] i.op = "SETLIST" -> /\ i.b > 0 => CheckReg(pt, i.a + i.b)
                             /\ i.c = 0 => pc + 1 < Len(pt.code) - 1
      [] i.op = "CLOSURE" ->
            /\ i.b < Len(pt.p) /\ pc + pt.p[i.b + 1].nups < Len(pt.code)
            /\ \A j \in 1 .. pt.p[i.b + 1].nups : pt.code[pc + 1 + j].op \in {"GETUPVAL", "MOVE"}
      [] i.op = "VARARG" -> /\ "ISVARARG" \in pt.vararg /\ "NEEDSARG" \notin pt.vararg
                            /\ i.b - 1 = MultRet => OpenOp(next)
                            /\ CheckReg(pt, i.a + i.b - 2)
      [] OTHER -> TRUE

CheckInstr(pt, pc, i) ==
    /\ CheckReg(pt, i.a) /\ CheckArgs(pt, pc, i)
    /\ i.op \in TMode => pc + 2 < Len(pt.code) /\ pt.code[pc + 2].op = "JMP"
    /\ CheckOp(pt, pc, i)

(* symbexec over the whole function, the count of a SETLIST skipped.       *)
RECURSIVE SymbExec(_, _)
SymbExec(pt, pc) ==
    LET i == pt.code[pc + 1] IN
    pc < Len(pt.code) => /\ CheckInstr(pt, pc, i)
                         /\ SymbExec(pt, IF i.op = "SETLIST" /\ i.c = 0 THEN pc + 2 ELSE pc + 1)

RECURSIVE CheckCode(_)
CheckCode(pt) == PreCheck(pt) /\ SymbExec(pt, 0) /\ \A j \in DOMAIN pt.p : CheckCode(pt.p[j])
=============================================================================
