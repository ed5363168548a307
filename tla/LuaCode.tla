------------------------------ MODULE LuaCode ------------------------------
(***************************************************************************)
(* The code generator of Lua (src/netdisk4tc/lua/lcode.c).  Every operator *)
(* takes and returns a state x of the compiler: the function being         *)
(* compiled (x.fs, the FuncState of the code), the functions around it     *)
(* (x.up) and the expression at hand (x.e, an expdesc).  Jumps that wait   *)
(* for their target are lists threaded through the offsets of the jumps.   *)
(* fs.bad is set where an assertion of the code would fail, fs.err where   *)
(* it reports that a limit is passed.                                      *)
(***************************************************************************)
EXTENDS LuaOpcodes, SequencesExt

CONSTANT MaxStack       \* MAXSTACK

ASSUME CodeAssumption == MaxStack \in 3 .. NoReg

NoJump == -1
MultRet == -1

InitExp(k, i) == [k |-> k, info |-> i, aux |-> 0, t |-> NoJump, f |-> NoJump]
HasMultRet(k) == k \in {"VCALL", "VVARARG"}

HasJumps(e) == e.t # e.f
IsNumeral(e) == e.k = "VKNUM" /\ e.t = NoJump /\ e.f = NoJump

Pc(fs) == Len(fs.code)
Check(fs, c) == [fs EXCEPT !.bad = @ \/ ~c]
Mapped(x, fs) == [x EXCEPT !.fs = fs]
GetCode(fs, e) == fs.code[e.info + 1]

-----------------------------------------------------------------------------
(* Jumps                                                                   *)

GetJump(fs, pc) == IF fs.code[pc + 1].b = NoJump THEN NoJump ELSE pc + 1 + fs.code[pc + 1].b

FixJump(fs, pc, dest) == Check([fs EXCEPT !.code[pc + 1].b = dest - (pc + 1)], dest # NoJump)

RECURSIVE JumpList(_, _)
JumpList(fs, list) ==
    IF list = NoJump THEN << >> ELSE <<list>> \o JumpList(fs, GetJump(fs, list))

(* luaK_concat: the new state of the code and the list.                    *)
ConcatLists(fs, l1, l2) ==
    IF l2 = NoJump THEN <<fs, l1>>
    ELSE IF l1 = NoJump THEN <<fs, l2>>
    ELSE <<FixJump(fs, Last(JumpList(fs, l1)), l2), l1>>

(* getjumpcontrol: the test in front of a jump, or the jump.               *)
JumpControl(fs, pc) == IF pc >= 1 /\ fs.code[pc].op \in TMode THEN pc ELSE pc + 1

IsTestSet(fs, node) == fs.code[JumpControl(fs, node)].op = "TESTSET"

NeedValue(fs, list) == \E j \in ToSet(JumpList(fs, list)) : ~IsTestSet(fs, j)

(* Mutant: a register that has the value already is not told apart.        *)
PatchTestReg_Always(fs, node, reg) ==
    LET c == JumpControl(fs, node)
        i == fs.code[c]
    IN  IF i.op # "TESTSET" THEN fs
        ELSE IF reg # NoReg THEN [fs EXCEPT !.code[c].a = reg]
        ELSE fs

PatchTestReg(fs, node, reg) ==
    LET c == JumpControl(fs, node)
        i == fs.code[c]
    IN  IF i.op # "TESTSET" THEN fs
        ELSE IF reg # NoReg /\ reg # i.b THEN [fs EXCEPT !.code[c].a = reg]
        ELSE [fs EXCEPT !.code[c] = Instr("TEST", i.b, 0, i.c)]

RECURSIVE RemoveValues(_, _)
RemoveValues(fs, list) ==
    IF list = NoJump THEN fs ELSE RemoveValues(PatchTestReg(fs, list, NoReg), GetJump(fs, list))

(* The jumps of a list that give a value lead to vtarget, the others to    *)
(* dtarget.                                                                *)
RECURSIVE PatchListAux(_, _, _, _, _)
PatchListAux(fs, list, vtarget, reg, dtarget) ==
    IF list = NoJump THEN fs
    ELSE PatchListAux(FixJump(PatchTestReg(fs, list, reg), list,
                              IF IsTestSet(fs, list) THEN vtarget ELSE dtarget),
                      GetJump(fs, list), vtarget, reg, dtarget)

DischargeJpc(fs) == [PatchListAux(fs, fs.jpc, Pc(fs), NoReg, Pc(fs)) EXCEPT !.jpc = NoJump]

GetLabel(fs) == [fs EXCEPT !.lasttarget = Pc(fs)]

PatchToHere(fs, list) ==
    LET c == ConcatLists(GetLabel(fs), fs.jpc, list) IN [c[1] EXCEPT !.jpc = c[2]]

PatchList(fs, list, target) ==
    IF target = Pc(fs) THEN PatchToHere(fs, list)
    ELSE Check(PatchListAux(fs, list, target, NoReg, target), target < Pc(fs))

-----------------------------------------------------------------------------
(* Instructions, registers and constants                                   *)

Code(fs, i) == [DischargeJpc(fs) EXCEPT !.code = Append(@, i)]

CodeABC(fs, o, a, b, c) == Code(fs, Instr(o, a, b, c))
CodeABx(fs, o, a, bx) == Code(fs, Instr(o, a, bx, 0))

(* luaK_jump: the code and the position of the jump, in front of the jumps *)
(* that wait for this place.                                               *)
Jump(fs) == ConcatLists(CodeABx([fs EXCEPT !.jpc = NoJump], "JMP", 0, NoJump), Pc(fs), fs.jpc)

CondJump(fs, o, a, b, c) == Jump(CodeABC(fs, o, a, b, c))

Ret(fs, first, nret) == CodeABC(fs, "RETURN", first, nret + 1, 0)

(* Mutant: jumps to this place are not minded.                             *)
LoadNil_NoLabel(fs, from, n) ==
    LET pc   == Pc(fs)
        prev == fs.code[pc]
    IN  IF pc = 0 THEN IF from >= fs.nactvar THEN fs ELSE CodeABC(fs, "LOADNIL", from, from + n - 1, 0)
        ELSE IF prev.op = "LOADNIL" /\ prev.a <= from /\ from <= prev.b + 1
        THEN IF from + n - 1 > prev.b THEN [fs EXCEPT !.code[pc].b = from + n - 1] ELSE fs
        ELSE CodeABC(fs, "LOADNIL", from, from + n - 1, 0)

(* luaK_nil                                                                *)
LoadNil(fs, from, n) ==
    LET pc     == Pc(fs)
        before == IF pc = 0 THEN Instr("none", 0, 0, 0) ELSE fs.code[pc]
        free   == pc > fs.lasttarget
    IN  IF free /\ pc = 0 /\ from >= fs.nactvar THEN fs
        ELSE IF free /\ before.op = "LOADNIL" /\ before.a <= from /\ from <= before.b + 1
        THEN IF from + n - 1 > before.b THEN [fs EXCEPT !.code[pc].b = from + n - 1] ELSE fs
        ELSE CodeABC(fs, "LOADNIL", from, from + n - 1, 0)

CheckStack(fs, n) ==
    LET new == fs.freereg + n
    IN  IF new <= fs.maxstack THEN fs
        ELSE [fs EXCEPT !.err = @ \/ new >= MaxStack, !.maxstack = new]

ReserveRegs(fs, n) == [CheckStack(fs, n) EXCEPT !.freereg = @ + n]

FreeReg(fs, reg) ==
    IF IsK(reg) \/ reg < fs.nactvar THEN fs
    ELSE Check([fs EXCEPT !.freereg = @ - 1], reg = fs.freereg - 1)

FreeExp(fs, e) == IF e.k = "VNONRELOC" THEN FreeReg(fs, e.info) ELSE fs

(* addk: the code and the index of the constant.                           *)
AddK(fs, v) ==
    IF v \in ToSet(fs.k) THEN <<fs, (CHOOSE i \in DOMAIN fs.k : fs.k[i] = v) - 1>>
    ELSE <<[fs EXCEPT !.k = Append(@, v)], Len(fs.k)>>

Num(n) == <<"num", n>>
Bool(b) == <<"bool", b>>
NilV == <<"nil">>

SetReturns(fs, e, nresults) ==
    IF e.k = "VCALL" THEN [fs EXCEPT !.code[e.info + 1].c = nresults + 1]
    ELSE IF e.k = "VVARARG"
    THEN ReserveRegs([fs EXCEPT !.code[e.info + 1].b = nresults + 1,
                                !.code[e.info + 1].a = fs.freereg], 1)
    ELSE fs

SetOneRet(x) ==
    IF x.e.k = "VCALL"
    THEN [x EXCEPT !.e.k = "VNONRELOC", !.e.info = GetCode(x.fs, x.e).a]
    ELSE IF x.e.k = "VVARARG"
    THEN [x EXCEPT !.fs.code[x.e.info + 1].b = 2, !.e.k = "VRELOCABLE"]
    ELSE x

-----------------------------------------------------------------------------
(* Expressions into registers                                              *)

(* The expression becomes the result of a new instruction.                 *)
Relocable(x, o, b, c) ==
    [x EXCEPT !.fs = CodeABC(x.fs, o, 0, b, c), !.e.k = "VRELOCABLE", !.e.info = Pc(x.fs)]

DischargeVars(x) ==
    LET e == x.e IN
    CASE e.k = "VLOCAL"   -> [x EXCEPT !.e.k = "VNONRELOC"]
      [] e.k = "VUPVAL"   -> Relocable(x, "GETUPVAL", e.info, 0)
      [] e.k = "VGLOBAL"  -> Relocable(x, "GETGLOBAL", e.info, 0)
      [] e.k = "VINDEXED" -> Relocable(Mapped(x, FreeReg(FreeReg(x.fs, e.aux), e.info)),
                                       "GETTABLE", e.info, e.aux)
      [] OTHER            -> SetOneRet(x)

(* The value y, no variable any more, goes to the register.                *)
ToReg(y, reg) ==
    LET e  == y.e
        kn == AddK(y.fs, Num(e.info))
    IN  IF e.k \in {"VVOID", "VJMP"} THEN y
        ELSE [y EXCEPT !.e.info = reg, !.e.k = "VNONRELOC",
                !.fs = CASE e.k = "VNIL"               -> LoadNil(@, reg, 1)
                         [] e.k \in {"VFALSE", "VTRUE"} ->
                                CodeABC(@, "LOADBOOL", reg, IF e.k = "VTRUE" THEN 1 ELSE 0, 0)
                         [] e.k \in {"VK", "VKNUM"}    ->
                                IF e.k = "VK" THEN CodeABx(@, "LOADK", reg, e.info)
                                ELSE CodeABx(kn[1], "LOADK", reg, kn[2])
                         [] e.k = "VRELOCABLE"         -> [@ EXCEPT !.code[e.info + 1].a = reg]
                         [] e.k = "VNONRELOC"          ->
                                IF reg = e.info THEN @ ELSE CodeABC(@, "MOVE", reg, e.info, 0)
                         [] OTHER                      -> Check(@, FALSE)]

Discharge2Reg(x, reg) == ToReg(DischargeVars(x), reg)

Discharge2AnyReg(x) ==
    IF x.e.k = "VNONRELOC" THEN x
    ELSE Discharge2Reg(Mapped(x, ReserveRegs(x.fs, 1)), x.fs.freereg)

(* The loads of false and true behind an expression that jumps over them   *)
(* with jump j: the code and the positions of the two.                     *)
CodeLabel(fs, reg, b, skip) == CodeABC(GetLabel(fs), "LOADBOOL", reg, b, skip)
LoadValues(j, reg) ==
    <<PatchToHere(CodeLabel(CodeLabel(j[1], reg, 0, 1), reg, 1, 0), j[2]), Pc(j[1]), Pc(j[1]) + 1>>

(* A jump at the end of the expression is one more of its true exits.      *)
JoinJump(y) ==
    LET c == ConcatLists(y.fs, y.e.t, IF y.e.k = "VJMP" THEN y.e.info ELSE NoJump)
    IN  [y EXCEPT !.fs = c[1], !.e.t = c[2]]

(* The exits of z lead behind its code, or to the loads v.                 *)
PatchExits(z, v, reg) ==
    LET l == GetLabel(v[1])
    IN  PatchListAux(PatchListAux(l, z.e.f, Pc(l), reg, v[2]), z.e.t, Pc(l), reg, v[3])

ValueOf(z, reg) ==
    IF ~HasJumps(z.e) THEN z.fs
    ELSE PatchExits(z, IF NeedValue(z.fs, z.e.t) \/ NeedValue(z.fs, z.e.f)
                       THEN LoadValues(IF z.e.k = "VJMP" THEN <<z.fs, NoJump>> ELSE Jump(z.fs), reg)
                       ELSE <<z.fs, NoJump, NoJump>>, reg)

(* exp2reg                                                                 *)
Exp2Reg(x, reg) ==
    [x EXCEPT !.fs = ValueOf(JoinJump(Discharge2Reg(x, reg)), reg), !.e = InitExp("VNONRELOC", reg)]

ToNextReg(y) ==
    LET fs == ReserveRegs(FreeExp(y.fs, y.e), 1) IN Exp2Reg(Mapped(y, fs), fs.freereg - 1)

Exp2NextReg(x) == ToNextReg(DischargeVars(x))

ToAnyReg(y) ==
    IF y.e.k = "VNONRELOC" /\ ~HasJumps(y.e) THEN y
    ELSE IF y.e.k = "VNONRELOC" /\ y.e.info >= y.fs.nactvar THEN Exp2Reg(y, y.e.info)
    ELSE Exp2NextReg(y)

Exp2AnyReg(x) == ToAnyReg(DischargeVars(x))

Exp2Val(x) == IF HasJumps(x.e) THEN Exp2AnyReg(x) ELSE DischargeVars(x)

(* The operand is RK of the resulting expression.                          *)
ToRK(y) ==
    LET c == CASE y.e.k = "VNIL"  -> AddK(y.fs, NilV)
               [] y.e.k = "VKNUM" -> AddK(y.fs, Num(y.e.info))
               [] OTHER           -> AddK(y.fs, Bool(y.e.k = "VTRUE"))
    IN  IF y.e.k \in {"VKNUM", "VTRUE", "VFALSE", "VNIL"} /\ Len(y.fs.k) <= MaxIndexRK
        THEN [y EXCEPT !.fs = c[1], !.e.k = "VK", !.e.info = c[2]]
        ELSE IF y.e.k = "VK" /\ y.e.info <= MaxIndexRK THEN y
        ELSE Exp2AnyReg(y)

Exp2RK(x) == ToRK(Exp2Val(x))

RK(e) == IF e.k = "VK" THEN RKAsK(e.info) ELSE e.info

(* An instruction that takes the expression as its last use.               *)
UsedBy(y, o, a, b, c) == Mapped(y, FreeExp(CodeABC(y.fs, o, a, b, c), y.e))

StoreFrom(y, var) ==
    IF var.k = "VINDEXED" THEN UsedBy(y, "SETTABLE", var.info, var.aux, RK(y.e))
    ELSE UsedBy(y, IF var.k = "VUPVAL" THEN "SETUPVAL" ELSE "SETGLOBAL", y.e.info, var.info, 0)

StoreVar(x, var) ==
    IF var.k = "VLOCAL" THEN Exp2Reg(Mapped(x, FreeExp(x.fs, x.e)), var.info)
    ELSE StoreFrom(IF var.k = "VINDEXED" THEN Exp2RK(x) ELSE Exp2AnyReg(x), var)

SelfCode(k, func, obj) == UsedBy(k, "SELF", func, obj, RK(k.e)).fs

(* luaK_self: y holds the object.                                          *)
SelfOf(y, key) ==
    LET free == FreeExp(y.fs, y.e)
    IN  [y EXCEPT !.fs = SelfCode(Exp2RK([y EXCEPT !.fs = ReserveRegs(free, 2), !.e = key]), free.freereg, y.e.info),
                  !.e.info = free.freereg, !.e.k = "VNONRELOC"]

Self(x, key) == SelfOf(Exp2AnyReg(x), key)

-----------------------------------------------------------------------------
(* Conditions                                                              *)

InvertJump(fs, e) ==
    LET c == JumpControl(fs, e.info)
    IN  Check([fs EXCEPT !.code[c].a = 1 - @], fs.code[c].op \in TMode \ {"TEST", "TESTSET"})

TestJump(y, cond) == CondJump(FreeExp(y.fs, y.e), "TESTSET", NoReg, y.e.info, cond)

JumpOnCond(x, cond) ==
    LET ie == IF x.e.k = "VRELOCABLE" THEN GetCode(x.fs, x.e) ELSE Instr("none", 0, 0, 0)
    IN  IF ie.op = "NOT"
        THEN CondJump([x.fs EXCEPT !.code = Front(@)], "TEST", ie.b, 0, 1 - cond)
        ELSE TestJump(Discharge2AnyReg(x), cond)

(* The jump j is one more exit of y, the others lead here.                 *)
ExitFalse(y, j) ==
    LET c == ConcatLists(j[1], y.e.f, j[2])
    IN  [y EXCEPT !.fs = PatchToHere(c[1], y.e.t), !.e.f = c[2], !.e.t = NoJump]

ExitTrue(y, j) ==
    LET c == ConcatLists(j[1], y.e.t, j[2])
    IN  [y EXCEPT !.fs = PatchToHere(c[1], y.e.f), !.e.t = c[2], !.e.f = NoJump]

TrueOf(y) ==
    ExitFalse(y, CASE y.e.k \in {"VK", "VKNUM", "VTRUE"} -> <<y.fs, NoJump>>
                   [] y.e.k = "VJMP"                     -> <<InvertJump(y.fs, y.e), y.e.info>>
                   [] OTHER                              -> JumpOnCond(y, 0))

GoIfTrue(x) == TrueOf(DischargeVars(x))

FalseOf(y) ==
    ExitTrue(y, CASE y.e.k \in {"VNIL", "VFALSE"} -> <<y.fs, NoJump>>
                  [] y.e.k = "VJMP"               -> <<y.fs, y.e.info>>
                  [] OTHER                        -> JumpOnCond(y, 1))

GoIfFalse(x) == FalseOf(DischargeVars(x))

NotReg(r) == Relocable(Mapped(r, FreeExp(r.fs, r.e)), "NOT", r.e.info, 0)

NotOf(y) ==
    CASE y.e.k \in {"VNIL", "VFALSE"}        -> [y EXCEPT !.e.k = "VTRUE"]
      [] y.e.k \in {"VK", "VKNUM", "VTRUE"}  -> [y EXCEPT !.e.k = "VFALSE"]
      [] y.e.k = "VJMP"                      -> Mapped(y, InvertJump(y.fs, y.e))
      [] OTHER                               -> NotReg(Discharge2AnyReg(y))

SwapExits(z) ==
    [z EXCEPT !.e.f = z.e.t, !.e.t = z.e.f, !.fs = RemoveValues(RemoveValues(@, z.e.t), z.e.f)]

CodeNot(x) == SwapExits(NotOf(DischargeVars(x)))

IndexedBy(y, t) == [y EXCEPT !.e = [t EXCEPT !.k = "VINDEXED", !.aux = RK(y.e)]]
Indexed(x, t) == IndexedBy(Exp2RK(x), t)

-----------------------------------------------------------------------------
(* Operators                                                               *)

LuaMod(a, b) == IF b > 0 THEN a % b ELSE -((-a) % (-b))

Folds(op, e1, e2) ==
    /\ IsNumeral(e1) /\ IsNumeral(e2) /\ op \in {"ADD", "SUB", "MUL", "MOD", "UNM"}
    /\ op = "MOD" => e2.info # 0

Folded(op, a, b) ==
    CASE op = "ADD" -> a + b [] op = "SUB" -> a - b [] op = "MUL" -> a * b
      [] op = "MOD" -> LuaMod(a, b) [] OTHER -> -a

(* codearith: x.e is the second operand; y is the state with it in place,  *)
(* z that with the first one too.                                          *)
ArithOf(op, y, z) ==
    LET o2 == IF op \in {"UNM", "LEN"} THEN 0 ELSE RK(y.e)
        o1 == RK(z.e)
        fs == IF o1 > o2 THEN FreeExp(FreeExp(z.fs, z.e), y.e) ELSE FreeExp(FreeExp(z.fs, y.e), z.e)
    IN  Relocable(Mapped(z, fs), op, o1, o2)

ArithWith(op, e1, y) == ArithOf(op, y, Exp2RK([y EXCEPT !.e = e1]))

CodeArith(op, e1, x) ==
    IF Folds(op, e1, x.e) THEN [x EXCEPT !.e = [e1 EXCEPT !.info = Folded(op, e1.info, x.e.info)]]
    ELSE ArithWith(op, e1, IF op \in {"UNM", "LEN"} THEN x ELSE Exp2RK(x))

(* codecomp: y is the state with the first operand in place, z with both.  *)
Compared(j, y, z) == [z EXCEPT !.fs = j[1], !.e = [y.e EXCEPT !.info = j[2], !.k = "VJMP"]]

CompOf(op, cond, y, z) ==
    LET swap == cond = 0 /\ op # "EQ"
    IN  Compared(CondJump(FreeExp(FreeExp(z.fs, z.e), y.e), op, IF swap THEN 1 ELSE cond,
                          RK((IF swap THEN z ELSE y).e), RK((IF swap THEN y ELSE z).e)), y, z)

CompWith(op, cond, y, e2) == CompOf(op, cond, y, Exp2RK([y EXCEPT !.e = e2]))

CodeComp(op, cond, e1, x) == CompWith(op, cond, Exp2RK([x EXCEPT !.e = e1]), x.e)

UnArith(op, y) == CodeArith(op, y.e, [y EXCEPT !.e = InitExp("VKNUM", 0)])

Prefix(op, x) ==
    IF op = "not" THEN CodeNot(x)
    ELSE IF op = "-" THEN UnArith("UNM", IF IsNumeral(x.e) THEN x ELSE Exp2AnyReg(x))
    ELSE UnArith("LEN", Exp2AnyReg(x))

Infix(op, x) ==
    CASE op = "and" -> GoIfTrue(x)
      [] op = "or"  -> GoIfFalse(x)
      [] op = ".."  -> Exp2NextReg(x)
      [] OTHER      -> IF op \in Arith2 /\ IsNumeral(x.e) THEN x ELSE Exp2RK(x)

(* A concatenation on the right takes the left operand in: a..b..c is one  *)
(* instruction.                                                            *)
ConcatOf(e1, y) ==
    LET in == y.e.k = "VRELOCABLE" /\ GetCode(y.fs, y.e).op = "CONCAT"
        fs == FreeExp(Check(y.fs, e1.info = GetCode(y.fs, y.e).b - 1), e1)
    IN  IF in THEN [y EXCEPT !.fs = [fs EXCEPT !.code[y.e.info + 1].b = e1.info],
                             !.e = [e1 EXCEPT !.k = "VRELOCABLE", !.info = y.e.info]]
        ELSE CodeArith("CONCAT", e1, Exp2NextReg(y))

AndOf(e1, y) ==
    LET f == ConcatLists(Check(y.fs, e1.t = NoJump), y.e.f, e1.f) IN [y EXCEPT !.fs = f[1], !.e.f = f[2]]

OrOf(e1, y) ==
    LET t == ConcatLists(Check(y.fs, e1.f = NoJump), y.e.t, e1.t) IN [y EXCEPT !.fs = t[1], !.e.t = t[2]]

(* The test an operator becomes, and the result it is to have.             *)
Comparison == ("==" :> <<"EQ", 1>>) @@ ("~=" :> <<"EQ", 0>>) @@ ("<" :> <<"LT", 1>>)
              @@ ("<=" :> <<"LE", 1>>) @@ (">" :> <<"LT", 0>>) @@ (">=" :> <<"LE", 0>>)

Posfix(op, e1, x) ==
    CASE op = "and" -> AndOf(e1, DischargeVars(x))
      [] op = "or"  -> OrOf(e1, DischargeVars(x))
      [] op = ".."  -> ConcatOf(e1, Exp2Val(x))
      [] op \in DOMAIN Comparison -> CodeComp(Comparison[op][1], Comparison[op][2], e1, x)
      [] OTHER      -> CodeArith(op, e1, x)

(* luaK_setlist                                                            *)
SetList(fs, base, nelems, tostore) ==
    LET c == ((nelems - 1) \div FieldsPerFlush) + 1
        b == IF tostore = MultRet THEN 0 ELSE tostore
    IN  [Check(IF c <= MaxArgC THEN CodeABC(fs, "SETLIST", base, b, c)
               ELSE Code(CodeABC(fs, "SETLIST", base, b, 0), Instr("COUNT", 0, c, 0)),
               tostore # 0) EXCEPT !.freereg = base + 1]
=============================================================================
