----------------------------- MODULE LuaParser -----------------------------
(***************************************************************************)
(* The compiler of Lua chunks (src/netdisk4tc/lua/lparser.c): scopes,      *)
(* upvalues, expressions and statements to prototypes of functions.  The   *)
(* reading of tokens and the priorities of operators are left out: the     *)
(* input is the tree that they find.  A node is a tuple with its kind      *)
(* first:                                                                  *)
(*   <<"nil">> <<"true">> <<"false">> <<"num",n>> <<"str",s>> <<"...">>    *)
(*   <<"name",v>> <<"paren",e>> <<"index",t,k>> <<"call",f,args>>          *)
(*   <<"method",o,name,args>> <<"un",op,e>> <<"bin",op,a,b>>               *)
(*   <<"table",items>> with <<"item",e>> and <<"pair",k,e>>                *)
(*   <<"function",params,dots,body>>, and for statements                   *)
(*   <<"local",names,es>> <<"localfunction",name,f>> <<"set",vars,es>>     *)
(*   <<"funcstat",var,method,f>> <<"do",b>> <<"while",e,b>>                *)
(*   <<"repeat",b,e>> <<"if",clauses,else>> <<"for",v,es,b>>               *)
(*   <<"forin",vs,es,b>> <<"return",es>> <<"break">> <<"stat",call>>       *)
(***************************************************************************)
EXTENDS LuaCode

CONSTANTS MaxVars, MaxUpvalues      \* LUAI_MAXVARS, LUAI_MAXUPVALUES

ASSUME ParserAssumption == MaxVars \in Nat /\ MaxUpvalues \in Nat

-----------------------------------------------------------------------------
(* Variables and scopes.  actvar holds the active variables and behind     *)
(* them those declared that are not active yet.                            *)

FStr(s) == <<"str", IF s = "" THEN << >> ELSE <<s>>>>

NewLocals(fs, names) ==
    [fs EXCEPT !.actvar = @ \o names, !.err = @ \/ Len(fs.actvar \o names) > MaxVars]

AdjustLocalVars(fs, n) == [fs EXCEPT !.nactvar = @ + n]

RemoveVars(fs, tolevel) == [fs EXCEPT !.nactvar = tolevel, !.actvar = SubSeq(@, 1, tolevel)]

(* indexupvalue: the function and the index of the upvalue.                *)
IndexUpvalue(fs, name, e) ==
    LET at == SelectInSeq(fs.upvalues, LAMBDA u : u.k = e.k /\ u.info = e.info)
    IN  IF at # 0 THEN <<Check(fs, fs.upvalues[at].name = name), at - 1>>
        ELSE <<[Check(fs, e.k \in {"VLOCAL", "VUPVAL"}) EXCEPT
                    !.upvalues = Append(@, [k |-> e.k, info |-> e.info, name |-> name]),
                    !.err = @ \/ Len(fs.upvalues) + 1 > MaxUpvalues], Len(fs.upvalues)>>

SearchVar(fs, name) == SelectLastInSubSeq(fs.actvar, 1, fs.nactvar, LAMBDA v : v = name) - 1

MarkUpval(fs, level) ==
    LET at == SelectLastInSeq(fs.bl, LAMBDA b : b.nactvar <= level)
    IN  IF at = 0 THEN fs ELSE [fs EXCEPT !.bl[at].upval = TRUE]

(* singlevaraux over the functions from the outermost to the innermost:    *)
(* the functions and the expression.                                       *)
RECURSIVE SingleVarAux(_, _, _)
SingleVarAux(stk, name, base) ==
    LET fs  == Last(stk)
        v   == SearchVar(fs, name)
        local    == <<IF base THEN stk ELSE Append(Front(stk), MarkUpval(fs, v)), InitExp("VLOCAL", v)>>
        from(up) == IF up[2].k = "VGLOBAL" THEN <<stk, up[2]>>
                    ELSE LET idx == IndexUpvalue(fs, name, up[2])
                         IN  <<Append(up[1], idx[1]), InitExp("VUPVAL", idx[2])>>
    IN  IF stk = << >> THEN <<stk, InitExp("VGLOBAL", NoReg)>>
        ELSE IF v >= 0 THEN local ELSE from(SingleVarAux(Front(stk), name, FALSE))

VarFound(x, name, r) ==
    LET k == AddK(x.fs, FStr(name))
    IN  IF r[2].k = "VGLOBAL" THEN [x EXCEPT !.fs = k[1], !.e = InitExp("VGLOBAL", k[2])]
        ELSE [x EXCEPT !.up = Front(r[1]), !.fs = Last(r[1]), !.e = r[2]]

SingleVar(x, name) == VarFound(x, name, SingleVarAux(Append(x.up, x.fs), name, TRUE))

EnterBlock(fs, breakable) ==
    Check([fs EXCEPT !.bl = Append(@, [breaklist |-> NoJump, isbreakable |-> breakable,
                                       nactvar |-> fs.nactvar, upval |-> FALSE])],
          fs.freereg = fs.nactvar)

LeaveBlock(fs) ==
    LET bl   == Last(fs.bl)
        left == RemoveVars([fs EXCEPT !.bl = Front(@), !.freereg = bl.nactvar], bl.nactvar)
    IN  PatchToHere(Check(IF bl.upval THEN CodeABC(left, "CLOSE", bl.nactvar, 0, 0) ELSE left,
                          ~(bl.isbreakable /\ bl.upval)), bl.breaklist)

(* The jump that leaves a loop: all blocks up to it are closed.            *)
BreakStat(fs) ==
    LET at    == SelectLastInSeq(fs.bl, LAMBDA b : b.isbreakable)
        upval == \E i \in at + 1 .. Len(fs.bl) : fs.bl[i].upval
        bl    == fs.bl[at]
        breaks(j) == LET c == ConcatLists(j[1], bl.breaklist, j[2])
                     IN  [c[1] EXCEPT !.bl[at].breaklist = c[2]]
    IN  IF at = 0 THEN [fs EXCEPT !.err = TRUE]
        ELSE breaks(Jump(IF upval THEN CodeABC(fs, "CLOSE", bl.nactvar, 0, 0) ELSE fs))

(* The code with an expression, if there is one, in the next register.     *)
InNextReg(x) == IF x.e.k = "VVOID" THEN x.fs ELSE Exp2NextReg(x).fs

(* adjust_assign: x.e is the last of nexps expressions for nvars variables.*)
AdjustAssign(x, nvars, nexps) ==
    LET extra == nvars - nexps
        open  == IF extra + 1 < 0 THEN 0 ELSE extra + 1
        many(fs) == IF open > 1 THEN ReserveRegs(fs, open - 1) ELSE fs
        nils(fs) == IF extra > 0 THEN LoadNil(ReserveRegs(fs, extra), fs.freereg, extra) ELSE fs
    IN  Mapped(x, IF HasMultRet(x.e.k) THEN many(SetReturns(x.fs, x.e, open)) ELSE nils(InNextReg(x)))

-----------------------------------------------------------------------------
(* Functions                                                               *)

NewFunc == [code |-> << >>, lasttarget |-> -1, jpc |-> NoJump, freereg |-> 0, k |-> << >>,
            p |-> << >>, nactvar |-> 0, actvar |-> << >>, upvalues |-> << >>, bl |-> << >>,
            maxstack |-> 2, numparams |-> 0, vararg |-> {}, bad |-> FALSE, err |-> FALSE]

OpenFunc(x) == [x EXCEPT !.up = Append(@, x.fs), !.fs = NewFunc]

Proto(fs) == [code |-> fs.code, k |-> fs.k, p |-> fs.p, nups |-> Len(fs.upvalues),
              numparams |-> fs.numparams, vararg |-> fs.vararg, maxstack |-> fs.maxstack]

CloseFunc(fs) == Check(Ret(RemoveVars(fs, 0), 0, 0), fs.bl = << >>)

(* pushclosure, with what the functions around know of failures.           *)
PushClosure(x, func) ==
    LET made == CodeABx([x.fs EXCEPT !.p = Append(@, Proto(func)), !.bad = @ \/ func.bad,
                                     !.err = @ \/ func.err], "CLOSURE", 0, Len(x.fs.p))
        bind(fs, u) == CodeABC(fs, IF u.k = "VLOCAL" THEN "MOVE" ELSE "GETUPVAL", 0, u.info, 0)
    IN  [x EXCEPT !.fs = FoldLeft(bind, made, func.upvalues), !.e = InitExp("VRELOCABLE", Pc(x.fs))]

ParList(fs, params, dots) ==
    LET all == NewLocals(fs, IF dots THEN Append(params, "arg") ELSE params)
        act == AdjustLocalVars(all, Len(all.actvar) - all.nactvar)
    IN  ReserveRegs([act EXCEPT !.vararg = IF dots THEN {"HASARG", "NEEDSARG", "ISVARARG"} ELSE {},
                                !.numparams = IF dots THEN act.nactvar - 1 ELSE act.nactvar],
                    act.nactvar)

(* The code of an expression or a statement, by the kind of its node.      *)
RECURSIVE Compile(_, _)
Expr(x, n) == Compile(x, n)

(* After every statement the registers above the variables are free.       *)
EndStatement(x) ==
    Mapped(x, [Check(x.fs, x.fs.maxstack >= x.fs.freereg /\ x.fs.freereg >= x.fs.nactvar)
               EXCEPT !.freereg = x.fs.nactvar])

Chunk(x, b) == FoldLeft(LAMBDA acc, n : EndStatement(Compile(acc, n)), x, b)

Body(x, f, needself) ==
    LET open == OpenFunc(x)
        self == IF needself THEN AdjustLocalVars(NewLocals(open.fs, <<"self">>), 1) ELSE open.fs
        back(done) == PushClosure([done EXCEPT !.up = Front(@), !.fs = Last(done.up)], CloseFunc(done.fs))
    IN  back(Chunk([open EXCEPT !.fs = ParList(self, f[2], f[3])], f[4]))

-----------------------------------------------------------------------------
(* Expressions                                                             *)

ExpList1(x, es) ==
    FoldLeft(LAMBDA acc, e : Expr(Exp2NextReg(acc), e), Expr(x, Head(es)), Tail(es))

CallCode(x, fs, base, open) ==
    [x EXCEPT !.fs = [CodeABC(fs, "CALL", base, IF open THEN 0 ELSE fs.freereg - base, 2) EXCEPT !.freereg = base + 1],
              !.e = InitExp("VCALL", Pc(fs))]

(* x.e is the function, the state behind its arguments is args.            *)
WithArgs(x, args) ==
    LET open == HasMultRet(args.e.k)
    IN  CallCode(args, Check(IF open THEN SetReturns(args.fs, args.e, MultRet) ELSE InNextReg(args),
                             x.e.k = "VNONRELOC"), x.e.info, open)

FuncArgs(x, args) ==
    WithArgs(x, IF args = << >> THEN [x EXCEPT !.e = InitExp("VVOID", 0)] ELSE ExpList1(x, args))

(* The items of a constructor: cc is [x, t, na, tostore]; cc.x.e is the    *)
(* last list item read, VVOID when there is none.                          *)
CloseListField(cc) ==
    LET stored(fs) ==
            IF cc.tostore = FieldsPerFlush
            THEN [cc EXCEPT !.x.fs = SetList(fs, cc.t, cc.na, cc.tostore), !.tostore = 0]
            ELSE [cc EXCEPT !.x.fs = fs]
    IN  IF cc.x.e.k = "VVOID" THEN cc ELSE [stored(Exp2NextReg(cc.x).fs) EXCEPT !.x.e = InitExp("VVOID", 0)]

LastListField(cc) ==
    LET open == HasMultRet(cc.x.e.k)
        fs   == IF open THEN SetReturns(cc.x.fs, cc.x.e, MultRet) ELSE InNextReg(cc.x)
    IN  IF cc.tostore = 0 THEN cc
        ELSE [cc EXCEPT !.x.fs = SetList(fs, cc.t, cc.na, IF open THEN MultRet ELSE cc.tostore),
                        !.na = IF open THEN @ - 1 ELSE @]

YIndex(x, e) == Exp2Val(Expr(x, e))

(* One field: its code, and the registers freed again.                     *)
FieldCode(t, key, val) == CodeABC(val.fs, "SETTABLE", t, RK(key.e), RK(val.e))
FieldOf(cc, key, item) == FieldCode(cc.t, key, Exp2RK(Expr(key, item[3])))

RecField(cc, item) ==
    [cc EXCEPT !.x.fs = [FieldOf(cc, Exp2RK(YIndex(cc.x, item[2])), item) EXCEPT !.freereg = cc.x.fs.freereg]]

ListField(cc, item) ==
    [cc EXCEPT !.x = Expr(cc.x, item[2]), !.na = @ + 1, !.tostore = @ + 1]

Constructor(x, items) ==
    LET pc  == Pc(x.fs)
        tab == Exp2NextReg([x EXCEPT !.fs = CodeABC(x.fs, "NEWTABLE", 0, 0, 0), !.e = InitExp("VRELOCABLE", pc)])
        nh  == Len(SelectSeq(items, LAMBDA i : i[1] = "pair"))
        field(cc, i) == IF i[1] = "item" THEN ListField(cc, i) ELSE RecField(cc, i)
        fields(t) == FoldLeft(LAMBDA acc, i : field(CloseListField(acc), i),
                              [x |-> [t EXCEPT !.e = InitExp("VVOID", 0)], t |-> t.e.info, na |-> 0, tostore |-> 0],
                              items)
        sized(cc) == [cc.x EXCEPT !.fs.code[pc + 1].b = cc.na, !.fs.code[pc + 1].c = nh,
                                  !.e = InitExp("VNONRELOC", cc.t)]
    IN  sized(LastListField(fields(tab)))

Dots(x) ==
    [x EXCEPT !.fs = CodeABC([@ EXCEPT !.err = @ \/ "ISVARARG" \notin x.fs.vararg,
                                       !.vararg = @ \ {"NEEDSARG"}], "VARARG", 0, 1, 0),
              !.e = InitExp("VVARARG", Pc(x.fs))]

CodeString(x, s) ==
    LET k == AddK(x.fs, FStr(s)) IN [x EXCEPT !.fs = k[1], !.e = InitExp("VK", k[2])]

(* The function of a call: a value, or the method of one.                  *)
MethodOf(o, name) == LET key == CodeString(o, name) IN Self([key EXCEPT !.e = o.e], key.e)

Callee(x, n) == IF n[1] = "call" THEN Exp2NextReg(Expr(x, n[2])) ELSE MethodOf(Expr(x, n[2]), n[3])

IndexOf(t, n) == Indexed(YIndex(t, n[3]), t.e)
SecondOf(l, n) == Posfix(n[2], l.e, Expr(l, n[4]))

Expression(x, n) ==
    CASE n[1] = "nil"      -> [x EXCEPT !.e = InitExp("VNIL", 0)]
      [] n[1] = "true"     -> [x EXCEPT !.e = InitExp("VTRUE", 0)]
      [] n[1] = "false"    -> [x EXCEPT !.e = InitExp("VFALSE", 0)]
      [] n[1] = "num"      -> [x EXCEPT !.e = InitExp("VKNUM", n[2])]
      [] n[1] = "str"      -> CodeString(x, n[2])
      [] n[1] = "..."      -> Dots(x)
      [] n[1] = "name"     -> SingleVar(x, n[2])
      [] n[1] = "paren"    -> DischargeVars(Expr(x, n[2]))
      [] n[1] = "index"    -> IndexOf(Exp2AnyReg(Expr(x, n[2])), n)
      [] n[1] \in {"call", "method"} -> FuncArgs(Callee(x, n), Last(n))
      [] n[1] = "un"       -> Prefix(n[2], Expr(x, n[3]))
      [] n[1] = "bin"      -> SecondOf(Infix(n[2], Expr(x, n[3])), n)
      [] n[1] = "table"    -> Constructor(x, n[2])
      [] n[1] = "function" -> Body(x, n, FALSE)

-----------------------------------------------------------------------------
(* Statements                                                              *)

On(x, F(_)) == Mapped(x, F(x.fs))

Block(x, b) == On(Chunk(On(x, LAMBDA fs : EnterBlock(fs, FALSE)), b), LeaveBlock)

(* The condition; its jumps to the false side are the list e.f.            *)
FalseIfNil(y) == IF y.e.k = "VNIL" THEN [y EXCEPT !.e.k = "VFALSE"] ELSE y
Cond(x, n) == GoIfTrue(FalseIfNil(Expr(x, n)))

(* check_conflict: a local that is assigned here and used in a field on    *)
(* its left is copied first.                                               *)
CheckConflict(x, lhs) ==
    LET v    == x.e.info
        hit  == {i \in DOMAIN lhs : lhs[i].k = "VINDEXED" /\ v \in {lhs[i].info, lhs[i].aux}}
        safe(r) == IF r = v THEN x.fs.freereg ELSE r
    IN  IF x.e.k # "VLOCAL" \/ hit = {} THEN <<x.fs, lhs>>
        ELSE <<ReserveRegs(CodeABC(x.fs, "MOVE", x.fs.freereg, v, 0), 1),
               [i \in DOMAIN lhs |-> IF i \in hit THEN [lhs[i] EXCEPT !.info = safe(@), !.aux = safe(@)]
                                     ELSE lhs[i]]>>

(* The left sides in order: acc is [x, lhs].                              *)
Target(y, lhs) ==
    LET c == CheckConflict(y, lhs) IN [x |-> Mapped(y, c[1]), lhs |-> Append(c[2], y.e)]

Targets(x, vars) ==
    FoldLeft(LAMBDA acc, v : Target(Expr(acc.x, v), acc.lhs), [x |-> x, lhs |-> << >>], vars)

(* The value on top of the registers, or the expression there is no        *)
(* register for yet, goes to the variable.                                 *)
OnTop(x) == [x EXCEPT !.e = InitExp("VNONRELOC", x.fs.freereg - 1)]

(* The value of the last left side; more values than sides are dropped.    *)
LastValue(vals, nvars, nexps) ==
    LET drop(adj) == [adj EXCEPT !.fs.freereg = @ - (IF nexps > nvars THEN nexps - nvars ELSE 0)]
    IN  IF nvars = nexps THEN SetOneRet(vals) ELSE OnTop(drop(AdjustAssign(vals, nvars, nexps)))

StoreAll(x, lhs) ==
    FoldRight(LAMBDA i, acc : StoreVar(IF i = Len(lhs) THEN acc ELSE OnTop(acc), lhs[i]),
              [i \in DOMAIN lhs |-> i], x)

Assigned(lv, es) == StoreAll(LastValue(ExpList1(lv.x, es), Len(lv.lhs), Len(es)), lv.lhs)
Assignment(x, vars, es) == Assigned(Targets(x, vars), es)

(* The jump j goes back to pc.                                             *)
BackTo(j, pc) == PatchList(j[1], j[2], pc)

(* c is the condition, entered with the code at pc.                        *)
WhileBody(c, pc, b) ==
    LET ends(y) == Mapped(y, PatchToHere(LeaveBlock(BackTo(Jump(y.fs), pc)), c.e.f))
    IN  ends(Block(On(c, LAMBDA fs : EnterBlock(fs, TRUE)), b))

WhileStat(x, n) == WhileBody(Cond(On(x, GetLabel), n[2]), Pc(x.fs), n[3])

(* c is the condition behind the block; a variable of the block that a     *)
(* function keeps has to be closed on either way.                          *)
Until(c, pc) ==
    Mapped(c, LeaveBlock(
        IF Last(c.fs.bl).upval
        THEN BackTo(Jump(LeaveBlock(PatchToHere(BreakStat(c.fs), c.e.f))), pc)
        ELSE PatchList(LeaveBlock(c.fs), c.e.f, pc)))

RepeatStat(x, n) ==
    Until(Cond(Chunk(On(x, LAMBDA fs : EnterBlock(EnterBlock(GetLabel(fs), TRUE), FALSE)), n[2]), n[3]),
          Pc(x.fs))

(* The instruction of a loop, with its position; prep is that of the jump  *)
(* from the loop's head.                                                   *)
ForInstr(fs, o, base) == <<CodeABx(fs, o, base, NoJump), Pc(fs)>>

ForEnd(fs, prep, base, nvars, isnum) ==
    LET here == PatchToHere(LeaveBlock(fs), prep)
    IN  BackTo(IF isnum THEN ForInstr(here, "FORLOOP", base)
               ELSE Jump(CodeABC(here, "TFORLOOP", base, 0, nvars)), prep + 1)

ForHead(x, prep, base, nvars, isnum, b) ==
    LET open == AdjustLocalVars(EnterBlock(prep[1], FALSE), nvars)
    IN  On(Block(Mapped(x, ReserveRegs(open, nvars)), b),
           LAMBDA fs : ForEnd(fs, prep[2], base, nvars, isnum))

ForBody(x, base, nvars, isnum, b) ==
    LET ctl == AdjustLocalVars(x.fs, 3)
    IN  ForHead(x, IF isnum THEN ForInstr(ctl, "FORPREP", base) ELSE Jump(ctl), base, nvars, isnum, b)

LoadStep(fs) ==
    LET k == AddK(fs, Num(1)) IN ReserveRegs(CodeABx(k[1], "LOADK", fs.freereg, k[2]), 1)

NumControl(x, n) ==
    LET es == FoldLeft(LAMBDA acc, e : Exp2NextReg(Expr(acc, e)),
                       On(x, LAMBDA fs : NewLocals(fs, <<"(for index)", "(for limit)", "(for step)", n[2]>>)), n[3])
    IN  IF Len(n[3]) = 3 THEN es ELSE On(es, LoadStep)

ListControl(x, n) ==
    LET decl == On(x, LAMBDA fs : NewLocals(fs, <<"(for generator)", "(for state)", "(for control)">> \o n[2]))
    IN  On(AdjustAssign(ExpList1(decl, n[3]), 3, Len(n[3])), LAMBDA fs : CheckStack(fs, 3))

ForLoops(x, n) ==
    LET isnum == n[1] = "for"
    IN  ForBody(IF isnum THEN NumControl(x, n) ELSE ListControl(x, n), x.fs.freereg,
                IF isnum THEN 1 ELSE Len(n[2]), isnum, n[4])

ForStat(x, n) == On(ForLoops(On(x, LAMBDA fs : EnterBlock(fs, TRUE)), n), LeaveBlock)

(* The clauses of an if: acc is [x, escapelist, flist].                    *)
Escape(acc) ==
    LET joined(c) == [acc EXCEPT !.x.fs = PatchToHere(c[1], acc.flist), !.escapelist = c[2]]
        lists(j)  == joined(ConcatLists(j[1], acc.escapelist, j[2]))
    IN  lists(Jump(acc.x.fs))

TestThen(acc, clause) ==
    LET then(y) == [acc EXCEPT !.x = Block(y, clause[2]), !.flist = y.e.f]
    IN  then(Cond(acc.x, clause[1]))

EndIf(acc) ==
    LET last == ConcatLists(acc.x.fs, acc.escapelist, acc.flist)
    IN  Mapped(acc.x, PatchToHere(last[1], last[2]))

Else(acc, b) == On(Block(acc.x, b), LAMBDA fs : PatchToHere(fs, acc.escapelist))

IfStat(x, n) ==
    LET first == [x |-> x, escapelist |-> NoJump, flist |-> NoJump]
        tests == FoldLeft(LAMBDA acc, i : TestThen(IF i = 1 THEN acc ELSE Escape(acc), n[2][i]),
                          first, [i \in DOMAIN n[2] |-> i])
    IN  IF n[3] = << >> THEN EndIf(tests) ELSE Else(Escape(tests), n[3])

LocalFunc(x, n) ==
    LET v  == InitExp("VLOCAL", x.fs.freereg)
        fs == AdjustLocalVars(ReserveRegs(NewLocals(x.fs, <<n[2]>>), 1), 1)
    IN  StoreVar(Body(Mapped(x, fs), n[3], FALSE), v)

LocalStat(x, n) ==
    LET decl == On(x, LAMBDA fs : NewLocals(fs, n[2]))
        es   == IF n[3] = << >> THEN [decl EXCEPT !.e = InitExp("VVOID", 0)] ELSE ExpList1(decl, n[3])
    IN  On(AdjustAssign(es, Len(n[2]), Len(n[3])), LAMBDA fs : AdjustLocalVars(fs, Len(n[2])))

FuncStat(x, n) ==
    LET to(v) == StoreVar(Body(v, n[4], n[3]), v.e) IN to(Expr(x, n[2]))

(* The values of a return: an open list, one of any register, or all in    *)
(* the next ones.                                                          *)
RetOpen(es, nret) ==
    LET open == SetReturns(es.fs, es.e, MultRet)
        tail == es.e.k = "VCALL" /\ nret = 1
        fs   == IF tail THEN Check([open EXCEPT !.code[es.e.info + 1].op = "TAILCALL"],
                                   GetCode(open, es.e).a = open.nactvar) ELSE open
    IN  Ret(fs, open.nactvar, MultRet)

RetAll(fs, nret) == Ret(Check(fs, nret = fs.freereg - fs.nactvar), fs.nactvar, nret)
RetOne(x) == Ret(x.fs, x.e.info, 1)

RetValues(es, nret) ==
    Mapped(es, IF HasMultRet(es.e.k) THEN RetOpen(es, nret)
               ELSE IF nret = 1 THEN RetOne(Exp2AnyReg(es)) ELSE RetAll(Exp2NextReg(es).fs, nret))

RetStat(x, n) ==
    IF n[2] = << >> THEN On(x, LAMBDA fs : Ret(fs, 0, 0)) ELSE RetValues(ExpList1(x, n[2]), Len(n[2]))

NoResults(c) == [c EXCEPT !.fs.code[c.e.info + 1].c = 1]
CallStat(x, n) == NoResults(Expr(x, n[2]))

Statement(x, n) ==
    CASE n[1] = "if"            -> IfStat(x, n)
      [] n[1] = "while"         -> WhileStat(x, n)
      [] n[1] = "do"            -> Block(x, n[2])
      [] n[1] \in {"for", "forin"} -> ForStat(x, n)
      [] n[1] = "repeat"        -> RepeatStat(x, n)
      [] n[1] = "funcstat"      -> FuncStat(x, n)
      [] n[1] = "localfunction" -> LocalFunc(x, n)
      [] n[1] = "local"         -> LocalStat(x, n)
      [] n[1] = "return"        -> RetStat(x, n)
      [] n[1] = "break"         -> On(x, BreakStat)
      [] n[1] = "set"           -> Assignment(x, n[2], n[3])
      [] n[1] = "stat"          -> CallStat(x, n)

Statements == {"if", "while", "do", "for", "forin", "repeat", "funcstat", "localfunction", "local",
               "return", "break", "set", "stat"}

Compile(x, n) == IF n[1] \in Statements THEN Statement(x, n) ELSE Expression(x, n)

(* luaY_parser: the main function, as the FuncState it ends with.          *)
Parser(b) ==
    LET x == [up |-> << >>, fs |-> [NewFunc EXCEPT !.vararg = {"ISVARARG"}], e |-> InitExp("VVOID", 0)]
    IN  CloseFunc(Chunk(x, b).fs)
=============================================================================
