------------------------------- MODULE LuaVM -------------------------------
(***************************************************************************)
(* The virtual machine of Lua (src/netdisk4tc/lua/lvm.c, luaV_execute)     *)
(* with the calls and returns of ldo.c and the upvalues of lfunc.c: one    *)
(* stack for all frames, a frame per call, upvalues that live on the stack *)
(* until it is closed over them.  Numbers are integers and NaN, strings    *)
(* are sequences of parts; tables have no metatables here, so that an      *)
(* operation a metamethod would be asked for is an error.                  *)
(***************************************************************************)
EXTENDS LuaOpcodes, FiniteSets, SequencesExt, TLC

CONSTANTS Collation,    \* what strings are made of, in the order of strcoll
          StackSize,    \* bound: the slots of the stack
          MaxSteps      \* bound: instructions of a run

ASSUME VMAssumption == StackSize \in Nat \ {0} /\ MaxSteps \in Nat

VARIABLE L      \* the lua_State

NilVal == <<"nil">>
IsFalse(v) == v \in {NilVal, <<"bool", FALSE>>}
IsNum(v) == v[1] \in {"num", "nan"}
Adj(n) == IF n < 0 THEN 0 ELSE n

Ci == Last(L.ci)
Base == Ci.base
Cl == L.closures[L.stack[Ci.func][2]]
Fetch == Cl.proto.code[L.pc + 1]
R(a) == L.stack[Base + a]
K(b) == Cl.proto.k[b + 1]
RKV(x) == IF IsK(x) THEN K(IndexK(x)) ELSE R(x)

Running == L.status = "running" /\ L.steps < MaxSteps

(* The instruction at hand is o; what it changes besides the counter.      *)
Op(o) == Running /\ Fetch.op = o
Go(l, pc) == L' = [l EXCEPT !.pc = pc, !.steps = @ + 1]
Next1(l) == Go(l, L.pc + 1)
SetR(l, a, v) == [l EXCEPT !.stack[Base + a] = v]
Error == L' = [L EXCEPT !.status = "error"]
Let(ok, l) == IF ok THEN Next1(l) ELSE Error

-----------------------------------------------------------------------------
(* Tables, arithmetic, comparison                                          *)

RawGet(l, t, k) == IF k \in DOMAIN l.tables[t[2]] THEN l.tables[t[2]][k] ELSE NilVal

WithField(f, k, v) ==
    IF v = NilVal THEN [x \in DOMAIN f \ {k} |-> f[x]] ELSE (k :> v) @@ f

RawSet(l, t, k, v) == [l EXCEPT !.tables[t[2]] = WithField(@, k, v)]

GoodKey(t, k) == t[1] = "tab" /\ k \notin {NilVal, <<"nan">>}

(* luaH_getn finds a border by binary search, one of several when the      *)
(* table has gaps: which, depends on the sizes of the table's two parts    *)
(* (LuaTable.tla), which are not kept here.                                *)
Filled(f) == {k[2] : k \in {x \in DOMAIN f : x[1] = "num" /\ x[2] > 0}}
GetN(f) == {n \in {0} \cup Filled(f) : n + 1 \notin Filled(f)}

Numerals == {"ADD", "SUB", "MUL", "MOD"}

ArithV(op, a, b) ==
    IF <<"nan">> \in {a, b} \/ (op = "MOD" /\ b[2] = 0) THEN <<"nan">>
    ELSE <<"num", CASE op = "ADD" -> a[2] + b[2] [] op = "SUB" -> a[2] - b[2]
                    [] op = "MUL" -> a[2] * b[2]
                    [] OTHER -> IF b[2] > 0 THEN a[2] % b[2] ELSE -((-a[2]) % (-b[2]))>>

(* l_strcmp: the first difference decides, or that one string ends.        *)
Rank(c) == CHOOSE i \in DOMAIN Collation : Collation[i] = c

LessText(x, y) ==
    \E i \in 1 .. Len(y) :
        /\ i <= Len(x) + 1 /\ \A j \in 1 .. i - 1 : x[j] = y[j]
        /\ i = Len(x) + 1 \/ Rank(x[i]) < Rank(y[i])

Comparable(op, a, b) ==
    op = "EQ" \/ (IsNum(a) /\ IsNum(b)) \/ (a[1] = "str" /\ b[1] = "str")

CompareV(op, a, b) ==
    IF <<"nan">> \in {a, b} THEN FALSE
    ELSE CASE op = "EQ"     -> a = b
           [] a[1] = "str"  -> IF op = "LT" THEN LessText(a[2], b[2]) ELSE ~LessText(b[2], a[2])
           [] op = "LT"     -> a[2] < b[2]
           [] OTHER         -> a[2] <= b[2]

(* tostring: a number becomes a string of one part.                        *)
Parts(v) == IF v[1] = "num" THEN <<ToString(v[2])>> ELSE IF v[1] = "nan" THEN <<"nan">> ELSE v[2]
IsText(v) == v[1] = "str" \/ IsNum(v)

-----------------------------------------------------------------------------
(* Upvalues (lfunc.c)                                                      *)

(* luaF_findupval: the state and the upvalue of a stack slot.              *)
FindUpval(l, slot) ==
    LET found == {u \in DOMAIN l.upvals : l.upvals[u].open /\ l.upvals[u].slot = slot}
    IN  IF found # {} THEN <<l, CHOOSE u \in found : TRUE>>
        ELSE <<[l EXCEPT !.upvals = Append(@, [open |-> TRUE, slot |-> slot, val |-> NilVal])],
               Len(l.upvals) + 1>>

(* luaF_close: every upvalue from a slot on keeps its value for itself.    *)
Closed(l, u) == [open |-> FALSE, slot |-> -1, val |-> l.stack[u.slot]]

CloseFrom(l, slot) ==
    [l EXCEPT !.upvals = [i \in DOMAIN @ |-> IF @[i].open /\ @[i].slot >= slot THEN Closed(l, @[i])
                                             ELSE @[i]]]

UpGet(l, u) == IF l.upvals[u].open THEN l.stack[l.upvals[u].slot] ELSE l.upvals[u].val
UpSet(l, u, v) ==
    IF l.upvals[u].open THEN [l EXCEPT !.stack[l.upvals[u].slot] = v] ELSE [l EXCEPT !.upvals[u].val = v]

-----------------------------------------------------------------------------
(* Calls and returns (ldo.c)                                               *)

Slots(l, from, n) == [i \in 1 .. n |-> l.stack[from + i - 1]]

(* Values from a slot on, nil from there to the end.                       *)
Lay(stack, from, vs, end) ==
    [s \in DOMAIN stack |-> IF s >= from /\ s < from + Len(vs) THEN vs[s - from + 1]
                            ELSE IF s >= from + Len(vs) /\ s < end THEN NilVal ELSE stack[s]]

(* adjust_varargs: the fixed parameters move above the arguments, with the *)
(* table arg behind them where the function has no use for `...'.          *)
AdjustVarargs(l, p, func) ==
    LET actual == l.top - func - 1
        n      == IF actual < p.numparams THEN p.numparams ELSE actual
        filled == Lay(l.stack, l.top, << >>, func + 1 + n)
        base   == func + 1 + n
        fixed  == [i \in 1 .. p.numparams |-> filled[func + i]]
        nvar   == n - p.numparams
        extra  == {i \in 1 .. nvar : filled[func + p.numparams + i] # NilVal}
        arg    == (<<"str", <<"n">>>> :> <<"num", nvar>>)
                    @@ [k \in {<<"num", i>> : i \in extra} |-> filled[func + p.numparams + k[2]]]
        moved  == Lay(filled, func + 1, [i \in 1 .. p.numparams |-> NilVal], 0)
        needs  == "NEEDSARG" \in p.vararg
        params == IF needs THEN Append(fixed, <<"tab", Len(l.tables) + 1>>) ELSE fixed
    IN  [l EXCEPT !.stack = Lay(moved, base, params, 0), !.top = base + Len(params),
                  !.tables = IF needs THEN Append(@, arg) ELSE @]

(* luaD_precall of a Lua function: its frame.                              *)
PreCall(l, func, nresults) ==
    LET p    == l.closures[l.stack[func][2]].proto
        args == IF p.vararg = {}
                THEN [l EXCEPT !.top = IF @ > func + 1 + p.numparams THEN func + 1 + p.numparams ELSE @]
                ELSE AdjustVarargs(l, p, func)
        base == IF p.vararg = {} THEN func + 1
                ELSE args.top - p.numparams - (IF "NEEDSARG" \in p.vararg THEN 1 ELSE 0)
        end  == base + p.maxstack
    IN  [args EXCEPT !.ci = Append(@, [func |-> func, base |-> base, top |-> end,
                                       nresults |-> nresults, savedpc |-> 0, gen |-> FALSE]),
                     !.stack = Lay(args.stack, args.top, << >>, end), !.top = end]

(* luaD_poscall: the results go where the function was.                    *)
PosCall(l, func, results, wanted) ==
    LET kept == IF wanted = -1 \/ Len(results) < wanted THEN results ELSE SubSeq(results, 1, wanted)
        end  == func + (IF wanted = -1 THEN Len(results) ELSE wanted)
    IN  [l EXCEPT !.stack = Lay(@, func, kept, end), !.top = end]

(* The functions the host offers: emit writes its arguments to the trace   *)
(* and answers with them, iter counts up to its first argument.            *)
CFunction(l, name, args) ==
    IF name = "emit" THEN <<[l EXCEPT !.trace = Append(@, args)], args>>
    ELSE <<l, IF args[2][2] < args[1][2] THEN <<<<"num", args[2][2] + 1>>>> ELSE <<NilVal>> >>

CallC(l, func, wanted) ==
    LET r == CFunction(l, l.stack[func][2], Slots(l, func + 1, l.top - func - 1))
    IN  PosCall(r[1], func, r[2], wanted)

(* The caller goes on where it was; its registers are in view again unless *)
(* all results were asked for.                                             *)
Resume(l, wanted) ==
    LET ci == Last(l.ci)
    IN  L' = [l EXCEPT !.pc = ci.savedpc, !.top = IF wanted = -1 THEN @ ELSE ci.top,
                       !.steps = @ + 1]

-----------------------------------------------------------------------------
(* The instructions                                                        *)

Move == Op("MOVE") /\ Next1(SetR(L, Fetch.a, R(Fetch.b)))
LoadK == Op("LOADK") /\ Next1(SetR(L, Fetch.a, K(Fetch.b)))

LoadBool ==
    Op("LOADBOOL") /\ Go(SetR(L, Fetch.a, <<"bool", Fetch.b = 1>>), L.pc + 1 + Fetch.c)

LoadNils == Op("LOADNIL") /\ Next1([L EXCEPT !.stack = Lay(@, Base + Fetch.a, << >>, Base + Fetch.b + 1)])

GetUpval == Op("GETUPVAL") /\ Next1(SetR(L, Fetch.a, UpGet(L, Cl.upvals[Fetch.b + 1])))
SetUpval == Op("SETUPVAL") /\ Next1(UpSet(L, Cl.upvals[Fetch.b + 1], R(Fetch.a)))

Globals == <<"tab", 1>>
GetGlobal == Op("GETGLOBAL") /\ Next1(SetR(L, Fetch.a, RawGet(L, Globals, K(Fetch.b))))
SetGlobal == Op("SETGLOBAL") /\ Next1(RawSet(L, Globals, K(Fetch.b), R(Fetch.a)))

GetTable ==
    /\ Op("GETTABLE")
    /\ Let(R(Fetch.b)[1] = "tab", SetR(L, Fetch.a, RawGet(L, R(Fetch.b), RKV(Fetch.c))))

SetTable ==
    /\ Op("SETTABLE")
    /\ Let(GoodKey(R(Fetch.a), RKV(Fetch.b)), RawSet(L, R(Fetch.a), RKV(Fetch.b), RKV(Fetch.c)))

NewTable ==
    Op("NEWTABLE") /\ Next1(SetR([L EXCEPT !.tables = Append(@, << >>)],
                                 Fetch.a, <<"tab", Len(L.tables) + 1>>))

SelfOp ==
    /\ Op("SELF")
    /\ Let(R(Fetch.b)[1] = "tab",
           SetR(SetR(L, Fetch.a + 1, R(Fetch.b)), Fetch.a, RawGet(L, R(Fetch.b), RKV(Fetch.c))))

ArithOp ==
    LET b == RKV(Fetch.b)
        c == RKV(Fetch.c)
    IN  /\ Running /\ Fetch.op \in Numerals
        /\ Let(IsNum(b) /\ IsNum(c), SetR(L, Fetch.a, ArithV(Fetch.op, b, c)))

Unm == Op("UNM") /\ Let(IsNum(R(Fetch.b)), SetR(L, Fetch.a, ArithV("SUB", <<"num", 0>>, R(Fetch.b))))

Not == Op("NOT") /\ Next1(SetR(L, Fetch.a, <<"bool", IsFalse(R(Fetch.b))>>))

LenOp ==
    LET v == R(Fetch.b)
    IN  /\ Op("LEN")
        /\ IF v[1] = "tab"
           THEN \E n \in GetN(L.tables[v[2]]) :
                    Next1(SetR([L EXCEPT !.lens = Append(@, n)], Fetch.a, <<"num", n>>))
           ELSE Let(v[1] = "str", SetR(L, Fetch.a, <<"num", Len(v[2])>>))

(* luaV_concat: the strings of B to C become one in register B, which is   *)
(* then moved.                                                             *)
Concat ==
    LET vs   == Slots(L, Base + Fetch.b, Fetch.c - Fetch.b + 1)
        text == <<"str", FlattenSeq([i \in DOMAIN vs |-> Parts(vs[i])])>>
    IN  /\ Op("CONCAT")
        /\ Let(\A i \in DOMAIN vs : IsText(vs[i]), SetR(SetR(L, Fetch.b, text), Fetch.a, text))

Jmp == Op("JMP") /\ Go(L, L.pc + 1 + Fetch.b)

(* A test is followed by a jump, which is made or passed over.             *)
JumpIf(c, l) ==
    Go(l, IF c THEN L.pc + 2 + Cl.proto.code[L.pc + 2].b ELSE L.pc + 2)

CompareOp ==
    LET b == RKV(Fetch.b)
        c == RKV(Fetch.c)
    IN  /\ Running /\ Fetch.op \in Compare
        /\ IF Comparable(Fetch.op, b, c)
           THEN JumpIf(CompareV(Fetch.op, b, c) = (Fetch.a = 1), L) ELSE Error

Test == Op("TEST") /\ JumpIf(IsFalse(R(Fetch.a)) # (Fetch.c = 1), L)

TestSet ==
    LET c == IsFalse(R(Fetch.b)) # (Fetch.c = 1)
    IN  Op("TESTSET") /\ JumpIf(c, IF c THEN SetR(L, Fetch.a, R(Fetch.b)) ELSE L)

(* The state in which the function in register A is called.                *)
ForCall ==
    LET l == [L EXCEPT !.ci[Len(L.ci)].savedpc = L.pc + 1]
    IN  IF Fetch.b # 0 THEN [l EXCEPT !.top = Base + Fetch.a + Fetch.b] ELSE l

Call ==
    LET func == Base + Fetch.a
        want == Fetch.c - 1
    IN  /\ Op("CALL")
        /\ CASE L.stack[func][1] = "fun" -> Go(PreCall(ForCall, func, want), 0)
             [] L.stack[func][1] = "C"   -> Resume(CallC(ForCall, func, want), want)
             [] OTHER                    -> Error

(* The frame of a tail call takes the place of the one that makes it.      *)
Replaced(l, func) ==
    LET old  == Last(l.ci)
        pre  == PreCall(l, func, -1)
        at   == Last(pre.ci)
        new  == CloseFrom(pre, old.base)
        vs   == Slots(new, func, at.top - func)
        down == old.func + Len(vs)
    IN  [new EXCEPT !.stack = Lay(@, old.func, vs, 0), !.top = down,
                    !.ci = Append(Front(Front(@)), [old EXCEPT !.base = old.func + (at.base - func),
                                                               !.top = down, !.savedpc = 0])]

TailCall ==
    LET func == Base + Fetch.a
    IN  /\ Op("TAILCALL")
        /\ CASE L.stack[func][1] = "fun" -> Go(Replaced(ForCall, func), 0)
             [] L.stack[func][1] = "C"   -> Resume(CallC(ForCall, func, -1), -1)
             [] OTHER                    -> Error

(* A generator has answered: the loop goes on unless it is nil.            *)
Generated(l) ==
    LET ci   == Last(l.ci)
        code == l.closures[l.stack[ci.func][2]].proto.code
        pc   == ci.savedpc
        cb   == ci.base + code[pc].a + 3
        more == l.stack[cb] # NilVal
        set  == IF more THEN [l EXCEPT !.stack[cb - 1] = l.stack[cb]] ELSE l
    IN  Go([set EXCEPT !.top = ci.top], IF more THEN pc + 1 + code[pc + 1].b ELSE pc + 1)

(* The end of the main function is the end of the run.                     *)
Return ==
    LET first   == Base + Fetch.a
        n       == IF Fetch.b = 0 THEN L.top - first ELSE Fetch.b - 1
        results == Slots(L, first, n)
        closed  == [CloseFrom(L, Base) EXCEPT !.ci = Front(@)]
    IN  /\ Op("RETURN")
        /\ IF Len(L.ci) = 1
           THEN L' = [closed EXCEPT !.ci = L.ci, !.status = "done", !.trace = Append(@, results)]
           ELSE IF Ci.gen THEN Generated(PosCall(closed, Ci.func, results, Ci.nresults))
           ELSE Resume(PosCall(closed, Ci.func, results, Ci.nresults), Ci.nresults)

ForPrep ==
    LET a == Fetch.a
    IN  /\ Op("FORPREP")
        /\ IF IsNum(R(a)) /\ IsNum(R(a + 1)) /\ IsNum(R(a + 2))
           THEN Go(SetR(L, a, ArithV("SUB", R(a), R(a + 2))), L.pc + 1 + Fetch.b) ELSE Error

ForLoop ==
    LET a    == Fetch.a
        idx  == ArithV("ADD", R(a), R(a + 2))
        more == IF CompareV("LT", <<"num", 0>>, R(a + 2)) THEN CompareV("LE", idx, R(a + 1))
                ELSE CompareV("LE", R(a + 1), idx)
    IN  /\ Op("FORLOOP")
        /\ IF more THEN Go(SetR(SetR(L, a, idx), a + 3, idx), L.pc + 1 + Fetch.b) ELSE Next1(L)

(* The generator is called; the frame of a Lua function says what it is    *)
(* called for.                                                             *)
TForLoop ==
    LET cb   == Base + Fetch.a + 3
        set  == [L EXCEPT !.stack = Lay(@, cb, Slots(L, cb - 3, 3), 0), !.top = cb + 3,
                          !.ci[Len(L.ci)].savedpc = L.pc + 1]
        pre  == PreCall(set, cb, Fetch.c)
    IN  /\ Op("TFORLOOP")
        /\ CASE L.stack[cb - 3][1] = "fun" -> Go([pre EXCEPT !.ci[Len(pre.ci)].gen = TRUE], 0)
             [] L.stack[cb - 3][1] = "C"   -> Generated(CallC(set, cb, Fetch.c))
             [] OTHER                      -> Error

SetListOp ==
    LET n     == IF Fetch.b = 0 THEN L.top - (Base + Fetch.a) - 1 ELSE Fetch.b
        raw   == Fetch.c = 0
        batch == IF raw THEN Cl.proto.code[L.pc + 2].b ELSE Fetch.c
        first == (batch - 1) * FieldsPerFlush
        set   == FoldLeft(LAMBDA l, i : RawSet(l, R(Fetch.a), <<"num", first + i>>, R(Fetch.a + i)),
                          [L EXCEPT !.top = IF Fetch.b = 0 THEN Ci.top ELSE @], [i \in 1 .. n |-> i])
    IN  Op("SETLIST") /\ Go(set, IF raw THEN L.pc + 2 ELSE L.pc + 1)

CloseOp == Op("CLOSE") /\ Next1(CloseFrom(L, Base + Fetch.a))

ClosureOp ==
    LET p    == Cl.proto.p[Fetch.b + 1]
        bind(acc, j) ==
            LET i == Cl.proto.code[L.pc + 1 + j]
                f == FindUpval(acc[1], Base + i.b)
            IN  IF i.op = "GETUPVAL" THEN <<acc[1], Append(acc[2], Cl.upvals[i.b + 1])>>
                ELSE <<f[1], Append(acc[2], f[2])>>
        ups  == FoldLeft(bind, <<L, << >>>>, [j \in 1 .. p.nups |-> j])
        l    == [ups[1] EXCEPT !.closures = Append(@, [proto |-> p, upvals |-> ups[2]])]
    IN  Op("CLOSURE") /\ Go(SetR(l, Fetch.a, <<"fun", Len(l.closures)>>), L.pc + 1 + p.nups)

Vararg ==
    LET n   == Base - Ci.func - Cl.proto.numparams - 1
        all == Slots(L, Base - n, n)
        b   == Fetch.b - 1
        a   == Base + Fetch.a
        vs  == IF b = -1 \/ n < b THEN all ELSE SubSeq(all, 1, b)
    IN  /\ Op("VARARG")
        /\ Next1([L EXCEPT !.stack = Lay(@, a, vs, a + b), !.top = IF b = -1 THEN a + n ELSE @])

VMNext ==
    \/ Move \/ LoadK \/ LoadBool \/ LoadNils \/ GetUpval \/ SetUpval \/ GetGlobal \/ SetGlobal
    \/ GetTable \/ SetTable \/ NewTable \/ SelfOp \/ ArithOp \/ Unm \/ Not \/ LenOp \/ Concat
    \/ Jmp \/ CompareOp \/ Test \/ TestSet \/ Call \/ TailCall \/ Return \/ ForPrep \/ ForLoop
    \/ TForLoop \/ SetListOp \/ CloseOp \/ ClosureOp \/ Vararg

(* The state in which the host calls a main function.                      *)
Loaded(proto, globals) ==
    LET l == [stack |-> [s \in 0 .. StackSize - 1 |-> NilVal], top |-> 1, ci |-> << >>, pc |-> 0,
              upvals |-> << >>, tables |-> <<globals>>, closures |-> <<[proto |-> proto, upvals |-> << >>]>>,
              trace |-> << >>, lens |-> << >>, status |-> "running", steps |-> 0]
    IN  PreCall([l EXCEPT !.stack[0] = <<"fun", 1>>], 0, -1)
=============================================================================
