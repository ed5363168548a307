----------------------------- MODULE LuaMeaning -----------------------------
(***************************************************************************)
(* What a Lua chunk means, by the reference manual of Lua 5.1 and without  *)
(* registers, jumps or upvalues: variables are cells, a function keeps the *)
(* cells in scope where it is written, every statement and expression is   *)
(* evaluated over the tree.  The compiler and the virtual machine together *)
(* are held against it.  A state m has the cells, tables, functions and    *)
(* trace; m.err says that an error was raised, m.sig how a block ended.    *)
(* The manual leaves the length of a table with gaps open (2.5.5): m.lens  *)
(* are the lengths to go by, and one that is no length is an error.        *)
(***************************************************************************)
EXTENDS Integers, FiniteSets, SequencesExt, TLC

CONSTANT Collation      \* what strings are made of, in the order of strcoll

Nil == <<"nil">>
False(v) == v \in {Nil, <<"bool", FALSE>>}
Number(v) == v[1] \in {"num", "nan"}
Text(v) == v[1] = "str" \/ Number(v)
Chars(v) == IF v[1] = "num" THEN <<ToString(v[2])>> ELSE IF v[1] = "nan" THEN <<"nan">> ELSE v[2]
Str(s) == <<"str", IF s = "" THEN << >> ELSE <<s>>>>

One(r) == IF r.v = << >> THEN Nil ELSE Head(r.v)
Res(m, v) == [m |-> m, v |-> v]
Fail(m) == Res([m EXCEPT !.err = TRUE], <<Nil>>)
If(ok, m, v) == IF ok THEN Res(m, <<v>>) ELSE Fail(m)
NthOf(vs, i) == IF i <= Len(vs) THEN vs[i] ELSE Nil

Field(m, t, k) == IF k \in DOMAIN m.tabs[t[2]] THEN m.tabs[t[2]][k] ELSE Nil
SetField(m, t, k, v) ==
    LET f == m.tabs[t[2]]
    IN  [m EXCEPT !.tabs[t[2]] = IF v = Nil THEN [x \in DOMAIN f \ {k} |-> f[x]] ELSE (k :> v) @@ f]
GlobalTab == <<"tab", 1>>

(* New cells for names in front of the scope; the scope is a sequence of   *)
(* <<name, cell>>, the varargs are env.va.                                 *)
Declare(m, env, names, vs) ==
    <<[m EXCEPT !.cells = @ \o [i \in DOMAIN names |-> NthOf(vs, i)]],
      [env EXCEPT !.scope = [i \in DOMAIN names |-> <<names[i], Len(m.cells) + i>>] \o @]>>

(* Of names declared together the last one counts.                         *)
Cell(env, name) ==
    LET at == {i \in DOMAIN env.scope : env.scope[i][1] = name}
        c  == {env.scope[i][2] : i \in at}
    IN  IF at = {} THEN 0 ELSE CHOOSE x \in c : \A y \in c : y <= x

ArithOf(op, a, b) ==
    IF <<"nan">> \in {a, b} \/ (op = "MOD" /\ b[2] = 0) THEN <<"nan">>
    ELSE <<"num", CASE op = "ADD" -> a[2] + b[2] [] op = "SUB" -> a[2] - b[2]
                    [] op = "MUL" -> a[2] * b[2]
                    [] OTHER -> CHOOSE r \in -20 .. 20 :
                        /\ \E q \in -20 .. 20 : a[2] = q * b[2] + r
                        /\ IF b[2] > 0 THEN 0 <= r /\ r < b[2] ELSE b[2] < r /\ r <= 0>>

Ordered(op, a, b) ==
    <<"nan">> \notin {a, b} /\ CASE op = "<" -> a[2] < b[2] [] op = "<=" -> a[2] <= b[2]
                                 [] op = ">" -> a[2] > b[2] [] op = ">=" -> a[2] >= b[2]

RECURSIVE Before(_, _)
Before(x, y) ==
    IF x = << >> \/ y = << >> THEN x = << >> /\ y # << >>
    ELSE IF Head(x) = Head(y) THEN Before(Tail(x), Tail(y))
    ELSE \E i \in DOMAIN Collation : Collation[i] = Head(x) /\ Head(y) \in Range(SubSeq(Collation, i + 1, Len(Collation)))

OrderedText(op, x, y) ==
    CASE op = "<" -> Before(x, y) [] op = "<=" -> Before(x, y) \/ x = y
      [] op = ">" -> Before(y, x) [] op = ">=" -> Before(y, x) \/ x = y

Strict(m, op, a, b) ==
    CASE op \in {"ADD", "SUB", "MUL", "MOD"} -> If(Number(a) /\ Number(b), m, ArithOf(op, a, b))
      [] op = ".." -> If(Text(a) /\ Text(b), m, <<"str", Chars(a) \o Chars(b)>>)
      [] op = "==" -> Res(m, <<<<"bool", a = b /\ a # <<"nan">> >> >>)
      [] op = "~=" -> Res(m, <<<<"bool", ~(a = b /\ a # <<"nan">>)>> >>)
      [] a[1] = "str" /\ b[1] = "str" -> Res(m, <<<<"bool", OrderedText(op, a[2], b[2])>> >>)
      [] OTHER     -> If(Number(a) /\ Number(b), m, <<"bool", Ordered(op, a, b)>>)

(* n is a length of a table: it ends the table's elements at n.            *)
IsLength(m, t, n) == /\ n = 0 \/ Field(m, t, <<"num", n>>) # Nil
                     /\ Field(m, t, <<"num", n + 1>>) = Nil

Unary(m, op, v) ==
    CASE op = "not" -> Res(m, <<<<"bool", False(v)>> >>)
      [] op = "-"   -> If(Number(v), m, ArithOf("SUB", <<"num", 0>>, v))
      [] v[1] = "tab" -> IF m.lens = << >> THEN Fail(m)
                         ELSE If(IsLength(m, v, Head(m.lens)), [m EXCEPT !.lens = Tail(@)],
                                 <<"num", Head(m.lens)>>)
      [] OTHER      -> If(v[1] = "str", m, <<"num", Len(v[2])>>)

RECURSIVE Eval(_, _, _), EvalList(_, _, _), Exec(_, _, _), Run(_, _, _), While(_, _, _),
          Repeat(_, _, _), For(_, _, _, _, _, _), ForIn(_, _, _, _), Items(_, _, _, _, _), If1(_, _, _, _)

(* The call of f with arguments vs.                                        *)
Apply(m, f, vs) ==
    LET fn    == m.funs[f[2]]
        n     == Len(fn.params)
        extra == SubSeq(vs, n + 1, Len(vs))
        bound == Declare(m, [fn.env EXCEPT !.va = extra], fn.params, vs)
        argt  == [k \in {<<"num", i>> : i \in {j \in DOMAIN extra : extra[j] # Nil}} |-> extra[k[2]]]
                    @@ (Str("n") :> <<"num", Len(extra)>>)
        arg   == Declare([bound[1] EXCEPT !.tabs = Append(@, argt)], bound[2], <<"arg">>,
                         <<<<"tab", Len(m.tabs) + 1>> >>)
        start == IF fn.dots THEN arg ELSE bound
        done  == Run(start[1], start[2], fn.body)
    IN  IF m.err THEN Fail(m)
        ELSE IF f[1] = "C" THEN
            IF f[2] = "emit" THEN Res([m EXCEPT !.trace = Append(@, vs)], vs)
            ELSE Res(m, <<IF vs[2][2] < vs[1][2] THEN <<"num", vs[2][2] + 1>> ELSE Nil>>)
        ELSE IF f[1] # "fun" THEN Fail(m)
        ELSE Res([done EXCEPT !.sig = "none"], IF done.sig = "return" THEN done.ret ELSE << >>)

Eval(m, env, n) ==
    LET c == Cell(env, n[2])
        a == Eval(m, env, n[2])
        b == Eval(a.m, env, n[3])
        l == Eval(m, env, n[3])
        r == Eval(l.m, env, n[4])
        args == EvalList(a.m, env, n[3])
        self == Field(a.m, One(a), Str(n[3]))
        more == EvalList(a.m, env, n[4])
    IN  IF m.err THEN Fail(m)
        ELSE CASE n[1] = "nil"   -> Res(m, <<Nil>>)
               [] n[1] = "true"  -> Res(m, <<<<"bool", TRUE>> >>)
               [] n[1] = "false" -> Res(m, <<<<"bool", FALSE>> >>)
               [] n[1] = "num"   -> Res(m, <<n>>)
               [] n[1] = "str"   -> Res(m, <<Str(n[2])>>)
               [] n[1] = "..."   -> Res(m, env.va)
               [] n[1] = "name"  -> Res(m, <<IF c = 0 THEN Field(m, GlobalTab, Str(n[2])) ELSE m.cells[c]>>)
               [] n[1] = "paren" -> Res(a.m, <<One(a)>>)
               [] n[1] = "index" -> IF b.m.err \/ One(a)[1] # "tab" THEN Fail(b.m)
                                    ELSE Res(b.m, <<Field(b.m, One(a), One(b))>>)
               [] n[1] = "call"  -> Apply(args.m, One(a), args.v)
               [] n[1] = "method" -> IF a.m.err \/ One(a)[1] # "tab" THEN Fail(a.m)
                                     ELSE Apply(more.m, self, <<One(a)>> \o more.v)
               [] n[1] = "un"    -> IF l.m.err THEN Fail(l.m) ELSE Unary(l.m, n[2], One(l))
               [] n[1] = "bin"   -> IF l.m.err THEN Fail(l.m)
                                    ELSE IF n[2] \in {"and", "or"}
                                    THEN IF False(One(l)) = (n[2] = "and") THEN Res(l.m, <<One(l)>>)
                                         ELSE Res(r.m, <<One(r)>>)
                                    ELSE IF r.m.err THEN Fail(r.m) ELSE Strict(r.m, n[2], One(l), One(r))
               [] n[1] = "function" ->
                    Res([m EXCEPT !.funs = Append(@, [params |-> n[2], dots |-> n[3], body |-> n[4],
                                                      env |-> env])], <<<<"fun", Len(m.funs) + 1>> >>)
               [] n[1] = "table" ->
                    Res(Items([m EXCEPT !.tabs = Append(@, << >>)], env, n[2], Len(m.tabs) + 1, 1),
                        <<<<"tab", Len(m.tabs) + 1>> >>)

(* The items of a constructor; the last one gives all its values.          *)
Items(m, env, items, t, i) ==
    LET it  == Head(items)
        v   == Eval(m, env, it[2])
        w   == Eval(v.m, env, it[3])
        all == FoldLeft(LAMBDA acc, j : SetField(acc, <<"tab", t>>, <<"num", i + j - 1>>, v.v[j]),
                        v.m, [j \in DOMAIN v.v |-> j])
        put == SetField(v.m, <<"tab", t>>, <<"num", i>>, One(v))
        key == SetField(w.m, <<"tab", t>>, One(v), One(w))
    IN  IF items = << >> \/ m.err THEN m
        ELSE IF it[1] = "pair"
        THEN IF w.m.err \/ One(v) \in {Nil, <<"nan">>} THEN [w.m EXCEPT !.err = TRUE]
             ELSE Items(key, env, Tail(items), t, i)
        ELSE IF Len(items) = 1 THEN all ELSE Items(put, env, Tail(items), t, i + 1)

EvalList(m, env, es) ==
    LET h == Eval(m, env, Head(es))
        t == EvalList(h.m, env, Tail(es))
    IN  IF es = << >> THEN Res(m, << >>) ELSE IF Len(es) = 1 THEN h
        ELSE Res(t.m, <<One(h)>> \o t.v)

(* The places an assignment goes to are evaluated before anything is set.  *)
Place(m, env, v) ==
    LET t == Eval(m, env, v[2])
        k == Eval(t.m, env, v[3])
    IN  IF v[1] = "name" THEN Res(m, <<>>) ELSE Res(k.m, <<One(t), One(k)>>)

Places(m, env, vars) ==
    FoldLeft(LAMBDA acc, v : LET p == Place(acc[1], env, v) IN <<p.m, Append(acc[2], p.v)>>,
             <<m, << >>>>, vars)

Store(m, env, var, place, v) ==
    LET c == Cell(env, var[2])
    IN  IF m.err THEN m
        ELSE IF var[1] = "name"
        THEN IF c = 0 THEN SetField(m, GlobalTab, Str(var[2]), v) ELSE [m EXCEPT !.cells[c] = v]
        ELSE IF place[1][1] # "tab" \/ place[2] \in {Nil, <<"nan">>} THEN [m EXCEPT !.err = TRUE]
        ELSE SetField(m, place[1], place[2], v)

Set(m, env, vars, es) ==
    LET ps == Places(m, env, vars)
        vs == EvalList(ps[1], env, es)
    IN  FoldRight(LAMBDA i, acc : Store(acc, env, vars[i], ps[2][i], NthOf(vs.v, i)),
                  [i \in DOMAIN vars |-> i], vs.m)

(* The statements of a block; a declaration is in scope of those behind.   *)
Run(m, env, b) ==
    LET n == Head(b)
        v == EvalList(m, env, n[3])
        d == Declare(v.m, env, n[2], v.v)
        f == Declare(m, env, <<n[2]>>, << >>)
        g == Eval(f[1], f[2], n[3])
        h == [g.m EXCEPT !.cells[Cell(f[2], n[2])] = One(g)]
    IN  IF b = << >> \/ m.err \/ m.sig # "none" THEN m
        ELSE IF n[1] = "local" THEN Run(d[1], d[2], Tail(b))
        ELSE IF n[1] = "localfunction" THEN Run(h, f[2], Tail(b))
        ELSE Run(Exec(m, env, n), env, Tail(b))

EndLoop(m) == [m EXCEPT !.sig = IF @ = "break" THEN "none" ELSE @]

While(m, env, n) ==
    LET c == Eval(m, env, n[2])
        b == Run(c.m, env, n[3])
    IN  IF c.m.err \/ False(One(c)) THEN c.m
        ELSE IF b.err \/ b.sig # "none" THEN EndLoop(b) ELSE While(b, env, n)

(* The condition of a repeat is in the scope of its block: the condition   *)
(* is made the last statement of the block.                                *)
Repeat(m, env, n) ==
    LET b == Run(m, env, Append(n[2], <<"until", n[3]>>))
    IN  IF b.err \/ b.sig \notin {"none", "again"} THEN EndLoop(b)
        ELSE IF b.sig = "none" THEN b ELSE Repeat([b EXCEPT !.sig = "none"], env, n)

For(m, env, n, i, lim, step) ==
    LET d == Declare(m, env, <<n[2]>>, <<<<"num", i>> >>)
        b == Run(d[1], d[2], n[4])
    IN  IF IF step > 0 THEN i > lim ELSE i < lim THEN m
        ELSE IF b.err \/ b.sig # "none" THEN EndLoop(b) ELSE For(b, env, n, i + step, lim, step)

ForIn(m, env, n, fsc) ==
    LET r == Apply(m, fsc[1], <<fsc[2], fsc[3]>>)
        d == Declare(r.m, env, n[2], r.v)
        b == Run(d[1], d[2], n[4])
    IN  IF r.m.err \/ One(r) = Nil THEN r.m
        ELSE IF b.err \/ b.sig # "none" THEN EndLoop(b)
        ELSE ForIn(b, env, n, <<fsc[1], fsc[2], One(r)>>)

If1(m, env, clauses, els) ==
    LET c == Eval(m, env, Head(clauses)[1])
    IN  IF clauses = << >> THEN Run(m, env, els)
        ELSE IF c.m.err THEN c.m
        ELSE IF False(One(c)) THEN If1(c.m, env, Tail(clauses), els)
        ELSE Run(c.m, env, Head(clauses)[2])

Exec(m, env, n) ==
    LET e  == Eval(m, env, n[2])
        es == EvalList(m, env, n[2])
        fe == EvalList(m, env, n[3])
        fs == IF Len(n[3]) = 2 THEN Append(fe.v, <<"num", 1>>) ELSE fe.v
    IN  CASE n[1] = "set"    -> Set(m, env, n[2], n[3])
          [] n[1] = "stat"   -> e.m
          [] n[1] = "do"     -> Run(m, env, n[2])
          [] n[1] = "while"  -> While(m, env, n)
          [] n[1] = "repeat" -> Repeat(m, env, n)
          [] n[1] = "until"  -> IF e.m.err THEN e.m
                                ELSE [e.m EXCEPT !.sig = IF False(One(e)) THEN "again" ELSE @]
          [] n[1] = "if"     -> If1(m, env, n[2], n[3])
          [] n[1] = "for"    -> IF fe.m.err \/ \E i \in DOMAIN fs : ~Number(fs[i])
                                THEN [fe.m EXCEPT !.err = TRUE]
                                ELSE For(fe.m, env, n, fs[1][2], fs[2][2], fs[3][2])
          [] n[1] = "forin"  -> ForIn(fe.m, env, n, [i \in 1 .. 3 |-> NthOf(fe.v, i)])
          [] n[1] = "break"  -> [m EXCEPT !.sig = "break"]
          [] n[1] = "return" -> [es.m EXCEPT !.sig = "return", !.ret = es.v]
          [] n[1] = "funcstat" ->
                Set(m, env, <<n[2]>>,
                    <<IF n[3] THEN [n[4] EXCEPT ![2] = <<"self">> \o @] ELSE n[4]>>)

(* A break outside of a loop is no chunk (2.4.4).                          *)
Meaning(b, globals, lens) ==
    LET m == [cells |-> << >>, tabs |-> <<globals>>, funs |-> << >>, trace |-> << >>, err |-> FALSE,
              sig |-> "none", ret |-> << >>, lens |-> lens]
        r == Run(m, [scope |-> << >>, va |-> << >>], b)
    IN  [err |-> r.err, stray |-> r.sig = "break", trace |-> IF r.err THEN r.trace
                                  ELSE Append(r.trace, IF r.sig = "return" THEN r.ret ELSE << >>)]
=============================================================================
