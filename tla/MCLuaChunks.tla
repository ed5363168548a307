---------------------------- MODULE MCLuaChunks ----------------------------
(* The chunks TLC compiles and runs.                                       *)
EXTENDS LuaChunks

Alphabet == <<"a", "b">>

N(v) == <<"name", v>>
I(n) == <<"num", n>>
S(s) == <<"str", s>>
NIL == <<"nil">>
TRU == <<"true">>
FLS == <<"false">>
Va == <<"...">>
Emit(es) == <<"call", N("emit"), es>>
DoEmit(es) == <<"stat", Emit(es)>>
Local(v, e) == <<"local", <<v>>, <<e>>>>
Bin(op, a, b) == <<"bin", op, a, b>>
Not1(e) == <<"un", "not", e>>
Ix(t, k) == <<"index", t, k>>
Fn(ps, b) == <<"function", ps, FALSE, b>>
FnV(ps, b) == <<"function", ps, TRUE, b>>
Tab(is) == <<"table", is>>
Item(e) == <<"item", e>>
Pair(k, e) == <<"pair", k, e>>
SetV(vs, es) == <<"set", vs, es>>
If(e, b, c) == <<"if", <<<<e, b>>>>, c>>
Call1(f, es) == <<"call", f, es>>

(* Conditions: every tree of two levels over values, variables, calls and  *)
(* comparisons, in every place where one is compiled differently.          *)
Leaf == {FLS, I(1), N("a"), Bin("<", N("a"), I(2)), Emit(<<N("a")>>)}
Level1 == Leaf \cup {Not1(e) : e \in Leaf} \cup
          {Bin(op, e, f) : op \in {"and", "or"}, e \in Leaf, f \in {NIL, N("a"), Emit(<<I(3)>>), Bin("==", N("a"), I(1))}}
Level2 == {Bin(op, e, f) : op \in {"and", "or"}, e \in Level1, f \in {N("a"), Bin("~=", N("a"), I(1))}}
          \cup {Bin(op, f, e) : op \in {"and", "or"}, e \in Level1, f \in {Not1(N("b"))}}
          \cup {Not1(e) : e \in Level1}
Places(e) == {
    <<Local("v", e), DoEmit(<<N("v")>>)>>,
    <<If(e, <<DoEmit(<<I(7)>>)>>, <<DoEmit(<<I(8)>>)>>)>>,
    <<<<"return", <<e>>>>>>}
Conditions == UNION {{<<Local("a", I(n)), Local("b", NIL)>> \o p : p \in Places(e)} :
                        e \in Level1 \cup Level2, n \in {1, 3}}

(* Assignments: the left sides and the number of values.                   *)
Assignments ==
    LET lefts  == {<<Ix(N("t"), N("i")), N("i")>>, <<N("i"), Ix(N("t"), N("i"))>>,
                   <<Ix(N("t"), N("i")), N("t"), N("i")>>, <<Ix(N("i"), I(1)), N("i")>>, <<N("g"), N("i")>>}
        rights == {<<I(1)>>, <<I(2), I(3)>>, <<Emit(<<I(4), I(5)>>)>>, <<I(6), Emit(<<I(7), I(8)>>)>>,
                   <<I(1), I(2), I(3), Emit(<<I(9)>>)>>, <<Bin("ADD", N("i"), I(1)), I(20)>>}
        start  == {I(1), Tab(<<Item(I(1))>>)}
    IN  {<<Local("t", Tab(<< >>)), Local("i", s), Local("u", N("t")), SetV(l, r),
           DoEmit(<<N("i"), N("g"), Ix(N("u"), I(1)), <<"paren", Emit(<<I(1), I(2)>>)>> >>)>> :
                s \in start, l \in lefts, r \in rights}
        \cup {<<<<"local", <<"a", "b", "c">>, r>>, DoEmit(<<N("a"), N("b"), N("c")>>)>> : r \in rights \cup {<< >>}}

(* Numeric and generic loops, with a closure made in the body and a way    *)
(* out of it.                                                              *)
Loops ==
    LET add  == SetV(<<Ix(N("t"), Bin("ADD", <<"un", "#", N("t")>>, I(1)))>>,
                     <<Fn(<< >>, <<SetV(<<N("i")>>, <<Bin("ADD", N("i"), I(1))>>), <<"return", <<N("i")>>>>>>)>>)
        out  == If(Bin("==", N("i"), I(2)), <<<<"break">>>>, << >>)
        use  == <<"if", <<<<Bin(">=", <<"un", "#", N("t")>>, I(1)),
                           <<DoEmit(<<Call1(Ix(N("t"), I(1)), << >>), Call1(Ix(N("t"), I(1)), << >>)>>)>> >>,
                          <<N("t"), <<DoEmit(<<I(0)>>)>> >> >>, << >> >>
        body == {<<DoEmit(<<N("i")>>)>>, <<add>>, <<add, out>>, <<Local("x", NIL), DoEmit(<<N("x")>>), out, Local("y", N("i"))>>}
        from == {I(x) : x \in {0, 3}}
        step1 == Call1(N("iter"), <<N("s"), N("c")>>)
        gens == {N("iter"), Fn(<<"s", "c">>, <<<<"return", <<step1>>>>>>),
                 Fn(<<"s", "c">>, <<If(Bin("<", N("c"), N("s")),
                     <<<<"return", <<Bin("ADD", N("c"), I(1)), N("s"), N("c")>>>>>>, << >>)>>),
                 FnV(<< >>, <<Local("f", Fn(<<"s", "c">>, <<SetV(<<N("t")>>, <<N("t")>>), <<"return", <<step1>>>>>>)),
                              <<"return", <<Call1(N("f"), <<Va>>)>>>>>>)}
        step == {<< >>, <<I(2)>>, <<<<"un", "-", I(1)>> >>}
    IN  {<<Local("t", Tab(<< >>)), <<"for", "i", <<f, I(l)>> \o s, b>>, use>> :
            f \in from, l \in {0, 2}, s \in step, b \in body}
        \cup {<<Local("t", Tab(<< >>)), <<"forin", vs, <<g, I(l), I(0)>>, b>>, use>> :
                g \in gens, vs \in {<<"i">>, <<"i", "j">>}, l \in {0, 3}, b \in body}
        \cup {<<<<"forin", <<"i">>, <<N("iter"), I(2), I(0)>>, <<<<"forin", <<"j">>, <<g, N("i"), I(0)>>,
                   <<DoEmit(<<N("i"), N("j")>>), <<"return", <<N("j")>>>>>>>>>>>>>> : g \in gens}
        \cup {<<<<"forin", <<"i">>, <<Fn(<<"s">>, <<<<"return", <<Bin("<", N("s"), NIL)>>>>>>), I(1)>>, << >>>>>>}
        \cup {<<Local("t", Tab(<< >>)), Local("n", I(0)), <<k, x, y>>, use>> :
                <<k, x, y>> \in UNION {{
                    <<"while", Bin("<", N("n"), I(3)), w>>, <<"repeat", w, Bin(">=", N("i"), I(3))>>} :
                    w \in {<<SetV(<<N("n")>>, <<Bin("ADD", N("n"), I(1))>>), Local("i", N("n"))>> \o b : b \in body}}}

(* Calls: parameters, varargs, open calls, methods, tail calls.            *)
Calls ==
    LET args == {<< >>, <<I(1)>>, <<I(1), I(2), I(3)>>, <<I(1), Emit(<<I(2), NIL>>)>>, <<Va>>, <<Va, I(9)>>, <<<<"paren", Va>> >>}
        fn   == {Fn(<<"a", "b">>, <<DoEmit(<<N("b"), N("a")>>), <<"return", <<N("a"), N("b")>>>>>>),
                 FnV(<<"a">>, <<Local("x", Va), <<"return", <<N("a"), N("x"), Va>>>>>>),
                 FnV(<<"a">>, <<Local("y", Ix(N("arg"), S("n"))), <<"return", <<N("y"), Ix(N("arg"), I(1)), Tab(<<>>)>>>>>>),
                 FnV(<< >>, <<<<"local", <<"x", "y", "z">>, <<Va>>>>, <<"return", <<N("z"), N("y"), N("x")>>>>>>),
                 Fn(<<"a">>, <<Local("g", Fn(<< >>, <<<<"return", <<N("a")>>>>>>)), <<"return", <<Call1(N("g"), << >>)>>>>>>),
                 Fn(<<"a">>, <<Local("g", FnV(<<"x", "y">>, <<<<"return", <<N("y"), Va>>>>>>)), SetV(<<N("h")>>, <<Fn(<< >>, <<<<"return", <<N("a")>>>>>>)>>), <<"return", <<Call1(N("g"), <<I(5), I(6), N("a")>>)>>>>>>),
                 Fn(<<"a">>, <<<<"return", <<Call1(N("emit"), <<N("a")>>)>>>>>>)}
        use(f, as) == {<<"return", <<Call1(f, as)>>>>, <<"return", <<Call1(f, as), I(0)>>>>,
                       <<"return", <<Tab(<<Item(I(0)), Item(Call1(f, as))>>), <<"un", "#", Tab(<<Item(Call1(f, as))>>)>>>>>>}
        main(f, s) == <<<<"localfunction", "f", f>>, Local("main", FnV(<< >>, <<s>>)),
                        DoEmit(<<Call1(N("main"), <<I(7), I(8)>>)>>),
                        DoEmit(<<Bin("and", N("h"), Call1(N("h"), << >>))>>)>>
    IN  {main(f, s) : f \in fn, s \in UNION {use(N("f"), as) : as \in args}}

(* Whatever is left: scopes and upvalues over more than one level,         *)
(* constructors past a batch, methods, strings, folded constants, errors.  *)
Fact == Fn(<<"n">>, <<If(Bin("<=", N("n"), I(1)), <<<<"return", <<I(1)>>>>>>, << >>),
                      <<"return", <<Bin("MUL", N("n"), Call1(N("fact"), <<Bin("SUB", N("n"), I(1))>>))>>>>>>)
Counter == Fn(<< >>, <<Local("c", I(0)),
              <<"return", <<Fn(<< >>, <<SetV(<<N("c")>>, <<Bin("ADD", N("c"), I(1))>>), <<"return", <<N("c")>>>>>>),
                            Fn(<< >>, <<<<"return", <<Fn(<< >>, <<<<"return", <<N("c")>>>>>>)>>>>>>)>>>>>>)
Ones(n) == [i \in 1 .. n |-> Item(I(i))]
Account == <<Local("o", Tab(<<Pair(S("v"), I(4)), Item(NIL)>>)),
             <<"funcstat", Ix(N("o"), S("get")), TRUE, Fn(<<"k">>, <<<<"return", <<Bin("ADD", Ix(N("self"), S("v")), N("k"))>>>>>>)>>,
             <<"funcstat", N("gf"), FALSE, FnV(<< >>, <<<<"return", <<N("gf"), Va>>>>>>)>>,
             DoEmit(<<<<"method", N("o"), "get", <<I(1)>>>>, Call1(N("gf"), <<I(3)>>)>>)>>
Others ==
    {<<<<"localfunction", "fact", Fact>>, <<"return", <<Call1(N("fact"), <<I(4)>>)>>>>>>,
     <<<<"local", <<"inc", "get">>, <<Call1(Counter, << >>)>>>>,
       DoEmit(<<Call1(N("inc"), << >>), Call1(N("inc"), << >>), Call1(Call1(N("get"), << >>), << >>)>>)>>,
     Account,
     <<Local("x", I(1)), <<"do", <<Local("x", I(2)), Local("x", Bin("ADD", N("x"), I(5))),
         SetV(<<N("f")>>, <<Fn(<< >>, <<<<"return", <<N("x")>>>>>>)>>)>> >>,
       Local("z", NIL), <<"return", <<N("x"), Call1(N("f"), << >>), N("z")>>>>>>,
     <<<<"return", <<Bin("..", S("a"), Bin("..", I(1), Bin("..", S(""), S("b")))), Bin("..", Bin("..", S("a"), S("b")), S("c"))>>>>>>,
     <<Local("a", S("x")), <<"return", <<Bin("..", N("a"), Bin("..", N("a"), Emit(<<N("a")>>))), <<"un", "#", N("a")>> >>>>>>,
     <<<<"return", <<Bin("MOD", I(7), I(0)), <<"un", "-", Bin("MOD", <<"un", "-", I(7)>>, I(3))>>,
                     Bin("SUB", Bin("MUL", I(2), I(3)), I(1)), Bin("==", Bin("MOD", I(1), I(0)), I(1))>>>>>>,
     <<Local("a", I(2)), <<"return", <<Bin("ADD", Bin("MUL", N("a"), I(3)), Bin("SUB", N("a"), Emit(<<I(1)>>))),
                                       <<"un", "-", N("a")>>, <<"un", "not", <<"un", "not", N("a")>>>>, <<"un", "#", S("s")>>>>>>>>,
     <<DoEmit(<<I(1)>>), SetV(<<Ix(N("nope"), I(1))>>, <<Emit(<<I(2)>>)>>), DoEmit(<<I(3)>>)>>,
     <<DoEmit(<<I(1)>>), <<"return", <<Bin("ADD", Emit(<<I(2)>>), Emit(<<NIL>>))>>>>>>,
     <<<<"return", <<Call1(Emit(<<I(2)>>), <<Emit(<<I(3)>>)>>)>>>>>>,
     <<<<"stat", <<"method", N("nope"), "m", << >>>>>>>>, <<<<"stat", Call1(N("nope"), <<Emit(<<I(1)>>)>>)>>>>,
     <<<<"return", <<Bin("..", S("a"), NIL)>>>>>>, <<<<"return", <<Bin("<", I(1), S("a"))>>>>>>,
     <<<<"return", <<Bin("<", S("a"), I(1))>>>>>>,
     <<<<"return", <<<<"un", "#", NIL>>>>>>>>, <<<<"return", <<<<"un", "-", TRU>>>>>>>>,
     <<<<"return", <<Ix(Tab(<<>>), NIL), Ix(NIL, I(1))>>>>>>, <<SetV(<<Ix(Tab(<< >>), NIL)>>, <<I(1)>>)>>,
     <<<<"for", "i", <<I(1), NIL>>, << >>>>>>, <<<<"forin", <<"i">>, <<NIL>>, << >>>>>>, <<<<"break">>>>,
     <<Local("a", NIL), DoEmit(<<I(5)>>), If(N("a"), <<Local("x", NIL)>>, << >>), Local("z", NIL), <<"return", <<N("z")>>>>>>,
     <<DoEmit(<<I(5)>>), <<"local", <<"a", "b">>, << >>>>, Local("c", NIL), <<"return", <<N("a"), N("b"), N("c")>>>>>>,
     <<<<"while", TRU, <<<<"while", TRU, <<DoEmit(<<I(1)>>), <<"break">>>>>>, <<"break">>>>>>>>}
    \cup {<<<<"return", <<Bin(op, s, r)>>>>>> : op \in {"<", "<=", ">", ">=", "==", "~="}, s, r \in
            {S(""), S("a"), S("b"), Bin("..", S("a"), S("b")), Bin("..", S("b"), S("a"))}}
    \cup {<<Local("t", Tab(<<Item(x), Item(y), Item(I(3))>>)), SetV(<<Ix(N("t"), I(4))>>, <<z>>),
            <<"return", <<<<"un", "#", N("t")>>, Bin("ADD", <<"un", "#", N("t")>>, I(1))>>>>>> :
            x, y, z \in {NIL, I(1)}}
    \cup {<<Local("t", Tab(Ones(n) \o x)), <<"return", <<<<"un", "#", N("t")>>, Ix(N("t"), I(n)), Ix(N("t"), I(n + 2))>>>>>> :
            n \in 1 .. 5, x \in {<< >>, <<Pair(I(9), Emit(<<I(1)>>)), Item(I(6))>>, <<Item(Emit(<<I(6), I(7)>>))>>}}

Chunks == Conditions \cup Assignments \cup Loops \cup Calls \cup Others
=============================================================================
