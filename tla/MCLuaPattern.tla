---------------------------- MODULE MCLuaPattern ----------------------------
(* The arguments TLC gives the functions of LuaPattern: patterns of one and *)
(* two items and some of more, all subjects of up to two letters and a few *)
(* longer ones.                                                             *)
EXTENDS Integers, Sequences

LettersUsed == {"a", "b", "c", "d"}
DigitsUsed == {"0", "1", "2"}

One(text, set, rep) == [is |-> "one", text |-> text, set |-> set, rep |-> rep]
Group(of) == [is |-> "group", of |-> of]
Here == [is |-> "here"]
Again(n) == [is |-> "again", n |-> n]

Reps == {<< >>, <<"?">>, <<"*">>, <<"+">>, <<"-">>}
A(rep) == One(<<"a">>, {"a"}, rep)
B(rep) == One(<<"b">>, {"b"}, rep)
Dot(rep) == One(<<".">>, LettersUsed \cup DigitsUsed, rep)
Classes(rep) ==
    {One(<<"%", "d">>, DigitsUsed, rep), One(<<"%", "D">>, LettersUsed, rep),
     One(<<"[", "b", "-", "c", "%", "d", "]">>, {"b", "c"} \cup DigitsUsed, rep),
     One(<<"[", "^", "%", "a", "0", "]">>, DigitsUsed \ {"0"}, rep)}
Balance == [is |-> "balance", open |-> "a", close |-> "b"]
Edge == [is |-> "edge", text |-> <<"[", "b", "]">>, set |-> {"b"}]
End == [is |-> "end"]

Singled == UNION {{A(rep), Dot(rep)} : rep \in Reps}
Mixed == UNION {Classes(rep) : rep \in {<< >>, <<"*">>}}

MCPatterns ==
    {<<i>> : i \in Singled \cup Mixed} \cup {<<i, j>> : i \in Singled, j \in {A(<< >>), B(<<"?">>), Edge, End}}
    \cup {<<Group(<<i>>), j>> : i \in Singled, j \in {A(<< >>), B(<<"*">>), Again(1)}}
    \cup {<<Group(<<i, Here>>), Group(<<B(<< >>)>>)>> : i \in Singled}
    \cup {<<Group(<<A(<<"*">>), Group(<<Dot(<<"?">>)>>)>>), B(<< >>), Again(2)>>,
          <<Balance>>, <<Dot(<<"-">>), Balance, End>>, <<Here, A(<<"*">>), Here>>}
    \cup {<<j, i>> : i \in Mixed, j \in {A(<<"-">>), Dot(<<"*">>)}}

MCSubjects == UNION {[1 .. n -> {"a", "b"}] : n \in 0 .. 2}
              \cup {<<"a", "a", "b">>, <<"a", "b", "a">>, <<"b", "a", "a">>, <<"a", "a", "b", "b">>, <<"b", "a", "b", "a">>, <<"a", "0", "c", "1">>, <<"0", "a", "1">>}

MCKeep == <<"keep">>
MCReplacements == {<<"%", "1", "c">>, <<"<", "%", "0", "%", "%", ">">>, <<"keep">>}
=============================================================================
