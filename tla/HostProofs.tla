----------------------------- MODULE HostProofs -----------------------------
(***************************************************************************)
(* The scripts of the plugin.  First their stack (LuaHost.tla): what the   *)
(* loader makes of good and bad files, and that listings inside one        *)
(* another's authorization windows keep their hands off each other's       *)
(* values, for any number of scripts, listings and rows.  Then the C stack *)
(* they run on (LuaCoroutine.tla): that the count of calls is true and     *)
(* costatus tells what a coroutine does, for any coroutines and limits.    *)
(***************************************************************************)
EXTENDS LuaHost, LuaCoroutine, SequenceFacts, FiniteSetTheorems, TLAPS

Outcomes == {"broken", "panic", "failed", "threw", "no signin", "no description", "offered"}
Lines == [file : Script, outcome : Outcomes]

(* What the loader has made of the files so far.                           *)
Offers == disks = {log[i].file : i \in {j \in 1 .. Len(log) : log[j].outcome = "offered"}}
Spoiled == \E i \in 1 .. Len(log) : Spoils(log[i].outcome)
Panicked == \E i \in 1 .. Len(log) : log[i].outcome = "panic"
Late == \E i, j \in 1 .. Len(log) :
           i < j /\ Spoils(log[i].outcome) /\ defines[log[j].file] # {"broken"}

(* The tables chunks can be in so far; each chunk is one of a file the     *)
(* loader has come to.                                                     *)
Tables == {Table} \cup {Thrown(r) : r \in Script \ todo}
Stored ==
    /\ chunks \subseteq Tables \X (Script \ todo)
    /\ \A i \in 1 .. Len(log) : log[i].file \notin todo

(* Value t holds just the chunks no file has been bad behind.              *)
Fine(o) == o # "threw" /\ ~Spoils(o)
Found(t) ==
    \A i \in 1 .. Len(log) :
        <<t, log[i].file>> \in chunks <=> \A j \in i .. Len(log) : Fine(log[j].outcome)

Loader ==
    /\ log \in Seq(Lines) /\ Offers
    /\ Panicked <=> Late
    /\ proc = "loading" =>
          /\ ~Panicked /\ calls = << >> /\ stack # << >> /\ Stored
          /\ \E t \in Value :
                /\ t = stack[Len(stack)]
                /\ Found(t)
                /\ IsTable(t) <=> ~Spoiled
                /\ IsTable(t) => t \in Tables
    /\ proc = "up" => Found(entries)

(* What a listing finds below its own values when it ends, e being the     *)
(* global `entries'.                                                       *)
Base(e, c) == IF c.ok THEN c.below ELSE Append(c.below, e)

(* A listing's values are where it put them.                               *)
Placed(e, st, c) ==
    /\ Base(e, c) \in Seq(Value) /\ c.func = Len(Base(e, c)) + 1 /\ c.func - 1 <= Len(st)
    /\ Len(c.below) <= c.func - 1
    /\ \A k \in 1 .. c.func - 1 : st[k] = Base(e, c)[k]
    /\ c.pc \in {"dir", "window"} =>
          c.func + 1 <= Len(st) /\ st[c.func] = Dir(c.entry) /\ st[c.func + 1] = Arg(c.entry)
    /\ c.pc = "rows" => Len(st) = c.func + 1

(* Listings inside one another: all but the innermost wait in a window,    *)
(* and each began above the values of those around it.                     *)
Nested(e, st, cs) ==
    /\ \A i \in 1 .. Len(cs) : Placed(e, st, cs[i]) /\ (i < Len(cs) => cs[i].pc = "window")
    /\ \A i, j \in 1 .. Len(cs) : i < j => cs[i].func + 1 <= Len(cs[j].below)

IInv == TypeOK /\ Loader /\ (proc = "up" => Nested(entries, stack, calls))

-----------------------------------------------------------------------------
(* The values that scripts and host put on the stack.                      *)
LEMMA Values ==
  /\ Table \in Value /\ Message \in Value /\ Other \in Value /\ Text \in Value /\ Nil \in Value
  /\ Frame \in Value /\ Rows \in Value /\ Key \in Value
  /\ \A s \in Script : /\ Chunk(s) \in Value /\ Dir(s) \in Value /\ Arg(s) \in Value
                       /\ Thrown(s) \in Value /\ IsTable(Thrown(s)) /\ Thrown(s) # Table
  /\ \A r, s \in Script : Thrown(r) = Thrown(s) => r = s
  /\ IsTable(Table) /\ ~IsTable(Message) /\ ~IsTable(Other) /\ ~IsTable(Text)
  <1> DEFINE Kinds == {"table", "message", "other", "text", "nil", "frame", "rows", "key", "chunk", "dir", "arg"}
  <1>1. ASSUME NEW k \in Kinds, NEW s \in Script \cup {None} PROVE Val(k, s) \in Value
    BY DEF Val, Value
  <1>2. IsTable(Table) /\ ~IsTable(Message) /\ ~IsTable(Other) /\ ~IsTable(Text)
    BY DEF Message, Table, Text, Other, Val, IsTable
  <1>3. \A s \in Script : IsTable(Thrown(s)) /\ Thrown(s) # Table
    <2>1. \A s \in Script : s # None
      BY HostAssumption
    <2> QED
      BY <2>1 DEF Thrown, Table, Val, IsTable
  <1>4. \A r, s \in Script : Thrown(r) = Thrown(s) => r = s
    BY DEF Thrown, Val
  <1> QED
    BY <1>1, <1>2, <1>3, <1>4 DEF Table, Thrown, Message, Other, Text, Nil, Frame, Rows, Key, Chunk, Dir, Arg

(* Taking n values off.                                                    *)
LEMMA Popping ==
  ASSUME NEW st \in Seq(Value), NEW n \in Nat, n <= Len(st)
  PROVE  /\ SubSeq(st, 1, n) \in Seq(Value) /\ Len(SubSeq(st, 1, n)) = n
         /\ \A k \in 1 .. n : SubSeq(st, 1, n)[k] = st[k]
  OBVIOUS

(* A sequence that agrees with another one as far as it goes is its front. *)
LEMMA Agree ==
  ASSUME NEW st \in Seq(Value), NEW t \in Seq(Value), Len(t) <= Len(st),
         \A k \in 1 .. Len(t) : st[k] = t[k]
  PROVE  SubSeq(st, 1, Len(t)) = t
  OBVIOUS

(* A value is pushed and taken off, with what is called above it or not.   *)
LEMMA Pushing ==
  ASSUME NEW st \in Seq(Value), NEW x \in Value
  PROVE  /\ Push(st, x) \in Seq(Value) /\ Len(Push(st, x)) = Len(st) + 1
         /\ Push(st, x)[Len(st) + 1] = x /\ \A k \in 1 .. Len(st) : Push(st, x)[k] = st[k]
         /\ Pop(Push(st, x), 1) = st
         /\ FuncAt(Push(st, x), 0) = Len(st) + 1
         /\ Len(st) # 0 => At(Push(st, x), -2) = st[Len(st)]
         /\ Returned(Push(st, x), FuncAt(Push(st, x), 0), << >>) = st
         /\ \A m : Caught(Push(st, x), FuncAt(Push(st, x), 0), m) = Push(st, m)
  <1>1. /\ Push(st, x) \in Seq(Value) /\ Len(Push(st, x)) = Len(st) + 1 /\ Len(st) \in Nat
        /\ Push(st, x)[Len(st) + 1] = x /\ \A k \in 1 .. Len(st) : Push(st, x)[k] = st[k]
    BY DEF Push
  <1> DEFINE p == Push(st, x)
  <1>2. SubSeq(p, 1, Len(st)) = st
    <2> HIDE DEF p
    <2> QED
      BY <1>1, Agree DEF p
  <1>3. Pop(p, 1) = st
    BY <1>1, <1>2 DEF Pop
  <1>4. FuncAt(p, 0) = Len(st) + 1
    BY <1>1 DEF FuncAt
  <1>5. Len(st) # 0 => At(p, -2) = st[Len(st)]
    <2>1. Len(p) + 1 + (-2) = Len(st)
      BY <1>1
    <2>2. Len(st) # 0 => Len(st) \in 1 .. Len(st)
      BY <1>1
    <2> QED
      BY <1>1, <2>1, <2>2 DEF At
  <1>6. Returned(p, FuncAt(p, 0), << >>) = st
    <2>1. Returned(p, FuncAt(p, 0), << >>) = st \o << >>
      BY <1>1, <1>2, <1>4 DEF Returned
    <2>2. st \o << >> = st
      OBVIOUS
    <2> QED
      BY <2>1, <2>2
  <1>7. ASSUME NEW m PROVE Caught(p, FuncAt(p, 0), m) = Push(st, m)
    BY <1>1, <1>2, <1>4 DEF Caught, Push
  <1> QED
    BY <1>1, <1>3, <1>4, <1>5, <1>6, <1>7

(* What the loader leaves on the stack after a file that ran.              *)
LEMMA RunLeaves ==
  ASSUME NEW st \in Seq(Value), NEW D
  PROVE  AfterRun(st, D) = IF "signin" \in D /\ "description" \notin D THEN Push(st, Text) ELSE st
  <1>1. Text \in Value /\ Nil \in Value
    BY Values
  <1>2. Push(st, Text) \in Seq(Value)
    BY <1>1, Pushing
  <1>3. Pop(Push(st, Nil), 1) = st /\ Pop(Push(st, Text), 1) = st
        /\ Pop(Push(Push(st, Text), Nil), 1) = Push(st, Text)
    BY <1>1, <1>2, Pushing
  <1>4. Pop(Push(Push(st, Text), Text), 2) = st
    <2>1. /\ Len(Push(Push(st, Text), Text)) = Len(st) + 2
          /\ Push(Push(st, Text), Text) \in Seq(Value)
          /\ \A k \in 1 .. Len(st) : Push(Push(st, Text), Text)[k] = st[k]
      BY <1>1 DEF Push
    <2>2. SubSeq(Push(Push(st, Text), Text), 1, Len(st)) = st
      BY <2>1, Agree
    <2> QED
      BY <2>1, <2>2 DEF Pop
  <1> QED
    BY <1>3, <1>4 DEF AfterRun

-----------------------------------------------------------------------------
(* One more line in the log.                                               *)
LEMMA Logged ==
  ASSUME log \in Seq(Lines), Offers, Panicked <=> Late, ~Panicked, NEW s \in Script, NEW o \in Outcomes,
         log' = Append(log, [file |-> s, outcome |-> o]), defines' = defines,
         disks' = IF o = "offered" THEN disks \cup {s} ELSE disks
  PROVE  /\ log' \in Seq(Lines) /\ Offers'
         /\ Spoiled' <=> Spoiled \/ Spoils(o)
         /\ Panicked' <=> o = "panic"
         /\ Late' <=> Spoiled /\ defines[s] # {"broken"}
  <1> DEFINE e == [file |-> s, outcome |-> o]
             n == Len(log)
  <1>1. e \in Lines /\ e.file = s /\ e.outcome = o /\ n \in Nat
    BY DEF Lines
  <1> HIDE DEF e
  <1>2. log' = Append(log, e)
    BY DEF e
  <1>3. log' \in Seq(Lines) /\ Len(log') = n + 1
    BY <1>1, <1>2
  <1>4. (\A i \in 1 .. n : log'[i] = log[i]) /\ log'[n + 1] = e
    BY <1>1, <1>2
  <1>5. \A i : i \in 1 .. n + 1 <=> i \in 1 .. n \/ i = n + 1
    BY <1>1
  <1> HIDE DEF n
  <1>6. Spoiled' <=> Spoiled \/ Spoils(o)
    <2>1. Spoiled' <=> \E i \in 1 .. n + 1 : Spoils(log'[i].outcome)
      BY <1>3 DEF Spoiled
    <2>2. Spoiled <=> \E i \in 1 .. n : Spoils(log[i].outcome)
      BY DEF Spoiled, n
    <2> QED
      BY <1>1, <1>4, <1>5, <2>1, <2>2
  <1>7. Panicked' <=> o = "panic"
    <2>1. Panicked' <=> \E i \in 1 .. n + 1 : log'[i].outcome = "panic"
      BY <1>3 DEF Panicked
    <2>2. ~\E i \in 1 .. n : log[i].outcome = "panic"
      BY DEF Panicked, n
    <2> QED
      BY <1>1, <1>4, <1>5, <2>1, <2>2
  <1>8. Late' <=> Spoiled /\ defines[s] # {"broken"}
    <2>1. Late' <=> \E i, j \in 1 .. n + 1 :
             i < j /\ Spoils(log'[i].outcome) /\ defines[log'[j].file] # {"broken"}
      BY <1>3 DEF Late
    <2>2. ~\E i, j \in 1 .. n : i < j /\ Spoils(log[i].outcome) /\ defines[log[j].file] # {"broken"}
      BY DEF Late, n
    <2>3. Spoiled <=> \E i \in 1 .. n : Spoils(log[i].outcome)
      BY DEF Spoiled, n
    <2>4. \A i \in 1 .. n : i < n + 1 /\ ~(n + 1 < i)
      BY <1>1 DEF n
    <2>5. ASSUME NEW i \in 1 .. n + 1, NEW j \in 1 .. n + 1, i < j,
                 Spoils(log'[i].outcome), defines[log'[j].file] # {"broken"}
          PROVE  Spoiled /\ defines[s] # {"broken"}
      <3>1. i \in 1 .. n
        BY <1>1, <2>5 DEF n
      <3>2. Spoils(log[i].outcome)
        BY <1>4, <2>5, <3>1
      <3>3. j \notin 1 .. n
        <4>1. SUFFICES ASSUME j \in 1 .. n PROVE FALSE
          OBVIOUS
        <4>2. log'[j] = log[j]
          BY <1>4, <4>1
        <4> QED
          BY <2>2, <2>5, <3>1, <3>2, <4>1, <4>2
      <3>4. j = n + 1
        BY <1>5, <3>3
      <3> QED
        BY <1>1, <1>4, <2>3, <2>5, <3>1, <3>2, <3>4
    <2>6. ASSUME Spoiled, defines[s] # {"broken"}
          PROVE  \E i, j \in 1 .. n + 1 :
             i < j /\ Spoils(log'[i].outcome) /\ defines[log'[j].file] # {"broken"}
      <3>1. PICK i \in 1 .. n : Spoils(log[i].outcome)
        BY <2>3, <2>6
      <3>2. i \in 1 .. n + 1 /\ n + 1 \in 1 .. n + 1 /\ i < n + 1 /\ Spoils(log'[i].outcome)
        BY <1>4, <1>5, <2>4, <3>1
      <3>3. defines[log'[n + 1].file] # {"broken"}
        BY <1>1, <1>4, <2>6
      <3> QED
        BY <3>2, <3>3
    <2> QED
      BY <2>1, <2>5, <2>6
  <1>9. Offers'
    <2> DEFINE F == {log[i].file : i \in {j \in 1 .. n : log[j].outcome = "offered"}}
               G == {log'[i].file : i \in {j \in 1 .. n + 1 : log'[j].outcome = "offered"}}
    <2>1. disks = F
      BY DEF Offers, n
    <2>2. G = IF o = "offered" THEN F \cup {s} ELSE F
      <3>1. ASSUME NEW x PROVE x \in G <=> \E i \in 1 .. n + 1 : log'[i].outcome = "offered" /\ x = log'[i].file
        OBVIOUS
      <3>2. ASSUME NEW x PROVE x \in F <=> \E i \in 1 .. n : log[i].outcome = "offered" /\ x = log[i].file
        OBVIOUS
      <3> HIDE DEF F, G
      <3>3. ASSUME NEW x PROVE x \in G <=> x \in F \/ (o = "offered" /\ x = s)
        <4>1. ASSUME x \in F PROVE x \in G
          <5>1. PICK i \in 1 .. n : log[i].outcome = "offered" /\ x = log[i].file
            BY <3>2, <4>1
          <5>2. i \in 1 .. n + 1 /\ log'[i] = log[i]
            BY <1>4, <1>5
          <5> QED
            BY <3>1, <5>1, <5>2
        <4>2. o = "offered" /\ x = s => x \in G
          BY <1>1, <1>4, <1>5, <3>1
        <4>3. ASSUME x \in G PROVE x \in F \/ (o = "offered" /\ x = s)
          <5>1. PICK i \in 1 .. n + 1 : log'[i].outcome = "offered" /\ x = log'[i].file
            BY <3>1, <4>3
          <5>2. CASE i \in 1 .. n
            BY <1>4, <3>2, <5>1, <5>2
          <5>3. CASE i = n + 1
            BY <1>1, <1>4, <5>1, <5>3
          <5> QED
            BY <1>5, <5>2, <5>3
        <4> QED
          BY <4>1, <4>2, <4>3
      <3> QED
        BY <3>3
    <2> HIDE DEF F
    <2>3. disks' = G
      BY <2>1, <2>2
    <2> QED
      BY <1>3, <2>3 DEF Offers
  <1> QED
    BY <1>3, <1>6, <1>7, <1>8, <1>9

(* Where the chunks are after one more file: t is the value below the      *)
(* chunk, and u the one the file leaves on top.                            *)
LEMMA Finding ==
  ASSUME log \in Seq(Lines), Stored, todo \subseteq Script, NEW s \in todo, NEW o \in Outcomes,
         log' = Append(log, [file |-> s, outcome |-> o]), todo' = todo \ {s},
         NEW t, NEW u, Found(t),
         \/ /\ t \in Tables /\ chunks' = chunks \cup {<<t, s>>}
            /\ \/ Fine(o) /\ u = t
               \/ o = "threw" /\ u = Thrown(s)
               \/ Spoils(o) /\ ~IsTable(u)
         \/ chunks' = chunks /\ Spoils(o) /\ ~IsTable(u)
  PROVE  Stored' /\ Found(u)'
  <1> DEFINE e == [file |-> s, outcome |-> o]
             n == Len(log)
  <1>1. e.file = s /\ e.outcome = o /\ n \in Nat
    OBVIOUS
  <1>2. /\ Len(log') = n + 1 /\ log'[n + 1] = e
        /\ \A i \in 1 .. n : log'[i] = log[i]
    <2>1. e \in Lines
      BY DEF Lines
    <2> HIDE DEF e
    <2> QED
      BY <2>1 DEF e
  <1>3. \A i : i \in 1 .. n + 1 <=> i \in 1 .. n \/ i = n + 1
    BY <1>1
  <1> HIDE DEF e
  <1>4. s \in Script /\ s \notin Script \ todo /\ \A v \in Tables : IsTable(v) /\ v # Thrown(s)
    BY Values DEF Tables
  <1>5. \A i \in 1 .. n : log[i].file # s
    BY DEF Stored
  <1>6. Tables' = Tables \cup {Thrown(s)}
    BY <1>4 DEF Tables
  <1>7. Stored'
    <2>1. chunks' \subseteq Tables' \X (Script \ todo')
      BY <1>4, <1>6 DEF Stored
    <2>2. ASSUME NEW i \in 1 .. n + 1 PROVE log'[i].file \notin todo'
      <3>1. CASE i \in 1 .. n
        BY <1>2, <3>1 DEF Stored
      <3>2. CASE i = n + 1
        BY <1>1, <1>2, <3>2
      <3> QED
        BY <1>3, <3>1, <3>2
    <2> QED
      BY <1>2, <2>1, <2>2 DEF Stored
  <1>8. ASSUME NEW i \in 1 .. n + 1
        PROVE  (\A j \in i .. n + 1 : Fine(log'[j].outcome)) <=>
                  Fine(o) /\ (i \in 1 .. n => \A j \in i .. n : Fine(log[j].outcome))
    <2>1. i \in Nat \ {0} /\ i <= n + 1
      BY <1>1
    <2>2. \A j : j \in i .. n + 1 <=> j = n + 1 \/ (i \in 1 .. n /\ j \in i .. n)
      BY <1>1, <2>1
    <2>3. \A j \in i .. n : log'[j] = log[j]
      <3>1. \A j \in i .. n : j \in 1 .. n
        BY <1>1, <2>1
      <3> QED
        BY <1>2, <3>1
    <2> HIDE DEF n
    <2> QED
      BY <1>1, <1>2, <2>2, <2>3
  <1>9. ASSUME NEW i \in 1 .. n + 1
        PROVE  <<u, log'[i].file>> \in chunks' <=>
                  Fine(o) /\ (i \in 1 .. n => \A j \in i .. n : Fine(log[j].outcome))
    <2>1. i \in 1 .. n => (<<t, log[i].file>> \in chunks <=> \A j \in i .. n : Fine(log[j].outcome))
      BY DEF Found
    <2>2. i \in 1 .. n => log'[i].file = log[i].file /\ log[i].file # s
      BY <1>2, <1>5
    <2>3. i \notin 1 .. n => log'[i].file = s
      BY <1>1, <1>2, <1>3
    <2>4. \A x : <<u, x>> \in chunks => u \in Tables
      BY DEF Stored
    <2>5. CASE t \in Tables /\ chunks' = chunks \cup {<<t, s>>} /\ Fine(o) /\ u = t
      <3>1. CASE i \in 1 .. n
        <4>1. <<u, log'[i].file>> # <<t, s>>
          BY <2>2, <3>1
        <4> QED
          BY <2>1, <2>2, <2>5, <3>1, <4>1
      <3>2. CASE i \notin 1 .. n
        BY <2>3, <2>5, <3>2
      <3> QED
        BY <3>1, <3>2
    <2>6. CASE ~Fine(o)
      <3>1. \A x : <<u, x>> \notin chunks'
        <4>1. u \notin Tables
          BY <1>4, <2>6 DEF Fine, Spoils
        <4>2. chunks' = chunks \/ (t \in Tables /\ chunks' = chunks \cup {<<t, s>>})
          OBVIOUS
        <4> QED
          BY <2>4, <4>1, <4>2
      <3> QED
        BY <2>6, <3>1
    <2>7. o = "threw" => ~Fine(o)
      BY DEF Fine
    <2>8. Spoils(o) => ~Fine(o)
      BY DEF Fine
    <2> QED
      BY <2>5, <2>6, <2>7, <2>8
  <1>10. Found(u)'
    BY <1>2, <1>8, <1>9 DEF Found
  <1> QED
    BY <1>7, <1>10

(* The globals after a run, or a reset, belong to one script.              *)
OneScript(g) ==
    /\ g \in [Field -> Script \cup {None}]
    /\ \A f, h \in Field : None \in {g[f], g[h]} \/ g[f] = g[h]

(* After a chunk or lua_reset the globals are one script's                 *)
(* (utility.c:124-142).                                                    *)
LEMMA Globals ==
  ASSUME NEW s \in Script, NEW D
  PROVE  /\ OneScript(Defined(s, D)) /\ OneScript(Reset(globals))
         /\ Defined(s, D)["dir"] \in {s, None}
  BY DEF OneScript, Defined, Reset, Field

(* One file, whatever becomes of it.                                       *)
LEMMA Loading ==
  ASSUME IInv, proc = "loading", NEW s \in todo, NEW o \in Outcomes, Loaded(s, o),
         disks' = IF o = "offered" THEN disks \cup {s} ELSE disks,
         proc' = IF o = "panic" THEN "exited" ELSE proc,
         OneScript(globals'), stack' \in Seq(Value),
         o = "panic" <=> Spoiled /\ defines[s] # {"broken"},
         o = "offered" => defines[s] # {"broken"},
         NEW t \in Value, t = stack[Len(stack)], NEW u \in Value,
         o = "panic" => chunks' = chunks,
         o # "panic" =>
             /\ stack' # << >> /\ u = stack'[Len(stack')]
             /\ IsTable(u) <=> ~(Spoiled \/ Spoils(o))
             /\ \/ /\ IsTable(t) /\ chunks' = chunks \cup {<<t, s>>}
                   /\ \/ Fine(o) /\ u = t
                      \/ o = "threw" /\ u = Thrown(s)
                      \/ Spoils(o) /\ ~IsTable(u)
                \/ chunks' = chunks /\ Spoils(o) /\ ~IsTable(u)
  PROVE  IInv'
  <1>1. /\ log \in Seq(Lines) /\ Offers /\ (Panicked <=> Late) /\ ~Panicked /\ calls = << >>
        /\ Stored /\ Found(t) /\ (IsTable(t) => t \in Tables)
    BY DEF IInv, Loader
  <1>2. /\ todo' = todo \ {s} /\ log' = Append(log, [file |-> s, outcome |-> o])
        /\ defines' = defines /\ entries' = entries /\ calls' = calls
    BY DEF Loaded
  <1>3. /\ todo \subseteq Script /\ s \in Script /\ disks \subseteq Script \ todo
        /\ chunks \subseteq Value \X (Script \ todo)
    BY DEF IInv, TypeOK
  <1>4. /\ log' \in Seq(Lines) /\ Offers'
        /\ Spoiled' <=> Spoiled \/ Spoils(o)
        /\ Panicked' <=> o = "panic"
        /\ Late' <=> Spoiled /\ defines[s] # {"broken"}
    BY <1>1, <1>2, <1>3, Logged
  <1>5. proc' \in {"loading", "exited"} /\ (proc' = "loading" <=> o # "panic")
    OBVIOUS
  <1>6. proc' = "loading" => Stored' /\ Found(u)' /\ (IsTable(u) => u \in Tables')
    <2> SUFFICES ASSUME o # "panic" PROVE Stored' /\ Found(u)' /\ (IsTable(u) => u \in Tables')
      BY <1>5
    <2>1. Stored' /\ Found(u)'
      BY <1>1, <1>2, <1>3, Finding
    <2>2. t \in Tables => t \in Tables'
      BY <1>2 DEF Tables
    <2>3. Thrown(s) \in Tables'
      BY <1>2, <1>3 DEF Tables
    <2> QED
      BY <1>1, <2>1, <2>2, <2>3
  <1>7. proc' = "loading" =>
            ~Panicked' /\ stack' # << >> /\ u = stack'[Len(stack')] /\ (IsTable(u) <=> ~Spoiled')
    BY <1>4, <1>5
  <1>8. Panicked' <=> Late'
    BY <1>4
  <1>9. Loader'
    BY <1>1, <1>2, <1>4, <1>5, <1>6, <1>7, <1>8 DEF Loader
  <1>10. chunks' \subseteq Value \X (Script \ todo')
    <2>1. chunks' \subseteq chunks \cup {<<t, s>>}
      OBVIOUS
    <2> QED
      BY <1>2, <1>3, <2>1
  <1>11. disks' \subseteq Script \ todo'
    BY <1>2, <1>3
  <1>12. TypeOK'
    <2>1. /\ proc' \in {"loading", "up", "detached", "exited"} /\ todo' \subseteq Script
          /\ entries' \in Value /\ calls' \in Seq(Call) /\ Len(calls') <= MaxDepth
      BY <1>2, <1>3, <1>5 DEF IInv, TypeOK
    <2> QED
      BY <1>10, <1>11, <2>1 DEF TypeOK, OneScript
  <1> QED
    BY <1>5, <1>9, <1>12 DEF IInv

(* The loader keeps the invariant, whichever way a file goes.              *)
LEMMA LoaderSteps ==
  ASSUME IInv, NEW s \in Script, LoadBroken(s) \/ LoadPanics(s) \/ LoadRuns(s) \/ LoadFails(s)
  PROVE  IInv'
  <1>1. stack \in Seq(Value) /\ s \in todo /\ proc = "loading" /\ stack # << >>
    BY DEF IInv, TypeOK, Loader, LoadBroken, LoadPanics, LoadRuns, LoadFails
  <1>t. PICK t \in Value : t = stack[Len(stack)] /\ (IsTable(t) <=> ~Spoiled)
    BY <1>1 DEF IInv, Loader
  <1>2. Len(stack) \in Nat /\ Len(stack) # 0
    BY <1>1, EmptySeq
  <1>3. /\ Message \in Value /\ Text \in Value /\ Chunk(s) \in Value
        /\ Other \in Value /\ Thrown(s) \in Value /\ IsTable(Thrown(s))
        /\ ~IsTable(Message) /\ ~IsTable(Text) /\ ~IsTable(Other)
    BY Values
  <1>4. /\ At(Push(stack, Chunk(s)), -2) = t
        /\ Returned(Push(stack, Chunk(s)), FuncAt(Push(stack, Chunk(s)), 0), << >>) = stack
        /\ \A v : Caught(Push(stack, Chunk(s)), FuncAt(Push(stack, Chunk(s)), 0), v) = Push(stack, v)
    BY <1>1, <1>t, <1>2, <1>3, Pushing
  <1>5. ASSUME NEW x \in Value
        PROVE  Push(stack, x) \in Seq(Value) /\ Push(stack, x) # << >>
               /\ Push(stack, x)[Len(Push(stack, x))] = x
    <2>1. Push(stack, x) \in Seq(Value) /\ Len(Push(stack, x)) = Len(stack) + 1
          /\ Push(stack, x)[Len(stack) + 1] = x
      BY <1>1, Pushing
    <2> QED
      BY <1>2, <2>1, EmptySeq
  <1>6. OneScript(Reset(globals)) /\ \A D : OneScript(Defined(s, D))
    BY Globals
  <1>7. CASE LoadBroken(s)
    <2>1. /\ defines[s] = {"broken"} /\ globals' = Reset(globals) /\ stack' = Push(stack, Message)
          /\ Loaded(s, "broken") /\ proc' = proc /\ chunks' = chunks /\ disks' = disks
      BY <1>7 DEF LoadBroken
    <2>2. "broken" \in Outcomes /\ Spoils("broken")
      BY DEF Outcomes, Spoils
    <2> DEFINE o == "broken"
    <2>3. o \in Outcomes /\ o # "panic" /\ o # "offered" /\ Spoils(o) /\ Loaded(s, o)
      BY <2>1, <2>2
    <2> HIDE DEF o
    <2>4. stack'[Len(stack')] = Message /\ stack' # << >> /\ stack' \in Seq(Value)
      BY <1>3, <1>5, <2>1
    <2>5. OneScript(globals')
      BY <1>6, <2>1
    <2>6. PICK u \in Value : u = Message /\ ~IsTable(u)
      BY <1>3
    <2> QED
      BY <1>1, <1>t, <2>1, <2>3, <2>4, <2>5, <2>6, Loading
  <1>8. CASE LoadPanics(s)
    <2>1. /\ defines[s] # {"broken"} /\ globals' = Reset(globals) /\ stack' = Push(stack, Chunk(s))
          /\ ~IsTable(At(Push(stack, Chunk(s)), -2))
          /\ Loaded(s, "panic") /\ proc' = "exited" /\ chunks' = chunks /\ disks' = disks
      BY <1>8 DEF LoadPanics
    <2> DEFINE o == "panic"
    <2>2. o \in Outcomes /\ o = "panic" /\ o # "offered" /\ Loaded(s, o)
      BY <2>1 DEF Outcomes
    <2> HIDE DEF o
    <2>3. Spoiled /\ stack' \in Seq(Value) /\ OneScript(globals')
      BY <1>t, <1>3, <1>4, <1>5, <1>6, <2>1
    <2> QED
      BY <1>1, <1>t, <2>1, <2>2, <2>3, Loading
  <1>9. CASE LoadRuns(s)
    <2> DEFINE D == defines[s]
               o == Outcome(D)
    <2>1. /\ defines[s] # {"broken"} /\ globals' = Defined(s, D)
          /\ IsTable(t)
          /\ stack' = AfterRun(stack, D)
          /\ Loaded(s, o) /\ proc' = proc /\ chunks' = chunks \cup {<<t, s>>}
          /\ disks' = IF o = "offered" THEN disks \cup {s} ELSE disks
      BY <1>4, <1>9 DEF LoadRuns
    <2>2. o \in Outcomes /\ o # "panic" /\ (Spoils(o) <=> "signin" \in D /\ "description" \notin D)
          /\ (Fine(o) <=> ~Spoils(o))
      BY DEF Outcome, Outcomes, Spoils, Fine
    <2>3. stack' = IF "signin" \in D /\ "description" \notin D THEN Push(stack, Text) ELSE stack
      BY <1>1, <2>1, RunLeaves
    <2> HIDE DEF o, D
    <2>4. ~Spoiled
      BY <1>t, <2>1
    <2>6. stack' # << >> /\ stack' \in Seq(Value)
      BY <1>1, <1>3, <1>5, <2>3
    <2>5. PICK u \in Value : u = stack'[Len(stack')] /\ (Fine(o) => u = t) /\ (Spoils(o) => ~IsTable(u))
      BY <1>t, <1>3, <1>5, <2>2, <2>3
    <2>7. OneScript(globals')
      BY <1>6, <2>1
    <2>8. IsTable(u) <=> ~Spoils(o)
      BY <2>1, <2>2, <2>5
    <2> QED
      BY <1>1, <1>t, <2>1, <2>2, <2>4, <2>5, <2>6, <2>7, <2>8, Loading
  <1>10. CASE LoadFails(s)
    <2>1. /\ defines[s] # {"broken"} /\ \E D \in SUBSET defines[s] : globals' = Defined(s, D)
          /\ IsTable(t) /\ proc' = proc /\ chunks' = chunks \cup {<<t, s>>} /\ disks' = disks
      BY <1>4, <1>10 DEF LoadFails
    <2>2. PICK u \in {Message, Other, Thrown(s)} :
             stack' = Push(stack, u) /\ Loaded(s, IF IsTable(u) THEN "threw" ELSE "failed")
      BY <1>4, <1>10 DEF LoadFails
    <2> DEFINE o == IF IsTable(u) THEN "threw" ELSE "failed"
    <2>3. /\ o \in Outcomes /\ o # "panic" /\ o # "offered" /\ Loaded(s, o)
          /\ IsTable(u) => o = "threw" /\ ~Spoils(o) /\ u = Thrown(s)
          /\ ~IsTable(u) => Spoils(o)
      BY <1>3, <2>2 DEF Outcomes, Spoils
    <2> HIDE DEF o
    <2>4. ~Spoiled
      BY <1>t, <2>1
    <2>5. u \in Value /\ stack'[Len(stack')] = u /\ stack' # << >> /\ stack' \in Seq(Value)
      BY <1>3, <1>5, <2>2
    <2>6. OneScript(globals')
      BY <1>6, <2>1
    <2> QED
      BY <1>1, <1>t, <2>1, <2>3, <2>4, <2>5, <2>6, Loading
  <1> QED
    BY <1>7, <1>8, <1>9, <1>10

(* The end of the loading: what is on top becomes `entries'.               *)
LEMMA LoadingEnds ==
  ASSUME IInv, LoadEnds
  PROVE  IInv'
  <1>1. /\ stack \in Seq(Value) /\ proc = "loading" /\ stack # << >> /\ todo = {}
        /\ log \in Seq(Lines) /\ Offers /\ (Panicked <=> Late) /\ calls = << >>
    BY DEF IInv, TypeOK, Loader, LoadEnds
  <1>t. PICK t \in Value : t = stack[Len(stack)] /\ Found(t)
    BY <1>1 DEF IInv, Loader
  <1>2. /\ entries' = At(stack, -1) /\ stack' = Pop(stack, 1) /\ proc' = "up"
        /\ UNCHANGED <<defines, todo, globals, chunks, disks, calls, log>>
    BY DEF LoadEnds
  <1>3. Len(stack) \in Nat /\ Len(stack) # 0 /\ Len(stack) - 1 \in Nat
    BY <1>1, EmptySeq
  <1>4. entries' = stack[Len(stack)] /\ entries' \in Value /\ stack' \in Seq(Value)
    <2>1. Len(stack) + 1 + (-1) = Len(stack) /\ Len(stack) \in 1 .. Len(stack)
      BY <1>3
    <2>2. entries' = stack[Len(stack)] /\ entries' \in Value
      BY <1>1, <1>2, <2>1 DEF At
    <2>3. stack' \in Seq(Value)
      BY <1>1, <1>2, <1>3, Popping DEF Pop
    <2> QED
      BY <2>2, <2>3
  <1>5. TypeOK'
    BY <1>2, <1>4 DEF IInv, TypeOK
  <1>6. Offers' /\ (Panicked' <=> Panicked) /\ (Late' <=> Late) /\ log' \in Seq(Lines)
    BY <1>1, <1>2 DEF Offers, Panicked, Late
  <1>7. Found(entries)'
    BY <1>t, <1>2, <1>4 DEF Found
  <1>8. Loader'
    BY <1>1, <1>2, <1>6, <1>7 DEF Loader
  <1>9. Nested(entries', stack', calls')
    BY <1>1, <1>2 DEF Nested
  <1> QED
    BY <1>5, <1>8, <1>9 DEF IInv

-----------------------------------------------------------------------------
(* A listing that waits keeps its values when the stack changes above them. *)
LEMMA Waiting ==
  ASSUME NEW e, NEW st, NEW t, NEW c, Placed(e, st, c), c.pc = "window", c.func \in Nat \ {0},
         Len(t) \in Nat, c.func + 1 <= Len(t), \A k \in 1 .. c.func + 1 : t[k] = st[k]
  PROVE  Placed(e, t, c)
  <1>1. /\ Base(e, c) \in Seq(Value) /\ c.func = Len(Base(e, c)) + 1 /\ Len(c.below) <= c.func - 1
        /\ \A k \in 1 .. c.func - 1 : st[k] = Base(e, c)[k]
        /\ st[c.func] = Dir(c.entry) /\ st[c.func + 1] = Arg(c.entry)
    BY DEF Placed
  <1>2. /\ \A k \in 1 .. c.func - 1 : t[k] = Base(e, c)[k]
        /\ t[c.func] = Dir(c.entry) /\ t[c.func + 1] = Arg(c.entry)
    BY <1>1
  <1>3. c.func - 1 <= Len(t)
    OBVIOUS
  <1> QED
    BY <1>1, <1>2, <1>3 DEF Placed

(* The innermost listings end, down to the m that are left.                *)
LEMMA Unwound ==
  ASSUME NEW e, NEW st \in Seq(Value), NEW cs \in Seq(Call), Nested(e, st, cs),
         NEW m \in Nat, m < Len(cs)
  PROVE  LET c == cs[m + 1]
             t == SubSeq(st, 1, c.func - 1)
         IN  /\ t = Base(e, c) /\ t \in Seq(Value)
             /\ SubSeq(cs, 1, m) \in Seq(Call) /\ Len(SubSeq(cs, 1, m)) = m
             /\ Nested(e, t, SubSeq(cs, 1, m))
  <1> DEFINE c == cs[m + 1]
             t == SubSeq(st, 1, c.func - 1)
             u == SubSeq(cs, 1, m)
             b == Base(e, c)
  <1>1. m + 1 \in 1 .. Len(cs) /\ Len(cs) \in Nat
    OBVIOUS
  <1>2. Placed(e, st, c) /\ c \in Call
    BY <1>1 DEF Nested
  <1>3. /\ b \in Seq(Value) /\ c.func = Len(b) + 1 /\ c.func - 1 <= Len(st)
        /\ Len(c.below) <= c.func - 1 /\ \A k \in 1 .. c.func - 1 : st[k] = b[k]
    BY <1>2 DEF Placed
  <1> HIDE DEF b, c
  <1>4. t = b /\ Len(b) \in Nat
    <2>1. Len(b) \in Nat /\ c.func - 1 = Len(b)
      BY <1>3
    <2>2. SubSeq(st, 1, Len(b)) = b
      BY <1>3, <2>1, Agree
    <2> QED
      BY <2>1, <2>2
  <1>5. u \in Seq(Call) /\ Len(u) = m /\ \A i \in 1 .. m : u[i] = cs[i] /\ i \in 1 .. Len(cs) /\ i < m + 1
    BY <1>1
  <1> HIDE DEF t, u
  <1>6. ASSUME NEW i \in 1 .. m PROVE Placed(e, t, u[i]) /\ u[i].pc = "window"
    <2>1. /\ u[i] = cs[i] /\ i \in 1 .. Len(cs) /\ i < Len(cs) /\ i < m + 1 /\ cs[i] \in Call
      BY <1>1, <1>5
    <2>2. Placed(e, st, cs[i]) /\ cs[i].pc = "window" /\ cs[i].func + 1 <= Len(c.below)
      BY <1>1, <2>1 DEF Nested, c
    <2>3. cs[i].func \in Nat \ {0}
      <3>1. cs[i].func \in Nat
        BY <2>1 DEF Call
      <3>2. cs[i].func = Len(Base(e, cs[i])) + 1 /\ Base(e, cs[i]) \in Seq(Value)
        BY <2>2 DEF Placed
      <3> QED
        BY <3>1, <3>2
    <2>4. Len(c.below) <= Len(b)
      BY <1>3, <1>4
    <2>5. c.below \in Seq(Value)
      BY <1>2 DEF Call
    <2>6. Len(c.below) \in Nat
      BY <2>5
    <2>7. cs[i].func + 1 <= Len(b)
      BY <1>4, <2>2, <2>3, <2>4, <2>6
    <2>8. \A k \in 1 .. cs[i].func + 1 : t[k] = st[k]
      BY <1>3, <1>4, <2>3, <2>7
    <2>9. Placed(e, t, cs[i])
      BY <1>4, <2>2, <2>3, <2>7, <2>8, Waiting
    <2> QED
      BY <2>1, <2>2, <2>9
  <1>7. \A i, j \in 1 .. m : i < j => u[i].func + 1 <= Len(u[j].below)
    BY <1>5 DEF Nested
  <1>8. Nested(e, t, u)
    BY <1>5, <1>6, <1>7 DEF Nested
  <1> QED
    BY <1>3, <1>4, <1>5, <1>8 DEF c, t, u, b

(* The innermost listing goes on.                                          *)
LEMMA TopMoves ==
  ASSUME NEW e, NEW st \in Seq(Value), NEW cs \in Seq(Call), Nested(e, st, cs), cs # << >>,
         NEW c \in Call, NEW t \in Seq(Value),
         c.func = cs[Len(cs)].func, c.below = cs[Len(cs)].below, c.ok = cs[Len(cs)].ok,
         c.func - 1 <= Len(t), \A k \in 1 .. c.func - 1 : t[k] = st[k],
         c.pc \in {"dir", "window"} =>
            c.func + 1 <= Len(t) /\ t[c.func] = Dir(c.entry) /\ t[c.func + 1] = Arg(c.entry),
         c.pc = "rows" => Len(t) = c.func + 1
  PROVE  LET u == [cs EXCEPT ![Len(cs)] = c]
         IN  u \in Seq(Call) /\ Len(u) = Len(cs) /\ u[Len(cs)] = c /\ Nested(e, t, u)
  <1> DEFINE n == Len(cs)
             u == [cs EXCEPT ![n] = c]
  <1>1. n \in Nat \ {0} /\ n \in 1 .. n
    BY EmptySeq
  <1>2. u \in Seq(Call) /\ Len(u) = n /\ u[n] = c /\ \A i \in 1 .. n : i # n => u[i] = cs[i]
    BY <1>1
  <1> HIDE DEF u
  <1>3. Base(e, c) = Base(e, cs[n])
    BY DEF Base
  <1>4. Placed(e, st, cs[n]) /\ cs[n] \in Call
    BY <1>1 DEF Nested
  <1>5. c.func \in Nat \ {0} /\ c.func = Len(Base(e, c)) + 1
    <2>1. Base(e, cs[n]) \in Seq(Value) /\ c.func = Len(Base(e, cs[n])) + 1
      BY <1>4 DEF Placed
    <2>2. Len(Base(e, cs[n])) \in Nat
      BY <2>1
    <2> QED
      BY <1>3, <2>1, <2>2
  <1>6. Placed(e, t, c)
    <2>1. /\ Base(e, c) \in Seq(Value) /\ Len(c.below) <= c.func - 1
          /\ \A k \in 1 .. c.func - 1 : st[k] = Base(e, c)[k]
      BY <1>3, <1>4 DEF Placed
    <2> QED
      BY <1>5, <2>1 DEF Placed
  <1>7. ASSUME NEW i \in 1 .. n, i # n PROVE Placed(e, t, cs[i]) /\ cs[i].pc = "window"
    <2>1. i < n /\ cs[i] \in Call
      BY <1>1, <1>7
    <2>2. /\ Placed(e, st, cs[i]) /\ cs[i].pc = "window" /\ cs[i].func + 1 <= Len(c.below)
      BY <1>1, <2>1 DEF Nested
    <2>3. Len(c.below) <= c.func - 1
      BY <1>4 DEF Placed
    <2>4. c.below \in Seq(Value)
      BY DEF Call
    <2>5. Len(c.below) \in Nat /\ Len(t) \in Nat
      BY <2>4
    <2>6. cs[i].func \in Nat \ {0}
      <3>1. cs[i].func = Len(Base(e, cs[i])) + 1 /\ Base(e, cs[i]) \in Seq(Value)
        BY <2>2 DEF Placed
      <3>2. Len(Base(e, cs[i])) \in Nat
        BY <3>1
      <3> QED
        BY <3>1, <3>2
    <2>7. cs[i].func + 1 <= Len(t) /\ cs[i].func + 1 <= c.func - 1
      <3>1. cs[i].func + 1 <= Len(c.below) /\ c.func - 1 <= Len(t)
        BY <2>2
      <3> QED
        BY <1>5, <2>3, <2>5, <2>6, <3>1
    <2>8. \A k \in 1 .. cs[i].func + 1 : t[k] = st[k]
      BY <1>5, <2>6, <2>7
    <2>9. Placed(e, t, cs[i])
      BY <2>2, <2>5, <2>6, <2>7, <2>8, Waiting
    <2> QED
      BY <2>2, <2>9
  <1>8. ASSUME NEW i \in 1 .. n PROVE Placed(e, t, u[i]) /\ (i < n => u[i].pc = "window")
    <2>1. CASE i = n
      BY <1>1, <1>2, <1>6, <2>1
    <2>2. CASE i # n
      BY <1>2, <1>7, <2>2
    <2> QED
      BY <2>1, <2>2
  <1>9. \A i \in 1 .. n : u[i].func = cs[i].func /\ u[i].below = cs[i].below
    BY <1>2
  <1>10. \A i, j \in 1 .. n : i < j => u[i].func + 1 <= Len(u[j].below)
    BY <1>9 DEF Nested
  <1>11. Nested(e, t, u)
    BY <1>2, <1>8, <1>10 DEF Nested
  <1> QED
    BY <1>2, <1>11 DEF u

(* Something is put on top while the innermost listing waits.              *)
LEMMA Covered ==
  ASSUME NEW e, NEW st \in Seq(Value), NEW cs \in Seq(Call), Nested(e, st, cs),
         \A i \in 1 .. Len(cs) : cs[i].pc = "window",
         NEW t \in Seq(Value), Len(st) <= Len(t), \A k \in 1 .. Len(st) : t[k] = st[k]
  PROVE  /\ Nested(e, t, cs)
         /\ \A i \in 1 .. Len(cs) : cs[i].func + 1 <= Len(st)
  <1>1. ASSUME NEW i \in 1 .. Len(cs) PROVE Placed(e, t, cs[i]) /\ cs[i].func + 1 <= Len(st)
    <2>1. Placed(e, st, cs[i]) /\ cs[i].pc = "window" /\ cs[i] \in Call
      BY DEF Nested
    <2>2. cs[i].func \in Nat \ {0}
      <3>1. cs[i].func = Len(Base(e, cs[i])) + 1 /\ Base(e, cs[i]) \in Seq(Value)
        BY <2>1 DEF Placed
      <3>2. Len(Base(e, cs[i])) \in Nat
        BY <3>1
      <3> QED
        BY <3>1, <3>2
    <2>3. cs[i].func + 1 <= Len(st)
      BY <2>1 DEF Placed
    <2>4. Len(st) \in Nat /\ Len(t) \in Nat
      OBVIOUS
    <2>5. cs[i].func + 1 <= Len(t) /\ \A k \in 1 .. cs[i].func + 1 : t[k] = st[k]
      BY <2>2, <2>3, <2>4
    <2> QED
      BY <2>1, <2>2, <2>3, <2>4, <2>5, Waiting
  <1>2. Nested(e, t, cs)
    BY <1>1 DEF Nested
  <1> QED
    BY <1>1, <1>2

(* A listing begins inside those that wait.                                *)
LEMMA Deeper ==
  ASSUME NEW e, NEW st \in Seq(Value), NEW cs \in Seq(Call), Nested(e, st, cs),
         \A i \in 1 .. Len(cs) : cs[i].pc = "window",
         NEW c \in Call, c.below = st, NEW t \in Seq(Value), Placed(e, t, c),
         Len(st) <= Len(t), \A k \in 1 .. Len(st) : t[k] = st[k]
  PROVE  Append(cs, c) \in Seq(Call) /\ Len(Append(cs, c)) = Len(cs) + 1 /\ Nested(e, t, Append(cs, c))
  <1> DEFINE n == Len(cs)
             u == Append(cs, c)
  <1>1. n \in Nat /\ u \in Seq(Call) /\ Len(u) = n + 1
    OBVIOUS
  <1>2. (\A i \in 1 .. n : u[i] = cs[i]) /\ u[n + 1] = c
    OBVIOUS
  <1>3. \A i \in 1 .. n + 1 : i \in 1 .. n \/ i = n + 1
    BY <1>1
  <1>4. Nested(e, t, cs) /\ \A i \in 1 .. n : cs[i].func + 1 <= Len(st)
    BY Covered
  <1> HIDE DEF u
  <1>5. \A i \in 1 .. n : Placed(e, t, cs[i]) /\ \A j \in 1 .. n : i < j => cs[i].func + 1 <= Len(cs[j].below)
    BY <1>4 DEF Nested
  <1> HIDE DEF n
  <1>6. \A i \in 1 .. n + 1 : Placed(e, t, u[i])
    BY <1>2, <1>3, <1>5
  <1>7. ASSUME NEW i \in 1 .. n + 1, i < n + 1 PROVE u[i].pc = "window" /\ i \in 1 .. n
    BY <1>1, <1>2, <1>3, <1>7 DEF n
  <1>8. ASSUME NEW i \in 1 .. n + 1, NEW j \in 1 .. n + 1, i < j PROVE u[i].func + 1 <= Len(u[j].below)
    <2>1. i \in 1 .. n
      BY <1>1, <1>8
    <2>2. CASE j \in 1 .. n
      BY <1>2, <1>5, <1>8, <2>1, <2>2
    <2>3. CASE j = n + 1
      BY <1>2, <1>4, <2>1, <2>3 DEF n
    <2> QED
      BY <1>3, <2>2, <2>3
  <1>9. Nested(e, t, u)
    BY <1>1, <1>6, <1>7, <1>8 DEF Nested
  <1> QED
    BY <1>1, <1>9 DEF u, n

-----------------------------------------------------------------------------
(* What steps of listings leave alone.                                     *)
LEMMA UpSteps ==
  ASSUME IInv, proc = "up", proc' \in {"up", "exited"}, UNCHANGED fixed, OneScript(globals'),
         stack' \in Seq(Value), calls' \in Seq(Call), Len(calls') <= MaxDepth,
         proc' = "up" => Nested(entries, stack', calls')
  PROVE  IInv'
  <1>1. UNCHANGED <<defines, todo, entries, chunks, disks, log>>
    BY DEF fixed
  <1>2. TypeOK'
    BY <1>1 DEF IInv, TypeOK, OneScript
  <1>3. Offers' /\ (Panicked' <=> Panicked) /\ (Late' <=> Late) /\ Found(entries)'
    BY <1>1 DEF IInv, Loader, Offers, Panicked, Late, Found
  <1>4. Loader'
    BY <1>1, <1>3 DEF IInv, Loader
  <1>5. proc' = "up" => Nested(entries, stack, calls)'
    BY <1>1
  <1> QED
    BY <1>2, <1>4, <1>5 DEF IInv

(* What holds of the calls while listings run.                             *)
LEMMA UpFacts ==
  ASSUME IInv, proc = "up"
  PROVE  /\ stack \in Seq(Value) /\ entries \in Value /\ calls \in Seq(Call) /\ OneScript(globals)
         /\ Len(stack) \in Nat /\ Len(calls) \in Nat /\ Len(calls) <= MaxDepth
         /\ Nested(entries, stack, calls)
  BY DEF IInv, TypeOK, OneScript

(* A listing up to the call of dir.                                        *)
LEMMA Entering ==
  ASSUME IInv, MayEnter, Len(calls) < MaxDepth, NEW s \in disks, NEW D, NEW ok \in BOOLEAN,
         Listing(s, D, ok), proc' = proc, UNCHANGED fixed
  PROVE  /\ IInv'
         /\ calls' = calls => Len(stack') <= Len(stack) + 2 /\ SubSeq(stack', 1, Len(stack)) = stack
         /\ calls' # calls => Len(calls') = Len(calls) + 1
  <1>1. proc = "up" /\ s \in Script
    BY DEF MayEnter, IInv, TypeOK
  <1>2. /\ stack \in Seq(Value) /\ entries \in Value /\ calls \in Seq(Call)
        /\ Len(stack) \in Nat /\ Len(calls) \in Nat /\ MaxDepth \in Nat
        /\ Nested(entries, stack, calls)
    BY <1>1, UpFacts, HostAssumption
  <1>3. \A i \in 1 .. Len(calls) : calls[i].pc = "window"
    <2>1. CASE calls = << >>
      BY <2>1
    <2>2. CASE calls # << >>
      <3>1. calls[Len(calls)].pc = "window"
        BY <2>2 DEF MayEnter, Top
      <3>2. \A i \in 1 .. Len(calls) : i < Len(calls) => calls[i].pc = "window"
        BY <1>2 DEF Nested
      <3> QED
        BY <1>2, <3>1, <3>2
    <2> QED
      BY <2>1, <2>2
  <1> DEFINE X == IF <<entries, s>> \in chunks THEN Chunk(s) ELSE Nil
             asked == Push(Push(stack, entries), X)
             func == FuncAt(asked, 0)
             after == Pop(IF ok THEN Returned(asked, func, << >>) ELSE Caught(asked, func, Message), 1)
             g == Defined(s, D)
  <1>4. X \in Value /\ Message \in Value /\ Nil \in Value /\ Dir(s) \in Value /\ Arg(s) \in Value
    BY <1>1, Values
  <1>5. after = IF ok THEN stack ELSE Push(stack, entries)
    <2>1. Push(stack, entries) \in Seq(Value) /\ Pop(Push(stack, entries), 1) = stack
      BY <1>2, Pushing
    <2> HIDE DEF X
    <2> DEFINE p == Push(stack, entries)
    <2>6. /\ Returned(Push(p, X), FuncAt(Push(p, X), 0), << >>) = p
          /\ Caught(Push(p, X), FuncAt(Push(p, X), 0), Message) = Push(p, Message)
      <3> HIDE DEF p
      <3>1. p \in Seq(Value)
        BY <2>1 DEF p
      <3> QED
        BY <1>4, <3>1, Pushing
    <2>2. /\ Returned(asked, func, << >>) = Push(stack, entries)
          /\ Caught(asked, func, Message) = Push(Push(stack, entries), Message)
      BY <2>6
    <2>3. Pop(Push(Push(stack, entries), Message), 1) = Push(stack, entries)
      BY <1>4, <2>1, Pushing
    <2> HIDE DEF asked, func
    <2>4. CASE ok = TRUE
      BY <2>1, <2>2, <2>4
    <2>5. CASE ok = FALSE
      BY <2>2, <2>3, <2>5
    <2> QED
      BY <2>4, <2>5
  <1> DEFINE c == [entry |-> s, pc |-> "dir", rows |-> 0, ok |-> ok,
                   func |-> Len(after) + 1, below |-> stack]
  <1>6. /\ globals' = g
        /\ IF g["dir"] = None
           THEN stack' = Push(after, Nil) /\ UNCHANGED calls
           ELSE /\ stack' = Push(Push(after, Dir(g["dir"])), Arg(s))
                /\ calls' = Append(calls, c)
    BY DEF Listing
  <1>7. OneScript(globals') /\ g["dir"] \in {s, None}
    BY <1>1, <1>6, Globals
  <1> HIDE DEF after, X, asked, func, g
  <1>8. /\ after \in Seq(Value) /\ Len(after) \in Nat
        /\ Len(stack) <= Len(after) /\ Len(after) <= Len(stack) + 1
        /\ \A k \in 1 .. Len(stack) : after[k] = stack[k]
    <2>1. CASE ok = TRUE
      BY <1>2, <1>5, <2>1
    <2>2. CASE ok = FALSE
      <3>1. after = Push(stack, entries)
        BY <1>5, <2>2
      <3>2. /\ Push(stack, entries) \in Seq(Value) /\ Len(Push(stack, entries)) = Len(stack) + 1
            /\ \A k \in 1 .. Len(stack) : Push(stack, entries)[k] = stack[k]
        BY <1>2, Pushing
      <3> QED
        BY <1>2, <3>1, <3>2
    <2> QED
      BY <2>1, <2>2
  <1>9. CASE g["dir"] = None
    <2>1. stack' = Push(after, Nil) /\ calls' = calls
      BY <1>6, <1>9
    <2>2. /\ Push(after, Nil) \in Seq(Value) /\ Len(Push(after, Nil)) = Len(after) + 1
          /\ \A k \in 1 .. Len(after) : Push(after, Nil)[k] = after[k]
      BY <1>4, <1>8, Pushing
    <2>3. /\ stack' \in Seq(Value) /\ Len(stack) <= Len(stack') /\ Len(stack') <= Len(stack) + 2
          /\ \A k \in 1 .. Len(stack) : stack'[k] = stack[k]
      <3>1. \A k \in 1 .. Len(stack) : k \in 1 .. Len(after)
        BY <1>2, <1>8
      <3>2. \A k \in 1 .. Len(stack) : stack'[k] = stack[k]
        BY <1>8, <2>1, <2>2, <3>1
      <3>3. stack' \in Seq(Value) /\ Len(stack') = Len(after) + 1
        BY <2>1, <2>2
      <3>4. Len(after) \in Nat /\ Len(stack) <= Len(after) /\ Len(after) <= Len(stack) + 1
        BY <1>8
      <3> QED
        BY <1>2, <3>2, <3>3, <3>4
    <2>4. SubSeq(stack', 1, Len(stack)) = stack
      BY <1>2, <2>3, Agree
    <2>5. PICK t \in Seq(Value) : t = stack'
      BY <2>3
    <2>6. Len(stack) <= Len(t) /\ \A k \in 1 .. Len(stack) : t[k] = stack[k]
      BY <2>3, <2>5
    <2>7. Nested(entries, t, calls)
      BY <1>2, <1>3, <2>6, Covered
    <2>8. IInv'
      BY <1>1, <1>2, <1>7, <2>1, <2>3, <2>5, <2>7, UpSteps
    <2> QED
      BY <2>1, <2>3, <2>4, <2>8
  <1>10. CASE g["dir"] # None
    <2>1. g["dir"] = s
      BY <1>7, <1>10
    <2>2. stack' = Push(Push(after, Dir(s)), Arg(s)) /\ calls' = Append(calls, c)
      BY <1>6, <1>10, <2>1
    <2> DEFINE p == Push(after, Dir(s))
    <2>3. /\ p \in Seq(Value) /\ Len(p) = Len(after) + 1 /\ p[Len(after) + 1] = Dir(s)
          /\ \A k \in 1 .. Len(after) : p[k] = after[k]
      BY <1>4, <1>8, Pushing
    <2> HIDE DEF p
    <2>4. /\ Push(p, Arg(s)) \in Seq(Value) /\ Len(Push(p, Arg(s))) = Len(p) + 1
          /\ Push(p, Arg(s))[Len(p) + 1] = Arg(s)
          /\ \A k \in 1 .. Len(p) : Push(p, Arg(s))[k] = p[k]
      BY <1>4, <2>3, Pushing
    <2>5. stack' = Push(p, Arg(s))
      BY <2>2 DEF p
    <2>6. PICK t \in Seq(Value) : t = stack'
      BY <2>4, <2>5
    <2>7. /\ Len(t) = Len(after) + 2 /\ t[Len(after) + 1] = Dir(s) /\ t[Len(after) + 2] = Arg(s)
          /\ \A k \in 1 .. Len(after) : t[k] = after[k]
      BY <1>8, <2>3, <2>4, <2>5, <2>6
    <2>8. /\ c.entry = s /\ c.pc = "dir" /\ c.ok = ok /\ c.func = Len(after) + 1 /\ c.below = stack
      OBVIOUS
    <2>9. c \in Call
      <3>1. 0 \in 0 .. MaxRows
        BY HostAssumption
      <3> QED
        BY <1>1, <1>2, <1>8, <3>1 DEF Call
    <2> HIDE DEF c
    <2>10. Base(entries, c) = after
      <3>1. CASE ok = TRUE
        BY <1>5, <2>8, <3>1 DEF Base, Push
      <3>2. CASE ok = FALSE
        BY <1>5, <2>8, <3>2 DEF Base, Push
      <3> QED
        BY <3>1, <3>2
    <2>11. Placed(entries, t, c)
      BY <1>8, <2>7, <2>8, <2>10 DEF Placed
    <2>12. Len(stack) <= Len(t) /\ \A k \in 1 .. Len(stack) : t[k] = stack[k]
      BY <1>2, <1>8, <2>7
    <2>13. /\ Append(calls, c) \in Seq(Call) /\ Len(Append(calls, c)) = Len(calls) + 1
           /\ Nested(entries, t, Append(calls, c))
      BY <1>2, <1>3, <2>8, <2>9, <2>11, <2>12, Deeper
    <2>14. IInv'
      BY <1>1, <1>2, <1>7, <2>2, <2>6, <2>13, UpSteps
    <2> QED
      BY <1>2, <2>2, <2>13, <2>14
  <1> QED
    BY <1>9, <1>10

(* What a step does to the stack that all listings share.                  *)
Balanced ==
    /\ calls' = calls => /\ Len(stack') <= Len(stack) + 2
                         /\ SubSeq(stack', 1, Len(stack)) = stack
    /\ Len(calls') < Len(calls) =>
          LET c == calls[Len(calls') + 1]
          IN  stack' = IF c.ok THEN c.below ELSE Append(c.below, entries)

(* ndisk_dir up to the call of dir puts the frame it needs on top of what  *)
(* it found (disk.c:136-170).                                              *)
LEMMA EnterSteps ==
  ASSUME IInv, NEW s \in Script, Enter(s)
  PROVE  IInv' /\ Balanced
  <1>1. /\ MayEnter /\ Len(calls) < MaxDepth /\ s \in disks /\ proc' = proc /\ UNCHANGED fixed
        /\ \/ Listing(s, defines[s], TRUE)
           \/ \E D \in SUBSET defines[s] : Listing(s, D, FALSE)
           \/ Listing(s, {}, FALSE)
    BY DEF Enter
  <1>2. \E D : \E ok \in BOOLEAN : Listing(s, D, ok)
    BY <1>1
  <1>3. /\ IInv'
        /\ calls' = calls => Len(stack') <= Len(stack) + 2 /\ SubSeq(stack', 1, Len(stack)) = stack
        /\ calls' # calls => Len(calls') = Len(calls) + 1
    <2>1. PICK D : \E ok \in BOOLEAN : Listing(s, D, ok)
      BY <1>2
    <2>2. PICK ok \in BOOLEAN : Listing(s, D, ok)
      BY <2>1
    <2> QED
      BY <1>1, <2>2, Entering
  <1>4. Len(calls) \in Nat
    BY <1>1, UpFacts DEF MayEnter
  <1> QED
    BY <1>3, <1>4 DEF Balanced

(* `entries' cannot be indexed: the process ends (disk.c:146).             *)
LEMMA EntryPanicSteps ==
  ASSUME IInv, NEW s \in Script, EntryPanics(s)
  PROVE  IInv' /\ proc' # "up"
  <1>1. /\ proc = "up" /\ proc' = "exited" /\ calls' = calls /\ UNCHANGED fixed
        /\ globals' = Reset(globals) /\ stack' = Push(stack, entries)
    BY DEF EntryPanics, MayEnter
  <1>2. /\ stack \in Seq(Value) /\ entries \in Value /\ calls \in Seq(Call) /\ Len(calls) <= MaxDepth
    BY <1>1, UpFacts
  <1>3. stack' \in Seq(Value)
    BY <1>1, <1>2, Pushing
  <1>4. OneScript(globals')
    BY <1>1, Globals
  <1>5. proc' # "up" /\ proc' \in {"up", "exited"} /\ calls' \in Seq(Call) /\ Len(calls') <= MaxDepth
    BY <1>1, <1>2
  <1> QED
    BY <1>1, <1>3, <1>4, <1>5, UpSteps

-----------------------------------------------------------------------------
(* The innermost listing, and what it left on the stack.                   *)
LEMMA TopFacts ==
  ASSUME IInv, proc = "up", calls # << >>
  PROVE  /\ Len(calls) \in Nat \ {0} /\ Len(calls) \in 1 .. Len(calls)
         /\ Top = calls[Len(calls)] /\ Top \in Call /\ Placed(entries, stack, Top)
         /\ Top.func \in Nat \ {0} /\ Top.func - 1 <= Len(stack)
  <1>1. /\ stack \in Seq(Value) /\ calls \in Seq(Call) /\ Nested(entries, stack, calls)
    BY UpFacts
  <1>2. Len(calls) \in Nat \ {0} /\ Len(calls) \in 1 .. Len(calls)
    BY <1>1, EmptySeq
  <1>3. Top = calls[Len(calls)] /\ Top \in Call /\ Placed(entries, stack, Top)
    BY <1>1, <1>2 DEF Top, Nested
  <1>4. Base(entries, Top) \in Seq(Value) /\ Top.func = Len(Base(entries, Top)) + 1 /\ Top.func - 1 <= Len(stack)
    BY <1>3 DEF Placed
  <1>5. Len(Base(entries, Top)) \in Nat
    BY <1>4
  <1> QED
    BY <1>2, <1>3, <1>4, <1>5

(* The innermost listing goes on, in another place or with another row.    *)
LEMMA Going ==
  ASSUME IInv, proc = "up", calls # << >>, proc' = proc, UNCHANGED fixed, UNCHANGED globals,
         NEW c \in Call, NEW t \in Seq(Value), stack' = t, calls' = SetTop(c),
         c.func = Top.func, c.below = Top.below, c.ok = Top.ok, c # Top,
         c.func - 1 <= Len(t), \A k \in 1 .. c.func - 1 : t[k] = stack[k],
         c.pc \in {"dir", "window"} =>
            c.func + 1 <= Len(t) /\ t[c.func] = Dir(c.entry) /\ t[c.func + 1] = Arg(c.entry),
         c.pc = "rows" => Len(t) = c.func + 1
  PROVE  IInv' /\ Balanced
  <1>1. /\ stack \in Seq(Value) /\ calls \in Seq(Call) /\ Nested(entries, stack, calls)
        /\ OneScript(globals) /\ Len(calls) <= MaxDepth
    BY UpFacts
  <1>2. Top = calls[Len(calls)] /\ Len(calls) \in Nat
    BY TopFacts
  <1>3. PICK st \in Seq(Value), cs \in Seq(Call) : st = stack /\ cs = calls
    BY <1>1
  <1>4. LET u == [calls EXCEPT ![Len(calls)] = c]
        IN  u \in Seq(Call) /\ Len(u) = Len(calls) /\ u[Len(calls)] = c /\ Nested(entries, t, u)
    BY <1>1, <1>2, TopMoves
  <1>5. calls' \in Seq(Call) /\ Len(calls') = Len(calls) /\ calls'[Len(calls)] = c /\ Nested(entries, t, calls')
    BY <1>4 DEF SetTop
  <1>6. calls' # calls
    BY <1>2, <1>5
  <1>7. Balanced
    BY <1>2, <1>5, <1>6 DEF Balanced
  <1>8. IInv'
    BY <1>1, <1>5, UpSteps
  <1> QED
    BY <1>7, <1>8

(* Listings end, down to the m that are left.                              *)
LEMMA Leaving ==
  ASSUME IInv, proc = "up", proc' = proc, UNCHANGED fixed, UNCHANGED globals,
         NEW m \in Nat, m < Len(calls),
         stack' = SubSeq(stack, 1, calls[m + 1].func - 1), calls' = SubSeq(calls, 1, m)
  PROVE  IInv' /\ Balanced
  <1>1. /\ stack \in Seq(Value) /\ calls \in Seq(Call) /\ Nested(entries, stack, calls)
        /\ OneScript(globals) /\ Len(calls) <= MaxDepth /\ Len(calls) \in Nat /\ MaxDepth \in Nat
    BY UpFacts, HostAssumption
  <1>2. /\ stack' = Base(entries, calls[m + 1]) /\ stack' \in Seq(Value)
        /\ calls' \in Seq(Call) /\ Len(calls') = m
        /\ Nested(entries, stack', calls')
    <2> DEFINE c == calls[m + 1]
               t == SubSeq(stack, 1, c.func - 1)
               u == SubSeq(calls, 1, m)
    <2>1. /\ t = Base(entries, c) /\ t \in Seq(Value) /\ u \in Seq(Call) /\ Len(u) = m
          /\ Nested(entries, t, u)
      BY <1>1, Unwound
    <2>2. stack' = t /\ calls' = u
      OBVIOUS
    <2> HIDE DEF t, u
    <2> QED
      BY <2>1, <2>2
  <1>3. Balanced
    <2>1. calls' # calls
      BY <1>1, <1>2
    <2>2. Base(entries, calls[Len(calls') + 1]) = stack'
      BY <1>2
    <2>3. stack' = IF calls[Len(calls') + 1].ok THEN calls[Len(calls') + 1].below
                   ELSE Append(calls[Len(calls') + 1].below, entries)
      BY <2>2, Zenon DEF Base
    <2> QED
      BY <2>1, <2>3, Zenon DEF Balanced
  <1>4. IInv'
    BY <1>1, <1>2, UpSteps
  <1> QED
    BY <1>3, <1>4

-----------------------------------------------------------------------------
(* The window lets other listings in above the frame and goes back to it.  *)
LEMMA WindowSteps ==
  ASSUME IInv, WindowOpens \/ WindowCloses
  PROVE  IInv' /\ Balanced
  <1>1. proc = "up" /\ calls # << >> /\ proc' = proc /\ UNCHANGED fixed /\ UNCHANGED globals
        /\ Top.pc \in {"dir", "window"}
    BY DEF WindowOpens, WindowCloses, Running
  <1>2. /\ stack \in Seq(Value) /\ Len(stack) \in Nat
        /\ Top \in Call /\ Placed(entries, stack, Top) /\ Top.func \in Nat \ {0}
    BY <1>1, UpFacts, TopFacts
  <1>3. /\ Top.func + 1 <= Len(stack) /\ stack[Top.func] = Dir(Top.entry)
        /\ stack[Top.func + 1] = Arg(Top.entry)
    BY <1>1, <1>2 DEF Placed
  <1>4. PICK c0 \in Call : c0 = Top
    BY <1>2
  <1>5. CASE WindowOpens
    <2> DEFINE c == [c0 EXCEPT !.pc = "window"]
    <2>1. /\ c \in Call /\ c.func = c0.func /\ c.below = c0.below /\ c.ok = c0.ok
          /\ c.entry = c0.entry /\ c.pc = "window"
      BY DEF Call
    <2>2. Top.pc = "dir" /\ stack' = Push(stack, Frame) /\ calls' = SetTop(c)
      BY <1>4, <1>5 DEF WindowOpens, Running
    <2> HIDE DEF c
    <2>3. /\ Push(stack, Frame) \in Seq(Value) /\ Len(Push(stack, Frame)) = Len(stack) + 1
          /\ \A k \in 1 .. Len(stack) : Push(stack, Frame)[k] = stack[k]
      BY <1>2, Values, Pushing
    <2>4. PICK t \in Seq(Value) : t = Push(stack, Frame)
      BY <2>3
    <2>5. /\ Len(t) = Len(stack) + 1 /\ \A k \in 1 .. Len(stack) : t[k] = stack[k]
      BY <2>3, <2>4
    <2>6. /\ c.func + 1 <= Len(t) /\ \A k \in 1 .. c.func - 1 : t[k] = stack[k]
          /\ t[c.func] = Dir(c.entry) /\ t[c.func + 1] = Arg(c.entry)
      BY <1>2, <1>3, <1>4, <2>1, <2>5
    <2>7. c.func - 1 <= Len(t) /\ c # Top /\ c.pc # "rows"
      BY <1>2, <1>4, <2>1, <2>2, <2>5, <2>6
    <2>8. c.func = Top.func /\ c.below = Top.below /\ c.ok = Top.ok /\ stack' = t
      BY <1>4, <2>1, <2>2, <2>4
    <2> QED
      BY <1>1, <2>1, <2>2, <2>6, <2>7, <2>8, Going
  <1>6. CASE WindowCloses
    <2> DEFINE c == [c0 EXCEPT !.pc = "dir"]
    <2>1. /\ c \in Call /\ c.func = c0.func /\ c.below = c0.below /\ c.ok = c0.ok
          /\ c.entry = c0.entry /\ c.pc = "dir"
      BY DEF Call
    <2>2. Top.pc = "window" /\ stack' = Returned(stack, Top.func + 2, << >>) /\ calls' = SetTop(c)
      BY <1>4, <1>6 DEF WindowCloses, Running
    <2> HIDE DEF c
    <2> DEFINE n == Top.func + 1
               p == SubSeq(stack, 1, n)
    <2>3. n \in Nat /\ n <= Len(stack) /\ (Top.func + 2) - 1 = n
      BY <1>2, <1>3
    <2>4. p \in Seq(Value) /\ Len(p) = n /\ \A k \in 1 .. n : p[k] = stack[k]
      <3> HIDE DEF n
      <3> QED
        BY <1>2, <2>3, Popping
    <2>5. stack' = p
      <3>1. stack' = p \o << >>
        BY <2>2, <2>3 DEF Returned
      <3>2. p \o << >> = p
        BY <2>4
      <3> QED
        BY <3>1, <3>2
    <2> HIDE DEF p
    <2>6. PICK t \in Seq(Value) : t = p
      BY <2>4
    <2>7. /\ c.func + 1 <= Len(t) /\ \A k \in 1 .. c.func - 1 : t[k] = stack[k]
          /\ t[c.func] = Dir(c.entry) /\ t[c.func + 1] = Arg(c.entry)
      <3>1. Len(t) = Top.func + 1 /\ \A k \in 1 .. Top.func + 1 : t[k] = stack[k]
        BY <2>4, <2>6
      <3>2. t[Top.func] = Dir(Top.entry) /\ t[Top.func + 1] = Arg(Top.entry)
        BY <1>2, <1>3, <3>1
      <3>3. c.func = Top.func /\ c.entry = Top.entry
        BY <1>4, <2>1
      <3> QED
        BY <1>2, <3>1, <3>2, <3>3
    <2>8. c.func - 1 <= Len(t) /\ c # Top /\ c.pc # "rows"
      BY <1>2, <1>4, <2>1, <2>2, <2>7
    <2>9. c.func = Top.func /\ c.below = Top.below /\ c.ok = Top.ok /\ stack' = t
      BY <1>4, <2>1, <2>5, <2>6
    <2> QED
      BY <1>1, <2>1, <2>2, <2>7, <2>8, <2>9, Going
  <1> QED
    BY <1>5, <1>6

(* One value put on a stack.                                               *)
LEMMA Joining ==
  ASSUME NEW st \in Seq(Value), NEW v \in Value
  PROVE  st \o <<v>> = Append(st, v)
  OBVIOUS

(* The answer of dir replaces its frame's call (disk.c:169-176).           *)
LEMMA AnswerSteps ==
  ASSUME IInv, DirAnswers \/ DirAnswersNothing
  PROVE  IInv' /\ Balanced
  <1>1. proc = "up" /\ calls # << >> /\ proc' = proc /\ UNCHANGED fixed /\ UNCHANGED globals
        /\ Top.pc = "dir"
    BY DEF DirAnswers, DirAnswersNothing, Running
  <1>2. /\ stack \in Seq(Value) /\ Len(stack) \in Nat /\ Len(calls) \in Nat \ {0} /\ calls \in Seq(Call)
        /\ Top \in Call /\ Top.func \in Nat \ {0} /\ Top.func - 1 <= Len(stack)
        /\ Top = calls[Len(calls)]
    BY <1>1, UpFacts, TopFacts
  <1>3. PICK n \in Nat : n = Top.func - 1 /\ n <= Len(stack)
    BY <1>2
  <1>4. PICK p \in Seq(Value) : p = SubSeq(stack, 1, n) /\ Len(p) = n /\ \A k \in 1 .. n : p[k] = stack[k]
    BY <1>2, <1>3, Popping
  <1>5. ASSUME NEW v \in Value
        PROVE  Returned(stack, Top.func, <<v>>) = p \o <<v>> /\ Caught(stack, Top.func, v) = Append(p, v)
    BY <1>3, <1>4 DEF Returned, Caught
  <1>6. \A v \in Value : Returned(stack, Top.func, <<v>>) = Push(p, v) /\ Caught(stack, Top.func, v) = Push(p, v)
    BY <1>5, Joining DEF Push
  <1>7. Rows \in Value /\ Nil \in Value /\ Message \in Value
    BY Values
  <1>8. CASE DirAnswers
    <2>1. PICK c0 \in Call : c0 = Top
      BY <1>2
    <2> DEFINE c == [c0 EXCEPT !.pc = "rows"]
    <2>2. /\ c \in Call /\ c.func = c0.func /\ c.below = c0.below /\ c.ok = c0.ok
          /\ c.entry = c0.entry /\ c.pc = "rows"
      BY DEF Call
    <2>3. stack' = Push(Push(p, Rows), Nil) /\ calls' = SetTop(c)
      BY <1>6, <1>7, <1>8, <2>1 DEF DirAnswers
    <2> HIDE DEF c
    <2>4. /\ Push(p, Rows) \in Seq(Value) /\ Len(Push(p, Rows)) = n + 1
          /\ \A k \in 1 .. n : Push(p, Rows)[k] = p[k]
      <3>1. /\ Push(p, Rows) \in Seq(Value) /\ Len(Push(p, Rows)) = Len(p) + 1
            /\ \A k \in 1 .. Len(p) : Push(p, Rows)[k] = p[k]
        BY <1>7, Pushing
      <3>2. Len(p) = n
        BY <1>4
      <3> QED
        BY <3>1, <3>2
    <2>5. /\ Push(Push(p, Rows), Nil) \in Seq(Value) /\ Len(Push(Push(p, Rows), Nil)) = n + 2
          /\ \A k \in 1 .. n + 1 : Push(Push(p, Rows), Nil)[k] = Push(p, Rows)[k]
      <3> DEFINE q == Push(p, Rows)
      <3>1. q \in Seq(Value) /\ Len(q) = n + 1
        BY <2>4
      <3> HIDE DEF q
      <3>2. /\ Push(q, Nil) \in Seq(Value) /\ Len(Push(q, Nil)) = Len(q) + 1
            /\ \A k \in 1 .. Len(q) : Push(q, Nil)[k] = q[k]
        BY <1>7, <3>1, Pushing
      <3>3. Len(q) + 1 = n + 2
        BY <1>3, <3>1
      <3> QED
        BY <3>1, <3>2, <3>3 DEF q
    <2>6. PICK t \in Seq(Value) : t = stack'
      BY <2>3, <2>5
    <2>7. Len(t) = n + 2 /\ \A k \in 1 .. n : t[k] = stack[k]
      BY <1>3, <1>4, <2>3, <2>4, <2>5, <2>6
    <2>8. /\ c.func - 1 <= Len(t) /\ Len(t) = c.func + 1 /\ c # Top /\ c.pc \notin {"dir", "window"}
          /\ \A k \in 1 .. c.func - 1 : t[k] = stack[k]
      BY <1>1, <1>2, <1>3, <2>1, <2>2, <2>7
    <2>9. c.func = Top.func /\ c.below = Top.below /\ c.ok = Top.ok
      BY <2>1, <2>2
    <2> QED
      BY <1>1, <2>2, <2>3, <2>6, <2>8, <2>9, Going
  <1>9. CASE DirAnswersNothing
    <2>1. stack' = p
      <3>1. stack' = Pop(Push(p, Nil), 1) \/ stack' = Pop(Push(p, Message), 1)
        BY <1>6, <1>7, <1>9 DEF DirAnswersNothing
      <3> QED
        BY <1>7, <3>1, Pushing
    <2> DEFINE m == Len(calls) - 1
    <2>2. m \in Nat /\ m < Len(calls) /\ m + 1 = Len(calls)
      BY <1>2
    <2>3. calls' = SubSeq(calls, 1, m)
      BY <1>9 DEF DirAnswersNothing, Outer
    <2> HIDE DEF m
    <2>4. stack' = SubSeq(stack, 1, calls[m + 1].func - 1)
      BY <1>2, <1>3, <1>4, <2>1, <2>2
    <2> QED
      BY <1>1, <2>2, <2>3, <2>4, Leaving
  <1> QED
    BY <1>8, <1>9

(* The stack of a listing that walks its rows.                             *)
LEMMA RowsFacts ==
  ASSUME IInv, Running("rows")
  PROVE  /\ proc = "up" /\ calls # << >>
         /\ stack \in Seq(Value) /\ Len(stack) = Top.func + 1 /\ Top.func \in Nat \ {0}
         /\ Top \in Call /\ Top = calls[Len(calls)] /\ Len(calls) \in Nat \ {0} /\ calls \in Seq(Call)
         /\ Pop(stack, 1) = SubSeq(stack, 1, Top.func)
  <1>1. proc = "up" /\ calls # << >> /\ Top.pc = "rows"
    BY DEF Running
  <1>2. /\ stack \in Seq(Value) /\ Top.func \in Nat \ {0} /\ Placed(entries, stack, Top)
        /\ Top \in Call /\ Top = calls[Len(calls)] /\ Len(calls) \in Nat \ {0} /\ calls \in Seq(Call)
    BY <1>1, UpFacts, TopFacts
  <1>3. Len(stack) = Top.func + 1
    BY <1>1, <1>2 DEF Placed
  <1>4. Len(stack) - 1 = Top.func
    BY <1>2, <1>3
  <1> QED
    BY <1>1, <1>2, <1>3, <1>4 DEF Pop

(* lua_next leaves key and value, or takes the table's key away            *)
(* (disk.c:176-240).                                                       *)
LEMMA RowsSteps ==
  ASSUME IInv, RowRead \/ RowsEnd
  PROVE  IInv' /\ Balanced
  <1>1. Running("rows") /\ proc' = proc /\ UNCHANGED fixed /\ UNCHANGED globals
    BY DEF RowRead, RowsEnd
  <1>2. /\ proc = "up" /\ calls # << >>
        /\ stack \in Seq(Value) /\ Len(stack) = Top.func + 1 /\ Top.func \in Nat \ {0}
        /\ Top \in Call /\ Top = calls[Len(calls)] /\ Len(calls) \in Nat \ {0} /\ calls \in Seq(Call)
        /\ Pop(stack, 1) = SubSeq(stack, 1, Top.func)
    BY <1>1, RowsFacts
  <1>7. PICK n \in Nat : n = Top.func /\ n # 0 /\ n <= Len(stack)
    BY <1>2
  <1>3. PICK p \in Seq(Value) : p = SubSeq(stack, 1, n) /\ Len(p) = n /\ \A k \in 1 .. n : p[k] = stack[k]
    BY <1>2, <1>7, Popping
  <1>4. Key \in Value /\ Rows \in Value
    BY Values
  <1>5. CASE RowRead
    <2>1. PICK c0 \in Call : c0 = Top
      BY <1>2
    <2> DEFINE c == [c0 EXCEPT !.rows = @ + 1]
    <2>2. /\ Top.rows < MaxRows /\ stack' = Pop(NextRow(stack, Key, Rows), 1) /\ calls' = SetTop(c)
          /\ Top.pc = "rows"
      BY <1>5, <2>1 DEF RowRead, Running
    <2>3. c0.rows \in 0 .. MaxRows /\ c0.rows < MaxRows /\ MaxRows \in Nat
      BY <2>1, <2>2, HostAssumption DEF Call
    <2>4. /\ c \in Call /\ c.func = c0.func /\ c.below = c0.below /\ c.ok = c0.ok
          /\ c.pc = c0.pc /\ c.rows = c0.rows + 1
      BY <2>3 DEF Call
    <2> HIDE DEF c
    <2>5. stack' = Push(p, Key)
      <3>1. NextRow(stack, Key, Rows) = Push(Push(p, Key), Rows)
        BY <1>2, <1>3, <1>7 DEF NextRow
      <3>2. Push(p, Key) \in Seq(Value)
        BY <1>3, <1>4, Pushing
      <3> DEFINE q == Push(p, Key)
      <3>3. Pop(Push(q, Rows), 1) = q
        <4> HIDE DEF q
        <4>1. q \in Seq(Value)
          BY <3>2 DEF q
        <4> QED
          BY <1>4, <4>1, Pushing
      <3> QED
        BY <2>2, <3>1, <3>3
    <2>6. /\ Push(p, Key) \in Seq(Value) /\ Len(Push(p, Key)) = n + 1
          /\ \A k \in 1 .. n : Push(p, Key)[k] = p[k]
      <3>1. /\ Push(p, Key) \in Seq(Value) /\ Len(Push(p, Key)) = Len(p) + 1
            /\ \A k \in 1 .. Len(p) : Push(p, Key)[k] = p[k]
        BY <1>4, Pushing
      <3>2. Len(p) = n
        BY <1>3
      <3> QED
        BY <3>1, <3>2
    <2>7. PICK t \in Seq(Value) : t = stack'
      BY <2>5, <2>6
    <2>8. Len(t) = n + 1 /\ \A k \in 1 .. n : t[k] = stack[k]
      BY <1>3, <2>5, <2>6, <2>7
    <2>9. c.func = Top.func /\ c.below = Top.below /\ c.ok = Top.ok /\ c.pc = "rows"
      BY <2>1, <2>2, <2>4
    <2>10. /\ c.func - 1 <= Len(t) /\ Len(t) = c.func + 1 /\ c.pc \notin {"dir", "window"}
           /\ \A k \in 1 .. c.func - 1 : t[k] = stack[k]
      <3>1. c.func = n /\ n \in Nat /\ c.pc \notin {"dir", "window"}
        BY <1>7, <2>9
      <3>2. Len(t) = n + 1 /\ n - 1 <= Len(t)
        BY <2>8, <3>1
      <3>3. \A k \in 1 .. n - 1 : k \in 1 .. n
        BY <3>1
      <3>4. \A k \in 1 .. n - 1 : t[k] = stack[k]
        BY <2>8, <3>3
      <3> QED
        BY <3>1, <3>2, <3>4
    <2>11. c # Top
      BY <2>1, <2>3, <2>4
    <2> QED
      BY <1>1, <1>2, <2>2, <2>4, <2>7, <2>9, <2>10, <2>11, Going
  <1>6. CASE RowsEnd
    <2>1. stack' = Pop(p, 1)
      BY <1>2, <1>3, <1>6, <1>7 DEF RowsEnd, NextEnds
    <2>2. stack' = SubSeq(stack, 1, n - 1)
      <3>1. n - 1 \in Nat /\ n - 1 <= Len(p) /\ n - 1 <= Len(stack)
        BY <1>2, <1>3, <1>7
      <3>2. SubSeq(p, 1, n - 1) = SubSeq(stack, 1, n - 1)
        <4> DEFINE q == SubSeq(stack, 1, n - 1)
                   k0 == n - 1
        <4>1. q \in Seq(Value) /\ Len(q) = k0 /\ \A k \in 1 .. k0 : q[k] = stack[k]
          BY <1>2, <3>1, Popping
        <4> HIDE DEF q
        <4>2. \A k \in 1 .. Len(q) : p[k] = q[k]
          <5>1. \A k \in 1 .. Len(q) : k \in 1 .. n
            BY <1>7, <4>1
          <5> QED
            BY <1>3, <4>1, <5>1
        <4>3. SubSeq(p, 1, Len(q)) = q
          BY <1>2, <1>3, <3>1, <4>1, <4>2, Agree
        <4> QED
          BY <4>1, <4>3 DEF q
      <3> QED
        BY <1>3, <2>1, <3>2 DEF Pop
    <2> DEFINE m == Len(calls) - 1
    <2>3. m \in Nat /\ m < Len(calls) /\ m + 1 = Len(calls)
      BY <1>2
    <2>4. calls' = SubSeq(calls, 1, m)
      BY <1>6 DEF RowsEnd, Outer
    <2> HIDE DEF m
    <2>5. stack' = SubSeq(stack, 1, calls[m + 1].func - 1)
      BY <1>2, <1>7, <2>2, <2>3
    <2> QED
      BY <1>1, <1>2, <2>3, <2>4, <2>5, Leaving
  <1> QED
    BY <1>5, <1>6

(* The stack in the middle of a row's fields: lua_next in lua_next.         *)
LEMMA RowTyped ==
  ASSUME NEW st \in Seq(Value), NEW x \in Value
  PROVE  NextRow(NextRow(Push(st, Nil), Key, Rows), Key, x) \in Seq(Value)
  <1>1. Nil \in Value /\ Key \in Value /\ Rows \in Value
    BY Values
  <1>2. ASSUME NEW t \in Seq(Value), NEW v \in Value
        PROVE  Push(t, v) \in Seq(Value) /\ Len(Push(t, v)) \in Nat \ {0}
    <2>1. Push(t, v) \in Seq(Value) /\ Len(Push(t, v)) = Len(t) + 1 /\ Len(t) \in Nat
      BY Pushing
    <2> QED
      BY <2>1
  <1>3. ASSUME NEW t \in Seq(Value), Len(t) \in Nat \ {0}, NEW v \in Value
        PROVE  NextRow(t, Key, v) \in Seq(Value) /\ Len(NextRow(t, Key, v)) \in Nat \ {0}
    <2>1. Len(t) - 1 \in Nat /\ Len(t) - 1 <= Len(t)
      BY <1>3
    <2>2. Pop(t, 1) \in Seq(Value)
      BY <2>1, Popping DEF Pop
    <2>3. PICK q \in Seq(Value) : q = Push(Pop(t, 1), Key)
      BY <1>1, <1>2, <2>2
    <2> QED
      BY <1>2, <1>3, <2>3 DEF NextRow
  <1>4. PICK q \in Seq(Value) : q = Push(st, Nil) /\ Len(q) \in Nat \ {0}
    BY <1>1, <1>2
  <1>5. PICK r \in Seq(Value) : r = NextRow(q, Key, Rows) /\ Len(r) \in Nat \ {0}
    BY <1>1, <1>3, <1>4
  <1> QED
    BY <1>3, <1>4, <1>5

(* A field whose text is NULL ends the process (disk.c:181-193).           *)
LEMMA CrashSteps ==
  ASSUME IInv, RowCrashes
  PROVE  IInv' /\ proc' # "up"
  <1>1. /\ proc = "up" /\ proc' = "exited" /\ calls' = calls /\ globals' = globals /\ UNCHANGED fixed
        /\ stack' = NextRow(NextRow(Push(stack, Nil), Key, Rows), Key, Rows)
    BY DEF RowCrashes, Running
  <1>2. /\ stack \in Seq(Value) /\ calls \in Seq(Call) /\ OneScript(globals) /\ Len(calls) <= MaxDepth
    BY <1>1, UpFacts
  <1>3. stack' \in Seq(Value)
    BY <1>1, <1>2, RowTyped, Values
  <1>4. /\ proc' # "up" /\ proc' \in {"up", "exited"} /\ calls' \in Seq(Call) /\ Len(calls') <= MaxDepth
        /\ OneScript(globals')
    BY <1>1, <1>2
  <1> QED
    BY <1>1, <1>3, <1>4, UpSteps

(* A row's error ends the process, or unwinds to the call of the listing   *)
(* around it.                                                              *)
LEMMA RaiseSteps ==
  ASSUME IInv, RowRaises
  PROVE  IInv' /\ (proc' = "up" => Balanced)
  <1>1. Running("rows") /\ UNCHANGED <<globals, fixed>>
    BY DEF RowRaises
  <1>2. /\ proc = "up" /\ calls # << >>
        /\ stack \in Seq(Value) /\ Len(stack) = Top.func + 1 /\ Top.func \in Nat \ {0}
        /\ Top \in Call /\ Top = calls[Len(calls)] /\ Len(calls) \in Nat \ {0} /\ calls \in Seq(Call)
    BY <1>1, RowsFacts
  <1>3. OneScript(globals) /\ Len(calls) <= MaxDepth /\ Nested(entries, stack, calls)
    BY <1>2, UpFacts
  <1>4. Nil \in Value /\ Key \in Value /\ Rows \in Value /\ Text \in Value /\ Message \in Value
    BY Values
  <1>5. PICK n \in Nat : n = Len(calls) - 1
    BY <1>2
  <1>6. Outer = SubSeq(calls, 1, n) /\ Outer \in Seq(Call) /\ Len(Outer) = n
        /\ \A i \in 1 .. n : Outer[i] = calls[i]
    BY <1>2, <1>5 DEF Outer
  <1>7. CASE Outer = << >>
    <2>1. /\ proc' = "exited" /\ calls' = calls
          /\ stack' = NextRow(NextRow(Push(stack, Nil), Key, Rows), Key, Text)
      BY <1>7 DEF RowRaises
    <2>2. stack' \in Seq(Value)
      BY <1>2, <1>4, <2>1, RowTyped
    <2>3. OneScript(globals') /\ UNCHANGED fixed
      BY <1>1, <1>3
    <2>4. proc' # "up" /\ proc' \in {"up", "exited"} /\ calls' \in Seq(Call) /\ Len(calls') <= MaxDepth
      BY <1>2, <1>3, <2>1
    <2> QED
      BY <1>2, <2>2, <2>3, <2>4, UpSteps
  <1>8. CASE Outer # << >>
    <2>1. n # 0
      BY <1>6, <1>8, EmptySeq
    <2>2. PICK m \in Nat : m = n - 1 /\ m < Len(calls) /\ m + 1 = n
      <3>1. n < Len(calls)
        BY <1>2, <1>5
      <3>2. n - 1 \in Nat /\ n - 1 < Len(calls) /\ (n - 1) + 1 = n
        BY <1>2, <2>1, <3>1
      <3> QED
        BY <3>2
    <2> DEFINE c == Outer[Len(Outer)]
    <2>3. c = calls[m + 1] /\ n \in 1 .. n
      BY <1>6, <2>1, <2>2
    <2>4. /\ stack' = Pop(Caught(stack, c.func, Message), 1)
          /\ calls' = SubSeq(Outer, 1, Len(Outer) - 1) /\ proc' = proc
      BY <1>8 DEF RowRaises
    <2>5. calls' = SubSeq(calls, 1, m)
      <3> DEFINE u == SubSeq(calls, 1, m)
                 k0 == m
      <3>1. u \in Seq(Call) /\ Len(u) = m /\ \A i \in 1 .. m : u[i] = calls[i]
        BY <1>2, <2>2
      <3>2. calls' = SubSeq(Outer, 1, m)
        BY <1>6, <2>2, <2>4
      <3>3. SubSeq(Outer, 1, m) \in Seq(Call) /\ Len(SubSeq(Outer, 1, m)) = m
            /\ \A i \in 1 .. m : SubSeq(Outer, 1, m)[i] = Outer[i] /\ i \in 1 .. n
        BY <1>6, <2>2
      <3> HIDE DEF u
      <3>4. \A i \in 1 .. m : SubSeq(Outer, 1, m)[i] = u[i]
        BY <1>6, <3>1, <3>3
      <3>5. SubSeq(Outer, 1, m) = u
        BY <3>1, <3>3, <3>4
      <3> QED
        BY <3>2, <3>5 DEF u
    <2>6. stack' = SubSeq(stack, 1, calls[m + 1].func - 1)
      <3>1. m + 1 \in 1 .. Len(calls)
        BY <1>2, <2>2
      <3>2. Placed(entries, stack, calls[m + 1])
        BY <1>3, <3>1 DEF Nested
      <3>3. PICK k \in Nat : k = c.func - 1 /\ k <= Len(stack)
        <4>1. /\ Base(entries, calls[m + 1]) \in Seq(Value)
              /\ calls[m + 1].func = Len(Base(entries, calls[m + 1])) + 1
              /\ calls[m + 1].func - 1 <= Len(stack)
          BY <3>2 DEF Placed
        <4>2. Len(Base(entries, calls[m + 1])) \in Nat
          BY <4>1
        <4> QED
          BY <2>3, <4>1, <4>2
      <3>4. PICK q \in Seq(Value) : q = SubSeq(stack, 1, k)
        BY <1>2, <3>3, Popping
      <3>5. Caught(stack, c.func, Message) = Push(q, Message)
        BY <3>3, <3>4 DEF Caught, Push
      <3>6. stack' = q
        BY <1>4, <2>4, <3>5, Pushing
      <3> QED
        BY <2>3, <3>3, <3>4, <3>6
    <2>7. UNCHANGED fixed /\ UNCHANGED globals
      BY <1>1
    <2> QED
      BY <1>2, <2>2, <2>4, <2>5, <2>6, <2>7, Leaving
  <1> QED
    BY <1>7, <1>8

-----------------------------------------------------------------------------
(* The inductive invariant, and what every step does to the stack.         *)
LEMMA Step ==
  ASSUME IInv, [Next]_vars
  PROVE  IInv' /\ (proc = "up" /\ proc' = "up" => Balanced)
  <1>1. CASE \E s \in Script : LoadBroken(s) \/ LoadPanics(s) \/ LoadRuns(s) \/ LoadFails(s)
    <2>1. proc = "loading"
      BY <1>1 DEF LoadBroken, LoadPanics, LoadRuns, LoadFails
    <2> QED
      BY <1>1, <2>1, LoaderSteps
  <1>2. CASE \E s \in Script : Enter(s) \/ EntryPanics(s)
    BY <1>2, EnterSteps, EntryPanicSteps
  <1>3. CASE LoadEnds
    <2>1. proc = "loading"
      BY <1>3 DEF LoadEnds
    <2> QED
      BY <1>3, <2>1, LoadingEnds
  <1>4. CASE WindowOpens \/ WindowCloses
    BY <1>4, WindowSteps
  <1>5. CASE DirAnswers \/ DirAnswersNothing
    BY <1>5, AnswerSteps
  <1>6. CASE RowRead \/ RowsEnd
    BY <1>6, RowsSteps
  <1>7. CASE RowRaises \/ RowCrashes
    BY <1>7, RaiseSteps, CrashSteps
  <1>8. CASE Detach
    <2>1. /\ proc = "up" /\ proc' = "detached" /\ stack' = << >>
          /\ UNCHANGED <<globals, calls, defines, todo, entries, chunks, disks, log>>
      BY <1>8 DEF Detach, fixed
    <2>2. TypeOK'
      BY <2>1 DEF IInv, TypeOK
    <2>3. Offers' /\ (Panicked' <=> Panicked) /\ (Late' <=> Late)
      BY <2>1 DEF IInv, Loader, Offers, Panicked, Late
    <2>4. Loader'
      BY <2>1, <2>3 DEF IInv, Loader
    <2> QED
      BY <2>1, <2>2, <2>4 DEF IInv
  <1>9. CASE UNCHANGED vars
    <2>1. UNCHANGED <<defines, proc, todo, stack, globals, entries, chunks, disks, calls, log>>
      BY <1>9 DEF vars
    <2>2. TypeOK'
      BY <2>1 DEF IInv, TypeOK
    <2>3. /\ Offers' /\ (Panicked' <=> Panicked) /\ (Late' <=> Late) /\ (Spoiled' <=> Spoiled)
          /\ Tables' = Tables
      BY <2>1 DEF IInv, Loader, Offers, Panicked, Late, Spoiled, Tables
    <2>31. (Stored => Stored') /\ \A t : Found(t) => Found(t)'
      BY <2>1, <2>3 DEF Stored, Found
    <2>32. Found(entries) => Found(entries)'
      BY <2>1 DEF Found
    <2>4. Loader'
      BY <2>1, <2>3, <2>31, <2>32 DEF IInv, Loader
    <2>5. proc' = "up" => Nested(entries, stack, calls)'
      BY <2>1 DEF IInv
    <2>6. IInv'
      BY <2>2, <2>4, <2>5 DEF IInv
    <2>7. Balanced
      <3>1. stack \in Seq(Value)
        BY DEF IInv, TypeOK
      <3>2. Len(stack) \in Nat /\ SubSeq(stack, 1, Len(stack)) = stack
        BY <3>1, Agree
      <3>3. calls \in Seq(Call)
        BY DEF IInv, TypeOK
      <3>4. ~(Len(calls) < Len(calls))
        BY <3>3
      <3>5. Len(stack) <= Len(stack) + 2 /\ stack' = stack /\ calls' = calls
        BY <2>1, <3>2
      <3>6. Len(stack') <= Len(stack) + 2 /\ SubSeq(stack', 1, Len(stack)) = stack
            /\ ~(Len(calls') < Len(calls))
        BY <3>2, <3>4, <3>5
      <3> QED
        BY <3>6, Zenon DEF Balanced
    <2> QED
      BY <2>6, <2>7
  <1> QED
    BY <1>1, <1>2, <1>3, <1>4, <1>5, <1>6, <1>7, <1>8, <1>9 DEF Next, Gone

(* The invariant the theorems below rest on: types, the loader's account   *)
(* of its stack and log, and that listings in progress are nested in the   *)
(* stack.                                                                  *)
THEOREM Invariant == Spec => []IInv
<1>1. ASSUME Init PROVE IInv
  <2>1. /\ proc = "loading" /\ todo = Script /\ stack = <<Table>>
        /\ globals = [f \in Field |-> None]
        /\ entries = Nil /\ chunks = {} /\ disks = {} /\ calls = << >> /\ log = << >>
    BY <1>1 DEF Init
  <2>2. Table \in Value /\ Nil \in Value
    BY Values
  <2>3. stack \in Seq(Value) /\ Len(stack) = 1 /\ stack[1] = Table /\ stack # << >>
    BY <2>1, <2>2
  <2>4. globals \in [Field -> Script \cup {None}] /\ \A f, g \in Field : None \in {globals[f], globals[g]}
    BY <2>1
  <2>5. calls \in Seq(Call) /\ Len(calls) <= MaxDepth
    BY <2>1, HostAssumption
  <2>6. TypeOK
    BY <2>1, <2>2, <2>3, <2>4, <2>5 DEF TypeOK
  <2>7. log \in Seq(Lines) /\ Offers /\ ~Panicked /\ ~Late /\ ~Spoiled
    BY <2>1 DEF Offers, Panicked, Late, Spoiled
  <2>9. Stored /\ Found(Table) /\ Table \in Tables /\ IsTable(Table)
    BY <2>1, Values DEF Stored, Found, Tables
  <2>8. Loader
    BY <2>1, <2>2, <2>3, <2>7, <2>9 DEF Loader
  <2> QED
    BY <2>1, <2>6, <2>8 DEF IInv
<1>2. IInv /\ [Next]_vars => IInv'
  BY Step
<1> QED
  BY <1>1, <1>2, PTL DEF Spec

-----------------------------------------------------------------------------
(* Types, and globals that belong to one script at a time                  *)
(* (ndpluginw.c:52-123, disk.c:129-251).                                   *)
THEOREM HostTypes == Spec => []TypeOK
<1>1. IInv => TypeOK
  BY DEF IInv
<1> QED
  BY <1>1, Invariant, PTL

(* What becomes of the files in entries\ when some of them are bad: which  *)
(* sequences end the process, which disks are offered, and which of their  *)
(* chunks a listing finds, whatever values failing files raise             *)
(* (ndpluginw.c:63-116, disk.c:144-146).                                   *)
THEOREM LoaderOutcomes == Spec => []LoaderOutcome
<1>1. ASSUME IInv PROVE LoaderOutcome
  <2>1. Offers /\ (Panicked <=> Late)
    BY <1>1 DEF IInv, Loader
  <2>2. proc = "up" => Found(entries)
    BY <1>1 DEF IInv, Loader
  <2> QED
    BY <2>1, <2>2 DEF LoaderOutcome, Offers, Panicked, Late, Found, Fine
<1> QED
  BY <1>1, Invariant, PTL

(* A disk's credentials stay in the hands of its own script while other    *)
(* listings run inside the authorization window (disk.c:129-172).          *)
THEOREM CredentialsStay == Spec => []CredentialsGoToOwnScript
<1>1. ASSUME IInv PROVE CredentialsGoToOwnScript
  <2> SUFFICES ASSUME proc = "up", NEW i \in 1 .. Len(calls), calls[i].pc \in {"dir", "window"}
               PROVE  SubSeq(stack, calls[i].func, calls[i].func + 1)
                        = <<Dir(calls[i].entry), Arg(calls[i].entry)>>
    BY DEF CredentialsGoToOwnScript
  <2>1. stack \in Seq(Value) /\ Placed(entries, stack, calls[i])
    BY <1>1, UpFacts DEF Nested
  <2>2. PICK f \in Nat \ {0} : f = calls[i].func
    <3>1. Base(entries, calls[i]) \in Seq(Value) /\ calls[i].func = Len(Base(entries, calls[i])) + 1
      BY <2>1 DEF Placed
    <3>2. Len(Base(entries, calls[i])) \in Nat
      BY <3>1
    <3> QED
      BY <3>1, <3>2
  <2>3. f + 1 <= Len(stack) /\ stack[f] = Dir(calls[i].entry) /\ stack[f + 1] = Arg(calls[i].entry)
    BY <2>1, <2>2 DEF Placed
  <2>4. SubSeq(stack, f, f + 1) = <<stack[f], stack[f + 1]>>
    <3>1. PICK p \in Seq(Value) : p = stack
      BY <2>1
    <3>2. f \in 1 .. Len(p) /\ f + 1 \in 1 .. Len(p)
      BY <2>3, <3>1
    <3>3. SubSeq(p, f, f + 1) = [k \in 1 .. 2 |-> p[f + k - 1]]
      <4>1. (f + 1) - f + 1 = 2
        OBVIOUS
      <4> QED
        BY <3>2, <4>1
    <3>4. [k \in 1 .. 2 |-> p[f + k - 1]] = <<p[f], p[f + 1]>>
      <4>1. f + 1 - 1 = f /\ f + 2 - 1 = f + 1
        OBVIOUS
      <4> QED
        BY <4>1
    <3> QED
      BY <3>1, <3>3, <3>4
  <2> QED
    BY <2>2, <2>3, <2>4
<1> QED
  BY <1>1, Invariant, PTL

(* What a listing leaves on the stack that all listings share              *)
(* (disk.c:129-251, ldo.c:451-465).                                        *)
THEOREM ListingsAreBalanced == Spec => ListingsBalance
<1>1. ASSUME IInv, [Next]_vars
      PROVE  [proc = "up" /\ proc' = "up" =>
                 /\ calls' = calls => /\ Len(stack') <= Len(stack) + 2
                                      /\ SubSeq(stack', 1, Len(stack)) = stack
                 /\ Len(calls') < Len(calls) =>
                       LET c == calls[Len(calls') + 1]
                       IN  stack' = IF c.ok THEN c.below ELSE Append(c.below, entries)]_vars
  BY <1>1, Step, Zenon DEF Balanced
<1> QED
  BY <1>1, Invariant, PTL DEF Spec, ListingsBalance

-----------------------------------------------------------------------------
Kinds == {"Lua", "C"}

ThreadState == [made : BOOLEAN, status : {"ok", "yield", "error"}, frames : Seq(Kinds),
                vals : Int, nC : Int, baseC : Int]

(* What lies on the C stack.                                               *)
Entry == [is : {"call"}, t : Threads, frames : Nat, back : Nat]
         \cup [is : {"pcall"}, t : Threads, frames : Nat, back : Nat, nC : Int]
         \cup [is : {"resume"}, t : Coroutines, frames : {0}, back : {0}, wrap : BOOLEAN]

CoTypes ==
    /\ th \in [Threads -> ThreadState] /\ native \in Seq(Entry) /\ raising \in BOOLEAN
    /\ spilled \subseteq ended /\ ended \subseteq Coroutines

(* The calls and resumes up to place i of the C stack s.                   *)
Depth(s, i) == Cardinality({j \in 1 .. i : s[j].is # "pcall"})

(* A C stack: the main thread at the bottom, the entries of a thread       *)
(* together above its resume, with growing numbers of frames, and a call   *)
(* on every protection.                                                    *)
Shape(s) ==
    /\ s # << >> => s[1].is = "pcall" /\ s[1].t = Main
    /\ \A i \in 1 .. Len(s) :
          /\ s[i].back <= s[i].frames
          /\ s[i].is = "resume" => s[i].t # Main
          /\ i > 1 /\ s[i].is # "resume" => s[i].t = s[i - 1].t
          /\ s[i].is = "pcall" /\ i < Len(s) => s[i + 1].is = "call" /\ s[i + 1].back = s[i].back
    /\ \A i, j \in 1 .. Len(s) : i < j /\ s[i].t = s[j].t => s[i].frames <= s[j].back
    /\ \A i, j, k \in 1 .. Len(s) : i < j /\ j <= k /\ s[j].is = "resume" => s[i].t # s[k].t

(* No C function among the first n frames.                                 *)
NoC(fs, n) == \A k \in 1 .. n : fs[k] # "C"

(* Entry i of the stack s and the state of its thread, in f: what it says  *)
(* of the count and of the frames, while an error is on its way (r) or     *)
(* not.  A thread that waits for a coroutine is in the C function that     *)
(* resumed it.                                                             *)
Fits(s, f, r, i) ==
    LET e == s[i]
        x == f[e.t]
    IN  /\ e.is = "pcall" => e.nC = Depth(s, i)
        /\ e.is = "resume" => x.baseC = Depth(s, i)
        /\ IF i = Len(s)
           THEN /\ e.frames <= Len(x.frames)
                /\ ~r => x.nC = Depth(s, i) /\ (e.is = "resume" => NoC(x.frames, Len(x.frames)))
           ELSE IF s[i + 1].is = "resume"
           THEN /\ e.frames < Len(x.frames) /\ x.nC = Depth(s, i)
                /\ e.is = "resume" => NoC(x.frames, Len(x.frames) - 1)
           ELSE e.is = "resume" => NoC(x.frames, s[i + 1].back)

(* A coroutine that is not on the C stack.                                 *)
Resting(co) ==
    /\ ~th[co].made => th[co].status = "ok" /\ co \notin ended
    /\ th[co].status = "ok" => th[co].frames = << >>
    /\ th[co].made => IF co \in ended \ spilled
                      THEN th[co].status = "error" \/ (th[co].status = "ok" /\ th[co].vals = 0)
                      ELSE th[co].status = "yield" \/ (th[co].status = "ok" /\ th[co].vals # 0)
    /\ th[co].status = "yield" => /\ co \notin ended /\ th[co].frames # << >>
                                  /\ \A k \in 1 .. Len(th[co].frames) :
                                         th[co].frames[k] = "C" <=> k = Len(th[co].frames)

Busy(co) == th[co].made /\ th[co].status = "ok" /\ co \notin ended

CoInv ==
    /\ CoTypes /\ Shape(native)
    /\ raising => native # << >>
    /\ Runs => Last(native).is # "pcall"
    /\ \A i \in 1 .. Len(native) : Fits(native, th, raising, i)
    /\ Depth(native, Len(native)) < MaxCCalls + Extra
    /\ \A co \in Coroutines : IF co \in OnStack THEN Busy(co) ELSE Resting(co)

-----------------------------------------------------------------------------
(* The depth of the C stack.                                               *)
LEMMA DepthIs ==
    ASSUME NEW s
    PROVE  /\ Depth(s, 0) = 0
           /\ \A i \in Nat : Depth(s, i) \in Nat
           /\ \A i \in Nat : Depth(s, i + 1) = Depth(s, i) + (IF s[i + 1].is = "pcall" THEN 0 ELSE 1)
<1> DEFINE D(i) == {j \in 1 .. i : s[j].is # "pcall"}
<1>1. \A i : Depth(s, i) = Cardinality(D(i))
  BY DEF Depth
<1>2. Depth(s, 0) = 0
  <2>1. D(0) = {}
    OBVIOUS
  <2> QED
    BY <1>1, <2>1, FS_EmptySet
<1>3. \A i \in Nat : IsFiniteSet(D(i))
  <2> TAKE i \in Nat
  <2>1. IsFiniteSet(1 .. i)
    BY FS_Interval
  <2>2. D(i) \in SUBSET (1 .. i)
    OBVIOUS
  <2> HIDE DEF D
  <2> QED
    BY <2>1, <2>2, FS_Subset
<1>4. \A i \in Nat : Depth(s, i) \in Nat
  <2> HIDE DEF D
  <2> QED
    BY <1>1, <1>3, FS_CardinalityType
<1>5. \A i \in Nat : Depth(s, i + 1) = Depth(s, i) + (IF s[i + 1].is = "pcall" THEN 0 ELSE 1)
  <2> TAKE i \in Nat
  <2>1. CASE s[i + 1].is = "pcall"
    <3>1. D(i + 1) = D(i)
      BY <2>1
    <3> HIDE DEF D
    <3>2. Depth(s, i + 1) = Depth(s, i) /\ Depth(s, i) \in Nat
      BY <1>1, <1>4, <3>1
    <3> QED
      BY <2>1, <3>2
  <2>2. CASE s[i + 1].is # "pcall"
    <3>1. D(i + 1) = D(i) \cup {i + 1} /\ i + 1 \notin D(i)
      BY <2>2
    <3> HIDE DEF D
    <3>2. Cardinality(D(i) \cup {i + 1}) = Cardinality(D(i)) + 1
      BY <1>3, <3>1, FS_AddElement
    <3> QED
      BY <1>1, <2>2, <3>1, <3>2
  <2> QED
    BY <2>1, <2>2
<1> QED
  BY <1>2, <1>4, <1>5

(* It is that of what lies below.                                          *)
LEMMA DepthSame ==
    ASSUME NEW s, NEW q, NEW i \in Nat, \A j \in 1 .. i : s[j] = q[j]
    PROVE  Depth(s, i) = Depth(q, i)
<1>1. {j \in 1 .. i : s[j].is # "pcall"} = {j \in 1 .. i : q[j].is # "pcall"}
  OBVIOUS
<1> QED
  BY <1>1 DEF Depth

LEMMA DepthGrows ==
    ASSUME NEW s, NEW i \in Nat, NEW j \in Nat, i <= j
    PROVE  Depth(s, i) <= Depth(s, j)
<1> DEFINE D(k) == {l \in 1 .. k : s[l].is # "pcall"}
<1>1. IsFiniteSet(D(j))
  <2>1. IsFiniteSet(1 .. j) /\ D(j) \in SUBSET (1 .. j)
    BY FS_Interval
  <2> HIDE DEF D
  <2> QED
    BY <2>1, FS_Subset
<1>2. D(i) \subseteq D(j)
  OBVIOUS
<1>4. Depth(s, i) = Cardinality(D(i)) /\ Depth(s, j) = Cardinality(D(j))
  BY DEF Depth
<1> HIDE DEF D
<1>3. Cardinality(D(i)) <= Cardinality(D(j))
  BY <1>1, <1>2, FS_Subset
<1> QED
  BY <1>3, <1>4

(* The fields of an entry.                                                 *)
LEMMA EntryIs ==
    ASSUME NEW e \in Entry
    PROVE  /\ e.is \in {"call", "pcall", "resume"} /\ e.t \in Threads /\ e.frames \in Nat /\ e.back \in Nat
           /\ e.is = "pcall" => e.nC \in Int
           /\ e.is = "resume" => e.t \in Coroutines /\ e.frames = 0 /\ e.back = 0
  BY DEF Entry, Threads

(* A C stack stays one when entries are taken from its top.                *)
LEMMA ShapePrefix ==
    ASSUME NEW s \in Seq(Entry), Shape(s), NEW m \in 0 .. Len(s),
           NEW q \in Seq(Entry), Len(q) = m, \A i \in 1 .. m : q[i] = s[i]
    PROVE  Shape(q)
<1>1. q # << >> => 1 \in 1 .. m /\ q[1] = s[1] /\ s # << >>
  OBVIOUS
<1>2. \A i \in 1 .. Len(q) :
          /\ q[i].back <= q[i].frames
          /\ q[i].is = "resume" => q[i].t # Main
          /\ i > 1 /\ q[i].is # "resume" => q[i].t = q[i - 1].t
          /\ q[i].is = "pcall" /\ i < Len(q) => q[i + 1].is = "call" /\ q[i + 1].back = q[i].back
  <2> SUFFICES ASSUME NEW i \in 1 .. Len(q)
               PROVE  /\ q[i].back <= q[i].frames
                      /\ q[i].is = "resume" => q[i].t # Main
                      /\ i > 1 /\ q[i].is # "resume" => q[i].t = q[i - 1].t
                      /\ q[i].is = "pcall" /\ i < Len(q) => q[i + 1].is = "call" /\ q[i + 1].back = q[i].back
    OBVIOUS
  <2>1. i \in 1 .. Len(s) /\ q[i] = s[i] /\ (i > 1 => q[i - 1] = s[i - 1]) /\ (i < Len(q) => q[i + 1] = s[i + 1] /\ i < Len(s))
    OBVIOUS
  <2> QED
    BY <2>1 DEF Shape
<1>5. \A i \in 1 .. Len(q) : i \in 1 .. Len(s) /\ q[i] = s[i]
  OBVIOUS
<1>3. \A i, j \in 1 .. Len(q) : i < j /\ q[i].t = q[j].t => q[i].frames <= q[j].back
  BY <1>5 DEF Shape
<1>4. \A i, j, k \in 1 .. Len(q) : i < j /\ j <= k /\ q[j].is = "resume" => q[i].t # q[k].t
  BY <1>5 DEF Shape
<1> QED
  BY <1>1, <1>2, <1>3, <1>4 DEF Shape

(* And when one is put on it.                                              *)
LEMMA ShapePush ==
    ASSUME NEW s \in Seq(Entry), Shape(s), s # << >>, NEW e \in Entry, e.back <= e.frames,
           \/ e.is = "resume" /\ e.t # Main /\ s[Len(s)].is # "pcall" /\ \A i \in 1 .. Len(s) : s[i].t # e.t
           \/ /\ e.is # "resume" /\ e.t = s[Len(s)].t /\ s[Len(s)].frames <= e.back
              /\ s[Len(s)].is = "pcall" => e.is = "call" /\ e.back = s[Len(s)].back
    PROVE  Shape(Append(s, e))
<1> DEFINE q == Append(s, e)
           n == Len(s)
<1>1. /\ n \in Nat /\ n > 0 /\ n \in 1 .. n /\ q \in Seq(Entry) /\ Len(q) = n + 1 /\ q[n + 1] = e
      /\ \A i \in 1 .. n : q[i] = s[i] /\ s[i] \in Entry
  OBVIOUS
<1>2. \A i \in 1 .. n : s[i].frames \in Nat /\ s[i].back \in Nat /\ e.back \in Nat
  BY <1>1, EntryIs
<1> HIDE DEF q, n
<1>3. q[1].is = "pcall" /\ q[1].t = Main
  BY <1>1 DEF Shape
<1>4. \A i \in 1 .. Len(q) :
          /\ q[i].back <= q[i].frames
          /\ q[i].is = "resume" => q[i].t # Main
          /\ i > 1 /\ q[i].is # "resume" => q[i].t = q[i - 1].t
          /\ q[i].is = "pcall" /\ i < Len(q) => q[i + 1].is = "call" /\ q[i + 1].back = q[i].back
  <2> SUFFICES ASSUME NEW i \in 1 .. n + 1
               PROVE  /\ q[i].back <= q[i].frames
                      /\ q[i].is = "resume" => q[i].t # Main
                      /\ i > 1 /\ q[i].is # "resume" => q[i].t = q[i - 1].t
                      /\ q[i].is = "pcall" /\ i < n + 1 => q[i + 1].is = "call" /\ q[i + 1].back = q[i].back
    BY <1>1
  <2>1. CASE i = n + 1
    BY <1>1, <2>1 DEF n
  <2>2. CASE i = n
    <3>1. i + 1 = n + 1 /\ q[i] = s[i] /\ (i > 1 => q[i - 1] = s[i - 1]) /\ e.is \in {"call", "pcall", "resume"}
      BY <1>1, <2>2, EntryIs
    <3> QED
      BY <1>1, <2>2, <3>1 DEF Shape, n
  <2>3. CASE i < n
    <3>1. q[i] = s[i] /\ q[i + 1] = s[i + 1] /\ (i > 1 => q[i - 1] = s[i - 1]) /\ i \in 1 .. n
      BY <1>1, <2>3
    <3> QED
      BY <2>3, <3>1 DEF Shape, n
  <2> QED
    BY <1>1, <2>1, <2>2, <2>3
<1>5. \A i, j \in 1 .. Len(q) : i < j /\ q[i].t = q[j].t => q[i].frames <= q[j].back
  <2> SUFFICES ASSUME NEW i \in 1 .. n + 1, NEW j \in 1 .. n + 1, i < j, q[i].t = q[j].t
               PROVE  q[i].frames <= q[j].back
    BY <1>1
  <2>1. CASE j <= n
    <3>1. i \in 1 .. n /\ j \in 1 .. n /\ q[i] = s[i] /\ q[j] = s[j]
      BY <1>1, <2>1
    <3> QED
      BY <3>1 DEF Shape, n
  <2>2. CASE j = n + 1 /\ i = n
    BY <1>1, <2>2 DEF n
  <2>3. CASE j = n + 1 /\ i < n
    <3>1. i \in 1 .. n /\ q[i] = s[i] /\ q[j] = e
      BY <1>1, <2>3
    <3>2. s[i].t = s[n].t /\ s[n].frames <= e.back
      BY <3>1 DEF n
    <3>3. s[i].frames <= s[n].back /\ s[n].back <= s[n].frames
      BY <1>1, <2>3, <3>1, <3>2 DEF Shape, n
    <3> QED
      BY <1>1, <1>2, <3>1, <3>2, <3>3
  <2> QED
    BY <1>1, <2>1, <2>2, <2>3
<1>6. \A i, j, k \in 1 .. Len(q) : i < j /\ j <= k /\ q[j].is = "resume" => q[i].t # q[k].t
  <2> SUFFICES ASSUME NEW i \in 1 .. n + 1, NEW j \in 1 .. n + 1, NEW k \in 1 .. n + 1,
                      i < j, j <= k, q[j].is = "resume"
               PROVE  q[i].t # q[k].t
    BY <1>1
  <2>1. CASE k <= n
    BY <1>1, <2>1 DEF Shape, n
  <2>2. CASE k = n + 1 /\ e.is = "resume"
    BY <1>1, <2>2 DEF n
  <2>3. CASE k = n + 1 /\ e.is # "resume"
    <3>1. j <= n /\ q[k].t = s[n].t /\ q[i] = s[i] /\ q[j] = s[j] /\ i \in 1 .. n /\ j \in 1 .. n
      BY <1>1, <2>3 DEF n
    <3> QED
      BY <1>1, <3>1 DEF Shape, n
  <2> QED
    BY <1>1, <2>1, <2>2, <2>3
<1> QED
  BY <1>1, <1>3, <1>4, <1>5, <1>6 DEF Shape, q

(* What entries say below the top m of what is left of a stack, when only  *)
(* the state of the thread at the top has changed among those on it.       *)
LEMMA FitsBelow ==
    ASSUME NEW s \in Seq(Entry), Shape(s), NEW m \in 1 .. Len(s),
           NEW q \in Seq(Entry), m <= Len(q), \A i \in 1 .. m : q[i] = s[i],
           NEW f, NEW g, NEW r, NEW p,
           \A i \in 1 .. m : s[i].t # s[m].t => g[s[i].t] = f[s[i].t],
           g[s[m].t].baseC = f[s[m].t].baseC,
           \A n \in Nat : n <= s[m].back /\ NoC(f[s[m].t].frames, n) => NoC(g[s[m].t].frames, n),
           NEW i \in 1 .. m, i < m, Fits(s, f, r, i)
    PROVE  Fits(q, g, p, i)
<1> DEFINE c == s[m].t
<1>1. /\ i \in 1 .. Len(s) /\ i + 1 \in 1 .. m /\ i + 1 \in 1 .. Len(s) /\ m \in 1 .. Len(s) /\ i \in Nat
      /\ i # Len(s) /\ i # Len(q)
      /\ q[i] = s[i] /\ q[i + 1] = s[i + 1] /\ s[i] \in Entry /\ s[i + 1] \in Entry /\ s[m] \in Entry
  OBVIOUS
<1>2. Depth(q, i) = Depth(s, i)
  BY <1>1, DepthSame
<1>3. s[i].t = c => s[i + 1].is # "resume"
  BY <1>1 DEF Shape
<1>4. s[i].t = c => s[i + 1].back <= s[m].back
  <2> SUFFICES ASSUME s[i].t = c PROVE s[i + 1].back <= s[m].back
    OBVIOUS
  <2>1. s[i + 1].t = c
    BY <1>1, <1>3 DEF Shape
  <2>2. s[i + 1].back <= s[i + 1].frames /\ (i + 1 < m => s[i + 1].frames <= s[m].back)
    BY <1>1, <2>1 DEF Shape
  <2>3. s[i + 1].back \in Nat /\ s[i + 1].frames \in Nat /\ s[m].back \in Nat
    BY <1>1, EntryIs
  <2> QED
    BY <1>1, <2>2, <2>3
<1>5. CASE s[i].t # c
  <2>1. g[s[i].t] = f[s[i].t]
    BY <1>1, <1>5
  <2> QED
    BY <1>1, <1>2, <2>1 DEF Fits
<1>6. CASE s[i].t = c
  <2>1. s[i + 1].back \in Nat
    BY <1>1, EntryIs
  <2>2. s[i].is = "resume" => NoC(f[c].frames, s[i + 1].back)
    BY <1>1, <1>3, <1>6 DEF Fits
  <2>3. s[i].is = "resume" => NoC(g[c].frames, s[i + 1].back)
    BY <1>4, <1>6, <2>1, <2>2
  <2> QED
    BY <1>1, <1>2, <1>3, <1>6, <2>3 DEF Fits
<1> QED
  BY <1>5, <1>6

(* The state of a thread with another value in one field.                  *)
Same(x, y, but) ==
    /\ x \in ThreadState /\ y \in ThreadState
    /\ but # "made" => y.made = x.made
    /\ but # "status" => y.status = x.status
    /\ but # "frames" => y.frames = x.frames
    /\ but # "vals" => y.vals = x.vals
    /\ but # "nC" => y.nC = x.nC
    /\ but # "baseC" => y.baseC = x.baseC

LEMMA FieldIs ==
    ASSUME NEW x \in ThreadState
    PROVE  /\ \A v \in BOOLEAN : Same(x, [x EXCEPT !.made = v], "made") /\ [x EXCEPT !.made = v].made = v
           /\ \A v \in {"ok", "yield", "error"} :
                  Same(x, [x EXCEPT !.status = v], "status") /\ [x EXCEPT !.status = v].status = v
           /\ \A v \in Seq(Kinds) : Same(x, [x EXCEPT !.frames = v], "frames") /\ [x EXCEPT !.frames = v].frames = v
           /\ \A v \in Int : Same(x, [x EXCEPT !.vals = v], "vals") /\ [x EXCEPT !.vals = v].vals = v
           /\ \A v \in Int : Same(x, [x EXCEPT !.nC = v], "nC") /\ [x EXCEPT !.nC = v].nC = v
           /\ \A v \in Int : Same(x, [x EXCEPT !.baseC = v], "baseC") /\ [x EXCEPT !.baseC = v].baseC = v
<1>1. ASSUME NEW v \in BOOLEAN PROVE Same(x, [x EXCEPT !.made = v], "made") /\ [x EXCEPT !.made = v].made = v
  BY DEF Same, ThreadState
<1>2. ASSUME NEW v \in {"ok", "yield", "error"} PROVE Same(x, [x EXCEPT !.status = v], "status") /\ [x EXCEPT !.status = v].status = v
  BY DEF Same, ThreadState
<1>3. ASSUME NEW v \in Seq(Kinds) PROVE Same(x, [x EXCEPT !.frames = v], "frames") /\ [x EXCEPT !.frames = v].frames = v
  BY DEF Same, ThreadState
<1>4. ASSUME NEW v \in Int PROVE Same(x, [x EXCEPT !.vals = v], "vals") /\ [x EXCEPT !.vals = v].vals = v
  BY DEF Same, ThreadState
<1>5. ASSUME NEW v \in Int PROVE Same(x, [x EXCEPT !.nC = v], "nC") /\ [x EXCEPT !.nC = v].nC = v
  BY DEF Same, ThreadState
<1>6. ASSUME NEW v \in Int PROVE Same(x, [x EXCEPT !.baseC = v], "baseC") /\ [x EXCEPT !.baseC = v].baseC = v
  BY DEF Same, ThreadState
<1> QED
  BY <1>1, <1>2, <1>3, <1>4, <1>5, <1>6

(* The changes to the state of a thread: g is f but for the frames of t,   *)
(* of which the first n are left, or which fs is put on.                   *)
OnlyFrames(f, g, t) ==
    /\ g \in [Threads -> ThreadState] /\ \A x \in Threads : x # t => g[x] = f[x]
    /\ g[t].made = f[t].made /\ g[t].status = f[t].status /\ g[t].vals = f[t].vals
    /\ g[t].nC = f[t].nC /\ g[t].baseC = f[t].baseC

Cut(f, g, t, n) ==
    OnlyFrames(f, g, t) /\ Len(g[t].frames) = n /\ \A k \in 1 .. n : g[t].frames[k] = f[t].frames[k]

MoreFrames(f, g, t, fs) ==
    /\ OnlyFrames(f, g, t) /\ Len(g[t].frames) = Len(f[t].frames) + Len(fs)
    /\ \A k \in 1 .. Len(f[t].frames) : g[t].frames[k] = f[t].frames[k]
    /\ \A k \in 1 .. Len(fs) : g[t].frames[Len(f[t].frames) + k] = fs[k]

LEMMA CutIs ==
    ASSUME NEW f \in [Threads -> ThreadState], NEW t \in Threads, NEW n \in Nat, n <= Len(f[t].frames),
           NEW g, g = CutTo(f, t, n)
    PROVE  Cut(f, g, t, n)
<1> DEFINE fs == SubSeq(f[t].frames, 1, n)
           x == [f[t] EXCEPT !.frames = fs]
<1>1. f[t].frames \in Seq(Kinds) /\ f[t] \in ThreadState
  BY DEF ThreadState
<1>2. fs \in Seq(Kinds) /\ Len(fs) = n /\ \A k \in 1 .. n : fs[k] = f[t].frames[k]
  BY <1>1
<1>3. g = [f EXCEPT ![t] = x]
  BY DEF CutTo
<1> HIDE DEF fs
<1>4. /\ x \in ThreadState /\ x.frames = fs /\ x.made = f[t].made /\ x.status = f[t].status
      /\ x.vals = f[t].vals /\ x.nC = f[t].nC /\ x.baseC = f[t].baseC
  BY <1>1, <1>2 DEF ThreadState
<1> HIDE DEF x
<1>5. g \in [Threads -> ThreadState] /\ g[t] = x /\ \A y \in Threads : y # t => g[y] = f[y]
  BY <1>3, <1>4
<1> QED
  BY <1>2, <1>4, <1>5 DEF Cut, OnlyFrames

LEMMA GrowIs ==
    ASSUME th \in [Threads -> ThreadState], NEW t \in Threads, NEW fs \in Seq(Kinds),
           NEW g, g = Grow(t, fs)
    PROVE  MoreFrames(th, g, t, fs)
<1> DEFINE both == th[t].frames \o fs
           x == [th[t] EXCEPT !.frames = both]
<1>1. th[t].frames \in Seq(Kinds) /\ th[t] \in ThreadState
  BY DEF ThreadState
<1>2. /\ both \in Seq(Kinds) /\ Len(both) = Len(th[t].frames) + Len(fs)
      /\ \A k \in 1 .. Len(th[t].frames) : both[k] = th[t].frames[k]
      /\ \A k \in 1 .. Len(fs) : both[Len(th[t].frames) + k] = fs[k]
  BY <1>1
<1>3. g = [th EXCEPT ![t] = x]
  BY DEF Grow
<1> HIDE DEF both
<1>4. /\ x \in ThreadState /\ x.frames = both /\ x.made = th[t].made /\ x.status = th[t].status
      /\ x.vals = th[t].vals /\ x.nC = th[t].nC /\ x.baseC = th[t].baseC
  BY <1>1, <1>2 DEF ThreadState
<1> HIDE DEF x
<1>5. g \in [Threads -> ThreadState] /\ g[t] = x /\ \A y \in Threads : y # t => g[y] = th[y]
  BY <1>3, <1>4
<1> QED
  BY <1>2, <1>4, <1>5 DEF MoreFrames, OnlyFrames

LEMMA GrowOne ==
    ASSUME th \in [Threads -> ThreadState], NEW t \in Threads, NEW kind \in Kinds, NEW g, g = Grow(t, <<kind>>)
    PROVE  /\ OnlyFrames(th, g, t) /\ Len(g[t].frames) = Len(th[t].frames) + 1
           /\ \A k \in 1 .. Len(th[t].frames) : g[t].frames[k] = th[t].frames[k]
           /\ g[t].frames[Len(th[t].frames) + 1] = kind
<1> DEFINE fs == <<kind>>
<1>1. fs \in Seq(Kinds) /\ Len(fs) = 1 /\ fs[1] = kind /\ 1 \in 1 .. 1
  OBVIOUS
<1>2. g = Grow(t, fs)
  OBVIOUS
<1> HIDE DEF fs
<1>3. MoreFrames(th, g, t, fs)
  BY <1>1, <1>2, GrowIs
<1> QED
  BY <1>1, <1>3 DEF MoreFrames

(* The top entry of a thread that is on the stack; what CoStatus says of   *)
(* one that waits.                                                         *)
LEMMA TopIs ==
    ASSUME CoTypes, NEW t \in OnStack
    PROVE  \E i \in 1 .. Len(native) :
               /\ native[i].t = t /\ \A j \in 1 .. Len(native) : native[j].t = t => j <= i
               /\ Max({j \in DOMAIN native : native[j].t = t}) = i
<1> DEFINE S == {j \in DOMAIN native : native[j].t = t}
           n == Len(native)
           B == {n - j : j \in S}
<1>1. DOMAIN native = 1 .. n /\ n \in Nat
  BY DEF CoTypes
<1>2. S # {} /\ S \subseteq 1 .. n
  BY <1>1 DEF OnStack
<1>3. B \subseteq Nat /\ B # {}
  BY <1>1, <1>2
<1> HIDE DEF B
<1>4. PICK b \in B : \A x \in B : b <= x
  BY <1>3, Least
<1>5. PICK i \in S : b = n - i
  BY <1>4 DEF B
<1>6. \A j \in S : n - j \in B
  BY DEF B
<1>7. \A j \in S : j <= i
  BY <1>1, <1>2, <1>4, <1>5, <1>6
<1>8. \A x \in S : (\A y \in S : x >= y) => x = i
  BY <1>1, <1>2, <1>7
<1>9. \A y \in S : i >= y
  BY <1>1, <1>2, <1>7
<1> HIDE DEF S
<1>10. Max(S) = i
  BY <1>8, <1>9 DEF Max
<1> USE DEF S
<1> QED
  BY <1>1, <1>5, <1>7, <1>10

(* The top of the C stack, and what is left without it.                    *)
LEMMA EntryOnTop ==
    ASSUME CoInv, native # << >>, NEW n, n = Len(native)
    PROVE  /\ n \in Nat /\ n >= 1 /\ n \in 1 .. n /\ native[n] \in Entry /\ Last(native) = native[n]
           /\ \A i \in 1 .. n : native[i] \in Entry /\ native[i].t \in Threads /\ native[i].t \in OnStack
           /\ Current = native[n].t /\ Current \in Threads /\ Current \in OnStack
           /\ Cur = th[Current] /\ Cur \in ThreadState /\ Cur.frames \in Seq(Kinds) /\ Cur.nC \in Int
           /\ Len(Cur.frames) \in Nat /\ native[n].frames \in Nat /\ native[n].back \in Nat
           /\ native[n].frames <= Len(Cur.frames) /\ native[n].back <= native[n].frames
           /\ Depth(native, n) \in Nat
           /\ Runs => Cur.nC = Depth(native, n) /\ native[n].is # "pcall"
           /\ native[n].is # "pcall" => n > 1 /\ native[n - 1] \in Entry
           /\ Front(native) \in Seq(Entry) /\ Len(Front(native)) = n - 1
           /\ \A i \in 1 .. n - 1 : Front(native)[i] = native[i]
           /\ \A x \in OnStack : x \in Threads /\ (x = Main \/ Busy(x))
<1>1. /\ n \in Nat /\ n >= 1 /\ n \in 1 .. n /\ native[n] \in Entry /\ Last(native) = native[n]
      /\ \A i \in 1 .. n : native[i] \in Entry
  BY DEF CoInv, CoTypes, Last
<1>2. \A i \in 1 .. n : native[i].t \in Threads /\ native[i].t \in OnStack
  BY <1>1, EntryIs DEF OnStack, CoInv, CoTypes
<1>3. Current = native[n].t /\ Current \in Threads /\ Current \in OnStack
  BY <1>1, <1>2 DEF Current
<1>4. Cur = th[Current] /\ Cur \in ThreadState
  BY <1>3 DEF Cur, CoInv, CoTypes
<1>5. Cur.frames \in Seq(Kinds) /\ Cur.nC \in Int /\ Len(Cur.frames) \in Nat
  <2>1. Cur.frames \in Seq(Kinds) /\ Cur.nC \in Int
    BY <1>4 DEF ThreadState
  <2> QED
    BY <2>1
<1>6. native[n].frames \in Nat /\ native[n].back \in Nat
  BY <1>1, EntryIs
<1>7. native[n].frames <= Len(Cur.frames) /\ native[n].back <= native[n].frames
  BY <1>1, <1>3, <1>4 DEF CoInv, Fits, Shape
<1>8. Depth(native, n) \in Nat
  BY <1>1, DepthIs
<1>9. Runs => Cur.nC = Depth(native, n) /\ native[n].is # "pcall"
  BY <1>1, <1>3, <1>4 DEF CoInv, Fits, Runs
<1>10. native[n].is # "pcall" => n > 1 /\ native[n - 1] \in Entry
  BY <1>1 DEF CoInv, Shape
<1>11. /\ Front(native) \in Seq(Entry) /\ Len(Front(native)) = n - 1
       /\ \A i \in 1 .. n - 1 : Front(native)[i] = native[i]
  BY <1>1 DEF CoInv, CoTypes, Front
<1>12. \A x \in OnStack : x \in Threads /\ (x = Main \/ Busy(x))
  BY <1>2 DEF OnStack, CoInv, CoTypes, Threads
<1> QED
  BY <1>1, <1>2, <1>3, <1>4, <1>5, <1>6, <1>7, <1>8, <1>9, <1>10, <1>11, <1>12

(* What is left of the stack up to m, with what is new above it.           *)
LEMMA FitsAll ==
    ASSUME CoInv, native' \in Seq(Entry), NEW m \in 0 .. Len(native), m <= Len(native'),
           \A i \in 1 .. m : native'[i] = native[i],
           m > 0 => /\ \A i \in 1 .. m : native[i].t # native[m].t => th'[native[i].t] = th[native[i].t]
                    /\ th'[native[m].t].baseC = th[native[m].t].baseC
                    /\ \A n \in Nat : n <= native[m].back /\ NoC(th[native[m].t].frames, n) =>
                                          NoC(th'[native[m].t].frames, n)
                    /\ Fits(native', th', raising', m),
           \A i \in m + 1 .. Len(native') : Fits(native', th', raising', i)
    PROVE  \A i \in 1 .. Len(native') : Fits(native', th', raising', i)
<1> SUFFICES ASSUME NEW i \in 1 .. Len(native'), i < m
             PROVE  Fits(native', th', raising', i)
  <2>1. Len(native') \in Nat /\ Len(native) \in Nat
    BY DEF CoInv, CoTypes
  <2> QED
    BY <2>1
<1>1. /\ m \in 1 .. Len(native) /\ i \in 1 .. m /\ native \in Seq(Entry) /\ Shape(native)
      /\ Fits(native, th, raising, i)
  BY DEF CoInv, CoTypes
<1> QED
  BY <1>1, FitsBelow

(* A step that leaves the C stack alone.                                   *)
LEMMA SameStackKeeps ==
    ASSUME CoInv, Runs, native' = native, th' \in [Threads -> ThreadState], raising' \in BOOLEAN,
           spilled' \subseteq ended', ended' \subseteq Coroutines,
           \A x \in OnStack : x # Current => th'[x] = th[x],
           th'[Current].made = Cur.made, th'[Current].status = Cur.status, th'[Current].baseC = Cur.baseC,
           th'[Current].nC = Cur.nC, Last(native).frames <= Len(th'[Current].frames),
           \A n \in Nat : n <= Last(native).back /\ NoC(Cur.frames, n) => NoC(th'[Current].frames, n),
           raising' \/ (NoC(Cur.frames, Len(Cur.frames)) => NoC(th'[Current].frames, Len(th'[Current].frames))),
           \A co \in Coroutines \cap OnStack : co \notin ended',
           \A co \in Coroutines \ OnStack : Resting(co)'
    PROVE  CoInv'
<1> DEFINE n == Len(native)
<1>1. /\ native # << >> /\ native \in Seq(Entry) /\ Shape(native) /\ ~raising
  BY DEF Runs, CoInv, CoTypes
<1>2. /\ n \in Nat /\ n >= 1 /\ n \in 1 .. n /\ Last(native) = native[n]
      /\ Current = native[n].t /\ Cur = th[Current]
      /\ Cur.nC = Depth(native, n) /\ native[n].is # "pcall"
      /\ \A x \in OnStack : x \in Threads /\ (x = Main \/ Busy(x))
      /\ \A i \in 1 .. n : native[i].t \in OnStack
  BY <1>1, EntryOnTop
<1>3. CoTypes'
  BY <1>1 DEF CoTypes
<1>4. Fits(native, th, raising, n)
  BY <1>2 DEF CoInv
<1>5. Fits(native', th', raising', n)
  BY <1>1, <1>2, <1>4 DEF Fits
<1>6. \A i \in 1 .. Len(native') : Fits(native', th', raising', i)
  <2>1. n + 1 .. Len(native') = {} /\ n \in 0 .. Len(native) /\ n <= Len(native')
    BY <1>2
  <2>2. \A k \in Nat : k <= native[n].back /\ NoC(th[native[n].t].frames, k) => NoC(th'[native[n].t].frames, k)
    BY <1>2
  <2>3. \A i \in 1 .. n : native[i].t # native[n].t => th'[native[i].t] = th[native[i].t]
    BY <1>2
  <2>4. th'[native[n].t].baseC = th[native[n].t].baseC
    BY <1>2
  <2> HIDE DEF n
  <2> QED
    BY <1>1, <1>2, <1>5, <2>1, <2>2, <2>3, <2>4, FitsAll
<1>7. OnStack' = OnStack
  BY DEF OnStack
<1>8. \A co \in Coroutines : IF co \in OnStack' THEN Busy(co)' ELSE Resting(co)'
  <2> SUFFICES ASSUME NEW co \in Coroutines \cap OnStack PROVE Busy(co)'
    BY <1>7
  <2>1. Busy(co)
    BY <1>2, CoroutineAssumption DEF CoroutineAssumption
  <2>2. th'[co].made = th[co].made /\ th'[co].status = th[co].status
    BY <1>2
  <2> QED
    BY <2>1, <2>2 DEF Busy
<1>9. native' # << >> /\ Last(native)'.is # "pcall" /\ Shape(native)'
  BY <1>1, <1>2
<1>10. Depth(native', Len(native')) < MaxCCalls + Extra
  BY DEF CoInv
<1> QED
  BY <1>3, <1>6, <1>8, <1>9, <1>10 DEF CoInv

(* A coroutine that waits for another is said to be normal.                *)
LEMMA WaitingIs ==
    ASSUME CoInv, Runs, NEW co \in Coroutines \cap OnStack, co # Current
    PROVE  CoStatus(Current, co) = "normal"
<1> DEFINE n == Len(native)
<1>1. native # << >> /\ CoTypes /\ native \in Seq(Entry)
  BY DEF Runs, CoInv, CoTypes
<1>2. PICK i \in 1 .. n : native[i].t = co /\ \A j \in 1 .. n : native[j].t = co => j <= i
  BY <1>1, TopIs
<1>3. /\ n \in Nat /\ n >= 1 /\ n \in 1 .. n /\ Current = native[n].t
      /\ \A x \in OnStack : x \in Threads /\ (x = Main \/ Busy(x))
  BY <1>1, EntryOnTop
<1>4. i < n /\ i + 1 \in 1 .. n /\ native[i + 1].t # co
  BY <1>2, <1>3
<1>5. native[i + 1].is = "resume"
  BY <1>2, <1>4 DEF CoInv, Shape
<1>6. native[i].frames < Len(th[co].frames) /\ native[i].frames \in Nat
  <2>1. Fits(native, th, raising, i)
    BY <1>2 DEF CoInv
  <2>2. native[i] \in Entry
    BY <1>1, <1>2
  <2> QED
    BY <1>2, <1>4, <1>5, <2>1, <2>2, EntryIs DEF Fits
<1>7. th[co].frames # << >> /\ th[co].status = "ok"
  <2>1. Busy(co)
    BY <1>3, CoroutineAssumption DEF CoroutineAssumption
  <2> QED
    BY <1>6, <2>1 DEF Busy
<1> QED
  BY <1>7 DEF CoStatus

(* One that can be resumed is not on the C stack.                          *)
LEMMA SuspendedRests ==
    ASSUME CoInv, Runs, NEW co \in Coroutines, CoStatus(Current, co) = "suspended"
    PROVE  co \notin OnStack /\ Resting(co) /\ co # Current
<1>1. co # Current
  BY DEF CoStatus
<1>2. co \notin OnStack
  BY <1>1, WaitingIs
<1> QED
  BY <1>1, <1>2 DEF CoInv

LEMMA RestingSame ==
    ASSUME NEW co, Resting(co), th'[co] = th[co], co \in ended' <=> co \in ended, co \in spilled' <=> co \in spilled
    PROVE  Resting(co)'
  BY DEF Resting

(* A Lua function is called.                                               *)
LEMMA CallLuaKeeps == ASSUME CoInv, CallLua PROVE CoInv'
<1>1. Runs /\ native # << >> /\ th' = Grow(Current, <<"Lua">>) /\ native' = native /\ raising' = raising
      /\ ended' = ended /\ spilled' = spilled /\ ~raising
  BY DEF CallLua, MayCall, Runs
<1>2. /\ Last(native).frames <= Len(Cur.frames) /\ Last(native).back <= Last(native).frames
      /\ Last(native).frames \in Nat /\ Last(native).back \in Nat
      /\ Current \in Threads /\ Current \in OnStack /\ Cur = th[Current] /\ Cur \in ThreadState
      /\ \A x \in OnStack : x \in Threads /\ (x = Main \/ Busy(x))
      /\ Len(Cur.frames) \in Nat
  BY <1>1, EntryOnTop
<1>3. th \in [Threads -> ThreadState] /\ raising \in BOOLEAN /\ spilled \subseteq ended /\ ended \subseteq Coroutines
  BY DEF CoInv, CoTypes
<1>4. /\ th' \in [Threads -> ThreadState]
      /\ \A x \in Threads : x # Current => th'[x] = th[x]
      /\ th'[Current].made = Cur.made /\ th'[Current].status = Cur.status
      /\ th'[Current].baseC = Cur.baseC /\ th'[Current].nC = Cur.nC
      /\ Len(th'[Current].frames) = Len(Cur.frames) + 1
      /\ \A k \in 1 .. Len(Cur.frames) : th'[Current].frames[k] = Cur.frames[k]
      /\ th'[Current].frames[Len(Cur.frames) + 1] = "Lua"
  <2>1. "Lua" \in Kinds
    BY DEF Kinds
  <2>2. /\ OnlyFrames(th, th', Current) /\ Len(th'[Current].frames) = Len(th[Current].frames) + 1
        /\ \A k \in 1 .. Len(th[Current].frames) : th'[Current].frames[k] = th[Current].frames[k]
        /\ th'[Current].frames[Len(th[Current].frames) + 1] = "Lua"
    BY <1>1, <1>2, <1>3, <2>1, GrowOne
  <2> QED
    BY <1>2, <2>2 DEF OnlyFrames
<1> DEFINE l == Len(Cur.frames)
<1>5. /\ l \in Nat /\ Len(th'[Current].frames) = l + 1 /\ th'[Current].frames[l + 1] = "Lua"
      /\ \A k \in 1 .. l : th'[Current].frames[k] = Cur.frames[k]
      /\ Last(native).back <= l
  BY <1>2, <1>4
<1>6. \A k \in Nat : k <= Last(native).back /\ NoC(Cur.frames, k) => NoC(th'[Current].frames, k)
  <2> HIDE DEF l
  <2>1. Last(native).back \in Nat
    BY <1>2
  <2>2. SUFFICES ASSUME NEW k \in Nat, k <= Last(native).back, NoC(Cur.frames, k), NEW i \in 1 .. k
                 PROVE  th'[Current].frames[i] # "C"
    BY DEF NoC
  <2>3. i \in 1 .. l
    BY <1>5, <2>1, <2>2
  <2>4. th'[Current].frames[i] = Cur.frames[i]
    BY <1>5, <2>3
  <2>5. Cur.frames[i] # "C"
    BY <2>2 DEF NoC
  <2> QED
    BY <2>4, <2>5
<1>7. NoC(Cur.frames, Len(Cur.frames)) => NoC(th'[Current].frames, Len(th'[Current].frames))
  <2>1. l = Len(Cur.frames)
    OBVIOUS
  <2> HIDE DEF l
  <2>2. NoC(Cur.frames, l) => NoC(th'[Current].frames, l + 1)
    BY <1>5 DEF NoC
  <2> QED
    BY <1>5, <2>1, <2>2
<1>8. \A co \in Coroutines \ OnStack : Resting(co)'
  <2> TAKE co \in Coroutines \ OnStack
  <2>1. Resting(co) /\ th'[co] = th[co]
    BY <1>2, <1>4 DEF CoInv, Threads
  <2> QED
    BY <1>1, <2>1, RestingSame
<1>9. \A co \in Coroutines \cap OnStack : co \notin ended'
  BY <1>1, <1>2, CoroutineAssumption DEF CoroutineAssumption, Busy
<1>10. /\ Last(native).frames <= Len(th'[Current].frames)
       /\ \A x \in OnStack : x # Current => th'[x] = th[x]
  BY <1>2, <1>4
<1> QED
  BY <1>1, <1>3, <1>4, <1>6, <1>7, <1>8, <1>9, <1>10, SameStackKeeps

(* One returns to another.                                                 *)
LEMMA ReturnLuaKeeps == ASSUME CoInv, ReturnLua PROVE CoInv'
<1> DEFINE l == Len(Cur.frames) - 1
<1>1. Runs /\ native # << >> /\ th' = CutTo(th, Current, l) /\ native' = native /\ raising' = raising
      /\ ended' = ended /\ spilled' = spilled /\ ~raising /\ Len(Cur.frames) - Last(native).frames > 1
  BY DEF ReturnLua, Runs, InView
<1>2. /\ Last(native).frames <= Len(Cur.frames) /\ Last(native).back <= Last(native).frames
      /\ Last(native).frames \in Nat /\ Last(native).back \in Nat
      /\ Current \in Threads /\ Current \in OnStack /\ Cur = th[Current] /\ Cur \in ThreadState
      /\ \A x \in OnStack : x \in Threads /\ (x = Main \/ Busy(x))
      /\ Len(Cur.frames) \in Nat
  BY <1>1, EntryOnTop
<1>3. th \in [Threads -> ThreadState] /\ raising \in BOOLEAN /\ spilled \subseteq ended /\ ended \subseteq Coroutines
  BY DEF CoInv, CoTypes
<1>11. l \in Nat /\ l <= Len(th[Current].frames) /\ Last(native).frames <= l /\ Last(native).back <= l
       /\ l <= Len(Cur.frames)
  <2>1. \A a, b, c \in Nat : b <= a /\ c <= b /\ a - b > 1 => a - 1 \in Nat /\ b <= a - 1 /\ c <= a - 1 /\ a - 1 <= a
    OBVIOUS
  <2>2. Len(Cur.frames) = Len(th[Current].frames)
    BY <1>2
  <2> HIDE DEF l
  <2>3. l = Len(Cur.frames) - 1
    BY DEF l
  <2> QED
    BY <1>1, <1>2, <2>1, <2>2, <2>3
<1> HIDE DEF l
<1>4. /\ th' \in [Threads -> ThreadState]
      /\ \A x \in Threads : x # Current => th'[x] = th[x]
      /\ th'[Current].made = Cur.made /\ th'[Current].status = Cur.status
      /\ th'[Current].baseC = Cur.baseC /\ th'[Current].nC = Cur.nC
      /\ Len(th'[Current].frames) = l
      /\ \A k \in 1 .. l : th'[Current].frames[k] = Cur.frames[k]
  <2>1. Cut(th, th', Current, l)
    BY <1>1, <1>2, <1>3, <1>11, CutIs
  <2> QED
    BY <1>2, <2>1 DEF Cut, OnlyFrames
<1>6. \A k \in Nat : k <= Last(native).back /\ NoC(Cur.frames, k) => NoC(th'[Current].frames, k)
  BY <1>2, <1>4, <1>11 DEF NoC
<1>7. NoC(Cur.frames, Len(Cur.frames)) => NoC(th'[Current].frames, Len(th'[Current].frames))
  BY <1>2, <1>4, <1>11 DEF NoC
<1>8. \A co \in Coroutines \ OnStack : Resting(co)'
  <2> TAKE co \in Coroutines \ OnStack
  <2>1. Resting(co) /\ th'[co] = th[co]
    BY <1>2, <1>4 DEF CoInv, Threads
  <2> QED
    BY <1>1, <2>1, RestingSame
<1>9. \A co \in Coroutines \cap OnStack : co \notin ended'
  BY <1>1, <1>2, CoroutineAssumption DEF CoroutineAssumption, Busy
<1>10. /\ Last(native).frames <= Len(th'[Current].frames)
       /\ \A x \in OnStack : x # Current => th'[x] = th[x]
  BY <1>2, <1>4, <1>11
<1> QED
  BY <1>1, <1>3, <1>4, <1>6, <1>7, <1>8, <1>9, <1>10, SameStackKeeps

(* An error is raised, or nothing happens to the threads.                  *)
LEMMA RaiseKeeps ==
    ASSUME CoInv, Runs, UNCHANGED <<th, native, ended, spilled>>, raising' \in BOOLEAN
    PROVE  CoInv'
<1>1. native # << >>
  BY DEF Runs
<1>2. /\ Last(native).frames <= Len(Cur.frames) /\ Cur = th[Current]
      /\ \A x \in OnStack : x \in Threads /\ (x = Main \/ Busy(x))
  BY <1>1, EntryOnTop
<1>3. th \in [Threads -> ThreadState] /\ spilled \subseteq ended /\ ended \subseteq Coroutines
  BY DEF CoInv, CoTypes
<1>4. \A co \in Coroutines \ OnStack : Resting(co)'
  BY RestingSame DEF CoInv
<1>5. \A co \in Coroutines \cap OnStack : co \notin ended'
  BY <1>2, CoroutineAssumption DEF CoroutineAssumption, Busy
<1> QED
  BY <1>2, <1>3, <1>4, <1>5, SameStackKeeps

(* Something happens to a coroutine that is not on the C stack.            *)
LEMMA RestingKeeps ==
    ASSUME CoInv, Runs, native' = native, NEW co \in Coroutines \ OnStack, raising' \in BOOLEAN,
           th' \in [Threads -> ThreadState], \A x \in Threads : x # co => th'[x] = th[x],
           spilled' \subseteq ended', ended' \subseteq Coroutines,
           \A x \in Coroutines : x # co => (x \in ended' <=> x \in ended) /\ (x \in spilled' <=> x \in spilled),
           Resting(co)'
    PROVE  CoInv'
<1>1. native # << >>
  BY DEF Runs
<1>2. /\ Last(native).frames <= Len(Cur.frames) /\ Cur = th[Current] /\ Current \in OnStack
      /\ \A x \in OnStack : x \in Threads /\ (x = Main \/ Busy(x))
  BY <1>1, EntryOnTop
<1>3. th'[Current] = th[Current] /\ \A x \in OnStack : th'[x] = th[x]
  BY <1>2
<1>4. \A x \in Coroutines \ OnStack : Resting(x)'
  <2> TAKE x \in Coroutines \ OnStack
  <2>1. CASE x # co
    <3>1. Resting(x) /\ th'[x] = th[x]
      BY <2>1 DEF CoInv, Threads
    <3> QED
      BY <2>1, <3>1, RestingSame
  <2> QED
    BY <2>1
<1>5. \A x \in Coroutines \cap OnStack : x \notin ended'
  BY <1>2, CoroutineAssumption DEF CoroutineAssumption, Busy
<1> QED
  BY <1>2, <1>3, <1>4, <1>5, SameStackKeeps

LEMMA CreateKeeps == ASSUME CoInv, NEW co \in Coroutines, Create(co) PROVE CoInv'
<1>1. /\ Runs /\ ~th[co].made /\ native # << >> /\ UNCHANGED <<native, raising, ended, spilled>>
      /\ th' = [th EXCEPT ![co].made = TRUE, ![co].vals = 1]
  BY DEF Create, Runs
<1>2. /\ th \in [Threads -> ThreadState] /\ raising \in BOOLEAN /\ spilled \subseteq ended /\ ended \subseteq Coroutines
      /\ co \in Threads /\ th[co] \in ThreadState
  BY DEF CoInv, CoTypes, Threads
<1>3. co \notin OnStack /\ Resting(co)
  <2>1. \A x \in OnStack : x \in Threads /\ (x = Main \/ Busy(x))
    BY <1>1, EntryOnTop
  <2>2. co \notin OnStack
    BY <1>1, <2>1, CoroutineAssumption DEF CoroutineAssumption, Busy
  <2> QED
    BY <2>2 DEF CoInv
<1>4. /\ th' \in [Threads -> ThreadState] /\ \A x \in Threads : x # co => th'[x] = th[x]
      /\ th'[co].made /\ th'[co].vals = 1 /\ th'[co].status = th[co].status /\ th'[co].frames = th[co].frames
  <2> DEFINE x == [th[co] EXCEPT !.made = TRUE]
             y == [x EXCEPT !.vals = 1]
  <2>3. Same(th[co], x, "made") /\ x.made = TRUE
    BY <1>2, FieldIs
  <2>1. y \in ThreadState /\ y.made /\ y.vals = 1 /\ y.status = th[co].status /\ y.frames = th[co].frames
    <3> HIDE DEF x
    <3>1. x \in ThreadState
      BY <2>3 DEF Same
    <3>3. \A v \in Int : Same(x, [x EXCEPT !.vals = v], "vals") /\ [x EXCEPT !.vals = v].vals = v
      BY <3>1, FieldIs
    <3>4. 1 \in Int
      OBVIOUS
    <3>2. Same(x, y, "vals") /\ y.vals = 1
      BY <3>3, <3>4, Zenon
    <3> HIDE DEF y
    <3> QED
      BY <2>3, <3>2 DEF Same
  <2>2. th' = [th EXCEPT ![co] = y]
    BY <1>1, <1>2
  <2> HIDE DEF y
  <2> QED
    BY <1>2, <2>1, <2>2
<1>5. Resting(co)'
  BY <1>1, <1>3, <1>4 DEF Resting
<1> QED
  BY <1>1, <1>2, <1>3, <1>4, <1>5, RestingKeeps

LEMMA ResumeOverflowsKeeps ==
    ASSUME CoInv, NEW co \in Coroutines, NEW wrap \in BOOLEAN, ResumeOverflows(co, wrap)
    PROVE  CoInv'
<1>1. /\ Runs /\ native # << >> /\ native' = native /\ raising' \in BOOLEAN /\ th[co].made
      /\ CoStatus(Current, co) = "suspended"
      /\ th' = [th EXCEPT ![co].vals = 0, ![co].nC = Cur.nC]
      /\ ended' = (IF th[co].status = "ok" THEN ended \cup {co} ELSE ended) /\ spilled' = spilled \ {co}
  BY DEF ResumeOverflows, Runs
<1>2. /\ th \in [Threads -> ThreadState] /\ spilled \subseteq ended /\ ended \subseteq Coroutines
      /\ co \in Threads /\ th[co] \in ThreadState
  BY DEF CoInv, CoTypes, Threads
<1>3. co \notin OnStack /\ Resting(co)
  BY <1>1, SuspendedRests
<1>4. /\ th' \in [Threads -> ThreadState] /\ \A x \in Threads : x # co => th'[x] = th[x]
      /\ th'[co].made /\ th'[co].vals = 0 /\ th'[co].status = th[co].status /\ th'[co].frames = th[co].frames
  <2>1. Cur.nC \in Int
    BY <1>1, EntryOnTop
  <2> DEFINE x == [th[co] EXCEPT !.vals = 0]
             y == [x EXCEPT !.nC = Cur.nC]
  <2>5. 0 \in Int
    OBVIOUS
  <2>4. Same(th[co], x, "vals") /\ x.vals = 0
    <3>1. \A v \in Int : Same(th[co], [th[co] EXCEPT !.vals = v], "vals") /\ [th[co] EXCEPT !.vals = v].vals = v
      BY <1>2, FieldIs
    <3> QED
      BY <2>5, <3>1, Zenon
  <2>2. y \in ThreadState /\ y.made = th[co].made /\ y.vals = 0 /\ y.status = th[co].status /\ y.frames = th[co].frames
    <3> HIDE DEF x
    <3>1. x \in ThreadState
      BY <2>4 DEF Same
    <3>2. Same(x, y, "nC")
      BY <2>1, <3>1, FieldIs
    <3> HIDE DEF y
    <3> QED
      BY <2>4, <3>2 DEF Same
  <2>3. th' = [th EXCEPT ![co] = y]
    BY <1>1, <1>2
  <2> HIDE DEF y
  <2> QED
    BY <1>1, <1>2, <2>2, <2>3
<1>6. th[co].status \in {"ok", "yield"}
  BY <1>1, <1>2 DEF CoStatus, ThreadState
<1>5. Resting(co)'
  BY <1>1, <1>3, <1>4, <1>6 DEF Resting
<1> QED
  BY <1>1, <1>2, <1>3, <1>4, <1>5, RestingKeeps

(* The states of the threads with another value in one field of one.       *)
Differs(g, h, t, but) ==
    /\ h \in [Threads -> ThreadState] /\ \A x \in Threads : x # t => h[x] = g[x]
    /\ Same(g[t], h[t], but)

WithNC(g, t, v) == [g EXCEPT ![t].nC = v]

LEMMA SetNC ==
    ASSUME NEW g \in [Threads -> ThreadState], NEW t \in Threads, NEW v \in Int, NEW h, h = WithNC(g, t, v)
    PROVE  Differs(g, h, t, "nC") /\ h[t].nC = v
<1> DEFINE x == g[t]
           y == [x EXCEPT !.nC = v]
<1>1. h = [g EXCEPT ![t] = y] /\ x \in ThreadState
  BY DEF WithNC
<1>2. Same(x, y, "nC") /\ y.nC = v
  <2> HIDE DEF x
  <2> QED
    BY <1>1, FieldIs
<1>3. y \in ThreadState
  BY <1>2 DEF Same
<1>4. x = g[t]
  OBVIOUS
<1> HIDE DEF x, y
<1>5. h \in [Threads -> ThreadState] /\ h[t] = y /\ \A z \in Threads : z # t => h[z] = g[z]
  BY <1>1, <1>3
<1> QED
  BY <1>2, <1>4, <1>5 DEF Differs

WithVals(g, t, v) == [g EXCEPT ![t].vals = v]

LEMMA SetVals ==
    ASSUME NEW g \in [Threads -> ThreadState], NEW t \in Threads, NEW v \in Int, NEW h, h = WithVals(g, t, v)
    PROVE  Differs(g, h, t, "vals") /\ h[t].vals = v
<1> DEFINE x == g[t]
           y == [x EXCEPT !.vals = v]
<1>1. h = [g EXCEPT ![t] = y] /\ x \in ThreadState
  BY DEF WithVals
<1>2. Same(x, y, "vals") /\ y.vals = v
  <2> HIDE DEF x
  <2> QED
    BY <1>1, FieldIs
<1>3. y \in ThreadState
  BY <1>2 DEF Same
<1>4. x = g[t]
  OBVIOUS
<1> HIDE DEF x, y
<1>5. h \in [Threads -> ThreadState] /\ h[t] = y /\ \A z \in Threads : z # t => h[z] = g[z]
  BY <1>1, <1>3
<1> QED
  BY <1>2, <1>4, <1>5 DEF Differs

WithStatus(g, t, v) == [g EXCEPT ![t].status = v]

LEMMA SetStatus ==
    ASSUME NEW g \in [Threads -> ThreadState], NEW t \in Threads, NEW v \in {"ok", "yield", "error"}, NEW h, h = WithStatus(g, t, v)
    PROVE  Differs(g, h, t, "status") /\ h[t].status = v
<1> DEFINE x == g[t]
           y == [x EXCEPT !.status = v]
<1>1. h = [g EXCEPT ![t] = y] /\ x \in ThreadState
  BY DEF WithStatus
<1>2. Same(x, y, "status") /\ y.status = v
  <2> HIDE DEF x
  <2> QED
    BY <1>1, FieldIs
<1>3. y \in ThreadState
  BY <1>2 DEF Same
<1>4. x = g[t]
  OBVIOUS
<1> HIDE DEF x, y
<1>5. h \in [Threads -> ThreadState] /\ h[t] = y /\ \A z \in Threads : z # t => h[z] = g[z]
  BY <1>1, <1>3
<1> QED
  BY <1>2, <1>4, <1>5 DEF Differs

(* What a luaD_call does to the state of the thread.                       *)
Called(l) ==
    /\ th' \in [Threads -> ThreadState] /\ \A x \in Threads : x # Current => th'[x] = th[x]
    /\ th'[Current].made = Cur.made /\ th'[Current].status = Cur.status /\ th'[Current].baseC = Cur.baseC
    /\ th'[Current].nC = Cur.nC + 1 /\ Len(th'[Current].frames) = l
    /\ \A k \in 1 .. Len(Cur.frames) : th'[Current].frames[k] = Cur.frames[k]

LEMMA DCallIs ==
    ASSUME CoInv, Runs, NEW frames \in {<< >>, <<"C">>}, NEW handler, DCall(frames, handler)
    PROVE  Called(Len(Cur.frames) + Len(frames) + 1)
<1> DEFINE fs == Append(frames, "Lua")
           g  == Grow(Current, fs)
           v  == Cur.nC + 1
<1>1. frames \in Seq(Kinds) /\ "Lua" \in Kinds
  <2>1. "C" \in Kinds /\ "Lua" \in Kinds
    BY DEF Kinds
  <2>2. << >> \in Seq(Kinds) /\ \A k \in Kinds : <<k>> \in Seq(Kinds)
    OBVIOUS
  <2>3. <<"C">> \in Seq(Kinds)
    BY <2>1, <2>2
  <2> QED
    BY <2>1, <2>2, <2>3
<1>2. fs \in Seq(Kinds) /\ Len(fs) = Len(frames) + 1 /\ Len(frames) \in Nat
  BY <1>1
<1>3. /\ native # << >> /\ th \in [Threads -> ThreadState] /\ Current \in Threads /\ Cur = th[Current]
      /\ v \in Int /\ Len(Cur.frames) \in Nat
  BY EntryOnTop DEF Runs, CoInv, CoTypes
<1>4. th' = WithNC(g, Current, v)
  BY DEF DCall, WithNC
<1> HIDE DEF fs
<1>5. MoreFrames(th, g, Current, fs)
  BY <1>2, <1>3, GrowIs
<1> HIDE DEF g
<1>6. g \in [Threads -> ThreadState]
  BY <1>5 DEF MoreFrames, OnlyFrames
<1>10. v = Cur.nC + 1
  OBVIOUS
<1> HIDE DEF v
<1>7. Differs(g, th', Current, "nC") /\ th'[Current].nC = v
  BY <1>3, <1>4, <1>6, SetNC
<1>8. /\ th' \in [Threads -> ThreadState] /\ \A x \in Threads : x # Current => th'[x] = th[x]
      /\ th'[Current].made = Cur.made /\ th'[Current].status = Cur.status /\ th'[Current].baseC = Cur.baseC
  BY <1>3, <1>5, <1>7 DEF MoreFrames, OnlyFrames, Differs, Same
<1>9. /\ Len(th'[Current].frames) = Len(Cur.frames) + Len(frames) + 1
      /\ \A k \in 1 .. Len(Cur.frames) : th'[Current].frames[k] = Cur.frames[k]
  <2>1. th'[Current].frames = g[Current].frames
    BY <1>7 DEF Differs, Same
  <2>2. Len(g[Current].frames) = Len(Cur.frames) + Len(fs)
    BY <1>3, <1>5 DEF MoreFrames
  <2>3. \A k \in 1 .. Len(Cur.frames) : g[Current].frames[k] = Cur.frames[k]
    BY <1>3, <1>5 DEF MoreFrames
  <2>4. \A a, b \in Nat : a + (b + 1) = a + b + 1
    OBVIOUS
  <2>5. Len(g[Current].frames) = Len(Cur.frames) + Len(frames) + 1
    <3>1. Len(fs) = Len(frames) + 1 /\ Len(frames) \in Nat /\ Len(Cur.frames) \in Nat
      BY <1>2, <1>3
    <3> QED
      BY <2>2, <2>4, <3>1
  <2> QED
    BY <2>1, <2>3, <2>5
<1> QED
  BY <1>7, <1>8, <1>9, <1>10 DEF Called

(* A luaD_call, with the entries that it puts on the C stack.              *)
Pushed(n, l) ==
    /\ l >= Len(Cur.frames) /\ Called(l)
    /\ native' \in Seq(Entry) /\ Shape(native') /\ raising' \in BOOLEAN /\ ended' = ended /\ spilled' = spilled
    /\ n <= Len(native') /\ \A i \in 1 .. n : native'[i] = native[i]
    /\ \A i \in n + 1 .. Len(native') : native'[i].t = Current /\ Fits(native', th', raising', i)
    /\ Len(native') > n => native'[n + 1].is # "resume" /\ native'[n + 1].back = Len(Cur.frames)
    /\ Len(native') = n => raising'
    /\ ~raising' => Last(native').is # "pcall"
    /\ Depth(native', Len(native')) < MaxCCalls + Extra

LEMMA CalledKeeps ==
    ASSUME CoInv, Runs, NEW l \in Nat, NEW n, n = Len(native), Pushed(n, l)
    PROVE  CoInv'
<1> USE DEF Pushed
<1>1. native # << >> /\ native \in Seq(Entry) /\ Shape(native) /\ ~raising
  BY DEF Runs, CoInv, CoTypes
<1>2. /\ n \in Nat /\ n >= 1 /\ n \in 1 .. n /\ Current = native[n].t /\ Cur = th[Current] /\ Current \in Threads
      /\ native[n].frames \in Nat /\ native[n].back \in Nat /\ Current \in OnStack
      /\ native[n].frames <= Len(Cur.frames) /\ native[n].back <= native[n].frames /\ Len(Cur.frames) \in Nat
      /\ \A x \in OnStack : x \in Threads /\ (x = Main \/ Busy(x))
      /\ \A i \in 1 .. n : native[i].t \in OnStack
  BY <1>1, EntryOnTop
<1>3. CoTypes'
  BY DEF CoTypes, CoInv, Called
<1>4. \A k \in Nat : k <= Len(Cur.frames) /\ NoC(th[native[n].t].frames, k) => NoC(th'[native[n].t].frames, k)
  <2> SUFFICES ASSUME NEW k \in Nat, k <= Len(Cur.frames), NoC(Cur.frames, k)
               PROVE  NoC(th'[Current].frames, k)
    BY <1>2
  <2>1. \A j \in 1 .. k : j \in 1 .. Len(Cur.frames)
    BY <1>2
  <2> QED
    BY <2>1 DEF NoC, Called
<1>5. Fits(native', th', raising', n)
  <2>1. Fits(native, th, raising, n)
    BY <1>2 DEF CoInv
  <2>2. native'[n] = native[n] /\ Depth(native', n) = Depth(native, n)
    BY <1>2, DepthSame
  <2>3. native[n].is = "resume" => NoC(th[native[n].t].frames, Len(Cur.frames)) /\ th[native[n].t].baseC = Depth(native, n)
    BY <1>1, <1>2, <2>1 DEF Fits
  <2>4. native[n].is = "resume" => NoC(th'[native[n].t].frames, Len(Cur.frames)) /\ th'[native[n].t].baseC = Depth(native, n)
    <3>1. th'[native[n].t].baseC = th[native[n].t].baseC /\ Len(Cur.frames) \in Nat
      BY <1>2 DEF Called
    <3>2. NoC(th[native[n].t].frames, Len(Cur.frames)) => NoC(th'[native[n].t].frames, Len(Cur.frames))
      <4>1. \A k \in Nat : k <= k
        OBVIOUS
      <4> QED
        BY <1>4, <3>1, <4>1
    <3> QED
      BY <2>3, <3>1, <3>2
  <2>5. native[n].is # "pcall"
    BY <1>1, EntryOnTop
  <2>6. CASE Len(native') = n
    <3>1. native[n].frames <= Len(th'[native[n].t].frames)
      BY <1>2 DEF Called
    <3> QED
      BY <1>2, <2>2, <2>4, <2>5, <2>6, <3>1 DEF Fits
  <2>7. CASE Len(native') > n
    BY <1>2, <2>2, <2>4, <2>5, <2>7 DEF Fits
  <2>8. Len(native') \in Nat
    OBVIOUS
  <2> QED
    BY <1>2, <2>6, <2>7, <2>8
<1>6. \A i \in 1 .. Len(native') : Fits(native', th', raising', i)
  <2>1. n \in 0 .. Len(native) /\ n <= Len(native')
    BY <1>2
  <2>2. \A k \in Nat : k <= native[n].back /\ NoC(th[native[n].t].frames, k) => NoC(th'[native[n].t].frames, k)
    <3>1. \A k \in Nat : k <= native[n].back => k <= Len(Cur.frames)
      BY <1>2
    <3> QED
      BY <1>4, <3>1
  <2>3. \A i \in 1 .. n : native[i].t # native[n].t => th'[native[i].t] = th[native[i].t]
    BY <1>2 DEF Called
  <2>4. th'[native[n].t].baseC = th[native[n].t].baseC
    BY <1>2 DEF Called
  <2> QED
    BY <1>5, <2>1, <2>2, <2>3, <2>4, FitsAll
<1>7. OnStack' = OnStack
  <2> DEFINE m == Len(native')
  <2>1. DOMAIN native' = 1 .. m /\ DOMAIN native = 1 .. n /\ m \in Nat /\ n <= m
    BY <1>1
  <2>4. \A i \in n + 1 .. m : native'[i].t = Current
    OBVIOUS
  <2> HIDE DEF m
  <2>5. \A i \in 1 .. m : i \in 1 .. n \/ i \in n + 1 .. m
    BY <1>2, <2>1
  <2>2. \A i \in DOMAIN native' : native'[i].t \in OnStack
    <3> SUFFICES ASSUME NEW i \in 1 .. m PROVE native'[i].t \in OnStack
      BY <2>1
    <3>1. CASE i \in 1 .. n
      BY <1>2, <3>1
    <3>2. CASE i \in n + 1 .. m
      BY <1>2, <2>4, <3>2
    <3> QED
      BY <2>5, <3>1, <3>2
  <2>3. \A i \in DOMAIN native : i \in DOMAIN native' /\ native'[i] = native[i]
    <3>1. \A i \in 1 .. n : i \in 1 .. m
      BY <1>2, <2>1
    <3> QED
      BY <2>1, <3>1
  <2> QED
    BY <2>2, <2>3 DEF OnStack
<1>8. \A co \in Coroutines : IF co \in OnStack' THEN Busy(co)' ELSE Resting(co)'
  <2> TAKE co \in Coroutines
  <2>1. CASE co \in OnStack
    <3>1. Busy(co) /\ co \in Threads
      BY <1>2, <2>1, CoroutineAssumption DEF CoroutineAssumption
    <3>2. th'[co].made = th[co].made /\ th'[co].status = th[co].status
      BY <1>2, <3>1 DEF Called
    <3> QED
      BY <1>7, <2>1, <3>1, <3>2 DEF Busy
  <2>2. CASE co \notin OnStack
    <3>1. Resting(co) /\ th'[co] = th[co]
      BY <1>2, <2>2 DEF CoInv, Threads, Called
    <3> QED
      BY <1>7, <2>2, <3>1, RestingSame
  <2> QED
    BY <2>1, <2>2
<1>9. native' # << >>
  BY <1>2
<1> QED
  BY <1>3, <1>6, <1>8, <1>9 DEF CoInv, Runs

(* A luaD_call at the top of the C stack.                                  *)
LEMMA CallFits ==
    ASSUME NEW q, NEW m \in Nat, m + 1 = Len(q), NEW a \in Nat, NEW b, NEW t, q[m + 1] = CallOf(t, a, b),
           NEW f, NEW r, a <= Len(f[t].frames), f[t].nC = Depth(q, m) + 1
    PROVE  Fits(q, f, r, m + 1)
<1> DEFINE e == q[m + 1]
<1>1. e.is = "call" /\ e.t = t /\ e.frames = a
  BY DEF CallOf
<1>2. Depth(q, m + 1) = Depth(q, m) + 1
  BY <1>1, DepthIs
<1> QED
  BY <1>1, <1>2 DEF Fits

LEMMA CallBackKeeps == ASSUME CoInv, CallBack PROVE CoInv'
<1>1. PICK frames \in {<< >>, <<"C">>} : DCall(frames, << >>)
  BY DEF CallBack
<1> DEFINE N == Len(Cur.frames)
           F == Len(frames)
           n == Len(native)
           over == Cur.nC + 1 = MaxCCalls \/ Cur.nC + 1 >= MaxCCalls + Extra
           e == CallOf(Current, N + F, N)
<1>2. Runs /\ native # << >> /\ native \in Seq(Entry) /\ Shape(native)
  BY DEF CallBack, MayCall, Runs, CoInv, CoTypes
<1>3. /\ n \in Nat /\ n >= 1 /\ n \in 1 .. n /\ Current = native[n].t /\ Current \in Threads
      /\ native[n].frames \in Nat /\ native[n].frames <= N /\ N \in Nat
      /\ Cur.nC = Depth(native, n) /\ native[n].is # "pcall" /\ Depth(native, n) \in Nat
      /\ Last(native) = native[n]
  BY <1>2, EntryOnTop
<1>4. F \in Nat
  OBVIOUS
<1>5. Called(N + F + 1)
  BY <1>1, <1>2, DCallIs
<1>6. N + F + 1 \in Nat /\ N + F + 1 >= N /\ N + F \in Nat /\ N + F <= N + F + 1 /\ N <= N + F
  BY <1>3, <1>4
<1>7. raising' = over /\ raising' \in BOOLEAN /\ ended' = ended /\ spilled' = spilled
  BY <1>1 DEF DCall
<1>8. CASE over
  <2>1. native' = native
    BY <1>1, <1>2, <1>8 DEF DCall
  <2>2. \A i \in n + 1 .. Len(native') : native'[i].t = Current /\ Fits(native', th', raising', i)
    BY <1>3, <2>1
  <2>3. Depth(native', Len(native')) < MaxCCalls + Extra
    BY <2>1 DEF CoInv
  <2> HIDE DEF over
  <2>5. n <= Len(native') /\ (\A i \in 1 .. n : native'[i] = native[i]) /\ native' \in Seq(Entry) /\ Shape(native')
    BY <1>2, <1>3, <2>1
  <2>6. Len(native') = n /\ raising'
    BY <1>7, <1>8, <2>1
  <2>7. ~(Len(native') > n)
    BY <1>3, <2>6
  <2> HIDE DEF n
  <2>4. Pushed(n, N + F + 1)
    BY <1>3, <1>5, <1>6, <1>7, <2>2, <2>3, <2>5, <2>6, <2>7 DEF Pushed
  <2> USE DEF n
  <2> HIDE DEF N, F
  <2> QED
    BY <1>2, <1>6, <2>4, CalledKeeps
<1>9. CASE ~over
  <2>1. native' = Append(native, e)
    BY <1>1, <1>2, <1>9 DEF DCall
  <2>2. e \in Entry /\ e.is = "call" /\ e.t = Current /\ e.back = N /\ e.frames = N + F
    BY <1>3, <1>6 DEF Entry, CallOf
  <2>3. /\ native' \in Seq(Entry) /\ Len(native') = n + 1 /\ native'[n + 1] = e /\ Last(native') = e
        /\ \A i \in 1 .. n : native'[i] = native[i]
    <3> HIDE DEF e
    <3> QED
      BY <1>2, <2>1, <2>2 DEF Last
  <2>4. Shape(native')
    <3> HIDE DEF e, N
    <3> QED
      BY <1>2, <1>3, <1>6, <2>1, <2>2, ShapePush
  <2>5. Depth(native', n) = Cur.nC
    BY <1>3, <2>3, DepthSame
  <2>6. Fits(native', th', raising', n + 1)
    <3>1. Len(th'[Current].frames) = N + F + 1 /\ th'[Current].nC = Cur.nC + 1
      BY <1>5 DEF Called
    <3>2. N + F <= Len(th'[Current].frames)
      BY <1>6, <3>1
    <3>3. native'[n + 1] = CallOf(Current, N + F, N)
      BY <2>3
    <3> HIDE DEF e, N, F, n
    <3> QED
      BY <1>3, <1>6, <2>3, <2>5, <3>1, <3>2, <3>3, CallFits
  <2>7. \A i \in n + 1 .. Len(native') : native'[i].t = Current /\ Fits(native', th', raising', i)
    BY <1>3, <2>2, <2>3, <2>6
  <2>8. Depth(native', Len(native')) < MaxCCalls + Extra
    <3>1. Depth(native', n + 1) = Depth(native', n) + 1
      BY <1>3, <2>2, <2>3, DepthIs
    <3>2. Cur.nC + 1 < MaxCCalls + Extra
      BY <1>3, <1>9, CoroutineAssumption DEF CoroutineAssumption
    <3> QED
      BY <2>3, <2>5, <3>1, <3>2
  <2>9. Len(native') > n /\ n <= Len(native') /\ ~raising'
    <3>1. Len(native') = n + 1
      BY <2>3
    <3> HIDE DEF n, over
    <3> QED
      BY <1>3, <1>7, <1>9, <3>1
  <2> HIDE DEF over, e
  <2>10. Pushed(n, N + F + 1)
    BY <1>3, <1>5, <1>6, <1>7, <2>2, <2>3, <2>4, <2>7, <2>8, <2>9 DEF Pushed
  <2> HIDE DEF N, F
  <2> QED
    BY <1>2, <1>6, <2>10, CalledKeeps
<1> QED
  BY <1>8, <1>9

(* A protected call.                                                       *)
LEMMA PCallKeeps == ASSUME CoInv, PCall PROVE CoInv'
<1> DEFINE fr == <<"C">>
           N == Len(Cur.frames)
           n == Len(native)
           over == Cur.nC + 1 = MaxCCalls \/ Cur.nC + 1 >= MaxCCalls + Extra
           p == Protects(Current, N, Cur.nC)
           e == CallOf(Current, N + 1, N)
           q == Append(native, p)
<1>1. DCall(fr, <<p>>) /\ fr \in {<< >>, <<"C">>} /\ Len(fr) = 1
  BY DEF PCall
<1>2. Runs /\ native # << >> /\ native \in Seq(Entry) /\ Shape(native)
  BY DEF PCall, MayCall, Runs, CoInv, CoTypes
<1>3. /\ n \in Nat /\ n >= 1 /\ n \in 1 .. n /\ Current = native[n].t /\ Current \in Threads
      /\ native[n].frames \in Nat /\ native[n].frames <= N /\ N \in Nat
      /\ Cur.nC = Depth(native, n) /\ native[n].is # "pcall" /\ Depth(native, n) \in Nat
      /\ Last(native) = native[n] /\ Cur.nC \in Int
  BY <1>2, EntryOnTop
<1>5. Called(N + 2)
  <2> HIDE DEF fr, p
  <2>1. Called(Len(Cur.frames) + Len(fr) + 1)
    BY <1>1, <1>2, DCallIs
  <2>2. N + Len(fr) + 1 = N + 2
    BY <1>1, <1>3
  <2> QED
    BY <2>1, <2>2
<1>6. N + 2 \in Nat /\ N + 2 >= N /\ N + 1 \in Nat /\ N + 1 <= N + 2 /\ N <= N + 1 /\ N <= N
  BY <1>3
<1>7. raising' = over /\ raising' \in BOOLEAN /\ ended' = ended /\ spilled' = spilled
  BY <1>1 DEF DCall
<1>8. p \in Entry /\ p.is = "pcall" /\ p.t = Current /\ p.back = N /\ p.frames = N /\ p.nC = Cur.nC
  BY <1>3 DEF Entry, Protects
<1>9. e \in Entry /\ e.is = "call" /\ e.t = Current /\ e.back = N /\ e.frames = N + 1
  BY <1>3, <1>6 DEF Entry, CallOf
<1>10. native' = IF over THEN q ELSE Append(q, e)
  <2>1. native' = native \o <<p>> \o (IF over THEN << >> ELSE <<CallOf(Current, N + Len(fr), N)>>)
    BY <1>1 DEF DCall
  <2>2. native \o <<p>> = q /\ q \in Seq(Entry)
    <3> HIDE DEF p
    <3> QED
      BY <1>2, <1>8
  <2> HIDE DEF q, over, p
  <2> QED
    BY <1>1, <1>9, <2>1, <2>2
<1> HIDE DEF fr
<1>11. /\ q \in Seq(Entry) /\ Len(q) = n + 1 /\ q[n + 1] = p /\ \A i \in 1 .. n : q[i] = native[i]
  <2> HIDE DEF p
  <2> QED
    BY <1>2, <1>8
<1>12. Shape(q)
  <2> HIDE DEF p, N
  <2> QED
    BY <1>2, <1>3, <1>6, <1>8, ShapePush
<1> HIDE DEF q
<1>13. Depth(q, n) = Cur.nC /\ Depth(q, n + 1) = Cur.nC
  <2>1. Depth(q, n) = Cur.nC
    BY <1>3, <1>11, DepthSame
  <2>2. Depth(q, n + 1) = Depth(q, n) + (IF q[n + 1].is = "pcall" THEN 0 ELSE 1)
    BY <1>3, DepthIs
  <2> QED
    BY <1>8, <1>11, <2>1, <2>2, <1>3
<1>14. th'[Current].nC = Cur.nC + 1 /\ Len(th'[Current].frames) = N + 2 /\ N <= N + 2
  BY <1>3, <1>5 DEF Called
<1>15. Cur.nC < MaxCCalls + Extra
  BY <1>3 DEF CoInv
<1>20. CASE over
  <2>1. native' = q /\ raising'
    BY <1>7, <1>10, <1>20
  <2>2. Fits(native', th', raising', n + 1)
    <3>1. q[n + 1].is = "pcall" /\ q[n + 1].t = Current /\ q[n + 1].nC = Depth(q, n + 1) /\ q[n + 1].frames = N
      BY <1>8, <1>11, <1>13
    <3> HIDE DEF p, N, n
    <3> QED
      BY <1>11, <1>14, <2>1, <3>1 DEF Fits
  <2>3. \A i \in n + 1 .. Len(native') : native'[i].t = Current /\ Fits(native', th', raising', i)
    <3>1. \A i \in n + 1 .. n + 1 : i = n + 1
      BY <1>3
    <3> HIDE DEF p, n
    <3> QED
      BY <1>8, <1>11, <2>1, <2>2, <3>1
  <2>4. Depth(native', Len(native')) < MaxCCalls + Extra
    BY <1>11, <1>13, <1>15, <2>1
  <2>5. n <= n + 1 /\ n + 1 # n
    BY <1>3
  <2>6. q[n + 1].is # "resume" /\ q[n + 1].back = N
    BY <1>8, <1>11
  <2> HIDE DEF over, p, n
  <2>7. Pushed(n, N + 2)
    BY <1>5, <1>6, <1>7, <1>11, <1>12, <2>1, <2>3, <2>4, <2>5, <2>6 DEF Pushed
  <2> USE DEF n
  <2> HIDE DEF N
  <2> QED
    BY <1>2, <1>6, <2>7, CalledKeeps
<1>21. CASE ~over
  <2>1. native' = Append(q, e) /\ ~raising'
    BY <1>7, <1>10, <1>21
  <2>2. /\ native' \in Seq(Entry) /\ Len(native') = n + 2 /\ native'[n + 2] = e /\ Last(native') = e
        /\ native'[n + 1] = q[n + 1] /\ \A i \in 1 .. n : native'[i] = native[i]
    <3> HIDE DEF e, n
    <3>1. n \in Nat
      BY <1>3
    <3>2. /\ native' \in Seq(Entry) /\ Len(native') = (n + 1) + 1 /\ native'[(n + 1) + 1] = e
          /\ \A i \in 1 .. n + 1 : native'[i] = q[i]
      BY <1>9, <1>11, <2>1, <3>1
    <3>3. (n + 1) + 1 = n + 2 /\ n + 1 \in 1 .. n + 1 /\ \A i \in 1 .. n : i \in 1 .. n + 1
      BY <3>1
    <3> QED
      BY <1>11, <3>2, <3>3 DEF Last
  <2>3. Shape(native')
    <3>1. q # << >> /\ q[Len(q)] = p
      BY <1>3, <1>11
    <3> HIDE DEF p, e, N
    <3> QED
      BY <1>6, <1>8, <1>9, <1>11, <1>12, <2>1, <3>1, ShapePush
  <2>4. Depth(native', n + 1) = Cur.nC
    <3>1. \A i \in 1 .. n + 1 : native'[i] = q[i]
      <4>1. \A i \in 1 .. n + 1 : i = n + 1 \/ i \in 1 .. n
        BY <1>3
      <4> HIDE DEF n
      <4> QED
        BY <1>11, <2>2, <4>1
    <3>2. n + 1 \in Nat
      BY <1>3
    <3> QED
      BY <1>13, <3>1, <3>2, DepthSame
  <2>5. Fits(native', th', raising', n + 2)
    <3>1. native'[(n + 1) + 1] = CallOf(Current, N + 1, N) /\ (n + 1) + 1 = Len(native') /\ n + 1 \in Nat
          /\ (n + 1) + 1 = n + 2
      BY <1>3, <2>2
    <3>2. N + 1 <= Len(th'[Current].frames)
      BY <1>6, <1>14
    <3> HIDE DEF N, n, e
    <3>3. Fits(native', th', raising', (n + 1) + 1)
      BY <1>6, <1>14, <2>4, <3>1, <3>2, CallFits
    <3> QED
      BY <3>1, <3>3
  <2>6. Fits(native', th', raising', n + 1)
    <3>1. q[n + 1].is = "pcall" /\ q[n + 1].nC = Depth(native', n + 1) /\ native'[n + 1] = q[n + 1]
      BY <1>8, <1>11, <2>2, <2>4
    <3>2. n + 1 # n + 2 /\ (n + 1) + 1 = n + 2 /\ native'[n + 2].is = "call"
      BY <1>3, <1>9, <2>2
    <3> HIDE DEF n, e, p
    <3> QED
      BY <2>2, <3>1, <3>2 DEF Fits
  <2>7. \A i \in n + 1 .. Len(native') : native'[i].t = Current /\ Fits(native', th', raising', i)
    <3>1. \A i \in n + 1 .. n + 2 : i = n + 1 \/ i = n + 2
      BY <1>3
    <3>2. native'[n + 1].t = Current /\ native'[n + 2].t = Current
      BY <1>8, <1>9, <1>11, <2>2
    <3> HIDE DEF n
    <3> QED
      BY <2>2, <2>5, <2>6, <3>1, <3>2
  <2>8. Depth(native', Len(native')) < MaxCCalls + Extra
    <3>1. Depth(native', (n + 1) + 1) = Depth(native', n + 1) + (IF native'[(n + 1) + 1].is = "pcall" THEN 0 ELSE 1)
      <4> DEFINE k == n + 1
      <4>1. k \in Nat
        BY <1>3
      <4> HIDE DEF k
      <4>2. Depth(native', k + 1) = Depth(native', k) + (IF native'[k + 1].is = "pcall" THEN 0 ELSE 1)
        BY <4>1, DepthIs
      <4> USE DEF k
      <4> QED
        BY <4>2
    <3>2. (n + 1) + 1 = n + 2
      BY <1>3
    <3>3. Cur.nC + 1 < MaxCCalls + Extra
      BY <1>3, <1>21, CoroutineAssumption DEF CoroutineAssumption
    <3>4. Depth(native', n + 2) = Cur.nC + 1
      BY <1>3, <1>9, <2>2, <2>4, <3>1, <3>2
    <3> QED
      BY <2>2, <3>3, <3>4
  <2>9. n <= n + 2 /\ n + 2 # n
    BY <1>3
  <2>10. native'[n + 1].is # "resume" /\ native'[n + 1].back = N
    BY <1>8, <1>11, <2>2
  <2>11. Last(native').is # "pcall"
    BY <1>9, <2>2
  <2> HIDE DEF over, p, e, n
  <2>12. Pushed(n, N + 2)
    BY <1>5, <1>6, <1>7, <2>1, <2>2, <2>3, <2>7, <2>8, <2>9, <2>10, <2>11 DEF Pushed
  <2> USE DEF n
  <2> HIDE DEF N
  <2> QED
    BY <1>2, <1>6, <2>12, CalledKeeps
<1> QED
  BY <1>20, <1>21

(* The thread that runs leaves its calls down to place m of the C stack,   *)
(* and its frames but the first b.                                         *)
EntryPopped(n, m, b) ==
    /\ Len(native') = m /\ native' \in Seq(Entry) /\ \A i \in 1 .. m : native'[i] = native[i]
    /\ \A i \in m + 1 .. n : native[i].t = Current
    /\ native[m + 1].is # "resume" /\ native[m + 1].back = b
    /\ m > 0 => native[m].is # "pcall"
    /\ raising' = FALSE /\ ended' = ended /\ spilled' = spilled
    /\ th' \in [Threads -> ThreadState] /\ \A x \in Threads : x # Current => th'[x] = th[x]
    /\ th'[Current].made = Cur.made /\ th'[Current].status = Cur.status /\ th'[Current].baseC = Cur.baseC
    /\ th'[Current].nC = Depth(native, m) /\ Len(th'[Current].frames) = b
    /\ \A k \in 1 .. b : th'[Current].frames[k] = Cur.frames[k]

LEMMA PoppedKeeps ==
    ASSUME CoInv, native # << >>, NEW n, n = Len(native), NEW m \in 0 .. n - 1, NEW b \in Nat, EntryPopped(n, m, b)
    PROVE  CoInv'
<1>1. native \in Seq(Entry) /\ Shape(native)
  BY DEF CoInv, CoTypes
<1>2. /\ n \in Nat /\ n >= 1 /\ Current = native[n].t /\ Cur = th[Current] /\ Current \in Threads
      /\ Current \in OnStack /\ \A x \in OnStack : x \in Threads /\ (x = Main \/ Busy(x))
      /\ \A i \in 1 .. n : native[i].t \in OnStack /\ native[i] \in Entry
  BY EntryOnTop
<1>3. m \in Nat /\ m <= n /\ m + 1 \in 1 .. n /\ m + 1 \in m + 1 .. n /\ (m > 0 => m \in 1 .. n /\ m \in 1 .. m)
      /\ m \in 0 .. n
  BY <1>2
<1>4. CoTypes'
  BY DEF CoTypes, CoInv, EntryPopped
<1>5. Shape(native')
  BY <1>1, <1>3, ShapePrefix DEF EntryPopped
<1>6. ASSUME m > 0
      PROVE  /\ native[m].t = Current /\ native[m].frames <= b /\ native[m].back <= b /\ native'[m] = native[m]
             /\ native[m].frames \in Nat /\ native[m].back \in Nat
             /\ native[m].is = "resume" => NoC(Cur.frames, b)
             /\ native[m].is = "resume" => Cur.baseC = Depth(native, m)
  <2>1. (m + 1) - 1 = m /\ m + 1 > 1 /\ m < m + 1 /\ m # n /\ m \in 1 .. n /\ m + 1 \in 1 .. n
    BY <1>2, <1>3, <1>6
  <2>2. native[m + 1].t = Current /\ native[m + 1].is # "resume" /\ native[m + 1].back = b /\ native'[m] = native[m]
    BY <1>3, <1>6 DEF EntryPopped
  <2>3. native[m].t = Current
    BY <1>1, <2>1, <2>2 DEF Shape
  <2>4. native[m].frames <= b /\ native[m].back <= native[m].frames
    BY <1>1, <2>1, <2>2, <2>3 DEF Shape
  <2>5. native[m].frames \in Nat /\ native[m].back \in Nat
    BY <1>2, <2>1, EntryIs
  <2>6. Fits(native, th, raising, m)
    BY <2>1 DEF CoInv
  <2>7. native[m].is = "resume" => NoC(Cur.frames, b) /\ Cur.baseC = Depth(native, m)
    BY <1>2, <2>1, <2>2, <2>3, <2>6 DEF Fits
  <2> QED
    BY <2>2, <2>3, <2>4, <2>5, <2>7
<1>7. \A k \in Nat : k <= b /\ NoC(Cur.frames, k) => NoC(th'[Current].frames, k)
  <2> SUFFICES ASSUME NEW k \in Nat, k <= b, NoC(Cur.frames, k) PROVE NoC(th'[Current].frames, k)
    OBVIOUS
  <2>1. \A j \in 1 .. k : j \in 1 .. b
    OBVIOUS
  <2> QED
    BY <2>1 DEF NoC, EntryPopped
<1>8. ASSUME m > 0 PROVE Fits(native', th', raising', m)
  <2>1. Depth(native', m) = Depth(native, m)
    BY <1>3, DepthSame DEF EntryPopped
  <2>2. native[m].is = "resume" => NoC(th'[Current].frames, b)
    BY <1>6, <1>7, <1>8
  <2>3. native[m].is # "pcall" /\ Len(native') = m /\ Len(th'[Current].frames) = b
        /\ th'[Current].nC = Depth(native, m) /\ th'[Current].baseC = Cur.baseC
    BY <1>8 DEF EntryPopped
  <2> QED
    BY <1>6, <1>8, <2>1, <2>2, <2>3 DEF Fits
<1>9. \A i \in 1 .. Len(native') : Fits(native', th', raising', i)
  <2>1. CASE m = 0
    BY <2>1 DEF EntryPopped
  <2>2. CASE m > 0
    <3>1. \A k \in Nat : k <= native[m].back /\ NoC(th[native[m].t].frames, k) => NoC(th'[native[m].t].frames, k)
      <4>1. \A k \in Nat : k <= native[m].back => k <= b
        BY <1>6, <2>2
      <4> QED
        BY <1>2, <1>6, <1>7, <2>2, <4>1
    <3>2. \A i \in 1 .. m : native[i].t # native[m].t => th'[native[i].t] = th[native[i].t]
      <4>1. \A i \in 1 .. m : native[i].t \in Threads
        BY <1>2, <1>3
      <4> QED
        BY <1>6, <2>2, <4>1 DEF EntryPopped
    <3>3. th'[native[m].t].baseC = th[native[m].t].baseC
      BY <1>2, <1>6, <2>2 DEF EntryPopped
    <3>4. m + 1 .. Len(native') = {} /\ m <= Len(native') /\ native' \in Seq(Entry) /\ m \in 0 .. Len(native)
          /\ \A i \in 1 .. m : native'[i] = native[i]
      BY <1>3 DEF EntryPopped
    <3> QED
      BY <1>8, <2>2, <3>1, <3>2, <3>3, <3>4, FitsAll
  <2> QED
    BY <1>3, <2>1, <2>2
<1>10. \A co \in Coroutines : co \in OnStack' <=> co \in OnStack
  <2>1. DOMAIN native = 1 .. n /\ DOMAIN native' = 1 .. m
    BY <1>1 DEF EntryPopped
  <2>2. \A i \in DOMAIN native' : i \in DOMAIN native /\ native'[i] = native[i]
    BY <1>3, <2>1 DEF EntryPopped
  <2>3. ASSUME NEW i \in DOMAIN native, native[i].t \in Coroutines
        PROVE  native[i].t \in OnStack'
    <3>1. CASE i \in 1 .. m
      BY <2>1, <3>1 DEF OnStack, EntryPopped
    <3>2. CASE i \notin 1 .. m
      <4>1. native[i].t = Current
        BY <1>3, <2>1, <3>2 DEF EntryPopped
      <4>2. m > 0
        <5> SUFFICES ASSUME m = 0 PROVE FALSE
          BY <1>3
        <5>1. native[1].t = Current /\ native[1].t = Main
          BY <1>1, <1>3 DEF EntryPopped, Shape
        <5> QED
          BY <2>3, <4>1, <5>1, CoroutineAssumption DEF CoroutineAssumption
      <4>3. m \in DOMAIN native' /\ native'[m].t = Current
        BY <1>3, <1>6, <2>1, <4>2
      <4> QED
        BY <4>1, <4>3 DEF OnStack
    <3> QED
      BY <3>1, <3>2
  <2> QED
    BY <2>2, <2>3 DEF OnStack
<1>11. \A co \in Coroutines : IF co \in OnStack' THEN Busy(co)' ELSE Resting(co)'
  <2> TAKE co \in Coroutines
  <2>1. CASE co \in OnStack
    <3>1. Busy(co) /\ co \in Threads
      BY <1>2, <2>1, CoroutineAssumption DEF CoroutineAssumption
    <3>2. th'[co].made = th[co].made /\ th'[co].status = th[co].status /\ ended' = ended
      BY <1>2, <3>1 DEF EntryPopped
    <3> QED
      BY <1>10, <2>1, <3>1, <3>2 DEF Busy
  <2>2. CASE co \notin OnStack
    <3>1. Resting(co) /\ th'[co] = th[co] /\ ended' = ended /\ spilled' = spilled
      BY <1>2, <2>2 DEF CoInv, Threads, EntryPopped
    <3> QED
      BY <1>10, <2>2, <3>1, RestingSame
  <2> QED
    BY <2>1, <2>2
<1>12. Depth(native', Len(native')) < MaxCCalls + Extra
  <2>1. Depth(native', m) = Depth(native, m)
    BY <1>3, DepthSame DEF EntryPopped
  <2>2. Depth(native, m) <= Depth(native, n) /\ Depth(native, m) \in Nat /\ Depth(native, n) \in Nat
    BY <1>2, <1>3, DepthGrows, DepthIs
  <2>3. Depth(native, n) < MaxCCalls + Extra
    BY DEF CoInv
  <2> QED
    BY <2>1, <2>2, <2>3, CoroutineAssumption DEF CoroutineAssumption, EntryPopped
<1>13. Runs' => Last(native)'.is # "pcall"
  <2> SUFFICES ASSUME native' # << >> PROVE Last(native').is # "pcall"
    BY DEF Runs
  <2>1. m > 0
    BY <1>3 DEF EntryPopped
  <2> QED
    BY <1>6, <2>1 DEF EntryPopped, Last
<1> QED
  BY <1>4, <1>5, <1>9, <1>11, <1>12, <1>13 DEF CoInv, EntryPopped

(* The return from a luaD_call, out of its protection too.                 *)
LEMMA ReturnCKeeps == ASSUME CoInv, ReturnC PROVE CoInv'
<1> DEFINE n == Len(native)
           b == native[n].back
           below == Front(native)
           g == CutTo(th, Current, b)
           v == Cur.nC - 1
           m == IF native[n - 1].is = "pcall" THEN n - 2 ELSE n - 1
<1>1. Runs /\ native # << >> /\ native \in Seq(Entry) /\ Shape(native) /\ ~raising
  BY DEF ReturnC, Runs, CoInv, CoTypes
<1>2. /\ n \in Nat /\ n >= 1 /\ n \in 1 .. n /\ Last(native) = native[n] /\ native[n].is # "pcall"
      /\ Current = native[n].t /\ Cur = th[Current] /\ Current \in Threads /\ Cur.nC \in Int
      /\ b \in Nat /\ native[n].frames \in Nat /\ native[n].frames <= Len(Cur.frames) /\ b <= native[n].frames
      /\ Len(Cur.frames) \in Nat /\ Cur.nC = Depth(native, n) /\ n > 1
      /\ below \in Seq(Entry) /\ Len(below) = n - 1 /\ \A i \in 1 .. n - 1 : below[i] = native[i]
  BY <1>1, EntryOnTop
<1>3. native[n].is = "call"
  BY <1>2 DEF ReturnC
<1>4. below # << >> /\ Last(below) = native[n - 1] /\ n - 1 \in 1 .. n - 1 /\ n - 1 \in 1 .. n /\ n - 1 \in Nat
  BY <1>2 DEF Last
<1>5. native[n - 1].t = Current
  BY <1>1, <1>2, <1>3 DEF Shape
<1>6. native[n - 1].is = "pcall" => native[n - 1].back = b
  <2>1. (n - 1) + 1 = n /\ n - 1 < n
    BY <1>2
  <2> QED
    BY <1>1, <1>4, <2>1 DEF Shape
<1>7. native' = IF native[n - 1].is = "pcall" THEN Front(below) ELSE below
  BY <1>4 DEF ReturnC
<1>8. m \in 0 .. n - 1 /\ m \in Nat
  BY <1>2
<1>9. Len(native') = m /\ native' \in Seq(Entry) /\ \A i \in 1 .. m : native'[i] = native[i]
  <2> HIDE DEF below
  <2>1. CASE native[n - 1].is = "pcall"
    <3>1. /\ Front(below) \in Seq(Entry) /\ Len(Front(below)) = (n - 1) - 1
          /\ \A i \in 1 .. (n - 1) - 1 : Front(below)[i] = below[i]
      BY <1>2, <1>4 DEF Front
    <3>2. m = n - 2 /\ (n - 1) - 1 = n - 2 /\ \A i \in 1 .. n - 2 : i \in 1 .. n - 1
      BY <1>2, <2>1
    <3> HIDE DEF m, n
    <3> QED
      BY <1>2, <1>7, <2>1, <3>1, <3>2
  <2>2. CASE native[n - 1].is # "pcall"
    BY <1>2, <1>7, <2>2
  <2> QED
    BY <2>1, <2>2
<1>10. Depth(native, m) = v /\ (m > 0 => native[m].is # "pcall")
  <2>1. /\ Depth(native, (n - 1) + 1) = Depth(native, n - 1) + (IF native[(n - 1) + 1].is = "pcall" THEN 0 ELSE 1)
        /\ Depth(native, n - 1) \in Nat
    <3> DEFINE k == n - 1
    <3>1. k \in Nat
      BY <1>2
    <3> HIDE DEF k
    <3>2. /\ Depth(native, k + 1) = Depth(native, k) + (IF native[k + 1].is = "pcall" THEN 0 ELSE 1)
          /\ Depth(native, k) \in Nat
      BY <3>1, DepthIs
    <3> USE DEF k
    <3> QED
      BY <3>2
  <2>2. (n - 1) + 1 = n
    BY <1>2
  <2>3. Depth(native, n - 1) = v
    BY <1>2, <1>3, <2>1, <2>2
  <2>4. CASE native[n - 1].is = "pcall"
    <3> DEFINE k == n - 2
    <3>1. k \in Nat /\ k + 1 = n - 1 /\ m = k
      BY <1>2, <2>4
    <3>2. k > 0 => k \in 1 .. n /\ k < n /\ k + 1 # n
      BY <1>2
    <3> HIDE DEF k, m, n
    <3>3. Depth(native, k + 1) = Depth(native, k) + (IF native[k + 1].is = "pcall" THEN 0 ELSE 1)
      BY <3>1, DepthIs
    <3>4. Depth(native, k) \in Nat
      BY <3>1, DepthIs
    <3>5. k > 0 => native[k].is # "pcall"
      <4> USE DEF n
      <4> HIDE DEF v
      <4> SUFFICES ASSUME k > 0, native[k].is = "pcall" PROVE FALSE
        OBVIOUS
      <4>1. native[k + 1].is = "call"
        BY <1>1, <3>2 DEF Shape
      <4> QED
        BY <2>4, <3>1, <4>1
    <3> QED
      BY <2>3, <2>4, <3>1, <3>3, <3>4, <3>5
  <2>5. CASE native[n - 1].is # "pcall"
    BY <1>2, <2>3, <2>5
  <2> QED
    BY <2>4, <2>5
<1>11. native[m + 1].is # "resume" /\ native[m + 1].back = b /\ \A i \in m + 1 .. n : native[i].t = Current
  <2>1. CASE native[n - 1].is = "pcall"
    <3>1. m + 1 = n - 1 /\ \A i \in m + 1 .. n : i = n - 1 \/ i = n
      BY <1>2, <2>1
    <3> QED
      BY <1>2, <1>5, <1>6, <2>1, <3>1
  <2>2. CASE native[n - 1].is # "pcall"
    <3>1. m + 1 = n /\ \A i \in m + 1 .. n : i = n
      BY <1>2, <2>2
    <3> QED
      BY <1>2, <1>3, <3>1
  <2> QED
    BY <2>1, <2>2
<1>12. th' = WithNC(g, Current, v) /\ raising' = FALSE /\ ended' = ended /\ spilled' = spilled
  <2>1. th' = [CutTo(th, Current, Last(native).back) EXCEPT ![Current].nC = @ - 1]
    BY DEF ReturnC
  <2>2. th \in [Threads -> ThreadState] /\ b <= Len(th[Current].frames)
    BY <1>2 DEF CoInv, CoTypes
  <2>3. Cut(th, g, Current, b)
    BY <1>2, <2>2, CutIs
  <2>4. g[Current].nC - 1 = v
    BY <1>2, <2>3 DEF Cut, OnlyFrames
  <2>5. th' = [g EXCEPT ![Current].nC = g[Current].nC - 1]
    BY <1>2, <2>1
  <2>6. raising' = FALSE /\ ended' = ended /\ spilled' = spilled
    BY <1>1 DEF ReturnC, CoInv, CoTypes
  <2> HIDE DEF g, v
  <2> QED
    BY <2>4, <2>5, <2>6 DEF WithNC
<1>13. Cut(th, g, Current, b)
  <2>1. th \in [Threads -> ThreadState] /\ b <= Len(th[Current].frames)
    BY <1>2 DEF CoInv, CoTypes
  <2> QED
    BY <1>2, <2>1, CutIs
<1>14. v \in Int
  BY <1>2
<1> HIDE DEF g, v
<1>15. Differs(g, th', Current, "nC") /\ th'[Current].nC = v
  <2>1. g \in [Threads -> ThreadState]
    BY <1>13 DEF Cut, OnlyFrames
  <2> QED
    BY <1>2, <1>12, <1>14, <2>1, SetNC
<1> HIDE DEF m, n, b, below
<1>16. EntryPopped(n, m, b)
  <2>1. /\ th' \in [Threads -> ThreadState] /\ \A x \in Threads : x # Current => th'[x] = th[x]
        /\ th'[Current].made = Cur.made /\ th'[Current].status = Cur.status /\ th'[Current].baseC = Cur.baseC
        /\ th'[Current].frames = g[Current].frames
    BY <1>2, <1>13, <1>15 DEF Cut, OnlyFrames, Differs, Same
  <2>2. Len(g[Current].frames) = b /\ \A k \in 1 .. b : g[Current].frames[k] = Cur.frames[k]
    BY <1>2, <1>13 DEF Cut
  <2> QED
    BY <1>9, <1>10, <1>11, <1>12, <1>15, <2>1, <2>2 DEF EntryPopped
<1> QED
  <2>1. n = Len(native)
    BY DEF n
  <2> QED
    BY <1>1, <1>2, <1>8, <1>16, <2>1, PoppedKeeps

(* The frames of a thread are cut, and its count is set.                   *)
LEMMA CutWithNC ==
    ASSUME th \in [Threads -> ThreadState], NEW t \in Threads, NEW b \in Nat, b <= Len(th[t].frames), NEW v \in Int,
           NEW h, h = WithNC(CutTo(th, t, b), t, v)
    PROVE  /\ h \in [Threads -> ThreadState] /\ \A x \in Threads : x # t => h[x] = th[x]
           /\ h[t].made = th[t].made /\ h[t].status = th[t].status /\ h[t].baseC = th[t].baseC
           /\ h[t].nC = v /\ Len(h[t].frames) = b /\ \A k \in 1 .. b : h[t].frames[k] = th[t].frames[k]
<1> DEFINE g == CutTo(th, t, b)
<1>1. Cut(th, g, t, b)
  BY CutIs
<1>2. h = WithNC(g, t, v)
  OBVIOUS
<1> HIDE DEF g
<1>3. g \in [Threads -> ThreadState]
  BY <1>1 DEF Cut, OnlyFrames
<1>4. Differs(g, h, t, "nC") /\ h[t].nC = v
  BY <1>2, <1>3, SetNC
<1>5. h[t].frames = g[t].frames
  BY <1>4 DEF Differs, Same
<1>6. Len(h[t].frames) = b /\ \A k \in 1 .. b : h[t].frames[k] = th[t].frames[k]
  BY <1>1, <1>5 DEF Cut
<1> QED
  BY <1>1, <1>4, <1>6 DEF Cut, OnlyFrames, Differs, Same

(* An error is caught by a protected call.                                 *)
LEMMA CatchPCallKeeps == ASSUME CoInv, CatchPCall PROVE CoInv'
<1> DEFINE n == Len(native)
           h == native[n]
           b == h.back
           m == n - 1
<1>1. native # << >> /\ native \in Seq(Entry) /\ Shape(native) /\ raising
  BY DEF CatchPCall, CoInv, CoTypes
<1>2. /\ n \in Nat /\ n >= 1 /\ n \in 1 .. n /\ Last(native) = h /\ h \in Entry
      /\ Current = h.t /\ Cur = th[Current] /\ Current \in Threads
      /\ b \in Nat /\ h.frames \in Nat /\ h.frames <= Len(Cur.frames) /\ b <= h.frames
      /\ Len(Cur.frames) \in Nat
      /\ Front(native) \in Seq(Entry) /\ Len(Front(native)) = n - 1 /\ \A i \in 1 .. n - 1 : Front(native)[i] = native[i]
  BY <1>1, EntryOnTop
<1>3. h.is = "pcall" /\ native' = Front(native) /\ raising' = FALSE /\ ended' = ended /\ spilled' = spilled
  BY <1>2 DEF CatchPCall
<1>4. m \in Nat /\ m + 1 = n /\ m \in 0 .. n - 1 /\ \A i \in m + 1 .. n : i = n
  BY <1>2
<1>5. h.nC = Depth(native, m) /\ h.nC \in Int
  <2>1. h.nC = Depth(native, n)
    BY <1>2, <1>3 DEF CoInv, Fits
  <2>2. Depth(native, m + 1) = Depth(native, m) + (IF native[m + 1].is = "pcall" THEN 0 ELSE 1)
        /\ Depth(native, m) \in Nat
    <3> HIDE DEF m
    <3> QED
      BY <1>4, DepthIs
  <2>3. native[m + 1].is = "pcall" /\ Depth(native, m + 1) = Depth(native, n)
    BY <1>3, <1>4
  <2>4. \A x \in Nat : x + 0 = x /\ x \in Int
    OBVIOUS
  <2> HIDE DEF m, n, h
  <2>5. Depth(native, m + 1) = Depth(native, m)
    BY <2>2, <2>3, <2>4
  <2> QED
    BY <2>1, <2>2, <2>3, <2>4, <2>5
<1>6. m > 0 => native[m].is # "pcall"
  <2> SUFFICES ASSUME m > 0, native[m].is = "pcall" PROVE FALSE
    OBVIOUS
  <2>1. m \in 1 .. n /\ m < n
    BY <1>2, <1>4
  <2>2. native[m + 1].is = "call"
    BY <1>1, <2>1 DEF Shape
  <2> QED
    BY <1>3, <1>4, <2>2
<1>7. th' = WithNC(CutTo(th, Current, b), Current, h.nC)
  <2>1. th' = [CutTo(th, h.t, h.back) EXCEPT ![h.t].nC = h.nC]
    BY <1>2 DEF CatchPCall, CaughtBy
  <2> QED
    BY <1>2, <2>1 DEF WithNC
<1>8. th \in [Threads -> ThreadState] /\ b <= Len(th[Current].frames)
  BY <1>2 DEF CoInv, CoTypes
<1> HIDE DEF b, m, n
<1>9. /\ th' \in [Threads -> ThreadState] /\ \A x \in Threads : x # Current => th'[x] = th[x]
      /\ th'[Current].made = th[Current].made /\ th'[Current].status = th[Current].status
      /\ th'[Current].baseC = th[Current].baseC
      /\ th'[Current].nC = h.nC /\ Len(th'[Current].frames) = b
      /\ \A k \in 1 .. b : th'[Current].frames[k] = th[Current].frames[k]
  <2> HIDE DEF h
  <2> QED
    <3>1. Current \in Threads /\ b \in Nat
      BY <1>2
    <3>2. PICK v \in Int : v = h.nC
      BY <1>5
    <3> QED
      BY <1>7, <1>8, <3>1, <3>2, CutWithNC
<1>10. native[m + 1].is # "resume" /\ native[m + 1].back = b /\ \A i \in m + 1 .. n : native[i].t = Current
  BY <1>2, <1>3, <1>4 DEF b
<1>11. EntryPopped(n, m, b)
  <2>1. Len(native') = m /\ native' \in Seq(Entry) /\ \A i \in 1 .. m : native'[i] = native[i]
    BY <1>2, <1>3 DEF m
  <2> HIDE DEF h
  <2> QED
    BY <1>2, <1>3, <1>5, <1>6, <1>9, <1>10, <2>1 DEF EntryPopped
<1> QED
  <2>1. n = Len(native)
    BY DEF n
  <2> QED
    BY <1>1, <1>2, <1>4, <1>11, <2>1, PoppedKeeps

(* A call is left by an error.                                             *)
LEMMA UnwindKeeps == ASSUME CoInv, Unwind PROVE CoInv'
<1> DEFINE n == Len(native)
           m == n - 1
<1>1. native # << >> /\ native \in Seq(Entry) /\ Shape(native) /\ raising
  BY DEF Unwind, CoInv, CoTypes
<1>2. /\ n \in Nat /\ n >= 1 /\ n \in 1 .. n /\ Last(native) = native[n]
      /\ Current = native[n].t /\ Cur = th[Current] /\ Current \in Threads /\ Len(Cur.frames) \in Nat
      /\ native[n].frames <= Len(Cur.frames) /\ native[n].back <= native[n].frames /\ native[n].frames \in Nat /\ native[n].back \in Nat
      /\ (native[n].is # "pcall" => n > 1)
      /\ Front(native) \in Seq(Entry) /\ Len(Front(native)) = m /\ (\A i \in 1 .. m : Front(native)[i] = native[i])
      /\ \A i \in 1 .. n : native[i] \in Entry
  BY <1>1, EntryOnTop
<1>3. native[n].is = "call" /\ native' = Front(native) /\ UNCHANGED <<th, raising, ended, spilled>>
  BY <1>2 DEF Unwind
<1>4. m \in Nat /\ m > 0 /\ m + 1 = n /\ m \in 1 .. n /\ m < n /\ m \in 0 .. n /\ m \in 1 .. m /\ m # n
  BY <1>2, <1>3
<1>5. native[m].t = Current
  BY <1>1, <1>2, <1>3, <1>4 DEF Shape
<1>6. native[m].frames <= Len(Cur.frames)
  <2>1. native[m].frames <= native[n].back
    BY <1>1, <1>2, <1>4, <1>5 DEF Shape
  <2>2. native[m].frames \in Nat
    BY <1>2, <1>4, EntryIs
  <2> QED
    <3>1. /\ native[n].frames <= Len(Cur.frames) /\ native[n].back <= native[n].frames
          /\ native[n].frames \in Nat /\ native[n].back \in Nat /\ Len(Cur.frames) \in Nat
      BY <1>2
    <3> QED
      BY <2>1, <2>2, <3>1
<1>7. native' \in Seq(Entry) /\ Len(native') = m /\ \A i \in 1 .. m : native'[i] = native[i]
  BY <1>2, <1>3
<1> HIDE DEF m
<1>8. Shape(native')
  BY <1>1, <1>4, <1>7, ShapePrefix
<1>9. Depth(native', m) = Depth(native, m)
  BY <1>4, <1>7, DepthSame
<1>10. Fits(native', th', raising', m)
  <2>1. Fits(native, th, raising, m)
    BY <1>4 DEF CoInv
  <2>2. native'[m] = native[m] /\ th' = th /\ raising' = TRUE
    BY <1>1, <1>3, <1>4, <1>7 DEF CoInv, CoTypes
  <2> QED
    BY <1>2, <1>4, <1>5, <1>6, <1>7, <1>9, <2>1, <2>2 DEF Fits
<1>11. \A i \in 1 .. Len(native') : Fits(native', th', raising', i)
  <2>1. m + 1 .. Len(native') = {} /\ m <= Len(native') /\ m \in 0 .. Len(native)
    BY <1>4, <1>7
  <2> QED
    BY <1>3, <1>4, <1>7, <1>10, <2>1, FitsAll
<1>12. OnStack' = OnStack
  <2>1. DOMAIN native = 1 .. n /\ DOMAIN native' = 1 .. m /\ \A i \in 1 .. n : i \in 1 .. m \/ i = n
    BY <1>1, <1>4, <1>7
  <2>2. \A i \in 1 .. m : i \in 1 .. n /\ native'[i] = native[i]
    BY <1>4, <1>7
  <2>3. native'[m].t = native[n].t
    BY <1>2, <1>4, <1>5, <1>7
  <2> HIDE DEF n
  <2> QED
    BY <1>4, <2>1, <2>2, <2>3 DEF OnStack
<1>13. \A co \in Coroutines : IF co \in OnStack' THEN Busy(co)' ELSE Resting(co)'
  BY <1>3, <1>12 DEF CoInv, Busy, Resting
<1>14. Depth(native', Len(native')) < MaxCCalls + Extra
  <2>1. Depth(native, m) <= Depth(native, n) /\ Depth(native, m) \in Nat /\ Depth(native, n) \in Nat
    BY <1>2, <1>4, DepthGrows, DepthIs
  <2>2. Depth(native, n) < MaxCCalls + Extra
    BY DEF CoInv
  <2> QED
    BY <1>7, <1>9, <2>1, <2>2, CoroutineAssumption DEF CoroutineAssumption
<1>15. native' # << >> /\ CoTypes' /\ raising' = TRUE
  BY <1>1, <1>3, <1>4, <1>7 DEF CoInv, CoTypes
<1> QED
  BY <1>8, <1>11, <1>13, <1>14, <1>15 DEF CoInv, Runs

(* The state of a coroutine that goes on.                                  *)
Restarted(x, fs, d) == [x EXCEPT !.status = "ok", !.frames = fs, !.vals = 0, !.nC = d, !.baseC = d]

LEMMA RestartedIs ==
    ASSUME NEW x \in ThreadState, NEW fs \in Seq(Kinds), NEW d \in Int, NEW y, y = Restarted(x, fs, d)
    PROVE  /\ y \in ThreadState /\ y.made = x.made /\ y.status = "ok" /\ y.frames = fs
           /\ y.nC = d /\ y.baseC = d
<1> DEFINE x1 == [x EXCEPT !.status = "ok"]
           x2 == [x1 EXCEPT !.frames = fs]
           x3 == [x2 EXCEPT !.vals = 0]
           x4 == [x3 EXCEPT !.nC = d]
           x5 == [x4 EXCEPT !.baseC = d]
<1>1. y = x5
  BY DEF Restarted
<1>2. Same(x, x1, "status") /\ x1.status = "ok" /\ x1 \in ThreadState
  <2>1. Same(x, x1, "status") /\ x1.status = "ok"
    <3>1. \A v \in {"ok", "yield", "error"} : Same(x, [x EXCEPT !.status = v], "status") /\ [x EXCEPT !.status = v].status = v
      BY FieldIs
    <3> QED
      BY <3>1
  <2> HIDE DEF x1
  <2> QED
    BY <2>1 DEF Same
<1> HIDE DEF x1
<1>3. Same(x1, x2, "frames") /\ x2.frames = fs /\ x2 \in ThreadState
  <2>1. Same(x1, x2, "frames") /\ x2.frames = fs
    BY <1>2, FieldIs
  <2> HIDE DEF x2
  <2> QED
    BY <2>1 DEF Same
<1> HIDE DEF x2
<1>4. Same(x2, x3, "vals") /\ x3 \in ThreadState
  <2>1. \A v \in Int : Same(x2, [x2 EXCEPT !.vals = v], "vals")
    BY <1>3, FieldIs
  <2>2. 0 \in Int
    OBVIOUS
  <2>3. Same(x2, x3, "vals")
    BY <2>1, <2>2, Zenon
  <2> HIDE DEF x3
  <2> QED
    BY <2>3 DEF Same
<1> HIDE DEF x3
<1>5. Same(x3, x4, "nC") /\ x4.nC = d /\ x4 \in ThreadState
  <2>1. Same(x3, x4, "nC") /\ x4.nC = d
    BY <1>4, FieldIs
  <2> HIDE DEF x4
  <2> QED
    BY <2>1 DEF Same
<1> HIDE DEF x4
<1>6. Same(x4, x5, "baseC") /\ x5.baseC = d
  BY <1>5, FieldIs
<1> HIDE DEF x5
<1> QED
  BY <1>1, <1>2, <1>3, <1>4, <1>5, <1>6 DEF Same

(* What a resume does to the states of the threads.                        *)
LEMMA ResumedIs ==
    ASSUME CoInv, NEW co \in Coroutines, NEW wrap \in BOOLEAN, CoResume(co, wrap)
    PROVE  /\ Runs /\ co # Current /\ co \notin OnStack /\ Resting(co) /\ th[co].made
           /\ th' \in [Threads -> ThreadState]
           /\ \A x \in Threads : x # Current /\ x # co => th'[x] = th[x]
           /\ th'[Current].made = Cur.made /\ th'[Current].status = Cur.status
           /\ th'[Current].baseC = Cur.baseC /\ th'[Current].nC = Cur.nC
           /\ Len(th'[Current].frames) = Len(Cur.frames) + 1
           /\ \A k \in 1 .. Len(Cur.frames) : th'[Current].frames[k] = Cur.frames[k]
           /\ th'[co].made /\ th'[co].status = "ok" /\ th'[co].nC = Cur.nC + 1 /\ th'[co].baseC = Cur.nC + 1
           /\ raising' \in BOOLEAN
           /\ ~raising' => NoC(th'[co].frames, Len(th'[co].frames))
<1> DEFINE started == [frames |-> <<"Lua">>, ok |-> TRUE]
           starts  == IF th[co].status = "yield" THEN {[frames |-> Front(th[co].frames), ok |-> TRUE]}
                      ELSE IF co \in spilled THEN {started, [frames |-> << >>, ok |-> FALSE]} ELSE {started}
<1>1. Runs /\ th[co].made /\ CoStatus(Current, co) = "suspended" /\ native # << >>
  BY DEF CoResume, MayCall, Runs
<1>2. co # Current /\ co \notin OnStack /\ Resting(co) /\ co \in Threads
  BY <1>1, SuspendedRests DEF Threads
<1>3. /\ Current \in Threads /\ Cur = th[Current] /\ Cur.nC \in Int /\ th \in [Threads -> ThreadState]
      /\ th[co] \in ThreadState
  BY <1>1, <1>2, EntryOnTop DEF CoInv, CoTypes
<1>4. PICK s \in starts :
          /\ th' = [Grow(Current, <<"C">>) EXCEPT
                       ![co] = [@ EXCEPT !.status = "ok", !.frames = s.frames, !.vals = 0,
                                         !.nC = Cur.nC + 1, !.baseC = Cur.nC + 1]]
          /\ raising' = ~s.ok
  BY DEF CoResume
<1>5. /\ s.frames \in Seq(Kinds) /\ s.ok \in BOOLEAN
      /\ s.ok => NoC(s.frames, Len(s.frames))
  <2>1. CASE s = started
    <3> DEFINE fs == <<"Lua">>
    <3>1. fs \in Seq(Kinds) /\ Len(fs) = 1 /\ fs[1] = "Lua"
      BY DEF Kinds
    <3>2. s.frames = fs /\ s.ok = TRUE
      BY <2>1
    <3> HIDE DEF fs
    <3>3. NoC(fs, 1)
      BY <3>1 DEF NoC
    <3> QED
      BY <3>1, <3>2, <3>3
  <2>2. CASE s = [frames |-> << >>, ok |-> FALSE]
    BY <2>2
  <2>3. CASE th[co].status = "yield" /\ s = [frames |-> Front(th[co].frames), ok |-> TRUE]
    <3> DEFINE f == th[co].frames
               l == Len(f)
    <3>1. f \in Seq(Kinds) /\ l \in Nat
      <4>1. f \in Seq(Kinds)
        BY <1>3 DEF ThreadState
      <4> QED
        BY <4>1
    <3>2. f # << >> /\ \A k \in 1 .. l : f[k] = "C" <=> k = l
      BY <1>1, <1>2, <2>3 DEF Resting
    <3>3. s.frames = Front(f) /\ s.ok = TRUE
      BY <2>3
    <3> HIDE DEF f
    <3>4. l > 0
      BY <3>1, <3>2
    <3>5. Front(f) \in Seq(Kinds) /\ Len(Front(f)) = l - 1 /\ \A k \in 1 .. l - 1 : Front(f)[k] = f[k]
      <4>1. Front(f) = SubSeq(f, 1, Len(f) - 1) /\ Len(f) - 1 \in Nat /\ Len(f) - 1 <= Len(f)
        BY <3>1, <3>4 DEF Front
      <4>2. \A m \in Nat : m <= Len(f) => /\ SubSeq(f, 1, m) \in Seq(Kinds) /\ Len(SubSeq(f, 1, m)) = m
                                          /\ \A k \in 1 .. m : SubSeq(f, 1, m)[k] = f[k]
        BY <3>1
      <4> DEFINE m == Len(f) - 1
      <4>3. m = l - 1
        OBVIOUS
      <4> HIDE DEF m, l
      <4> QED
        BY <4>1, <4>2, <4>3 DEF m
    <3>6. \A k \in 1 .. l - 1 : k \in 1 .. l /\ k # l
      BY <3>1
    <3> HIDE DEF l
    <3>7. NoC(Front(f), l - 1)
      BY <3>2, <3>5, <3>6 DEF NoC
    <3> QED
      BY <3>3, <3>5, <3>7
  <2> QED
    BY <2>1, <2>2, <2>3
<1> DEFINE g == Grow(Current, <<"C">>)
           d == Cur.nC + 1
<1>6. /\ OnlyFrames(th, g, Current) /\ Len(g[Current].frames) = Len(th[Current].frames) + 1
      /\ \A k \in 1 .. Len(th[Current].frames) : g[Current].frames[k] = th[Current].frames[k]
  <2>1. "C" \in Kinds
    BY DEF Kinds
  <2> QED
    BY <1>3, <2>1, GrowOne
<1>7. th' = [g EXCEPT ![co] = Restarted(g[co], s.frames, d)] /\ d \in Int
  <2> HIDE DEF starts
  <2>1. th' = [Grow(Current, <<"C">>) EXCEPT
                       ![co] = [@ EXCEPT !.status = "ok", !.frames = s.frames, !.vals = 0,
                                         !.nC = Cur.nC + 1, !.baseC = Cur.nC + 1]]
    BY <1>4
  <2> QED
    BY <1>3, <2>1 DEF Restarted
<1>10. d = Cur.nC + 1
  OBVIOUS
<1> HIDE DEF g, d, starts
<1>8. g \in [Threads -> ThreadState] /\ g[co] = th[co]
  BY <1>2, <1>6 DEF OnlyFrames
<1> DEFINE y == Restarted(g[co], s.frames, d)
<1>9. /\ y \in ThreadState /\ y.made = th[co].made /\ y.status = "ok" /\ y.frames = s.frames
      /\ y.nC = d /\ y.baseC = d
  <2> DEFINE fr == s.frames
  <2>1. fr \in Seq(Kinds)
    BY <1>5
  <2> HIDE DEF fr
  <2>2. \A z : z = Restarted(th[co], fr, d) =>
              /\ z \in ThreadState /\ z.made = th[co].made /\ z.status = "ok" /\ z.frames = fr /\ z.nC = d /\ z.baseC = d
    BY <1>3, <1>7, <2>1, RestartedIs
  <2>3. y = Restarted(th[co], fr, d)
    BY <1>8 DEF fr
  <2> HIDE DEF y
  <2>4. fr = s.frames
    BY DEF fr
  <2> QED
    BY <2>2, <2>3, <2>4
<1>11. th' = [g EXCEPT ![co] = y]
  BY <1>7
<1> HIDE DEF y
<1>12. /\ th' \in [Threads -> ThreadState] /\ th'[co] = y
       /\ \A x \in Threads : x # co => th'[x] = g[x]
  BY <1>2, <1>8, <1>9, <1>11
<1>13. th'[Current] = g[Current]
  BY <1>2, <1>3, <1>12
<1>14. /\ th'[Current].made = Cur.made /\ th'[Current].status = Cur.status
       /\ th'[Current].baseC = Cur.baseC /\ th'[Current].nC = Cur.nC
       /\ \A x \in Threads : x # Current /\ x # co => th'[x] = th[x]
  BY <1>3, <1>6, <1>12, <1>13 DEF OnlyFrames
<1>15. /\ Len(th'[Current].frames) = Len(Cur.frames) + 1
       /\ \A k \in 1 .. Len(Cur.frames) : th'[Current].frames[k] = Cur.frames[k]
  BY <1>3, <1>6, <1>13
<1>16. raising' = ~s.ok /\ raising' \in BOOLEAN
  BY <1>4, <1>5
<1> QED
  BY <1>1, <1>2, <1>5, <1>9, <1>10, <1>12, <1>14, <1>15, <1>16

(* A coroutine is started, or goes on.                                     *)
LEMMA CoResumeKeeps ==
    ASSUME CoInv, NEW co \in Coroutines, NEW wrap \in BOOLEAN, CoResume(co, wrap)
    PROVE  CoInv'
<1> DEFINE n == Len(native)
           N == Len(Cur.frames)
           D == Depth(native, n)
           e == Resumes(co, wrap)
<1>1. /\ Runs /\ native # << >> /\ native \in Seq(Entry) /\ Shape(native) /\ Cur.nC < MaxCCalls
      /\ native' = Append(native, e) /\ ended' = ended \ {co} /\ spilled' = spilled \ {co}
  BY DEF CoResume, MayCall, Runs, CoInv, CoTypes
<1>2. /\ co # Current /\ co \notin OnStack /\ co \in Threads /\ co # Main
      /\ th' \in [Threads -> ThreadState]
      /\ \A x \in Threads : x # Current /\ x # co => th'[x] = th[x]
      /\ th'[Current].made = Cur.made /\ th'[Current].status = Cur.status
      /\ th'[Current].baseC = Cur.baseC /\ th'[Current].nC = Cur.nC
      /\ Len(th'[Current].frames) = N + 1
      /\ \A k \in 1 .. N : th'[Current].frames[k] = Cur.frames[k]
      /\ th'[co].made /\ th'[co].status = "ok" /\ th'[co].nC = Cur.nC + 1 /\ th'[co].baseC = Cur.nC + 1
      /\ raising' \in BOOLEAN
      /\ ~raising' => NoC(th'[co].frames, Len(th'[co].frames))
  BY ResumedIs, CoroutineAssumption DEF CoroutineAssumption, Threads
<1>3. /\ n \in Nat /\ n >= 1 /\ n \in 1 .. n /\ Current = native[n].t /\ Cur = th[Current] /\ Current \in Threads
      /\ Current \in OnStack /\ native[n].frames \in Nat /\ native[n].frames <= N /\ N \in Nat
      /\ native[n].back \in Nat /\ native[n].back <= native[n].frames /\ Cur.nC = D /\ native[n].is # "pcall" /\ D \in Nat
      /\ \A x \in OnStack : x \in Threads /\ (x = Main \/ Busy(x))
      /\ \A i \in 1 .. n : native[i].t \in OnStack
  BY <1>1, EntryOnTop
<1>4. e \in Entry /\ e.is = "resume" /\ e.t = co /\ e.frames = 0 /\ e.back = 0
  BY DEF Entry, Resumes
<1>5. /\ native' \in Seq(Entry) /\ Len(native') = n + 1 /\ native'[n + 1] = e /\ Last(native') = e
      /\ \A i \in 1 .. n : native'[i] = native[i]
  <2> HIDE DEF e
  <2> QED
    BY <1>1, <1>3, <1>4 DEF Last
<1>6. Shape(native')
  <2>1. \A i \in 1 .. n : native[i].t # co
    BY <1>2, <1>3
  <2>2. e.back <= e.frames
    BY <1>4
  <2> HIDE DEF e
  <2> QED
    BY <1>1, <1>2, <1>3, <1>4, <2>1, <2>2, ShapePush
<1> HIDE DEF e
<1>7. CoTypes'
  BY <1>1, <1>2, <1>5 DEF CoInv, CoTypes
<1>8. Depth(native', n) = D /\ Depth(native', n + 1) = D + 1
  <2>1. Depth(native', n) = D
    BY <1>3, <1>5, DepthSame
  <2>2. Depth(native', n + 1) = Depth(native', n) + (IF native'[n + 1].is = "pcall" THEN 0 ELSE 1)
    BY <1>3, DepthIs
  <2> HIDE DEF D
  <2> QED
    BY <1>4, <1>5, <2>1, <2>2
<1>9. \A k \in Nat : k <= N /\ NoC(Cur.frames, k) => NoC(th'[Current].frames, k)
  <2> SUFFICES ASSUME NEW k \in Nat, k <= N, NoC(Cur.frames, k) PROVE NoC(th'[Current].frames, k)
    OBVIOUS
  <2>1. \A j \in 1 .. k : j \in 1 .. N
    BY <1>3
  <2> QED
    BY <1>2, <2>1 DEF NoC
<1>10. Fits(native', th', raising', n)
  <2>1. Fits(native, th, raising, n)
    BY <1>3 DEF CoInv
  <2>2. native[n].is = "resume" => Cur.baseC = D /\ NoC(Cur.frames, N)
    BY <1>1, <1>3, <2>1 DEF Fits, Runs
  <2>3. native[n].is = "resume" => th'[Current].baseC = D /\ NoC(th'[Current].frames, N)
    <3>1. N \in Nat /\ N <= N /\ th'[Current].baseC = Cur.baseC
      BY <1>2, <1>3
    <3>2. NoC(Cur.frames, N) => NoC(th'[Current].frames, N)
      <4> HIDE DEF N
      <4> QED
        BY <1>9, <3>1
    <3> QED
      BY <2>2, <3>1, <3>2
  <2>4. n # n + 1 /\ (N + 1) - 1 = N /\ native[n].frames < N + 1
    <3>1. n \in Nat /\ N \in Nat /\ native[n].frames \in Nat /\ native[n].frames <= N
      BY <1>3
    <3> HIDE DEF N, n
    <3> QED
      BY <3>1
  <2>5. native'[n] = native[n] /\ Len(native') = n + 1 /\ native'[n + 1].is = "resume"
    BY <1>3, <1>4, <1>5
  <2>6. Len(th'[Current].frames) = N + 1 /\ th'[Current].nC = D
    BY <1>2, <1>3
  <2> HIDE DEF n, N, D
  <2> QED
    BY <1>3, <1>8, <2>3, <2>4, <2>5, <2>6 DEF Fits
<1>11. Fits(native', th', raising', n + 1)
  <2>1. th'[co].nC = D + 1 /\ th'[co].baseC = D + 1
    BY <1>2, <1>3
  <2>2. 0 <= Len(th'[co].frames)
    <3>1. th'[co].frames \in Seq(Kinds)
      BY <1>2 DEF ThreadState
    <3> QED
      BY <3>1
  <2> HIDE DEF n, D
  <2> QED
    BY <1>2, <1>4, <1>5, <1>8, <2>1, <2>2 DEF Fits
<1>12. \A i \in 1 .. Len(native') : Fits(native', th', raising', i)
  <2>1. \A i \in n + 1 .. n + 1 : i = n + 1
    BY <1>3
  <2>2. \A i \in n + 1 .. Len(native') : Fits(native', th', raising', i)
    BY <1>5, <1>11, <2>1
  <2>3. \A k \in Nat : k <= native[n].back /\ NoC(th[native[n].t].frames, k) => NoC(th'[native[n].t].frames, k)
    <3>1. \A k \in Nat : k <= native[n].back => k <= N
      BY <1>3
    <3> QED
      BY <1>3, <1>9, <3>1
  <2>4. \A i \in 1 .. n : native[i].t # native[n].t => th'[native[i].t] = th[native[i].t]
    BY <1>2, <1>3
  <2>5. th'[native[n].t].baseC = th[native[n].t].baseC
    BY <1>2, <1>3
  <2>6. n \in 0 .. Len(native) /\ n <= Len(native')
    BY <1>3, <1>5
  <2> HIDE DEF n
  <2> QED
    BY <1>5, <1>10, <2>2, <2>3, <2>4, <2>5, <2>6, FitsAll
<1>13. \A x : x \in OnStack' <=> x \in OnStack \/ x = co
  <2>1. DOMAIN native = 1 .. n /\ DOMAIN native' = 1 .. n + 1 /\ n + 1 \in 1 .. n + 1
    BY <1>1, <1>3, <1>5
  <2>2. \A i \in 1 .. n : i \in 1 .. n + 1 /\ native'[i] = native[i]
    BY <1>3, <1>5
  <2>3. \A i \in 1 .. n + 1 : i \in 1 .. n \/ i = n + 1
    BY <1>3
  <2>4. native'[n + 1].t = co
    BY <1>4, <1>5
  <2> HIDE DEF n
  <2> QED
    BY <2>1, <2>2, <2>3, <2>4 DEF OnStack
<1>14. \A x \in Coroutines : IF x \in OnStack' THEN Busy(x)' ELSE Resting(x)'
  <2> TAKE x \in Coroutines
  <2>1. CASE x = co
    BY <1>1, <1>2, <1>13, <2>1 DEF Busy
  <2>2. CASE x # co /\ x \in OnStack
    <3>1. Busy(x) /\ x \in Threads
      BY <1>3, <2>2, CoroutineAssumption DEF CoroutineAssumption
    <3>2. th'[x].made = th[x].made /\ th'[x].status = th[x].status
      BY <1>2, <1>3, <2>2, <3>1
    <3> QED
      BY <1>1, <1>13, <2>2, <3>1, <3>2 DEF Busy
  <2>3. CASE x # co /\ x \notin OnStack
    <3>1. Resting(x) /\ th'[x] = th[x]
      BY <1>2, <1>3, <2>3 DEF CoInv, Threads
    <3> QED
      BY <1>1, <1>13, <2>3, <3>1, RestingSame
  <2> QED
    BY <2>1, <2>2, <2>3
<1>15. Depth(native', Len(native')) < MaxCCalls + Extra
  BY <1>1, <1>3, <1>5, <1>8, CoroutineAssumption DEF CoroutineAssumption
<1>16. native' # << >> /\ Last(native').is # "pcall"
  BY <1>3, <1>4, <1>5
<1> QED
  BY <1>6, <1>7, <1>12, <1>14, <1>15, <1>16 DEF CoInv

(* A resume at the top of the C stack, and the thread that waits for it.   *)
LEMMA ResumerIs ==
    ASSUME CoInv, native # << >>, NEW n, n = Len(native), native[n].is = "resume"
    PROVE  /\ n > 1 /\ native[n].t \in Coroutines /\ native[n - 1].t \in Threads
           /\ \A i \in 1 .. n - 1 : native[i].t # native[n].t
           /\ native[n - 1].is # "pcall"
           /\ native[n - 1].frames < Len(th[native[n - 1].t].frames)
           /\ th[native[n - 1].t].nC = Depth(native, n - 1)
           /\ native[n - 1].is = "resume" => /\ NoC(th[native[n - 1].t].frames, Len(th[native[n - 1].t].frames) - 1)
                                             /\ th[native[n - 1].t].baseC = Depth(native, n - 1)
<1> DEFINE m == n - 1
<1>1. /\ native \in Seq(Entry) /\ Shape(native) /\ n \in Nat /\ n > 1 /\ n \in 1 .. n
      /\ \A i \in 1 .. n : native[i] \in Entry /\ native[i].t \in Threads
  BY EntryOnTop DEF CoInv, CoTypes
<1>2. m \in 1 .. n /\ m < n /\ m + 1 = n /\ m # n /\ \A i \in 1 .. m : i \in 1 .. n /\ i < n
  BY <1>1
<1>3. native[n].t \in Coroutines
  BY <1>1, EntryIs
<1>4. \A i \in 1 .. m : native[i].t # native[n].t
  BY <1>1, <1>2 DEF Shape
<1>5. native[m].is # "pcall"
  <2> SUFFICES ASSUME native[m].is = "pcall" PROVE FALSE
    OBVIOUS
  <2>1. native[m + 1].is = "call"
    BY <1>1, <1>2 DEF Shape
  <2> QED
    BY <1>2, <2>1
<1>6. Fits(native, th, raising, m)
  BY <1>2 DEF CoInv
<1> HIDE DEF m
<1>7. /\ native[m].frames < Len(th[native[m].t].frames)
      /\ th[native[m].t].nC = Depth(native, m)
      /\ native[m].is = "resume" => /\ NoC(th[native[m].t].frames, Len(th[native[m].t].frames) - 1)
                                    /\ th[native[m].t].baseC = Depth(native, m)
  BY <1>2, <1>6 DEF Fits
<1> USE DEF m
<1> QED
  BY <1>1, <1>2, <1>3, <1>4, <1>5, <1>7

(* A coroutine leaves the C stack, and its resumer has the answer or an    *)
(* error.                                                                  *)
Left(n, co, by) ==
    /\ native[n].is = "resume" /\ co = native[n].t /\ by = native[n - 1].t
    /\ native' = Front(native) /\ raising' \in BOOLEAN
    /\ th' \in [Threads -> ThreadState] /\ \A x \in Threads : x # co /\ x # by => th'[x] = th[x]
    /\ th'[by].made = th[by].made /\ th'[by].status = th[by].status
    /\ th'[by].baseC = th[by].baseC /\ th'[by].nC = th[by].nC
    /\ IF raising' THEN th'[by].frames = th[by].frames
       ELSE /\ Len(th'[by].frames) = Len(th[by].frames) - 1
            /\ \A k \in 1 .. Len(th[by].frames) - 1 : th'[by].frames[k] = th[by].frames[k]
    /\ spilled' \subseteq ended' /\ ended' \subseteq Coroutines
    /\ \A x \in Coroutines : x # co => (x \in ended' <=> x \in ended) /\ (x \in spilled' <=> x \in spilled)
    /\ Resting(co)'

LEMMA LeftKeeps ==
    ASSUME CoInv, native # << >>, NEW n, n = Len(native), NEW co, NEW by, Left(n, co, by)
    PROVE  CoInv'
<1> DEFINE m == n - 1
           L == Len(th[by].frames)
<1>1. native[n].is = "resume" /\ co = native[n].t /\ by = native[m].t
  BY DEF Left
<1>2. /\ native \in Seq(Entry) /\ Shape(native) /\ n \in Nat /\ n \in 1 .. n /\ th \in [Threads -> ThreadState]
      /\ \A i \in 1 .. n : native[i] \in Entry /\ native[i].t \in Threads /\ native[i].t \in OnStack
      /\ Front(native) \in Seq(Entry) /\ Len(Front(native)) = m /\ \A i \in 1 .. m : Front(native)[i] = native[i]
      /\ \A x \in OnStack : x \in Threads /\ (x = Main \/ Busy(x))
  BY EntryOnTop DEF CoInv, CoTypes
<1>3. /\ n > 1 /\ co \in Coroutines /\ by \in Threads /\ \A i \in 1 .. m : native[i].t # co
      /\ native[m].is # "pcall" /\ native[m].frames < L /\ th[by].nC = Depth(native, m)
      /\ native[m].is = "resume" => NoC(th[by].frames, L - 1) /\ th[by].baseC = Depth(native, m)
  BY <1>1, ResumerIs
<1>4. m \in Nat /\ m >= 1 /\ m + 1 = n /\ m <= n /\ m \in 1 .. n /\ m \in 0 .. n /\ m \in 1 .. m
  BY <1>2, <1>3
<1>5. native' \in Seq(Entry) /\ Len(native') = m /\ \A i \in 1 .. m : native'[i] = native[i]
  BY <1>2 DEF Left
<1>6. by # co /\ co \in Threads
  BY <1>1, <1>3, <1>4 DEF Threads
<1>7. L \in Nat /\ native[m].frames \in Nat /\ native[m].back \in Nat /\ native[m].frames <= L - 1 /\ native[m].back <= L - 1
  <2>1. native[m].frames \in Nat /\ native[m].back \in Nat /\ native[m].back <= native[m].frames
    BY <1>2, <1>4, EntryIs DEF Shape
  <2>2. th[by].frames \in Seq(Kinds)
    BY <1>2, <1>3 DEF ThreadState
  <2>3. L \in Nat
    BY <2>2
  <2>4. native[m].frames < L
    BY <1>3
  <2> HIDE DEF L, m
  <2> QED
    BY <2>1, <2>3, <2>4
<1> HIDE DEF m
<1>8. Shape(native')
  BY <1>2, <1>4, <1>5, ShapePrefix
<1>9. CoTypes'
  BY <1>5 DEF CoTypes, CoInv, Left
<1>10. Depth(native', m) = Depth(native, m)
  BY <1>4, <1>5, DepthSame
<1>11. \A k \in Nat : k <= L - 1 /\ NoC(th[by].frames, k) => NoC(th'[by].frames, k)
  <2> SUFFICES ASSUME NEW k \in Nat, k <= L - 1, NoC(th[by].frames, k) PROVE NoC(th'[by].frames, k)
    OBVIOUS
  <2>1. \A j \in 1 .. k : j \in 1 .. L - 1
    BY <1>7
  <2>2. \A j \in 1 .. L - 1 : th'[by].frames[j] = th[by].frames[j]
    BY DEF Left
  <2> QED
    BY <2>1, <2>2 DEF NoC
<1>12. L - 1 \in Nat
  BY <1>7
<1>13. Fits(native', th', raising', m)
  <2>1. native[m].is = "resume" => NoC(th'[by].frames, L - 1) /\ th'[by].baseC = Depth(native, m)
    <3>1. \A k \in Nat : k = L - 1 => k <= L - 1
      BY <1>7
    <3>2. th'[by].baseC = th[by].baseC
      BY DEF Left
    <3>3. native[m].is = "resume" => NoC(th[by].frames, L - 1) /\ th[by].baseC = Depth(native, m)
      BY <1>3
    <3> HIDE DEF L
    <3>4. NoC(th[by].frames, L - 1) => NoC(th'[by].frames, L - 1)
      BY <1>11, <1>12, <3>1
    <3> QED
      BY <3>2, <3>3, <3>4
  <2>2. native'[m] = native[m] /\ native'[m].t = by /\ Len(native') = m
    BY <1>1, <1>4, <1>5 DEF m
  <2>3. native[m].frames <= Len(th'[by].frames)
    <3>1. Len(th'[by].frames) = IF raising' THEN L ELSE L - 1
      BY DEF Left
    <3>2. \A a, l \in Nat : a <= l - 1 => a <= l
      OBVIOUS
    <3> HIDE DEF L
    <3> QED
      BY <1>7, <3>1, <3>2
  <2>4. th'[by].nC = Depth(native, m)
    BY <1>3 DEF Left
  <2>5. ~raising' => Len(th'[by].frames) = L - 1
    BY DEF Left
  <2>6. native[m].is # "pcall"
    BY <1>3
  <2> HIDE DEF L
  <2> QED
    BY <1>10, <2>1, <2>2, <2>3, <2>4, <2>5, <2>6 DEF Fits
<1>14. \A i \in 1 .. Len(native') : Fits(native', th', raising', i)
  <2>1. \A k \in Nat : k <= native[m].back /\ NoC(th[native[m].t].frames, k) => NoC(th'[native[m].t].frames, k)
    <3>1. \A k \in Nat : k <= native[m].back => k <= L - 1
      BY <1>7, <1>12
    <3> QED
      BY <1>1, <1>11, <3>1 DEF m
  <2>2. \A i \in 1 .. m : native[i].t # native[m].t => th'[native[i].t] = th[native[i].t]
    <3>1. \A i \in 1 .. m : native[i].t \in Threads
      BY <1>2, <1>4
    <3>2. native[m].t = by
      BY <1>1 DEF m
    <3> QED
      BY <1>3, <3>1, <3>2 DEF Left, m
  <2>3. th'[native[m].t].baseC = th[native[m].t].baseC
    BY <1>1 DEF Left, m
  <2>4. m + 1 .. Len(native') = {} /\ m <= Len(native')
    BY <1>4, <1>5
  <2> QED
    BY <1>4, <1>5, <1>13, <2>1, <2>2, <2>3, <2>4, FitsAll
<1>15. \A x : x \in OnStack' <=> x \in OnStack /\ x # co
  <2>1. DOMAIN native = 1 .. n /\ DOMAIN native' = 1 .. m
    BY <1>2, <1>5
  <2>2. \A i \in 1 .. m : i \in 1 .. n /\ native'[i] = native[i] /\ native[i].t # co
    BY <1>3, <1>4, <1>5 DEF m
  <2>3. \A i \in 1 .. n : i \in 1 .. m \/ i = n
    BY <1>4
  <2> QED
    BY <1>1, <2>1, <2>2, <2>3 DEF OnStack
<1>16. \A x \in Coroutines : IF x \in OnStack' THEN Busy(x)' ELSE Resting(x)'
  <2> TAKE x \in Coroutines
  <2>1. CASE x = co
    BY <1>15, <2>1 DEF Left
  <2>2. CASE x # co /\ x \in OnStack
    <3>1. Busy(x) /\ x \in Threads
      BY <1>2, <2>2, CoroutineAssumption DEF CoroutineAssumption
    <3>2. th'[x].made = th[x].made /\ th'[x].status = th[x].status
      BY <2>2, <3>1 DEF Left
    <3>3. x \notin ended'
      BY <2>2, <3>1 DEF Left, Busy
    <3> QED
      BY <1>15, <2>2, <3>1, <3>2, <3>3 DEF Busy
  <2>3. CASE x # co /\ x \notin OnStack
    <3>1. Resting(x) /\ x \in Threads
      BY <2>3 DEF CoInv, Threads
    <3>2. x # by
      BY <1>1, <1>2, <1>4, <2>3 DEF m
    <3>3. th'[x] = th[x]
      BY <2>3, <3>1, <3>2 DEF Left
    <3>4. (x \in ended' <=> x \in ended) /\ (x \in spilled' <=> x \in spilled)
      BY <2>3 DEF Left
    <3> QED
      BY <1>15, <2>3, <3>1, <3>3, <3>4, RestingSame
  <2> QED
    BY <2>1, <2>2, <2>3
<1>17. Depth(native', Len(native')) < MaxCCalls + Extra
  <2>1. Depth(native, m) <= Depth(native, n) /\ Depth(native, m) \in Nat /\ Depth(native, n) \in Nat
    BY <1>2, <1>4, DepthGrows, DepthIs
  <2>2. Depth(native, n) < MaxCCalls + Extra
    BY DEF CoInv
  <2> QED
    BY <1>5, <1>10, <2>1, <2>2, CoroutineAssumption DEF CoroutineAssumption
<1>18. native' # << >> /\ Last(native').is # "pcall"
  BY <1>3, <1>4, <1>5 DEF Last, m
<1> QED
  BY <1>8, <1>9, <1>14, <1>16, <1>17, <1>18 DEF CoInv

(* A coroutine leaves, and the resumer's call returns or fails: g are the  *)
(* states of the threads but for this.                                     *)
Leaves(n, co, by, g) ==
    /\ native[n].is = "resume" /\ co = native[n].t /\ by = Last(Front(native)).t
    /\ g \in [Threads -> ThreadState] /\ \A x \in Threads : x # co => g[x] = th[x]
    /\ raising' \in BOOLEAN /\ (raising' => th' = g) /\ (~raising' => th' = CutTo(g, by, Len(th[by].frames) - 1))
    /\ native' = Front(native) /\ spilled' \subseteq ended' /\ ended' \subseteq Coroutines
    /\ \A x \in Coroutines : x # co => (x \in ended' <=> x \in ended) /\ (x \in spilled' <=> x \in spilled)
    /\ th'[co] = g[co] => Resting(co)'

LEMMA LeavesIs ==
    ASSUME CoInv, native # << >>, NEW n, n = Len(native), NEW co, NEW by, NEW g, Leaves(n, co, by, g)
    PROVE  CoInv'
<1> USE DEF Leaves
<1> DEFINE L == Len(th[by].frames)
<1>1. /\ n \in Nat /\ n > 1 /\ co \in Coroutines /\ native[n - 1].t \in Threads
      /\ \A i \in 1 .. n - 1 : native[i].t # co
      /\ native[n - 1].frames < Len(th[native[n - 1].t].frames) /\ native[n - 1] \in Entry
      /\ Front(native) \in Seq(Entry) /\ Len(Front(native)) = n - 1 /\ \A i \in 1 .. n - 1 : Front(native)[i] = native[i]
  BY ResumerIs, EntryOnTop
<1>2. by = native[n - 1].t /\ by # co /\ co \in Threads /\ by \in Threads
  <2>1. n - 1 \in 1 .. n - 1
    BY <1>1
  <2>2. Last(Front(native)) = native[n - 1]
    BY <1>1, <2>1 DEF Last
  <2> QED
    BY <1>1, <2>1, <2>2 DEF Threads
<1>3. L \in Nat /\ L - 1 \in Nat /\ L - 1 <= L
  <2>1. th[by] \in ThreadState
    BY <1>2 DEF CoInv, CoTypes
  <2>2. th[by].frames \in Seq(Kinds)
    BY <2>1 DEF ThreadState
  <2>3. L \in Nat
    BY <2>2
  <2>4. native[n - 1].frames \in Nat
    BY <1>1, EntryIs
  <2>5. native[n - 1].frames < L
    BY <1>1, <1>2
  <2> HIDE DEF L
  <2> QED
    BY <2>3, <2>4, <2>5
<1>4. g[by] = th[by]
  BY <1>2
<1>5. /\ th' \in [Threads -> ThreadState] /\ \A x \in Threads : x # by => th'[x] = g[x]
      /\ th'[by].made = th[by].made /\ th'[by].status = th[by].status
      /\ th'[by].baseC = th[by].baseC /\ th'[by].nC = th[by].nC
      /\ IF raising' THEN th'[by].frames = th[by].frames
         ELSE /\ Len(th'[by].frames) = L - 1
              /\ \A k \in 1 .. L - 1 : th'[by].frames[k] = th[by].frames[k]
  <2>1. CASE ~raising'
    <3>1. th' = CutTo(g, by, L - 1) /\ ~raising' /\ L - 1 <= Len(g[by].frames)
      BY <1>3, <1>4, <2>1
    <3> DEFINE c == L - 1
    <3>2. c \in Nat
      BY <1>3
    <3> HIDE DEF L, c
    <3>3. Cut(g, th', by, c)
      BY <1>2, <3>1, <3>2, CutIs DEF c
    <3> QED
      BY <1>4, <3>1, <3>3 DEF Cut, OnlyFrames, c
  <2>2. CASE raising'
    BY <1>4, <2>2
  <2> QED
    BY <2>1, <2>2
<1>6. th'[co] = g[co] /\ \A x \in Threads : x # co /\ x # by => th'[x] = th[x]
  BY <1>2, <1>5
<1>7. Left(n, co, by)
  BY <1>2, <1>5, <1>6 DEF Left
<1> QED
  BY <1>7, LeftKeeps

(* The coroutine on top is busy.                                           *)
LEMMA TopIsBusy ==
    ASSUME CoInv, native # << >>, NEW n, n = Len(native), native[n].is = "resume"
    PROVE  /\ Current = native[n].t /\ Current \in Coroutines /\ Current \in Threads /\ Busy(Current)
           /\ th \in [Threads -> ThreadState] /\ Last(native) = native[n] /\ th[Current] \in ThreadState
           /\ spilled \subseteq ended /\ ended \subseteq Coroutines
<1>1. Current = native[n].t /\ Current \in Threads /\ Current \in OnStack /\ Last(native) = native[n]
  BY EntryOnTop
<1>2. Current \in Coroutines
  BY <1>1, ResumerIs
<1>3. Busy(Current)
  BY <1>1, <1>2 DEF CoInv
<1> QED
  BY <1>1, <1>2, <1>3 DEF CoInv, CoTypes

(* An error leaves a coroutine.                                            *)
LEMMA CoFailsKeeps == ASSUME CoInv, CoFails PROVE CoInv'
<1>30. PICK n, co, by, wrap : n = Len(native) /\ co = native[n].t /\ by = Last(Front(native)).t /\ wrap = native[n].wrap
  OBVIOUS
<1> DEFINE d == [th EXCEPT ![co].status = "error", ![co].nC = @ - 1]
           v == th[co].nC - 1
           f == WithStatus(th, co, "error")
           g == WithNC(f, co, v)
<1>1. native # << >> /\ raising
  BY DEF CoFails, CoInv
<1>2. /\ native[n].is = "resume" /\ native' = Front(native) /\ raising' = wrap
      /\ ended' = ended \cup {co} /\ spilled' = spilled \ {co}
      /\ th' = IF wrap THEN d ELSE CutTo(d, by, Len(th[by].frames) - 1)
  <2>1. Last(native) = native[n]
    BY <1>30 DEF Last
  <2>2. Last(native).t = co /\ Last(native).wrap = wrap /\ Last(Front(native)).t = by
    BY <1>30, <2>1
  <2> DEFINE h == Last(native)
             e == [th EXCEPT ![h.t].status = "error", ![h.t].nC = @ - 1]
             y == Last(Front(native)).t
  <2>3. /\ h.is = "resume" /\ native' = Front(native) /\ raising' = h.wrap
        /\ ended' = ended \cup {h.t} /\ spilled' = spilled \ {h.t}
        /\ th' = IF h.wrap THEN e ELSE CutTo(e, y, Len(th[y].frames) - 1)
    BY Zenon DEF CoFails
  <2>4. e = d
    BY <2>2
  <2>5. h.t = co /\ h.wrap = wrap /\ y = by /\ h = native[n]
    BY <2>1, <2>2
  <2> HIDE DEF h, e, y, d
  <2> QED
    BY <2>3, <2>4, <2>5
<1>3. /\ Current = co /\ co \in Coroutines /\ co \in Threads /\ Busy(co)
      /\ th \in [Threads -> ThreadState] /\ th[co] \in ThreadState /\ spilled \subseteq ended /\ ended \subseteq Coroutines
  BY <1>1, <1>2, <1>30, TopIsBusy
<1>4. v \in Int
  BY <1>3 DEF ThreadState
<1>5. wrap \in BOOLEAN
  <2>1. native[n] \in Entry
    BY <1>1, <1>30, EntryOnTop
  <2> QED
    BY <1>2, <1>30, <2>1 DEF Entry
<1>6. d = g
  BY <1>3 DEF WithStatus, WithNC
<1>7. /\ raising' \in BOOLEAN /\ (raising' => th' = g)
      /\ ~raising' => th' = CutTo(g, by, Len(th[by].frames) - 1)
  <2> HIDE DEF g, d
  <2> QED
    BY <1>2, <1>5, <1>6
<1>8. Differs(th, f, co, "status") /\ f[co].status = "error"
  <2>1. "error" \in {"ok", "yield", "error"}
    OBVIOUS
  <2> DEFINE e == "error"
  <2> HIDE DEF e
  <2>2. \A h : h = WithStatus(th, co, e) => Differs(th, h, co, "status") /\ h[co].status = e
    BY <1>3, <2>1, SetStatus DEF e
  <2>3. Differs(th, f, co, "status") /\ f[co].status = e
    BY <2>2 DEF e
  <2> QED
    BY <2>3 DEF e
<1> HIDE DEF f, v
<1>9. f \in [Threads -> ThreadState]
  BY <1>8 DEF Differs
<1>10. Differs(f, g, co, "nC") /\ g[co].nC = v
  BY <1>3, <1>4, <1>9, SetNC
<1> HIDE DEF g
<1>11. /\ g \in [Threads -> ThreadState] /\ \A x \in Threads : x # co => g[x] = th[x]
       /\ g[co].status = "error" /\ g[co].made
  BY <1>3, <1>8, <1>10 DEF Differs, Same, Busy
<1>12. th'[co] = g[co] => Resting(co)'
  BY <1>2, <1>11 DEF Resting
<1>13. /\ spilled' \subseteq ended' /\ ended' \subseteq Coroutines
       /\ \A x \in Coroutines : x # co => (x \in ended' <=> x \in ended) /\ (x \in spilled' <=> x \in spilled)
  BY <1>2, <1>3
<1>14. native[n].is = "resume" /\ native' = Front(native)
  BY <1>2
<1> HIDE DEF d
<1>15. Leaves(n, co, by, g)
  BY <1>7, <1>11, <1>12, <1>13, <1>14, <1>30 DEF Leaves
<1> QED
  BY <1>1, <1>15, <1>30, LeavesIs

(* What lua_resume does for the coroutine that returned or yielded, whose  *)
(* state f has before the answer.                                          *)
Answered(n, co, f, fits, k) ==
    /\ native[n].is = "resume" /\ co = native[n].t /\ Answers(f, co, fits, k)
    /\ f \in [Threads -> ThreadState] /\ \A x \in Threads : x # co => f[x] = th[x]
    /\ spilled' \subseteq ended' /\ ended' \subseteq Coroutines
    /\ \A x \in Coroutines : x # co => (x \in ended' <=> x \in ended) /\ (x \in spilled' <=> x \in spilled)
    /\ /\ th'[co].made = f[co].made /\ th'[co].status = f[co].status
       /\ th'[co].frames = f[co].frames /\ th'[co].vals = IF fits THEN 0 ELSE k
       => Resting(co)'

LEMMA AnswersIs ==
    ASSUME CoInv, native # << >>, NEW n, n = Len(native), NEW co, NEW f, NEW fits \in BOOLEAN, NEW k \in 0 .. 1,
           Answered(n, co, f, fits, k)
    PROVE  CoInv'
<1> USE DEF Answered
<1>30. PICK by : by = Last(Front(native)).t
  OBVIOUS
<1> DEFINE d == [f EXCEPT ![co].nC = @ - 1, ![co].vals = IF fits THEN 0 ELSE k]
           v == f[co].nC - 1
           w == IF fits THEN 0 ELSE k
           h == WithNC(f, co, v)
           g == WithVals(h, co, w)
<1>1. Current = co /\ co \in Coroutines /\ co \in Threads /\ f[co] \in ThreadState
  BY TopIsBusy
<1>2. v \in Int /\ w \in Int
  BY <1>1 DEF ThreadState
<1>3. native' = Front(native) /\ raising' = ~fits /\ th' = IF fits THEN CutTo(d, by, Len(th[by].frames) - 1) ELSE d
  <2> DEFINE y == Last(Front(native)).t
  <2>1. native' = Front(native) /\ raising' = ~fits /\ th' = IF fits THEN CutTo(d, y, Len(th[y].frames) - 1) ELSE d
    BY Zenon DEF Answers
  <2>2. y = by
    BY <1>30
  <2> HIDE DEF d, y
  <2> QED
    BY <2>1, <2>2
<1>4. d = g
  BY <1>1 DEF WithVals, WithNC
<1>5. /\ raising' \in BOOLEAN /\ (raising' => th' = g)
      /\ ~raising' => th' = CutTo(g, by, Len(th[by].frames) - 1)
  <2> HIDE DEF g, d
  <2> QED
    BY <1>3, <1>4
<1>6. w = IF fits THEN 0 ELSE k
  OBVIOUS
<1> HIDE DEF v, w, d
<1>7. Differs(f, h, co, "nC") /\ h[co].nC = v
  BY <1>1, <1>2, SetNC
<1> HIDE DEF h
<1>8. h \in [Threads -> ThreadState]
  BY <1>7 DEF Differs
<1>9. Differs(h, g, co, "vals") /\ g[co].vals = w
  BY <1>1, <1>2, <1>8, SetVals
<1> HIDE DEF g
<1>10. /\ g \in [Threads -> ThreadState] /\ \A x \in Threads : x # co => g[x] = th[x]
       /\ g[co].made = f[co].made /\ g[co].status = f[co].status /\ g[co].frames = f[co].frames
       /\ g[co].vals = IF fits THEN 0 ELSE k
  BY <1>1, <1>6, <1>7, <1>9 DEF Differs, Same
<1>11. th'[co] = g[co] => Resting(co)'
  BY <1>1, <1>10
<1>12. Leaves(n, co, by, g)
  BY <1>3, <1>5, <1>10, <1>11, <1>30 DEF Leaves
<1> QED
  BY <1>12, LeavesIs

(* A coroutine that returns; what does not fit stays with it.              *)
LEMMA CoReturnsKeeps == ASSUME CoInv, CoReturns PROVE CoInv'
<1>1. /\ Runs /\ native # << >> /\ Last(native).is = "resume" /\ ended' = ended \cup {Current}
  BY DEF CoReturns, Runs
<1>2. PICK n, co : n = Len(native) /\ co = native[n].t
  OBVIOUS
<1>3. /\ native[n].is = "resume" /\ Current = co /\ co \in Coroutines /\ co \in Threads /\ Busy(co)
      /\ th \in [Threads -> ThreadState] /\ th[co] \in ThreadState /\ spilled \subseteq ended /\ ended \subseteq Coroutines
  <2>1. native[n].is = "resume"
    BY <1>1, <1>2 DEF Last
  <2> QED
    BY <1>1, <1>2, <2>1, TopIsBusy
<1>4. PICK k \in 0 .. 1, fits \in BOOLEAN :
          /\ Answers(CutTo(th, Current, 0), Current, fits, k)
          /\ spilled' = IF fits \/ k = 0 THEN spilled \ {Current} ELSE spilled \cup {Current}
  BY DEF CoReturns
<1> DEFINE f == CutTo(th, co, 0)
<1>5. Answers(f, co, fits, k)
  BY <1>3, <1>4
<1>6. spilled' = (IF fits \/ k = 0 THEN spilled \ {co} ELSE spilled \cup {co}) /\ ended' = ended \cup {co}
  BY <1>1, <1>3, <1>4
<1>7. Cut(th, f, co, 0)
  <2> DEFINE z == 0
  <2>1. z \in Nat /\ z <= Len(th[co].frames)
    <3>1. th[co].frames \in Seq(Kinds)
      BY <1>3 DEF ThreadState
    <3> QED
      BY <3>1
  <2>2. f = CutTo(th, co, z)
    OBVIOUS
  <2> HIDE DEF z, f
  <2>3. Cut(th, f, co, z)
    BY <1>3, <2>1, <2>2, CutIs
  <2> QED
    BY <2>3 DEF z
<1> HIDE DEF f
<1>8. /\ f \in [Threads -> ThreadState] /\ \A x \in Threads : x # co => f[x] = th[x]
      /\ f[co].made /\ f[co].status = "ok" /\ f[co].frames = << >>
  <2>1. OnlyFrames(th, f, co) /\ Len(f[co].frames) = 0
    BY <1>7 DEF Cut
  <2>2. f \in [Threads -> ThreadState] /\ \A x \in Threads : x # co => f[x] = th[x]
    BY <2>1 DEF OnlyFrames
  <2>3. f[co].made /\ f[co].status = "ok"
    BY <1>3, <2>1 DEF OnlyFrames, Busy
  <2>4. f[co].frames \in Seq(Kinds)
    BY <1>3, <2>2 DEF ThreadState
  <2> QED
    BY <2>1, <2>2, <2>3, <2>4
<1>9. /\ spilled' \subseteq ended' /\ ended' \subseteq Coroutines
      /\ \A x \in Coroutines : x # co => (x \in ended' <=> x \in ended) /\ (x \in spilled' <=> x \in spilled)
  BY <1>3, <1>6
<1>10. ASSUME th'[co].made = f[co].made, th'[co].status = f[co].status,
              th'[co].frames = f[co].frames, th'[co].vals = IF fits THEN 0 ELSE k
       PROVE  Resting(co)'
  <2>1. th'[co].made /\ th'[co].status = "ok" /\ th'[co].frames = << >> /\ co \in ended'
    BY <1>6, <1>8, <1>10
  <2>2. CASE fits \/ k = 0
    <3>1. th'[co].vals = 0 /\ co \notin spilled'
      BY <1>6, <1>10, <2>2
    <3> QED
      BY <2>1, <3>1 DEF Resting
  <2>3. CASE ~(fits \/ k = 0)
    <3>1. th'[co].vals # 0 /\ co \in spilled'
      BY <1>6, <1>10, <2>3
    <3> QED
      BY <2>1, <3>1 DEF Resting
  <2> QED
    BY <2>2, <2>3
<1>11. Answered(n, co, f, fits, k)
  BY <1>2, <1>3, <1>5, <1>8, <1>9, <1>10 DEF Answered
<1> QED
  BY <1>1, <1>2, <1>11, AnswersIs

(* A coroutine may yield only where its resume is on top of the C stack.   *)
LEMMA YieldsOnTop ==
    ASSUME CoInv, Runs, MayYield, NEW n, n = Len(native)
    PROVE  native[n].is = "resume"
<1>1. /\ native # << >> /\ native \in Seq(Entry) /\ Shape(native)
      /\ n \in Nat /\ n >= 1 /\ n \in 1 .. n /\ Current = native[n].t /\ Cur = th[Current]
      /\ Cur.nC = Depth(native, n) /\ native[n].is # "pcall" /\ native[n] \in Entry
  BY EntryOnTop DEF Runs, CoInv, CoTypes
<1> DEFINE S == {i \in 1 .. n : native[i].t = Current}
<1>2. S \subseteq Nat /\ n \in S
  BY <1>1
<1>3. PICK j \in S : \A i \in S : j <= i
  <2> HIDE DEF S
  <2> QED
    BY <1>2, Least
<1>4. native[1].t = Main /\ Current # Main
  BY <1>1 DEF MayYield, Shape
<1>5. j \in 1 .. n /\ native[j].t = Current /\ j > 1
  BY <1>1, <1>3, <1>4
<1>6. native[j].is = "resume"
  <2> SUFFICES ASSUME native[j].is # "resume" PROVE FALSE
    OBVIOUS
  <2>1. native[j - 1].t = Current
    BY <1>1, <1>5 DEF Shape
  <2>2. j - 1 \in S /\ ~(j <= j - 1)
    BY <1>5, <2>1
  <2> QED
    BY <1>3, <2>2
<1>7. Cur.baseC = Depth(native, j)
  BY <1>1, <1>5, <1>6 DEF CoInv, Fits
<1>8. Depth(native, j) = Depth(native, n)
  BY <1>1, <1>7 DEF MayYield
<1>9. CASE j = n
  BY <1>6, <1>9
<1>10. CASE j < n
  <2> DEFINE m == n - 1
  <2>1. m \in Nat /\ m + 1 = n /\ j \in Nat /\ j <= m
    BY <1>1, <1>5, <1>10
  <2> HIDE DEF m
  <2>2. Depth(native, m + 1) = Depth(native, m) + (IF native[m + 1].is = "pcall" THEN 0 ELSE 1)
        /\ Depth(native, m) \in Nat /\ Depth(native, j) \in Nat
    BY <2>1, DepthIs
  <2>3. Depth(native, j) <= Depth(native, m)
    BY <2>1, DepthGrows
  <2>4. Depth(native, n) = Depth(native, m) + 1
    BY <1>1, <2>1, <2>2
  <2>5. \A a, b, c \in Nat : a <= b => a # b + 1
    OBVIOUS
  <2> QED
    BY <1>8, <2>2, <2>3, <2>4, <2>5
<1> QED
  BY <1>1, <1>5, <1>9, <1>10

LEMMA YieldKeeps == ASSUME CoInv, Yield PROVE CoInv'
<1>1. Runs /\ native # << >> /\ MayYield /\ ended' = ended /\ spilled' = spilled
  BY DEF Yield, MayCall, Runs
<1>2. PICK n, co : n = Len(native) /\ co = native[n].t
  OBVIOUS
<1>3. /\ native[n].is = "resume" /\ Current = co /\ co \in Coroutines /\ co \in Threads /\ Busy(co)
      /\ th \in [Threads -> ThreadState] /\ th[co] \in ThreadState /\ spilled \subseteq ended /\ ended \subseteq Coroutines
  BY <1>1, <1>2, YieldsOnTop, TopIsBusy
<1>4. PICK k \in 0 .. 1, fits \in BOOLEAN :
          Answers([Grow(Current, <<"C">>) EXCEPT ![Current].status = "yield"], Current, fits, k)
  BY DEF Yield
<1> DEFINE g == Grow(co, <<"C">>)
           f == WithStatus(g, co, "yield")
           N == Len(th[co].frames)
<1>5. Answers(f, co, fits, k)
  <2>1. f = [Grow(co, <<"C">>) EXCEPT ![co].status = "yield"]
    BY Zenon DEF WithStatus
  <2>2. Answers([Grow(co, <<"C">>) EXCEPT ![co].status = "yield"], co, fits, k)
    BY <1>3, <1>4, Zenon
  <2> HIDE DEF f
  <2> QED
    BY <2>1, <2>2, Zenon
<1>6. NoC(th[co].frames, N) /\ N \in Nat
  <2>1. n \in 1 .. Len(native)
    BY <1>1, <1>2, EntryOnTop
  <2>2. Fits(native, th, raising, n)
    BY <2>1 DEF CoInv
  <2>3. th[co].frames \in Seq(Kinds)
    BY <1>3 DEF ThreadState
  <2>4. NoC(th[co].frames, N)
    BY <1>1, <1>2, <1>3, <2>2 DEF Fits, Runs
  <2> QED
    BY <2>3, <2>4
<1>7. /\ OnlyFrames(th, g, co) /\ Len(g[co].frames) = N + 1 /\ g[co].frames[N + 1] = "C"
      /\ \A i \in 1 .. N : g[co].frames[i] = th[co].frames[i]
  <2>1. "C" \in Kinds
    BY DEF Kinds
  <2> QED
    BY <1>3, <2>1, GrowOne
<1> HIDE DEF g
<1>8. Differs(g, f, co, "status") /\ f[co].status = "yield"
  <2> DEFINE e == "yield"
  <2>1. e \in {"ok", "yield", "error"} /\ g \in [Threads -> ThreadState]
    BY <1>7 DEF OnlyFrames
  <2>2. f = WithStatus(g, co, e)
    OBVIOUS
  <2> HIDE DEF e, f
  <2>3. Differs(g, f, co, "status") /\ f[co].status = e
    BY <1>3, <2>1, <2>2, SetStatus
  <2> QED
    BY <2>3 DEF e
<1> HIDE DEF f
<1>9. /\ f \in [Threads -> ThreadState] /\ \A x \in Threads : x # co => f[x] = th[x]
      /\ f[co].made /\ f[co].frames = g[co].frames
  BY <1>3, <1>7, <1>8 DEF Differs, Same, OnlyFrames, Busy
<1>10. /\ f[co].frames # << >> /\ Len(f[co].frames) = N + 1
       /\ \A i \in 1 .. N + 1 : f[co].frames[i] = "C" <=> i = N + 1
  <2>1. \A i \in 1 .. N + 1 : (i \in 1 .. N /\ i # N + 1) \/ i = N + 1
    BY <1>6
  <2>2. N + 1 # 0
    BY <1>6
  <2> HIDE DEF N
  <2> QED
    BY <1>6, <1>7, <1>9, <2>1, <2>2 DEF NoC
<1>11. ASSUME th'[co].made = f[co].made, th'[co].status = f[co].status, th'[co].frames = f[co].frames
       PROVE  Resting(co)'
  <2>1. th'[co].made /\ th'[co].status = "yield" /\ co \notin ended'
    BY <1>1, <1>3, <1>8, <1>9, <1>11 DEF Busy
  <2>2. th'[co].frames # << >> /\ \A i \in 1 .. Len(th'[co].frames) : th'[co].frames[i] = "C" <=> i = Len(th'[co].frames)
    BY <1>10, <1>11
  <2> QED
    BY <2>1, <2>2 DEF Resting
<1>12. /\ spilled' \subseteq ended' /\ ended' \subseteq Coroutines
       /\ \A x \in Coroutines : x # co => (x \in ended' <=> x \in ended) /\ (x \in spilled' <=> x \in spilled)
  BY <1>1, <1>3
<1>13. Answered(n, co, f, fits, k)
  BY <1>2, <1>3, <1>5, <1>9, <1>11, <1>12 DEF Answered
<1> QED
  BY <1>1, <1>2, <1>13, AnswersIs

(* The host's call of a chunk.                                             *)
LEMMA CoInitInv == CoInit => CoInv
<1> SUFFICES ASSUME CoInit PROVE CoInv
  OBVIOUS
<1> DEFINE a == Protects(Main, 0, 0)
           b == CallOf(Main, 0, 0)
           fs == <<"Lua">>
           x == [NewThread EXCEPT !.made = TRUE, !.frames = fs, !.nC = 1]
<1>1. /\ a \in Entry /\ a.is = "pcall" /\ a.t = Main /\ a.frames = 0 /\ a.back = 0 /\ a.nC = 0
      /\ b \in Entry /\ b.is = "call" /\ b.t = Main /\ b.frames = 0 /\ b.back = 0
  BY DEF Entry, Protects, CallOf, Threads
<1>2. native = <<a, b>> /\ raising = FALSE /\ ended = {} /\ spilled = {}
  BY DEF CoInit
<1>3. fs \in Seq(Kinds) /\ Len(fs) = 1
  BY DEF Kinds
<1>20. th = [t \in Threads |-> IF t = Main THEN x ELSE NewThread]
  BY DEF CoInit
<1> HIDE DEF a, b, fs
<1>4. /\ native \in Seq(Entry) /\ Len(native) = 2 /\ native[1] = a /\ native[2] = b /\ native # << >>
      /\ Last(native) = b
  BY <1>1, <1>2 DEF Last
<1>5. << >> \in Seq(Kinds)
  OBVIOUS
<1>6. NewThread \in ThreadState
  BY <1>5 DEF NewThread, ThreadState
<1>7. x \in ThreadState /\ x.nC = 1 /\ x.frames = fs
  <2> DEFINE u == NewThread
             x1 == [u EXCEPT !.made = TRUE]
             x2 == [x1 EXCEPT !.frames = fs]
             x3 == [x2 EXCEPT !.nC = 1]
  <2>1. x = x3
    OBVIOUS
  <2>2. u \in ThreadState /\ TRUE \in BOOLEAN /\ 1 \in Int
    BY <1>6
  <2> HIDE DEF u
  <2>3. Same(u, x1, "made")
    <3>1. \A v \in BOOLEAN : Same(u, [u EXCEPT !.made = v], "made")
      BY <2>2, FieldIs
    <3> QED
      BY <2>2, <3>1, Zenon
  <2> HIDE DEF x1
  <2>4. x1 \in ThreadState
    BY <2>3 DEF Same
  <2>5. Same(x1, x2, "frames") /\ x2.frames = fs
    BY <1>3, <2>4, FieldIs
  <2> HIDE DEF x2
  <2>6. x2 \in ThreadState
    BY <2>5 DEF Same
  <2>7. Same(x2, x3, "nC") /\ x3.nC = 1
    <3>1. \A v \in Int : Same(x2, [x2 EXCEPT !.nC = v], "nC") /\ [x2 EXCEPT !.nC = v].nC = v
      BY <2>6, FieldIs
    <3> QED
      BY <2>2, <3>1, Zenon
  <2> HIDE DEF x3, x
  <2> QED
    BY <2>1, <2>5, <2>7 DEF Same
<1> HIDE DEF x
<1>8. /\ th \in [Threads -> ThreadState] /\ th[Main] = x
      /\ \A co \in Coroutines : th[co] = NewThread
  BY <1>6, <1>7, <1>20, CoroutineAssumption DEF CoroutineAssumption, Threads
<1>9. CoTypes
  BY <1>2, <1>4, <1>8 DEF CoTypes
<1>10. Shape(native)
  <2>1. \A i \in 1 .. 2 : i = 1 \/ i = 2
    OBVIOUS
  <2> QED
    BY <1>1, <1>4, <2>1 DEF Shape
<1>11. Depth(native, 1) = 0 /\ Depth(native, 2) = 1
  <2>1. Depth(native, 0) = 0
    BY DepthIs
  <2>2. Depth(native, 0 + 1) = Depth(native, 0) + (IF native[0 + 1].is = "pcall" THEN 0 ELSE 1)
    <3> DEFINE z == 0
    <3>1. z \in Nat
      OBVIOUS
    <3> HIDE DEF z
    <3>2. Depth(native, z + 1) = Depth(native, z) + (IF native[z + 1].is = "pcall" THEN 0 ELSE 1)
      BY <3>1, DepthIs
    <3> QED
      BY <3>2 DEF z
  <2>3. Depth(native, 1 + 1) = Depth(native, 1) + (IF native[1 + 1].is = "pcall" THEN 0 ELSE 1)
    <3> DEFINE z == 1
    <3>1. z \in Nat
      OBVIOUS
    <3> HIDE DEF z
    <3>2. Depth(native, z + 1) = Depth(native, z) + (IF native[z + 1].is = "pcall" THEN 0 ELSE 1)
      BY <3>1, DepthIs
    <3> QED
      BY <3>2 DEF z
  <2>4. 0 + 1 = 1 /\ 1 + 1 = 2
    OBVIOUS
  <2>5. Depth(native, 1) = 0
    BY <1>1, <1>4, <2>1, <2>2, <2>4
  <2> QED
    BY <1>1, <1>4, <2>3, <2>4, <2>5
<1>12. \A i \in 1 .. Len(native) : Fits(native, th, raising, i)
  <2>1. \A i \in 1 .. 2 : i = 1 \/ i = 2
    OBVIOUS
  <2>2. Fits(native, th, raising, 1)
    <3>1. 1 + 1 = 2 /\ 1 # 2
      OBVIOUS
    <3> QED
      BY <1>1, <1>4, <1>11, <3>1 DEF Fits
  <2>3. Fits(native, th, raising, 2)
    BY <1>1, <1>3, <1>4, <1>7, <1>8, <1>11 DEF Fits
  <2> QED
    BY <1>4, <2>1, <2>2, <2>3
<1>13. Depth(native, Len(native)) < MaxCCalls + Extra
  BY <1>4, <1>11, CoroutineAssumption DEF CoroutineAssumption
<1>14. \A co \in Coroutines : co \notin OnStack /\ Resting(co)
  <2>1. \A t \in OnStack : t = Main
    <3>1. \A i \in DOMAIN native : i = 1 \/ i = 2
      BY <1>4
    <3> QED
      BY <1>1, <1>4, <3>1 DEF OnStack
  <2>2. \A co \in Coroutines : Resting(co)
    BY <1>2, <1>8 DEF Resting, NewThread
  <2> QED
    BY <2>1, <2>2, CoroutineAssumption DEF CoroutineAssumption
<1>15. Last(native).is # "pcall"
  BY <1>1, <1>4
<1> QED
  BY <1>2, <1>9, <1>10, <1>12, <1>13, <1>14, <1>15 DEF CoInv

LEMMA CoStutter == ASSUME CoInv, UNCHANGED coVars PROVE CoInv'
<1>1. th' = th /\ native' = native /\ raising' = raising /\ ended' = ended /\ spilled' = spilled
  BY DEF coVars
<1> QED
  BY <1>1 DEF CoInv, CoTypes, Runs, OnStack, Busy, Resting

LEMMA CoNextInv == ASSUME CoInv, [CoNext]_coVars PROVE CoInv'
<1>1. CASE CallLua
  BY <1>1, CallLuaKeeps
<1>2. CASE CallBack
  BY <1>2, CallBackKeeps
<1>3. CASE PCall
  BY <1>3, PCallKeeps
<1>4. CASE ReturnLua
  BY <1>4, ReturnLuaKeeps
<1>5. CASE ReturnC
  BY <1>5, ReturnCKeeps
<1>6. CASE Raise
  BY <1>6, RaiseKeeps DEF Raise
<1>7. CASE Unwind
  BY <1>7, UnwindKeeps
<1>8. CASE CatchPCall
  BY <1>8, CatchPCallKeeps
<1>9. CASE Yield
  BY <1>9, YieldKeeps
<1>10. CASE YieldRefused
  BY <1>10, RaiseKeeps DEF YieldRefused
<1>11. CASE CoReturns
  BY <1>11, CoReturnsKeeps
<1>12. CASE CoFails
  BY <1>12, CoFailsKeeps
<1>13. ASSUME NEW co \in Coroutines, Create(co) PROVE CoInv'
  BY <1>13, CreateKeeps
<1>14. ASSUME NEW co \in Coroutines, NEW wrap \in BOOLEAN, ResumeRefused(co, wrap) PROVE CoInv'
  BY <1>14, RaiseKeeps DEF ResumeRefused
<1>15. ASSUME NEW co \in Coroutines, NEW wrap \in BOOLEAN, ResumeOverflows(co, wrap) PROVE CoInv'
  BY <1>15, ResumeOverflowsKeeps
<1>16. ASSUME NEW co \in Coroutines, NEW wrap \in BOOLEAN, CoResume(co, wrap) PROVE CoInv'
  BY <1>16, CoResumeKeeps
<1>17. CASE UNCHANGED coVars
  BY <1>17, CoStutter
<1> QED
  BY <1>1, <1>2, <1>3, <1>4, <1>5, <1>6, <1>7, <1>8, <1>9, <1>10, <1>11, <1>12, <1>13, <1>14, <1>15, <1>16, <1>17
  DEF CoNext

(* What is true of the C stack and of the threads, in every state.         *)
THEOREM CoroutineInvariant == CoSpec => []CoInv
<1> QED
  BY CoInitInv, CoNextInv, PTL DEF CoSpec

(* A coroutine's status is what the coroutine is doing.                    *)
LEMMA InvStatus == CoInv => StatusIsTrue
<1> SUFFICES ASSUME CoInv, Runs, NEW co \in Coroutines, th[co].made
             PROVE  /\ CoStatus(Current, co) = IF co = Current THEN "running" ELSE IF co \in OnStack THEN "normal"
                                               ELSE IF co \in ended \ spilled THEN "dead" ELSE "suspended"
                    /\ co \in OnStack => co \notin ended
                    /\ th[co].status = "yield" => \A i \in DOMAIN th[co].frames :
                                                      th[co].frames[i] = "C" <=> i = Len(th[co].frames)
  BY DEF StatusIsTrue
<1>1. native # << >> /\ th[co] \in ThreadState /\ Current \in OnStack
  BY EntryOnTop DEF Runs, CoInv, CoTypes, Threads
<1>2. CASE co \in OnStack
  <2>1. Busy(co)
    BY <1>2 DEF CoInv
  <2>2. co = Current => CoStatus(Current, co) = "running"
    BY DEF CoStatus
  <2>3. co # Current => CoStatus(Current, co) = "normal"
    BY <1>2, WaitingIs
  <2> QED
    BY <1>2, <2>1, <2>2, <2>3 DEF Busy
<1>3. CASE co \notin OnStack
  <2>1. Resting(co) /\ co # Current
    BY <1>1, <1>3 DEF CoInv
  <2>2. CoStatus(Current, co) = IF co \in ended \ spilled THEN "dead" ELSE "suspended"
    BY <2>1 DEF CoStatus, Resting
  <2>3. th[co].status = "yield" => \A i \in DOMAIN th[co].frames :
                                       th[co].frames[i] = "C" <=> i = Len(th[co].frames)
    <3>1. th[co].frames \in Seq(Kinds)
      BY <1>1 DEF ThreadState
    <3>2. DOMAIN th[co].frames = 1 .. Len(th[co].frames)
      BY <3>1
    <3> QED
      BY <2>1, <3>2 DEF Resting
  <2> QED
    BY <1>3, <2>1, <2>2, <2>3
<1> QED
  BY <1>2, <1>3

(* What a script is told of a coroutine is what the coroutine is doing     *)
(* (lbaselib.c:490), however it came there.                                *)
THEOREM StatusTells == CoSpec => []StatusIsTrue
<1> QED
  BY CoroutineInvariant, InvStatus, PTL

(* The count of a thread is the depth at its top entry.                    *)
LEMMA InvDepth == CoInv => DepthIsCounted
<1> SUFFICES ASSUME CoInv PROVE DepthIsCounted
  OBVIOUS
<1>1. DOMAIN native = 1 .. Len(native) /\ native \in Seq(Entry) /\ Shape(native) /\ CoTypes /\ Len(native) \in Nat
  BY DEF CoInv, CoTypes
<1>2. Cardinality({i \in DOMAIN native : native[i].is # "pcall"}) < MaxCCalls + Extra
  <2>1. {i \in DOMAIN native : native[i].is # "pcall"} = {i \in 1 .. Len(native) : native[i].is # "pcall"}
    BY <1>1
  <2> QED
    BY <2>1 DEF CoInv, Depth
<1>3. ASSUME Runs, NEW t \in OnStack
      PROVE  LET top == Max({i \in DOMAIN native : native[i].t = t})
             IN  th[t].nC = Cardinality({i \in 1 .. top : native[i].is # "pcall"})
  <2>1. PICK i \in 1 .. Len(native) :
            /\ native[i].t = t /\ \A j \in 1 .. Len(native) : native[j].t = t => j <= i
            /\ Max({j \in DOMAIN native : native[j].t = t}) = i
    BY <1>1, TopIs
  <2>2. Fits(native, th, raising, i)
    BY DEF CoInv
  <2>3. CASE i = Len(native)
    <3>1. th[t].nC = Depth(native, i)
      BY <1>3, <2>1, <2>2, <2>3 DEF Fits, Runs
    <3> QED
      BY <2>1, <3>1 DEF Depth
  <2>4. CASE i # Len(native)
    <3>1. i + 1 \in 1 .. Len(native) /\ i + 1 > 1 /\ (i + 1) - 1 = i /\ ~(i + 1 <= i)
      <4> DEFINE n == Len(native)
      <4>1. n \in Nat /\ i \in 1 .. n /\ i # n
        BY <1>1, <2>1, <2>4
      <4> HIDE DEF n
      <4>2. i + 1 \in 1 .. n /\ i + 1 > 1 /\ (i + 1) - 1 = i /\ ~(i + 1 <= i)
        BY <4>1
      <4> QED
        BY <4>2 DEF n
    <3>2. native[i + 1].t # t
      BY <2>1, <3>1
    <3>3. native[i + 1].is = "resume"
      BY <1>1, <2>1, <3>1, <3>2 DEF Shape
    <3>4. th[t].nC = Depth(native, i)
      BY <2>1, <2>2, <2>4, <3>3 DEF Fits
    <3> QED
      BY <2>1, <3>4 DEF Depth
  <2> QED
    BY <2>3, <2>4
<1> QED
  BY <1>2, <1>3 DEF DepthIsCounted

(* The count of C calls in a thread is the number of those that lie on the *)
(* C stack, so that its limit is one of the C stack (ldo.c:371, 428).      *)
THEOREM DepthCounts == CoSpec => []DepthIsCounted
<1> QED
  BY CoroutineInvariant, InvDepth, PTL

=============================================================================
