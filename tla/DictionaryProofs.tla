-------------------------- MODULE DictionaryProofs --------------------------
(***************************************************************************)
(* Dictionary for every set of keys, values and nodes: its invariants, and *)
(* that it implements AssocList.                                           *)
(***************************************************************************)
EXTENDS Dictionary, SequenceTheorems, TLAPS

-----------------------------------------------------------------------------
(* Sequences                                                               *)

(* What is left of a list when its i-th node is taken out                  *)
(* (dictionary.c:111-120).                                                 *)
LEMMA RemoveAtFacts ==
    ASSUME NEW S, NEW s \in Seq(S), NEW i \in 1 .. Len(s)
    PROVE  /\ RemoveAt(s, i) \in Seq(S)
           /\ Len(RemoveAt(s, i)) = Len(s) - 1
           /\ \A j \in 1 .. Len(s) - 1 :
                 RemoveAt(s, i)[j] = IF j < i THEN s[j] ELSE s[j + 1]
<1>1. /\ SubSeq(s, 1, i - 1) \in Seq(S)
      /\ Len(SubSeq(s, 1, i - 1)) = i - 1
      /\ \A j \in 1 .. i - 1 : SubSeq(s, 1, i - 1)[j] = s[j]
  OBVIOUS
<1>2. /\ SubSeq(s, i + 1, Len(s)) \in Seq(S)
      /\ Len(SubSeq(s, i + 1, Len(s))) = Len(s) - i
      /\ \A j \in 1 .. Len(s) - i : SubSeq(s, i + 1, Len(s))[j] = s[j + i]
  OBVIOUS
<1> DEFINE a == SubSeq(s, 1, i - 1)
           b == SubSeq(s, i + 1, Len(s))
<1>3. RemoveAt(s, i) = a \o b
  BY DEF RemoveAt
<1> HIDE DEF a, b
<1>4. /\ a \in Seq(S) /\ Len(a) = i - 1 /\ \A j \in 1 .. i - 1 : a[j] = s[j]
      /\ b \in Seq(S) /\ Len(b) = Len(s) - i
      /\ \A j \in 1 .. Len(s) - i : b[j] = s[j + i]
  BY <1>1, <1>2 DEF a, b
<1>5. a \o b \in Seq(S) /\ Len(a \o b) = Len(s) - 1
  BY <1>4
<1>6. ASSUME NEW j \in 1 .. Len(s) - 1
      PROVE  (a \o b)[j] = IF j < i THEN s[j] ELSE s[j + 1]
  <2>1. CASE j < i
    BY <2>1, <1>4
  <2>2. CASE j >= i
    <3>1. (a \o b)[j] = b[j - (i - 1)]
      BY <2>2, <1>4
    <3>2. j - (i - 1) \in 1 .. Len(s) - i
      BY <2>2
    <3> QED
      BY <3>1, <3>2, <2>2, <1>4
  <2>3. j < i \/ j >= i
    OBVIOUS
  <2> QED
    BY <2>1, <2>2, <2>3, Zenon
<1> QED
  BY <1>3, <1>5, <1>6

-----------------------------------------------------------------------------
(* The inductive invariant                                                 *)

(* ListShape and UniqueKeys are not inductive alone: that the new key is   *)
(* not there, that iter is the last node, that a freed node is not the one *)
(* a loop stands on, is what the loops have found out (LoopInv).           *)
IInv == TypeOK /\ ListShape /\ UniqueKeys /\ LoopInv

(* The empty dictionary of dict_initialize.                                *)
LEMMA InitInv == Init => IInv
<1> SUFFICES ASSUME Init PROVE IInv
  OBVIOUS
<1>1. chain = << >> /\ DOMAIN chain = {} /\ Len(chain) = 0 /\ Range(chain) = {}
  BY DEF Init, Range
<1>2. TypeOK
  BY DEF Init, TypeOK, NoArg, Args, Answer, Readers, Loops
<1>3. ListShape
  BY <1>1 DEF Init, ListShape, IsInjective
<1>4. UniqueKeys
  BY <1>1 DEF UniqueKeys
<1>5. LoopInv
  BY <1>1 DEF Init, LoopInv, SetLoop, StoreLoop, ReadLoop, RemoveLoop,
              TraverseLoop, DestroyLoop, Calls
<1> QED
  BY <1>2, <1>3, <1>4, <1>5 DEF IInv

(* A step that leaves list and heap alone leaves the list in shape.        *)
LEMMA ShapeFrame ==
    ASSUME IInv, UNCHANGED <<list, heap>>
    PROVE  ListShape'
BY DEF IInv, ListShape, list, heap, IsInjective, Range

(* The nodes of the list are addresses, not NULL.                          *)
LEMMA ChainNodes ==
    ASSUME TypeOK
    PROVE  /\ Len(chain) \in Nat /\ DOMAIN chain = 1 .. Len(chain)
           /\ \A i \in DOMAIN chain : chain[i] \in Node /\ chain[i] # NULL
           /\ chain = << >> <=> Len(chain) = 0
BY NullAssumption DEF TypeOK

(* Following next from a node of the list.                                 *)
LEMMA NextOf ==
    ASSUME IInv, NEW i \in DOMAIN chain
    PROVE  /\ i = Len(chain) => next[chain[i]] = NULL
           /\ i # Len(chain) => /\ i + 1 \in DOMAIN chain
                                /\ next[chain[i]] = chain[i + 1]
                                /\ next[chain[i]] # NULL
BY ChainNodes DEF IInv, ListShape

(* The walk of dict_set_element_s (dictionary.c:16-24).                    *)
LEMMA SetWalkInv == IInv /\ SetWalk => IInv'
<1> SUFFICES ASSUME IInv, SetWalk PROVE IInv'
  OBVIOUS
<1> USE DEF SetWalk, list, heap
<1>1. TypeOK'
  BY DEF IInv, TypeOK, Matches, Loops
<1>2. ListShape'
  BY ShapeFrame
<1>3. UniqueKeys'
  BY DEF IInv, UniqueKeys
<1>4. Calls'
  BY DEF IInv, LoopInv, Calls
<1>5. CASE iter = NULL
  <2>1. chain = << >> /\ hit = NULL
    BY <1>5, ChainNodes DEF IInv, LoopInv, SetLoop, At
  <2>2. pc' = "store" /\ iter' = NULL /\ hit' = NULL /\ chain' = << >>
    BY <1>5, <2>1 DEF Matches
  <2>3. StoreLoop'
    BY <2>2 DEF StoreLoop
  <2> QED
    BY <1>1, <1>2, <1>3, <1>4, <2>2, <2>3
       DEF IInv, LoopInv, SetLoop, ReadLoop, RemoveLoop, TraverseLoop, DestroyLoop
<1>6. CASE iter # NULL
  <2>1. PICK i \in DOMAIN chain :
           At(i) /\ (hit # NULL <=> \E j \in 1 .. i - 1 : MatchAt(j))
    BY <1>6 DEF IInv, LoopInv, SetLoop
  <2>2. hit' # NULL <=> \E j \in 1 .. i : MatchAt(j)
    BY <2>1, <1>6, ChainNodes DEF IInv, Matches, MatchAt, At
  <2>3. \A j : MatchAt(j)' <=> MatchAt(j)
    BY DEF MatchAt
  <2>4. CASE i = Len(chain)
    <3>1. pc' = "store" /\ iter' = chain[Len(chain)] /\ chain # << >>
      BY <2>1, <2>4, NextOf, ChainNodes DEF At, IInv
    <3>2. StoreLoop'
      BY <3>1, <2>2, <2>3, <2>4, ChainNodes DEF StoreLoop, IInv
    <3> QED
      BY <1>1, <1>2, <1>3, <1>4, <3>1, <3>2
         DEF IInv, LoopInv, SetLoop, ReadLoop, RemoveLoop, TraverseLoop, DestroyLoop
  <2>5. CASE i # Len(chain)
    <3>1. pc' = "set" /\ iter' = chain[i + 1] /\ i + 1 \in DOMAIN chain
      BY <2>1, <2>5, <1>6, NextOf DEF At
    <3>2. At(i + 1)' /\ i = (i + 1) - 1
      BY <3>1, <2>1, ChainNodes DEF At, IInv
    <3>3. SetLoop'
      BY <3>1, <3>2, <2>2, <2>3 DEF SetLoop
    <3> QED
      BY <1>1, <1>2, <1>3, <1>4, <3>1, <3>3
         DEF IInv, LoopInv, StoreLoop, ReadLoop, RemoveLoop, TraverseLoop, DestroyLoop
  <2> QED
    BY <2>4, <2>5
<1> QED
  BY <1>5, <1>6

(* Between calls, and after a crash, no loop is under way.                 *)
LEMMA IdleLoops ==
    ASSUME pc' \in {"idle", "crashed"}, iter' = NULL, visited' = << >>,
           ~exists' => chain' = << >>
    PROVE  LoopInv'
BY DEF LoopInv, SetLoop, StoreLoop, ReadLoop, RemoveLoop, TraverseLoop,
       DestroyLoop, Calls

(* A loop starts on the first node, knowing nothing.                       *)
LEMMA CallInv ==
    ASSUME IInv,
           \/ \E k \in Key, v \in Value : SetCall(k, v)
           \/ \E k \in Key, o \in Readers : ReadCall(o, k)
           \/ \E k \in Key : RemoveCall(k)
           \/ TraverseCall \/ DestroyCall
    PROVE  IInv'
<1> USE DEF Call, list, heap
<1>0. /\ pc = "idle" /\ exists /\ iter' = first /\ hit' = NULL
      /\ visited = << >> /\ UNCHANGED <<list, heap, reply, visited>>
      /\ pc' \in {"set", "read", "remove", "traverse", "destroy"}
      /\ arg'.op \in {"set", "remove", "traverse", "destroy"} \cup Readers
      /\ arg' \in Args
      /\ pc' = "set" => arg'.key \in Key /\ arg'.op = "set" /\ arg'.value \in Value
      /\ pc' = "read" => arg'.key \in Key /\ arg'.op \in Readers
      /\ pc' = "remove" => arg'.key \in Key /\ arg'.op = "remove"
  BY DEF SetCall, ReadCall, RemoveCall, TraverseCall, DestroyCall, Args,
         IInv, LoopInv, Calls
<1>1. TypeOK'
  BY <1>0 DEF IInv, TypeOK, Loops
<1>2. ListShape'
  BY <1>0, ShapeFrame
<1>3. UniqueKeys /\ (\A i \in DOMAIN chain : key[chain[i]] # NULL)
  BY <1>0 DEF IInv, UniqueKeys
<1>4. UniqueKeys'
  BY <1>0, <1>3 DEF UniqueKeys
<1>5. Calls'
  BY <1>0 DEF Calls
<1>6. CASE chain = << >>
  <2>1. iter' = NULL /\ chain' = << >> /\ visited' = chain' /\ DOMAIN chain = {}
    BY <1>0, <1>6 DEF IInv, ListShape
  <2> QED
    BY <1>0, <1>1, <1>2, <1>4, <1>5, <2>1
       DEF IInv, LoopInv, SetLoop, StoreLoop, ReadLoop, RemoveLoop,
           TraverseLoop, DestroyLoop
<1>7. CASE chain # << >>
  <2>1. 1 \in DOMAIN chain /\ iter' = chain[1] /\ chain' = chain
    BY <1>0, <1>7, ChainNodes DEF IInv, ListShape
  <2>2. At(1)' /\ 1 \in DOMAIN chain'
    BY <2>1 DEF At
  <2>3. 1 .. 1 - 1 = {} /\ SubSeq(chain', 1, 1 - 1) = << >>
    BY <1>0 DEF IInv, TypeOK
  <2>4. SetLoop' /\ ReadLoop' /\ RemoveLoop' /\ StoreLoop'
    BY <1>0, <2>2, <2>3 DEF SetLoop, ReadLoop, RemoveLoop, StoreLoop
  <2>5. TraverseLoop'
    BY <1>0, <2>2, <2>3 DEF TraverseLoop
  <2>6. \A j \in DOMAIN chain' : key'[chain'[j]] = NULL <=> j < 1
    BY <1>0, <1>3, ChainNodes DEF IInv
  <2>7. DestroyLoop'
    BY <2>2, <2>6 DEF DestroyLoop
  <2> QED
    BY <1>1, <1>2, <1>4, <1>5, <2>4, <2>5, <2>7 DEF IInv, LoopInv
<1> QED
  BY <1>6, <1>7

(* Overwriting a value changes neither the nodes nor their keys            *)
(* (dictionary.c:25-37).                                                   *)
LEMMA SetUpdateInv == IInv /\ SetUpdate => IInv'
<1> SUFFICES ASSUME IInv, SetUpdate PROVE IInv'
  OBVIOUS
<1> USE DEF SetUpdate, Return, list
<1>1. chain # << >> /\ iter \in Node /\ arg.op = "set" /\ arg.key \in Key
      /\ arg.value \in Value /\ visited = << >> /\ exists
  BY ChainNodes DEF IInv, LoopInv, StoreLoop, Calls
<1>2. TypeOK'
  <2>1. value' \in [Node -> Value \cup {NULL}]
    BY <1>1 DEF IInv, TypeOK
  <2>2. reply' \in [op : {"none", "set", "remove"} \cup Readers,
                    key : Key \cup {NULL}, value : Value \cup {NULL},
                    code : {"none", "ok", "fatal", "miss"}]
    BY <1>1 DEF Answer
  <2> QED
    BY <2>1, <2>2 DEF IInv, TypeOK, NoArg, Args
<1>3. ListShape'
  BY DEF IInv, ListShape, IsInjective, Range
<1>4. UniqueKeys'
  BY DEF IInv, UniqueKeys
<1>5. LoopInv'
  BY <1>1, IdleLoops
<1> QED
  BY <1>2, <1>3, <1>4, <1>5 DEF IInv

(* A new node goes behind the last one, and its key was nowhere in the     *)
(* list (dictionary.c:38-61).                                              *)
LEMMA SetInsertInv == IInv /\ SetInsert => IInv'
<1> SUFFICES ASSUME IInv, SetInsert PROVE IInv'
  OBVIOUS
<1> USE DEF Return
<1>1. PICK n \in Node \ alloc :
         /\ alloc' = alloc \cup {n}
         /\ key' = [key EXCEPT ![n] = arg.key]
         /\ value' = [value EXCEPT ![n] = arg.value]
         /\ IF iter # NULL
            THEN next' = [next EXCEPT ![n] = NULL, ![iter] = n] /\ first' = first
            ELSE next' = [next EXCEPT ![n] = NULL] /\ first' = n
         /\ chain' = Append(chain, n)
  BY DEF SetInsert
<1>2. /\ pc = "store" /\ hit = NULL /\ length' = length + 1
      /\ pc' = "idle" /\ arg' = NoArg /\ iter' = NULL /\ hit' = NULL
      /\ reply' = Answer(arg.op, arg.key, "ok", arg.value)
      /\ exists' = exists /\ visited' = visited
  BY DEF SetInsert
<1>3. /\ arg.op = "set" /\ arg.key \in Key /\ arg.value \in Value
      /\ visited = << >> /\ exists
      /\ iter = IF chain = << >> THEN NULL ELSE chain[Len(chain)]
      /\ \A j \in DOMAIN chain : key[chain[j]] # arg.key
  BY <1>2 DEF IInv, LoopInv, Calls, StoreLoop, MatchAt
<1>4. n \in Node /\ n # NULL /\ \A j \in DOMAIN chain : chain[j] # n
  BY <1>1, NullAssumption DEF IInv, ListShape, Range
<1>5. /\ Len(chain) \in Nat /\ DOMAIN chain = 1 .. Len(chain)
      /\ \A j \in DOMAIN chain : chain[j] \in Node /\ chain[j] # NULL
      /\ chain = << >> <=> Len(chain) = 0
  BY ChainNodes DEF IInv
<1>6. /\ chain' \in Seq(Node) /\ Len(chain') = Len(chain) + 1
      /\ DOMAIN chain' = 1 .. Len(chain) + 1
      /\ \A j \in DOMAIN chain : chain'[j] = chain[j]
      /\ chain'[Len(chain) + 1] = n
  BY <1>1, <1>4, <1>5 DEF IInv, TypeOK
<1>7. TypeOK'
  <2>1. next' \in [Node -> Node \cup {NULL}] /\ first' \in Node \cup {NULL}
    BY <1>1, <1>4 DEF IInv, TypeOK
  <2>2. /\ key' \in [Node -> Key \cup {NULL}] /\ value' \in [Node -> Value \cup {NULL}]
        /\ alloc' \in SUBSET Node /\ length' \in Nat
    BY <1>1, <1>2, <1>3 DEF IInv, TypeOK
  <2>3. reply' \in [op : {"none", "set", "remove"} \cup Readers,
                    key : Key \cup {NULL}, value : Value \cup {NULL},
                    code : {"none", "ok", "fatal", "miss"}]
    BY <1>2, <1>3 DEF Answer
  <2> QED
    BY <1>2, <1>6, <2>1, <2>2, <2>3 DEF IInv, TypeOK, NoArg, Args
<1>8. ListShape'
  <2>1. IsInjective(chain')
    BY <1>4, <1>5, <1>6 DEF IInv, ListShape, IsInjective
  <2>2. Range(chain') \subseteq alloc'
    BY <1>1, <1>5, <1>6 DEF IInv, ListShape, Range
  <2>3. length' = Len(chain')
    BY <1>2, <1>6 DEF IInv, ListShape
  <2>4. first' = IF chain' = << >> THEN NULL ELSE chain'[1]
    BY <1>1, <1>3, <1>5, <1>6 DEF IInv, ListShape
  <2>5. ASSUME NEW i \in DOMAIN chain'
        PROVE  next'[chain'[i]] = IF i = Len(chain') THEN NULL ELSE chain'[i + 1]
    <3>1. CASE i = Len(chain) + 1
      BY <3>1, <1>1, <1>3, <1>4, <1>5, <1>6 DEF IInv, TypeOK
    <3>2. CASE i = Len(chain)
      BY <3>2, <1>1, <1>3, <1>4, <1>5, <1>6, <2>5 DEF IInv, TypeOK
    <3>3. CASE i < Len(chain)
      <4>1. i \in DOMAIN chain /\ i + 1 \in DOMAIN chain /\ chain[i] # iter /\ chain[i] # n
        BY <3>3, <1>3, <1>4, <1>5, <1>6, <2>5 DEF IInv, ListShape, IsInjective
      <4>2. next'[chain[i]] = next[chain[i]]
        BY <4>1, <1>1, <1>5 DEF IInv, TypeOK
      <4> QED
        BY <3>3, <4>1, <4>2, <1>5, <1>6 DEF IInv, ListShape
    <3> QED
      BY <3>1, <3>2, <3>3, <1>5, <1>6
  <2> QED
    BY <2>1, <2>2, <2>3, <2>4, <2>5 DEF ListShape
<1>9. UniqueKeys'
  <2>1. /\ \A j \in DOMAIN chain : key'[chain'[j]] = key[chain[j]]
        /\ key'[chain'[Len(chain) + 1]] = arg.key
    BY <1>1, <1>4, <1>5, <1>6 DEF IInv, TypeOK
  <2>2. arg.key # NULL
    BY <1>3, NullAssumption
  <2>3. \A i, j \in DOMAIN chain :
           key[chain[i]] # NULL /\ (key[chain[i]] = key[chain[j]] => i = j)
    BY <1>2 DEF IInv, UniqueKeys
  <2> QED
    BY <2>1, <2>2, <2>3, <1>3, <1>5, <1>6 DEF UniqueKeys
<1>10. LoopInv'
  BY <1>2, <1>3, IdleLoops
<1> QED
  BY <1>7, <1>8, <1>9, <1>10 DEF IInv

(* A node that could not be filled is none of the list's                   *)
(* (dictionary.c:39-48).                                                   *)
LEMMA SetInsertFailsInv == IInv /\ SetInsertFails => IInv'
<1> SUFFICES ASSUME IInv, SetInsertFails PROVE IInv'
  OBVIOUS
<1> USE DEF SetInsertFails, Return, list
<1>1. PICK n \in Node \ alloc, k \in {NULL, arg.key} :
         /\ alloc' = alloc \cup {n}
         /\ key' = [key EXCEPT ![n] = k]
         /\ next' = [next EXCEPT ![n] = NULL]
  OBVIOUS
<1>2. /\ arg.op = "set" /\ arg.key \in Key /\ arg.value \in Value
      /\ visited = << >> /\ exists
  BY DEF IInv, LoopInv, Calls
<1>3. \A j \in DOMAIN chain : /\ chain[j] # n /\ key'[chain[j]] = key[chain[j]]
                              /\ next'[chain[j]] = next[chain[j]]
  BY <1>1, ChainNodes DEF IInv, ListShape, Range, TypeOK
<1>4. TypeOK'
  <2>1. /\ next' \in [Node -> Node \cup {NULL}] /\ key' \in [Node -> Key \cup {NULL}]
        /\ alloc' \in SUBSET Node
    BY <1>1, <1>2 DEF IInv, TypeOK
  <2>2. reply' \in [op : {"none", "set", "remove"} \cup Readers,
                    key : Key \cup {NULL}, value : Value \cup {NULL},
                    code : {"none", "ok", "fatal", "miss"}]
    BY <1>2 DEF Answer
  <2> QED
    BY <2>1, <2>2 DEF IInv, TypeOK, NoArg, Args
<1>5. ListShape'
  BY <1>1, <1>3 DEF IInv, ListShape, IsInjective, Range
<1>6. UniqueKeys'
  BY <1>3 DEF IInv, UniqueKeys
<1>7. LoopInv'
  BY <1>2, IdleLoops
<1> QED
  BY <1>4, <1>5, <1>6, <1>7 DEF IInv

(* The process ends where a pointer is NULL.                               *)
LEMMA CrashInv ==
    IInv /\ (SetInsertCrashes \/ ReadCrashes \/ InitializeCrashes) => IInv'
<1> SUFFICES ASSUME IInv, SetInsertCrashes \/ ReadCrashes \/ InitializeCrashes
             PROVE  IInv'
  OBVIOUS
<1>1. /\ pc \in {"store", "read", "idle"} /\ pc' = "crashed" /\ iter' = NULL
      /\ hit' = NULL /\ UNCHANGED <<list, heap, arg, reply, visited>>
  BY DEF SetInsertCrashes, ReadCrashes, InitializeCrashes, Crash
<1>2. TypeOK'
  BY <1>1 DEF IInv, TypeOK, list, heap
<1>3. ListShape'
  BY <1>1, ShapeFrame
<1>4. UniqueKeys'
  BY <1>1 DEF IInv, UniqueKeys, list, heap
<1>5. LoopInv'
  BY <1>1, IdleLoops DEF IInv, LoopInv, Calls, list
<1> QED
  BY <1>2, <1>3, <1>4, <1>5 DEF IInv

(* The four readers: the walk and its three ends (dictionary.c:68-106,     *)
(* 163-172).                                                               *)
LEMMA ReadInv == IInv /\ (ReadNext \/ ReadHit \/ ReadMiss) => IInv'
<1> SUFFICES ASSUME IInv, ReadNext \/ ReadHit \/ ReadMiss PROVE IInv'
  OBVIOUS
<1>1. pc = "read" /\ UNCHANGED <<list, heap, visited>>
  BY DEF ReadNext, ReadHit, ReadMiss
<1>2. arg.op \in Readers /\ arg.key \in Key /\ visited = << >> /\ exists
  BY <1>1 DEF IInv, LoopInv, Calls
<1>3. ListShape'
  BY <1>1, ShapeFrame
<1>4. CASE ReadNext
  <2> USE <1>4 DEF ReadNext
  <2>1. PICK i \in DOMAIN chain : At(i) /\ \A j \in 1 .. i - 1 : ~MatchAt(j)
    BY DEF IInv, LoopInv, ReadLoop
  <2>2. ~MatchAt(i) /\ \A j : MatchAt(j)' <=> MatchAt(j)
    BY <2>1, <1>1 DEF Matches, MatchAt, At, list, heap
  <2>3. TypeOK'
    BY <1>1 DEF IInv, TypeOK, list, heap
  <2>4. UniqueKeys'
    BY <1>1 DEF IInv, UniqueKeys, list, heap
  <2>5. Calls'
    BY <1>1 DEF IInv, LoopInv, Calls, list
  <2>6. \A j \in 1 .. i : ~MatchAt(j)
    BY <2>1, <2>2, ChainNodes DEF IInv
  <2>7. ReadLoop'
    <3>1. CASE i = Len(chain)
      BY <3>1, <2>1, <2>2, <2>6, <1>1, NextOf, ChainNodes
         DEF ReadLoop, At, IInv, list
    <3>2. CASE i # Len(chain)
      <4>1. i + 1 \in DOMAIN chain /\ iter' = chain[i + 1] /\ (i + 1) - 1 = i
        BY <3>2, <2>1, NextOf, ChainNodes DEF At, IInv
      <4>2. At(i + 1)' /\ \A j \in 1 .. (i + 1) - 1 : ~MatchAt(j)'
        BY <4>1, <2>2, <2>6, <1>1 DEF At, list
      <4> QED
        BY <4>1, <4>2, <1>1 DEF ReadLoop, list
    <3> QED
      BY <3>1, <3>2
  <2> QED
    BY <1>1, <1>3, <2>3, <2>4, <2>5, <2>7
       DEF IInv, LoopInv, SetLoop, StoreLoop, RemoveLoop, TraverseLoop, DestroyLoop
<1>5. CASE ReadHit \/ ReadMiss
  <2>1. /\ pc' = "idle" /\ arg' = NoArg /\ iter' = NULL /\ hit' = NULL
        /\ \E c \in {"ok", "miss"}, v \in Value \cup {NULL} :
              reply' = Answer(arg.op, arg.key, c, v)
    BY <1>5 DEF ReadHit, ReadMiss, Return, IInv, TypeOK, Matches
  <2>2. TypeOK'
    BY <1>1, <1>2, <2>1 DEF IInv, TypeOK, Answer, NoArg, Args, list, heap
  <2>3. UniqueKeys'
    BY <1>1 DEF IInv, UniqueKeys, list, heap
  <2>4. LoopInv'
    BY <1>1, <1>2, <2>1, IdleLoops DEF list
  <2> QED
    BY <1>3, <2>2, <2>3, <2>4 DEF IInv
<1> QED
  BY <1>4, <1>5

(* Taking node k out of the list (dictionary.c:111-131): the node before   *)
(* it, or first, is linked to the one behind it.                           *)
LEMMA ReleaseInv ==
    ASSUME IInv, pc = "remove", NEW k \in DOMAIN chain, Release(chain[k]),
           first' = IF k = 1 THEN next[chain[k]] ELSE first,
           next' = IF k = 1 THEN next
                   ELSE [next EXCEPT ![chain[k - 1]] = next[chain[k]]]
    PROVE  IInv'
<1> DEFINE n == chain[k]
<1>1. /\ Len(chain) \in Nat /\ DOMAIN chain = 1 .. Len(chain) /\ k \in 1 .. Len(chain)
      /\ \A j \in DOMAIN chain : chain[j] \in Node /\ chain[j] # NULL
      /\ chain \in Seq(Node)
  BY ChainNodes DEF IInv, TypeOK
<1>2. (CHOOSE i \in DOMAIN chain : chain[i] = chain[k]) = k
  BY DEF IInv, ListShape, IsInjective
<1>3. /\ key' = [key EXCEPT ![n] = NULL] /\ value' = [value EXCEPT ![n] = NULL]
      /\ alloc' = alloc \ {n} /\ chain' = RemoveAt(chain, k)
      /\ length' = length - 1
      /\ pc' = "idle" /\ arg' = NoArg /\ iter' = NULL /\ hit' = NULL
      /\ reply' = Answer(arg.op, arg.key, "ok", NULL)
      /\ exists' = exists /\ visited' = visited
  BY <1>2 DEF Release, Return
<1>4. /\ arg.op = "remove" /\ arg.key \in Key /\ visited = << >> /\ exists
      /\ length = Len(chain)
  BY DEF IInv, LoopInv, Calls, ListShape
<1>5. /\ chain' \in Seq(Node) /\ Len(chain') = Len(chain) - 1
      /\ DOMAIN chain' = 1 .. Len(chain) - 1
      /\ \A j \in 1 .. Len(chain) - 1 :
            chain'[j] = IF j < k THEN chain[j] ELSE chain[j + 1]
  <2>1. /\ RemoveAt(chain, k) \in Seq(Node)
        /\ Len(RemoveAt(chain, k)) = Len(chain) - 1
        /\ \A j \in 1 .. Len(chain) - 1 :
              RemoveAt(chain, k)[j] = IF j < k THEN chain[j] ELSE chain[j + 1]
    BY <1>1, RemoveAtFacts, Zenon
  <2>2. DOMAIN RemoveAt(chain, k) = 1 .. Len(RemoveAt(chain, k))
    BY <2>1
  <2> QED
    BY <1>3, <2>1, <2>2, Zenon
<1>6. \A i, j \in DOMAIN chain : chain[i] = chain[j] => i = j
  BY DEF IInv, ListShape, IsInjective
<1>7. \A j \in DOMAIN chain' : chain'[j] # n
  BY <1>1, <1>5, <1>6
<1>8. /\ \A j \in DOMAIN chain : j # Len(chain) => next[chain[j]] = chain[j + 1]
      /\ next[chain[Len(chain)]] = NULL
      /\ first = chain[1]
  BY <1>1, NextOf DEF IInv, ListShape
<1>9. TypeOK'
  <2>1. next' \in [Node -> Node \cup {NULL}] /\ first' \in Node \cup {NULL}
    BY <1>1 DEF IInv, TypeOK
  <2>2. /\ key' \in [Node -> Key \cup {NULL}] /\ value' \in [Node -> Value \cup {NULL}]
        /\ alloc' \in SUBSET Node /\ length' \in Nat
    BY <1>1, <1>3, <1>4 DEF IInv, TypeOK
  <2>3. reply' \in [op : {"none", "set", "remove"} \cup Readers,
                    key : Key \cup {NULL}, value : Value \cup {NULL},
                    code : {"none", "ok", "fatal", "miss"}]
    BY <1>3, <1>4 DEF Answer
  <2> QED
    BY <1>3, <1>5, <2>1, <2>2, <2>3 DEF IInv, TypeOK, NoArg, Args
<1>10. ListShape'
  <2>1. IsInjective(chain')
    BY <1>1, <1>5, <1>6 DEF IsInjective
  <2>2. Range(chain') \subseteq alloc'
    BY <1>1, <1>3, <1>5, <1>7 DEF IInv, ListShape, Range
  <2>3. length' = Len(chain')
    BY <1>3, <1>4, <1>5
  <2>4. first' = IF chain' = << >> THEN NULL ELSE chain'[1]
    <3>1. chain' = << >> <=> Len(chain) = 1
      BY <1>1, <1>5
    <3>2. CASE k = 1 /\ Len(chain) = 1
      BY <3>1, <3>2, <1>8
    <3>3. CASE k = 1 /\ Len(chain) # 1
      BY <3>1, <3>3, <1>1, <1>5, <1>8
    <3>4. CASE k # 1
      BY <3>1, <3>4, <1>1, <1>5, <1>8
    <3> QED
      BY <3>2, <3>3, <3>4
  <2>5. ASSUME NEW j \in DOMAIN chain'
        PROVE  next'[chain'[j]] = IF j = Len(chain') THEN NULL ELSE chain'[j + 1]
    <3>0. j \in Int /\ k \in Int /\ 1 <= j /\ j <= Len(chain) - 1
      BY <1>1, <1>5, <2>5
    <3>1. CASE j + 1 < k
      <4>1. chain'[j] = chain[j] /\ chain'[j + 1] = chain[j + 1] /\ chain[j] # chain[k - 1]
        BY <3>0, <3>1, <1>1, <1>5, <1>6
      <4>2. next'[chain[j]] = next[chain[j]]
        BY <4>1, <3>0, <1>1 DEF IInv, TypeOK
      <4> QED
        BY <4>1, <4>2, <3>0, <3>1, <1>1, <1>5, <1>8
    <3>2. CASE j + 1 = k
      <4>1. chain'[j] = chain[k - 1] /\ k # 1 /\ k - 1 \in DOMAIN chain
        BY <3>0, <3>2, <1>1, <1>5
      <4>2. next'[chain[k - 1]] = next[chain[k]]
        BY <4>1, <1>1 DEF IInv, TypeOK
      <4>3. CASE k = Len(chain)
        BY <4>1, <4>2, <4>3, <3>0, <3>2, <1>5, <1>8
      <4>4. CASE k # Len(chain)
        BY <4>1, <4>2, <4>4, <3>0, <3>2, <1>1, <1>5, <1>8
      <4> QED
        BY <4>3, <4>4
    <3>3. CASE j >= k
      <4>1. chain'[j] = chain[j + 1] /\ j + 1 \in DOMAIN chain
        BY <3>0, <3>3, <1>1, <1>5
      <4>2. k # 1 => k - 1 \in DOMAIN chain /\ chain[k - 1] # chain[j + 1]
        BY <4>1, <3>0, <3>3, <1>1, <1>6
      <4>3. next'[chain[j + 1]] = next[chain[j + 1]]
        BY <4>1, <4>2, <1>1 DEF IInv, TypeOK
      <4>4. CASE j + 1 = Len(chain)
        BY <4>1, <4>3, <4>4, <3>0, <1>5, <1>8
      <4>5. CASE j + 1 # Len(chain)
        BY <4>1, <4>3, <4>5, <3>0, <3>3, <1>1, <1>5, <1>8
      <4> QED
        BY <4>4, <4>5
    <3>4. j + 1 < k \/ j + 1 = k \/ j >= k
      BY <3>0
    <3> QED
      BY <3>1, <3>2, <3>3, <3>4, Zenon
  <2> QED
    BY <2>1, <2>2, <2>3, <2>4, <2>5 DEF ListShape
<1>11. UniqueKeys'
  <2>1. \A j \in DOMAIN chain' : chain'[j] \in Node /\ key'[chain'[j]] = key[chain'[j]]
    BY <1>1, <1>3, <1>5, <1>7 DEF IInv, TypeOK
  <2>2. \A i, j \in DOMAIN chain :
           key[chain[i]] # NULL /\ (key[chain[i]] = key[chain[j]] => i = j)
    BY DEF IInv, UniqueKeys
  <2> QED
    BY <2>1, <2>2, <1>1, <1>5 DEF UniqueKeys
<1>12. LoopInv'
  BY <1>3, <1>4, IdleLoops
<1> QED
  BY <1>9, <1>10, <1>11, <1>12 DEF IInv

(* The two places dict_remove_element unlinks at are the first node and    *)
(* the one behind iter.                                                    *)
LEMMA RemoveNodeInv == IInv /\ (RemoveFirstNode \/ RemoveNextNode) => IInv'
<1> SUFFICES ASSUME IInv, RemoveFirstNode \/ RemoveNextNode PROVE IInv'
  OBVIOUS
<1>1. PICK i \in DOMAIN chain : At(i)
  BY DEF IInv, LoopInv, RemoveLoop, RemoveFirstNode, RemoveNextNode, Matches
<1>2. chain # << >> /\ first = chain[1] /\ 1 \in DOMAIN chain /\ i \in 1 .. Len(chain)
      /\ pc = "remove" /\ chain[1] \in Node /\ chain[1] # NULL
  BY <1>1, ChainNodes DEF IInv, ListShape, RemoveFirstNode, RemoveNextNode
<1>3. CASE RemoveFirstNode
  <2>1. first = chain[1] /\ iter = chain[1]
    BY <1>2, <1>3 DEF RemoveFirstNode
  <2> QED
    BY <1>2, <1>3, <2>1, ReleaseInv DEF RemoveFirstNode
<1>4. CASE RemoveNextNode
  <2>1. i # Len(chain) /\ next[chain[i]] = chain[i + 1] /\ i + 1 \in DOMAIN chain
    BY <1>1, <1>4, NextOf DEF RemoveNextNode, Matches, At
  <2>2. i + 1 # 1 /\ (i + 1) - 1 = i
    BY <1>2
  <2> QED
    BY <1>1, <1>2, <1>4, <2>1, <2>2, ReleaseInv DEF RemoveNextNode, At
<1> QED
  BY <1>3, <1>4

(* The walk of dict_remove_element looks one node ahead, and at the node   *)
(* itself only at the front (dictionary.c:110-122).                        *)
LEMMA RemoveWalkInv == IInv /\ (RemoveWalk \/ RemoveMiss) => IInv'
<1> SUFFICES ASSUME IInv, RemoveWalk \/ RemoveMiss PROVE IInv'
  OBVIOUS
<1>1. pc = "remove" /\ UNCHANGED <<list, heap, visited>>
  BY DEF RemoveWalk, RemoveMiss
<1>2. arg.op = "remove" /\ arg.key \in Key /\ visited = << >> /\ exists
  BY <1>1 DEF IInv, LoopInv, Calls
<1>3. ListShape'
  BY <1>1, ShapeFrame
<1>4. UniqueKeys'
  BY <1>1, <1>2 DEF IInv, UniqueKeys, list, heap, RemoveWalk, RemoveMiss, Return
<1>5. CASE RemoveWalk
  <2> USE <1>5 DEF RemoveWalk
  <2>1. PICK i \in DOMAIN chain : At(i) /\ (i = 1 \/ \A j \in 1 .. i : ~MatchAt(j))
    BY DEF IInv, LoopInv, RemoveLoop
  <2>2. i \in 1 .. Len(chain) /\ Len(chain) \in Nat /\ DOMAIN chain = 1 .. Len(chain)
        /\ \A j \in DOMAIN chain : chain[j] # NULL
    BY ChainNodes DEF IInv
  <2>3. ~MatchAt(i)
    BY <2>1, <2>2 DEF IInv, ListShape, Matches, MatchAt, At
  <2>4. \A j \in 1 .. i : ~MatchAt(j)
    BY <2>1, <2>2, <2>3
  <2>5. \A j : MatchAt(j)' <=> MatchAt(j)
    BY <1>1 DEF MatchAt, list, heap
  <2>6. TypeOK'
    BY <1>1, <2>1, <2>2 DEF IInv, TypeOK, list, heap
  <2>7. Calls'
    BY <1>1 DEF IInv, LoopInv, Calls, list
  <2>8. RemoveLoop'
    <3>1. CASE i = Len(chain)
      BY <3>1, <2>1, <2>2, <2>4, <2>5, <1>1, NextOf DEF RemoveLoop, At, list
    <3>2. CASE i # Len(chain)
      <4>1. i + 1 \in DOMAIN chain /\ next[chain[i]] = chain[i + 1] /\ iter' = chain[i + 1]
        BY <3>2, <2>1, NextOf DEF At
      <4>2. ~MatchAt(i + 1)
        BY <4>1, <2>1, <2>2 DEF Matches, MatchAt, At
      <4>3. At(i + 1)' /\ \A j \in 1 .. i + 1 : ~MatchAt(j)'
        BY <4>1, <4>2, <2>2, <2>4, <2>5, <1>1 DEF At, list
      <4> QED
        BY <4>1, <4>3, <1>1 DEF RemoveLoop, list
    <3> QED
      BY <3>1, <3>2
  <2> QED
    BY <1>1, <1>3, <1>4, <2>6, <2>7, <2>8
       DEF IInv, LoopInv, SetLoop, StoreLoop, ReadLoop, TraverseLoop, DestroyLoop
<1>6. CASE RemoveMiss
  <2>1. /\ pc' = "idle" /\ arg' = NoArg /\ iter' = NULL /\ hit' = NULL
        /\ reply' = Answer(arg.op, arg.key, "miss", NULL)
    BY <1>6 DEF RemoveMiss, Return
  <2>2. TypeOK'
    BY <1>1, <1>2, <2>1 DEF IInv, TypeOK, Answer, NoArg, Args, list, heap
  <2>3. LoopInv'
    BY <1>1, <1>2, <2>1, IdleLoops DEF list
  <2> QED
    BY <1>3, <1>4, <2>2, <2>3 DEF IInv
<1> QED
  BY <1>5, <1>6

(* dict_traverse changes nothing but the place it has come to              *)
(* (dictionary.c:137-145).                                                 *)
LEMMA TraverseInv == IInv /\ (TraverseVisit \/ TraverseEnd) => IInv'
<1> SUFFICES ASSUME IInv, TraverseVisit \/ TraverseEnd PROVE IInv'
  OBVIOUS
<1>1. pc = "traverse" /\ UNCHANGED <<list, heap>>
  BY DEF TraverseVisit, TraverseEnd
<1>2. exists /\ reply' = reply
  BY <1>1 DEF IInv, LoopInv, Calls, TraverseVisit, TraverseEnd, ReturnVoid
<1>3. ListShape'
  BY <1>1, ShapeFrame
<1>4. UniqueKeys'
  BY <1>1 DEF IInv, UniqueKeys, list, heap
<1>5. /\ chain \in Seq(Node) /\ DOMAIN chain = 1 .. Len(chain) /\ Len(chain) \in Nat
      /\ \A j \in DOMAIN chain : chain[j] \in Node
  BY ChainNodes DEF IInv, TypeOK
<1>6. CASE pc' = "idle"
  <2>1. arg' = NoArg /\ iter' = NULL /\ hit' = NULL /\ visited' = << >>
    BY <1>1, <1>6 DEF TraverseVisit, TraverseEnd, ReturnVoid
  <2>2. TypeOK'
    BY <1>1, <1>2, <1>6, <2>1 DEF IInv, TypeOK, NoArg, Args, list, heap
  <2>3. LoopInv'
    BY <1>1, <1>2, <1>6, <2>1, IdleLoops DEF list
  <2> QED
    BY <1>3, <1>4, <2>2, <2>3 DEF IInv
<1>7. CASE pc' # "idle"
  <2>1. /\ visited' = Append(visited, iter) /\ iter' = next[iter] /\ iter # NULL
        /\ UNCHANGED <<pc, arg, hit, reply>>
    BY <1>7 DEF TraverseVisit, TraverseEnd, ReturnVoid
  <2>2. PICK i \in DOMAIN chain : At(i) /\ visited = SubSeq(chain, 1, i - 1)
    BY <1>1, <2>1 DEF IInv, LoopInv, TraverseLoop
  <2>3. i \in 1 .. Len(chain) /\ iter = chain[i] /\ chain[i] \in Node
    BY <1>5, <2>2 DEF At
  <2>4. Append(SubSeq(chain, 1, i - 1), chain[i]) = SubSeq(chain, 1, i)
    BY <1>5, <2>3
  <2>5. visited' = SubSeq(chain', 1, i)
    BY <1>1, <2>1, <2>2, <2>3, <2>4 DEF list
  <2>6. TypeOK'
    BY <1>1, <1>5, <2>1, <2>3 DEF IInv, TypeOK, list, heap
  <2>7. Calls'
    BY <1>1, <1>2, <2>1 DEF IInv, LoopInv, Calls, list
  <2>8. TraverseLoop'
    <3>1. CASE i = Len(chain)
      <4>1. iter' = NULL /\ SubSeq(chain, 1, i) = chain
        BY <3>1, <1>5, <2>1, <2>3, NextOf
      <4> QED
        BY <4>1, <1>1, <2>5 DEF TraverseLoop, list
    <3>2. CASE i # Len(chain)
      <4>1. i + 1 \in DOMAIN chain /\ iter' = chain[i + 1] /\ (i + 1) - 1 = i
        BY <3>2, <1>5, <2>1, <2>3, NextOf
      <4> QED
        BY <4>1, <1>1, <2>5 DEF TraverseLoop, At, list
    <3> QED
      BY <3>1, <3>2
  <2> QED
    BY <1>1, <1>3, <1>4, <2>1, <2>6, <2>7, <2>8
       DEF IInv, LoopInv, SetLoop, StoreLoop, ReadLoop, RemoveLoop, DestroyLoop
<1> QED
  BY <1>6, <1>7

(* dict_destroy: the nodes behind iter have lost their keys, the others    *)
(* have them; dict_initialize starts over (dictionary.c:4-10, 147-161).    *)
LEMMA DestroyInv == IInv /\ (DestroyNode \/ DestroyEnd \/ Initialize) => IInv'
<1> SUFFICES ASSUME IInv, DestroyNode \/ DestroyEnd \/ Initialize PROVE IInv'
  OBVIOUS
<1>5. /\ chain \in Seq(Node) /\ DOMAIN chain = 1 .. Len(chain) /\ Len(chain) \in Nat
      /\ \A j \in DOMAIN chain : chain[j] \in Node /\ chain[j] # NULL
  BY ChainNodes DEF IInv, TypeOK
<1>1. CASE DestroyNode
  <2> USE <1>1 DEF DestroyNode, list
  <2>1. PICK i \in DOMAIN chain :
           At(i) /\ \A j \in DOMAIN chain : key[chain[j]] = NULL <=> j < i
    BY DEF IInv, LoopInv, DestroyLoop
  <2>2. i \in 1 .. Len(chain) /\ iter = chain[i] /\ chain[i] \in Node
    BY <1>5, <2>1 DEF At
  <2>3. \A j \in DOMAIN chain : key'[chain[j]] = NULL <=> j < i + 1
    <3> TAKE j \in DOMAIN chain
    <3>1. CASE j = i
      BY <3>1, <1>5, <2>2 DEF IInv, TypeOK
    <3>2. CASE j # i
      <4>1. chain[j] # chain[i]
        BY <3>2, <2>1 DEF IInv, ListShape, IsInjective
      <4>2. key'[chain[j]] = key[chain[j]]
        BY <4>1, <2>2, <1>5 DEF IInv, TypeOK
      <4> QED
        BY <4>2, <3>2, <2>1, <2>2, <1>5
    <3> QED
      BY <3>1, <3>2
  <2>4. TypeOK'
    BY <2>2 DEF IInv, TypeOK
  <2>5. ListShape'
    BY DEF IInv, ListShape, IsInjective, Range
  <2>6. Calls'
    BY DEF IInv, LoopInv, Calls
  <2>7. DestroyLoop'
    <3>1. CASE i = Len(chain)
      BY <3>1, <1>5, <2>2, <2>3, NextOf DEF DestroyLoop
    <3>2. CASE i # Len(chain)
      <4>1. i + 1 \in DOMAIN chain /\ iter' = chain[i + 1]
        BY <3>2, <1>5, <2>2, NextOf
      <4>2. At(i + 1)'
        BY <4>1 DEF At
      <4> QED
        BY <4>1, <4>2, <2>3 DEF DestroyLoop
    <3> QED
      BY <3>1, <3>2
  <2> QED
    BY <2>4, <2>5, <2>6, <2>7
       DEF IInv, UniqueKeys, LoopInv, SetLoop, StoreLoop, ReadLoop, RemoveLoop, TraverseLoop
<1>2. CASE DestroyEnd
  <2> USE <1>2 DEF DestroyEnd, ReturnVoid, heap
  <2>1. /\ exists' = FALSE /\ first' = NULL /\ length' = 0 /\ chain' = << >>
        /\ pc' = "idle" /\ arg' = NoArg /\ iter' = NULL /\ hit' = NULL
        /\ UNCHANGED <<next, key, value, alloc, reply, visited>> /\ visited = << >>
    BY DEF IInv, LoopInv, Calls
  <2>2. DOMAIN chain' = {} /\ Len(chain') = 0 /\ chain' \in Seq(Node)
    BY <2>1
  <2>6. NoArg \in Args
    BY DEF NoArg, Args
  <2>7. exists' \in BOOLEAN
    BY <2>1, Zenon
  <2>3. TypeOK'
    BY <2>1, <2>2, <2>6, <2>7 DEF IInv, TypeOK
  <2>4. ListShape' /\ UniqueKeys'
    BY <2>1, <2>2 DEF ListShape, IsInjective, Range, UniqueKeys
  <2>5. LoopInv'
    BY <2>1, IdleLoops
  <2> QED
    BY <2>3, <2>4, <2>5 DEF IInv
<1>3. CASE Initialize
  <2> USE <1>3 DEF Initialize, heap
  <2>1. TypeOK'
    BY DEF IInv, TypeOK
  <2>2. ListShape' /\ UniqueKeys'
    BY DEF IInv, ListShape, IsInjective, Range, UniqueKeys
  <2>3. LoopInv'
    BY IdleLoops DEF IInv, LoopInv, Calls
  <2> QED
    BY <2>1, <2>2, <2>3 DEF IInv
<1> QED
  BY <1>1, <1>2, <1>3

-----------------------------------------------------------------------------
(* The theorems                                                            *)

(* Whatever is called, in whatever order and with whatever mallocs         *)
(* failing, the invariant holds after every iteration of every loop.       *)
THEOREM Invariance == Spec => []IInv
<1>1. IInv /\ [Next]_vars => IInv'
  <2> SUFFICES ASSUME IInv, [Next]_vars PROVE IInv'
    OBVIOUS
  <2>1. CASE Step
    BY <2>1, SetWalkInv, SetUpdateInv, SetInsertInv, SetInsertFailsInv, CrashInv,
       ReadInv, RemoveNodeInv, RemoveWalkInv, TraverseInv, DestroyInv DEF Step
  <2>2. CASE Caller
    BY <2>2, CallInv, CrashInv, DestroyInv DEF Caller
  <2>3. CASE UNCHANGED vars
    BY <2>3 DEF vars, list, heap, IInv, TypeOK, ListShape, IsInjective, Range,
       UniqueKeys, LoopInv, SetLoop, StoreLoop, ReadLoop, RemoveLoop,
       TraverseLoop, DestroyLoop, Calls, At, MatchAt
  <2> QED
    BY <2>1, <2>2, <2>3 DEF Next, Crashed
<1> QED
  BY <1>1, InitInv, PTL DEF Spec

(* The variables keep to their types (dictionary.c:12-172).                *)
THEOREM TypeCorrect == Spec => []TypeOK
<1>1. IInv => TypeOK
  BY DEF IInv
<1> QED
  BY <1>1, Invariance, PTL

(* The pointers always spell out one acyclic list that `length' counts     *)
(* (dictionary.c:54-59, 110-131).                                          *)
THEOREM ShapeHolds == Spec => []ListShape
<1>1. IInv => ListShape
  BY DEF IInv
<1> QED
  BY <1>1, Invariance, PTL

(* The walk before an insertion is enough to keep keys unique              *)
(* (dictionary.c:16-24, 39-59).                                            *)
THEOREM KeysStayUnique == Spec => []UniqueKeys
<1>1. IInv => UniqueKeys
  BY DEF IInv
<1> QED
  BY <1>1, Invariance, PTL

(* No loop ever stands on a node that is freed or not the list's           *)
(* (dictionary.c:16-24, 70-76, 110-122, 139-144, 149-158).                 *)
THEOREM NoUseAfterFree == Spec => []CursorInList
<1>1. IInv => CursorInList
  <2> SUFFICES ASSUME IInv, iter # NULL PROVE iter \in Range(chain)
    BY DEF CursorInList
  <2>1. CASE pc = "store"
    BY <2>1, ChainNodes DEF IInv, LoopInv, StoreLoop, Range
  <2>2. CASE pc # "store"
    <3>1. \E i \in DOMAIN chain : iter = chain[i]
      BY <2>2 DEF IInv, TypeOK, Loops, LoopInv, SetLoop, ReadLoop, RemoveLoop,
                  TraverseLoop, DestroyLoop, Calls, At
    <3> QED
      BY <3>1 DEF Range
  <2> QED
    BY <2>1, <2>2
<1> QED
  BY <1>1, Invariance, PTL

(* dict_traverse hands out the nodes in list order, and all of them        *)
(* (dictionary.c:137-145).                                                 *)
THEOREM TraverseOrder == Spec => []TraverseInOrder
<1>1. IInv => TraverseInOrder
  <2> SUFFICES ASSUME IInv, pc = "traverse"
               PROVE  IsPrefix(visited, chain) /\ (iter = NULL => visited = chain)
    BY DEF TraverseInOrder
  <2>0. /\ chain \in Seq(Node) /\ DOMAIN chain = 1 .. Len(chain) /\ Len(chain) \in Nat
        /\ \A j \in DOMAIN chain : chain[j] # NULL
    BY ChainNodes DEF IInv, TypeOK
  <2>1. CASE iter = NULL
    BY <2>0, <2>1 DEF IInv, LoopInv, TraverseLoop, At, IsPrefix
  <2>2. CASE iter # NULL
    <3>1. PICK i \in DOMAIN chain : visited = SubSeq(chain, 1, i - 1)
      BY <2>2 DEF IInv, LoopInv, TraverseLoop
    <3>2. i \in 1 .. Len(chain)
      BY <2>0
    <3>3. Len(SubSeq(chain, 1, i - 1)) = i - 1
      BY <2>0, <3>2
    <3>4. SubSeq(SubSeq(chain, 1, i - 1), 1, i - 1) = SubSeq(chain, 1, i - 1)
      BY <2>0, <3>2
    <3> QED
      BY <2>0, <2>2, <3>1, <3>2, <3>3, <3>4 DEF IsPrefix
  <2> QED
    BY <2>1, <2>2
<1> QED
  BY <1>1, Invariance, PTL

(* A call that does not fail, other than dict_destroy, loses no node       *)
(* (dictionary.c:25-61, 123-131).                                          *)
THEOREM NothingLost == Spec => LostOnlyOnFailure
<1>1. ASSUME IInv, [Next]_vars, Lost' # Lost
      PROVE  reply'.code = "fatal" \/ pc = "destroy"
  <2>1. CASE alloc' = alloc /\ chain' = chain
    BY <1>1, <2>1 DEF Lost, Range
  <2>2. CASE SetInsert
    <3>1. PICK n \in Node \ alloc : alloc' = alloc \cup {n} /\ chain' = Append(chain, n)
      BY <2>2 DEF SetInsert
    <3>2. Range(chain') = Range(chain) \cup {n}
      <4>1. /\ DOMAIN chain' = 1 .. Len(chain) + 1 /\ DOMAIN chain = 1 .. Len(chain)
            /\ Len(chain) \in Nat /\ chain'[Len(chain) + 1] = n
            /\ \A j \in 1 .. Len(chain) : chain'[j] = chain[j]
        BY <1>1, <3>1 DEF IInv, TypeOK
      <4>2. Range(chain') \subseteq Range(chain) \cup {n}
        BY <4>1 DEF Range
      <4>3. Range(chain) \subseteq Range(chain') /\ n \in Range(chain')
        BY <4>1 DEF Range
      <4> QED
        BY <4>2, <4>3
    <3> QED
      BY <1>1, <3>1, <3>2 DEF Lost, IInv, ListShape
  <2>3. CASE SetInsertFails
    BY <2>3 DEF SetInsertFails, Return, Answer
  <2>4. ASSUME NEW k \in DOMAIN chain, Release(chain[k]) PROVE FALSE
    <3>1. (CHOOSE i \in DOMAIN chain : chain[i] = chain[k]) = k
      BY <1>1 DEF IInv, ListShape, IsInjective
    <3>2. alloc' = alloc \ {chain[k]} /\ chain' = RemoveAt(chain, k)
      BY <2>4, <3>1 DEF Release
    <3>3. chain \in Seq(Node) /\ k \in 1 .. Len(chain) /\ Len(chain) \in Nat
          /\ DOMAIN chain = 1 .. Len(chain)
      BY <1>1, ChainNodes DEF IInv, TypeOK
    <3>4. /\ chain' \in Seq(Node) /\ Len(chain') = Len(chain) - 1
          /\ \A j \in 1 .. Len(chain) - 1 :
                chain'[j] = IF j < k THEN chain[j] ELSE chain[j + 1]
      <4>1. /\ RemoveAt(chain, k) \in Seq(Node)
            /\ Len(RemoveAt(chain, k)) = Len(chain) - 1
            /\ \A j \in 1 .. Len(chain) - 1 :
                  RemoveAt(chain, k)[j] = IF j < k THEN chain[j] ELSE chain[j + 1]
        BY <3>3, RemoveAtFacts, Zenon
      <4> QED
        BY <4>1, <3>2, Zenon
    <3>5. Range(chain') \subseteq Range(chain)
      BY <3>3, <3>4 DEF Range
    <3>6. \A j \in DOMAIN chain : j # k => chain[j] \in Range(chain')
      <4> SUFFICES ASSUME NEW j \in DOMAIN chain, j # k
                   PROVE  \E m \in DOMAIN chain' : chain'[m] = chain[j]
        BY DEF Range
      <4>1. CASE j < k
        <5>1. j \in DOMAIN chain' /\ chain'[j] = chain[j]
          BY <4>1, <3>3, <3>4
        <5> QED
          BY <5>1
      <4>2. CASE j > k
        <5>1. j - 1 \in DOMAIN chain' /\ chain'[j - 1] = chain[j]
          BY <4>2, <3>3, <3>4
        <5> QED
          BY <5>1
      <4> QED
        BY <4>1, <4>2, <3>3
    <3>7. alloc \ Range(chain) = alloc' \ Range(chain')
      <4>1. ASSUME NEW x \in alloc' \ Range(chain') PROVE x \notin Range(chain)
        BY <4>1, <3>2, <3>6 DEF Range
      <4>2. ASSUME NEW x \in alloc \ Range(chain) PROVE x \in alloc' \ Range(chain')
        BY <4>2, <3>2, <3>5 DEF Range
      <4> QED
        BY <4>1, <4>2, <3>2
    <3> QED
      BY <1>1, <3>7 DEF Lost
  <2>5. CASE RemoveFirstNode \/ RemoveNextNode
    <3>1. PICK i \in DOMAIN chain : At(i)
      BY <1>1, <2>5 DEF IInv, LoopInv, RemoveLoop, RemoveFirstNode, RemoveNextNode, Matches
    <3>2. \E k \in DOMAIN chain : Release(chain[k])
      BY <1>1, <2>5, <3>1, NextOf DEF RemoveFirstNode, RemoveNextNode, Matches, At
    <3> QED
      BY <2>4, <3>2
  <2>6. CASE DestroyEnd
    BY <2>6 DEF DestroyEnd
  <2> QED
    BY <1>1, <2>1, <2>2, <2>3, <2>5, <2>6
       DEF Next, Step, Caller, Crashed, vars, list, heap, Call, Crash, SetWalk,
           SetUpdate, SetInsertCrashes, ReadNext, ReadHit, ReadCrashes, ReadMiss,
           RemoveWalk, RemoveMiss, TraverseVisit, TraverseEnd, DestroyNode,
           SetCall, ReadCall, RemoveCall, TraverseCall, DestroyCall,
           Initialize, InitializeCrashes
<1>2. IInv /\ [Next]_vars
        => [Lost' # Lost => reply'.code = "fatal" \/ pc = "destroy"]_vars
  BY <1>1
<1> QED
  BY <1>2, Invariance, PTL DEF Spec, LostOnlyOnFailure

(* One more place down the list, one node fewer ahead.                     *)
LEMMA AheadFalls ==
    ASSUME IInv, iter # NULL, pc \in Loops, iter' = next[iter], chain' = chain
    PROVE  Ahead' < Ahead
<1>1. /\ Len(chain) \in Nat /\ DOMAIN chain = 1 .. Len(chain)
      /\ \A j \in DOMAIN chain : chain[j] # NULL
  BY ChainNodes DEF IInv
<1>2. \A j, k \in DOMAIN chain : chain[j] = chain[k] => j = k
  BY DEF IInv, ListShape, IsInjective
<1>3. PICK i \in DOMAIN chain : iter = chain[i]
  <2>1. CASE pc = "store"
    BY <2>1, <1>1, ChainNodes DEF IInv, LoopInv, StoreLoop
  <2>2. CASE pc # "store"
    BY <2>2 DEF IInv, Loops, LoopInv, SetLoop, ReadLoop, RemoveLoop, TraverseLoop, DestroyLoop, At
  <2> QED
    BY <2>1, <2>2
<1>4. (CHOOSE j \in DOMAIN chain : chain[j] = iter) = i
  BY <1>2, <1>3
<1>5. Ahead = Len(chain) + 1 - i
  BY <1>4 DEF Ahead
<1>6. CASE i = Len(chain)
  <2>1. iter' = NULL
    BY <1>3, <1>6, NextOf
  <2>2. Ahead' = 0
    BY <2>1 DEF Ahead
  <2> QED
    BY <1>1, <1>5, <1>6, <2>2
<1>7. CASE i # Len(chain)
  <2>1. i + 1 \in DOMAIN chain /\ iter' = chain[i + 1] /\ iter' # NULL
    BY <1>3, <1>7, NextOf
  <2>2. (CHOOSE j \in DOMAIN chain : chain[j] = iter') = i + 1
    BY <1>2, <2>1
  <2>3. Ahead' = Len(chain) + 1 - (i + 1)
    BY <2>1, <2>2 DEF Ahead
  <2> QED
    BY <1>1, <1>5, <2>3
<1> QED
  BY <1>6, <1>7

(* No loop of dictionary.c runs forever: each iteration has fewer nodes    *)
(* ahead of it (dictionary.c:16-24, 70-76, 110-122, 139-144, 149-158).     *)
THEOREM CallsComeBack == Spec => LoopsMoveOn
<1>1. ASSUME IInv, [Next]_vars, vars' # vars, pc \in Loops, pc' = pc
      PROVE  Ahead' < Ahead
  <2>1. CASE SetWalk
    <3>1. iter # NULL /\ iter' = next[iter] /\ chain' = chain
      BY <1>1, <2>1 DEF SetWalk, list
    <3> QED
      BY <1>1, <3>1, AheadFalls
  <2>2. CASE ReadNext \/ RemoveWalk \/ DestroyNode
    <3>1. iter # NULL /\ iter' = next[iter] /\ chain' = chain
      BY <2>2 DEF ReadNext, RemoveWalk, DestroyNode, list
    <3> QED
      BY <1>1, <3>1, AheadFalls
  <2>3. CASE TraverseVisit
    <3>1. iter # NULL /\ iter' = next[iter] /\ chain' = chain
      BY <1>1, <2>3 DEF TraverseVisit, ReturnVoid, list
    <3> QED
      BY <1>1, <3>1, AheadFalls
  <2> QED
    BY <1>1, <2>1, <2>2, <2>3
       DEF Next, Step, Caller, Crashed, Loops, Call, Crash, Return, ReturnVoid, Release,
           SetUpdate, SetInsert, SetInsertFails, SetInsertCrashes, ReadHit, ReadCrashes, ReadMiss,
           RemoveFirstNode, RemoveNextNode, RemoveMiss, TraverseEnd, DestroyEnd,
           SetCall, ReadCall, RemoveCall, TraverseCall, DestroyCall, Initialize, InitializeCrashes
<1>2. IInv /\ [Next]_vars => [(pc \in Loops /\ pc' = pc) => (Ahead' < Ahead)]_vars
  BY <1>1
<1> QED
  BY <1>2, Invariance, PTL DEF Spec, LoopsMoveOn

-----------------------------------------------------------------------------
(* The linked list implements the atomic association list of AssocList.tla *)

(* The entries the pointers stand for, while no dict_destroy is under way. *)
LEMMA BarIsSeq ==
    ASSUME IInv, pc # "destroy"
    PROVE  /\ DOMAIN entriesBar = 1 .. Len(chain)
           /\ Len(entriesBar) = Len(chain) /\ Len(chain) \in Nat
           /\ entriesBar \in Seq([key : Key \cup {NULL}, value : Value \cup {NULL}])
           /\ \A i \in 1 .. Len(chain) :
                 entriesBar[i] = Entry(key[chain[i]], value[chain[i]])
<1>1. /\ DOMAIN chain = 1 .. Len(chain) /\ Len(chain) \in Nat
      /\ \A i \in 1 .. Len(chain) : chain[i] \in Node
  BY ChainNodes DEF IInv
<1>2. entriesBar = [i \in 1 .. Len(chain) |-> Entry(key[chain[i]], value[chain[i]])]
  BY <1>1 DEF entriesBar
<1>3. \A i \in 1 .. Len(chain) :
         Entry(key[chain[i]], value[chain[i]])
            \in [key : Key \cup {NULL}, value : Value \cup {NULL}]
  BY <1>1 DEF IInv, TypeOK, Entry
<1>4. entriesBar \in [1 .. Len(chain) -> [key : Key \cup {NULL}, value : Value \cup {NULL}]]
  BY <1>2, <1>3
<1> QED
  BY <1>1, <1>2, <1>4

(* A key is present exactly when a node of the list has it, and its place  *)
(* is that of the node.                                                    *)
LEMMA BarKeys ==
    ASSUME IInv, pc # "destroy", NEW k
    PROVE  /\ Has(entriesBar, k) <=> \E j \in DOMAIN chain : key[chain[j]] = k
           /\ \A j \in DOMAIN chain :
                 key[chain[j]] = k => /\ PlaceOf(entriesBar, k) = j
                                      /\ ValueOf(entriesBar, k) = value[chain[j]]
<1>1. DOMAIN chain = 1 .. Len(chain) /\ DOMAIN entriesBar = 1 .. Len(chain)
      /\ Len(chain) \in Nat
      /\ \A i \in 1 .. Len(chain) : /\ entriesBar[i].key = key[chain[i]]
                                    /\ entriesBar[i].value = value[chain[i]]
  BY BarIsSeq, ChainNodes DEF IInv, Entry
<1>2. Has(entriesBar, k) <=> \E j \in DOMAIN chain : key[chain[j]] = k
  BY <1>1 DEF Has
<1>3. ASSUME NEW j \in DOMAIN chain, key[chain[j]] = k
      PROVE  PlaceOf(entriesBar, k) = j
  <2>1. \A i \in DOMAIN entriesBar : entriesBar[i].key = k => i = j
    BY <1>1, <1>3 DEF IInv, UniqueKeys
  <2>2. j \in DOMAIN entriesBar /\ entriesBar[j].key = k /\ j <= j
    BY <1>1, <1>3
  <2> QED
    BY <2>1, <2>2 DEF PlaceOf
<1> QED
  BY <1>1, <1>2, <1>3 DEF ValueOf

(* Steps that touch neither the nodes of the list nor their contents.      *)
LEMMA BarFrame ==
    ASSUME IInv, chain' = chain, pc # "destroy", pc' # "destroy",
           \A j \in DOMAIN chain : /\ key'[chain[j]] = key[chain[j]]
                                   /\ value'[chain[j]] = value[chain[j]]
    PROVE  entriesBar' = entriesBar
BY DEF entriesBar

(* Loop iterations, calls other than dict_destroy and the void returns of  *)
(* dict_traverse and dict_destroy show nothing to the caller.              *)
LEMMA SilentStep ==
    ASSUME IInv,
           \/ SetWalk \/ ReadNext \/ RemoveWalk \/ TraverseVisit \/ TraverseEnd
           \/ DestroyNode \/ DestroyEnd
           \/ \E k \in Key, v \in Value : SetCall(k, v)
           \/ \E k \in Key, o \in Readers : ReadCall(o, k)
           \/ \E k \in Key : RemoveCall(k)
           \/ TraverseCall
    PROVE  UNCHANGED A!avars
<1>1. /\ reply' = reply
      /\ liveBar' = liveBar /\ deadBar' = deadBar
  BY DEF liveBar, deadBar, IInv, TypeOK, SetWalk, ReadNext, RemoveWalk, TraverseVisit, TraverseEnd, ReturnVoid,
         DestroyNode, DestroyEnd, SetCall, ReadCall, RemoveCall, TraverseCall,
         Call, list, heap
<1>2. entriesBar' = entriesBar
  <2>1. CASE DestroyNode
    BY <2>1 DEF DestroyNode, entriesBar
  <2>2. CASE DestroyEnd
    <3>1. pc = "destroy" /\ chain' = << >> /\ DOMAIN chain' = {}
      BY <2>2 DEF DestroyEnd
    <3>2. entriesBar = << >> /\ entriesBar' = << >>
      BY <3>1 DEF entriesBar
    <3> QED
      BY <3>2
  <2>3. CASE ~(DestroyNode \/ DestroyEnd)
    <3>1. UNCHANGED <<list, heap>> /\ pc # "destroy" /\ pc' # "destroy"
      BY <2>3 DEF SetWalk, ReadNext, RemoveWalk, TraverseVisit, TraverseEnd, ReturnVoid,
             SetCall, ReadCall, RemoveCall, TraverseCall, Call
    <3> QED
      BY <3>1, BarFrame DEF list, heap
  <2> QED
    BY <2>1, <2>2, <2>3
<1> QED
  BY <1>1, <1>2 DEF A!avars

(* What a returning call has in common with its atomic step.               *)
LEMMA ReturnStep ==
    ASSUME IInv, pc \in {"store", "read", "remove"}, pc' = "idle", exists' = exists
    PROVE  liveBar' = liveBar /\ deadBar' = deadBar
BY DEF IInv, LoopInv, Calls, liveBar, deadBar

(* AssocList and Dictionary speak of the same operators (AssocOps).        *)
LEMMA SameOps ==
    \A es, k, v, o, c :
       /\ A!Has(es, k) <=> Has(es, k)
       /\ A!ValueOf(es, k) = ValueOf(es, k)
       /\ A!OverwriteLast(es, v) = OverwriteLast(es, v)
       /\ A!Insert(es, k, v) = Insert(es, k, v)
       /\ A!RemoveElement(es, k) = RemoveElement(es, k)
       /\ A!Answer(o, k, c, v) = Answer(o, k, c, v)
       /\ A!Readers = Readers
<1> TAKE es, k, v, o, c
<1>1. A!Has(es, k) <=> Has(es, k)
  BY DEF A!Has, Has
<1>2. A!PlaceOf(es, k) = PlaceOf(es, k)
  BY DEF A!PlaceOf, PlaceOf
<1>3. A!ValueOf(es, k) = ValueOf(es, k)
  BY <1>2 DEF A!ValueOf, ValueOf
<1>4. A!OverwriteLast(es, v) = OverwriteLast(es, v)
  BY DEF A!OverwriteLast, OverwriteLast
<1>5. A!Insert(es, k, v) = Insert(es, k, v)
  BY DEF A!Insert, Insert, A!Entry, Entry
<1>6. A!RemoveElement(es, k) = RemoveElement(es, k)
  BY <1>2 DEF A!RemoveElement, RemoveElement, A!RemoveAt, RemoveAt
<1>7. A!Answer(o, k, c, v) = Answer(o, k, c, v) /\ A!Readers = Readers
  BY DEF A!Answer, Answer, A!Readers, Readers
<1> QED
  BY <1>1, <1>3, <1>4, <1>5, <1>6, <1>7

(* dict_set_element_s on a present key is AUpdate.                         *)
LEMMA UpdateStep == IInv /\ SetUpdate => \E k \in Key, v \in Value : A!AUpdate(k, v)
<1> SUFFICES ASSUME IInv, SetUpdate PROVE A!AUpdate(arg.key, arg.value)
  BY DEF SetUpdate, IInv, LoopInv, Calls
<1>1. /\ pc = "store" /\ pc' = "idle" /\ exists' = exists /\ chain' = chain /\ key' = key
      /\ arg.op = "set" /\ iter = chain[Len(chain)] /\ Len(chain) \in 1 .. Len(chain)
      /\ \E j \in DOMAIN chain : key[chain[j]] = arg.key
  BY ChainNodes DEF SetUpdate, Return, list, IInv, LoopInv, StoreLoop, Calls, MatchAt
<1>2. PICK c \in {"ok", "fatal"} :
         /\ value' = [value EXCEPT ![iter] = IF c = "ok" THEN arg.value ELSE NULL]
         /\ reply' = Answer("set", arg.key, c, arg.value)
  BY <1>1 DEF SetUpdate, Return
<1> DEFINE w == IF c = "ok" THEN arg.value ELSE NULL
<1>3. /\ DOMAIN chain = 1 .. Len(chain) /\ DOMAIN entriesBar = 1 .. Len(chain)
      /\ Len(entriesBar) = Len(chain)
      /\ \A i \in 1 .. Len(chain) :
            entriesBar[i] = Entry(key[chain[i]], value[chain[i]])
  BY <1>1, BarIsSeq, ChainNodes DEF IInv
<1>4. entriesBar' = [i \in 1 .. Len(chain) |-> Entry(key[chain[i]], value'[chain[i]])]
  BY <1>1, <1>3 DEF entriesBar
<1>5. \A i \in 1 .. Len(chain) :
         value'[chain[i]] = IF i = Len(chain) THEN w ELSE value[chain[i]]
  BY <1>1, <1>2, <1>3, ChainNodes DEF IInv, ListShape, IsInjective, TypeOK
<1>6. OverwriteLast(entriesBar, w)
         = [i \in 1 .. Len(chain) |-> IF i = Len(chain)
                                      THEN Entry(key[chain[i]], w)
                                      ELSE Entry(key[chain[i]], value[chain[i]])]
  <2> DEFINE m == Len(chain)
             es == entriesBar
  <2>1. es[m] = Entry(key[chain[m]], value[chain[m]]) /\ m \in DOMAIN es
    BY <1>1, <1>3
  <2>2. [es[m] EXCEPT !.value = w] = Entry(key[chain[m]], w)
    BY <2>1 DEF Entry
  <2>3. [es EXCEPT ![m].value = w]
          = [i \in DOMAIN es |-> IF i = m THEN [es[m] EXCEPT !.value = w] ELSE es[i]]
    BY <1>3
  <2>4. OverwriteLast(es, w) = [es EXCEPT ![m].value = w]
    BY <1>3 DEF OverwriteLast
  <2> QED
    BY <1>3, <2>2, <2>3, <2>4
<1>7. entriesBar' = OverwriteLast(entriesBar, w)
  BY <1>4, <1>5, <1>6
<1>8. Has(entriesBar, arg.key)
  BY <1>1, BarKeys
<1> QED
  BY <1>1, <1>2, <1>7, <1>8, ReturnStep, SameOps DEF A!AUpdate

(* dict_set_element_s on an absent key is AInsert, failed or not.          *)
LEMMA InsertStep ==
    IInv /\ (SetInsert \/ SetInsertFails) => \E k \in Key, v \in Value : A!AInsert(k, v)
<1> SUFFICES ASSUME IInv, SetInsert \/ SetInsertFails PROVE A!AInsert(arg.key, arg.value)
  BY DEF SetInsert, SetInsertFails, IInv, LoopInv, Calls
<1>1. /\ pc = "store" /\ pc' = "idle" /\ exists' = exists /\ arg.op = "set"
      /\ ~\E j \in DOMAIN chain : key[chain[j]] = arg.key
  BY DEF SetInsert, SetInsertFails, Return, list, IInv, LoopInv, StoreLoop, Calls, MatchAt
<1>2. ~Has(entriesBar, arg.key)
  BY <1>1, BarKeys
<1>3. /\ DOMAIN chain = 1 .. Len(chain) /\ DOMAIN entriesBar = 1 .. Len(chain)
      /\ Len(entriesBar) = Len(chain) /\ Len(chain) \in Nat
      /\ entriesBar \in Seq([key : Key \cup {NULL}, value : Value \cup {NULL}])
      /\ \A i \in 1 .. Len(chain) :
            entriesBar[i] = Entry(key[chain[i]], value[chain[i]])
      /\ \A i \in 1 .. Len(chain) : chain[i] \in Node
  BY <1>1, BarIsSeq, ChainNodes DEF IInv
<1>4. CASE SetInsert
  <2>1. PICK n \in Node \ alloc :
           /\ key' = [key EXCEPT ![n] = arg.key]
           /\ value' = [value EXCEPT ![n] = arg.value]
           /\ chain' = Append(chain, n)
    BY <1>4 DEF SetInsert
  <2>2. \A i \in 1 .. Len(chain) : chain[i] # n
    BY <1>3, <2>1 DEF IInv, ListShape, Range
  <2>3. /\ DOMAIN chain' = 1 .. Len(chain) + 1 /\ chain'[Len(chain) + 1] = n
        /\ \A i \in 1 .. Len(chain) : chain'[i] = chain[i]
    BY <1>3, <2>1 DEF IInv, TypeOK
  <2>4. /\ \A i \in 1 .. Len(chain) : /\ key'[chain'[i]] = key[chain[i]]
                                      /\ value'[chain'[i]] = value[chain[i]]
        /\ key'[n] = arg.key /\ value'[n] = arg.value
    BY <1>3, <2>1, <2>2, <2>3 DEF IInv, TypeOK
  <2>5. entriesBar' = [i \in 1 .. Len(chain) + 1 |->
                         Entry(key'[chain'[i]], value'[chain'[i]])]
    BY <1>1, <2>3 DEF entriesBar
  <2> DEFINE e == Entry(arg.key, arg.value)
             T == [key : Key \cup {NULL}, value : Value \cup {NULL}]
  <2>6. /\ entriesBar' \in Seq(T) /\ Len(entriesBar') = Len(chain) + 1
        /\ \A i \in 1 .. Len(chain) + 1 :
              entriesBar'[i] = Entry(key'[chain'[i]], value'[chain'[i]])
    <3>1. IInv' /\ pc' # "destroy" /\ Len(chain') = Len(chain) + 1
      BY <1>1, <1>3, <1>4, <2>1, SetInsertInv DEF IInv, TypeOK
    <3>2. \A i \in 1 .. Len(chain) + 1 :
             Entry(key'[chain'[i]], value'[chain'[i]]) \in T
      BY <2>3, <3>1, ChainNodes DEF IInv, TypeOK, Entry
    <3>3. entriesBar' \in [1 .. Len(chain) + 1 -> T]
      BY <2>5, <3>2
    <3> QED
      BY <1>3, <2>5, <3>3
  <2>7. /\ Append(entriesBar, e) \in Seq(T) /\ Len(Append(entriesBar, e)) = Len(chain) + 1
        /\ \A i \in 1 .. Len(chain) : Append(entriesBar, e)[i] = entriesBar[i]
        /\ Append(entriesBar, e)[Len(chain) + 1] = e
    <3>1. e \in T
      BY <1>1 DEF IInv, LoopInv, Calls, Entry
    <3> HIDE DEF e, T
    <3>2. entriesBar \in Seq(T)
      BY <1>3 DEF T
    <3> QED
      BY <1>3, <3>1, <3>2, AppendProperties
  <2>8. entriesBar' = Insert(entriesBar, arg.key, arg.value)
    <3>1. \A i \in 1 .. Len(chain) + 1 : entriesBar'[i] = Append(entriesBar, e)[i]
      BY <1>3, <2>3, <2>4, <2>6, <2>7
    <3> HIDE DEF T, e
    <3>2. entriesBar' = Append(entriesBar, e)
      BY <2>6, <2>7, <3>1, SeqEqual
    <3> QED
      BY <3>2 DEF Insert, e
  <2>9. reply' = Answer("set", arg.key, "ok", arg.value)
    BY <1>1, <1>4 DEF SetInsert, Return
  <2> QED
    BY <1>1, <1>2, <2>8, <2>9, ReturnStep, SameOps DEF A!AInsert
<1>5. CASE SetInsertFails
  <2>1. PICK n \in Node \ alloc, k \in {NULL, arg.key} : key' = [key EXCEPT ![n] = k]
    BY <1>5 DEF SetInsertFails
  <2>2. /\ chain' = chain /\ value' = value
        /\ reply' = Answer("set", arg.key, "fatal", arg.value)
    BY <1>1, <1>5 DEF SetInsertFails, list, Return
  <2>3. \A i \in DOMAIN chain : key'[chain[i]] = key[chain[i]]
    BY <1>3, <2>1 DEF IInv, ListShape, Range, TypeOK
  <2>4. entriesBar' = entriesBar
    BY <1>1, <2>2, <2>3, BarFrame
  <2> QED
    BY <1>1, <1>2, <2>2, <2>4, ReturnStep, SameOps DEF A!AInsert
<1> QED
  BY <1>4, <1>5

(* The end of a reader's walk is ARead: the first node that matches is the *)
(* entry of the key, and without one there is none.                        *)
LEMMA ReadStep ==
    IInv /\ (ReadHit \/ ReadMiss) => \E k \in Key, o \in Readers : A!ARead(o, k)
<1> SUFFICES ASSUME IInv, ReadHit \/ ReadMiss PROVE A!ARead(arg.op, arg.key)
  BY DEF ReadHit, ReadMiss, IInv, LoopInv, Calls
<1>1. /\ pc = "read" /\ pc' = "idle" /\ exists' = exists /\ chain' = chain
      /\ key' = key /\ value' = value
  BY DEF ReadHit, ReadMiss, Return, list, heap
<1>2. entriesBar' = entriesBar
  BY <1>1, BarFrame
<1>3. CASE ReadMiss
  <2>1. ~Has(entriesBar, arg.key)
    BY <1>1, <1>3, BarKeys, ChainNodes
       DEF ReadMiss, IInv, LoopInv, ReadLoop, MatchAt, At
  <2>2. reply' = Answer(arg.op, arg.key, "miss", NULL)
    BY <1>3 DEF ReadMiss, Return
  <2> QED
    BY <1>1, <1>2, <2>1, <2>2, ReturnStep, SameOps DEF A!ARead
<1>4. CASE ReadHit
  <2>1. PICK i \in DOMAIN chain : iter = chain[i] /\ key[chain[i]] = arg.key
    BY <1>1, <1>4 DEF ReadHit, Matches, IInv, LoopInv, ReadLoop, At
  <2>2. Has(entriesBar, arg.key) /\ ValueOf(entriesBar, arg.key) = value[iter]
    BY <1>1, <2>1, BarKeys
  <2>3. \/ reply' = Answer(arg.op, arg.key, "ok", IF arg.op \in {"get_s", "get"}
                                                  THEN value[iter] ELSE NULL)
        \/ arg.op = "get" /\ reply' = Answer(arg.op, arg.key, "miss", NULL)
    BY <1>4 DEF ReadHit, Return
  <2> QED
    BY <1>1, <1>2, <2>2, <2>3, ReturnStep, SameOps DEF A!ARead
<1> QED
  BY <1>3, <1>4

(* Releasing node k takes the k-th entry away.                             *)
LEMMA ReleaseBar ==
    ASSUME IInv, IInv', pc = "remove", NEW k \in DOMAIN chain,
           key[chain[k]] = arg.key, Release(chain[k])
    PROVE  entriesBar' = RemoveElement(entriesBar, arg.key)
<1> DEFINE T == [key : Key \cup {NULL}, value : Value \cup {NULL}]
<1>1. /\ Len(chain) \in Nat /\ DOMAIN chain = 1 .. Len(chain) /\ k \in 1 .. Len(chain)
      /\ chain \in Seq(Node) /\ \A i \in 1 .. Len(chain) : chain[i] \in Node
  BY ChainNodes DEF IInv, TypeOK
<1>2. /\ entriesBar \in Seq(T) /\ Len(entriesBar) = Len(chain)
      /\ \A i \in 1 .. Len(chain) :
            entriesBar[i] = Entry(key[chain[i]], value[chain[i]])
  BY BarIsSeq
<1>3. (CHOOSE i \in DOMAIN chain : chain[i] = chain[k]) = k
  BY DEF IInv, ListShape, IsInjective
<1>4. /\ pc' = "idle" /\ key' = [key EXCEPT ![chain[k]] = NULL]
      /\ value' = [value EXCEPT ![chain[k]] = NULL] /\ chain' = RemoveAt(chain, k)
  BY <1>3 DEF Release, Return
<1>5. /\ Len(chain') = Len(chain) - 1
      /\ \A j \in 1 .. Len(chain) - 1 :
            chain'[j] = IF j < k THEN chain[j] ELSE chain[j + 1]
  <2>1. /\ Len(RemoveAt(chain, k)) = Len(chain) - 1
        /\ \A j \in 1 .. Len(chain) - 1 :
              RemoveAt(chain, k)[j] = IF j < k THEN chain[j] ELSE chain[j + 1]
    BY <1>1, RemoveAtFacts, Zenon
  <2> QED
    BY <2>1, <1>4, Zenon
<1>6. PlaceOf(entriesBar, arg.key) = k
  BY BarKeys
<1>7. RemoveElement(entriesBar, arg.key) = RemoveAt(entriesBar, k)
  BY <1>6 DEF RemoveElement
<1> HIDE DEF T
<1>8. /\ RemoveAt(entriesBar, k) \in Seq(T)
      /\ Len(RemoveAt(entriesBar, k)) = Len(entriesBar) - 1
      /\ \A j \in 1 .. Len(entriesBar) - 1 :
            RemoveAt(entriesBar, k)[j] = IF j < k THEN entriesBar[j] ELSE entriesBar[j + 1]
  <2>1. k \in 1 .. Len(entriesBar)
    BY <1>1, <1>2
  <2> QED
    BY <1>2, <2>1, RemoveAtFacts, Zenon
<1>9. DOMAIN chain' = 1 .. Len(chain')
  BY ChainNodes DEF IInv
<1>10. entriesBar' = [i \in 1 .. Len(chain') |-> Entry(key'[chain'[i]], value'[chain'[i]])]
  BY <1>4, <1>9 DEF entriesBar
<1>11. \A j \in 1 .. Len(chain) - 1 :
          Entry(key'[chain'[j]], value'[chain'[j]])
             = IF j < k THEN entriesBar[j] ELSE entriesBar[j + 1]
  <2> TAKE j \in 1 .. Len(chain) - 1
  <2>1. CASE j < k
    <3>0. j \in 1 .. Len(chain) /\ j # k /\ chain'[j] = chain[j]
      BY <2>1, <1>1, <1>5
    <3>1. chain[j] # chain[k]
      BY <3>0, <1>1 DEF IInv, ListShape, IsInjective
    <3> QED
      BY <3>0, <3>1, <2>1, <1>1, <1>2, <1>4 DEF IInv, TypeOK
  <2>2. CASE ~(j < k)
    <3>1. /\ chain'[j] = chain[j + 1] /\ chain[j + 1] # chain[k]
          /\ j + 1 \in 1 .. Len(chain)
      BY <2>2, <1>1, <1>5 DEF IInv, ListShape, IsInjective
    <3> QED
      BY <3>1, <2>2, <1>1, <1>2, <1>4 DEF IInv, TypeOK
  <2> QED
    BY <2>1, <2>2
<1>12. \A j \in 1 .. Len(chain) - 1 :
          Entry(key'[chain'[j]], value'[chain'[j]]) = RemoveAt(entriesBar, k)[j]
  BY <1>2, <1>8, <1>11
<1>13. RemoveAt(entriesBar, k)
          = [j \in 1 .. Len(chain) - 1 |-> RemoveAt(entriesBar, k)[j]]
  BY <1>2, <1>8
<1> QED
  BY <1>5, <1>7, <1>10, <1>12, <1>13

(* dict_remove_element is ARemove.                                         *)
LEMMA RemoveStep ==
    IInv /\ (RemoveFirstNode \/ RemoveNextNode \/ RemoveMiss)
        => \E k \in Key : A!ARemove(k)
<1> SUFFICES ASSUME IInv, RemoveFirstNode \/ RemoveNextNode \/ RemoveMiss
             PROVE  A!ARemove(arg.key)
  BY DEF RemoveFirstNode, RemoveNextNode, RemoveMiss, IInv, LoopInv, Calls
<1>1. /\ pc = "remove" /\ pc' = "idle" /\ exists' = exists /\ arg.op = "remove"
  BY DEF RemoveFirstNode, RemoveNextNode, RemoveMiss, Release, Return, list,
         IInv, LoopInv, Calls
<1>2. CASE RemoveMiss
  <2>1. ~Has(entriesBar, arg.key)
    BY <1>1, <1>2, BarKeys, ChainNodes
       DEF RemoveMiss, IInv, LoopInv, RemoveLoop, MatchAt, At
  <2>2. reply' = Answer("remove", arg.key, "miss", NULL)
        /\ chain' = chain /\ key' = key /\ value' = value
    BY <1>1, <1>2 DEF RemoveMiss, Return, list, heap
  <2>3. entriesBar' = entriesBar
    BY <1>1, <2>2, BarFrame
  <2> QED
    BY <1>1, <2>1, <2>2, <2>3, ReturnStep, SameOps DEF A!ARemove
<1>3. CASE RemoveFirstNode \/ RemoveNextNode
  <2>1. PICK i \in DOMAIN chain : At(i)
    BY <1>3 DEF IInv, LoopInv, RemoveLoop, RemoveFirstNode, RemoveNextNode, Matches
  <2>2. PICK k \in DOMAIN chain : Release(chain[k]) /\ key[chain[k]] = arg.key
    BY <1>3, <2>1, NextOf DEF RemoveFirstNode, RemoveNextNode, Matches, At
  <2>3. IInv'
    BY <1>3, RemoveNodeInv
  <2>4. entriesBar' = RemoveElement(entriesBar, arg.key)
    BY <1>1, <2>2, <2>3, ReleaseBar
  <2>5. Has(entriesBar, arg.key) /\ reply' = Answer("remove", arg.key, "ok", NULL)
    BY <1>1, <2>2, BarKeys DEF Release, Return
  <2> QED
    BY <1>1, <2>4, <2>5, ReturnStep, SameOps DEF A!ARemove
<1> QED
  BY <1>2, <1>3

(* A crash is ADie, dict_destroy takes effect when it is called, and       *)
(* dict_initialize is ACreate.                                             *)
LEMMA LifeStep ==
    ASSUME IInv
    PROVE  /\ SetInsertCrashes \/ ReadCrashes \/ InitializeCrashes => A!ADie
           /\ DestroyCall => A!ADestroy
           /\ Initialize => A!ACreate
<1>1. SetInsertCrashes \/ ReadCrashes \/ InitializeCrashes => A!ADie
  <2> SUFFICES ASSUME SetInsertCrashes \/ ReadCrashes \/ InitializeCrashes PROVE A!ADie
    OBVIOUS
  <2>1. /\ pc \in {"store", "read", "idle"} /\ pc' = "crashed"
        /\ exists' = exists /\ chain' = chain /\ key' = key /\ value' = value
        /\ reply' = reply
    BY DEF SetInsertCrashes, ReadCrashes, InitializeCrashes, Crash, list, heap
  <2>2. entriesBar' = entriesBar
    BY <2>1, BarFrame
  <2> QED
    BY <2>1, <2>2 DEF A!ADie, liveBar, deadBar, IInv, TypeOK
<1>2. DestroyCall => A!ADestroy
  BY DEF DestroyCall, Call, A!ADestroy, liveBar, deadBar, entriesBar
<1>3. Initialize => A!ACreate
  <2> SUFFICES ASSUME Initialize PROVE A!ACreate
    OBVIOUS
  <2>1. entriesBar' = entriesBar
    BY BarFrame DEF Initialize, heap
  <2> QED
    BY <2>1 DEF Initialize, A!ACreate, liveBar, deadBar
<1> QED
  BY <1>1, <1>2, <1>3

-----------------------------------------------------------------------------
(* Every behaviour of the pointers is one of the association list: a call  *)
(* takes effect at one step and is answered as AssocList says, failures    *)
(* and crashes included (dictionary.c:4-172).                              *)
THEOREM Refinement == Spec => Implements
<1>1. Init => A!AInit
  <2> SUFFICES ASSUME Init PROVE A!AInit
    OBVIOUS
  <2>1. entriesBar = << >>
    BY DEF Init, entriesBar
  <2> QED
    BY <2>1, SameOps DEF Init, A!AInit, A!NoAnswer, liveBar, deadBar
<1>2. ASSUME IInv, [Next]_vars PROVE [A!ANext]_(A!avars)
  <2>1. CASE Step
    <3>1. CASE SetWalk \/ ReadNext \/ RemoveWalk \/ TraverseVisit \/ TraverseEnd
               \/ DestroyNode \/ DestroyEnd
      BY <3>1, <1>2, SilentStep
    <3>2. ~deadBar
      BY <2>1 DEF Step, deadBar, SetWalk, SetUpdate, SetInsert, SetInsertFails,
         SetInsertCrashes, ReadNext, ReadHit, ReadCrashes, ReadMiss,
         RemoveFirstNode, RemoveNextNode, RemoveWalk, RemoveMiss, TraverseVisit,
         TraverseEnd, DestroyNode, DestroyEnd
    <3>3. CASE SetInsertCrashes \/ ReadCrashes
      BY <3>2, <3>3, <1>2, LifeStep DEF A!ANext
    <3>4. CASE \/ SetUpdate \/ SetInsert \/ SetInsertFails \/ ReadHit \/ ReadMiss
               \/ RemoveFirstNode \/ RemoveNextNode \/ RemoveMiss
      <4>1. liveBar
        BY <3>4, <1>2 DEF liveBar, IInv, LoopInv, Calls, SetUpdate, SetInsert,
           SetInsertFails, ReadHit, ReadMiss, RemoveFirstNode, RemoveNextNode, RemoveMiss
      <4> QED
        BY <3>2, <3>4, <4>1, <1>2, UpdateStep, InsertStep, ReadStep, RemoveStep,
           SameOps DEF A!ANext
    <3> QED
      BY <2>1, <3>1, <3>3, <3>4 DEF Step
  <2>2. CASE Caller
    <3>1. CASE \/ \E k \in Key, v \in Value : SetCall(k, v)
               \/ \E k \in Key, o \in Readers : ReadCall(o, k)
               \/ \E k \in Key : RemoveCall(k)
               \/ TraverseCall
      BY <3>1, <1>2, SilentStep
    <3>2. CASE DestroyCall
      BY <3>2, <1>2, LifeStep DEF A!ANext, DestroyCall, Call, liveBar, deadBar
    <3>3. CASE Initialize \/ InitializeCrashes
      BY <3>3, <1>2, LifeStep
         DEF A!ANext, Initialize, InitializeCrashes, liveBar, deadBar
    <3> QED
      BY <2>2, <3>1, <3>2, <3>3 DEF Caller
  <2>3. CASE UNCHANGED vars
    BY <2>3 DEF vars, list, heap, A!avars, entriesBar, liveBar, deadBar
  <2> QED
    BY <1>2, <2>1, <2>2, <2>3 DEF Next, Crashed
<1> QED
  BY <1>1, <1>2, Invariance, PTL DEF Spec, Implements, A!ASpec
=============================================================================
