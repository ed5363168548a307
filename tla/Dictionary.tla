----------------------------- MODULE Dictionary -----------------------------
(***************************************************************************)
(* The linked-list dictionary of src/netdisk4tc/dictionary.c, at the level *)
(* of its pointers: one step per loop iteration, malloc may fail, memory   *)
(* that is freed or lost stays visible in `alloc'.                         *)
(*                                                                         *)
(* `chain' is a history variable: the nodes reachable from `first', in     *)
(* order.  No code reads it; the properties say what it has to do with the *)
(* pointers.                                                               *)
(***************************************************************************)
EXTENDS AssocOps

CONSTANTS Key,      \* key strings, compared with wcscmp
          Value,    \* contents of the value blocks
          Node,     \* addresses malloc can return for a DictEntry
          NULL

ASSUME NullAssumption == NULL \notin Key \cup Value \cup Node

VARIABLES
    exists,     \* *pdict is not NULL
    first,      \* pdict->first
    length,     \* pdict->length
    next,       \* next pointer of each DictEntry
    key,        \* its key, NULL when not allocated
    value,      \* its value block, NULL when not allocated
    alloc,      \* the DictEntry structs malloc has handed out and not got back
    pc,         \* the loop, or the code after it, that runs next
    arg,        \* arguments of the running call
    iter,       \* the local variable iter (node in dict_traverse)
    hit,        \* the local variable node of dict_set_element_s
    reply,      \* answer of the last call that returned
    visited,    \* what dict_traverse has given its enumerator in this call
    chain       \* history: nodes reachable from first, in order

heap == <<next, key, value, alloc>>
list == <<exists, first, length, chain>>
vars == <<list, heap, pc, arg, iter, hit, reply, visited>>

Args == [op : {"none", "set", "remove", "traverse", "destroy"} \cup Readers,
         key : Key \cup {NULL}, value : Value \cup {NULL}]
NoArg == [op |-> "none", key |-> NULL, value |-> NULL]
Loops == {"set", "store", "read", "remove", "traverse", "destroy"}

Init ==
    /\ exists = TRUE /\ first = NULL /\ length = 0 /\ chain = << >>
    /\ next = [n \in Node |-> NULL]
    /\ key = [n \in Node |-> NULL]
    /\ value = [n \in Node |-> NULL]
    /\ alloc = {}
    /\ pc = "idle" /\ arg = NoArg /\ iter = NULL /\ hit = NULL
    /\ reply = Answer("none", NULL, "none", NULL)
    /\ visited = << >>

-----------------------------------------------------------------------------
(* Calls and returns                                                       *)

Call(loop, o, k, v) ==
    /\ pc = "idle" /\ exists
    /\ pc' = loop
    /\ arg' = [op |-> o, key |-> k, value |-> v]
    /\ iter' = first
    /\ hit' = NULL
    /\ UNCHANGED <<list, heap, reply>>

ReturnVoid ==
    /\ pc' = "idle" /\ arg' = NoArg /\ iter' = NULL /\ hit' = NULL
    /\ reply' = reply

Return(c, v) ==
    /\ pc' = "idle" /\ arg' = NoArg /\ iter' = NULL /\ hit' = NULL
    /\ reply' = Answer(arg.op, arg.key, c, v)

(* An access through NULL: the process ends.                               *)
Crash ==
    /\ pc' = "crashed" /\ iter' = NULL /\ hit' = NULL
    /\ UNCHANGED <<list, heap, arg, reply, visited>>

Matches(n) == n # NULL /\ key[n] = arg.key

-----------------------------------------------------------------------------
(* dict_set_element_s; dict_set_element is the same with no destroyer      *)

SetCall(k, v) == Call("set", "set", k, v) /\ UNCHANGED visited

(* Mutant: the loop condition is iter->next, the last node is not compared. *)
SetWalk_SkipsLast ==
    /\ pc = "set"
    /\ IF iter = NULL \/ next[iter] = NULL
       THEN pc' = "store" /\ UNCHANGED <<iter, hit>>
       ELSE /\ pc' = pc /\ iter' = next[iter]
            /\ hit' = IF Matches(iter) THEN iter ELSE hit
    /\ UNCHANGED <<list, heap, arg, reply, visited>>

(* Mutant: after a match the loop does not advance.                        *)
SetWalk_StaysOnMatch ==
    /\ pc = "set"
    /\ hit' = IF Matches(iter) THEN iter ELSE hit
    /\ IF iter = NULL \/ next[iter] = NULL
       THEN pc' = "store" /\ iter' = iter
       ELSE pc' = pc /\ iter' = IF Matches(iter) THEN iter ELSE next[iter]
    /\ UNCHANGED <<list, heap, arg, reply, visited>>

(* The loop does not stop at a match: it leaves iter on the last node.     *)
SetWalk ==
    /\ pc = "set"
    /\ hit' = IF Matches(iter) THEN iter ELSE hit
    /\ IF iter = NULL \/ next[iter] = NULL
       THEN pc' = "store" /\ iter' = iter
       ELSE pc' = pc /\ iter' = next[iter]
    /\ UNCHANGED <<list, heap, arg, reply, visited>>

(* The old value is released first, so a failed malloc leaves none.        *)
SetUpdate ==
    /\ pc = "store" /\ hit # NULL
    /\ \/ value' = [value EXCEPT ![iter] = arg.value] /\ Return("ok", arg.value)
       \/ value' = [value EXCEPT ![iter] = NULL] /\ Return("fatal", arg.value)
    /\ UNCHANGED <<list, next, key, alloc, visited>>

SetInsert ==
    /\ pc = "store" /\ hit = NULL
    /\ \E n \in Node \ alloc :
          /\ alloc' = alloc \cup {n}
          /\ key' = [key EXCEPT ![n] = arg.key]
          /\ value' = [value EXCEPT ![n] = arg.value]
          /\ IF iter # NULL
             THEN next' = [next EXCEPT ![n] = NULL, ![iter] = n] /\ first' = first
             ELSE next' = [next EXCEPT ![n] = NULL] /\ first' = n
          /\ chain' = Append(chain, n)
    /\ length' = length + 1
    /\ Return("ok", arg.value)
    /\ UNCHANGED <<exists, visited>>

(* No memory for the key or for the value: the struct, and the key if      *)
(* there is one, stay allocated and nothing points to them.                *)
SetInsertFails ==
    /\ pc = "store" /\ hit = NULL
    /\ \E n \in Node \ alloc, k \in {NULL, arg.key} :
          /\ alloc' = alloc \cup {n}
          /\ key' = [key EXCEPT ![n] = k]
          /\ next' = [next EXCEPT ![n] = NULL]
    /\ Return("fatal", arg.value)
    /\ UNCHANGED <<list, value, visited>>

(* malloc of the struct is not checked before memset.                      *)
SetInsertCrashes == pc = "store" /\ hit = NULL /\ Crash

-----------------------------------------------------------------------------
(* dict_get_element_s, dict_get_element, dict_exists, dict_get_element_size *)

ReadCall(o, k) == Call("read", o, k, NULL) /\ UNCHANGED visited

ReadNext ==
    /\ pc = "read" /\ iter # NULL /\ ~Matches(iter)
    /\ iter' = next[iter]
    /\ UNCHANGED <<list, heap, pc, arg, hit, reply, visited>>

ReadHit ==
    /\ pc = "read" /\ Matches(iter)
    /\ \/ /\ arg.op = "get" => value[iter] # NULL
          /\ Return("ok", IF arg.op \in {"get_s", "get"} THEN value[iter] ELSE NULL)
       \/ arg.op = "get" /\ Return("miss", NULL)     \* no memory for the copy
    /\ UNCHANGED <<list, heap, visited>>

(* The copy reads through a value lost in SetUpdate, with the size left.   *)
ReadCrashes ==
    /\ pc = "read" /\ Matches(iter) /\ arg.op = "get" /\ value[iter] = NULL
    /\ Crash

ReadMiss ==
    /\ pc = "read" /\ iter = NULL
    /\ Return("miss", NULL)
    /\ UNCHANGED <<list, heap, visited>>

-----------------------------------------------------------------------------
(* dict_remove_element                                                     *)

RemoveCall(k) == Call("remove", "remove", k, NULL) /\ UNCHANGED visited

(* Mutant: free(hit) is missing.                                           *)
Release_KeepsNode(n) ==
    /\ key' = [key EXCEPT ![n] = NULL]
    /\ value' = [value EXCEPT ![n] = NULL]
    /\ alloc' = alloc
    /\ chain' = RemoveAt(chain, CHOOSE i \in DOMAIN chain : chain[i] = n)
    /\ length' = length - 1
    /\ Return("ok", NULL)
    /\ UNCHANGED <<exists, visited>>

Release(n) ==
    /\ key' = [key EXCEPT ![n] = NULL]
    /\ value' = [value EXCEPT ![n] = NULL]
    /\ alloc' = alloc \ {n}
    /\ chain' = RemoveAt(chain, CHOOSE i \in DOMAIN chain : chain[i] = n)
    /\ length' = length - 1
    /\ Return("ok", NULL)
    /\ UNCHANGED <<exists, visited>>

(* Mutant: pdict->first still points to the removed node.                  *)
RemoveFirstNode_KeepsFirst ==
    /\ pc = "remove" /\ first = iter /\ Matches(iter)
    /\ UNCHANGED <<first, next>>
    /\ Release(iter)

RemoveFirstNode ==
    /\ pc = "remove" /\ first = iter /\ Matches(iter)
    /\ first' = next[iter]
    /\ next' = next
    /\ Release(iter)

RemoveNextNode ==
    /\ pc = "remove" /\ iter # NULL /\ ~(first = iter /\ Matches(iter))
    /\ Matches(next[iter])
    /\ next' = [next EXCEPT ![iter] = next[next[iter]]]
    /\ first' = first
    /\ Release(next[iter])

RemoveWalk ==
    /\ pc = "remove" /\ iter # NULL /\ ~(first = iter /\ Matches(iter))
    /\ ~Matches(next[iter])
    /\ iter' = next[iter]
    /\ UNCHANGED <<list, heap, pc, arg, hit, reply, visited>>

(* Mutant: the length goes down although nothing was found.                *)
RemoveMiss_Counts ==
    /\ pc = "remove" /\ iter = NULL
    /\ length' = length - 1
    /\ Return("miss", NULL)
    /\ UNCHANGED <<exists, first, chain, heap, visited>>

RemoveMiss ==
    /\ pc = "remove" /\ iter = NULL
    /\ Return("miss", NULL)
    /\ UNCHANGED <<list, heap, visited>>

-----------------------------------------------------------------------------
(* dict_traverse: the enumerator may ask to stop at any node               *)

(* Mutant: the walk starts behind the first node.                          *)
TraverseCall_SkipsFirst ==
    /\ pc = "idle" /\ exists /\ first # NULL
    /\ pc' = "traverse" /\ arg' = [NoArg EXCEPT !.op = "traverse"]
    /\ iter' = next[first]
    /\ UNCHANGED <<list, heap, hit, reply, visited>>

TraverseCall == Call("traverse", "traverse", NULL, NULL) /\ UNCHANGED visited

TraverseVisit ==
    /\ pc = "traverse" /\ iter # NULL
    /\ \/ /\ visited' = Append(visited, iter)
          /\ iter' = next[iter]
          /\ UNCHANGED <<pc, arg, hit, reply>>
       \/ visited' = << >> /\ ReturnVoid
    /\ UNCHANGED <<list, heap>>

TraverseEnd ==
    /\ pc = "traverse" /\ iter = NULL
    /\ visited' = << >>
    /\ ReturnVoid
    /\ UNCHANGED <<list, heap>>

-----------------------------------------------------------------------------
(* dict_destroy and dict_initialize                                        *)

DestroyCall == Call("destroy", "destroy", NULL, NULL) /\ UNCHANGED visited

(* Key and value are released, the DictEntry itself is not.                *)
DestroyNode ==
    /\ pc = "destroy" /\ iter # NULL
    /\ iter' = next[iter]
    /\ key' = [key EXCEPT ![iter] = NULL]
    /\ value' = [value EXCEPT ![iter] = NULL]
    /\ UNCHANGED <<list, next, alloc, pc, arg, hit, reply, visited>>

DestroyEnd ==
    /\ pc = "destroy" /\ iter = NULL
    /\ exists' = FALSE /\ first' = NULL /\ length' = 0 /\ chain' = << >>
    /\ ReturnVoid
    /\ UNCHANGED <<heap, visited>>

Initialize ==
    /\ pc = "idle" /\ ~exists
    /\ exists' = TRUE
    /\ UNCHANGED <<first, length, chain, heap, pc, arg, iter, hit, reply, visited>>

(* malloc of the Dictionary is not checked before memset.                  *)
InitializeCrashes == pc = "idle" /\ ~exists /\ Crash

-----------------------------------------------------------------------------
Step ==
    \/ SetWalk \/ SetUpdate \/ SetInsert \/ SetInsertFails \/ SetInsertCrashes
    \/ ReadNext \/ ReadHit \/ ReadCrashes \/ ReadMiss
    \/ RemoveFirstNode \/ RemoveNextNode \/ RemoveWalk \/ RemoveMiss
    \/ TraverseVisit \/ TraverseEnd
    \/ DestroyNode \/ DestroyEnd

Caller ==
    \/ \E k \in Key, v \in Value : SetCall(k, v)
    \/ \E k \in Key, o \in Readers : ReadCall(o, k)
    \/ \E k \in Key : RemoveCall(k)
    \/ TraverseCall \/ DestroyCall
    \/ Initialize \/ InitializeCrashes

(* A process that has crashed stays crashed.                               *)
Crashed == pc = "crashed" /\ UNCHANGED vars

Next == Step \/ Caller \/ Crashed

Spec == Init /\ [][Next]_vars

-----------------------------------------------------------------------------
(* Properties                                                              *)

(* Every variable keeps to its type: dictionary.c:12-172.                  *)
TypeOK ==
    /\ exists \in BOOLEAN /\ length \in Nat
    /\ first \in Node \cup {NULL}
    /\ next \in [Node -> Node \cup {NULL}]
    /\ key \in [Node -> Key \cup {NULL}]
    /\ value \in [Node -> Value \cup {NULL}]
    /\ alloc \in SUBSET Node
    /\ pc \in Loops \cup {"idle", "crashed"}
    /\ arg \in Args
    /\ iter \in Node \cup {NULL} /\ hit \in Node \cup {NULL}
    /\ reply \in [op : {"none", "set", "remove"} \cup Readers,
                  key : Key \cup {NULL}, value : Value \cup {NULL},
                  code : {"none", "ok", "fatal", "miss"}]
    /\ visited \in Seq(Node)
    /\ chain \in Seq(Node)

(* The pointers spell out one list without cycles or sharing, every node   *)
(* of it is allocated, and `length' counts it (dictionary.c:54-59, 110-131). *)
ListShape ==
    /\ IsInjective(chain)
    /\ Range(chain) \subseteq alloc
    /\ length = Len(chain)
    /\ first = IF chain = << >> THEN NULL ELSE chain[1]
    /\ \A i \in DOMAIN chain :
          next[chain[i]] = IF i = Len(chain) THEN NULL ELSE chain[i + 1]

(* No two entries ever have the same key, although the check for it is a   *)
(* walk that ends before the entry is added (dictionary.c:16-24, 39-59).   *)
UniqueKeys ==
    pc # "destroy" =>
        \A i, j \in DOMAIN chain :
            /\ key[chain[i]] # NULL
            /\ key[chain[i]] = key[chain[j]] => i = j

(* Every loop dereferences iter only while it is a node of the list, never *)
(* a freed or leaked one (dictionary.c:17, 71, 84, 100, 111-121, 139-152). *)
CursorInList == iter # NULL => iter \in Range(chain)

(* What each loop knows of the nodes behind iter.                          *)
At(i) == i \in DOMAIN chain /\ iter = chain[i]
MatchAt(j) == key[chain[j]] = arg.key
SetLoop ==
    pc = "set" =>
        \/ chain = << >> /\ iter = NULL /\ hit = NULL
        \/ \E i \in DOMAIN chain :
              At(i) /\ (hit # NULL <=> \E j \in 1 .. i - 1 : MatchAt(j))
StoreLoop ==
    pc = "store" =>
        /\ iter = IF chain = << >> THEN NULL ELSE chain[Len(chain)]
        /\ hit # NULL <=> \E j \in DOMAIN chain : MatchAt(j)
ReadLoop ==
    pc = "read" =>
        \/ iter = NULL /\ \A j \in DOMAIN chain : ~MatchAt(j)
        \/ \E i \in DOMAIN chain : At(i) /\ \A j \in 1 .. i - 1 : ~MatchAt(j)
RemoveLoop ==
    pc = "remove" =>
        \/ iter = NULL /\ \A j \in DOMAIN chain : ~MatchAt(j)
        \/ \E i \in DOMAIN chain :
              At(i) /\ (i = 1 \/ \A j \in 1 .. i : ~MatchAt(j))
TraverseLoop ==
    pc = "traverse" =>
        \/ iter = NULL /\ visited = chain
        \/ \E i \in DOMAIN chain : At(i) /\ visited = SubSeq(chain, 1, i - 1)
DestroyLoop ==
    pc = "destroy" =>
        \/ iter = NULL /\ \A j \in DOMAIN chain : key[chain[j]] = NULL
        \/ \E i \in DOMAIN chain :
              At(i) /\ \A j \in DOMAIN chain : key[chain[j]] = NULL <=> j < i
Calls ==
    /\ pc \in {"set", "store", "read", "remove"} => exists /\ arg.key \in Key
    /\ pc \in {"set", "store"} => arg.op = "set" /\ arg.value \in Value
    /\ pc = "read" => arg.op \in Readers
    /\ pc = "remove" => arg.op = "remove"
    /\ pc \in {"traverse", "destroy"} => exists
    /\ pc \in {"idle", "crashed"} => iter = NULL
    /\ ~exists => chain = << >>
    /\ pc # "traverse" => visited = << >>

(* The loop invariants together: where iter is and what the code already   *)
(* knows there.  With ListShape and UniqueKeys they are inductive.         *)
LoopInv ==
    /\ SetLoop /\ StoreLoop /\ ReadLoop /\ RemoveLoop
    /\ TraverseLoop /\ DestroyLoop /\ Calls

(* An enumerator is given each node once, in list order, and all of them   *)
(* unless it stops the walk itself (dictionary.c:137-145).                 *)
TraverseInOrder ==
    pc = "traverse" =>
        IsPrefix(visited, chain) /\ (iter = NULL => visited = chain)

(* Memory is lost only by a call that reports DICT_FATAL and by            *)
(* dict_destroy: every other call keeps each allocated node in the list    *)
(* or gives it back (dictionary.c:25-61, 123-131).                         *)
Lost == alloc \ Range(chain)
LostOnlyOnFailure ==
    [][Lost' # Lost => reply'.code = "fatal" \/ pc = "destroy"]_vars

(* The atomic association list this implements.                            *)
entriesBar ==
    IF pc = "destroy" THEN << >>
    ELSE [i \in DOMAIN chain |-> Entry(key[chain[i]], value[chain[i]])]
liveBar == exists /\ pc # "destroy"
deadBar == pc = "crashed"
A == INSTANCE AssocList WITH
        live <- liveBar, entries <- entriesBar, reply <- reply, dead <- deadBar

(* Each call takes effect at one of its steps, and its answer, including   *)
(* the failures, is the one AssocList allows (dictionary.c:12-172).        *)
Implements == A!ASpec

(* Every iteration of a loop has fewer nodes ahead of it than the one      *)
(* before, whatever was inserted and removed, so that every call comes     *)
(* back (the loops of dictionary.c:16, 70, 82, 99, 110, 139, 149).         *)
Ahead ==
    IF iter = NULL THEN 0
    ELSE Len(chain) + 1 - (CHOOSE i \in DOMAIN chain : chain[i] = iter)
LoopsMoveOn == [][(pc \in Loops /\ pc' = pc) => (Ahead' < Ahead)]_vars

(* dictionary.h:75: a set updates "the specific entry" of its key.  A      *)
(* successful set leaves its value under its key and no other key changed. *)
SetUpdatesItsKey ==
    [][pc = "store" /\ pc' = "idle" /\ reply'.code = "ok" =>
         \A i \in DOMAIN chain' :
            value'[chain'[i]] = IF key'[chain'[i]] = arg.key THEN arg.value
                                ELSE value[chain'[i]]]_vars
=============================================================================
