------------------------------ MODULE LuaTable ------------------------------
(***************************************************************************)
(* The tables of the script state (src/netdisk4tc/lua/ltable.c): an array  *)
(* part, a hash part of chained nodes that move when a new key finds its   *)
(* main position taken, the sizes both get when no node is free, and the   *)
(* traversal that pairs and lua_next make while fields are assigned.       *)
(* Every table of a script, the globals and the metatables are such a      *)
(* table; metatables also cache which events they have no field for.       *)
(***************************************************************************)
EXTENDS SequencesExt, FiniteSetsExt, Integers

CONSTANTS IntKey,       \* integer keys, positive
          StrKey,       \* other keys, collectable (strings)
          Event,        \* the strings among them that name metamethods
          Hash(_),      \* the hash of a key
          Value, Nil,
          ArraySizes,   \* narray of luaH_new
          HashSizes,    \* nhash of luaH_new
          MaxInt        \* MAX_INT of the code

TableAssumption ==
    /\ IntKey \subseteq Nat \ {0} /\ Event \subseteq StrKey
    /\ Nil \notin Value \cup StrKey /\ StrKey \cap Int = {}
    /\ ArraySizes \subseteq Nat /\ HashSizes \subseteq Nat /\ MaxInt \in Nat

VARIABLES
    t,      \* the table
    map,    \* history: what was assigned last to each key
    trav    \* a traversal: its control key, and history of it

tableVars == <<t, map, trav>>

Key == IntKey \cup StrKey
IsInt(k) == k \in Int

SizeNode(tab) == Cardinality(DOMAIN tab.node)
OddSize(tab) == IF SizeNode(tab) = 1 THEN 1 ELSE SizeNode(tab) - 1

MainPosition(tab, k) ==
    IF IsInt(k) THEN Hash(k) % OddSize(tab) ELSE Hash(k) % SizeNode(tab)

(* The first node with property P on the chain from node i, or -1.         *)
OnChain(tab, i, P(_)) ==
    LET walk[j \in {-1} \cup DOMAIN tab.node] ==
            IF j = -1 \/ P(j) THEN j ELSE walk[tab.node[j].next]
    IN  walk[i]

Holds(tab, j, k) == tab.node[j].key = k /\ ~tab.node[j].dead

InArray(tab, k) == IsInt(k) /\ k <= Len(tab.arr)

NodeOf(tab, k) == OnChain(tab, MainPosition(tab, k), LAMBDA j : Holds(tab, j, k))

Get(tab, k) ==
    IF InArray(tab, k) THEN tab.arr[k]
    ELSE LET j == NodeOf(tab, k) IN IF j = -1 THEN Nil ELSE tab.node[j].val

-----------------------------------------------------------------------------
(* New keys                                                                *)

FreeNode == [key |-> Nil, val |-> Nil, dead |-> FALSE, next |-> -1]

FreePos(tab) == {j \in 0 .. tab.lastfree - 1 : tab.node[j].key = Nil}

(* Mutant: the chain of the node that moves is not led to its new place.   *)
NewKey_NoRelink(tab, k) ==
    LET mp    == MainPosition(tab, k)
        free  == Max(FreePos(tab))
        other == MainPosition(tab, tab.node[mp].key)
        taken == [tab EXCEPT !.lastfree = free]
    IN  IF tab.node[mp].val = Nil /\ ~tab.dummy
        THEN [tab EXCEPT !.node[mp] = [@ EXCEPT !.key = k, !.dead = FALSE]]
        ELSE IF other # mp
        THEN [taken EXCEPT !.node[free] = tab.node[mp], !.node[mp] = [FreeNode EXCEPT !.key = k]]
        ELSE [taken EXCEPT !.node[free] = [FreeNode EXCEPT !.key = k, !.next = tab.node[mp].next],
                           !.node[mp].next = free]

(* newkey, where a free place is to be had or not needed.                  *)
NewKey(tab, k) ==
    LET mp    == MainPosition(tab, k)
        free  == Max(FreePos(tab))
        other == MainPosition(tab, tab.node[mp].key)
        prev  == OnChain(tab, other, LAMBDA j : tab.node[j].next = mp)
        taken == [tab EXCEPT !.lastfree = free]
    IN  IF tab.node[mp].val = Nil /\ ~tab.dummy
        THEN [tab EXCEPT !.node[mp] = [@ EXCEPT !.key = k, !.dead = FALSE]]
        ELSE IF other # mp
        THEN [taken EXCEPT !.node[free] = tab.node[mp],
                           !.node[mp] = [FreeNode EXCEPT !.key = k],
                           !.node[prev].next = free]
        ELSE [taken EXCEPT !.node[free] = [FreeNode EXCEPT !.key = k, !.next = tab.node[mp].next],
                           !.node[mp].next = free]

(* A key can go in without a larger hash part.                             *)
HasRoom(tab, k) ==
    \/ InArray(tab, k) \/ NodeOf(tab, k) # -1
    \/ tab.node[MainPosition(tab, k)].val = Nil /\ ~tab.dummy
    \/ FreePos(tab) # {}

(* luaH_set and the assignment to the value it answers with.               *)
Put(tab, k, v) ==
    LET found == InArray(tab, k) \/ NodeOf(tab, k) # -1
        with  == IF found THEN tab ELSE NewKey(tab, k)
    IN  IF InArray(tab, k) THEN [with EXCEPT !.arr[k] = v, !.flags = {}]
        ELSE [with EXCEPT !.node[NodeOf(with, k)].val = v, !.flags = {}]

-----------------------------------------------------------------------------
(* Rehash                                                                  *)

Pow2 == {2^i : i \in 0 .. 6}

EmptyPart(tab, nhash) ==
    LET size == IF nhash = 0 THEN 1 ELSE Min({p \in Pow2 : p >= nhash})
    IN  [tab EXCEPT !.node = [j \in 0 .. size - 1 |-> FreeNode], !.dummy = (nhash = 0),
                    !.lastfree = IF nhash = 0 THEN 0 ELSE size]

(* computesizes: the largest power of two with more than half of its       *)
(* indices in use.                                                         *)
ArraySize(used) ==
    LET fits == {p \in Pow2 : /\ p \div 2 < Cardinality(used)
                              /\ Cardinality(used \cap 1 .. p) > p \div 2
                              /\ used \cap (p \div 2 + 1) .. p # {}}
    IN  Max(fits \cup {0})

InUse(tab) == {tab.node[j].key : j \in {i \in DOMAIN tab.node : tab.node[i].val # Nil}}
ArrayInUse(tab) == {i \in 1 .. Len(tab.arr) : tab.arr[i] # Nil}

(* The array part changes its size, the hash part is made anew; what was   *)
(* in the slice cut off and, from the last node on, in the old hash part   *)
(* is put in again.                                                        *)
Resize(tab, nasize, nhsize) ==
    LET size  == Len(tab.arr)
        new   == [EmptyPart(tab, nhsize) EXCEPT
                    !.arr = [i \in 1 .. nasize |-> IF i <= size THEN tab.arr[i] ELSE Nil]]
        slice == [i \in 1 .. (IF size > nasize THEN size - nasize ELSE 0) |->
                    [key |-> nasize + i, val |-> tab.arr[nasize + i]]]
        old   == [i \in 1 .. SizeNode(tab) |->
                    [key |-> tab.node[SizeNode(tab) - i].key, val |-> tab.node[SizeNode(tab) - i].val]]
    IN  FoldLeft(LAMBDA acc, e : IF e.val = Nil THEN acc
                                 ELSE IF ~HasRoom(acc, e.key) THEN [acc EXCEPT !.stuck = TRUE]
                                 ELSE Put(acc, e.key, e.val),
                 new, slice \o old)

Rehash(tab, k) ==
    LET keys   == InUse(tab) \cup ArrayInUse(tab) \cup {k}
        ints   == {i \in keys : IsInt(i)}
        nasize == ArraySize(ints)
    IN  Resize(tab, nasize, Cardinality(keys) - Cardinality(ints \cap 1 .. nasize))

Set(tab, k, v) ==
    IF HasRoom(tab, k) THEN Put(tab, k, v)
    ELSE LET r == Rehash(tab, k)
         IN  IF HasRoom(r, k) THEN Put(r, k, v) ELSE [r EXCEPT !.stuck = TRUE]

-----------------------------------------------------------------------------
(* Length and traversal                                                    *)

(* A binary search between i, present or 0, and j, absent.                 *)
Search(tab, i, j) ==
    LET halve[lo \in 0 .. j, hi \in 0 .. j] ==
            LET m == (lo + hi) \div 2
            IN  IF hi - lo <= 1 THEN lo
                ELSE IF Get(tab, m) = Nil THEN halve[lo, m] ELSE halve[m, hi]
    IN  halve[i, j]

(* luaH_getn and unbound_search; beyond MaxInt the search goes linearly.   *)
GetN(tab) ==
    LET j    == Len(tab.arr)
        grow[i \in Nat, n \in Nat] ==
            IF Get(tab, n) = Nil THEN Search(tab, i, n)
            ELSE IF n * 2 > MaxInt THEN Min({x \in 1 .. MaxInt + 2 : Get(tab, x) = Nil}) - 1
            ELSE grow[n, n * 2]
    IN  IF j > 0 /\ Get(tab, j) = Nil THEN Search(tab, 0, j)
        ELSE IF tab.dummy THEN j ELSE grow[j, j + 1]

(* Mutant: only live keys are found.                                       *)
FindIndex_LiveOnly(tab, k) ==
    IF k = Nil THEN -1
    ELSE IF InArray(tab, k) THEN k - 1
    ELSE LET j == NodeOf(tab, k) IN IF j = -1 THEN -2 ELSE j + Len(tab.arr)

(* findindex: -1 before the first place, -2 for a key that is not there; a *)
(* dead key will do.                                                       *)
FindIndex(tab, k) ==
    IF k = Nil THEN -1
    ELSE IF InArray(tab, k) THEN k - 1
    ELSE LET j == OnChain(tab, MainPosition(tab, k), LAMBDA i : tab.node[i].key = k)
         IN  IF j = -1 THEN -2 ELSE j + Len(tab.arr)

(* The places with a value behind index i.                                 *)
Behind(tab, i) ==
    LET n == Len(tab.arr)
    IN  {x \in i + 1 .. n + SizeNode(tab) - 1 :
            IF x < n THEN tab.arr[x + 1] # Nil ELSE tab.node[x - n].val # Nil}

KeyAt(tab, x) == IF x < Len(tab.arr) THEN x + 1 ELSE tab.node[x - Len(tab.arr)].key

-----------------------------------------------------------------------------
NoTrav == [on |-> FALSE, key |-> Nil, seen |-> {}, due |-> {}, end |-> "none"]

NewTable(na, nh) ==
    EmptyPart([arr |-> [i \in 1 .. na |-> Nil], node |-> << >>, dummy |-> TRUE,
               lastfree |-> 0, flags |-> Event, stuck |-> FALSE], nh)

TableInit ==
    /\ t \in {NewTable(na, nh) : na \in ArraySizes, nh \in HashSizes}
    /\ map = [k \in Key |-> Nil]
    /\ trav = NoTrav

(* Assigning to a field that has no value, be it nil, leaves a traversal   *)
(* undefined (the manual's words of next): it is not followed any more.    *)
Assign(k, v) ==
    /\ t' = Set(t, k, v)
    /\ map' = [map EXCEPT ![k] = v]
    /\ trav' = IF trav.on /\ map[k] # Nil
               THEN [trav EXCEPT !.due = IF v = Nil THEN @ \ {k} ELSE @]
               ELSE NoTrav

(* A collection marks the keys of entries without a value dead (lgc.c,     *)
(* removeentry).                                                           *)
RemoveEntries ==
    /\ t' = [t EXCEPT !.node = [j \in DOMAIN t.node |->
                [t.node[j] EXCEPT !.dead = @ \/ (t.node[j].val = Nil /\ t.node[j].key \in StrKey)]]]
    /\ UNCHANGED <<map, trav>>

(* luaT_gettm: the metamethod is looked for, its absence is noted.         *)
GetTM(e) ==
    /\ e \notin t.flags /\ Get(t, e) = Nil
    /\ t' = [t EXCEPT !.flags = @ \cup {e}]
    /\ UNCHANGED <<map, trav>>

Traverse ==
    /\ ~trav.on
    /\ trav' = [NoTrav EXCEPT !.on = TRUE, !.due = {k \in Key : map[k] # Nil}]
    /\ UNCHANGED <<t, map>>

TraverseNext ==
    LET i == FindIndex(t, trav.key) IN
    /\ trav.on
    /\ trav' = IF i = -2 THEN [trav EXCEPT !.on = FALSE, !.end = "invalid key"]
               ELSE IF Behind(t, i) = {} THEN [trav EXCEPT !.on = FALSE, !.end = "done"]
               ELSE LET k == KeyAt(t, Min(Behind(t, i)))
                    IN  [trav EXCEPT !.key = k, !.seen = @ \cup {k},
                                     !.end = IF k \in trav.seen THEN "twice" ELSE @]
    /\ UNCHANGED <<t, map>>

TableNext ==
    \/ \E k \in Key, v \in Value \cup {Nil} : Assign(k, v)
    \/ \E e \in Event : GetTM(e)
    \/ RemoveEntries \/ Traverse \/ TraverseNext

TableSpec == TableInit /\ [][TableNext]_tableVars

-----------------------------------------------------------------------------
(* The table answers as the map that was assigned, whatever moved, died or *)
(* was put in again; its length is a border of that map (ltable.c:536-538);*)
(* an event noted as absent has no field; a rehash always makes room.      *)
TableIsAMap ==
    /\ ~t.stuck
    /\ \A k \in Key : Get(t, k) = map[k]
    /\ LET n == GetN(t) IN /\ n > 0 => Get(t, n) # Nil
                           /\ n + 1 \in IntKey => Get(t, n + 1) = Nil
    /\ \A e \in t.flags : map[e] = Nil

(* A traversal in which no new field is assigned comes to its end, meets   *)
(* no key twice, and meets every key that kept a value all along - also    *)
(* when the field it stands on is cleared and collected.                   *)
TraversalIsComplete ==
    /\ trav.end \notin {"invalid key", "twice"}
    /\ trav.end = "done" => trav.due \subseteq trav.seen
=============================================================================
