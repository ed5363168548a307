------------------------------- MODULE LuaGC --------------------------------
(***************************************************************************)
(* The incremental collector of the Lua state the plugin keeps for its     *)
(* whole life (src/netdisk4tc/lua/lgc.c, with the allocation of strings    *)
(* and userdata in lstring.c and of upvalues in lfunc.c), running between  *)
(* the steps of the scripts that change the heap.                          *)
(*                                                                         *)
(* White objects have not been reached, gray ones have been reached but    *)
(* not traversed, black ones have been traversed.  There are two whites,   *)
(* so that objects made while the last cycle is being swept are told from  *)
(* the dead ones.  The atomic end of the mark phase is four phases here,   *)
(* during which no script runs.  Lists are sets: the code's order in them  *)
(* is one of those chosen from.                                            *)
(***************************************************************************)
EXTENDS Integers, FiniteSets

CONSTANTS
    Tables, Closures, Upvals, Strings, Udata, Threads,   \* the objects there is memory for
    Main,           \* the main thread
    WeakKeys, WeakValues,   \* tables whose metatable's __mode has `k', has `v'
    Finalized0,     \* userdata without a __gc metamethod
    Nil,
    MaxLive, MaxHeld    \* bounds: objects besides upvalues, values on a stack

Obj == Tables \cup Closures \cup Upvals \cup Strings \cup Udata \cup Threads

ASSUME HeapAssumption ==
    /\ Main \in Threads /\ WeakKeys \subseteq Tables /\ WeakValues \subseteq Tables
    /\ Finalized0 \subseteq Udata /\ Nil \notin Obj
    /\ MaxLive \in Nat /\ MaxHeld \in Nat
    /\ Tables \cap (Closures \cup Upvals \cup Strings \cup Udata \cup Threads) = {}
    /\ Closures \cap (Upvals \cup Strings \cup Udata \cup Threads) = {}
    /\ Upvals \cap (Strings \cup Udata \cup Threads) = {}
    /\ Strings \cap (Udata \cup Threads) = {} /\ Udata \cap Threads = {}

VARIABLES
    live,       \* objects whose memory is not free
    mark,       \* colour: "white" is currentwhite, "dead" the other white
    stack,      \* what the stack of each thread holds
    entry,      \* the entry <<key, value>> of each table, or << >>; key Nil: a number
    val,        \* the value of each upvalue
    open,       \* the thread in whose stack the value lives, Nil when closed
    up,         \* the upvalue of each closure
    meta,       \* the metatable or environment of each userdata
    phase,      \* gcstate, the atomic part cut into four
    gray, grayagain, weak,      \* the collector's lists
    sweeping,   \* objects of the root and string lists not swept yet
    tmudata,    \* userdata whose finalizer is to be called
    finalized,  \* userdata whose finalizer was called or is not needed
    full        \* the part of a full collection that is running, or "no"

heap == <<stack, entry, val, open, up, meta>>
lists == <<gray, grayagain, weak>>
gcVars == <<live, mark, heap, phase, lists, sweeping, tmudata, finalized, full>>

Colour == {"white", "dead", "gray", "black"}
IsWhite(o) == mark[o] \in {"white", "dead"}
Sweeps == phase \in {"sweepstring", "sweep"}

(* isdead: left white by the cycle being swept.                            *)
IsDead(o) == mark[o] = "dead"

(* What the collector's marking follows from an object.                    *)
OpenOn(th) == {u \in Upvals \cap live : open[u] = th}
Slots(th) == (stack[th] \cup {val[u] : u \in OpenOn(th)}) \ {Nil}
Strong(o) ==
    IF o \in Threads THEN Slots(o)
    ELSE IF o \in Tables THEN
        IF entry[o] = << >> THEN {}
        ELSE ((IF o \in WeakKeys THEN {} ELSE {entry[o][1]}) \cup
              (IF o \in WeakValues THEN {} ELSE {entry[o][2]})) \ {Nil}
    ELSE IF o \in Closures THEN {up[o]} \ {Nil}
    ELSE IF o \in Upvals THEN {val[o]} \ {Nil}
    ELSE IF o \in Udata THEN {meta[o]} \ {Nil}
    ELSE {}

(* What a script can get hold of from an object.                           *)
Refs(o) == IF o \in Tables
           THEN IF entry[o] = << >> THEN {} ELSE {entry[o][1], entry[o][2]} \ {Nil}
           ELSE Strong(o)

GCInit ==
    /\ live = {Main} /\ mark = [o \in Obj |-> "white"]
    /\ stack = [th \in Threads |-> {}] /\ entry = [t \in Tables |-> << >>]
    /\ val = [u \in Upvals |-> Nil] /\ open = [u \in Upvals |-> Nil]
    /\ up = [f \in Closures |-> Nil]
    /\ meta = [d \in Udata |-> Nil]
    /\ phase = "pause" /\ gray = {} /\ grayagain = {} /\ weak = {}
    /\ sweeping = {} /\ tmudata = {} /\ finalized = Finalized0 /\ full = "no"

-----------------------------------------------------------------------------
(* Marking.  reallymarkobject goes on from a userdata to its metatable and *)
(* from an upvalue to its value at once; others wait in the gray list.     *)

Behind(S) == UNION {Strong(o) : o \in S \cap (Upvals \cup Udata)}
WhiteIn(S) == {o \in S : IsWhite(o)}
Reached(S) == LET a == WhiteIn(S)
                  b == a \cup WhiteIn(Behind(a))
              IN  b \cup WhiteIn(Behind(b))

(* Userdata are never gray, open upvalues never black.                     *)
MarkedAs(o) == IF o \in Udata \/ (o \in Upvals /\ open[o] = Nil) THEN "black" ELSE "gray"
Listed(S) == S \cap (Tables \cup Closures \cup Threads)
WithMarks(S) == [o \in Obj |-> IF o \in Reached(S) THEN MarkedAs(o) ELSE mark[o]]

MarkRoot ==
    /\ \/ phase = "pause" /\ full = "no" /\ full' = full
       \/ phase = "finalize" /\ full = "sweep" /\ full' = "mark"
    /\ mark' = WithMarks({Main})
    /\ gray' = Listed(Reached({Main})) /\ grayagain' = {} /\ weak' = {}
    /\ phase' = "propagate"
    /\ UNCHANGED <<live, heap, sweeping, tmudata, finalized>>

(* propagatemark: a table or closure turns black, a weak table stays gray  *)
(* in the list of weak tables, a thread stays gray to be visited again.    *)
Propagate(o) ==
    /\ phase \in {"propagate", "remark", "weak", "again", "tm"}
    /\ o \in gray
    /\ LET isWeak == o \in WeakKeys \cup WeakValues
           stays  == isWeak \/ o \in Threads
       IN  /\ mark' = [WithMarks(Strong(o)) EXCEPT ![o] = IF stays THEN "gray" ELSE "black"]
           /\ gray' = (gray \ {o}) \cup Listed(Reached(Strong(o)))
           /\ weak' = IF isWeak THEN weak \cup {o} ELSE weak
           /\ grayagain' = IF o \in Threads THEN grayagain \cup {o} ELSE grayagain
    /\ UNCHANGED <<live, heap, phase, sweeping, tmudata, finalized, full>>

(* atomic, up to the first propagateall: the values of open upvalues that  *)
(* were reached, whose thread perhaps was not.                             *)
AtomicRemark ==
    LET S == {val[u] : u \in {v \in Upvals \cap live : open[v] # Nil /\ mark[v] = "gray"}} \ {Nil} IN
    /\ phase = "propagate" /\ gray = {}
    /\ mark' = WithMarks(S) /\ gray' = Listed(Reached(S))
    /\ phase' = "remark"
    /\ UNCHANGED <<live, heap, grayagain, weak, sweeping, tmudata, finalized, full>>

AtomicWeak ==
    /\ phase = "remark" /\ gray = {}
    /\ mark' = WithMarks({Main})
    /\ gray' = weak \cup Listed(Reached({Main})) /\ weak' = {}
    /\ phase' = "weak"
    /\ UNCHANGED <<live, heap, grayagain, sweeping, tmudata, finalized, full>>

AtomicAgain ==
    /\ phase = "weak" /\ gray = {}
    /\ gray' = grayagain /\ grayagain' = {}
    /\ phase' = "again"
    /\ UNCHANGED <<live, mark, heap, weak, sweeping, tmudata, finalized, full>>

(* Mutant: the mark of a finalized userdata is forgotten.                  *)
AtomicUdata_Again ==
    LET T == tmudata \cup {d \in Udata \cap live : IsWhite(d)}
    IN  /\ phase = "again" /\ gray = {}
        /\ tmudata' = T
        /\ mark' = [o \in Obj |-> IF o \in T THEN "black"
                                  ELSE IF o \in Reached(Behind(T)) THEN MarkedAs(o) ELSE mark[o]]
        /\ gray' = Listed(Reached(Behind(T)))
        /\ phase' = "tm"
        /\ UNCHANGED <<live, heap, grayagain, weak, sweeping, finalized, full>>

(* luaC_separateudata and marktmu: unreached userdata with a finalizer are *)
(* kept, and what they refer to, until the finalizer has been called.      *)
AtomicUdata ==
    LET S == {d \in Udata \cap live : IsWhite(d) /\ d \notin finalized}
        T == tmudata \cup S
    IN  /\ phase = "again" /\ gray = {}
        /\ tmudata' = T /\ finalized' = finalized \cup S
        /\ mark' = [o \in Obj |-> IF o \in T THEN "black"
                                  ELSE IF o \in Reached(Behind(T)) THEN MarkedAs(o) ELSE mark[o]]
        /\ gray' = Listed(Reached(Behind(T)))
        /\ phase' = "tm"
        /\ UNCHANGED <<live, heap, grayagain, weak, sweeping, full>>

(* iscleared, for keys and values of weak tables; strings are values, and  *)
(* are marked here.                                                        *)
Cleared(o, isKey) ==
    /\ o \in Obj \ Strings
    /\ IsWhite(o) \/ (o \in Udata /\ ~isKey /\ o \in finalized)

(* cleartable, the flip of the whites and the start of the sweep.          *)
AtomicFlip ==
    LET Clears(t) == entry[t] # << >> /\ (Cleared(entry[t][1], TRUE) \/ Cleared(entry[t][2], FALSE))
        Kept == {s \in Strings : \E t \in weak : entry[t] # << >> /\
                    (s = entry[t][1] \/ (s = entry[t][2] /\ ~Cleared(entry[t][1], TRUE)))}
    IN  /\ phase = "tm" /\ gray = {}
        /\ entry' = [t \in Tables |-> IF t \in weak /\ Clears(t) THEN << >> ELSE entry[t]]
        /\ mark' = [o \in Obj |-> IF ~IsWhite(o) THEN mark[o]
                                  ELSE IF o \in Kept THEN "gray"
                                  ELSE IF o \in live THEN "dead" ELSE "white"]
        /\ sweeping' = (live \ tmudata) \ {u \in Upvals : open[u] # Nil}
        /\ phase' = "sweepstring"
        /\ UNCHANGED <<live, stack, val, open, up, meta, lists, tmudata, finalized, full>>

-----------------------------------------------------------------------------
(* Sweeping: one object of the lists at a time.                            *)

(* The dead upvalues in the list of a swept thread are freed, which leaves *)
(* the values on its stack; a thread that is freed itself closes the       *)
(* others.                                                                 *)
Sweep(o) ==
    LET dead  == IsDead(o)
        ups   == IF o \in Threads THEN OpenOn(o) ELSE {}
        freed == {u \in ups : IsDead(u)} \cup (IF dead THEN {o} ELSE {})
        Value(u) == {val[u]} \ {Nil}
    IN  /\ o \in sweeping
        /\ \/ phase = "sweepstring" /\ o \in Strings
           \/ phase = "sweep" /\ o \notin Strings
        /\ sweeping' = sweeping \ {o}
        /\ live' = live \ freed
        /\ mark' = [x \in Obj |-> IF x \in freed \cup ups \cup {o} THEN "white" ELSE mark[x]]
        /\ stack' = [th \in Threads |->
                        IF th # o THEN stack[th]
                        ELSE IF dead THEN {}
                        ELSE stack[th] \cup UNION {Value(u) : u \in freed \cap Upvals}]
        /\ val' = [u \in Upvals |-> IF u \in freed THEN Nil ELSE val[u]]
        /\ open' = [u \in Upvals |-> IF u \in freed \/ (dead /\ u \in ups) THEN Nil ELSE open[u]]
        /\ entry' = [t \in Tables |-> IF t \in freed THEN << >> ELSE entry[t]]
        /\ up' = [f \in Closures |-> IF f \in freed THEN Nil ELSE up[f]]
        /\ meta' = [d \in Udata |-> IF d \in freed THEN Nil ELSE meta[d]]
        /\ finalized' = (finalized \ freed) \cup Finalized0
        /\ UNCHANGED <<phase, lists, tmudata, full>>

SweepStringEnds ==
    /\ phase = "sweepstring" /\ sweeping \cap Strings = {}
    /\ phase' = "sweep"
    /\ UNCHANGED <<live, mark, heap, lists, sweeping, tmudata, finalized, full>>

SweepEnds ==
    /\ phase = "sweep" /\ sweeping = {}
    /\ phase' = "finalize"
    /\ UNCHANGED <<live, mark, heap, lists, sweeping, tmudata, finalized, full>>

(* GCTM: the userdata goes back to the root list and its finalizer runs,   *)
(* which may put it where the scripts find it.                             *)
CallFinalizer(d) ==
    /\ phase = "finalize" /\ full # "sweep" /\ d \in tmudata
    /\ tmudata' = tmudata \ {d}
    /\ mark' = [mark EXCEPT ![d] = "white"]
    /\ \/ UNCHANGED stack
       \/ stack' = [stack EXCEPT ![Main] = @ \cup {d}]
    /\ UNCHANGED <<live, entry, val, open, up, meta, phase, lists, sweeping, finalized, full>>

CycleEnds ==
    /\ phase = "finalize" /\ full # "sweep" /\ tmudata = {}
    /\ phase' = "pause" /\ full' = "no"
    /\ UNCHANGED <<live, mark, heap, lists, sweeping, tmudata, finalized>>

(* luaC_fullgc: what was marked so far is swept back to one white, or the  *)
(* sweep that was on its way is ended, and a whole cycle follows.          *)
FullGC ==
    /\ full = "no" /\ phase \in {"pause", "propagate", "sweepstring", "sweep", "finalize"}
    /\ full' = "sweep"
    /\ IF phase \in {"pause", "propagate"}
       THEN /\ gray' = {} /\ grayagain' = {} /\ weak' = {}
            /\ sweeping' = (live \ tmudata) \ {u \in Upvals : open[u] # Nil}
            /\ phase' = "sweepstring"
       ELSE UNCHANGED <<lists, sweeping, phase>>
    /\ UNCHANGED <<live, mark, heap, tmudata, finalized>>

Collect ==
    \/ MarkRoot
    \/ \E o \in Obj : Propagate(o) \/ Sweep(o)
    \/ AtomicRemark \/ AtomicWeak \/ AtomicAgain \/ AtomicUdata \/ AtomicFlip
    \/ SweepStringEnds \/ SweepEnds
    \/ \E d \in Udata : CallFinalizer(d)
    \/ CycleEnds

-----------------------------------------------------------------------------
(* The scripts.  They run between the steps of the collector, on the main  *)
(* thread or on a coroutine it holds.                                      *)

Runs(th) == /\ full = "no" /\ phase \in {"pause", "propagate", "sweepstring", "sweep", "finalize"}
            /\ th = Main \/ th \in stack[Main]

(* A value is put on a stack, among MaxHeld at most.                       *)
HoldsToo(th, x) == /\ Cardinality(stack[th] \cup {x}) <= MaxHeld
               /\ stack' = [stack EXCEPT ![th] = @ \cup {x}]

Collector == <<phase, sweeping, tmudata, full>>

(* Mutant: no barrier.                                                     *)
BarrierBack_None(t, xs) == UNCHANGED <<mark, grayagain>>

(* luaC_barriert: a black table that is given something white is traversed *)
(* again in the atomic phase.                                              *)
BarrierBack(t, xs) ==
    IF mark[t] = "black" /\ WhiteIn(xs) # {}
    THEN mark' = [mark EXCEPT ![t] = "gray"] /\ grayagain' = grayagain \cup {t}
    ELSE UNCHANGED <<mark, grayagain>>

(* luaC_barrierf: something white given to another black object is marked, *)
(* or the object is made white when the marking is over.                   *)
Barrier(o, colour, xs) ==
    IF colour = "black" /\ WhiteIn(xs) # {}
    THEN IF phase = "propagate"
         THEN /\ mark' = [WithMarks(xs) EXCEPT ![o] = colour]
              /\ gray' = gray \cup Listed(Reached(xs))
         ELSE mark' = [mark EXCEPT ![o] = "white"] /\ UNCHANGED gray
    ELSE mark' = [mark EXCEPT ![o] = colour] /\ UNCHANGED gray

(* luaC_link, newlstr, luaS_newudata, luaE_newthread.                      *)
New(o, th) ==
    /\ Runs(th) /\ o \in (Tables \cup Strings \cup Udata \cup Threads) \ live
    /\ Cardinality(live \ Upvals) < MaxLive /\ live' = live \cup {o}
    /\ mark' = [mark EXCEPT ![o] = "white"]
    /\ HoldsToo(th, o)
    /\ UNCHANGED <<entry, val, open, up, meta, lists, finalized, Collector>>

(* Mutant: a dead string is handed out as it is.                           *)
Intern_Dead(s, th) ==
    /\ Runs(th) /\ s \in Strings \cap live
    /\ HoldsToo(th, s)
    /\ UNCHANGED <<live, mark, entry, val, open, up, meta, lists, finalized, Collector>>

(* luaS_newlstr finds the string in the string table, perhaps dead.        *)
Intern(s, th) ==
    /\ Runs(th) /\ s \in Strings \cap live
    /\ mark' = IF IsDead(s) THEN [mark EXCEPT ![s] = "white"] ELSE mark
    /\ HoldsToo(th, s)
    /\ UNCHANGED <<live, entry, val, open, up, meta, lists, finalized, Collector>>

Drop(x, th) ==
    /\ Runs(th) /\ x \in stack[th]
    /\ stack' = [stack EXCEPT ![th] = @ \ {x}]
    /\ UNCHANGED <<live, mark, entry, val, open, up, meta, lists, finalized, Collector>>

(* A field, a key, an upvalue or a local is read; values pass to and from  *)
(* a coroutine.                                                            *)
Read(o, x, th) ==
    /\ Runs(th) /\ o \in stack[th] \cup {th}
    /\ x \in Refs(o) \cup (IF o \in Closures THEN Refs(up[o]) ELSE {})
    /\ x \notin Upvals
    /\ HoldsToo(th, x)
    /\ UNCHANGED <<live, mark, entry, val, open, up, meta, lists, finalized, Collector>>

Resume(co, x) ==
    /\ Runs(co) /\ co # Main /\ x \in stack[Main] \cup {co}
    /\ HoldsToo(co, x)
    /\ UNCHANGED <<live, mark, entry, val, open, up, meta, lists, finalized, Collector>>

(* OP_SETTABLE with a new key, or a new value under an old one.            *)
Store(t, k, x, th) ==
    /\ Runs(th) /\ t \in stack[th] \cap Tables
    /\ k \in stack[th] \cup {Nil} /\ x \in stack[th]
    /\ entry' = [entry EXCEPT ![t] = <<k, x>>]
    /\ BarrierBack(t, {k, x} \ {Nil})
    /\ UNCHANGED <<live, stack, val, open, up, meta, gray, weak, finalized, Collector>>

StoreNil(t, th) ==
    /\ Runs(th) /\ t \in stack[th] \cap Tables /\ entry[t] # << >>
    /\ entry' = [entry EXCEPT ![t] = << >>]
    /\ UNCHANGED <<live, mark, stack, val, open, up, meta, lists, finalized, Collector>>

(* OP_CLOSURE over a local: luaF_findupval makes the upvalue, or finds it  *)
(* in the list of the thread and takes it back from the dead.              *)
MakeClosure(f, u, x, th) ==
    /\ Runs(th) /\ f \in Closures \ live
    /\ \/ u \notin live /\ x \in stack[th] \cup {Nil}
       \/ u \in OpenOn(th) /\ x = val[u]
    /\ Cardinality(live \ Upvals) < MaxLive /\ live' = live \cup {f, u}
    /\ mark' = [mark EXCEPT ![f] = "white", ![u] = IF u \notin live \/ IsDead(u) THEN "white" ELSE @]
    /\ up' = [up EXCEPT ![f] = u]
    /\ open' = [open EXCEPT ![u] = th] /\ val' = [val EXCEPT ![u] = x]
    /\ HoldsToo(th, f)
    /\ UNCHANGED <<entry, meta, lists, finalized, Collector>>

(* OP_SETUPVAL, or the assignment to a local that is one.                  *)
SetUpval(u, x, th) ==
    /\ Runs(th) /\ x \in stack[th]
    /\ u \in OpenOn(th) \/ \E f \in stack[th] \cap Closures : up[f] = u
    /\ val' = [val EXCEPT ![u] = x]
    /\ Barrier(u, mark[u], {x})
    /\ UNCHANGED <<live, stack, entry, open, up, meta, grayagain, weak, finalized, Collector>>

(* luaF_close of the highest open upvalue, with luaC_linkupval.            *)
CloseUpval(u, th) ==
    /\ Runs(th) /\ u \in OpenOn(th)
    /\ open' = [open EXCEPT ![u] = Nil]
    /\ IF IsDead(u)
       THEN /\ live' = live \ {u} /\ val' = [val EXCEPT ![u] = Nil]
            /\ mark' = [mark EXCEPT ![u] = "white"] /\ UNCHANGED gray
       ELSE /\ UNCHANGED <<live, val>>
            /\ IF mark[u] # "gray" THEN UNCHANGED <<mark, gray>>
               ELSE IF phase = "propagate" THEN Barrier(u, "black", {val[u]} \ {Nil})
               ELSE mark' = [mark EXCEPT ![u] = "white"] /\ UNCHANGED gray
    /\ UNCHANGED <<stack, entry, up, meta, grayagain, weak, finalized, Collector>>

(* lua_setmetatable or lua_setfenv of a userdata (luaC_objbarrier).        *)
SetMeta(d, t, th) ==
    /\ Runs(th) /\ d \in stack[th] \cap Udata /\ t \in stack[th] \cap Tables
    /\ meta' = [meta EXCEPT ![d] = t]
    /\ Barrier(d, mark[d], {t})
    /\ UNCHANGED <<live, stack, entry, val, open, up, grayagain, weak, finalized, Collector>>

Mutate == \E th \in {Main} \cup (Threads \cap stack[Main]) :
    \/ \E o \in Obj \ live : New(o, th)
    \/ \E s \in Strings \cap live : Intern(s, th)
    \/ \E u \in OpenOn(th) : CloseUpval(u, th)
    \/ \E x \in stack[th] :
          \/ Drop(x, th)
          \/ \E u \in Upvals \cap live : SetUpval(u, x, th)
          \/ \E t \in Tables \cap stack[th] : StoreNil(t, th) \/ \E k \in stack[th] \cup {Nil} : Store(t, k, x, th)
          \/ \E d \in Udata \cap stack[th] : SetMeta(d, x, th)
    \/ \E o \in stack[th] \cup {th}, x \in live : Read(o, x, th)
    \/ \E x \in stack[Main] \cup {th} : Resume(th, x)
    \/ \E f \in Closures \ live, u \in Upvals, x \in stack[th] \cup {Nil} : MakeClosure(f, u, x, th)

GCNext == Collect \/ FullGC \/ Mutate

GCSpec == GCInit /\ [][GCNext]_gcVars

(* Every allocation beyond the threshold runs a step of the collector      *)
(* (luaC_checkGC), so a script that goes on allocating keeps it going.     *)
GCFairSpec == GCSpec /\ WF_gcVars(Collect)

-----------------------------------------------------------------------------
(* Types, and where gray objects wait: each is in one list, and only tables *)
(* that stay gray for their weakness and threads are in the others.        *)
GCTypeOK ==
    /\ live \subseteq Obj /\ Main \in live /\ mark \in [Obj -> Colour]
    /\ stack \in [Threads -> SUBSET (Obj \ Upvals)]
    /\ entry \in [Tables -> {<< >>} \cup ((Obj \cup {Nil}) \X Obj)]
    /\ val \in [Upvals -> Obj \cup {Nil}] /\ open \in [Upvals -> Threads \cup {Nil}]
    /\ up \in [Closures -> Upvals \cup {Nil}] /\ meta \in [Udata -> Tables \cup {Nil}]
    /\ phase \in {"pause", "propagate", "remark", "weak", "again", "tm",
                  "sweepstring", "sweep", "finalize"}
    /\ sweeping \subseteq Obj /\ tmudata \subseteq Udata /\ finalized \subseteq Udata
    /\ full \in {"no", "sweep", "mark"}

Marks == phase \in {"propagate", "remark", "weak", "again", "tm"}

(* The lists share one link in each object, so an object that is in two of *)
(* them, or twice in one, breaks both (lgc.c:173, 299, 680): while marking *)
(* every gray table, closure and thread is in exactly one list.            *)
Linked ==
    Marks => /\ gray \cap grayagain = {} /\ gray \cap weak = {} /\ grayagain \cap weak = {}
             /\ gray \cup grayagain \cup weak =
                    {o \in live \cap (Tables \cup Closures \cup Threads) : mark[o] = "gray"}

(* The invariant of the mark phase, which the barriers must keep against   *)
(* the scripts: no black object refers to a white one.  Userdata that wait *)
(* for their finalizer from the cycle before are marked anew by marktmu.   *)
BlackSeesNoWhite ==
    Marks => \A o \in live : mark[o] = "black" /\ (o \in tmudata => phase = "tm")
                                => \A x \in Strong(o) : ~IsWhite(x)

(* A cycle begins with every object in the current white, whatever the     *)
(* scripts did while the last one was swept.                               *)
WhiteAtPause == phase = "pause" => \A o \in live : mark[o] = "white"

(* No script ever comes to memory that was freed: an object that is not    *)
(* dead refers to allocated objects that are not dead either.              *)
NoDangling ==
    \A o \in live : (Sweeps /\ IsDead(o)) \/
        \A x \in Refs(o) : x \in live /\ ~(Sweeps /\ IsDead(x))
=============================================================================
