---------------------------- MODULE LuaCoroutine ----------------------------
(***************************************************************************)
(* Coroutines, protected calls and errors of the script state: lua_resume, *)
(* lua_yield, luaD_pcall and luaD_throw of src/netdisk4tc/lua/ldo.c and    *)
(* the coroutine functions of lbaselib.c, which derive what a coroutine is *)
(* doing from its status, its frames and the height of its stack.          *)
(*                                                                         *)
(* Each thread has frames of its own, but there is one C stack: native is  *)
(* what lies on it, luaD_call (with luaV_execute below it), luaD_pcall and *)
(* lua_resume, each for a thread.  A script is anything that calls,        *)
(* returns, raises errors, resumes and yields.                             *)
(***************************************************************************)
EXTENDS SequencesExt, FiniteSetsExt, Integers

CONSTANTS Main, Coroutines,
          MaxCCalls,    \* LUAI_MAXCCALLS
          Extra,        \* LUAI_MAXCCALLS>>3: calls left for the handling of its overflow
          MaxFrames     \* bound: frames of a thread

Threads == Coroutines \cup {Main}

ASSUME CoroutineAssumption ==
    /\ Main \notin Coroutines /\ MaxCCalls \in Nat \ {0, 1}
    /\ Extra \in Nat \ {0} /\ MaxFrames \in Nat

VARIABLES
    th,         \* by thread: status, frames, values in view, nCcalls, baseCcalls
    native,     \* the C stack
    raising,    \* an error is on its way to a handler
    ended,      \* history: coroutines that returned, failed or could not be started
    spilled     \* history: those whose results did not fit on the resumer's stack

coVars == <<th, native, raising, ended, spilled>>

Current == Last(native).t
Cur == th[Current]
InView == Len(Cur.frames) - Last(native).frames

NewThread == [made |-> FALSE, status |-> "ok", frames |-> << >>, vals |-> 0, nC |-> 0, baseC |-> 0]

(* The entries of the C stack: for luaD_call the number of frames below    *)
(* the function that is called, for all the number to go back to.          *)
CallOf(t, n, back) == [is |-> "call", t |-> t, frames |-> n, back |-> back]
Protects(t, back, nC) == [is |-> "pcall", t |-> t, frames |-> back, back |-> back, nC |-> nC]
Resumes(t, wrap) == [is |-> "resume", t |-> t, frames |-> 0, back |-> 0, wrap |-> wrap]

(* The host's lua_pcall of a chunk.                                        *)
CoInit ==
    /\ th = [t \in Threads |-> IF t = Main THEN [NewThread EXCEPT !.made = TRUE, !.frames = <<"Lua">>, !.nC = 1]
                               ELSE NewThread]
    /\ native = <<Protects(Main, 0, 0), CallOf(Main, 0, 0)>>
    /\ raising = FALSE /\ ended = {} /\ spilled = {}

Runs == native # << >> /\ ~raising
MayCall == IF Runs THEN Len(Cur.frames) < MaxFrames ELSE FALSE

Grow(t, fs) == [th EXCEPT ![t].frames = @ \o fs]
CutTo(f, t, n) == [f EXCEPT ![t].frames = SubSeq(@, 1, n)]

-----------------------------------------------------------------------------
(* Calls, returns and errors                                               *)

CallLua ==
    /\ MayCall
    /\ th' = Grow(Current, <<"Lua">>)
    /\ UNCHANGED <<native, raising, ended, spilled>>

(* luaD_call, with C frames and a handler that go with it: the count is    *)
(* raised before it is looked at, and once the overflow was reported there *)
(* are Extra calls more.                                                   *)
DCall(frames, handler) ==
    LET n     == Len(Cur.frames)
        depth == Cur.nC + 1
    IN  /\ native' = native \o handler \o
                        (IF depth = MaxCCalls \/ depth >= MaxCCalls + Extra THEN << >>
                         ELSE <<CallOf(Current, n + Len(frames), n)>>)
        /\ th' = [Grow(Current, Append(frames, "Lua")) EXCEPT ![Current].nC = depth]
        /\ raising' = (depth = MaxCCalls \/ depth >= MaxCCalls + Extra)
        /\ UNCHANGED <<ended, spilled>>

(* A metamethod; a C function that calls back, as a sort or a gsub does.   *)
CallBack == MayCall /\ \E frames \in {<< >>, <<"C">>} : DCall(frames, << >>)

PCall == MayCall /\ DCall(<<"C">>, <<Protects(Current, Len(Cur.frames), Cur.nC)>>)

(* The return to a Lua function, or from a luaD_call.                      *)
ReturnLua ==
    /\ Runs /\ InView > 1
    /\ th' = CutTo(th, Current, Len(Cur.frames) - 1)
    /\ UNCHANGED <<native, raising, ended, spilled>>

ReturnC ==
    LET below == Front(native) IN
    /\ Runs /\ InView = 1 /\ Last(native).is = "call"
    /\ native' = IF below = << >> THEN << >> ELSE IF Last(below).is = "pcall" THEN Front(below) ELSE below
    /\ th' = [CutTo(th, Current, Last(native).back) EXCEPT ![Current].nC = @ - 1]
    /\ UNCHANGED <<raising, ended, spilled>>

Raise ==
    /\ Runs
    /\ raising' = TRUE
    /\ UNCHANGED <<th, native, ended, spilled>>

(* luaD_throw: calls are left without a word to the count.                 *)
Unwind ==
    /\ raising /\ Last(native).is = "call"
    /\ native' = Front(native)
    /\ UNCHANGED <<th, raising, ended, spilled>>

(* Mutant: the count of calls stays as it was when the error was raised.   *)
CaughtBy_KeepsCount(h) == CutTo(th, h.t, h.back)

(* luaD_pcall, and the return of the C function that called it.            *)
CaughtBy(h) == [CutTo(th, h.t, h.back) EXCEPT ![h.t].nC = h.nC]

CatchPCall ==
    /\ raising /\ Last(native).is = "pcall"
    /\ th' = CaughtBy(Last(native))
    /\ native' = Front(native) /\ raising' = FALSE
    /\ UNCHANGED <<ended, spilled>>

-----------------------------------------------------------------------------
(* Coroutines                                                              *)

Create(co) ==
    /\ Runs /\ ~th[co].made
    /\ th' = [th EXCEPT ![co].made = TRUE, ![co].vals = 1]
    /\ UNCHANGED <<native, raising, ended, spilled>>

(* Mutant: a thread without frames is one that was not started.            *)
CoStatus_NoTop(t, co) ==
    IF t = co THEN "running"
    ELSE CASE th[co].status = "yield" -> "suspended"
           [] th[co].status = "ok" -> IF th[co].frames # << >> THEN "normal" ELSE "suspended"
           [] OTHER -> "dead"

(* costatus, asked by thread t.                                            *)
CoStatus(t, co) ==
    IF t = co THEN "running"
    ELSE CASE th[co].status = "yield" -> "suspended"
           [] th[co].status = "ok" -> IF th[co].frames # << >> THEN "normal"
                                      ELSE IF th[co].vals = 0 THEN "dead" ELSE "suspended"
           [] OTHER -> "dead"

(* auxresume refuses: resume answers with false, wrap raises an error.     *)
ResumeRefused(co, wrap) ==
    /\ Runs /\ th[co].made /\ CoStatus(Current, co) # "suspended"
    /\ raising' = wrap
    /\ UNCHANGED <<th, native, ended, spilled>>

(* lua_resume finds the C stack full: its message takes the place of what  *)
(* lay on the coroutine's stack, the function of one not started too.      *)
ResumeOverflows(co, wrap) ==
    /\ Runs /\ th[co].made /\ CoStatus(Current, co) = "suspended" /\ Cur.nC >= MaxCCalls
    /\ th' = [th EXCEPT ![co].vals = 0, ![co].nC = Cur.nC]
    /\ raising' = wrap
    /\ ended' = IF th[co].status = "ok" THEN ended \cup {co} ELSE ended
    /\ spilled' = spilled \ {co}
    /\ UNCHANGED native

(* resume: the value below the arguments is called, or the coroutine goes  *)
(* on behind its yield.  What an ended one left need not be a function.    *)
CoResume(co, wrap) ==
    LET started == [frames |-> <<"Lua">>, ok |-> TRUE]
        starts  == IF th[co].status = "yield" THEN {[frames |-> Front(th[co].frames), ok |-> TRUE]}
                   ELSE IF co \in spilled THEN {started, [frames |-> << >>, ok |-> FALSE]} ELSE {started}
    IN  /\ MayCall /\ th[co].made /\ CoStatus(Current, co) = "suspended" /\ Cur.nC < MaxCCalls
        /\ native' = Append(native, Resumes(co, wrap))
        /\ \E s \in starts :
              /\ th' = [Grow(Current, <<"C">>) EXCEPT
                            ![co] = [@ EXCEPT !.status = "ok", !.frames = s.frames, !.vals = 0,
                                              !.nC = Cur.nC + 1, !.baseC = Cur.nC + 1]]
              /\ raising' = ~s.ok
        /\ ended' = ended \ {co} /\ spilled' = spilled \ {co}

(* auxresume: the values come to the resumer, or do not fit and stay.      *)
Answers(f, co, fits, n) ==
    LET by   == Last(Front(native)).t
        done == [f EXCEPT ![co].nC = @ - 1, ![co].vals = IF fits THEN 0 ELSE n]
    IN  /\ th' = IF fits THEN CutTo(done, by, Len(th[by].frames) - 1) ELSE done
        /\ native' = Front(native) /\ raising' = ~fits

MayYield == Cur.nC = Cur.baseC /\ Current # Main

Yield ==
    /\ MayCall /\ MayYield
    /\ \E n \in 0 .. 1, fits \in BOOLEAN :
          Answers([Grow(Current, <<"C">>) EXCEPT ![Current].status = "yield"], Current, fits, n)
    /\ UNCHANGED <<ended, spilled>>

YieldRefused ==
    /\ Runs /\ Cur.nC > Cur.baseC
    /\ raising' = TRUE
    /\ UNCHANGED <<th, native, ended, spilled>>

CoReturns ==
    /\ Runs /\ InView = 1 /\ Last(native).is = "resume"
    /\ \E n \in 0 .. 1, fits \in BOOLEAN :
          /\ Answers(CutTo(th, Current, 0), Current, fits, n)
          /\ spilled' = IF fits \/ n = 0 THEN spilled \ {Current} ELSE spilled \cup {Current}
    /\ ended' = ended \cup {Current}

(* An error leaves the coroutine: its status says so, its frames stay; its *)
(* message is resume's answer, or the error that wrap raises.              *)
CoFails ==
    LET h  == Last(native)
        by == Last(Front(native)).t
        f  == [th EXCEPT ![h.t].status = "error", ![h.t].nC = @ - 1]
    IN  /\ raising /\ h.is = "resume"
        /\ th' = IF h.wrap THEN f ELSE CutTo(f, by, Len(th[by].frames) - 1)
        /\ native' = Front(native) /\ raising' = h.wrap
        /\ ended' = ended \cup {h.t} /\ spilled' = spilled \ {h.t}

CoNext ==
    \/ CallLua \/ CallBack \/ PCall \/ ReturnLua \/ ReturnC \/ Raise \/ Unwind \/ CatchPCall
    \/ Yield \/ YieldRefused \/ CoReturns \/ CoFails
    \/ \E co \in Coroutines : Create(co) \/ \E wrap \in BOOLEAN :
           ResumeRefused(co, wrap) \/ ResumeOverflows(co, wrap) \/ CoResume(co, wrap)

CoSpec == CoInit /\ [][CoNext]_coVars

-----------------------------------------------------------------------------
OnStack == {native[i].t : i \in DOMAIN native}

(* What a script is told of a coroutine is what the coroutine is doing,    *)
(* however it came there (lbaselib.c:490): the one that runs, those that   *)
(* wait below it, those that ended and can never run again, and the rest,  *)
(* which go on exactly where they are - with no C function among their     *)
(* frames, whose part of the C stack would be gone (ldo.c:447).  Only one  *)
(* whose results did not fit counts as suspended although it ended.        *)
StatusIsTrue ==
    Runs => \A co \in Coroutines : th[co].made =>
        /\ CoStatus(Current, co) = IF co = Current THEN "running" ELSE IF co \in OnStack THEN "normal"
                                   ELSE IF co \in ended \ spilled THEN "dead" ELSE "suspended"
        /\ co \in OnStack => co \notin ended
        /\ th[co].status = "yield" => \A i \in DOMAIN th[co].frames :
                                          th[co].frames[i] = "C" <=> i = Len(th[co].frames)

(* The count of C calls in a thread is the number of calls that lie on the *)
(* C stack, in all threads that wait and after every error that was        *)
(* caught, so that its limit is one of the C stack (ldo.c:371, 428).       *)
DepthIsCounted ==
    /\ Cardinality({i \in DOMAIN native : native[i].is # "pcall"}) < MaxCCalls + Extra
    /\ Runs => \A t \in OnStack :
          LET top == Max({i \in DOMAIN native : native[i].t = t})
          IN  th[t].nC = Cardinality({i \in 1 .. top : native[i].is # "pcall"})
=============================================================================
