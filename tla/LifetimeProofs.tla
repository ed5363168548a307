--------------------------- MODULE LifetimeProofs ---------------------------
(***************************************************************************)
(* What is freed, and when, in the two parts of the plugin that share      *)
(* objects: the embedded browser, which counts the references to its COM   *)
(* objects (BrowserObject.tla), and the Lua state, whose collector looks   *)
(* for what can still be reached while the scripts go on (LuaGC.tla).      *)
(***************************************************************************)
EXTENDS BrowserObject, LuaGC, TLAPS

-----------------------------------------------------------------------------
(* The browser.  Its references come out even, and the client site         *)
(* outlives it, for any number of changes of position.                     *)

(* Where the one call in progress is.                                      *)
Place == IF calls = << >> THEN "none" ELSE calls[1].pc
Operation == IF calls = << >> THEN "none" ELSE calls[1].op

CallAt(o, p) == [op |-> o, pc |-> p]
InCall(o, p) == calls = <<CallAt(o, p)>>

OneCall ==
    \/ calls = << >>
    \/ \E p \in {"alloc", "create", "ole", "site", "verb"} : InCall("embed", p)
    \/ \E p \in {"ready", "pump", "write", "end"} : InCall("str", p)
    \/ \E p \in {"ready", "pump"} : InCall("wait", p)

(* What is held at each place of a call.                                   *)
Held ==
    /\ refs \in [Interface -> Int] /\ moves \in Int
    /\ refs["inplace"] = moves
    /\ refs["disp"] = 0
    /\ refs["doc"] = IF Place = "write" THEN 1 ELSE 0
    /\ refs["ole"] = IF userdata THEN 1 ELSE 0
    /\ refs["web"] = IF Place \in {"ole", "site", "verb", "ready", "pump", "write", "end"} THEN 1 ELSE 0

(* How far the window and its block are.                                   *)
Progress ==
    /\ userdata \in BOOLEAN /\ site \in BOOLEAN
    /\ userdata <=> window = "open" \/ Place \in {"site", "verb"}
    /\ window = "creating" <=> Operation = "embed"
    /\ rc = 1 <=> window \in {"none", "creating"}
    /\ window = "none" => calls = << >> /\ block = "none"
    /\ Place = "alloc" => block = "none"
    /\ Place \in {"create", "ole", "site", "verb"} => block = "held"
    /\ rc # 1 => (block = "held" <=> rc \in {0, -4})
    /\ site => rc \in {0, -4} \/ Place = "verb"

IInv == OneCall /\ Held /\ Progress

-----------------------------------------------------------------------------
(* A sequence of one call: its end, and its next place.                    *)
LEMMA FrontOfOne == ASSUME NEW c PROVE Front(<<c>>) = << >>
  BY DEF Front

LEMMA OneCallFacts ==
  ASSUME NEW o, NEW p, InCall(o, p)
  PROVE  /\ calls # << >> /\ Place = p /\ Operation = o
         /\ \A x, y : At(x, y) <=> x = o /\ y = p
         /\ Ends => calls' = << >>
         /\ \A q : Goto(q) => calls' = <<CallAt(o, q)>>
  <1>1. calls # << >> /\ Len(calls) = 1 /\ calls[1] = CallAt(o, p)
    BY DEF InCall
  <1>2. Place = p /\ Operation = o
    BY <1>1 DEF Place, Operation, CallAt
  <1>3. Top = CallAt(o, p)
    BY <1>1 DEF Top, Last
  <1>4. \A x, y : At(x, y) <=> x = o /\ y = p
    BY <1>1, <1>3 DEF At, Step, CallAt
  <1>5. Ends => calls' = << >>
    BY FrontOfOne DEF Ends, InCall
  <1>6. ASSUME NEW q, Goto(q) PROVE calls' = <<CallAt(o, q)>>
    <2>1. calls' = [calls EXCEPT ![1].pc = q]
      BY <1>1, <1>6 DEF Goto
    <2>2. calls' = [calls EXCEPT ![1] = [calls[1] EXCEPT !.pc = q]]
      BY <2>1
    <2>3. [CallAt(o, p) EXCEPT !.pc = q] = CallAt(o, q)
      BY DEF CallAt
    <2> QED
      BY <1>1, <2>2, <2>3 DEF InCall
  <1> QED
    BY <1>1, <1>2, <1>4, <1>5, <1>6

(* The place of a call in progress determines the call.                    *)
LEMMA AtIsCall == ASSUME OneCall, NEW o, NEW p, At(o, p) PROVE InCall(o, p)
  <1>1. calls # << >>
    BY DEF At, Step
  <1>2. PICK x, y : InCall(x, y)
    BY <1>1 DEF OneCall
  <1> QED
    BY <1>2, OneCallFacts

LEMMA NoCall == calls = << >> => Place = "none" /\ Operation = "none" /\ \A x, y : ~At(x, y)
  BY DEF Place, Operation, At, Step

(* The place after a step: none, or that of the one call.                  *)
LEMMA Ended == calls' = << >> => Place' = "none" /\ Operation' = "none" /\ OneCall'
  BY DEF Place, Operation, OneCall

LEMMA Went ==
  ASSUME NEW o, NEW q, calls' = <<CallAt(o, q)>>,
         \/ o = "embed" /\ q \in {"alloc", "create", "ole", "site", "verb"}
         \/ o = "str" /\ q \in {"ready", "pump", "write", "end"}
         \/ o = "wait" /\ q \in {"ready", "pump"}
  PROVE  Place' = q /\ Operation' = o /\ OneCall' /\ calls' # << >>
  BY DEF Place, Operation, OneCall, InCall, CallAt

LEMMA Stayed == OneCall /\ UNCHANGED calls => Place' = Place /\ Operation' = Operation /\ OneCall'
  BY DEF Place, Operation, OneCall, InCall

-----------------------------------------------------------------------------
(* Each action, from the invariant.                                        *)

LEMMA InitInv == Init => IInv
  <1> SUFFICES ASSUME Init PROVE IInv
    OBVIOUS
  <1>1. calls = << >> /\ Place = "none" /\ Operation = "none"
    BY NoCall DEF Init
  <1>2. OneCall
    BY <1>1 DEF OneCall
  <1>3. Held
    BY <1>1 DEF Init, Held, Interface
  <1>4. Progress
    BY <1>1 DEF Init, Progress
  <1> QED
    BY <1>2, <1>3, <1>4 DEF IInv

(* The window is created, and EmbedBrowserObject runs to its end           *)
(* (cwebpage.c:2244-2383).                                                 *)
LEMMA CreateInv == ASSUME IInv, Create PROVE IInv'
  <1>1. Place = "none" /\ Operation = "none"
    BY NoCall DEF IInv, Progress, Create
  <1>2. calls' = <<CallAt("embed", "alloc")>>
    BY DEF Create, CallAt
  <1>3. Place' = "alloc" /\ Operation' = "embed" /\ OneCall' /\ calls' # << >>
    BY <1>2, Went
  <1> QED
    BY <1>1, <1>3 DEF Create, IInv, Held, Progress

LEMMA AllocatesInv == ASSUME IInv, EmbedAllocates PROVE IInv'
  <1>1. InCall("embed", "alloc")
    BY AtIsCall DEF IInv, EmbedAllocates
  <1>2. /\ Place = "alloc" /\ Operation = "embed" /\ calls # << >>
        /\ Ends => calls' = << >>
        /\ \A q : Goto(q) => calls' = <<CallAt("embed", q)>>
    BY <1>1, OneCallFacts
  <1>3. CASE EmbedReturns(-1) /\ UNCHANGED block
    <2>1. Place' = "none" /\ Operation' = "none" /\ OneCall' /\ calls' = << >>
      BY <1>2, <1>3, Ended DEF EmbedReturns
    <2> QED
      BY <1>2, <1>3, <2>1 DEF EmbedAllocates, EmbedReturns, IInv, Held, Progress
  <1>4. CASE block' = "held" /\ Goto("create") /\ UNCHANGED <<window, rc>>
    <2>1. Place' = "create" /\ Operation' = "embed" /\ OneCall' /\ calls' # << >>
      BY <1>2, <1>4, Went
    <2> QED
      BY <1>2, <1>4, <2>1 DEF EmbedAllocates, IInv, Held, Progress
  <1> QED
    BY <1>3, <1>4 DEF EmbedAllocates

LEMMA CreatesInv == ASSUME IInv, EmbedCreates PROVE IInv'
  <1>1. InCall("embed", "create")
    BY AtIsCall DEF IInv, EmbedCreates
  <1>2. /\ Place = "create" /\ Operation = "embed" /\ calls # << >>
        /\ Ends => calls' = << >>
        /\ \A q : Goto(q) => calls' = <<CallAt("embed", q)>>
    BY <1>1, OneCallFacts
  <1>3. CASE block' = "freed" /\ EmbedReturns(-2) /\ UNCHANGED refs
    <2>1. Place' = "none" /\ Operation' = "none" /\ OneCall' /\ calls' = << >>
      BY <1>2, <1>3, Ended DEF EmbedReturns
    <2> QED
      BY <1>2, <1>3, <2>1 DEF EmbedCreates, EmbedReturns, IInv, Held, Progress
  <1>4. CASE refs' = Obtain(refs, "web") /\ Goto("ole") /\ UNCHANGED <<window, rc, block>>
    <2>1. Place' = "ole" /\ Operation' = "embed" /\ OneCall' /\ calls' # << >>
      BY <1>2, <1>4, Went
    <2> QED
      BY <1>2, <1>4, <2>1 DEF EmbedCreates, Obtain, Interface, IInv, Held, Progress
  <1> QED
    BY <1>3, <1>4 DEF EmbedCreates

LEMMA AsksOleInv == ASSUME IInv, EmbedAsksOle PROVE IInv'
  <1>1. InCall("embed", "ole")
    BY AtIsCall DEF IInv, EmbedAsksOle
  <1>2. /\ Place = "ole" /\ Operation = "embed" /\ calls # << >>
        /\ Ends => calls' = << >>
        /\ \A q : Goto(q) => calls' = <<CallAt("embed", q)>>
    BY <1>1, OneCallFacts
  <1>3. CASE refs' = Release(refs, "web") /\ block' = "freed" /\ EmbedReturns(-3) /\ UNCHANGED userdata
    <2>1. Place' = "none" /\ Operation' = "none" /\ OneCall' /\ calls' = << >>
      BY <1>2, <1>3, Ended DEF EmbedReturns
    <2> QED
      BY <1>2, <1>3, <2>1 DEF EmbedAsksOle, EmbedReturns, Release, Interface, IInv, Held, Progress
  <1>4. CASE refs' = Obtain(refs, "ole") /\ userdata' = TRUE /\ Goto("site") /\ UNCHANGED <<window, rc, block>>
    <2>1. Place' = "site" /\ Operation' = "embed" /\ OneCall' /\ calls' # << >>
      BY <1>2, <1>4, Went
    <2> QED
      BY <1>2, <1>4, <2>1 DEF EmbedAsksOle, Obtain, Interface, IInv, Held, Progress
  <1> QED
    BY <1>3, <1>4 DEF EmbedAsksOle

(* The call undone after the client site was refused, or the activation    *)
(* failed: the block stays (cwebpage.c:2363-2383).                         *)
LEMMA UndoesInv ==
  ASSUME IInv, EmbedUndoes, Place \in {"site", "verb"}, Operation = "embed", calls # << >>,
         Ends => calls' = << >>, UNCHANGED <<site, page, moves>>
  PROVE  IInv'
  <1>1. Place' = "none" /\ Operation' = "none" /\ OneCall' /\ calls' = << >>
    BY Ended DEF EmbedUndoes, EmbedReturns
  <1>2. userdata
    BY DEF IInv, Progress
  <1>3. refs' = Release(Release(refs, "web"), "ole") /\ userdata' = FALSE /\ UNCHANGED block
    BY <1>2 DEF EmbedUndoes, UnEmbed
  <1>4. Held'
    BY <1>1, <1>2, <1>3 DEF IInv, Held, Release, Interface
  <1>5. rc' = -4 /\ window' = "doomed"
    BY DEF EmbedUndoes, EmbedReturns
  <1>6. UNCHANGED <<block, site>> /\ block = "held" /\ site \in BOOLEAN
    BY <1>3 DEF IInv, Progress
  <1>7. Progress'
    <2>1. rc' # 1 /\ rc' \in {0, -4}
      BY <1>5
    <2>2. (userdata \in BOOLEAN /\ site \in BOOLEAN)'
      BY <1>3, <1>6
    <2>3. (userdata <=> window = "open" \/ Place \in {"site", "verb"})'
      BY <1>1, <1>3, <1>5
    <2>4. (block = "held")'
      BY <1>6
    <2> QED
      BY <1>1, <1>5, <2>1, <2>2, <2>3, <2>4 DEF Progress
  <1> QED
    BY <1>1, <1>4, <1>7 DEF IInv

LEMMA SetsSiteInv == ASSUME IInv, EmbedSetsSite PROVE IInv'
  <1>1. InCall("embed", "site")
    BY AtIsCall DEF IInv, EmbedSetsSite
  <1>2. /\ Place = "site" /\ Operation = "embed" /\ calls # << >>
        /\ Ends => calls' = << >>
        /\ \A q : Goto(q) => calls' = <<CallAt("embed", q)>>
    BY <1>1, OneCallFacts
  <1>3. CASE EmbedUndoes /\ UNCHANGED site
    BY <1>2, <1>3, UndoesInv DEF EmbedSetsSite
  <1>4. CASE site' = TRUE /\ Goto("verb") /\ UNCHANGED <<window, rc, userdata, block, refs>>
    <2>1. Place' = "verb" /\ Operation' = "embed" /\ OneCall' /\ calls' # << >>
      BY <1>2, <1>4, Went
    <2> QED
      BY <1>2, <1>4, <2>1 DEF EmbedSetsSite, IInv, Held, Progress
  <1> QED
    BY <1>3, <1>4 DEF EmbedSetsSite

LEMMA ActivatesInv == ASSUME IInv, EmbedActivates PROVE IInv'
  <1>1. InCall("embed", "verb")
    BY AtIsCall DEF IInv, EmbedActivates
  <1>2. /\ Place = "verb" /\ Operation = "embed" /\ calls # << >>
        /\ Ends => calls' = << >>
    BY <1>1, OneCallFacts
  <1>3. CASE EmbedUndoes /\ UNCHANGED moves
    BY <1>2, <1>3, UndoesInv DEF EmbedActivates
  <1>4. ASSUME NEW n \in 0 .. 4, refs' = Release(Moved(refs, n), "web"), Moves(n), EmbedReturns(0),
               UNCHANGED <<userdata, block>>
        PROVE  IInv'
    <2>1. Place' = "none" /\ Operation' = "none" /\ OneCall' /\ calls' = << >>
      BY <1>2, <1>4, Ended DEF EmbedReturns
    <2>2. Held'
      BY <1>2, <1>4, <2>1 DEF EmbedActivates, Moved, Moves, Release, Interface, IInv, Held
    <2>3. Progress'
      BY <1>2, <1>4, <2>1 DEF EmbedActivates, EmbedReturns, IInv, Progress
    <2> QED
      BY <2>1, <2>2, <2>3 DEF IInv
  <1>5. \/ EmbedUndoes /\ UNCHANGED moves
        \/ \E n \in 0 .. 4 : /\ refs' = Release(Moved(refs, n), "web") /\ Moves(n)
                              /\ EmbedReturns(0) /\ UNCHANGED <<userdata, block>>
    BY DEF EmbedActivates
  <1> QED
    BY <1>3, <1>4, <1>5

(* Messages and calls that are over in one step (ui.c:96-99,               *)
(* cwebpage.c:2043-2218).                                                  *)
LEMMA MessageInv ==
  ASSUME IInv, Destroy \/ Resize \/ PageLoads \/ DisplayPage \/ PageAction
  PROVE  IInv'
  <1>1. UNCHANGED calls /\ Place' = Place /\ Operation' = Operation /\ OneCall'
    BY Stayed DEF IInv, Destroy, Resize, PageLoads, DisplayPage, PageAction
  <1>2. CASE Destroy
    <2>1. Place \notin {"site", "verb"} /\ Operation # "embed"
      BY <1>2 DEF Destroy, IInv, Progress, OneCall, Place, Operation, InCall, CallAt
    <2>2. CASE userdata
      <3>1. refs' = Release(refs, "ole") /\ userdata' = FALSE /\ UNCHANGED block
        BY <1>2, <2>2 DEF Destroy, UnEmbed
      <3>2. Held'
        BY <1>1, <1>2, <2>2, <3>1 DEF Destroy, Release, Interface, IInv, Held
      <3>3. Progress'
        BY <1>1, <1>2, <2>1, <3>1 DEF Destroy, IInv, Progress
      <3> QED
        BY <1>1, <3>2, <3>3 DEF IInv
    <2>3. CASE ~userdata
      BY <1>1, <1>2, <2>1, <2>3 DEF Destroy, UnEmbed, IInv, Held, Progress
    <2> QED
      BY <2>2, <2>3
  <1>3. CASE Resize
    <2>1. PICK n \in 0 .. 2 : refs' = Release(Moved(Obtain(refs, "web"), n), "web") /\ Moves(n)
      BY <1>3 DEF Resize
    <2>2. Held'
      BY <1>1, <1>3, <2>1 DEF Resize, Moved, Moves, Obtain, Release, Interface, IInv, Held
    <2> QED
      BY <1>1, <1>3, <2>2 DEF Resize, IInv, Progress
  <1>4. CASE PageLoads
    BY <1>1, <1>4 DEF PageLoads, IInv, Held, Progress
  <1>5. CASE DisplayPage \/ PageAction
    <2>1. refs' = Release(Obtain(refs, "web"), "web") /\ UNCHANGED <<window, userdata, block, site, moves, rc>>
      BY <1>5 DEF DisplayPage, PageAction
    <2>2. Held'
      BY <1>1, <2>1 DEF Obtain, Release, Interface, IInv, Held
    <2> QED
      BY <1>1, <2>1, <2>2 DEF IInv, Progress
  <1> QED
    BY <1>2, <1>3, <1>4, <1>5

(* DisplayHTMLStr and WaitOnReadyState (cwebpage.c:1801-1865, 1930-2022).  *)
LEMMA ShowBeginsInv == ASSUME IInv, StrBegins \/ WaitBegins PROVE IInv'
  <1>1. Place = "none" /\ Operation = "none" /\ calls = << >> /\ window = "open"
    BY NoCall DEF StrBegins, WaitBegins, MayCall
  <1>2. PICK o \in {"str", "wait"} : calls' = <<CallAt(o, "ready")>>
    BY DEF StrBegins, WaitBegins, CallAt
  <1>3. Place' = "ready" /\ Operation' = o /\ OneCall' /\ calls' # << >>
    BY <1>2, Went
  <1>4. refs' = Obtain(refs, "web") /\ UNCHANGED <<window, userdata, block, site, moves, rc>>
    BY DEF StrBegins, WaitBegins
  <1>5. Held'
    BY <1>1, <1>3, <1>4 DEF IInv, Held, Obtain, Interface
  <1> QED
    BY <1>1, <1>3, <1>4, <1>5 DEF IInv, Progress

(* A step from one place of a wait to another.                             *)
LEMMA WaitsInv == ASSUME IInv, Waits PROVE IInv'
  <1>1. PICK o \in {"str", "wait"} : At(o, "ready")
    BY DEF Waits
  <1>2. InCall(o, "ready")
    BY <1>1, AtIsCall DEF IInv
  <1>3. Place = "ready" /\ Operation = o /\ calls # << >> /\ calls' = <<CallAt(o, "pump")>>
    BY <1>2, OneCallFacts DEF Waits
  <1>4. Place' = "pump" /\ Operation' = o /\ OneCall' /\ calls' # << >>
    BY <1>3, Went
  <1> QED
    BY <1>3, <1>4 DEF Waits, IInv, Held, Progress

LEMMA WaitReturnsInv == ASSUME IInv, WaitReturns PROVE IInv'
  <1>1. PICK p \in {"ready", "pump"} : InCall("wait", p)
    BY AtIsCall DEF IInv, WaitReturns
  <1>2. Place = p /\ Operation = "wait" /\ calls # << >> /\ calls' = << >>
    BY <1>1, OneCallFacts DEF WaitReturns
  <1>3. Place' = "none" /\ Operation' = "none" /\ OneCall'
    BY <1>2, Ended
  <1> QED
    BY <1>2, <1>3 DEF WaitReturns, Release, Interface, IInv, Held, Progress

(* Obtaining and releasing: what is released again was not obtained, and   *)
(* two interfaces do not disturb each other.                               *)
LEMMA ObtainIs ==
  ASSUME NEW r \in [Interface -> Int], NEW i \in Interface
  PROVE  /\ Obtain(r, i) \in [Interface -> Int]
         /\ \A j \in Interface : Obtain(r, i)[j] = IF j = i THEN r[j] + 1 ELSE r[j]
  BY DEF Obtain

LEMMA ReleaseIs ==
  ASSUME NEW r \in [Interface -> Int], NEW i \in Interface
  PROVE  /\ Release(r, i) \in [Interface -> Int]
         /\ \A j \in Interface : Release(r, i)[j] = IF j = i THEN r[j] - 1 ELSE r[j]
  BY DEF Release

LEMMA Cancel ==
  ASSUME NEW r \in [Interface -> Int], NEW i \in Interface
  PROVE  Release(Obtain(r, i), i) = r
  <1> DEFINE o == Obtain(r, i)
  <1>1. o \in [Interface -> Int] /\ \A j \in Interface : o[j] = IF j = i THEN r[j] + 1 ELSE r[j]
    BY ObtainIs
  <1> HIDE DEF o
  <1>2. /\ Release(o, i) \in [Interface -> Int]
        /\ \A j \in Interface : Release(o, i)[j] = IF j = i THEN o[j] - 1 ELSE o[j]
    BY <1>1, ReleaseIs
  <1> DEFINE d == Release(o, i)
  <1>3. d \in [Interface -> Int] /\ \A j \in Interface : d[j] = IF j = i THEN o[j] - 1 ELSE o[j]
    BY <1>2
  <1> HIDE DEF d
  <1>4. d = r
    BY <1>1, <1>3
  <1> QED
    BY <1>4 DEF d, o

LEMMA Swap ==
  ASSUME NEW r \in [Interface -> Int], NEW i \in Interface, NEW k \in Interface, i # k
  PROVE  Release(Obtain(r, k), i) = Obtain(Release(r, i), k)
  <1> DEFINE o == Obtain(r, k)
             d == Release(r, i)
  <1>1. o \in [Interface -> Int] /\ \A j \in Interface : o[j] = IF j = k THEN r[j] + 1 ELSE r[j]
    BY ObtainIs
  <1>2. d \in [Interface -> Int] /\ \A j \in Interface : d[j] = IF j = i THEN r[j] - 1 ELSE r[j]
    BY ReleaseIs
  <1> HIDE DEF o, d
  <1> DEFINE od == Release(o, i)
             do == Obtain(d, k)
  <1>3. od \in [Interface -> Int] /\ \A j \in Interface : od[j] = IF j = i THEN o[j] - 1 ELSE o[j]
    BY <1>1, ReleaseIs
  <1>4. do \in [Interface -> Int] /\ \A j \in Interface : do[j] = IF j = k THEN d[j] + 1 ELSE d[j]
    BY <1>2, ObtainIs
  <1> HIDE DEF od, do
  <1>5. \A j \in Interface : od[j] = do[j]
    BY <1>1, <1>2, <1>3, <1>4
  <1>6. od = do
    BY <1>3, <1>4, <1>5
  <1> QED
    BY <1>6 DEF od, do, o, d

(* GetWebPtrs leaves the document, when there is one, and nothing else     *)
(* (cwebpage.c:1524-1587).                                                 *)
LEMMA DocPtrFacts ==
  ASSUME NEW r \in [Interface -> Int], NEW found
  PROVE  DocPtr(r, found) = IF found = "doc" THEN Obtain(r, "doc") ELSE r
  <1> DEFINE a == Obtain(r, "web")
             b == Obtain(a, "disp")
  <1>1. /\ {"web", "disp", "doc"} \subseteq Interface
        /\ "web" # "disp" /\ "web" # "doc" /\ "disp" # "doc"
    BY DEF Interface
  <1>2. a \in [Interface -> Int] /\ Release(a, "web") = r
    BY <1>1, ObtainIs, Cancel
  <1> HIDE DEF a
  <1>3. b \in [Interface -> Int] /\ Release(b, "disp") = a
    BY <1>1, <1>2, ObtainIs, Cancel
  <1> HIDE DEF b
  <1>4. Release(Obtain(b, "doc"), "disp") = Obtain(a, "doc")
    BY <1>1, <1>3, Swap
  <1>5. Release(Obtain(a, "doc"), "web") = Obtain(r, "doc")
    BY <1>1, <1>2, Swap
  <1>6. DocPtr(r, found) = IF found = "doc" THEN Release(Release(Obtain(b, "doc"), "disp"), "web")
                           ELSE IF found = "no dispatch" THEN Release(a, "web")
                           ELSE Release(Release(b, "disp"), "web")
    BY DEF DocPtr, a, b
  <1> QED
    BY <1>2, <1>3, <1>4, <1>5, <1>6

(* What was not held and is obtained is held once.                        *)
LEMMA FromNone == ASSUME NEW x, NEW y, x = 0, y = x + 1 PROVE y = 1
  OBVIOUS

(* DisplayHTMLStr asks for the document, writes and ends                   *)
(* (cwebpage.c:1930-2022).                                                 *)
LEMMA StrAsksInv == ASSUME IInv, StrAsksDoc PROVE IInv'
  <1>1. PICK p \in {"ready", "pump"} : InCall("str", p)
    BY AtIsCall DEF IInv, StrAsksDoc
  <1>2. /\ Place = p /\ Operation = "str" /\ calls # << >>
        /\ \A q : Goto(q) => calls' = <<CallAt("str", q)>>
    BY <1>1, OneCallFacts
  <1>3. PICK found \in {"doc", "no doc", "no dispatch"} :
            refs' = DocPtr(refs, found) /\ IF found = "doc" THEN Goto("write") ELSE Goto("end")
    BY DEF StrAsksDoc
  <1>4. UNCHANGED <<window, userdata, block, site, moves, rc>>
    BY DEF StrAsksDoc
  <1>5. CASE found = "doc"
    <2>1. Place' = "write" /\ Operation' = "str" /\ OneCall' /\ calls' # << >>
      BY <1>2, <1>3, <1>5, Went
    <2>2. refs' = Obtain(refs, "doc")
      BY <1>3, <1>5, DocPtrFacts DEF IInv, Held
    <2>3. /\ refs' \in [Interface -> Int]
          /\ \A i \in Interface : refs'[i] = IF i = "doc" THEN refs[i] + 1 ELSE refs[i]
      BY <2>2, ObtainIs DEF Interface, IInv, Held
    <2>4. Held'
      <3>1. /\ refs["web"] = 1 /\ refs["doc"] = 0 /\ refs["disp"] = 0 /\ moves \in Int
            /\ refs["inplace"] = moves /\ refs["ole"] = IF userdata THEN 1 ELSE 0
        BY <1>1, <1>2 DEF IInv, Held
      <3>2. \A i \in Interface : i # "doc" => refs'[i] = refs[i]
        BY <2>3
      <3>3. /\ refs'["web"] = refs["web"] /\ refs'["disp"] = refs["disp"]
            /\ refs'["inplace"] = refs["inplace"] /\ refs'["ole"] = refs["ole"]
        BY <3>2 DEF Interface
      <3>4. "doc" \in Interface /\ refs["doc"] = 0
        BY <3>1 DEF Interface
      <3>5. refs'["doc"] = refs["doc"] + 1
        BY <2>3, <3>4
      <3>6. refs'["doc"] = 1
        BY <3>4, <3>5, FromNone
      <3> QED
        BY <1>4, <2>1, <2>3, <3>1, <3>3, <3>6 DEF Held
    <2>5. Progress'
      BY <1>1, <1>2, <1>4, <2>1 DEF IInv, Progress
    <2> QED
      BY <2>1, <2>4, <2>5 DEF IInv
  <1>6. CASE found # "doc"
    <2>1. Place' = "end" /\ Operation' = "str" /\ OneCall' /\ calls' # << >>
      BY <1>2, <1>3, <1>6, Went
    <2>2. refs' = refs
      BY <1>3, <1>6, DocPtrFacts DEF IInv, Held
    <2>3. Held'
      BY <1>1, <1>2, <1>4, <2>1, <2>2 DEF Obtain, Release, Interface, IInv, Held
    <2>4. Progress'
      BY <1>1, <1>2, <1>4, <2>1 DEF IInv, Progress
    <2> QED
      BY <2>1, <2>3, <2>4 DEF IInv
  <1> QED
    BY <1>5, <1>6

LEMMA StrGoesOnInv == ASSUME IInv, StrDestroyed \/ StrWrites PROVE IInv'
  <1>1. CASE StrDestroyed
    <2>1. InCall("str", "pump")
      BY <1>1, AtIsCall DEF IInv, StrDestroyed
    <2>2. Place = "pump" /\ Operation = "str" /\ calls # << >> /\ calls' = <<CallAt("str", "end")>>
      BY <1>1, <2>1, OneCallFacts DEF StrDestroyed
    <2>3. Place' = "end" /\ Operation' = "str" /\ OneCall' /\ calls' # << >>
      BY <2>2, Went
    <2> QED
      BY <1>1, <2>2, <2>3 DEF StrDestroyed, IInv, Held, Progress
  <1>2. CASE StrWrites
    <2>1. InCall("str", "write")
      BY <1>2, AtIsCall DEF IInv, StrWrites
    <2>2. Place = "write" /\ Operation = "str" /\ calls # << >> /\ calls' = <<CallAt("str", "end")>>
      BY <1>2, <2>1, OneCallFacts DEF StrWrites
    <2>3. Place' = "end" /\ Operation' = "str" /\ OneCall' /\ calls' # << >>
      BY <2>2, Went
    <2> QED
      BY <1>2, <2>2, <2>3 DEF StrWrites, Release, Interface, IInv, Held, Progress
  <1> QED
    BY <1>1, <1>2

LEMMA StrEndsInv == ASSUME IInv, StrEnds PROVE IInv'
  <1>1. InCall("str", "end")
    BY AtIsCall DEF IInv, StrEnds
  <1>2. Place = "end" /\ Operation = "str" /\ calls # << >> /\ calls' = << >>
    BY <1>1, OneCallFacts DEF StrEnds
  <1>3. Place' = "none" /\ Operation' = "none" /\ OneCall'
    BY <1>2, Ended
  <1> QED
    BY <1>2, <1>3 DEF StrEnds, Release, Interface, IInv, Held, Progress

-----------------------------------------------------------------------------
(* What is held at each place of a call, and how far the window is, holds  *)
(* throughout (cwebpage.c:2244-2383).                                      *)
THEOREM Invariance == Spec => []IInv
  <1>1. ASSUME IInv, Next PROVE IInv'
    BY <1>1, CreateInv, AllocatesInv, CreatesInv, AsksOleInv, SetsSiteInv, ActivatesInv, MessageInv,
       ShowBeginsInv, WaitsInv, WaitReturnsInv, StrAsksInv, StrGoesOnInv, StrEndsInv DEF Next
  <1>2. ASSUME IInv, UNCHANGED vars PROVE IInv'
    BY <1>2, Stayed DEF vars, IInv, Held, Progress
  <1> QED
    BY <1>1, <1>2, InitInv, PTL DEF Spec

(* Every reference is given back but for one IOleInPlaceObject per change  *)
(* of position, however many there are (cwebpage.c:1883-1905, 2244-2383).  *)
THEOREM EveryReferenceReturned == Spec => []ReferencesBalance
  <1>1. IInv => ReferencesBalance
    BY NoCall DEF IInv, Held, Progress, ReferencesBalance
  <1> QED
    BY <1>1, Invariance, PTL

(* The browser never calls back into memory that was given back            *)
(* (cwebpage.c:1883-1905, 2363-2383).                                      *)
THEOREM SiteStays == Spec => []SiteOutlivesBrowser
  <1>1. IInv => SiteOutlivesBrowser
    BY DEF IInv, Progress, SiteOutlivesBrowser
  <1> QED
    BY <1>1, Invariance, PTL

-----------------------------------------------------------------------------
(* The collector.  The invariant is one of the whole cycle: while marking,  *)
(* what is black has been traversed (BlackSees) and what is gray is in a   *)
(* list of the collector (Linked); the atomic end keeps account of what    *)
(* may still be found white behind open upvalues, weak tables and threads  *)
(* (Atomic).  The flip turns what is white into the dead, which the sweep  *)
(* still has to come to (Swept); and what is not dead refers to nothing    *)
(* that is (Closed), which the marking establishes and the scripts keep.   *)

(* Nil, or reached by the marking.                                         *)
Seen(x) == x = Nil \/ ~IsWhite(x)

(* Nil, or an object that this cycle does not free.                        *)
Lasts(x) == x = Nil \/ (x \in live /\ ~IsDead(x))

GCTypes ==
    /\ GCTypeOK
    /\ val \in [Upvals -> (Obj \ Upvals) \cup {Nil}]
    /\ entry \in [Tables -> {<< >>} \cup (((Obj \ Upvals) \cup {Nil}) \X (Obj \ Upvals))]

(* What has no memory is white and holds nothing.                          *)
Blank ==
    /\ \A o \in Obj \ live : mark[o] = "white"
    /\ \A th \in Threads \ live : stack[th] = {}
    /\ \A t \in Tables \ live : entry[t] = << >>
    /\ \A f \in Closures \ live : up[f] = Nil
    /\ \A d \in Udata \ live : meta[d] = Nil
    /\ \A u \in Upvals \ live : open[u] = Nil

(* The colours there are of each kind of object.                           *)
Colours ==
    /\ \A o \in Threads \cup WeakKeys \cup WeakValues : mark[o] # "black"
    /\ \A d \in Udata : mark[d] # "gray"
    /\ \A u \in Upvals : /\ mark[u] = "black" => open[u] = Nil
                         /\ mark[u] = "gray" => open[u] # Nil

(* Still to be swept, itself or with the thread it is open on.             *)
Awaited(o) == o \in sweeping \/ (o \in Upvals /\ open[o] \in sweeping)

(* The dead wait for the sweep; what does not wait for it is white again,  *)
(* but for the userdata that wait for their finalizer.                     *)
Swept ==
    /\ sweeping \subseteq live /\ tmudata \subseteq live /\ sweeping \cap tmudata = {}
    /\ \A u \in Upvals \cap sweeping : open[u] = Nil
    /\ \A u \in Upvals : open[u] # Nil => open[u] \in live
    /\ ~Sweeps => sweeping = {}
    /\ phase = "pause" => tmudata = {}
    /\ \A o \in Obj : IsDead(o) => Sweeps /\ Awaited(o)
    /\ ~Marks => \A o \in live : mark[o] = "white" \/ o \in tmudata \/ Awaited(o)

(* What lasts refers to what lasts.                                        *)
Closed ==
    /\ \A th \in Threads : Lasts(th) => /\ \A x \in stack[th] : Lasts(x)
                                        /\ \A u \in Upvals : open[u] = th => Lasts(val[u])
    /\ \A t \in Tables : Lasts(t) /\ entry[t] # << >> => Lasts(entry[t][1]) /\ Lasts(entry[t][2])
    /\ \A f \in Closures : Lasts(f) => Lasts(up[f])
    /\ \A u \in Upvals : Lasts(u) => Lasts(val[u])
    /\ \A d \in Udata : Lasts(d) => Lasts(meta[d])
    /\ Lasts(Main) /\ (Marks => Seen(Main))

(* The marking has gone through a table, or through a thread.              *)
EntrySeen(t) == entry[t] # << >> => /\ t \in WeakKeys \/ Seen(entry[t][1])
                                    /\ t \in WeakValues \/ Seen(entry[t][2])
SlotsSeen(th) == /\ \A x \in stack[th] : Seen(x)
                 /\ \A u \in Upvals : open[u] = th => Seen(val[u])

(* How far the atomic end of the marking has come.                         *)
Atomic ==
    /\ weak \subseteq WeakKeys \cup WeakValues
    /\ phase \in {"remark", "weak", "again", "tm"} =>
           \A u \in Upvals : mark[u] = "gray" => Seen(val[u])
    /\ phase \in {"weak", "again", "tm"} => \A t \in weak : EntrySeen(t)
    /\ phase \in {"again", "tm"} => grayagain \subseteq Threads /\ \A th \in grayagain : SlotsSeen(th)
    /\ phase = "tm" => \A d \in tmudata : mark[d] = "black"

(* What is black has been traversed.                                       *)
BlackSees ==
    /\ \A t \in Tables : mark[t] = "black" => EntrySeen(t)
    /\ \A f \in Closures : mark[f] = "black" => Seen(up[f])
    /\ \A u \in Upvals : mark[u] = "black" => Seen(val[u])
    /\ \A d \in Udata : mark[d] = "black" /\ (d \in tmudata => phase = "tm") => Seen(meta[d])

GCInv ==
    /\ GCTypes /\ Blank /\ Colours /\ Swept /\ Closed
    /\ Marks => Linked /\ Atomic /\ BlackSees

-----------------------------------------------------------------------------
(* Objects and what they refer to, by kind.                                *)
LEMMA RefsByKind ==
    /\ \A th \in Threads : Strong(th) = Slots(th) /\ Refs(th) = Slots(th)
    /\ \A t \in Tables : Refs(t) = IF entry[t] = << >> THEN {} ELSE {entry[t][1], entry[t][2]} \ {Nil}
    /\ \A f \in Closures : Strong(f) = {up[f]} \ {Nil} /\ Refs(f) = {up[f]} \ {Nil}
    /\ \A u \in Upvals : Strong(u) = {val[u]} \ {Nil} /\ Refs(u) = {val[u]} \ {Nil}
    /\ \A d \in Udata : Strong(d) = {meta[d]} \ {Nil} /\ Refs(d) = {meta[d]} \ {Nil}
    /\ \A s \in Strings : Strong(s) = {} /\ Refs(s) = {}
  BY HeapAssumption DEF HeapAssumption, Strong, Refs

(* What the marking follows from a table.                                  *)
LEMMA StrongOfTable ==
    ASSUME NEW t \in Tables
    PROVE  Strong(t) = IF entry[t] = << >> THEN {}
                       ELSE ((IF t \in WeakKeys THEN {} ELSE {entry[t][1]}) \cup
                             (IF t \in WeakValues THEN {} ELSE {entry[t][2]})) \ {Nil}
  BY HeapAssumption DEF HeapAssumption, Strong

(* What the marking finds behind userdata and upvalues.                    *)
LEMMA BehindIs ==
    ASSUME NEW S, NEW x
    PROVE  x \in Behind(S) <=> x # Nil /\ (\/ \E u \in Upvals \cap S : x = val[u]
                                           \/ \E d \in Udata \cap S : x = meta[d])
  BY RefsByKind DEF Behind

(* What lasts refers to what is allocated and not dead.                    *)
LEMMA RefsLast ==
    ASSUME GCTypes, Closed, NEW o \in Obj, Lasts(o), NEW x \in Refs(o)
    PROVE  x # Nil /\ Lasts(x)
<1>1. CASE o \in Threads
  BY <1>1, RefsByKind DEF Closed, Slots, OpenOn
<1>2. CASE o \in Tables
  BY <1>2, RefsByKind DEF Closed
<1>3. CASE o \in Closures
  BY <1>3, RefsByKind DEF Closed
<1>4. CASE o \in Upvals
  BY <1>4, RefsByKind DEF Closed
<1>5. CASE o \in Udata
  BY <1>5, RefsByKind DEF Closed
<1>6. CASE o \in Strings
  BY <1>6, RefsByKind
<1> QED
  BY <1>1, <1>2, <1>3, <1>4, <1>5, <1>6 DEF Obj

(* The marking follows no more than what a script can get hold of.         *)
LEMMA StrongAreRefs ==
    ASSUME NEW o \in Obj
    PROVE  Strong(o) \subseteq Refs(o)
<1>1. CASE o \in Tables
  BY <1>1, StrongOfTable, RefsByKind
<1>2. CASE o \notin Tables
  BY <1>2 DEF Refs
<1> QED
  BY <1>1, <1>2

(* Outside the sweep nothing is dead.                                      *)
LEMMA NoneDead ==
    ASSUME GCTypes, Blank, Swept, ~Sweeps
    PROVE  \A o \in Obj : /\ ~IsDead(o)
                          /\ IsWhite(o) <=> mark[o] = "white"
                          /\ Lasts(o) <=> o \in live
                          /\ ~IsWhite(o) => o \in live
  BY HeapAssumption DEF HeapAssumption, Swept, IsDead, IsWhite, Lasts, Blank

(* What is behind allocated objects is allocated.                          *)
LEMMA BehindLive ==
    ASSUME GCTypes, Blank, Swept, Closed, ~Sweeps
    PROVE  \A A \in SUBSET live : Behind(A) \subseteq live
<1>1. live \subseteq Obj
  BY DEF GCTypes, GCTypeOK
<1> QED
  BY <1>1, BehindIs, NoneDead, HeapAssumption DEF Closed, Lasts, HeapAssumption

(* What is reached from allocated objects: it is white and allocated, it   *)
(* has the white ones among them and what is white behind its userdata and *)
(* upvalues.                                                               *)
LEMMA ReachedIs ==
    ASSUME GCTypes, Blank, Swept, Closed, ~Sweeps, NEW S \in SUBSET live
    PROVE  /\ Reached(S) \subseteq live
           /\ \A o \in Reached(S) : IsWhite(o)
           /\ \A x \in S : IsWhite(x) => x \in Reached(S)
           /\ \A u \in Upvals \cap Reached(S) :
                  val[u] = Nil \/ ~IsWhite(val[u]) \/ val[u] \in Reached(S)
           /\ \A d \in Udata \cap Reached(S) :
                  meta[d] = Nil \/ ~IsWhite(meta[d]) \/ meta[d] \in Reached(S)
<1> DEFINE a == WhiteIn(S)
           b == a \cup WhiteIn(Behind(a))
           c == WhiteIn(Behind(b))
<1>1. Reached(S) = b \cup c
  BY DEF Reached
<1>2. live \subseteq Obj
  BY DEF GCTypes, GCTypeOK
<1>3. \A A \in SUBSET live : Behind(A) \subseteq live
  BY BehindLive
<1>4. \A A : WhiteIn(A) \subseteq A /\ \A o \in A : o \in WhiteIn(A) <=> IsWhite(o)
  BY DEF WhiteIn
<1>5. a \in SUBSET live /\ WhiteIn(Behind(a)) \in SUBSET live
  BY <1>3, <1>4
<1>6. b \in SUBSET live /\ c \in SUBSET live
  BY <1>3, <1>4, <1>5
<1>7. \A o \in b \cup c : IsWhite(o)
  BY DEF WhiteIn
<1>8. \A x \in S : IsWhite(x) => x \in b
  BY DEF WhiteIn
<1>9. \A A : \A x \in Behind(A) : x \notin Upvals
  BY BehindIs, HeapAssumption DEF GCTypes, GCTypeOK, HeapAssumption
<1>10. \A x \in Behind(b) : x \in Udata => x \in Behind(a)
  <2> SUFFICES ASSUME NEW x \in Behind(b), x \in Udata
               PROVE  x \in Behind(a)
    OBVIOUS
  <2>1. PICK u \in Upvals \cap b : x = val[u]
    BY BehindIs, HeapAssumption DEF GCTypes, GCTypeOK, HeapAssumption
  <2>2. u \in a
    BY <1>4, <1>9
  <2> QED
    BY <2>1, <2>2, BehindIs
<1>11. \A u \in Upvals \cap (b \cup c) : u \in a
  BY <1>4, <1>9
<1>12. \A d \in Udata \cap (b \cup c) : d \in b
  BY <1>4, <1>10
<1>13. \A u \in Upvals \cap (b \cup c) : val[u] = Nil \/ ~IsWhite(val[u]) \/ val[u] \in b \cup c
  <2> SUFFICES ASSUME NEW u \in Upvals \cap (b \cup c), val[u] # Nil
               PROVE  ~IsWhite(val[u]) \/ val[u] \in b \cup c
    OBVIOUS
  <2>1. val[u] \in Behind(a)
    BY <1>11, BehindIs
  <2> QED
    BY <2>1, <1>4
<1>14. \A d \in Udata \cap (b \cup c) : meta[d] = Nil \/ ~IsWhite(meta[d]) \/ meta[d] \in b \cup c
  <2> SUFFICES ASSUME NEW d \in Udata \cap (b \cup c), meta[d] # Nil
               PROVE  ~IsWhite(meta[d]) \/ meta[d] \in b \cup c
    OBVIOUS
  <2>1. meta[d] \in Behind(b)
    BY <1>12, BehindIs
  <2> QED
    BY <2>1, <1>4
<1> HIDE DEF a, b, c
<1> QED
  BY <1>1, <1>6, <1>7, <1>8, <1>13, <1>14

(* What WithMarks leaves and what it makes: nothing that was reached is    *)
(* changed, and what becomes reached is allocated and takes the colour of  *)
(* its kind, with what is behind it when that is black.                    *)
LEMMA WithMarksIs ==
    ASSUME GCTypes, Blank, Swept, Closed, ~Sweeps, NEW S \in SUBSET live,
           NEW m, m = WithMarks(S)
    PROVE  /\ m \in [Obj -> Colour]
           /\ \A o \in Obj : m[o] = IF o \in Reached(S) THEN MarkedAs(o) ELSE mark[o]
           /\ \A o \in Obj : ~IsWhite(o) => m[o] = mark[o]
           /\ \A x \in S : m[x] \notin {"white", "dead"}
           /\ \A u \in Upvals \cap Reached(S) : val[u] = Nil \/ m[val[u]] \notin {"white", "dead"}
           /\ \A d \in Udata \cap Reached(S) : meta[d] = Nil \/ m[meta[d]] \notin {"white", "dead"}
<1>1. \A o : MarkedAs(o) \in Colour /\ MarkedAs(o) \notin {"white", "dead"}
  BY DEF MarkedAs, Colour
<1>2. m = [o \in Obj |-> IF o \in Reached(S) THEN MarkedAs(o) ELSE mark[o]]
  BY DEF WithMarks
<1>3. \A o \in Obj : m[o] = IF o \in Reached(S) THEN MarkedAs(o) ELSE mark[o]
  BY <1>2
<1>4. m \in [Obj -> Colour]
  BY <1>1, <1>2 DEF GCTypes, GCTypeOK
<1>5. \A o \in Obj : ~IsWhite(o) => m[o] = mark[o]
  BY <1>3, ReachedIs
<1>6. \A x \in Obj : x \in Reached(S) \/ ~IsWhite(x) => m[x] \notin {"white", "dead"}
  BY <1>1, <1>3 DEF IsWhite
<1>7. S \subseteq Obj /\ \A x \in S : IsWhite(x) => x \in Reached(S)
  BY ReachedIs DEF GCTypes, GCTypeOK
<1>8. \A u \in Upvals : val[u] = Nil \/ val[u] \in Obj
  BY DEF GCTypes, GCTypeOK
<1>9. \A d \in Udata : meta[d] = Nil \/ meta[d] \in Obj
  BY DEF GCTypes, GCTypeOK, Obj
<1>10. /\ \A u \in Upvals \cap Reached(S) : val[u] = Nil \/ ~IsWhite(val[u]) \/ val[u] \in Reached(S)
       /\ \A d \in Udata \cap Reached(S) : meta[d] = Nil \/ ~IsWhite(meta[d]) \/ meta[d] \in Reached(S)
  BY ReachedIs
<1> QED
  BY <1>3, <1>4, <1>5, <1>6, <1>7, <1>8, <1>9, <1>10

-----------------------------------------------------------------------------
(* A step of the mark phase: white objects may be marked, and what was     *)
(* gray may turn black if it is a table that is not weak or a closure.     *)
Marking ==
    /\ UNCHANGED <<live, heap, sweeping>> /\ tmudata \subseteq tmudata' /\ tmudata' \subseteq Udata \cap live
    /\ phase' \in {"propagate", "remark", "weak", "again", "tm"} /\ full' \in {"no", "sweep", "mark"}
    /\ finalized' \subseteq Udata /\ mark' \in [Obj -> Colour]
    /\ \A o \in Obj : IsWhite(o) => o \in live \/ mark'[o] = mark[o]
    /\ \A o \in Obj : IsWhite(o) => mark'[o] = mark[o] \/ mark'[o] = MarkedAs(o)
    /\ \A o \in Obj : ~IsWhite(o) => \/ mark'[o] = mark[o]
                                     \/ /\ o \in (Tables \ (WeakKeys \cup WeakValues)) \cup Closures
                                        /\ mark[o] = "gray" /\ mark'[o] = "black"
    /\ ~IsWhite(Main)'

(* A step of the mark phase keeps the types.                               *)
LEMMA MarkingTypes == ASSUME GCTypes, Marking PROVE GCTypes'
  BY DEF GCTypes, GCTypeOK, Marking, heap

(* It leaves free memory white.                                            *)
LEMMA MarkingBlank == ASSUME GCTypes, Blank, Swept, ~Sweeps, Marking PROVE Blank'
<1>1. \A o \in Obj \ live : mark'[o] = "white"
  BY NoneDead DEF Marking, Blank
<1> QED
  BY <1>1 DEF Marking, heap, Blank

(* It gives each object a colour of its kind.                              *)
LEMMA MarkingColours == ASSUME GCTypes, Colours, Marking PROVE Colours'
<1>1. \A o \in Threads \cup WeakKeys \cup WeakValues : mark'[o] # "black"
  BY HeapAssumption DEF HeapAssumption, Obj, Marking, MarkedAs, Colours, GCTypes, GCTypeOK, IsWhite
<1>2. \A d \in Udata : mark'[d] # "gray"
  BY HeapAssumption DEF HeapAssumption, Obj, Marking, MarkedAs, Colours, GCTypes, GCTypeOK, IsWhite
<1>3. \A u \in Upvals : /\ mark'[u] = "black" => open[u] = Nil
                        /\ mark'[u] = "gray" => open[u] # Nil
  BY HeapAssumption DEF HeapAssumption, Obj, Marking, MarkedAs, Colours, GCTypes, GCTypeOK, IsWhite
<1> QED
  BY <1>1, <1>2, <1>3 DEF Marking, heap, Colours

(* It starts no sweep.                                                     *)
LEMMA MarkingSwept == ASSUME GCTypes, Blank, Swept, ~Sweeps, Marking PROVE Swept'
<1>1. \A o \in Obj : ~IsDead(o)'
  BY NoneDead DEF Marking, MarkedAs, IsDead, IsWhite
<1> QED
  BY <1>1 DEF Marking, heap, Swept, Marks, Sweeps

(* It makes nothing dead.                                                  *)
LEMMA MarkingClosed ==
    ASSUME GCTypes, Blank, Swept, Closed, ~Sweeps, Marking
    PROVE  Closed'
<1>1. \A o \in Obj : ~IsDead(o)' /\ ~IsDead(o)
  BY NoneDead DEF Marking, MarkedAs, IsDead, IsWhite
<1>2. \A x \in Obj \cup {Nil} : Lasts(x)' <=> Lasts(x)
  BY <1>1 DEF Lasts, Marking
<1>3. /\ \A th \in Threads : \A x \in stack[th] : x \in Obj
      /\ \A t \in Tables : entry[t] # << >> => entry[t][1] \in Obj \cup {Nil} /\ entry[t][2] \in Obj \cup {Nil}
      /\ \A f \in Closures : up[f] \in Obj \cup {Nil}
      /\ \A u \in Upvals : val[u] \in Obj \cup {Nil}
      /\ \A d \in Udata : meta[d] \in Obj \cup {Nil}
  BY DEF GCTypes, GCTypeOK, Obj
<1>4. Tables \cup Closures \cup Upvals \cup Udata \cup Threads \subseteq Obj /\ Main \in Obj
  BY HeapAssumption DEF Obj, HeapAssumption
<1>5. Seen(Main)'
  BY DEF Marking, Seen
<1> QED
  BY <1>2, <1>3, <1>4, <1>5 DEF Closed, Marking, heap

(* What was reached stays reached.                                         *)
LEMMA MarkingSeen ==
    ASSUME GCTypes, Marking, NEW x \in Obj \cup {Nil}, Seen(x)
    PROVE  Seen(x)'
  BY HeapAssumption DEF HeapAssumption, Seen, Marking, IsWhite

(* What may have been traversed stays so, and what has become black must   *)
(* have been traversed.                                                    *)
LEMMA MarkingBlackSees ==
    ASSUME GCTypes, Marking, BlackSees \/ ~Marks,
           \A d \in tmudata : phase' = "tm" => Seen(meta[d])',
           ~Marks => \A o \in Obj : mark[o] = "black" => o \in tmudata,
           \A t \in Tables : mark[t] # "black" /\ mark'[t] = "black" => EntrySeen(t)',
           \A f \in Closures : mark[f] # "black" /\ mark'[f] = "black" => Seen(up[f])',
           \A u \in Upvals : mark[u] # "black" /\ mark'[u] = "black" => Seen(val[u])',
           \A d \in Udata : mark[d] # "black" /\ mark'[d] = "black" => Seen(meta[d])'
    PROVE  BlackSees'
<1>1. \A t \in Tables : EntrySeen(t) => EntrySeen(t)'
  BY MarkingSeen DEF EntrySeen, Marking, heap, GCTypes, GCTypeOK
<1>2. \A f \in Closures : Seen(up[f]) => Seen(up[f])'
  BY MarkingSeen DEF Marking, heap, GCTypes, GCTypeOK, Obj
<1>3. \A u \in Upvals : Seen(val[u]) => Seen(val[u])'
  BY MarkingSeen DEF Marking, heap, GCTypes, GCTypeOK, Obj
<1>4. \A d \in Udata : Seen(meta[d]) => Seen(meta[d])'
  BY MarkingSeen DEF Marking, heap, GCTypes, GCTypeOK, Obj
<1>5. /\ tmudata \subseteq tmudata' /\ tmudata \cap (Tables \cup Closures \cup Upvals) = {}
      /\ Tables \cup Closures \cup Upvals \cup Udata \subseteq Obj
  BY HeapAssumption DEF Marking, HeapAssumption, Obj, GCTypes, GCTypeOK
<1>6. \A t \in Tables : mark'[t] = "black" => EntrySeen(t)'
  BY <1>1, <1>5 DEF BlackSees
<1>7. \A f \in Closures : mark'[f] = "black" => Seen(up[f])'
  BY <1>2, <1>5 DEF BlackSees
<1>8. \A u \in Upvals : mark'[u] = "black" => Seen(val[u])'
  BY <1>3, <1>5 DEF BlackSees
<1>9. \A d \in Udata : mark'[d] = "black" /\ (d \in tmudata => phase' = "tm") => Seen(meta[d])'
  BY <1>4, <1>5 DEF BlackSees
<1> QED
  BY <1>5, <1>6, <1>7, <1>8, <1>9 DEF BlackSees

-----------------------------------------------------------------------------
Listable == Tables \cup Closures \cup Threads
GrayOnes == {o \in live \cap Listable : mark[o] = "gray"}

(* The objects that WithMarks turns gray are the ones it lists, and were   *)
(* in no list.                                                             *)
LEMMA GrayedIs ==
    ASSUME GCTypes, Blank, Swept, Closed, ~Sweeps, NEW S \in SUBSET live,
           NEW m, m = WithMarks(S)
    PROVE  /\ {o \in live \cap Listable : m[o] = "gray"} = GrayOnes \cup Listed(Reached(S))
           /\ \A o \in Listed(Reached(S)) : o \in Listable /\ IsWhite(o) /\ o \in live
<1>1. \A o \in Listable : o \in Obj /\ MarkedAs(o) = "gray"
  BY HeapAssumption DEF HeapAssumption, Obj, MarkedAs, Listable
<1>2. \A o \in Obj : m[o] = IF o \in Reached(S) THEN MarkedAs(o) ELSE mark[o]
  BY WithMarksIs
<1>3. Reached(S) \subseteq live /\ \A o \in Reached(S) : IsWhite(o)
  BY ReachedIs
<1>4. \A o : o \in Listed(Reached(S)) <=> o \in Reached(S) /\ o \in Listable
  BY DEF Listed, Listable
<1> QED
  BY <1>1, <1>2, <1>3, <1>4 DEF GrayOnes

(* Marking with WithMarks alone is a step of the mark phase.               *)
LEMMA WithMarksMarking ==
    ASSUME GCTypes, Blank, Swept, Closed, ~Sweeps, NEW S \in SUBSET live,
           mark' = WithMarks(S), UNCHANGED <<live, heap, sweeping, tmudata, finalized>>,
           phase' \in {"propagate", "remark", "weak", "again", "tm"}, full' \in {"no", "sweep", "mark"},
           Main \in S \/ ~IsWhite(Main)
    PROVE  /\ Marking
           /\ \A x \in S : ~IsWhite(x)'
           /\ \A t \in Tables : mark'[t] = "black" => mark[t] = "black"
           /\ \A f \in Closures : mark'[f] = "black" => mark[f] = "black"
           /\ \A u \in Upvals : mark[u] # mark'[u] => Seen(val[u])'
           /\ \A d \in Udata : mark[d] # mark'[d] => Seen(meta[d])'
<1>1. /\ mark' \in [Obj -> Colour]
      /\ \A o \in Obj : mark'[o] = IF o \in Reached(S) THEN MarkedAs(o) ELSE mark[o]
      /\ \A o \in Obj : ~IsWhite(o) => mark'[o] = mark[o]
      /\ \A x \in S : mark'[x] \notin {"white", "dead"}
      /\ \A u \in Upvals \cap Reached(S) : val[u] = Nil \/ mark'[val[u]] \notin {"white", "dead"}
      /\ \A d \in Udata \cap Reached(S) : meta[d] = Nil \/ mark'[meta[d]] \notin {"white", "dead"}
  BY WithMarksIs
<1>2. Reached(S) \subseteq live
  BY ReachedIs
<1>3. \A x : ~IsWhite(x)' <=> mark'[x] \notin {"white", "dead"}
  BY DEF IsWhite
<1>4. Main \in Obj
  BY HeapAssumption DEF HeapAssumption, Obj
<1>5. ~IsWhite(Main)'
  BY <1>1, <1>3, <1>4 DEF IsWhite
<1>6. Marking
  BY <1>1, <1>2, <1>5 DEF Marking, GCTypes, GCTypeOK, Swept
<1>7. \A o \in Tables \cup Closures : o \in Obj /\ MarkedAs(o) = "gray"
  BY HeapAssumption DEF HeapAssumption, Obj, MarkedAs
<1>8. /\ \A t \in Tables : mark'[t] = "black" => mark[t] = "black"
      /\ \A f \in Closures : mark'[f] = "black" => mark[f] = "black"
  BY <1>1, <1>7
<1>9. /\ \A u \in Upvals : mark[u] # mark'[u] => Seen(val[u])'
      /\ \A d \in Udata : mark[d] # mark'[d] => Seen(meta[d])'
  BY <1>1, <1>3 DEF Seen, Obj, heap
<1> QED
  BY <1>1, <1>3, <1>6, <1>8, <1>9

(* What a step of the mark phase leaves to be shown of it.                 *)
LEMMA MarkingKeeps ==
    ASSUME GCInv, ~Sweeps, Marking, Linked', Atomic', BlackSees'
    PROVE  GCInv'
  BY MarkingTypes, MarkingBlank, MarkingColours, MarkingSwept, MarkingClosed DEF GCInv

(* The marking starts from the main thread.                                *)
LEMMA MarkRootKeeps == GCInv /\ MarkRoot => GCInv'
<1> SUFFICES ASSUME GCInv, MarkRoot PROVE GCInv'
  OBVIOUS
<1>1. GCTypes /\ Blank /\ Swept /\ Closed /\ ~Sweeps /\ ~Marks
  BY DEF GCInv, MarkRoot, Sweeps, Marks
<1>2. {Main} \in SUBSET live
  BY <1>1 DEF GCTypes, GCTypeOK
<1>3. \A o \in Obj : ~IsWhite(o) => o \in tmudata
  BY <1>1, NoneDead DEF Swept, Awaited
<1>4. /\ Marking
      /\ \A t \in Tables : mark'[t] = "black" => mark[t] = "black"
      /\ \A f \in Closures : mark'[f] = "black" => mark[f] = "black"
      /\ \A u \in Upvals : mark[u] # mark'[u] => Seen(val[u])'
      /\ \A d \in Udata : mark[d] # mark'[d] => Seen(meta[d])'
  BY <1>1, <1>2, WithMarksMarking DEF MarkRoot
<1>5. Linked'
  <2>1. {o \in live \cap Listable : mark'[o] = "gray"} = GrayOnes \cup Listed(Reached({Main}))
    BY <1>1, <1>2, GrayedIs DEF MarkRoot
  <2>2. GrayOnes = {}
    BY <1>3, HeapAssumption DEF GrayOnes, Listable, Obj, HeapAssumption, IsWhite, GCInv, GCTypes, GCTypeOK
  <2> QED
    BY <2>1, <2>2 DEF MarkRoot, Linked, Listable
<1>6. Atomic'
  BY DEF MarkRoot, Atomic
<1>7. BlackSees'
  <2>1. \A o \in Obj : mark[o] = "black" => o \in tmudata
    BY <1>3 DEF IsWhite
  <2> QED
    BY <1>1, <1>4, <2>1, MarkingBlackSees DEF MarkRoot
<1> QED
  BY <1>1, <1>4, <1>5, <1>6, <1>7, MarkingKeeps

(* What stays traversed in a step of the mark phase.                       *)
LEMMA MarkingTraversed ==
    ASSUME GCTypes, Marking
    PROVE  /\ \A t \in Tables : EntrySeen(t) => EntrySeen(t)'
           /\ \A u \in Upvals : Seen(val[u]) => Seen(val[u])'
           /\ \A d \in Udata : Seen(meta[d]) => Seen(meta[d])'
           /\ \A th \in Threads : SlotsSeen(th) => SlotsSeen(th)'
<1>1. \A t \in Tables : EntrySeen(t) => EntrySeen(t)'
  BY MarkingSeen DEF EntrySeen, Marking, heap, GCTypes, GCTypeOK
<1>2. \A u \in Upvals : Seen(val[u]) => Seen(val[u])'
  BY MarkingSeen DEF Marking, heap, GCTypes, GCTypeOK, Obj
<1>3. \A d \in Udata : Seen(meta[d]) => Seen(meta[d])'
  BY MarkingSeen DEF Marking, heap, GCTypes, GCTypeOK, Obj
<1>4. \A th \in Threads : SlotsSeen(th) => SlotsSeen(th)'
  BY <1>2, MarkingSeen DEF SlotsSeen, Marking, heap, GCTypes, GCTypeOK
<1> QED
  BY <1>1, <1>2, <1>3, <1>4

(* A gray object is traversed: what it refers to is marked before it turns *)
(* black.                                                                  *)
LEMMA PropagateKeeps == \A o \in Obj : GCInv /\ Propagate(o) => GCInv'
<1> SUFFICES ASSUME GCInv, NEW o \in Obj, Propagate(o) PROVE GCInv'
  OBVIOUS
<1> DEFINE isWeak == o \in WeakKeys \cup WeakValues
           stays  == isWeak \/ o \in Threads
           W == WithMarks(Strong(o))
           N == Listed(Reached(Strong(o)))
<1>1. /\ phase \in {"propagate", "remark", "weak", "again", "tm"} /\ phase' = phase
      /\ o \in gray
      /\ mark' = [W EXCEPT ![o] = IF stays THEN "gray" ELSE "black"]
      /\ gray' = (gray \ {o}) \cup N
      /\ weak' = (IF isWeak THEN weak \cup {o} ELSE weak)
      /\ grayagain' = (IF o \in Threads THEN grayagain \cup {o} ELSE grayagain)
      /\ UNCHANGED <<live, heap, sweeping, tmudata, finalized, full>>
  BY DEF Propagate
<1>2. /\ GCTypes /\ Blank /\ Swept /\ Closed /\ ~Sweeps /\ Marks
      /\ Linked /\ Atomic /\ BlackSees /\ Colours
  BY <1>1 DEF GCInv, Sweeps, Marks
<1>3. o \in live \cap Listable /\ mark[o] = "gray"
  BY <1>1, <1>2 DEF Linked, Listable
<1>4. Strong(o) \in SUBSET live
  BY <1>2, <1>3, RefsLast, StrongAreRefs, NoneDead DEF Lasts
<1>5. /\ W \in [Obj -> Colour]
      /\ \A x \in Obj : W[x] = IF x \in Reached(Strong(o)) THEN MarkedAs(x) ELSE mark[x]
      /\ \A x \in Obj : ~IsWhite(x) => W[x] = mark[x]
      /\ \A x \in Strong(o) : W[x] \notin {"white", "dead"}
      /\ \A u \in Upvals \cap Reached(Strong(o)) : val[u] = Nil \/ W[val[u]] \notin {"white", "dead"}
      /\ \A d \in Udata \cap Reached(Strong(o)) : meta[d] = Nil \/ W[meta[d]] \notin {"white", "dead"}
  BY <1>2, <1>4, WithMarksIs
<1>6. /\ {x \in live \cap Listable : W[x] = "gray"} = GrayOnes \cup N
      /\ \A x \in N : x \in Listable /\ IsWhite(x) /\ x \in live
  BY <1>2, <1>4, GrayedIs
<1>7. Reached(Strong(o)) \subseteq live
  BY <1>2, <1>4, ReachedIs
<1> HIDE DEF W, N
<1>8. /\ mark' \in [Obj -> Colour]
      /\ mark'[o] = (IF stays THEN "gray" ELSE "black")
      /\ \A x \in Obj : x # o => mark'[x] = W[x]
      /\ \A x : W[x] \notin {"white", "dead"} => mark'[x] \notin {"white", "dead"}
  BY <1>1, <1>5 DEF Colour
<1>9. ~stays => o \in (Tables \ (WeakKeys \cup WeakValues)) \cup Closures
  BY <1>3, HeapAssumption DEF HeapAssumption, Listable
<1>10. Main \in Obj /\ ~IsWhite(Main)
  BY <1>2, HeapAssumption DEF HeapAssumption, Obj, Closed, Seen
<1>11. ~IsWhite(Main)'
  BY <1>10, <1>5, <1>8 DEF IsWhite
<1>12. Marking
  <2>1. \A x \in Obj : IsWhite(x) => x \in live \/ mark'[x] = mark[x]
    BY <1>3, <1>5, <1>7, <1>8
  <2>2. \A x \in Obj : IsWhite(x) => mark'[x] = mark[x] \/ mark'[x] = MarkedAs(x)
    BY <1>3, <1>5, <1>8 DEF IsWhite
  <2>3. \A x \in Obj : ~IsWhite(x) => \/ mark'[x] = mark[x]
                                      \/ /\ x \in (Tables \ (WeakKeys \cup WeakValues)) \cup Closures
                                         /\ mark[x] = "gray" /\ mark'[x] = "black"
    BY <1>3, <1>5, <1>8, <1>9
  <2> QED
    BY <1>1, <1>2, <1>8, <1>11, <2>1, <2>2, <2>3 DEF Marking, GCTypes, GCTypeOK, Swept
<1>13. \A x \in Strong(o) : Seen(x)'
  BY <1>5, <1>8 DEF Seen, IsWhite
<1>14. o \in Tables => EntrySeen(o)'
  BY <1>1, <1>13, StrongOfTable DEF EntrySeen, heap, Seen
<1>15. o \in Closures => Seen(up[o])'
  BY <1>1, <1>13, RefsByKind DEF heap, Seen
<1>16. o \in Threads => SlotsSeen(o)'
  <2> SUFFICES ASSUME o \in Threads PROVE SlotsSeen(o)'
    OBVIOUS
  <2>1. Strong(o) = Slots(o)
    BY RefsByKind
  <2>2. \A x \in stack[o] : Seen(x)'
    BY <2>1, <1>13 DEF Slots, Seen
  <2>3. \A u \in Upvals : open[u] = o => Seen(val[u])'
    <3> SUFFICES ASSUME NEW u \in Upvals, open[u] = o PROVE Seen(val[u])'
      OBVIOUS
    <3>1. u \in OpenOn(o)
      BY <1>2, HeapAssumption DEF OpenOn, Blank, HeapAssumption, Obj
    <3>2. val[u] # Nil => val[u] \in Strong(o)
      BY <2>1, <3>1 DEF Slots
    <3>3. val' = val
      BY <1>1 DEF heap
    <3> QED
      BY <1>13, <3>2, <3>3 DEF Seen
  <2> QED
    BY <1>1, <2>2, <2>3 DEF SlotsSeen, heap
<1>17. /\ \A u \in Upvals : mark[u] # mark'[u] => Seen(val[u])'
       /\ \A d \in Udata : mark[d] # mark'[d] => Seen(meta[d])'
  BY <1>1, <1>3, <1>5, <1>8, HeapAssumption DEF Seen, Obj, heap, IsWhite, Listable, HeapAssumption
<1>18. /\ \A t \in Tables : mark[t] # "black" /\ mark'[t] = "black" => t = o
       /\ \A f \in Closures : mark[f] # "black" /\ mark'[f] = "black" => f = o
  <2>1. \A x \in Tables \cup Closures : x \in Obj /\ MarkedAs(x) = "gray"
    BY HeapAssumption DEF HeapAssumption, Obj, MarkedAs
  <2> QED
    BY <1>5, <1>8, <2>1
<1>19. \A d \in tmudata : phase = "tm" => mark[d] = "black" /\ Seen(meta[d])
  BY <1>2 DEF Atomic, BlackSees, GCTypes, GCTypeOK
<1>20. Linked'
  <2>1. {x \in live \cap Listable : mark'[x] = "gray"} =
            IF stays THEN GrayOnes \cup N ELSE (GrayOnes \cup N) \ {o}
    BY <1>3, <1>5, <1>6, <1>8, HeapAssumption DEF HeapAssumption, Obj, Listable, IsWhite
  <2>2. GrayOnes = gray \cup grayagain \cup weak
    BY <1>2 DEF Linked, GrayOnes, Listable
  <2>3. N \cap GrayOnes = {}
    BY <1>6 DEF GrayOnes, IsWhite
  <2>4. ~(o \in Threads /\ isWeak)
    BY HeapAssumption DEF HeapAssumption
  <2>5. gray \cap grayagain = {} /\ gray \cap weak = {} /\ grayagain \cap weak = {}
    BY <1>2 DEF Linked
  <2>6. gray' \cup grayagain' \cup weak' = {x \in live \cap Listable : mark'[x] = "gray"}
    BY <1>1, <2>1, <2>2, <2>3, <2>5
  <2>7. gray' \cap grayagain' = {} /\ gray' \cap weak' = {} /\ grayagain' \cap weak' = {}
    BY <1>1, <2>2, <2>3, <2>4, <2>5
  <2>8. live' = live
    BY <1>1
  <2> QED
    BY <2>6, <2>7, <2>8 DEF Linked, Listable
<1>21. Atomic'
  <2>1. weak' \subseteq WeakKeys \cup WeakValues
    BY <1>1, <1>2 DEF Atomic
  <2>2. phase' \in {"remark", "weak", "again", "tm"} =>
            \A u \in Upvals : mark'[u] = "gray" => Seen(val[u])'
    BY <1>1, <1>2, <1>12, <1>17, MarkingTraversed DEF Atomic
  <2>3. phase' \in {"weak", "again", "tm"} => \A t \in weak' : EntrySeen(t)'
    BY <1>1, <1>2, <1>12, <1>14, MarkingTraversed, HeapAssumption DEF Atomic, HeapAssumption
  <2>4. phase' \in {"again", "tm"} => grayagain' \subseteq Threads /\ \A th \in grayagain' : SlotsSeen(th)'
    BY <1>1, <1>2, <1>12, <1>16, MarkingTraversed DEF Atomic
  <2>5. phase' = "tm" => \A d \in tmudata' : mark'[d] = "black"
    <3>1. \A d \in tmudata : d \in Obj /\ d # o
      BY <1>2, <1>3, HeapAssumption DEF HeapAssumption, Obj, Listable, GCTypes, GCTypeOK
    <3>2. \A d \in Obj : mark[d] = "black" => ~IsWhite(d)
      BY DEF IsWhite
    <3> QED
      BY <1>1, <1>5, <1>8, <1>19, <3>1, <3>2
  <2> QED
    BY <2>1, <2>2, <2>3, <2>4, <2>5 DEF Atomic
<1>22. BlackSees'
  <2>1. \A d \in tmudata : phase' = "tm" => Seen(meta[d])'
    BY <1>1, <1>2, <1>12, <1>19, MarkingTraversed DEF GCTypes, GCTypeOK
  <2> HIDE DEF Marking
  <2>2. \A t \in Tables : mark[t] # "black" /\ mark'[t] = "black" => EntrySeen(t)'
    BY <1>14, <1>18
  <2>3. \A f \in Closures : mark[f] # "black" /\ mark'[f] = "black" => Seen(up[f])'
    BY <1>15, <1>18
  <2> QED
    BY <1>2, <1>12, <1>17, <2>1, <2>2, <2>3, MarkingBlackSees
<1> QED
  BY <1>2, <1>12, <1>20, <1>21, <1>22, MarkingKeeps

(* The values of the open upvalues that were reached are marked.           *)
LEMMA AtomicRemarkKeeps == GCInv /\ AtomicRemark => GCInv'
<1> SUFFICES ASSUME GCInv, AtomicRemark PROVE GCInv'
  OBVIOUS
<1> DEFINE S == {val[u] : u \in {v \in Upvals \cap live : open[v] # Nil /\ mark[v] = "gray"}} \ {Nil}
<1>1. /\ phase = "propagate" /\ gray = {} /\ mark' = WithMarks(S) /\ gray' = Listed(Reached(S))
      /\ phase' = "remark"
      /\ UNCHANGED <<live, heap, grayagain, weak, sweeping, tmudata, finalized, full>>
  BY DEF AtomicRemark
<1>2. /\ GCTypes /\ Blank /\ Swept /\ Closed /\ ~Sweeps /\ Marks
      /\ Linked /\ Atomic /\ BlackSees /\ Colours
  BY <1>1 DEF GCInv, Sweeps, Marks
<1>3. S \in SUBSET live
  BY <1>2, NoneDead, HeapAssumption DEF Closed, Lasts, Obj, HeapAssumption
<1>4. \A u \in Upvals : mark[u] = "gray" => val[u] = Nil \/ val[u] \in S
  BY <1>2, HeapAssumption DEF Colours, Blank, HeapAssumption, Obj
<1> HIDE DEF S
<1>5. /\ Marking
      /\ \A x \in S : ~IsWhite(x)'
      /\ \A t \in Tables : mark'[t] = "black" => mark[t] = "black"
      /\ \A f \in Closures : mark'[f] = "black" => mark[f] = "black"
      /\ \A u \in Upvals : mark[u] # mark'[u] => Seen(val[u])'
      /\ \A d \in Udata : mark[d] # mark'[d] => Seen(meta[d])'
  <2>1. Main \in S \/ ~IsWhite(Main)
    BY <1>2, HeapAssumption DEF HeapAssumption, Obj, Closed, Seen
  <2> QED
    BY <1>1, <1>2, <1>3, <2>1, WithMarksMarking DEF GCTypes, GCTypeOK
<1>6. Linked'
  <2>1. /\ {o \in live \cap Listable : mark'[o] = "gray"} = GrayOnes \cup Listed(Reached(S))
        /\ \A x \in Listed(Reached(S)) : x \in Listable /\ IsWhite(x) /\ x \in live
    BY <1>1, <1>2, <1>3, GrayedIs
  <2>2. GrayOnes = grayagain \cup weak /\ grayagain \cap weak = {}
    BY <1>1, <1>2 DEF Linked, GrayOnes, Listable
  <2>3. Listed(Reached(S)) \cap GrayOnes = {}
    BY <2>1 DEF GrayOnes, IsWhite
  <2> QED
    BY <1>1, <2>1, <2>2, <2>3 DEF Linked, Listable
<1>7. Atomic'
  <2>1. \A u \in Upvals : mark'[u] = "gray" => Seen(val[u])'
    BY <1>1, <1>4, <1>5 DEF Seen, heap
  <2> QED
    BY <1>1, <1>2, <2>1 DEF Atomic
<1>8. BlackSees'
  BY <1>1, <1>2, <1>5, MarkingBlackSees
<1> QED
  BY <1>2, <1>5, <1>6, <1>7, <1>8, MarkingKeeps

(* The weak tables are traversed a second time, and the main thread.       *)
LEMMA AtomicWeakKeeps == GCInv /\ AtomicWeak => GCInv'
<1> SUFFICES ASSUME GCInv, AtomicWeak PROVE GCInv'
  OBVIOUS
<1>1. /\ phase = "remark" /\ gray = {} /\ mark' = WithMarks({Main})
      /\ gray' = weak \cup Listed(Reached({Main})) /\ weak' = {}
      /\ phase' = "weak"
      /\ UNCHANGED <<live, heap, grayagain, sweeping, tmudata, finalized, full>>
  BY DEF AtomicWeak
<1>2. /\ GCTypes /\ Blank /\ Swept /\ Closed /\ ~Sweeps /\ Marks
      /\ Linked /\ Atomic /\ BlackSees
  BY <1>1 DEF GCInv, Sweeps, Marks
<1>3. {Main} \in SUBSET live
  BY <1>2 DEF GCTypes, GCTypeOK
<1>4. /\ Marking
      /\ \A t \in Tables : mark'[t] = "black" => mark[t] = "black"
      /\ \A f \in Closures : mark'[f] = "black" => mark[f] = "black"
      /\ \A u \in Upvals : mark[u] # mark'[u] => Seen(val[u])'
      /\ \A d \in Udata : mark[d] # mark'[d] => Seen(meta[d])'
  BY <1>1, <1>2, <1>3, WithMarksMarking DEF GCTypes, GCTypeOK
<1>5. Linked'
  <2>1. /\ {o \in live \cap Listable : mark'[o] = "gray"} = GrayOnes \cup Listed(Reached({Main}))
        /\ \A x \in Listed(Reached({Main})) : x \in Listable /\ IsWhite(x) /\ x \in live
    BY <1>1, <1>2, <1>3, GrayedIs
  <2>2. GrayOnes = grayagain \cup weak /\ grayagain \cap weak = {}
    BY <1>1, <1>2 DEF Linked, GrayOnes, Listable
  <2>3. Listed(Reached({Main})) \cap GrayOnes = {}
    BY <2>1 DEF GrayOnes, IsWhite
  <2> QED
    BY <1>1, <2>1, <2>2, <2>3 DEF Linked, Listable
<1>6. Atomic'
  <2>1. \A u \in Upvals : mark'[u] = "gray" => Seen(val[u])'
    BY <1>1, <1>2, <1>4, MarkingTraversed DEF Atomic
  <2> QED
    BY <1>1, <2>1 DEF Atomic
<1>7. BlackSees'
  BY <1>1, <1>2, <1>4, MarkingBlackSees
<1> QED
  BY <1>2, <1>4, <1>5, <1>6, <1>7, MarkingKeeps

(* The threads and the tables the barrier put back are traversed a second  *)
(* time.                                                                   *)
LEMMA AtomicAgainKeeps == GCInv /\ AtomicAgain => GCInv'
<1> SUFFICES ASSUME GCInv, AtomicAgain PROVE GCInv'
  OBVIOUS
<1>1. /\ phase = "weak" /\ gray = {} /\ mark' = mark
      /\ gray' = grayagain /\ grayagain' = {}
      /\ phase' = "again"
      /\ UNCHANGED <<live, heap, weak, sweeping, tmudata, finalized, full>>
  BY DEF AtomicAgain
<1>2. /\ GCTypes /\ Blank /\ Swept /\ Closed /\ ~Sweeps /\ Marks
      /\ Linked /\ Atomic /\ BlackSees
  BY <1>1 DEF GCInv, Sweeps, Marks
<1>3. Marking
  <2>1. ~IsWhite(Main)'
    BY <1>1, <1>2, HeapAssumption DEF HeapAssumption, Obj, Closed, Seen, IsWhite
  <2> QED
    BY <1>1, <1>2, <2>1 DEF Marking, GCTypes, GCTypeOK, Swept
<1>4. Linked'
  BY <1>1, <1>2 DEF Linked
<1>5. Atomic'
  BY <1>1, <1>2, <1>3, MarkingTraversed, HeapAssumption DEF Atomic, HeapAssumption
<1>6. BlackSees'
  BY <1>1, <1>2, <1>3, MarkingBlackSees
<1> QED
  BY <1>2, <1>3, <1>4, <1>5, <1>6, MarkingKeeps

(* Unreached userdata with a finalizer are kept, and what is behind them.  *)
LEMMA AtomicUdataKeeps == GCInv /\ AtomicUdata => GCInv'
<1> SUFFICES ASSUME GCInv, AtomicUdata PROVE GCInv'
  OBVIOUS
<1> DEFINE S == {d \in Udata \cap live : IsWhite(d) /\ d \notin finalized}
           T == tmudata \cup S
           B == Behind(T)
           m == WithMarks(B)
<1>1. /\ phase = "again" /\ gray = {} /\ phase' = "tm"
      /\ tmudata' = T /\ finalized' = finalized \cup S
      /\ mark' = [o \in Obj |-> IF o \in T THEN "black"
                                ELSE IF o \in Reached(B) THEN MarkedAs(o) ELSE mark[o]]
      /\ gray' = Listed(Reached(B))
      /\ UNCHANGED <<live, heap, grayagain, weak, sweeping, full>>
  BY DEF AtomicUdata
<1>2. /\ GCTypes /\ Blank /\ Swept /\ Closed /\ ~Sweeps /\ Marks
      /\ Linked /\ Atomic /\ BlackSees /\ Colours
  BY <1>1 DEF GCInv, Sweeps, Marks
<1>3. T \subseteq Udata \cap live /\ S \subseteq Udata /\ \A d \in T : mark[d] = "black" \/ IsWhite(d)
  BY <1>2, HeapAssumption DEF GCTypes, GCTypeOK, Swept, Colours, Colour, IsWhite, Obj, HeapAssumption
<1>4. B \in SUBSET live
  BY <1>2, <1>3, BehindLive
<1>5. /\ m \in [Obj -> Colour]
      /\ \A x \in Obj : m[x] = IF x \in Reached(B) THEN MarkedAs(x) ELSE mark[x]
      /\ \A x \in Obj : ~IsWhite(x) => m[x] = mark[x]
      /\ \A x \in B : m[x] \notin {"white", "dead"}
      /\ \A u \in Upvals \cap Reached(B) : val[u] = Nil \/ m[val[u]] \notin {"white", "dead"}
      /\ \A d \in Udata \cap Reached(B) : meta[d] = Nil \/ m[meta[d]] \notin {"white", "dead"}
  BY <1>2, <1>4, WithMarksIs
<1>6. /\ {x \in live \cap Listable : m[x] = "gray"} = GrayOnes \cup Listed(Reached(B))
      /\ \A x \in Listed(Reached(B)) : x \in Listable /\ IsWhite(x) /\ x \in live
  BY <1>2, <1>4, GrayedIs
<1>7. Reached(B) \subseteq live
  BY <1>2, <1>4, ReachedIs
<1>8. \A d \in T : meta[d] = Nil \/ meta[d] \in B
  BY <1>3, BehindIs
<1> HIDE DEF B, m, T, S
<1>9. \A x \in Obj : mark'[x] = IF x \in T THEN "black" ELSE m[x]
  BY <1>1, <1>5
<1>10. /\ mark' \in [Obj -> Colour]
       /\ \A x \in Obj : m[x] \notin {"white", "dead"} => ~IsWhite(x)'
       /\ \A x \in T : ~IsWhite(x)'
  <2>1. \A x \in Obj : (IF x \in T THEN "black" ELSE m[x]) \in Colour
    BY <1>5 DEF Colour
  <2>2. T \subseteq Obj
    BY <1>3 DEF Obj
  <2> QED
    BY <1>1, <1>5, <1>9, <2>1, <2>2 DEF IsWhite
<1>11. Main \in Obj /\ ~IsWhite(Main)
  BY <1>2, HeapAssumption DEF HeapAssumption, Obj, Closed, Seen
<1>12. Marking
  <2>1. \A x \in Obj : IsWhite(x) => x \in live \/ mark'[x] = mark[x]
    BY <1>3, <1>5, <1>7, <1>9
  <2>2. \A x \in Obj : IsWhite(x) => mark'[x] = mark[x] \/ mark'[x] = MarkedAs(x)
    BY <1>3, <1>5, <1>9 DEF MarkedAs
  <2>3. \A x \in Obj : ~IsWhite(x) => mark'[x] = mark[x]
    BY <1>3, <1>5, <1>9
  <2>4. ~IsWhite(Main)'
    BY <1>5, <1>10, <1>11 DEF IsWhite
  <2>5. finalized' \subseteq Udata /\ tmudata \subseteq tmudata'
    BY <1>1, <1>2, <1>3 DEF GCTypes, GCTypeOK, T
  <2> QED
    BY <1>1, <1>2, <1>3, <1>10, <2>1, <2>2, <2>3, <2>4, <2>5 DEF Marking, GCTypes, GCTypeOK
<1>13. \A x \in Tables \cup Closures \cup Threads : x \in Obj /\ x \notin T /\ MarkedAs(x) = "gray"
  BY <1>3, HeapAssumption DEF HeapAssumption, Obj, MarkedAs
<1>14. Linked'
  <2>1. {x \in live \cap Listable : mark'[x] = "gray"} = {x \in live \cap Listable : m[x] = "gray"}
    BY <1>9, <1>13 DEF Listable
  <2>2. GrayOnes = grayagain \cup weak /\ grayagain \cap weak = {}
    BY <1>1, <1>2 DEF Linked, GrayOnes, Listable
  <2>3. Listed(Reached(B)) \cap GrayOnes = {}
    BY <1>6 DEF GrayOnes, IsWhite
  <2> QED
    BY <1>1, <1>6, <2>1, <2>2, <2>3 DEF Linked, Listable
<1>15. \A d \in T : Seen(meta[d])'
  <2> SUFFICES ASSUME NEW d \in T PROVE Seen(meta[d])'
    OBVIOUS
  <2>1. meta[d] = Nil \/ meta[d] \in B
    BY <1>8
  <2>2. B \subseteq Obj
    BY <1>2, <1>4 DEF GCTypes, GCTypeOK
  <2>3. meta' = meta
    BY <1>1 DEF heap
  <2> QED
    BY <1>5, <1>10, <2>1, <2>2, <2>3 DEF Seen
<1>16. \A u \in Upvals : mark[u] # mark'[u] => Seen(val[u])'
  <2> SUFFICES ASSUME NEW u \in Upvals, mark[u] # mark'[u] PROVE Seen(val[u])'
    OBVIOUS
  <2>1. u \in Obj /\ u \notin T /\ (val[u] = Nil \/ val[u] \in Obj)
    BY <1>2, <1>3, HeapAssumption DEF HeapAssumption, Obj, GCTypes, GCTypeOK
  <2>2. u \in Reached(B)
    BY <1>5, <1>9, <2>1
  <2>3. val' = val
    BY <1>1 DEF heap
  <2> QED
    BY <1>5, <1>10, <2>1, <2>2, <2>3 DEF Seen
<1>17. \A d \in Udata : mark[d] # mark'[d] => Seen(meta[d])'
  <2> SUFFICES ASSUME NEW d \in Udata, mark[d] # mark'[d], d \notin T PROVE Seen(meta[d])'
    BY <1>15
  <2>1. d \in Obj /\ (meta[d] = Nil \/ meta[d] \in Obj)
    BY <1>2 DEF Obj, GCTypes, GCTypeOK
  <2>2. d \in Reached(B)
    BY <1>5, <1>9, <2>1
  <2>3. meta' = meta
    BY <1>1 DEF heap
  <2> QED
    BY <1>5, <1>10, <2>1, <2>2, <2>3 DEF Seen
<1>18. /\ \A t \in Tables : mark'[t] = "black" => mark[t] = "black"
       /\ \A f \in Closures : mark'[f] = "black" => mark[f] = "black"
  BY <1>5, <1>9, <1>13
<1>19. Atomic'
  <2>1. \A u \in Upvals : mark'[u] = "gray" => Seen(val[u])'
    BY <1>1, <1>2, <1>12, <1>16, MarkingTraversed DEF Atomic
  <2>2. \A t \in weak' : EntrySeen(t)'
    BY <1>1, <1>2, <1>12, MarkingTraversed, HeapAssumption DEF Atomic, HeapAssumption
  <2>3. grayagain' \subseteq Threads /\ \A th \in grayagain' : SlotsSeen(th)'
    BY <1>1, <1>2, <1>12, MarkingTraversed DEF Atomic
  <2>4. \A d \in tmudata' : mark'[d] = "black"
    BY <1>1, <1>3, <1>9 DEF Obj
  <2>5. weak' \subseteq WeakKeys \cup WeakValues
    BY <1>1, <1>2 DEF Atomic
  <2> QED
    BY <2>1, <2>2, <2>3, <2>4, <2>5 DEF Atomic
<1>20. BlackSees'
  <2>1. tmudata \subseteq T
    BY DEF T
  <2> QED
    BY <1>2, <1>12, <1>15, <1>16, <1>17, <1>18, <2>1, MarkingBlackSees
<1> QED
  BY <1>2, <1>12, <1>14, <1>19, <1>20, MarkingKeeps

(* At the end of the marking every list but grayagain and weak is empty,   *)
(* and what has been reached has been traversed.                           *)
LEMMA FlipKeeps == GCInv /\ AtomicFlip => GCInv'
<1> SUFFICES ASSUME GCInv, AtomicFlip PROVE GCInv'
  OBVIOUS
<1> DEFINE Clears(t) == entry[t] # << >> /\ (Cleared(entry[t][1], TRUE) \/ Cleared(entry[t][2], FALSE))
           K == {s \in Strings : \E t \in weak : entry[t] # << >> /\
                    (s = entry[t][1] \/ (s = entry[t][2] /\ ~Cleared(entry[t][1], TRUE)))}
<1>1. /\ phase = "tm" /\ gray = {} /\ phase' = "sweepstring"
      /\ entry' = [t \in Tables |-> IF t \in weak /\ Clears(t) THEN << >> ELSE entry[t]]
      /\ mark' = [o \in Obj |-> IF ~IsWhite(o) THEN mark[o]
                                ELSE IF o \in K THEN "gray"
                                ELSE IF o \in live THEN "dead" ELSE "white"]
      /\ sweeping' = (live \ tmudata) \ {u \in Upvals : open[u] # Nil}
      /\ UNCHANGED <<live, stack, val, open, up, meta, lists, tmudata, finalized, full>>
  BY DEF AtomicFlip
<1>2. /\ GCTypes /\ Blank /\ Swept /\ Closed /\ ~Sweeps /\ Marks
      /\ Linked /\ Atomic /\ BlackSees /\ Colours
  BY <1>1 DEF GCInv, Sweeps, Marks
<1>3. ~Marks' /\ Sweeps'
  BY <1>1 DEF Marks, Sweeps
<1>4. /\ \A o \in Obj : mark[o] = "black" \/ mark[o] = "gray" \/ IsWhite(o)
      /\ \A o \in Obj : mark[o] = "black" \/ mark[o] = "gray" => ~IsWhite(o)
  BY <1>2 DEF GCTypes, GCTypeOK, Colour, IsWhite
<1>5. weak \subseteq Tables \cap live
  BY <1>2, HeapAssumption DEF Atomic, Linked, HeapAssumption
<1>6. K \subseteq Strings /\ K \subseteq live
  <2> SUFFICES ASSUME NEW t \in weak, entry[t] # << >>, NEW s \in Strings, s = entry[t][1] \/ s = entry[t][2]
               PROVE  s \in live
    OBVIOUS
  <2>1. Lasts(t)
    BY <1>2, <1>5, NoneDead DEF Obj
  <2>2. Lasts(entry[t][1]) /\ Lasts(entry[t][2])
    BY <1>2, <1>5, <2>1 DEF Closed
  <2> QED
    BY <2>2, HeapAssumption DEF Lasts, HeapAssumption, Obj
<1>7. \A o \in Obj : Seen(o) => ~IsWhite(o)
  BY HeapAssumption DEF HeapAssumption, Seen
<1>8. \A t \in Tables : entry'[t] = entry[t] \/ entry'[t] = << >>
  BY <1>1
<1>9. \A t \in weak : entry'[t] # << >> =>
          /\ entry'[t] = entry[t] /\ ~Cleared(entry[t][1], TRUE) /\ ~Cleared(entry[t][2], FALSE)
  BY <1>1, <1>5
<1>10. /\ \A t \in weak : entry[t] # << >> /\ entry[t][1] \in Strings => entry[t][1] \in K
       /\ \A t \in weak : entry[t] # << >> /\ entry[t][2] \in Strings /\ ~Cleared(entry[t][1], TRUE)
                                => entry[t][2] \in K
  OBVIOUS
<1> HIDE DEF K, Clears
<1>11. /\ mark' \in [Obj -> Colour]
       /\ \A o \in Obj : ~IsWhite(o) => mark'[o] = mark[o]
       /\ \A o \in Obj : IsWhite(o) => mark'[o] = IF o \in K THEN "gray"
                                                  ELSE IF o \in live THEN "dead" ELSE "white"
  BY <1>1, <1>2 DEF GCTypes, GCTypeOK, Colour
<1>12. \A x \in Obj : x \in live /\ (~IsWhite(x) \/ x \in K) => Lasts(x)'
  BY <1>1, <1>4, <1>11 DEF Lasts, IsDead
<1>13. \A x \in Obj \ Strings : Lasts(x)' => x \in live /\ ~IsWhite(x)
  BY <1>1, <1>6, <1>11, HeapAssumption DEF Lasts, IsDead, HeapAssumption
<1>14. \A x \in Obj \cup {Nil} : Lasts(x) /\ Seen(x) => Lasts(x)'
  BY <1>7, <1>12 DEF Lasts
<1>15. GCTypes'
  <2>1. sweeping' \subseteq Obj
    BY <1>1, <1>2 DEF GCTypes, GCTypeOK
  <2>2. /\ entry' \in [Tables -> {<< >>} \cup (((Obj \ Upvals) \cup {Nil}) \X (Obj \ Upvals))]
        /\ entry' \in [Tables -> {<< >>} \cup ((Obj \cup {Nil}) \X Obj)]
    BY <1>1, <1>2, <1>8 DEF GCTypes, GCTypeOK
  <2> QED
    BY <1>1, <1>2, <1>11, <2>1, <2>2 DEF GCTypes, GCTypeOK
<1>16. Blank'
  <2>1. \A o \in Obj \ live : mark'[o] = "white"
    BY <1>2, <1>6, <1>11 DEF Blank, IsWhite
  <2>2. \A t \in Tables \ live : entry'[t] = << >>
    BY <1>2, <1>8 DEF Blank
  <2> QED
    BY <1>1, <1>2, <2>1, <2>2 DEF Blank
<1>17. Colours'
  <2>1. \A o \in Obj : mark'[o] = "black" => mark[o] = "black"
    BY <1>11
  <2>2. \A o \in Obj \ Strings : mark'[o] = "gray" => mark[o] = "gray"
    BY <1>6, <1>11
  <2>3. Threads \cup WeakKeys \cup WeakValues \cup Udata \cup Upvals \subseteq Obj \ Strings
    BY HeapAssumption DEF HeapAssumption, Obj
  <2> QED
    BY <1>1, <1>2, <2>1, <2>2, <2>3 DEF Colours
<1>18. Swept'
  <2>1. \A o \in live : o \in tmudata \/ Awaited(o)'
    <3> SUFFICES ASSUME NEW o \in live, o \notin tmudata PROVE Awaited(o)'
      OBVIOUS
    <3>1. CASE o \in Upvals /\ open[o] # Nil
      <4>1. open[o] \in live /\ open[o] \in Threads
        BY <1>2, <3>1 DEF Swept, GCTypes, GCTypeOK
      <4>2. open[o] \in sweeping'
        BY <1>1, <1>2, <4>1, HeapAssumption DEF HeapAssumption, GCTypes, GCTypeOK
      <4> QED
        BY <1>1, <3>1, <4>2 DEF Awaited
    <3>2. CASE ~(o \in Upvals /\ open[o] # Nil)
      BY <1>1, <3>2 DEF Awaited
    <3> QED
      BY <3>1, <3>2
  <2>2. \A o \in Obj : IsDead(o)' => Awaited(o)'
    <3> SUFFICES ASSUME NEW o \in Obj, IsDead(o)' PROVE Awaited(o)'
      OBVIOUS
    <3>1. o \in live /\ IsWhite(o)
      BY <1>2, <1>11, NoneDead DEF IsDead
    <3>2. o \notin tmudata
      BY <1>1, <1>2, <1>4, <3>1 DEF Atomic
    <3> QED
      BY <2>1, <3>1, <3>2
  <2>3. sweeping' \subseteq live /\ sweeping' \cap tmudata = {} /\ \A u \in Upvals \cap sweeping' : open[u] = Nil
    BY <1>1
  <2> QED
    BY <1>1, <1>2, <1>3, <2>1, <2>2, <2>3 DEF Swept
<1>19. Closed'
  <2>0. /\ Threads \cup Tables \cup Closures \cup Upvals \cup Udata \subseteq Obj \ Strings
        /\ \A th \in Threads : th \notin WeakKeys \cup WeakValues /\ th \notin Tables
        /\ \A t \in Tables : t \notin Threads
        /\ \A f \in Closures : f \notin Threads \cup Tables
    BY HeapAssumption DEF HeapAssumption, Obj
  <2>1. \A o \in Obj : o \in live => Lasts(o)
    BY <1>2, NoneDead
  <2>2. \A th \in Threads : Lasts(th)' => /\ \A x \in stack[th] : Lasts(x)'
                                          /\ \A u \in Upvals : open[u] = th => Lasts(val[u])'
    <3> SUFFICES ASSUME NEW th \in Threads, Lasts(th)'
                 PROVE  /\ \A x \in stack[th] : Lasts(x)'
                        /\ \A u \in Upvals : open[u] = th => Lasts(val[u])'
      OBVIOUS
    <3>1. th \in live /\ mark[th] = "gray"
      BY <1>2, <1>4, <1>13, <2>0 DEF Colours
    <3>2. th \in grayagain
      BY <1>1, <1>2, <1>5, <2>0, <3>1 DEF Linked
    <3>3. SlotsSeen(th)
      BY <1>1, <1>2, <3>2 DEF Atomic
    <3>4. /\ \A x \in stack[th] : Lasts(x) /\ x \in Obj
          /\ \A u \in Upvals : open[u] = th => Lasts(val[u])
      BY <1>2, <2>0, <2>1, <3>1 DEF Closed, GCTypes, GCTypeOK
    <3>5. \A u \in Upvals : val[u] \in Obj \cup {Nil}
      BY <1>2 DEF GCTypes, GCTypeOK
    <3> QED
      BY <1>1, <1>14, <3>3, <3>4, <3>5 DEF SlotsSeen
  <2>3. \A t \in Tables : Lasts(t)' /\ entry'[t] # << >> => Lasts(entry[t][1])' /\ Lasts(entry[t][2])'
    <3> SUFFICES ASSUME NEW t \in Tables, Lasts(t)', entry'[t] # << >>
                 PROVE  Lasts(entry[t][1])' /\ Lasts(entry[t][2])'
      OBVIOUS
    <3>1. t \in live /\ ~IsWhite(t)
      BY <1>13, <2>0
    <3>2. entry'[t] = entry[t] /\ entry[t] # << >>
      BY <1>8
    <3>3. Lasts(entry[t][1]) /\ Lasts(entry[t][2])
      BY <1>2, <2>0, <2>1, <3>1, <3>2 DEF Closed
    <3>4. entry[t][1] \in Obj \cup {Nil} /\ entry[t][2] \in Obj
      BY <1>2, <3>2 DEF GCTypes, GCTypeOK
    <3>5. CASE mark[t] = "black"
      <4>1. t \notin WeakKeys /\ t \notin WeakValues
        BY <1>2, <3>5 DEF Colours
      <4>2. Seen(entry[t][1]) /\ Seen(entry[t][2])
        BY <1>2, <3>2, <3>5, <4>1 DEF BlackSees, EntrySeen
      <4> QED
        BY <1>14, <3>2, <3>3, <3>4, <4>2
    <3>6. CASE mark[t] = "gray"
      <4>1. t \in weak
        BY <1>1, <1>2, <2>0, <3>1, <3>6 DEF Linked, Atomic
      <4>2. ~Cleared(entry[t][1], TRUE) /\ ~Cleared(entry[t][2], FALSE)
        BY <1>9, <4>1
      <4>3. /\ entry[t][1] \in Strings => entry[t][1] \in K
            /\ entry[t][2] \in Strings => entry[t][2] \in K
        BY <1>10, <3>2, <4>1, <4>2
      <4>4. \A x \in Obj : Lasts(x) => x \in live
        BY HeapAssumption DEF HeapAssumption, Lasts
      <4>5. entry[t][1] = Nil \/ ~IsWhite(entry[t][1]) \/ entry[t][1] \in K
        BY <3>4, <4>2, <4>3 DEF Cleared
      <4>6. ~IsWhite(entry[t][2]) \/ entry[t][2] \in K
        BY <3>4, <4>2, <4>3 DEF Cleared
      <4>7. Lasts(Nil)'
        BY DEF Lasts
      <4> QED
        BY <1>12, <3>2, <3>3, <3>4, <4>4, <4>5, <4>6, <4>7
    <3> QED
      BY <1>4, <2>0, <3>1, <3>5, <3>6
  <2>4. \A f \in Closures : Lasts(f)' => Lasts(up[f])'
    <3> SUFFICES ASSUME NEW f \in Closures, Lasts(f)' PROVE Lasts(up[f])'
      OBVIOUS
    <3>1. f \in live /\ ~IsWhite(f)
      BY <1>13, <2>0
    <3>2. mark[f] = "black"
      BY <1>1, <1>2, <1>4, <1>5, <2>0, <3>1 DEF Linked, Atomic
    <3>3. Seen(up[f]) /\ Lasts(up[f]) /\ up[f] \in Obj \cup {Nil}
      BY <1>2, <2>0, <2>1, <3>1, <3>2 DEF BlackSees, Closed, GCTypes, GCTypeOK, Obj
    <3> QED
      BY <1>1, <1>14, <3>3
  <2>5. \A u \in Upvals : Lasts(u)' => Lasts(val[u])'
    <3> SUFFICES ASSUME NEW u \in Upvals, Lasts(u)' PROVE Lasts(val[u])'
      OBVIOUS
    <3>1. u \in live /\ ~IsWhite(u)
      BY <1>13, <2>0
    <3>2. Seen(val[u])
      BY <1>1, <1>2, <1>4, <2>0, <3>1 DEF BlackSees, Atomic
    <3>3. Lasts(val[u]) /\ val[u] \in Obj \cup {Nil}
      BY <1>2, <2>0, <2>1, <3>1 DEF Closed, GCTypes, GCTypeOK
    <3> QED
      BY <1>1, <1>14, <3>2, <3>3
  <2>6. \A d \in Udata : Lasts(d)' => Lasts(meta[d])'
    <3> SUFFICES ASSUME NEW d \in Udata, Lasts(d)' PROVE Lasts(meta[d])'
      OBVIOUS
    <3>1. d \in live /\ ~IsWhite(d)
      BY <1>13, <2>0
    <3>2. mark[d] = "black"
      BY <1>2, <1>4, <2>0, <3>1 DEF Colours
    <3>3. Seen(meta[d])
      BY <1>1, <1>2, <3>2 DEF BlackSees
    <3>4. Lasts(meta[d]) /\ meta[d] \in Obj \cup {Nil}
      BY <1>2, <2>0, <2>1, <3>1 DEF Closed, GCTypes, GCTypeOK, Obj
    <3> QED
      BY <1>1, <1>14, <3>3, <3>4
  <2>7. Lasts(Main)'
    <3>1. Main \in Obj
      BY HeapAssumption DEF HeapAssumption, Obj
    <3> QED
      BY <1>2, <1>14, <3>1 DEF Closed
  <2> QED
    BY <1>1, <1>3, <2>2, <2>3, <2>4, <2>5, <2>6, <2>7 DEF Closed
<1> QED
  BY <1>3, <1>15, <1>16, <1>17, <1>18, <1>19 DEF GCInv

-----------------------------------------------------------------------------
(* A swept object is freed if it is dead, and white from then on; what     *)
(* lasts is the same as before.                                            *)
LEMMA SweepKeeps == \A o \in Obj : GCInv /\ Sweep(o) => GCInv'
<1> SUFFICES ASSUME GCInv, NEW o \in Obj, Sweep(o) PROVE GCInv'
  OBVIOUS
<1> DEFINE dead == IsDead(o)
           ups == IF o \in Threads THEN OpenOn(o) ELSE {}
           freed == {u \in ups : IsDead(u)} \cup (IF dead THEN {o} ELSE {})
           Values == UNION {{val[u]} \ {Nil} : u \in freed \cap Upvals}
<1>1. /\ o \in sweeping /\ phase \in {"sweepstring", "sweep"}
      /\ sweeping' = sweeping \ {o} /\ live' = live \ freed
      /\ mark' = [x \in Obj |-> IF x \in freed \cup ups \cup {o} THEN "white" ELSE mark[x]]
      /\ stack' = [th \in Threads |-> IF th # o THEN stack[th]
                                      ELSE IF dead THEN {} ELSE stack[th] \cup Values]
      /\ val' = [u \in Upvals |-> IF u \in freed THEN Nil ELSE val[u]]
      /\ open' = [u \in Upvals |-> IF u \in freed \/ (dead /\ u \in ups) THEN Nil ELSE open[u]]
      /\ entry' = [t \in Tables |-> IF t \in freed THEN << >> ELSE entry[t]]
      /\ up' = [f \in Closures |-> IF f \in freed THEN Nil ELSE up[f]]
      /\ meta' = [d \in Udata |-> IF d \in freed THEN Nil ELSE meta[d]]
      /\ finalized' = (finalized \ freed) \cup Finalized0
      /\ UNCHANGED <<phase, lists, tmudata, full>>
  BY DEF Sweep
<1>2. GCTypes /\ Blank /\ Swept /\ Closed /\ Colours /\ Sweeps /\ ~Marks /\ ~Marks' /\ Sweeps'
  BY <1>1 DEF GCInv, Sweeps, Marks
<1>3. o \in live /\ o \notin tmudata
  BY <1>1, <1>2 DEF Swept
<1>4. /\ ups \subseteq Upvals \cap live
      /\ \A u \in Upvals : u \in ups <=> o \in Threads /\ open[u] = o
  BY <1>2, HeapAssumption DEF OpenOn, Blank, HeapAssumption, Obj
<1>5. /\ \A x \in freed : IsDead(x) /\ x \in live /\ (x = o \/ (x \in ups /\ x \in Upvals))
      /\ \A x \in ups \cup {o} : IsDead(x) => x \in freed
      /\ dead => o \in freed
      /\ o \in freed => dead \/ o \in Upvals
  BY <1>3, <1>4
<1>6. /\ \A x \in Values : \E u \in freed \cap Upvals : x # Nil /\ x = val[u]
      /\ o \in Threads => freed \cap Upvals \subseteq ups
  BY <1>4, <1>5, HeapAssumption DEF HeapAssumption
<1>7. o \in freed => dead
  BY <1>5
<1> HIDE DEF ups, freed, Values, dead
<1>8. mark' \in [Obj -> Colour] /\ \A x \in Obj : mark'[x] = IF x \in freed \cup ups \cup {o} THEN "white" ELSE mark[x]
  BY <1>1, <1>2 DEF GCTypes, GCTypeOK, Colour
<1>9. \A x \in Obj \cup {Nil} : (x = Nil \/ (x \in live' /\ mark'[x] # "dead")) <=> Lasts(x)
  <2>1. \A x \in Obj : x \in live' /\ mark'[x] # "dead" <=> x \in live /\ mark[x] # "dead"
    BY <1>1, <1>5, <1>8 DEF IsDead
  <2> QED
    BY <2>1, HeapAssumption DEF Lasts, IsDead, HeapAssumption
<1>10. \A x \in Obj \cup {Nil} : Lasts(x)' <=> Lasts(x)
  BY <1>9 DEF Lasts, IsDead
<1>11. Values \subseteq Obj \ Upvals
  BY <1>2, <1>6 DEF GCTypes
<1>12. GCTypes'
  <2>1. stack' \in [Threads -> SUBSET (Obj \ Upvals)]
    BY <1>1, <1>2, <1>11 DEF GCTypes, GCTypeOK
  <2>2. /\ val' \in [Upvals -> (Obj \ Upvals) \cup {Nil}] /\ val' \in [Upvals -> Obj \cup {Nil}]
        /\ open' \in [Upvals -> Threads \cup {Nil}]
    BY <1>1, <1>2 DEF GCTypes, GCTypeOK
  <2>3. /\ entry' \in [Tables -> {<< >>} \cup (((Obj \ Upvals) \cup {Nil}) \X (Obj \ Upvals))]
        /\ entry' \in [Tables -> {<< >>} \cup ((Obj \cup {Nil}) \X Obj)]
    BY <1>1, <1>2 DEF GCTypes, GCTypeOK
  <2>4. up' \in [Closures -> Upvals \cup {Nil}] /\ meta' \in [Udata -> Tables \cup {Nil}]
    BY <1>1, <1>2 DEF GCTypes, GCTypeOK
  <2>5. Main \in live'
    <3>1. ~IsDead(Main)
      BY <1>2, HeapAssumption DEF Closed, Lasts, HeapAssumption, Obj
    <3> QED
      BY <1>1, <1>2, <1>5, <3>1 DEF GCTypes, GCTypeOK
  <2>6. live' \subseteq Obj /\ sweeping' \subseteq Obj /\ finalized' \subseteq Udata
    BY <1>1, <1>2, HeapAssumption DEF GCTypes, GCTypeOK, HeapAssumption
  <2> QED
    BY <1>1, <1>2, <1>8, <2>1, <2>2, <2>3, <2>4, <2>5, <2>6 DEF GCTypes, GCTypeOK
<1>13. Blank'
  <2>1. \A x \in Obj \ live' : mark'[x] = "white"
    BY <1>1, <1>2, <1>8 DEF Blank
  <2>2. \A th \in Threads \ live' : stack'[th] = {}
    BY <1>1, <1>2, <1>3, <1>5, <1>7, HeapAssumption DEF Blank, HeapAssumption
  <2>3. /\ \A t \in Tables \ live' : entry'[t] = << >>
        /\ \A f \in Closures \ live' : up'[f] = Nil
        /\ \A d \in Udata \ live' : meta'[d] = Nil
        /\ \A u \in Upvals \ live' : open'[u] = Nil
    BY <1>1, <1>2 DEF Blank
  <2> QED
    BY <2>1, <2>2, <2>3 DEF Blank
<1>14. Colours'
  <2>1. Threads \cup WeakKeys \cup WeakValues \cup Udata \cup Upvals \subseteq Obj
    BY HeapAssumption DEF HeapAssumption, Obj
  <2>2. \A u \in Upvals : mark'[u] # "white" => open'[u] = open[u]
    BY <1>1, <1>8, <2>1
  <2> QED
    BY <1>2, <1>8, <2>1, <2>2 DEF Colours
<1>15. Swept'
  <2>1. \A x \in freed : x # o => x \notin sweeping
    BY <1>2, <1>4, <1>5, HeapAssumption DEF Swept, HeapAssumption, Obj
  <2>2. \A x \in freed : x \notin tmudata
    BY <1>2, <1>3, <1>5, HeapAssumption DEF GCTypes, GCTypeOK, HeapAssumption
  <2>3. sweeping' \subseteq live' /\ tmudata' \subseteq live' /\ sweeping' \cap tmudata' = {}
    BY <1>1, <1>2, <2>1, <2>2 DEF Swept
  <2>4. \A u \in Upvals \cap sweeping' : open'[u] = Nil
    BY <1>1, <1>2 DEF Swept
  <2>5. \A u \in Upvals : open'[u] # Nil => open'[u] \in live'
    <3> SUFFICES ASSUME NEW u \in Upvals, open'[u] # Nil PROVE open'[u] \in live'
      OBVIOUS
    <3>1. open'[u] = open[u] /\ open[u] \in live /\ open[u] \in Threads
      BY <1>1, <1>2 DEF Swept, GCTypes, GCTypeOK
    <3>2. open[u] \notin freed
      BY <1>1, <1>4, <1>5, <1>7, <3>1, HeapAssumption DEF HeapAssumption
    <3> QED
      BY <1>1, <3>1, <3>2
  <2>6. \A x \in Obj : Awaited(x) /\ mark'[x] # "white" => Awaited(x)'
    <3> SUFFICES ASSUME NEW x \in Obj, Awaited(x), mark'[x] # "white" PROVE Awaited(x)'
      OBVIOUS
    <3>1. x \notin freed \cup ups \cup {o}
      BY <1>8
    <3>2. CASE x \in sweeping
      BY <1>1, <3>1, <3>2 DEF Awaited
    <3>3. CASE x \in Upvals /\ open[x] \in sweeping
      <4>1. open[x] \in Threads /\ open[x] # o
        BY <1>2, <1>4, <3>1, <3>3, HeapAssumption DEF GCTypes, GCTypeOK, HeapAssumption, Obj
      <4>2. open'[x] = open[x]
        BY <1>1, <3>1, <3>3
      <4> QED
        BY <1>1, <3>3, <4>1, <4>2 DEF Awaited
    <3> QED
      BY <3>2, <3>3 DEF Awaited
  <2>7. \A x \in Obj : mark'[x] # "white" => mark'[x] = mark[x]
    BY <1>8
  <2>8. \A x \in Obj : IsDead(x)' => Awaited(x)'
    BY <1>2, <2>6, <2>7 DEF Swept, IsDead
  <2>9. \A x \in live' : mark'[x] = "white" \/ x \in tmudata' \/ Awaited(x)'
    BY <1>1, <1>2, <2>6, <2>7 DEF Swept, GCTypes, GCTypeOK
  <2> QED
    BY <1>1, <1>2, <2>3, <2>4, <2>5, <2>8, <2>9 DEF Swept
<1>16. Closed'
  <2>0. Threads \cup Tables \cup Closures \cup Upvals \cup Udata \subseteq Obj
    BY DEF Obj
  <2>1. \A x \in Obj : Lasts(x) => x \notin freed
    BY <1>5, HeapAssumption DEF Lasts, HeapAssumption
  <2>2. \A th \in Threads : Lasts(th)' => /\ \A x \in stack'[th] : Lasts(x)'
                                          /\ \A u \in Upvals : open'[u] = th => Lasts(val[u])'
    <3> SUFFICES ASSUME NEW th \in Threads, Lasts(th)
                 PROVE  /\ \A x \in stack'[th] : Lasts(x)'
                        /\ \A u \in Upvals : open'[u] = th => Lasts(val[u])'
      BY <1>10, <2>0
    <3>1. \A x \in stack'[th] : x \in Obj /\ Lasts(x)
      <4>1. \A x \in stack[th] : x \in Obj /\ Lasts(x)
        BY <1>2 DEF Closed, GCTypes, GCTypeOK
      <4>2. th = o => \A x \in Values : x \in Obj /\ Lasts(x)
        BY <1>2, <1>4, <1>6, <1>11 DEF Closed
      <4> QED
        BY <1>1, <4>1, <4>2
    <3>2. \A u \in Upvals : open'[u] = th => Lasts(val[u]) /\ val'[u] = val[u] /\ val[u] \in Obj \cup {Nil}
      BY <1>1, <1>2, <2>0, HeapAssumption DEF Closed, HeapAssumption, GCTypes, GCTypeOK
    <3>3. \A u \in Upvals : open'[u] = th => Lasts(val[u])'
      BY <1>10, <3>2
    <3> QED
      BY <1>10, <3>1, <3>3
  <2>3. \A t \in Tables : Lasts(t)' /\ entry'[t] # << >> => Lasts(entry[t][1])' /\ Lasts(entry[t][2])'
    <3> SUFFICES ASSUME NEW t \in Tables, Lasts(t), entry'[t] # << >>
                 PROVE  Lasts(entry[t][1])' /\ Lasts(entry[t][2])'
      BY <1>10, <2>0
    <3>1. entry'[t] = entry[t] /\ entry[t] # << >>
      BY <1>1
    <3>2. Lasts(entry[t][1]) /\ Lasts(entry[t][2]) /\ entry[t][1] \in Obj \cup {Nil} /\ entry[t][2] \in Obj
      BY <1>2, <3>1 DEF Closed, GCTypes, GCTypeOK
    <3> QED
      BY <1>10, <3>1, <3>2
  <2>4. \A f \in Closures : Lasts(f)' => Lasts(up[f])'
    <3> SUFFICES ASSUME NEW f \in Closures, Lasts(f) PROVE Lasts(up[f])'
      BY <1>10, <2>0
    <3>1. up'[f] = up[f] /\ Lasts(up[f]) /\ up[f] \in Obj \cup {Nil}
      BY <1>1, <1>2, <2>0, <2>1 DEF Closed, GCTypes, GCTypeOK, Obj
    <3> QED
      BY <1>10, <3>1
  <2>5. \A u \in Upvals : Lasts(u)' => Lasts(val[u])'
    <3> SUFFICES ASSUME NEW u \in Upvals, Lasts(u) PROVE Lasts(val[u])'
      BY <1>10, <2>0
    <3>1. val'[u] = val[u] /\ Lasts(val[u]) /\ val[u] \in Obj \cup {Nil}
      BY <1>1, <1>2, <2>0, <2>1 DEF Closed, GCTypes, GCTypeOK
    <3> QED
      BY <1>10, <3>1
  <2>6. \A d \in Udata : Lasts(d)' => Lasts(meta[d])'
    <3> SUFFICES ASSUME NEW d \in Udata, Lasts(d) PROVE Lasts(meta[d])'
      BY <1>10, <2>0
    <3>1. meta'[d] = meta[d] /\ Lasts(meta[d]) /\ meta[d] \in Obj \cup {Nil}
      BY <1>1, <1>2, <2>0, <2>1 DEF Closed, GCTypes, GCTypeOK, Obj
    <3> QED
      BY <1>10, <3>1
  <2>7. Lasts(Main)'
    BY <1>2, <1>10, HeapAssumption DEF Closed, HeapAssumption, Obj
  <2> QED
    BY <1>2, <2>2, <2>3, <2>4, <2>5, <2>6, <2>7 DEF Closed
<1> QED
  BY <1>2, <1>12, <1>13, <1>14, <1>15, <1>16 DEF GCInv

(* What does not touch the heap or the colours keeps what they refer to.   *)
LEMMA SameHeap ==
    ASSUME GCInv, UNCHANGED <<live, mark, heap>>, ~Marks', tmudata' \subseteq Udata, sweeping' \subseteq Obj,
           full' \in {"no", "sweep", "mark"}, UNCHANGED finalized,
           phase' \in {"pause", "sweepstring", "sweep", "finalize"}, Swept'
    PROVE  GCInv'
<1>1. GCTypes /\ Blank /\ Colours /\ Closed
  BY DEF GCInv
<1>2. GCTypes'
  BY <1>1 DEF GCTypes, GCTypeOK, heap
<1>3. Blank' /\ Colours'
  BY <1>1 DEF Blank, Colours, heap
<1>4. \A x : Lasts(x)' <=> Lasts(x)
  BY DEF Lasts, IsDead
<1>5. Closed'
  BY <1>1, <1>4 DEF Closed, heap
<1> QED
  BY <1>2, <1>3, <1>5 DEF GCInv

(* The sweep of the strings ends, that of the others, and the cycle.       *)
LEMMA SweepEndsKeeps == GCInv /\ (SweepStringEnds \/ SweepEnds \/ CycleEnds) => GCInv'
<1> SUFFICES ASSUME GCInv, SweepStringEnds \/ SweepEnds \/ CycleEnds PROVE GCInv'
  OBVIOUS
<1>1. GCTypes /\ Swept /\ ~Marks
  BY DEF GCInv, Marks, SweepStringEnds, SweepEnds, CycleEnds
<1>2. CASE SweepStringEnds
  <2>1. Swept'
    BY <1>1, <1>2 DEF SweepStringEnds, Swept, Sweeps, Marks, IsDead, Awaited, heap
  <2> QED
    BY <1>1, <1>2, <2>1, SameHeap DEF SweepStringEnds, Marks, GCTypes, GCTypeOK
<1>3. CASE SweepEnds
  <2>1. Swept'
    BY <1>1, <1>3 DEF SweepEnds, Swept, Sweeps, Marks, IsDead, Awaited, heap
  <2> QED
    BY <1>1, <1>3, <2>1, SameHeap DEF SweepEnds, Marks, GCTypes, GCTypeOK
<1>4. CASE CycleEnds
  <2>1. Swept'
    BY <1>1, <1>4 DEF CycleEnds, Swept, Sweeps, Marks, IsDead, Awaited, heap
  <2> QED
    BY <1>1, <1>4, <2>1, SameHeap DEF CycleEnds, Marks, GCTypes, GCTypeOK
<1> QED
  BY <1>2, <1>3, <1>4

(* A full collection gives up the marking and sweeps, or ends the sweep on *)
(* its way.                                                                *)
LEMMA FullGCKeeps == GCInv /\ FullGC => GCInv'
<1> SUFFICES ASSUME GCInv, FullGC PROVE GCInv'
  OBVIOUS
<1>1. GCTypes /\ Swept /\ Blank
  BY DEF GCInv
<1>2. CASE phase \in {"pause", "propagate"}
  <2>1. /\ sweeping' = (live \ tmudata) \ {u \in Upvals : open[u] # Nil}
        /\ phase' = "sweepstring" /\ full' = "sweep"
        /\ UNCHANGED <<live, mark, heap, tmudata, finalized>>
    BY <1>2 DEF FullGC
  <2>2. ~Sweeps /\ Sweeps' /\ ~Marks'
    BY <1>2, <2>1 DEF Sweeps, Marks
  <2>3. \A o \in Obj : ~IsDead(o)
    BY <1>1, <2>2, NoneDead
  <2>4. \A o \in live : o \in tmudata \/ Awaited(o)'
    <3> SUFFICES ASSUME NEW o \in live, o \notin tmudata PROVE Awaited(o)'
      OBVIOUS
    <3>1. CASE o \in Upvals /\ open[o] # Nil
      <4>1. open[o] \in live /\ open[o] \in Threads
        BY <1>1, <3>1 DEF Swept, GCTypes, GCTypeOK
      <4>2. open[o] \in sweeping'
        BY <1>1, <2>1, <4>1, HeapAssumption DEF HeapAssumption, GCTypes, GCTypeOK
      <4> QED
        BY <2>1, <3>1, <4>2 DEF Awaited, heap
    <3>2. CASE ~(o \in Upvals /\ open[o] # Nil)
      BY <2>1, <3>2 DEF Awaited
    <3> QED
      BY <3>1, <3>2
  <2>5. Swept'
    <3>1. /\ sweeping' \subseteq live' /\ tmudata' \subseteq live' /\ sweeping' \cap tmudata' = {}
          /\ \A u \in Upvals \cap sweeping' : open'[u] = Nil
          /\ \A u \in Upvals : open'[u] # Nil => open'[u] \in live'
      BY <1>1, <2>1 DEF Swept, heap
    <3>2. \A o \in Obj : ~IsDead(o)'
      BY <2>1, <2>3 DEF IsDead
    <3> QED
      BY <2>1, <2>2, <2>4, <3>1, <3>2 DEF Swept
  <2>6. sweeping' \subseteq Obj
    BY <1>1, <2>1 DEF GCTypes, GCTypeOK
  <2> QED
    BY <1>1, <2>1, <2>2, <2>5, <2>6, SameHeap DEF GCTypes, GCTypeOK
<1>3. CASE phase \in {"sweepstring", "sweep", "finalize"}
  <2>1. /\ full' = "sweep" /\ UNCHANGED <<lists, sweeping, phase, live, mark, heap, tmudata, finalized>>
    BY <1>3 DEF FullGC
  <2>2. Swept'
    BY <1>1, <2>1 DEF Swept, Sweeps, Marks, IsDead, Awaited, heap
  <2>3. ~Marks'
    BY <1>3, <2>1 DEF Marks
  <2> QED
    BY <1>1, <1>3, <2>1, <2>2, <2>3, SameHeap DEF GCTypes, GCTypeOK
<1> QED
  BY <1>2, <1>3 DEF FullGC

(* A userdata whose finalizer is called is an object like others again.    *)
LEMMA CallFinalizerKeeps == \A d \in Udata : GCInv /\ CallFinalizer(d) => GCInv'
<1> SUFFICES ASSUME GCInv, NEW d \in Udata, CallFinalizer(d) PROVE GCInv'
  OBVIOUS
<1>1. /\ phase = "finalize" /\ d \in tmudata /\ tmudata' = tmudata \ {d}
      /\ mark' = [mark EXCEPT ![d] = "white"]
      /\ stack' = stack \/ stack' = [stack EXCEPT ![Main] = @ \cup {d}]
      /\ UNCHANGED <<live, entry, val, open, up, meta, phase, lists, sweeping, finalized, full>>
  BY DEF CallFinalizer
<1>2. GCTypes /\ Blank /\ Swept /\ Closed /\ Colours /\ ~Sweeps /\ ~Sweeps' /\ ~Marks /\ ~Marks'
  BY <1>1 DEF GCInv, Sweeps, Marks
<1>3. d \in Obj /\ d \in live /\ d \notin Upvals
  BY <1>1, <1>2, HeapAssumption DEF Swept, Obj, HeapAssumption
<1>4. /\ \A x \in Obj : mark'[x] = IF x = d THEN "white" ELSE mark[x]
      /\ mark' \in [Obj -> Colour]
  BY <1>1, <1>2, <1>3 DEF GCTypes, GCTypeOK, Colour
<1>5. /\ stack' \in [Threads -> SUBSET (Obj \ Upvals)]
      /\ \A th \in Threads : stack'[th] = stack[th] \/ (th = Main /\ stack'[th] = stack[th] \cup {d})
  BY <1>1, <1>2, <1>3 DEF GCTypes, GCTypeOK
<1>6. \A x \in Obj : Lasts(x)' <=> Lasts(x)
  BY <1>1, <1>2, <1>4, NoneDead DEF Lasts, IsDead
<1>7. GCTypes'
  BY <1>1, <1>2, <1>4, <1>5 DEF GCTypes, GCTypeOK
<1>8. Blank'
  BY <1>1, <1>2, <1>4, <1>5 DEF Blank, GCTypes, GCTypeOK
<1>9. Colours'
  BY <1>1, <1>2, <1>3, <1>4, HeapAssumption DEF Colours, HeapAssumption, Obj
<1>10. Swept'
  <2>1. \A x \in Obj : IsDead(x)' => IsDead(x)
    BY <1>4 DEF IsDead
  <2>2. \A x : Awaited(x)' <=> Awaited(x)
    BY <1>1 DEF Awaited
  <2>3. \A x \in live : mark'[x] = "white" \/ x \in tmudata' \/ Awaited(x)
    BY <1>1, <1>2, <1>4 DEF Swept, GCTypes, GCTypeOK
  <2> QED
    BY <1>1, <1>2, <2>1, <2>2, <2>3 DEF Swept
<1>11. Closed'
  <2>1. \A x \in Obj \cup {Nil} : Lasts(x)' <=> Lasts(x)
    BY <1>6 DEF Lasts
  <2>2. Lasts(d)
    BY <1>2, <1>3, NoneDead
  <2>3. \A th \in Threads : Lasts(th)' => \A x \in stack'[th] : Lasts(x)'
    <3>1. \A th \in Threads : th \in Obj /\ stack[th] \subseteq Obj
      BY <1>2 DEF Obj, GCTypes, GCTypeOK
    <3> QED
      BY <1>2, <1>3, <1>5, <2>1, <2>2, <3>1 DEF Closed
  <2>4. /\ \A th \in Threads : th \in Obj
        /\ \A t \in Tables : t \in Obj /\
               (entry[t] # << >> => entry[t][1] \in Obj \cup {Nil} /\ entry[t][2] \in Obj \cup {Nil})
        /\ \A f \in Closures : f \in Obj /\ up[f] \in Obj \cup {Nil}
        /\ \A u \in Upvals : u \in Obj /\ val[u] \in Obj \cup {Nil}
        /\ \A x \in Udata : x \in Obj /\ meta[x] \in Obj \cup {Nil}
        /\ Main \in Obj
    BY <1>2, HeapAssumption DEF GCTypes, GCTypeOK, Obj, HeapAssumption
  <2> QED
    BY <1>1, <1>2, <2>1, <2>3, <2>4 DEF Closed
<1> QED
  BY <1>2, <1>7, <1>8, <1>9, <1>10, <1>11 DEF GCInv

-----------------------------------------------------------------------------
(* The thread that runs, and all it holds, last.                           *)
LEMMA RunnerLasts ==
    ASSUME GCInv, NEW th \in {Main} \cup (Threads \cap stack[Main]), Runs(th)
    PROVE  /\ th \in Threads /\ th \in live /\ Lasts(th)
           /\ \A x \in stack[th] : x \in Obj /\ x \notin Upvals /\ x \in live /\ Lasts(x)
           /\ \A u \in Upvals : open[u] = th => Lasts(val[u])
           /\ Main \in Obj /\ th \in Obj
           /\ phase \in {"pause", "propagate", "sweepstring", "sweep", "finalize"} /\ full = "no"
<1>1. \A x \in Obj : Lasts(x) => x \in live
  BY HeapAssumption DEF HeapAssumption, Lasts
<1>2. \A x \in stack[Main] : x \in Obj /\ Lasts(x)
  BY HeapAssumption DEF HeapAssumption, GCInv, Closed, GCTypes, GCTypeOK
<1>3. th \in Threads /\ Lasts(th) /\ Main \in Obj /\ th \in Obj
  BY <1>2, HeapAssumption DEF HeapAssumption, GCInv, Closed, Obj
<1>4. /\ \A x \in stack[th] : x \in Obj /\ x \notin Upvals /\ Lasts(x)
      /\ \A u \in Upvals : open[u] = th => Lasts(val[u])
  BY <1>3 DEF GCInv, Closed, GCTypes, GCTypeOK
<1> QED
  BY <1>1, <1>3, <1>4 DEF Runs

(* Objects are made, strings come back from the dead, and a stack changes  *)
(* among what lasts.                                                       *)
LEMMA StackKeeps ==
    ASSUME GCInv, NEW th \in Threads, th \in live,
           phase \in {"pause", "propagate", "sweepstring", "sweep", "finalize"},
           NEW N \in SUBSET (Obj \ Upvals), N \cap live = {}, live' = live \cup N,
           mark' \in [Obj -> Colour],
           \A x \in Obj : mark'[x] = mark[x] \/ (mark'[x] = "white" /\ x \in Strings /\ IsDead(x)),
           NEW W \in SUBSET (Obj \ Upvals), stack' = [stack EXCEPT ![th] = W],
           \A x \in W : x \in live' /\ mark'[x] # "dead",
           UNCHANGED <<entry, val, open, up, meta, lists, finalized, Collector>>
    PROVE  GCInv'
<1>1. /\ GCTypes /\ Blank /\ Swept /\ Closed /\ Colours /\ (Marks => Linked /\ Atomic /\ BlackSees)
      /\ (Marks' <=> Marks) /\ (Sweeps' <=> Sweeps) /\ (Marks => ~Sweeps)
      /\ phase' = phase /\ sweeping' = sweeping /\ tmudata' = tmudata /\ full' = full
  BY DEF GCInv, Sweeps, Marks, Collector
<1>2. stack' \in [Threads -> SUBSET (Obj \ Upvals)] /\ \A t \in Threads : stack'[t] = IF t = th THEN W ELSE stack[t]
  BY <1>1 DEF GCTypes, GCTypeOK
<1>3. GCTypes'
  BY <1>1, <1>2 DEF GCTypes, GCTypeOK
<1>4. \A x \in N : mark'[x] = "white" /\ mark[x] = "white"
  BY <1>1 DEF Blank, IsDead
<1>5. Blank'
  <2>1. \A x \in Obj \ live' : mark'[x] = "white"
    BY <1>1 DEF Blank
  <2> QED
    BY <1>1, <1>2, <2>1 DEF Blank
<1>6. Colours'
  <2>1. \A x \in Obj \ Strings : mark'[x] = mark[x]
    OBVIOUS
  <2>2. Threads \cup WeakKeys \cup WeakValues \cup Udata \cup Upvals \subseteq Obj \ Strings
    BY HeapAssumption DEF HeapAssumption, Obj
  <2> QED
    BY <1>1, <2>1, <2>2 DEF Colours
<1>7. Swept'
  <2>1. \A x : Awaited(x)' <=> Awaited(x)
    BY <1>1 DEF Awaited
  <2>2. \A x \in Obj : IsDead(x)' => IsDead(x)
    BY DEF IsDead
  <2>3. \A x \in live' : mark'[x] = "white" \/ (x \in live /\ mark'[x] = mark[x])
    <3>1. live' \subseteq Obj
      BY <1>1 DEF GCTypes, GCTypeOK
    <3>2. \A x \in N : mark'[x] = "white"
      BY <1>4
    <3> QED
      BY <3>1, <3>2
  <2>4. ~Marks => \A x \in live' : mark'[x] = "white" \/ x \in tmudata' \/ Awaited(x)'
    BY <1>1, <2>1, <2>3 DEF Swept
  <2> QED
    BY <1>1, <2>1, <2>2, <2>4 DEF Swept
<1>8. Closed'
  <2>1. \A x \in Obj \cup {Nil} : Lasts(x) => Lasts(x)'
    BY DEF Lasts, IsDead
  <2>2. \A x \in Obj \ Strings : Lasts(x)' => Lasts(x) \/ x \in N
    BY HeapAssumption DEF Lasts, IsDead, HeapAssumption
  <2>3. Threads \cup Tables \cup Closures \cup Upvals \cup Udata \subseteq Obj \ Strings
    BY HeapAssumption DEF HeapAssumption, Obj
  <2>4. \A t \in Threads : Lasts(t)' => /\ \A x \in stack'[t] : Lasts(x)'
                                        /\ \A u \in Upvals : open[u] = t => Lasts(val[u])'
    <3> SUFFICES ASSUME NEW t \in Threads, Lasts(t)'
                 PROVE  /\ \A x \in stack'[t] : Lasts(x)'
                        /\ \A u \in Upvals : open[u] = t => Lasts(val[u])'
      OBVIOUS
    <3>1. t = th => \A x \in stack'[t] : Lasts(x)'
      BY <1>2 DEF Lasts, IsDead
    <3>2. t # th => \A x \in stack'[t] : Lasts(x)'
      <4> SUFFICES ASSUME t # th, NEW x \in stack[t] PROVE Lasts(x)'
        BY <1>2
      <4>1. t \notin N
        BY <1>1 DEF Blank
      <4>2. Lasts(x) /\ x \in Obj
        BY <1>1, <2>2, <2>3, <4>1 DEF Closed, GCTypes, GCTypeOK
      <4> QED
        BY <2>1, <4>2
    <3>3. \A u \in Upvals : open[u] = t => Lasts(val[u])'
      <4> SUFFICES ASSUME NEW u \in Upvals, open[u] = t PROVE Lasts(val[u])'
        OBVIOUS
      <4>1. t \in live
        BY <1>1, HeapAssumption DEF Swept, HeapAssumption, Obj
      <4>2. Lasts(val[u]) /\ val[u] \in Obj \cup {Nil} /\ val' = val
        BY <1>1, <2>2, <2>3, <4>1 DEF Closed, GCTypes, GCTypeOK
      <4> QED
        BY <2>1, <4>2
    <3> QED
      BY <3>1, <3>2, <3>3
  <2>5. \A t \in Tables : Lasts(t)' /\ entry[t] # << >> => Lasts(entry[t][1])' /\ Lasts(entry[t][2])'
    <3> SUFFICES ASSUME NEW t \in Tables, Lasts(t)', entry[t] # << >>
                 PROVE  Lasts(entry[t][1])' /\ Lasts(entry[t][2])'
      OBVIOUS
    <3>1. t \notin N
      BY <1>1 DEF Blank
    <3>2. /\ Lasts(entry[t][1]) /\ Lasts(entry[t][2]) /\ entry' = entry
          /\ entry[t][1] \in Obj \cup {Nil} /\ entry[t][2] \in Obj
      BY <1>1, <2>2, <2>3, <3>1 DEF Closed, GCTypes, GCTypeOK
    <3> QED
      BY <2>1, <3>2
  <2>6. \A f \in Closures : Lasts(f)' => Lasts(up[f])'
    <3> SUFFICES ASSUME NEW f \in Closures, Lasts(f)' PROVE Lasts(up[f])'
      OBVIOUS
    <3>1. Lasts(up[f]) /\ up[f] \in Obj \cup {Nil} /\ up' = up
      BY <1>1, <2>2, <2>3 DEF Closed, GCTypes, GCTypeOK, Obj, Blank, Lasts
    <3> QED
      BY <2>1, <3>1
  <2>7. \A u \in Upvals : Lasts(u)' => Lasts(val[u])'
    <3> SUFFICES ASSUME NEW u \in Upvals, Lasts(u)' PROVE Lasts(val[u])'
      OBVIOUS
    <3>1. Lasts(val[u]) /\ val[u] \in Obj \cup {Nil} /\ val' = val
      BY <1>1, <2>2, <2>3 DEF Closed, GCTypes, GCTypeOK
    <3> QED
      BY <2>1, <3>1
  <2>8. \A d \in Udata : Lasts(d)' => Lasts(meta[d])'
    <3> SUFFICES ASSUME NEW d \in Udata, Lasts(d)' PROVE Lasts(meta[d])'
      OBVIOUS
    <3>1. Lasts(meta[d]) /\ meta[d] \in Obj \cup {Nil} /\ meta' = meta
      BY <1>1, <2>2, <2>3 DEF Closed, GCTypes, GCTypeOK, Obj, Blank, Lasts
    <3> QED
      BY <2>1, <3>1
  <2>9. Lasts(Main)' /\ (Marks => Seen(Main)')
    <3>1. Main \in Obj /\ Main \in Threads /\ Main \notin Strings
      BY HeapAssumption DEF HeapAssumption, Obj
    <3> QED
      BY <1>1, <2>1, <3>1 DEF Closed, Seen, IsWhite
  <2> QED
    BY <1>1, <2>4, <2>5, <2>6, <2>7, <2>8, <2>9 DEF Closed
<1>9. Marks => Linked' /\ Atomic' /\ BlackSees'
  <2> SUFFICES ASSUME Marks PROVE Linked' /\ Atomic' /\ BlackSees'
    OBVIOUS
  <2>1. mark' = mark
    <3>1. \A x \in Obj : mark'[x] = mark[x]
      BY <1>1, NoneDead
    <3> QED
      BY <1>1, <3>1 DEF GCTypes, GCTypeOK
  <2>2. Linked'
    BY <1>1, <1>4, <2>1 DEF Linked, lists
  <2>3. phase = "propagate"
    BY DEF Marks
  <2>4. Atomic'
    BY <1>1, <2>3 DEF Atomic, lists
  <2>5. BlackSees'
    BY <1>1, <2>1 DEF BlackSees, EntrySeen, Seen, IsWhite
  <2> QED
    BY <2>2, <2>4, <2>5
<1> QED
  BY <1>1, <1>3, <1>5, <1>6, <1>7, <1>8, <1>9 DEF GCInv

(* An object is made.                                                      *)
LEMMA NewKeeps ==
    \A th \in {Main} \cup (Threads \cap stack[Main]), o \in Obj \ live : GCInv /\ New(o, th) => GCInv'
<1> SUFFICES ASSUME NEW th \in {Main} \cup (Threads \cap stack[Main]), NEW o \in Obj \ live, GCInv, New(o, th)
             PROVE  GCInv'
  OBVIOUS
<1>1. /\ th \in Threads /\ th \in live /\ th \in Obj
      /\ \A x \in stack[th] : x \in Obj /\ x \notin Upvals /\ x \in live /\ Lasts(x)
      /\ phase \in {"pause", "propagate", "sweepstring", "sweep", "finalize"}
  BY RunnerLasts DEF New
<1>2. /\ o \in Tables \cup Strings \cup Udata \cup Threads /\ live' = live \cup {o}
      /\ mark' = [mark EXCEPT ![o] = "white"]
      /\ stack' = [stack EXCEPT ![th] = @ \cup {o}]
      /\ UNCHANGED <<entry, val, open, up, meta, lists, finalized, Collector>>
  BY DEF New, HoldsToo
<1>3. o \notin Upvals /\ mark[o] = "white" /\ mark \in [Obj -> Colour] /\ stack \in [Threads -> SUBSET (Obj \ Upvals)]
  BY <1>2, HeapAssumption DEF HeapAssumption, GCInv, GCTypes, GCTypeOK, Blank
<1>4. mark' = mark
  BY <1>2, <1>3
<1>5. stack' = [stack EXCEPT ![th] = stack[th] \cup {o}]
  BY <1>2
<1>6. {o} \in SUBSET (Obj \ Upvals) /\ {o} \cap live = {} /\ stack[th] \cup {o} \in SUBSET (Obj \ Upvals)
  BY <1>1, <1>3
<1>7. \A x \in stack[th] \cup {o} : x \in live' /\ mark'[x] # "dead"
  BY <1>1, <1>2, <1>3, <1>4, HeapAssumption DEF Lasts, IsDead, HeapAssumption
<1> QED
  BY <1>1, <1>2, <1>3, <1>4, <1>5, <1>6, <1>7, StackKeeps

(* A value that is allocated and not dead is put on a stack.               *)
LEMMA HoldKeeps ==
    ASSUME GCInv, NEW th \in {Main} \cup (Threads \cap stack[Main]), Runs(th),
           NEW x \in Obj \ Upvals, x \in live, HoldsToo(th, x),
           mark' = mark \/ (x \in Strings /\ IsDead(x) /\ mark' = [mark EXCEPT ![x] = "white"]),
           mark'[x] # "dead",
           UNCHANGED <<live, entry, val, open, up, meta, lists, finalized, Collector>>
    PROVE  GCInv'
<1>1. /\ th \in Threads /\ th \in live
      /\ \A y \in stack[th] : y \in Obj /\ y \notin Upvals /\ y \in live /\ Lasts(y)
      /\ phase \in {"pause", "propagate", "sweepstring", "sweep", "finalize"}
  BY RunnerLasts
<1>2. mark \in [Obj -> Colour]
  BY DEF GCInv, GCTypes, GCTypeOK
<1>3. mark' \in [Obj -> Colour] /\ \A y \in Obj : mark'[y] = mark[y] \/ (mark'[y] = "white" /\ y \in Strings /\ IsDead(y))
  BY <1>2 DEF Colour
<1>4. stack' = [stack EXCEPT ![th] = stack[th] \cup {x}]
  BY DEF HoldsToo
<1>5. {} \in SUBSET (Obj \ Upvals) /\ {} \cap live = {} /\ live' = live \cup {}
      /\ stack[th] \cup {x} \in SUBSET (Obj \ Upvals)
  BY <1>1
<1>6. \A y \in stack[th] \cup {x} : y \in live' /\ mark'[y] # "dead"
  BY <1>1, <1>3, HeapAssumption DEF Lasts, IsDead, HeapAssumption
<1> QED
  BY <1>1, <1>3, <1>4, <1>5, <1>6, StackKeeps

(* A string is found in the string table, and comes back from the dead.    *)
LEMMA InternKeeps ==
    \A th \in {Main} \cup (Threads \cap stack[Main]), s \in Strings \cap live : GCInv /\ Intern(s, th) => GCInv'
<1> SUFFICES ASSUME NEW th \in {Main} \cup (Threads \cap stack[Main]), NEW s \in Strings \cap live,
                    GCInv, Intern(s, th)
             PROVE  GCInv'
  OBVIOUS
<1>1. s \in Obj \ Upvals /\ mark \in [Obj -> Colour]
  BY HeapAssumption DEF HeapAssumption, Obj, GCInv, GCTypes, GCTypeOK
<1>2. mark' = (IF IsDead(s) THEN [mark EXCEPT ![s] = "white"] ELSE mark)
  BY DEF Intern
<1>3. mark'[s] # "dead"
  BY <1>1, <1>2 DEF IsDead
<1> QED
  BY <1>1, <1>2, <1>3, HoldKeeps DEF Intern

(* A value leaves a stack.                                                 *)
LEMMA DropKeeps ==
    \A th \in {Main} \cup (Threads \cap stack[Main]) : \A x \in stack[th] : GCInv /\ Drop(x, th) => GCInv'
<1> SUFFICES ASSUME NEW th \in {Main} \cup (Threads \cap stack[Main]), NEW x \in stack[th], GCInv, Drop(x, th)
             PROVE  GCInv'
  OBVIOUS
<1>1. /\ th \in Threads /\ th \in live
      /\ \A y \in stack[th] : y \in Obj /\ y \notin Upvals /\ y \in live /\ Lasts(y)
      /\ phase \in {"pause", "propagate", "sweepstring", "sweep", "finalize"}
  BY RunnerLasts DEF Drop
<1>2. /\ stack' = [stack EXCEPT ![th] = stack[th] \ {x}] /\ mark' = mark /\ live' = live
      /\ UNCHANGED <<entry, val, open, up, meta, lists, finalized, Collector>>
  BY DEF Drop
<1>3. mark' \in [Obj -> Colour]
  BY <1>2 DEF GCInv, GCTypes, GCTypeOK
<1>4. {} \in SUBSET (Obj \ Upvals) /\ {} \cap live = {} /\ live' = live \cup {}
      /\ stack[th] \ {x} \in SUBSET (Obj \ Upvals)
  BY <1>1, <1>2
<1>5. \A y \in stack[th] \ {x} : y \in live' /\ mark'[y] # "dead"
  BY <1>1, <1>2, HeapAssumption DEF Lasts, IsDead, HeapAssumption
<1> QED
  BY <1>1, <1>2, <1>3, <1>4, <1>5, StackKeeps

(* What is read from an object that lasts is allocated and not dead.       *)
LEMMA ReadKeeps ==
    \A th \in {Main} \cup (Threads \cap stack[Main]) : \A o \in stack[th] \cup {th}, x \in live :
        GCInv /\ Read(o, x, th) => GCInv'
<1> SUFFICES ASSUME NEW th \in {Main} \cup (Threads \cap stack[Main]), NEW o \in stack[th] \cup {th}, NEW x \in live,
                    GCInv, Read(o, x, th)
             PROVE  GCInv'
  OBVIOUS
<1>1. GCTypes /\ Closed
  BY DEF GCInv
<1>2. o \in Obj /\ Lasts(o)
  BY RunnerLasts DEF Read
<1>3. x \in Refs(o) \/ (o \in Closures /\ x \in Refs(up[o]))
  BY DEF Read
<1>4. Lasts(x)
  <2>1. CASE x \in Refs(o)
    BY <1>1, <1>2, <2>1, RefsLast
  <2>2. CASE o \in Closures /\ x \in Refs(up[o])
    <3>1. Refs(Nil) = {}
      BY HeapAssumption DEF HeapAssumption, Obj, Refs, Strong
    <3>2. up[o] \in Upvals /\ Lasts(up[o])
      BY <1>1, <1>2, <2>2, <3>1 DEF Closed, GCTypes, GCTypeOK
    <3> QED
      BY <1>1, <2>2, <3>2, RefsLast DEF Obj
  <2> QED
    BY <1>3, <2>1, <2>2
<1>5. x \in Obj \ Upvals /\ mark[x] # "dead"
  BY <1>1, <1>4, HeapAssumption DEF Read, Lasts, IsDead, GCTypes, GCTypeOK, HeapAssumption
<1> QED
  BY <1>5, HoldKeeps DEF Read

(* A value passes to a coroutine.                                          *)
LEMMA ResumeKeeps ==
    \A th \in {Main} \cup (Threads \cap stack[Main]) : \A x \in stack[Main] \cup {th} :
        GCInv /\ Resume(th, x) => GCInv'
<1> SUFFICES ASSUME NEW th \in {Main} \cup (Threads \cap stack[Main]), NEW x \in stack[Main] \cup {th},
                    GCInv, Resume(th, x)
             PROVE  GCInv'
  OBVIOUS
<1>1. Runs(Main) /\ Runs(th)
  BY DEF Resume, Runs
<1>2. \A y \in stack[Main] : y \in Obj /\ y \notin Upvals /\ y \in live /\ Lasts(y)
  BY <1>1, RunnerLasts
<1>3. th \in Obj /\ th \notin Upvals /\ th \in live /\ Lasts(th)
  BY <1>1, RunnerLasts, HeapAssumption DEF HeapAssumption
<1>4. x \in Obj \ Upvals /\ x \in live /\ mark[x] # "dead"
  BY <1>2, <1>3, HeapAssumption DEF Lasts, IsDead, HeapAssumption
<1> QED
  BY <1>1, <1>4, HoldKeeps DEF Resume

(* The entry of a table changes to what lasts; a black one with something  *)
(* white in it goes back to the list of those to be traversed again.       *)
LEMMA TableKeeps ==
    ASSUME GCInv, phase \in {"pause", "propagate", "sweepstring", "sweep", "finalize"},
           NEW t \in Tables, t \in live,
           NEW e \in {<< >>} \cup (((Obj \ Upvals) \cup {Nil}) \X (Obj \ Upvals)),
           e # << >> => Lasts(e[1]) /\ Lasts(e[2]),
           entry' = [entry EXCEPT ![t] = e],
           \/ /\ UNCHANGED <<mark, grayagain>>
              /\ mark[t] = "black" /\ e # << >> => Seen(e[1]) /\ Seen(e[2])
           \/ /\ mark[t] = "black" /\ mark' = [mark EXCEPT ![t] = "gray"]
              /\ grayagain' = grayagain \cup {t},
           UNCHANGED <<live, stack, val, open, up, meta, gray, weak, finalized, Collector>>
    PROVE  GCInv'
<1>1. /\ GCTypes /\ Blank /\ Swept /\ Closed /\ Colours /\ (Marks => Linked /\ Atomic /\ BlackSees)
      /\ (Marks' <=> Marks) /\ (Sweeps' <=> Sweeps) /\ (Marks => ~Sweeps)
      /\ phase' = phase /\ sweeping' = sweeping /\ tmudata' = tmudata /\ full' = full
  BY DEF GCInv, Sweeps, Marks, Collector
<1>2. /\ t \in Obj
      /\ \A x \in Tables : entry'[x] = IF x = t THEN e ELSE entry[x]
      /\ entry' \in [Tables -> {<< >>} \cup (((Obj \ Upvals) \cup {Nil}) \X (Obj \ Upvals))]
      /\ entry' \in [Tables -> {<< >>} \cup ((Obj \cup {Nil}) \X Obj)]
  BY <1>1 DEF GCTypes, GCTypeOK, Obj
<1>3. /\ mark' \in [Obj -> Colour]
      /\ \A x \in Obj : mark'[x] = mark[x] \/ (x = t /\ mark[x] = "black" /\ mark'[x] = "gray")
  BY <1>1, <1>2 DEF GCTypes, GCTypeOK, Colour
<1>4. \A x \in Obj \cup {Nil} : (Lasts(x)' <=> Lasts(x)) /\ (Seen(x)' <=> Seen(x))
  <2>1. \A x \in Obj : (mark'[x] = "dead" <=> mark[x] = "dead") /\ (mark'[x] = "white" <=> mark[x] = "white")
    BY <1>3
  <2> QED
    BY <2>1 DEF Lasts, Seen, IsDead, IsWhite
<1>5. GCTypes'
  BY <1>1, <1>2, <1>3 DEF GCTypes, GCTypeOK
<1>6. Blank'
  BY <1>1, <1>2, <1>3 DEF Blank
<1>7. Colours'
  <2>1. \A x \in Obj \ Tables : mark'[x] = mark[x]
    BY <1>3
  <2>2. Threads \cup Udata \cup Upvals \subseteq Obj \ Tables /\ WeakKeys \cup WeakValues \subseteq Obj
    BY HeapAssumption DEF HeapAssumption, Obj
  <2> QED
    BY <1>1, <1>3, <2>1, <2>2 DEF Colours
<1>8. Swept'
  <2>1. \A x : Awaited(x)' <=> Awaited(x)
    BY <1>1 DEF Awaited
  <2>2. \A x \in Obj : (IsDead(x)' <=> IsDead(x)) /\ (mark'[x] = "white" <=> mark[x] = "white")
    BY <1>3 DEF IsDead
  <2> QED
    BY <1>1, <2>1, <2>2 DEF Swept, GCTypes, GCTypeOK
<1>9. Closed'
  <2>1. /\ \A th \in Threads : th \in Obj /\ stack[th] \subseteq Obj
        /\ \A f \in Closures : f \in Obj /\ up[f] \in Obj \cup {Nil}
        /\ \A u \in Upvals : u \in Obj /\ val[u] \in Obj \cup {Nil}
        /\ \A d \in Udata : d \in Obj /\ meta[d] \in Obj \cup {Nil}
        /\ Main \in Obj
    BY <1>1, HeapAssumption DEF GCTypes, GCTypeOK, Obj, HeapAssumption
  <2>2. \A x \in Tables : Lasts(x)' /\ entry'[x] # << >> => Lasts(entry[x][1])' /\ Lasts(entry[x][2])'
    <3> SUFFICES ASSUME NEW x \in Tables, Lasts(x)', entry'[x] # << >>
                 PROVE  Lasts(entry[x][1])' /\ Lasts(entry[x][2])'
      OBVIOUS
    <3>1. /\ entry'[x][1] \in Obj \cup {Nil} /\ entry'[x][2] \in Obj
          /\ Lasts(x)
      BY <1>2, <1>4 DEF Obj
    <3>2. CASE x = t
      BY <1>2, <1>4, <3>1, <3>2
    <3>3. CASE x # t
      <4>1. Lasts(entry[x][1]) /\ Lasts(entry[x][2]) /\ entry'[x] = entry[x]
        BY <1>1, <1>2, <3>1, <3>3 DEF Closed
      <4> QED
        BY <1>4, <3>1, <4>1
    <3> QED
      BY <3>2, <3>3
  <2> QED
    BY <1>1, <1>4, <2>1, <2>2 DEF Closed
<1>10. Marks => Linked' /\ Atomic' /\ BlackSees'
  <2> SUFFICES ASSUME Marks PROVE Linked' /\ Atomic' /\ BlackSees'
    OBVIOUS
  <2>1. phase = "propagate"
    BY DEF Marks
  <2>2. Linked'
    <3>1. CASE mark' = mark /\ grayagain' = grayagain
      BY <1>1, <3>1 DEF Linked
    <3>2. CASE mark[t] = "black" /\ mark' = [mark EXCEPT ![t] = "gray"] /\ grayagain' = grayagain \cup {t}
      <4>1. t \notin gray \cup grayagain \cup weak
        BY <1>1, <3>2 DEF Linked
      <4>2. {o \in live \cap (Tables \cup Closures \cup Threads) : mark'[o] = "gray"}
                = {o \in live \cap (Tables \cup Closures \cup Threads) : mark[o] = "gray"} \cup {t}
        BY <1>1, <3>2 DEF GCTypes, GCTypeOK
      <4> QED
        BY <1>1, <3>2, <4>1, <4>2 DEF Linked
    <3> QED
      BY <3>1, <3>2
  <2>3. Atomic'
    BY <1>1, <2>1 DEF Atomic
  <2>4. BlackSees'
    <3>1. \A x \in Tables : mark'[x] = "black" => EntrySeen(x)'
      <4> SUFFICES ASSUME NEW x \in Tables, mark'[x] = "black", entry'[x] # << >>
                   PROVE  EntrySeen(x)'
        BY DEF EntrySeen
      <4>1. x \in Obj /\ mark[x] = "black"
        BY <1>3 DEF Obj
      <4>2. entry'[x][1] \in Obj \cup {Nil} /\ entry'[x][2] \in Obj
        BY <1>2
      <4>3. CASE x = t
        <5>1. Seen(e[1]) /\ Seen(e[2]) /\ entry'[t] = e
          BY <1>1, <1>2, <4>3, <4>1 DEF GCTypes, GCTypeOK
        <5> QED
          BY <1>4, <4>2, <4>3, <5>1 DEF EntrySeen
      <4>4. CASE x # t
        <5>1. entry'[x] = entry[x] /\ EntrySeen(x)
          BY <1>1, <1>2, <4>1, <4>4 DEF BlackSees
        <5> QED
          BY <1>4, <4>2, <5>1 DEF EntrySeen
      <4> QED
        BY <4>3, <4>4
    <3>2. /\ \A f \in Closures : f \in Obj /\ f # t /\ up[f] \in Obj \cup {Nil}
          /\ \A u \in Upvals : u \in Obj /\ u # t /\ val[u] \in Obj \cup {Nil}
          /\ \A d \in Udata : d \in Obj /\ d # t /\ meta[d] \in Obj \cup {Nil}
      BY <1>1, HeapAssumption DEF GCTypes, GCTypeOK, Obj, HeapAssumption
    <3>3. \A f \in Closures : mark'[f] = "black" => Seen(up[f])'
      BY <1>1, <1>3, <1>4, <3>2 DEF BlackSees
    <3>4. \A u \in Upvals : mark'[u] = "black" => Seen(val[u])'
      BY <1>1, <1>3, <1>4, <3>2 DEF BlackSees
    <3>5. \A d \in Udata : mark'[d] = "black" /\ (d \in tmudata' => phase' = "tm") => Seen(meta[d])'
      BY <1>1, <1>3, <1>4, <3>2 DEF BlackSees
    <3> QED
      BY <3>1, <3>3, <3>4, <3>5 DEF BlackSees
  <2> QED
    BY <2>2, <2>3, <2>4
<1> QED
  BY <1>1, <1>5, <1>6, <1>7, <1>8, <1>9, <1>10 DEF GCInv

(* An assignment to a field of a table.                                    *)
LEMMA StoreKeeps ==
    \A th \in {Main} \cup (Threads \cap stack[Main]) :
        \A x \in stack[th], t \in Tables \cap stack[th], k \in stack[th] \cup {Nil} :
            GCInv /\ Store(t, k, x, th) => GCInv'
<1> SUFFICES ASSUME NEW th \in {Main} \cup (Threads \cap stack[Main]), NEW x \in stack[th],
                    NEW t \in Tables \cap stack[th], NEW k \in stack[th] \cup {Nil}, GCInv, Store(t, k, x, th)
             PROVE  GCInv'
  OBVIOUS
<1>1. /\ \A y \in stack[th] : y \in Obj /\ y \notin Upvals /\ y \in live /\ Lasts(y)
      /\ phase \in {"pause", "propagate", "sweepstring", "sweep", "finalize"}
  BY RunnerLasts DEF Store
<1>2. /\ Lasts(k) /\ Lasts(x) /\ t \in live
      /\ <<k, x>> \in {<< >>} \cup (((Obj \ Upvals) \cup {Nil}) \X (Obj \ Upvals))
  BY <1>1 DEF Lasts
<1>3. mark[t] = "black" /\ WhiteIn({k, x} \ {Nil}) = {} => Seen(k) /\ Seen(x)
  BY DEF WhiteIn, Seen
<1>4. <<k, x>>[1] = k /\ <<k, x>>[2] = x
  OBVIOUS
<1> QED
  BY <1>1, <1>2, <1>3, <1>4, TableKeeps DEF Store, BarrierBack

(* A field of a table is cleared.                                          *)
LEMMA StoreNilKeeps ==
    \A th \in {Main} \cup (Threads \cap stack[Main]) : \A t \in Tables \cap stack[th] :
        GCInv /\ StoreNil(t, th) => GCInv'
<1> SUFFICES ASSUME NEW th \in {Main} \cup (Threads \cap stack[Main]), NEW t \in Tables \cap stack[th],
                    GCInv, StoreNil(t, th)
             PROVE  GCInv'
  OBVIOUS
<1>1. /\ t \in live
      /\ phase \in {"pause", "propagate", "sweepstring", "sweep", "finalize"}
  BY RunnerLasts DEF StoreNil
<1>2. << >> \in {<< >>} \cup (((Obj \ Upvals) \cup {Nil}) \X (Obj \ Upvals))
  OBVIOUS
<1> QED
  BY <1>1, <1>2, TableKeeps DEF StoreNil, lists

(* A closure is made over a local, its upvalue made, found or taken back.  *)
LEMMA MakeClosureKeeps ==
    \A th \in {Main} \cup (Threads \cap stack[Main]) :
        \A f \in Closures \ live, u \in Upvals, x \in stack[th] \cup {Nil} :
            GCInv /\ MakeClosure(f, u, x, th) => GCInv'
<1> SUFFICES ASSUME NEW th \in {Main} \cup (Threads \cap stack[Main]), NEW f \in Closures \ live, NEW u \in Upvals,
                    NEW x \in stack[th] \cup {Nil}, GCInv, MakeClosure(f, u, x, th)
             PROVE  GCInv'
  OBVIOUS
<1>1. /\ th \in Threads /\ th \in live /\ Lasts(th) /\ th \in Obj
      /\ \A y \in stack[th] : y \in Obj /\ y \notin Upvals /\ y \in live /\ Lasts(y)
      /\ \A v \in Upvals : open[v] = th => Lasts(val[v])
      /\ phase \in {"pause", "propagate", "sweepstring", "sweep", "finalize"}
  BY RunnerLasts DEF MakeClosure
<1>2. /\ (u \notin live) \/ (u \in live /\ open[u] = th /\ x = val[u])
      /\ live' = live \cup {f, u}
      /\ mark' = [mark EXCEPT ![f] = "white", ![u] = IF u \notin live \/ IsDead(u) THEN "white" ELSE @]
      /\ up' = [up EXCEPT ![f] = u]
      /\ open' = [open EXCEPT ![u] = th] /\ val' = [val EXCEPT ![u] = x]
      /\ stack' = [stack EXCEPT ![th] = @ \cup {f}]
      /\ UNCHANGED <<entry, meta, lists, finalized, Collector>>
  BY DEF MakeClosure, HoldsToo, OpenOn
<1>3. /\ GCTypes /\ Blank /\ Swept /\ Closed /\ Colours /\ (Marks => Linked /\ Atomic /\ BlackSees)
      /\ (Marks' <=> Marks) /\ (Sweeps' <=> Sweeps) /\ (Marks => ~Sweeps)
      /\ phase' = phase /\ sweeping' = sweeping /\ tmudata' = tmudata /\ full' = full
  BY <1>2 DEF GCInv, Sweeps, Marks, Collector
<1>4. /\ f \in Obj /\ u \in Obj /\ f # u /\ f \notin Upvals /\ f # th /\ u # th /\ th # Nil
      /\ x = Nil \/ (x \in Obj /\ x \notin Upvals)
  BY <1>1, HeapAssumption DEF HeapAssumption, Obj
<1>5. mark[f] = "white" /\ (u \notin live => mark[u] = "white" /\ open[u] = Nil)
  BY <1>3, <1>4 DEF Blank
<1>6. /\ mark' \in [Obj -> Colour]
      /\ \A y \in Obj : mark'[y] = mark[y] \/ (y = u /\ IsDead(u) /\ mark'[y] = "white")
      /\ mark'[u] # "dead"
  <2>1. mark \in [Obj -> Colour]
    BY <1>3 DEF GCTypes, GCTypeOK
  <2>2. \A y \in Obj : mark'[y] = IF y = u THEN (IF u \notin live \/ IsDead(u) THEN "white" ELSE mark[u])
                                  ELSE IF y = f THEN "white" ELSE mark[y]
    BY <1>2, <1>4, <2>1
  <2>3. mark' \in [Obj -> Colour]
    BY <1>2, <2>1, <2>2 DEF Colour
  <2> QED
    BY <1>4, <1>5, <2>2, <2>3 DEF IsDead
<1>7. /\ \A t \in Threads : stack'[t] = IF t = th THEN stack[th] \cup {f} ELSE stack[t]
      /\ \A v \in Upvals : open'[v] = (IF v = u THEN th ELSE open[v]) /\ val'[v] = (IF v = u THEN x ELSE val[v])
      /\ \A g \in Closures : up'[g] = IF g = f THEN u ELSE up[g]
  BY <1>2, <1>3 DEF GCTypes, GCTypeOK
<1>8. GCTypes'
  <2>1. stack' \in [Threads -> SUBSET (Obj \ Upvals)]
    BY <1>2, <1>3, <1>4 DEF GCTypes, GCTypeOK
  <2>2. /\ val' \in [Upvals -> (Obj \ Upvals) \cup {Nil}] /\ val' \in [Upvals -> Obj \cup {Nil}]
        /\ open' \in [Upvals -> Threads \cup {Nil}] /\ up' \in [Closures -> Upvals \cup {Nil}]
    BY <1>1, <1>2, <1>3, <1>4 DEF GCTypes, GCTypeOK
  <2>3. live' \subseteq Obj /\ Main \in live'
    BY <1>2, <1>3, <1>4 DEF GCTypes, GCTypeOK
  <2> QED
    BY <1>2, <1>3, <1>6, <2>1, <2>2, <2>3 DEF GCTypes, GCTypeOK
<1>9. Blank'
  <2>1. \A y \in Obj \ live' : mark'[y] = "white"
    BY <1>2, <1>3, <1>6 DEF Blank
  <2> QED
    BY <1>1, <1>2, <1>3, <1>7, <2>1 DEF Blank
<1>10. Colours'
  <2>1. \A y \in Obj \ Upvals : mark'[y] = mark[y]
    BY <1>6
  <2>2. Threads \cup WeakKeys \cup WeakValues \cup Udata \subseteq Obj \ Upvals /\ Upvals \subseteq Obj
    BY HeapAssumption DEF HeapAssumption, Obj
  <2>3. \A v \in Upvals : v = u \/ (mark'[v] = mark[v] /\ open'[v] = open[v])
    BY <1>6, <1>7, <2>2
  <2>4. mark'[u] = "black" => open'[u] = Nil
    BY <1>2, <1>3, <1>4, <1>5, <1>6 DEF Colours
  <2>5. mark'[u] = "gray" => open'[u] # Nil
    BY <1>4, <1>7
  <2> QED
    BY <1>3, <2>1, <2>2, <2>3, <2>4, <2>5 DEF Colours
<1>11. Swept'
  <2>1. u \notin sweeping
    BY <1>2, <1>3, <1>4 DEF Swept
  <2>2. \A y \in Obj : y # u => (Awaited(y)' <=> Awaited(y))
    BY <1>3, <1>7 DEF Awaited
  <2>3. \A y \in Obj : IsDead(y)' => IsDead(y) /\ y # u
    BY <1>6 DEF IsDead
  <2>4. mark'[u] = "white" \/ (u \in live /\ mark'[u] = mark[u] /\ (Awaited(u)' <=> Awaited(u)))
    BY <1>2, <1>3, <1>4, <1>5, <1>6, <1>7 DEF Awaited
  <2>5. \A y \in live' : y = u \/ mark'[y] = "white" \/ (y \in live /\ mark'[y] = mark[y] /\ (Awaited(y)' <=> Awaited(y)))
    BY <1>2, <1>4, <1>5, <1>6, <1>8, <2>2 DEF GCTypes, GCTypeOK
  <2>6. ~Marks => \A y \in live' : mark'[y] = "white" \/ y \in tmudata' \/ Awaited(y)'
    BY <1>3, <2>4, <2>5 DEF Swept
  <2>7. \A v \in Upvals : open'[v] # Nil => open'[v] \in live'
    BY <1>1, <1>2, <1>3, <1>7 DEF Swept
  <2>8. sweeping' \subseteq live' /\ tmudata' \subseteq live' /\ sweeping' \cap tmudata' = {}
        /\ \A v \in Upvals \cap sweeping' : open'[v] = Nil
    BY <1>2, <1>3, <1>7, <2>1 DEF Swept
  <2> QED
    BY <1>3, <2>2, <2>3, <2>6, <2>7, <2>8 DEF Swept
<1>12. \A y \in Obj \cup {Nil} : Lasts(y) => Lasts(y)'
  BY <1>2, <1>6 DEF Lasts, IsDead
<1>13. \A y \in Obj : y # f /\ y # u /\ Lasts(y)' => Lasts(y)
  BY <1>2, <1>6, HeapAssumption DEF Lasts, IsDead, HeapAssumption
<1>14. Lasts(f)' /\ Lasts(u)' /\ Lasts(x)
  BY <1>1, <1>2, <1>4, <1>5, <1>6 DEF Lasts, IsDead
<1>15. Closed'
  <2>1. \A t \in Threads : Lasts(t)' => /\ \A y \in stack'[t] : Lasts(y)'
                                        /\ \A v \in Upvals : open'[v] = t => Lasts(val[v])'
    <3> SUFFICES ASSUME NEW t \in Threads, Lasts(t)'
                 PROVE  /\ \A y \in stack'[t] : Lasts(y)'
                        /\ \A v \in Upvals : open'[v] = t => Lasts(val[v])'
      OBVIOUS
    <3>1. Lasts(t) /\ t \in Obj
      BY <1>13, HeapAssumption DEF HeapAssumption, Obj
    <3>2. \A y \in stack[t] : Lasts(y) /\ y \in Obj
      BY <1>3, <3>1 DEF Closed, GCTypes, GCTypeOK
    <3>3. \A y \in stack'[t] : Lasts(y)'
      BY <1>7, <1>12, <1>14, <3>2
    <3>4. \A v \in Upvals : open'[v] = t => Lasts(val'[v]) /\ val'[v] \in Obj \cup {Nil}
      BY <1>3, <1>4, <1>7, <1>14, <3>1 DEF Closed, GCTypes, GCTypeOK
    <3> QED
      BY <1>12, <3>3, <3>4
  <2>2. \A t \in Tables : Lasts(t)' /\ entry[t] # << >> => Lasts(entry[t][1])' /\ Lasts(entry[t][2])'
    <3> SUFFICES ASSUME NEW t \in Tables, Lasts(t)', entry[t] # << >>
                 PROVE  Lasts(entry[t][1])' /\ Lasts(entry[t][2])'
      OBVIOUS
    <3>1. Lasts(t)
      BY <1>13, HeapAssumption DEF HeapAssumption, Obj
    <3>2. /\ Lasts(entry[t][1]) /\ Lasts(entry[t][2]) /\ entry' = entry
          /\ entry[t][1] \in Obj \cup {Nil} /\ entry[t][2] \in Obj
      BY <1>2, <1>3, <3>1 DEF Closed, GCTypes, GCTypeOK
    <3> QED
      BY <1>12, <3>2
  <2>3. \A g \in Closures : Lasts(g)' => Lasts(up[g])'
    <3> SUFFICES ASSUME NEW g \in Closures, Lasts(g)' PROVE Lasts(up[g])'
      OBVIOUS
    <3>1. CASE g = f
      BY <1>7, <1>14, <3>1
    <3>2. CASE g # f
      <4>1. Lasts(g)
        BY <1>13, <3>2, HeapAssumption DEF HeapAssumption, Obj
      <4>2. Lasts(up[g]) /\ up[g] \in Obj \cup {Nil} /\ up'[g] = up[g]
        BY <1>3, <1>7, <3>2, <4>1 DEF Closed, GCTypes, GCTypeOK, Obj
      <4> QED
        BY <1>12, <4>2
    <3> QED
      BY <3>1, <3>2
  <2>4. \A v \in Upvals : Lasts(v)' => Lasts(val[v])'
    <3> SUFFICES ASSUME NEW v \in Upvals, Lasts(v)' PROVE Lasts(val[v])'
      OBVIOUS
    <3>1. CASE v = u
      BY <1>4, <1>7, <1>12, <1>14, <3>1
    <3>2. CASE v # u
      <4>1. Lasts(v)
        BY <1>4, <1>13, <3>2 DEF Obj
      <4>2. Lasts(val[v]) /\ val[v] \in Obj \cup {Nil} /\ val'[v] = val[v]
        BY <1>3, <1>7, <3>2, <4>1 DEF Closed, GCTypes, GCTypeOK
      <4> QED
        BY <1>12, <4>2
    <3> QED
      BY <3>1, <3>2
  <2>5. \A d \in Udata : Lasts(d)' => Lasts(meta[d])'
    <3> SUFFICES ASSUME NEW d \in Udata, Lasts(d)' PROVE Lasts(meta[d])'
      OBVIOUS
    <3>1. Lasts(d)
      BY <1>13, HeapAssumption DEF HeapAssumption, Obj
    <3>2. Lasts(meta[d]) /\ meta[d] \in Obj \cup {Nil} /\ meta' = meta
      BY <1>2, <1>3, <3>1 DEF Closed, GCTypes, GCTypeOK, Obj
    <3> QED
      BY <1>12, <3>2
  <2>6. Lasts(Main)' /\ (Marks => Seen(Main)')
    <3>1. Main \in Obj /\ Main # u
      BY HeapAssumption DEF HeapAssumption, Obj
    <3> QED
      BY <1>3, <1>6, <1>12, <3>1 DEF Closed, Seen, IsWhite
  <2> QED
    BY <1>3, <2>1, <2>2, <2>3, <2>4, <2>5, <2>6, <1>2 DEF Closed
<1>16. Marks => Linked' /\ Atomic' /\ BlackSees'
  <2> SUFFICES ASSUME Marks PROVE Linked' /\ Atomic' /\ BlackSees'
    OBVIOUS
  <2>1. mark' = mark
    <3>1. \A y \in Obj : mark'[y] = mark[y]
      BY <1>3, <1>6, NoneDead
    <3> QED
      BY <1>3, <1>6, <3>1 DEF GCTypes, GCTypeOK
  <2>2. Linked'
    <3>1. f \in Closures /\ mark[f] # "gray" /\ u \notin Tables \cup Closures \cup Threads
      BY <1>5, HeapAssumption DEF HeapAssumption
    <3> QED
      BY <1>2, <1>3, <2>1, <3>1 DEF Linked, lists
  <2>3. phase = "propagate"
    BY <1>1 DEF Marks
  <2>4. Atomic'
    BY <1>2, <1>3, <2>3 DEF Atomic, lists
  <2>5. mark[u] # "black" /\ mark[f] # "black"
    BY <1>2, <1>3, <1>4, <1>5 DEF Colours
  <2>6. \A y : Seen(y)' <=> Seen(y)
    BY <2>1 DEF Seen, IsWhite
  <2>7. \A t \in Tables : EntrySeen(t)' <=> EntrySeen(t)
    BY <1>2, <2>6 DEF EntrySeen
  <2>8. \A g \in Closures : mark[g] = "black" => up'[g] = up[g]
    BY <1>7, <2>5
  <2>9. \A v \in Upvals : mark[v] = "black" => val'[v] = val[v]
    BY <1>7, <2>5
  <2>10. BlackSees'
    <3>1. \A t \in Tables : mark'[t] = "black" => EntrySeen(t)'
      BY <1>3, <2>1, <2>7 DEF BlackSees
    <3>2. \A g \in Closures : mark'[g] = "black" => Seen(up[g])'
      BY <1>3, <2>1, <2>6, <2>8 DEF BlackSees
    <3>3. \A v \in Upvals : mark'[v] = "black" => Seen(val[v])'
      BY <1>3, <2>1, <2>6, <2>9 DEF BlackSees
    <3>4. \A d \in Udata : mark'[d] = "black" /\ (d \in tmudata' => phase' = "tm") => Seen(meta[d])'
      BY <1>2, <1>3, <2>1, <2>6 DEF BlackSees
    <3> QED
      BY <3>1, <3>2, <3>3, <3>4 DEF BlackSees
  <2> QED
    BY <2>2, <2>4, <2>10
<1> QED
  BY <1>3, <1>8, <1>9, <1>10, <1>11, <1>15, <1>16 DEF GCInv

(* What a barrier may do to the colours when an upvalue or a userdata o    *)
(* comes to hold v: others are marked, and o itself may change.            *)
Recoloured(o, v) ==
    /\ mark' \in [Obj -> Colour]
    /\ \A y \in Obj : y = o \/ mark'[y] = mark[y] \/
           /\ Marks /\ IsWhite(y) /\ y \in live /\ mark'[y] = MarkedAs(y)
           /\ y \in Upvals => Seen(val[y])'
           /\ y \in Udata => Seen(meta[y])'
    /\ mark'[o] = "dead" <=> mark[o] = "dead"
    /\ Marks => /\ (IsWhite(o)' <=> IsWhite(o))
                /\ mark'[o] = "black" => Seen(v)'
                /\ Linked'
    /\ o \in Udata => mark'[o] # "gray"
    /\ o \in Upvals => (mark'[o] = "black" => open'[o] = Nil) /\ (mark'[o] = "gray" => open'[o] # Nil)
    /\ ~Marks => mark'[o] = "white" \/ (mark'[o] = mark[o] /\ open' = open)

(* An upvalue or a userdata comes to hold what lasts, with its barrier.    *)
LEMMA HolderKeeps ==
    ASSUME GCInv, phase \in {"pause", "propagate", "sweepstring", "sweep", "finalize"},
           NEW o \in Upvals \cup Udata, o \in live, NEW v \in Obj \cup {Nil}, Lasts(v),
           UNCHANGED <<live, stack, entry, up, grayagain, weak, finalized, Collector>>,
           val' \in [Upvals -> (Obj \ Upvals) \cup {Nil}], open' \in [Upvals -> Threads \cup {Nil}],
           meta' \in [Udata -> Tables \cup {Nil}],
           \A u \in Upvals : u # o => val'[u] = val[u] /\ open'[u] = open[u],
           \A d \in Udata : d # o => meta'[d] = meta[d],
           o \in Upvals => val'[o] = v /\ (open'[o] = open[o] \/ open'[o] = Nil),
           o \in Udata => meta'[o] = v,
           Recoloured(o, v)
    PROVE  GCInv'
<1>1. /\ GCTypes /\ Blank /\ Swept /\ Closed /\ Colours /\ (Marks => Linked /\ Atomic /\ BlackSees)
      /\ (Marks' <=> Marks) /\ (Sweeps' <=> Sweeps) /\ (Marks => ~Sweeps)
      /\ phase' = phase /\ sweeping' = sweeping /\ tmudata' = tmudata /\ full' = full
  BY DEF GCInv, Sweeps, Marks, Collector
<1>2. /\ o \in Obj /\ o \notin Threads \cup Tables \cup Closures \cup Strings
      /\ Upvals \cap Udata = {}
      /\ Threads \cup Tables \cup Closures \cup Upvals \cup Udata \subseteq Obj
      /\ Upvals \cap (Threads \cup Tables \cup Closures \cup Udata) = {}
      /\ Udata \cap (Threads \cup Tables \cup Closures) = {}
      /\ Nil \notin Obj /\ Main \in Threads /\ WeakKeys \cup WeakValues \subseteq Tables
  BY HeapAssumption DEF HeapAssumption, Obj
<1>3. \A y \in Obj : y = o \/ mark'[y] = mark[y] \/
          /\ Marks /\ IsWhite(y) /\ y \in live /\ mark'[y] = MarkedAs(y)
          /\ y \in Upvals => Seen(val[y])'
          /\ y \in Udata => Seen(meta[y])'
  BY DEF Recoloured
<1>4. /\ mark' \in [Obj -> Colour] /\ (mark'[o] = "dead" <=> mark[o] = "dead")
      /\ o \in Udata => mark'[o] # "gray"
      /\ o \in Upvals => (mark'[o] = "black" => open'[o] = Nil) /\ (mark'[o] = "gray" => open'[o] # Nil)
      /\ ~Marks => mark'[o] = "white" \/ (mark'[o] = mark[o] /\ open' = open)
      /\ Marks => (IsWhite(o)' <=> IsWhite(o)) /\ (mark'[o] = "black" => Seen(v)') /\ Linked'
  BY DEF Recoloured
<1>5. \A y \in Obj : mark'[y] = "dead" <=> mark[y] = "dead"
  BY <1>1, <1>3, <1>4, NoneDead DEF MarkedAs, IsDead
<1>6. \A y \in Obj \cup {Nil} : Lasts(y)' <=> Lasts(y)
  BY <1>5 DEF Lasts, IsDead
<1>7. GCTypes'
  <2>1. val' \in [Upvals -> Obj \cup {Nil}]
    <3>1. \A u \in Upvals : val'[u] \in Obj \cup {Nil}
      OBVIOUS
    <3> QED
      BY <3>1
  <2> QED
    BY <1>1, <1>4, <2>1 DEF GCTypes, GCTypeOK
<1>8. Blank'
  BY <1>1, <1>2, <1>3 DEF Blank
<1>9. Colours'
  <2>1. \A y \in Threads \cup WeakKeys \cup WeakValues : mark'[y] # "black"
    BY <1>1, <1>2, <1>3 DEF Colours, MarkedAs
  <2>2. \A d \in Udata : mark'[d] # "gray"
    BY <1>1, <1>2, <1>3, <1>4 DEF Colours, MarkedAs
  <2>3. \A u \in Upvals : /\ mark'[u] = "black" => open'[u] = Nil
                          /\ mark'[u] = "gray" => open'[u] # Nil
    BY <1>1, <1>2, <1>3, <1>4 DEF Colours, MarkedAs
  <2> QED
    BY <2>1, <2>2, <2>3 DEF Colours
<1>10. Swept'
  <2>1. \A y \in Obj : y # o => (Awaited(y)' <=> Awaited(y))
    BY <1>1 DEF Awaited
  <2>2. ~Marks => \A y \in live : mark'[y] = "white" \/ (mark'[y] = mark[y] /\ (Awaited(y)' <=> Awaited(y)))
    BY <1>1, <1>3, <1>4, <2>1 DEF Awaited, GCTypes, GCTypeOK
  <2>3. \A y \in Obj : IsDead(y)' => Sweeps' /\ Awaited(y)'
    BY <1>1, <1>5, <2>2 DEF Swept, IsDead, Blank
  <2>4. ~Marks' => \A y \in live' : mark'[y] = "white" \/ y \in tmudata' \/ Awaited(y)'
    BY <1>1, <2>2 DEF Swept
  <2>5. \A u \in Upvals \cap sweeping' : open'[u] = Nil
    BY <1>1, <1>2 DEF Swept
  <2>6. \A u \in Upvals : open'[u] # Nil => open'[u] \in live'
    BY <1>1, <1>2 DEF Swept
  <2> QED
    BY <1>1, <2>3, <2>4, <2>5, <2>6 DEF Swept
<1>11. Closed'
  <2>1. \A th \in Threads : Lasts(th)' => /\ \A y \in stack[th] : Lasts(y)'
                                          /\ \A u \in Upvals : open'[u] = th => Lasts(val[u])'
    <3> SUFFICES ASSUME NEW th \in Threads, Lasts(th)
                 PROVE  /\ \A y \in stack[th] : Lasts(y)'
                        /\ \A u \in Upvals : open'[u] = th => Lasts(val[u])'
      BY <1>2, <1>6
    <3>1. \A y \in stack[th] : Lasts(y) /\ y \in Obj
      BY <1>1 DEF Closed, GCTypes, GCTypeOK
    <3>2. \A u \in Upvals : open'[u] = th => Lasts(val'[u]) /\ val'[u] \in Obj \cup {Nil}
      BY <1>1, <1>2 DEF Closed
    <3> QED
      BY <1>6, <3>1, <3>2
  <2>2. \A t \in Tables : Lasts(t)' /\ entry[t] # << >> => Lasts(entry[t][1])' /\ Lasts(entry[t][2])'
    <3> SUFFICES ASSUME NEW t \in Tables, Lasts(t), entry[t] # << >>
                 PROVE  Lasts(entry[t][1])' /\ Lasts(entry[t][2])'
      BY <1>2, <1>6
    <3>1. /\ Lasts(entry[t][1]) /\ Lasts(entry[t][2]) /\ entry' = entry
          /\ entry[t][1] \in Obj \cup {Nil} /\ entry[t][2] \in Obj
      BY <1>1 DEF Closed, GCTypes, GCTypeOK
    <3> QED
      BY <1>6, <3>1
  <2>3. \A f \in Closures : Lasts(f)' => Lasts(up[f])'
    <3> SUFFICES ASSUME NEW f \in Closures, Lasts(f) PROVE Lasts(up[f])'
      BY <1>2, <1>6
    <3>1. Lasts(up[f]) /\ up[f] \in Obj \cup {Nil} /\ up' = up
      BY <1>1 DEF Closed, GCTypes, GCTypeOK, Obj
    <3> QED
      BY <1>6, <3>1
  <2>4. \A u \in Upvals : Lasts(u)' => Lasts(val[u])'
    <3> SUFFICES ASSUME NEW u \in Upvals, Lasts(u) PROVE Lasts(val[u])'
      BY <1>2, <1>6
    <3>1. Lasts(val'[u]) /\ val'[u] \in Obj \cup {Nil}
      BY <1>1 DEF Closed
    <3> QED
      BY <1>6, <3>1
  <2>5. \A d \in Udata : Lasts(d)' => Lasts(meta[d])'
    <3> SUFFICES ASSUME NEW d \in Udata, Lasts(d) PROVE Lasts(meta[d])'
      BY <1>2, <1>6
    <3>1. Lasts(meta'[d]) /\ meta'[d] \in Obj \cup {Nil}
      BY <1>1, <1>2 DEF Closed
    <3> QED
      BY <1>6, <3>1
  <2>6. Lasts(Main)' /\ (Marks => Seen(Main)')
    <3>1. Main \in Obj /\ Main # o
      BY <1>2
    <3>2. Marks => mark'[Main] = mark[Main]
      BY <1>1, <1>2, <1>3, <3>1 DEF Closed, Seen
    <3> QED
      BY <1>1, <1>2, <1>6, <3>1, <3>2 DEF Closed, Seen, IsWhite
  <2> QED
    BY <1>1, <2>1, <2>2, <2>3, <2>4, <2>5, <2>6 DEF Closed
<1>12. Marks => Linked' /\ Atomic' /\ BlackSees'
  <2> SUFFICES ASSUME Marks PROVE Linked' /\ Atomic' /\ BlackSees'
    OBVIOUS
  <2>1. phase = "propagate"
    BY DEF Marks
  <2>2. Atomic'
    BY <1>1, <2>1 DEF Atomic
  <2>3. \A y \in Obj \cup {Nil} : Seen(y) => Seen(y)'
    <3>1. \A y \in Obj : ~IsWhite(y) => ~IsWhite(y)'
      BY <1>3, <1>4 DEF IsWhite
    <3> QED
      BY <1>2, <3>1 DEF Seen
  <2>4. \A t \in Tables : mark'[t] = "black" => EntrySeen(t)'
    <3> SUFFICES ASSUME NEW t \in Tables, mark'[t] = "black" PROVE EntrySeen(t)'
      OBVIOUS
    <3>1. mark[t] = "black"
      BY <1>2, <1>3 DEF MarkedAs
    <3>2. EntrySeen(t)
      BY <1>1, <3>1 DEF BlackSees
    <3>3. entry[t] # << >> => entry[t][1] \in Obj \cup {Nil} /\ entry[t][2] \in Obj
      BY <1>1 DEF GCTypes
    <3> QED
      BY <2>3, <3>2, <3>3 DEF EntrySeen
  <2>5. \A f \in Closures : mark'[f] = "black" => Seen(up[f])'
    <3> SUFFICES ASSUME NEW f \in Closures, mark'[f] = "black" PROVE Seen(up[f])'
      OBVIOUS
    <3>1. mark[f] = "black"
      BY <1>2, <1>3 DEF MarkedAs
    <3>2. Seen(up[f]) /\ up[f] \in Obj \cup {Nil}
      BY <1>1, <3>1 DEF BlackSees, GCTypes, GCTypeOK, Obj
    <3> QED
      BY <2>3, <3>2
  <2>6. \A u \in Upvals : mark'[u] = "black" => Seen(val[u])'
    <3> SUFFICES ASSUME NEW u \in Upvals, mark'[u] = "black" PROVE Seen(val[u])'
      OBVIOUS
    <3>1. CASE u = o
      BY <1>4, <3>1
    <3>2. CASE u # o /\ mark'[u] = mark[u]
      <4>1. Seen(val[u]) /\ val[u] \in Obj \cup {Nil} /\ val'[u] = val[u]
        BY <1>1, <3>2 DEF BlackSees, GCTypes, GCTypeOK
      <4> QED
        BY <2>3, <4>1
    <3> QED
      BY <1>2, <1>3, <3>1, <3>2
  <2>7. \A d \in Udata : mark'[d] = "black" /\ (d \in tmudata' => phase' = "tm") => Seen(meta[d])'
    <3> SUFFICES ASSUME NEW d \in Udata, mark'[d] = "black", d \in tmudata' => phase' = "tm"
                 PROVE  Seen(meta[d])'
      OBVIOUS
    <3>1. CASE d = o
      BY <1>4, <3>1
    <3>2. CASE d # o /\ mark'[d] = mark[d]
      <4>1. Seen(meta[d]) /\ meta[d] \in Obj \cup {Nil} /\ meta'[d] = meta[d]
        BY <1>1, <3>2 DEF BlackSees, GCTypes, GCTypeOK, Obj
      <4> QED
        BY <2>3, <4>1
    <3> QED
      BY <1>2, <1>3, <3>1, <3>2
  <2>8. BlackSees'
    BY <2>4, <2>5, <2>6, <2>7 DEF BlackSees
  <2> QED
    BY <1>4, <2>2, <2>8
<1> QED
  BY <1>1, <1>7, <1>8, <1>9, <1>10, <1>11, <1>12 DEF GCInv

(* The forward barrier, while marking: what o holds is marked, and o is    *)
(* black.                                                                  *)
LEMMA BarrierIs ==
    ASSUME GCInv, phase = "propagate", NEW o \in Upvals \cup Udata, o \in live, ~IsWhite(o),
           NEW v \in Obj, Lasts(v),
           mark' = [WithMarks({v}) EXCEPT ![o] = "black"],
           gray' = gray \cup Listed(Reached({v})),
           UNCHANGED <<live, grayagain, weak, phase>>,
           \A u \in Upvals : u # o => val'[u] = val[u],
           \A d \in Udata : d # o => meta'[d] = meta[d],
           o \in Upvals => open'[o] = Nil
    PROVE  Recoloured(o, v)
<1> DEFINE m == WithMarks({v})
<1>1. /\ GCTypes /\ Blank /\ Swept /\ Closed /\ Linked
      /\ Marks /\ Marks' /\ ~Sweeps
  BY DEF GCInv, Sweeps, Marks
<1>2. /\ o \in Obj /\ o \notin Listable /\ Nil \notin Obj
      /\ Upvals \cap Udata = {} /\ Upvals \cup Udata \cup Listable \subseteq Obj
  BY HeapAssumption DEF HeapAssumption, Obj, Listable
<1>3. {v} \in SUBSET live
  BY <1>2 DEF Lasts
<1>4. /\ m \in [Obj -> Colour]
      /\ \A y \in Obj : m[y] = IF y \in Reached({v}) THEN MarkedAs(y) ELSE mark[y]
      /\ \A y \in Obj : ~IsWhite(y) => m[y] = mark[y]
      /\ \A x \in {v} : m[x] \notin {"white", "dead"}
      /\ \A u \in Upvals \cap Reached({v}) : val[u] = Nil \/ m[val[u]] \notin {"white", "dead"}
      /\ \A d \in Udata \cap Reached({v}) : meta[d] = Nil \/ m[meta[d]] \notin {"white", "dead"}
  BY <1>1, <1>3, WithMarksIs
<1>5. Reached({v}) \subseteq live /\ \A y \in Reached({v}) : IsWhite(y)
  BY <1>1, <1>3, ReachedIs
<1>6. /\ {y \in live \cap Listable : m[y] = "gray"} = GrayOnes \cup Listed(Reached({v}))
      /\ \A y \in Listed(Reached({v})) : y \in Listable /\ IsWhite(y) /\ y \in live
  BY <1>1, <1>3, GrayedIs
<1> HIDE DEF m
<1>7. mark' = [m EXCEPT ![o] = "black"]
  BY DEF m
<1>8. mark' \in [Obj -> Colour]
  BY <1>2, <1>4, <1>7 DEF Colour
<1>9. mark'[o] = "black" /\ \A y \in Obj : y # o => mark'[y] = m[y]
  BY <1>2, <1>4, <1>7
<1>10. \A x \in Obj : m[x] \notin {"white", "dead"} => ~IsWhite(x)'
  BY <1>9 DEF IsWhite
<1>11. \A y \in Obj : y = o \/ mark'[y] = mark[y] \/
           /\ Marks /\ IsWhite(y) /\ y \in live /\ mark'[y] = MarkedAs(y)
           /\ y \in Upvals => Seen(val[y])'
           /\ y \in Udata => Seen(meta[y])'
  <2> SUFFICES ASSUME NEW y \in Obj, y # o, mark'[y] # mark[y]
               PROVE  /\ IsWhite(y) /\ y \in live /\ mark'[y] = MarkedAs(y)
                      /\ y \in Upvals => Seen(val[y])'
                      /\ y \in Udata => Seen(meta[y])'
    BY <1>1
  <2>1. y \in Reached({v}) /\ mark'[y] = MarkedAs(y)
    BY <1>4, <1>9
  <2>2. y \in Upvals => Seen(val[y])'
    <3> SUFFICES ASSUME y \in Upvals PROVE Seen(val[y])'
      OBVIOUS
    <3>1. val'[y] = val[y] /\ (val[y] = Nil \/ (val[y] \in Obj /\ m[val[y]] \notin {"white", "dead"}))
      BY <1>1, <1>4, <2>1 DEF GCTypes, GCTypeOK
    <3> QED
      BY <1>10, <3>1 DEF Seen
  <2>3. y \in Udata => Seen(meta[y])'
    <3> SUFFICES ASSUME y \in Udata PROVE Seen(meta[y])'
      OBVIOUS
    <3>1. meta'[y] = meta[y] /\ (meta[y] = Nil \/ (meta[y] \in Obj /\ m[meta[y]] \notin {"white", "dead"}))
      BY <1>1, <1>4, <2>1 DEF GCTypes, GCTypeOK, Obj
    <3> QED
      BY <1>10, <3>1 DEF Seen
  <2> QED
    BY <1>5, <2>1, <2>2, <2>3
<1>12. Seen(v)'
  BY <1>4, <1>10 DEF Seen
<1>13. Linked'
  <2>1. /\ gray \cap grayagain = {} /\ gray \cap weak = {} /\ grayagain \cap weak = {}
        /\ gray \cup grayagain \cup weak = GrayOnes
    BY <1>1 DEF Linked, GrayOnes, Listable
  <2>2. {y \in live' \cap Listable : mark'[y] = "gray"} = GrayOnes \cup Listed(Reached({v}))
    BY <1>2, <1>6, <1>9
  <2>3. \A y \in GrayOnes : y \notin Listed(Reached({v}))
    BY <1>6 DEF GrayOnes, IsWhite
  <2> QED
    BY <2>1, <2>2, <2>3 DEF Linked, Listable
<1>14. ~IsWhite(o)' /\ mark[o] # "dead"
  BY <1>9 DEF IsWhite
<1> QED
  BY <1>1, <1>2, <1>8, <1>9, <1>11, <1>12, <1>13, <1>14 DEF Recoloured

(* The barrier recolours, whatever the colour of the object and the phase. *)
LEMMA BarrierRecolours ==
    ASSUME GCInv, phase \in {"pause", "propagate", "sweepstring", "sweep", "finalize"},
           NEW o \in Upvals \cup Udata, o \in live, NEW v \in Obj \cup {Nil}, Lasts(v),
           NEW colour, Barrier(o, colour, {v} \ {Nil}),
           \/ colour = mark[o]
           \/ phase = "propagate" /\ mark[o] = "gray" /\ colour = "black",
           UNCHANGED <<live, grayagain, weak, phase>>,
           \A u \in Upvals : u # o => val'[u] = val[u],
           \A d \in Udata : d # o => meta'[d] = meta[d],
           phase # "propagate" => open' = open,
           o \in Upvals => (colour = "black" => open'[o] = Nil) /\ (colour = "gray" => open'[o] # Nil)
    PROVE  Recoloured(o, v)
<1>1. /\ GCTypes /\ Colours /\ (Marks => Linked) /\ (Marks' <=> Marks) /\ (Marks <=> phase = "propagate")
      /\ o \in Obj /\ o \notin Listable /\ Nil \notin Obj /\ Upvals \cap Udata = {}
      /\ mark[o] \in Colour
  BY HeapAssumption DEF HeapAssumption, Obj, Listable, GCInv, Marks, GCTypes, GCTypeOK
<1>2. CASE colour = "black" /\ WhiteIn({v} \ {Nil}) # {} /\ phase = "propagate"
  <2>1. v # Nil /\ {v} \ {Nil} = {v}
    BY <1>2 DEF WhiteIn
  <2>2. /\ mark' = [WithMarks({v}) EXCEPT ![o] = "black"]
        /\ gray' = gray \cup Listed(Reached({v}))
    BY <1>2, <2>1 DEF Barrier
  <2>3. v \in Obj /\ ~IsWhite(o) /\ (o \in Upvals => open'[o] = Nil)
    BY <1>2, <2>1 DEF IsWhite
  <2> QED
    BY <1>2, <2>2, <2>3, BarrierIs
<1>3. CASE colour = "black" /\ WhiteIn({v} \ {Nil}) # {} /\ phase # "propagate"
  <2>1. mark[o] = "black" /\ mark' = [mark EXCEPT ![o] = "white"] /\ open' = open
    BY <1>3 DEF Barrier
  <2>2. mark' \in [Obj -> Colour] /\ mark'[o] = "white" /\ \A y \in Obj : y # o => mark'[y] = mark[y]
    BY <1>1, <2>1 DEF GCTypes, GCTypeOK, Colour
  <2> QED
    BY <1>1, <1>3, <2>1, <2>2 DEF Recoloured
<1>4. CASE ~(colour = "black" /\ WhiteIn({v} \ {Nil}) # {})
  <2>1. mark' = [mark EXCEPT ![o] = colour] /\ gray' = gray
    BY <1>4 DEF Barrier
  <2>2. colour \in Colour
    BY <1>1 DEF Colour
  <2>3. mark' \in [Obj -> Colour] /\ mark'[o] = colour /\ \A y \in Obj : y # o => mark'[y] = mark[y]
    BY <1>1, <2>1, <2>2 DEF GCTypes, GCTypeOK
  <2>4. Marks => Linked'
    <3>1. live' = live /\ {y \in live' \cap Listable : mark'[y] = "gray"} = {y \in live \cap Listable : mark[y] = "gray"}
      BY <1>1, <2>3 DEF GCTypes, GCTypeOK
    <3> QED
      BY <1>1, <2>1, <3>1 DEF Linked, Listable
  <2>5. colour = "black" => v = Nil \/ (v # o /\ ~IsWhite(v)) \/ v = o
    BY <1>4 DEF WhiteIn
  <2>6. mark'[o] = "black" => Seen(v)'
    BY <2>3, <2>5 DEF Seen, IsWhite
  <2>7. (mark'[o] = "dead" <=> mark[o] = "dead") /\ (IsWhite(o)' <=> IsWhite(o))
    BY <2>3 DEF IsWhite
  <2>8. o \in Udata => mark'[o] # "gray"
    BY <1>1, <2>3 DEF Colours
  <2> QED
    BY <1>1, <2>3, <2>4, <2>6, <2>7, <2>8 DEF Recoloured
<1> QED
  BY <1>2, <1>3, <1>4

(* The assignment to an upvalue.                                           *)
LEMMA SetUpvalKeeps ==
    \A th \in {Main} \cup (Threads \cap stack[Main]) : \A x \in stack[th], u \in Upvals \cap live :
        GCInv /\ SetUpval(u, x, th) => GCInv'
<1> SUFFICES ASSUME NEW th \in {Main} \cup (Threads \cap stack[Main]), NEW x \in stack[th],
                    NEW u \in Upvals \cap live, GCInv, SetUpval(u, x, th)
             PROVE  GCInv'
  OBVIOUS
<1>1. /\ \A y \in stack[th] : y \in Obj /\ y \notin Upvals /\ y \in live /\ Lasts(y)
      /\ phase \in {"pause", "propagate", "sweepstring", "sweep", "finalize"}
  BY RunnerLasts DEF SetUpval
<1>2. /\ x \in Obj /\ x \notin Upvals /\ Lasts(x) /\ Nil \notin Obj /\ {x} \ {Nil} = {x}
      /\ u \in Obj /\ u \notin Udata
  BY <1>1, HeapAssumption DEF HeapAssumption, Obj
<1>3. /\ val' = [val EXCEPT ![u] = x] /\ Barrier(u, mark[u], {x} \ {Nil})
      /\ UNCHANGED <<live, stack, entry, open, up, meta, grayagain, weak, finalized, Collector>>
      /\ phase' = phase
  BY <1>2 DEF SetUpval, Collector
<1>4. /\ GCTypes /\ (mark[u] = "black" => open'[u] = Nil) /\ (mark[u] = "gray" => open'[u] # Nil)
  BY <1>3 DEF GCInv, Colours
<1>5. /\ val' \in [Upvals -> (Obj \ Upvals) \cup {Nil}] /\ open' \in [Upvals -> Threads \cup {Nil}]
      /\ meta' \in [Udata -> Tables \cup {Nil}]
      /\ val'[u] = x /\ \A w \in Upvals : w # u => val'[w] = val[w]
  BY <1>2, <1>3, <1>4 DEF GCTypes, GCTypeOK
<1>6. Recoloured(u, x)
  BY <1>1, <1>2, <1>3, <1>4, <1>5, BarrierRecolours
<1> QED
  BY <1>1, <1>2, <1>3, <1>5, <1>6, HolderKeeps

(* A userdata gets a metatable or an environment.                          *)
LEMMA SetMetaKeeps ==
    \A th \in {Main} \cup (Threads \cap stack[Main]) : \A x \in stack[th], d \in Udata \cap stack[th] :
        GCInv /\ SetMeta(d, x, th) => GCInv'
<1> SUFFICES ASSUME NEW th \in {Main} \cup (Threads \cap stack[Main]), NEW x \in stack[th],
                    NEW d \in Udata \cap stack[th], GCInv, SetMeta(d, x, th)
             PROVE  GCInv'
  OBVIOUS
<1>1. /\ \A y \in stack[th] : y \in Obj /\ y \notin Upvals /\ y \in live /\ Lasts(y)
      /\ phase \in {"pause", "propagate", "sweepstring", "sweep", "finalize"}
  BY RunnerLasts DEF SetMeta
<1>2. /\ x \in Obj /\ x \in Tables /\ Lasts(x) /\ Nil \notin Obj /\ {x} \ {Nil} = {x}
      /\ d \in Obj /\ d \in live /\ d \notin Upvals
  BY <1>1, HeapAssumption DEF HeapAssumption, Obj, SetMeta
<1>3. /\ meta' = [meta EXCEPT ![d] = x] /\ Barrier(d, mark[d], {x} \ {Nil})
      /\ UNCHANGED <<live, stack, entry, val, open, up, grayagain, weak, finalized, Collector>>
      /\ phase' = phase
  BY <1>2 DEF SetMeta, Collector
<1>4. GCTypes
  BY DEF GCInv
<1>5. /\ val' \in [Upvals -> (Obj \ Upvals) \cup {Nil}] /\ open' \in [Upvals -> Threads \cup {Nil}]
      /\ meta' \in [Udata -> Tables \cup {Nil}]
      /\ meta'[d] = x /\ \A w \in Udata : w # d => meta'[w] = meta[w]
  BY <1>2, <1>3, <1>4 DEF GCTypes, GCTypeOK
<1>6. Recoloured(d, x)
  BY <1>1, <1>2, <1>3, <1>5, BarrierRecolours
<1> QED
  BY <1>1, <1>2, <1>3, <1>5, <1>6, HolderKeeps

(* A dead upvalue of a thread that lasts is freed when it is closed.       *)
LEMMA CloseDeadKeeps ==
    \A th \in {Main} \cup (Threads \cap stack[Main]) : \A u \in OpenOn(th) :
        GCInv /\ IsDead(u) /\ CloseUpval(u, th) => GCInv'
<1> SUFFICES ASSUME NEW th \in {Main} \cup (Threads \cap stack[Main]), NEW u \in OpenOn(th),
                    GCInv, IsDead(u), CloseUpval(u, th)
             PROVE  GCInv'
  OBVIOUS
<1>1. /\ u \in Upvals /\ u \in live /\ u \in Obj /\ open[u] = th /\ mark[u] = "dead" /\ th # Nil /\ u # Nil
      /\ u \notin Threads \cup Tables \cup Closures \cup Udata /\ Main \in Threads /\ Nil \notin Obj
      /\ Threads \cup Tables \cup Closures \cup Upvals \cup Udata \subseteq Obj
  <2>1. th \in Threads
    BY RunnerLasts DEF CloseUpval
  <2> QED
    BY <2>1, HeapAssumption DEF HeapAssumption, Obj, OpenOn, IsDead
<1>2. /\ live' = live \ {u} /\ val' = [val EXCEPT ![u] = Nil] /\ mark' = [mark EXCEPT ![u] = "white"]
      /\ open' = [open EXCEPT ![u] = Nil] /\ phase' = phase /\ gray' = gray
      /\ UNCHANGED <<stack, entry, up, meta, grayagain, weak, finalized, sweeping, tmudata, full>>
  BY DEF CloseUpval, Collector
<1>3. GCTypes /\ Blank /\ Colours /\ Swept /\ Closed
  BY DEF GCInv
<1>4. /\ mark' \in [Obj -> Colour] /\ mark'[u] = "white" /\ \A y \in Obj : y # u => mark'[y] = mark[y]
      /\ val' \in [Upvals -> (Obj \ Upvals) \cup {Nil}] /\ val'[u] = Nil
      /\ \A w \in Upvals : w # u => val'[w] = val[w]
      /\ open' \in [Upvals -> Threads \cup {Nil}] /\ open'[u] = Nil
      /\ \A w \in Upvals : w # u => open'[w] = open[w]
  BY <1>1, <1>2, <1>3 DEF GCTypes, GCTypeOK, Colour
<1>5. \A y \in Obj \cup {Nil} : Lasts(y)' <=> Lasts(y)
  BY <1>1, <1>2, <1>4 DEF Lasts, IsDead
<1>6. GCTypes'
  <2>1. val' \in [Upvals -> Obj \cup {Nil}]
    <3>1. \A w \in Upvals : val'[w] \in Obj \cup {Nil}
      BY <1>4
    <3> QED
      BY <1>4, <3>1
  <2>2. live' \subseteq Obj /\ Main \in live'
    BY <1>1, <1>2, <1>3 DEF GCTypes, GCTypeOK
  <2> QED
    BY <1>2, <1>3, <1>4, <2>1, <2>2 DEF GCTypes, GCTypeOK
<1>7. Blank'
  BY <1>1, <1>2, <1>3, <1>4 DEF Blank
<1>8. Colours'
  <2>1. \A y \in Threads \cup WeakKeys \cup WeakValues : mark'[y] # "black"
    BY <1>1, <1>3, <1>4, HeapAssumption DEF Colours, HeapAssumption
  <2> QED
    BY <1>1, <1>3, <1>4, <2>1 DEF Colours
<1>9. Sweeps /\ Sweeps' /\ ~Marks /\ ~Marks'
  BY <1>1, <1>2, <1>3 DEF Swept, IsDead, Sweeps, Marks
<1>10. Swept'
  <2>1. u \notin sweeping /\ u \notin tmudata
    BY <1>1, <1>3 DEF Swept, GCTypes, GCTypeOK
  <2>2. \A y \in Obj : y # u => (Awaited(y)' <=> Awaited(y))
    BY <1>2, <1>4 DEF Awaited
  <2>3. \A y \in Obj : IsDead(y)' => Sweeps' /\ Awaited(y)'
    BY <1>3, <1>4, <1>9, <2>2 DEF Swept, IsDead
  <2>4. \A y \in live' : mark'[y] = "white" \/ y \in tmudata' \/ Awaited(y)'
    BY <1>2, <1>3, <1>4, <1>9, <2>2 DEF Swept, GCTypes, GCTypeOK
  <2>5. /\ sweeping' \subseteq live' /\ tmudata' \subseteq live' /\ sweeping' \cap tmudata' = {}
        /\ \A w \in Upvals \cap sweeping' : open'[w] = Nil
    BY <1>2, <1>3, <1>4, <2>1 DEF Swept
  <2>6. \A w \in Upvals : open'[w] # Nil => open'[w] \in live'
    BY <1>1, <1>2, <1>3, <1>4 DEF Swept, GCTypes, GCTypeOK
  <2> QED
    BY <1>2, <1>3, <1>9, <2>3, <2>4, <2>5, <2>6 DEF Swept
<1>11. Closed'
  <2>1. \A t \in Threads : Lasts(t)' => /\ \A y \in stack[t] : Lasts(y)'
                                        /\ \A w \in Upvals : open'[w] = t => Lasts(val[w])'
    <3> SUFFICES ASSUME NEW t \in Threads, Lasts(t)
                 PROVE  /\ \A y \in stack[t] : Lasts(y)'
                        /\ \A w \in Upvals : open'[w] = t => Lasts(val[w])'
      BY <1>1, <1>2, <1>5
    <3>1. \A y \in stack[t] : Lasts(y) /\ y \in Obj
      BY <1>3 DEF Closed, GCTypes, GCTypeOK
    <3>2. \A w \in Upvals : open'[w] = t => Lasts(val'[w]) /\ val'[w] \in Obj \cup {Nil}
      BY <1>1, <1>3, <1>4 DEF Closed
    <3> QED
      BY <1>5, <3>1, <3>2
  <2>2. \A t \in Tables : Lasts(t)' /\ entry[t] # << >> => Lasts(entry[t][1])' /\ Lasts(entry[t][2])'
    <3> SUFFICES ASSUME NEW t \in Tables, Lasts(t), entry[t] # << >>
                 PROVE  Lasts(entry[t][1])' /\ Lasts(entry[t][2])'
      BY <1>1, <1>5
    <3>1. /\ Lasts(entry[t][1]) /\ Lasts(entry[t][2]) /\ entry' = entry
          /\ entry[t][1] \in Obj \cup {Nil} /\ entry[t][2] \in Obj
      BY <1>2, <1>3 DEF Closed, GCTypes, GCTypeOK
    <3> QED
      BY <1>5, <3>1
  <2>3. \A f \in Closures : Lasts(f)' => Lasts(up[f])'
    <3> SUFFICES ASSUME NEW f \in Closures, Lasts(f) PROVE Lasts(up[f])'
      BY <1>1, <1>5
    <3>1. Lasts(up[f]) /\ up[f] \in Obj \cup {Nil} /\ up' = up
      BY <1>2, <1>3 DEF Closed, GCTypes, GCTypeOK, Obj
    <3> QED
      BY <1>5, <3>1
  <2>4. \A w \in Upvals : Lasts(w)' => Lasts(val[w])'
    <3> SUFFICES ASSUME NEW w \in Upvals, Lasts(w) PROVE Lasts(val[w])'
      BY <1>1, <1>5
    <3>1. w # u
      BY <1>1 DEF Lasts, IsDead
    <3>2. Lasts(val[w]) /\ val'[w] = val[w] /\ val[w] \in Obj \cup {Nil}
      BY <1>3, <1>4, <3>1 DEF Closed, GCTypes, GCTypeOK
    <3> QED
      BY <1>5, <3>2
  <2>5. \A d \in Udata : Lasts(d)' => Lasts(meta[d])'
    <3> SUFFICES ASSUME NEW d \in Udata, Lasts(d) PROVE Lasts(meta[d])'
      BY <1>1, <1>5
    <3>1. Lasts(meta[d]) /\ meta' = meta /\ meta[d] \in Obj \cup {Nil}
      BY <1>2, <1>3 DEF Closed, GCTypes, GCTypeOK, Obj
    <3> QED
      BY <1>5, <3>1
  <2> QED
    BY <1>1, <1>2, <1>3, <1>5, <1>9, <2>1, <2>2, <2>3, <2>4, <2>5 DEF Closed
<1> QED
  BY <1>6, <1>7, <1>8, <1>9, <1>10, <1>11 DEF GCInv

(* An upvalue is closed.                                                   *)
LEMMA CloseUpvalKeeps ==
    \A th \in {Main} \cup (Threads \cap stack[Main]) : \A u \in OpenOn(th) :
        GCInv /\ CloseUpval(u, th) => GCInv'
<1> SUFFICES ASSUME NEW th \in {Main} \cup (Threads \cap stack[Main]), NEW u \in OpenOn(th),
                    GCInv, ~IsDead(u), CloseUpval(u, th)
             PROVE  GCInv'
  BY CloseDeadKeeps
<1> DEFINE v == val[u]
<1>1. /\ u \in Upvals /\ u \in live /\ u \in Obj /\ open[u] = th /\ th \in Threads /\ Nil \notin Threads
      /\ u \notin Udata /\ u \notin Listable
      /\ phase \in {"pause", "propagate", "sweepstring", "sweep", "finalize"}
      /\ Lasts(v)
  <2>1. u \in Upvals /\ u \in live /\ open[u] = th
    BY DEF OpenOn
  <2>2. /\ th \in Threads /\ \A w \in Upvals : open[w] = th => Lasts(val[w])
        /\ phase \in {"pause", "propagate", "sweepstring", "sweep", "finalize"}
    BY RunnerLasts DEF CloseUpval
  <2> QED
    BY <2>1, <2>2, HeapAssumption DEF HeapAssumption, Obj, Listable
<1>2. /\ GCTypes /\ Colours /\ (Marks => Linked) /\ (Marks <=> phase = "propagate")
      /\ v \in Obj \cup {Nil}
  BY <1>1 DEF GCInv, Marks, GCTypes, GCTypeOK
<1>3. /\ open' = [open EXCEPT ![u] = Nil] /\ phase' = phase
      /\ UNCHANGED <<live, val, stack, entry, up, meta, grayagain, weak, finalized, Collector>>
      /\ IF mark[u] # "gray" THEN UNCHANGED <<mark, gray>>
         ELSE IF phase = "propagate" THEN Barrier(u, "black", {v} \ {Nil})
         ELSE mark' = [mark EXCEPT ![u] = "white"] /\ UNCHANGED gray
  BY DEF CloseUpval, Collector
<1>4. /\ val' \in [Upvals -> (Obj \ Upvals) \cup {Nil}] /\ open' \in [Upvals -> Threads \cup {Nil}]
      /\ meta' \in [Udata -> Tables \cup {Nil}]
      /\ val'[u] = v /\ open'[u] = Nil /\ \A w \in Upvals : w # u => val'[w] = val[w] /\ open'[w] = open[w]
  BY <1>1, <1>2, <1>3 DEF GCTypes, GCTypeOK
<1> HIDE DEF v
<1>5. Recoloured(u, v)
  <2>1. CASE mark[u] # "gray"
    <3>1. mark[u] = "white" /\ mark' = mark /\ gray' = gray
      BY <1>1, <1>2, <1>3, <2>1 DEF Colours, GCTypes, GCTypeOK, Colour, IsDead
    <3>2. Marks' <=> Marks
      BY <1>3 DEF Marks
    <3>3. Marks => Linked'
      BY <1>2, <1>3, <3>1, <3>2 DEF Linked
    <3> QED
      BY <1>1, <1>2, <3>1, <3>3 DEF Recoloured, IsWhite, GCTypes, GCTypeOK
  <2>2. CASE mark[u] = "gray" /\ phase = "propagate"
    BY <1>1, <1>2, <1>3, <1>4, <2>2, BarrierRecolours
  <2>3. CASE mark[u] = "gray" /\ phase # "propagate"
    <3>1. mark' = [mark EXCEPT ![u] = "white"] /\ mark[u] = "gray"
      BY <1>3, <2>3
    <3>2. mark' \in [Obj -> Colour] /\ mark'[u] = "white" /\ \A y \in Obj : y # u => mark'[y] = mark[y]
      BY <1>1, <1>2, <3>1 DEF GCTypes, GCTypeOK, Colour
    <3> QED
      BY <1>1, <1>2, <2>3, <3>1, <3>2 DEF Recoloured
  <2> QED
    BY <2>1, <2>2, <2>3
<1> QED
  BY <1>1, <1>2, <1>3, <1>4, <1>5, HolderKeeps

-----------------------------------------------------------------------------
(* A new state holds the main thread, white and with an empty stack.       *)
LEMMA GCStarts == GCInit => GCInv
<1> SUFFICES ASSUME GCInit PROVE GCInv
  OBVIOUS
<1>1. /\ Main \in Obj /\ Main \in Threads /\ Finalized0 \subseteq Udata /\ Nil \notin Obj
      /\ WeakKeys \cup WeakValues \subseteq Tables /\ Nil \notin Threads
      /\ Threads \cup Tables \cup Closures \cup Upvals \cup Udata \subseteq Obj
      /\ Upvals \cap Threads = {}
  BY HeapAssumption DEF HeapAssumption, Obj
<1>2. /\ live = {Main} /\ mark = [o \in Obj |-> "white"]
      /\ stack = [th \in Threads |-> {}] /\ entry = [t \in Tables |-> << >>]
      /\ val = [u \in Upvals |-> Nil] /\ open = [u \in Upvals |-> Nil]
      /\ up = [f \in Closures |-> Nil] /\ meta = [d \in Udata |-> Nil]
      /\ phase = "pause" /\ sweeping = {} /\ tmudata = {} /\ finalized = Finalized0 /\ full = "no"
  BY DEF GCInit
<1>3. /\ \A o \in Obj : mark[o] = "white"
      /\ \A th \in Threads : stack[th] = {}
      /\ \A t \in Tables : entry[t] = << >>
      /\ \A u \in Upvals : val[u] = Nil /\ open[u] = Nil
      /\ \A f \in Closures : up[f] = Nil
      /\ \A d \in Udata : meta[d] = Nil
  BY <1>2
<1>4. ~Marks /\ ~Sweeps
  BY <1>2 DEF Marks, Sweeps
<1>5. GCTypes
  <2>1. mark \in [Obj -> Colour] /\ stack \in [Threads -> SUBSET (Obj \ Upvals)]
    BY <1>2 DEF Colour
  <2>2. /\ entry \in [Tables -> {<< >>} \cup ((Obj \cup {Nil}) \X Obj)]
        /\ entry \in [Tables -> {<< >>} \cup (((Obj \ Upvals) \cup {Nil}) \X (Obj \ Upvals))]
    BY <1>2
  <2>3. /\ val \in [Upvals -> Obj \cup {Nil}] /\ val \in [Upvals -> (Obj \ Upvals) \cup {Nil}]
        /\ open \in [Upvals -> Threads \cup {Nil}] /\ up \in [Closures -> Upvals \cup {Nil}]
        /\ meta \in [Udata -> Tables \cup {Nil}]
    BY <1>2
  <2> QED
    BY <1>1, <1>2, <2>1, <2>2, <2>3 DEF GCTypes, GCTypeOK
<1>6. Blank
  BY <1>1, <1>3 DEF Blank
<1>7. Colours
  BY <1>1, <1>3 DEF Colours
<1>8. Swept
  BY <1>1, <1>2, <1>3, <1>4 DEF Swept, IsDead
<1>9. Closed
  <2>1. Lasts(Main) /\ Lasts(Nil)
    BY <1>1, <1>2, <1>3 DEF Lasts, IsDead
  <2> QED
    BY <1>3, <1>4, <2>1 DEF Closed
<1> QED
  BY <1>4, <1>5, <1>6, <1>7, <1>8, <1>9 DEF GCInv

(* Nothing changes.                                                        *)
LEMMA GCStutters == GCInv /\ UNCHANGED gcVars => GCInv'
<1> SUFFICES ASSUME GCInv, UNCHANGED gcVars PROVE GCInv'
  OBVIOUS
<1>1. /\ live' = live /\ mark' = mark /\ stack' = stack /\ entry' = entry /\ val' = val /\ open' = open
      /\ up' = up /\ meta' = meta /\ phase' = phase /\ gray' = gray /\ grayagain' = grayagain
      /\ weak' = weak /\ sweeping' = sweeping /\ tmudata' = tmudata /\ finalized' = finalized
      /\ full' = full
  BY DEF gcVars, heap, lists
<1>2. \A x : (Seen(x)' <=> Seen(x)) /\ (Lasts(x)' <=> Lasts(x)) /\ (Awaited(x)' <=> Awaited(x))
  BY <1>1 DEF Seen, Lasts, Awaited, IsWhite, IsDead
<1>3. (Marks' <=> Marks) /\ (Sweeps' <=> Sweeps)
  BY <1>1 DEF Marks, Sweeps
<1>4. GCTypes' /\ Blank' /\ Colours'
  BY <1>1 DEF GCInv, GCTypes, GCTypeOK, Blank, Colours
<1>5. Swept'
  BY <1>1, <1>2, <1>3 DEF GCInv, Swept, IsDead
<1>6. Closed'
  BY <1>1, <1>2, <1>3 DEF GCInv, Closed
<1>7. Marks => Linked' /\ Atomic' /\ BlackSees'
  BY <1>1, <1>2, <1>3 DEF GCInv, Linked, Atomic, BlackSees, EntrySeen, SlotsSeen
<1> QED
  BY <1>3, <1>4, <1>5, <1>6, <1>7 DEF GCInv

(* Every step of the collector and of a script keeps the invariant.        *)
LEMMA GCSteps == GCInv /\ [GCNext]_gcVars => GCInv'
<1> SUFFICES ASSUME GCInv, [GCNext]_gcVars PROVE GCInv'
  OBVIOUS
<1>1. CASE Collect
  BY <1>1, MarkRootKeeps, PropagateKeeps, SweepKeeps, AtomicRemarkKeeps, AtomicWeakKeeps, AtomicAgainKeeps,
     AtomicUdataKeeps, FlipKeeps, SweepEndsKeeps, CallFinalizerKeeps DEF Collect
<1>2. CASE FullGC
  BY <1>2, FullGCKeeps
<1>3. CASE Mutate
  <2>1. PICK th \in {Main} \cup (Threads \cap stack[Main]) :
            \/ \E o \in Obj \ live : New(o, th)
            \/ \E s \in Strings \cap live : Intern(s, th)
            \/ \E u \in OpenOn(th) : CloseUpval(u, th)
            \/ \E x \in stack[th] :
                  \/ Drop(x, th)
                  \/ \E u \in Upvals \cap live : SetUpval(u, x, th)
                  \/ \E t \in Tables \cap stack[th] :
                         StoreNil(t, th) \/ \E k \in stack[th] \cup {Nil} : Store(t, k, x, th)
                  \/ \E d \in Udata \cap stack[th] : SetMeta(d, x, th)
            \/ \E o \in stack[th] \cup {th}, x \in live : Read(o, x, th)
            \/ \E x \in stack[Main] \cup {th} : Resume(th, x)
            \/ \E f \in Closures \ live, u \in Upvals, x \in stack[th] \cup {Nil} : MakeClosure(f, u, x, th)
    BY <1>3 DEF Mutate
  <2>2. CASE \E o \in Obj \ live : New(o, th)
    BY <2>2, NewKeeps
  <2>3. CASE \E s \in Strings \cap live : Intern(s, th)
    BY <2>3, InternKeeps
  <2>4. CASE \E u \in OpenOn(th) : CloseUpval(u, th)
    BY <2>4, CloseUpvalKeeps
  <2>5. CASE \E x \in stack[th] : Drop(x, th)
    BY <2>5, DropKeeps
  <2>6. CASE \E x \in stack[th] : \E u \in Upvals \cap live : SetUpval(u, x, th)
    BY <2>6, SetUpvalKeeps
  <2>7. CASE \E x \in stack[th] : \E t \in Tables \cap stack[th] : StoreNil(t, th)
    BY <2>7, StoreNilKeeps
  <2>8. CASE \E x \in stack[th] : \E t \in Tables \cap stack[th] : \E k \in stack[th] \cup {Nil} : Store(t, k, x, th)
    BY <2>8, StoreKeeps
  <2>9. CASE \E x \in stack[th] : \E d \in Udata \cap stack[th] : SetMeta(d, x, th)
    BY <2>9, SetMetaKeeps
  <2>10. CASE \E o \in stack[th] \cup {th}, x \in live : Read(o, x, th)
    BY <2>10, ReadKeeps
  <2>11. CASE \E x \in stack[Main] \cup {th} : Resume(th, x)
    BY <2>11, ResumeKeeps
  <2>12. CASE \E f \in Closures \ live, u \in Upvals, x \in stack[th] \cup {Nil} : MakeClosure(f, u, x, th)
    BY <2>12, MakeClosureKeeps
  <2> QED
    BY <2>1, <2>2, <2>3, <2>4, <2>5, <2>6, <2>7, <2>8, <2>9, <2>10, <2>11, <2>12
<1>4. CASE UNCHANGED gcVars
  BY <1>4, GCStutters
<1> QED
  BY <1>1, <1>2, <1>3, <1>4 DEF GCNext

(* The inductive invariant of the collector and the scripts.               *)
THEOREM CollectorInvariant == GCSpec => []GCInv
  BY GCStarts, GCSteps, PTL DEF GCSpec

(* The heap and the collector's state keep their types.                    *)
THEOREM CollectorTypes == GCSpec => []GCTypeOK
<1>1. GCInv => GCTypeOK
  BY DEF GCInv, GCTypes
<1> QED
  BY <1>1, CollectorInvariant, PTL

(* While the collector marks, every gray table, closure and thread is in   *)
(* exactly one of its lists: none is lost and none is linked twice.        *)
THEOREM GrayAreLinked == GCSpec => []Linked
<1>1. GCInv => Linked
  BY DEF GCInv, Linked
<1> QED
  BY <1>1, CollectorInvariant, PTL

(* No black object refers to a white one: the barriers make good whatever  *)
(* the scripts do to the heap between two steps of the marking.            *)
THEOREM BlackNeverSeesWhite == GCSpec => []BlackSeesNoWhite
<1>1. GCInv => BlackSeesNoWhite
  <2> SUFFICES ASSUME GCInv, Marks, NEW o \in live, mark[o] = "black", o \in tmudata => phase = "tm",
                      NEW x \in Strong(o)
               PROVE  ~IsWhite(x)
    BY DEF BlackSeesNoWhite
  <2>1. o \in Obj /\ BlackSees /\ Colours
    BY DEF GCInv, GCTypes, GCTypeOK
  <2>2. CASE o \in Threads
    BY <2>1, <2>2 DEF Colours
  <2>3. CASE o \in Tables
    BY <2>1, <2>3, StrongOfTable DEF BlackSees, EntrySeen, Seen
  <2>4. CASE o \in Closures
    BY <2>1, <2>4, RefsByKind DEF BlackSees, Seen
  <2>5. CASE o \in Upvals
    BY <2>1, <2>5, RefsByKind DEF BlackSees, Seen
  <2>6. CASE o \in Udata
    BY <2>1, <2>6, RefsByKind DEF BlackSees, Seen
  <2>7. CASE o \in Strings
    BY <2>7, RefsByKind
  <2> QED
    BY <2>1, <2>2, <2>3, <2>4, <2>5, <2>6, <2>7 DEF Obj
<1> QED
  BY <1>1, CollectorInvariant, PTL

(* A cycle begins with every object in the current white.                  *)
THEOREM CycleStartsWhite == GCSpec => []WhiteAtPause
<1>1. GCInv => WhiteAtPause
  <2> SUFFICES ASSUME GCInv, phase = "pause", NEW o \in live PROVE mark[o] = "white"
    BY DEF WhiteAtPause
  <2>1. Swept /\ sweeping = {} /\ tmudata = {} /\ ~Marks /\ o \in Obj
    BY DEF GCInv, GCTypes, GCTypeOK, Swept, Sweeps, Marks
  <2>2. ~Awaited(o)
    <3>1. o \in Upvals => open[o] \notin sweeping
      BY <2>1
    <3> QED
      BY <2>1, <3>1 DEF Awaited
  <2> QED
    BY <2>1, <2>2 DEF Swept
<1> QED
  BY <1>1, CollectorInvariant, PTL

(* What is not dead refers only to allocated objects that are not dead: no *)
(* script comes to memory that was freed.                                  *)
THEOREM NothingDangles == GCSpec => []NoDangling
<1>1. GCInv => NoDangling
  <2> SUFFICES ASSUME GCInv, NEW o \in live, ~(Sweeps /\ IsDead(o)), NEW x \in Refs(o)
               PROVE  x \in live /\ ~(Sweeps /\ IsDead(x))
    BY DEF NoDangling
  <2>1. GCTypes /\ Closed /\ Swept /\ o \in Obj
    BY DEF GCInv, GCTypes, GCTypeOK
  <2>2. Lasts(o)
    BY <2>1 DEF Swept, Lasts
  <2>3. x # Nil /\ Lasts(x)
    BY <2>1, <2>2, RefsLast
  <2> QED
    BY <2>3 DEF Lasts
<1> QED
  BY <1>1, CollectorInvariant, PTL

=============================================================================
