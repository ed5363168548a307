--------------------------- MODULE BrowserObject ---------------------------
(***************************************************************************)
(* The browser control inside the authorization window                     *)
(* (src/netdisk4tc/webbrowser/cwebpage.c): who holds a reference to which  *)
(* of the control's interfaces, and the block of memory through which the  *)
(* control calls back.  AuthProc (ui.c) embeds, sizes and releases it,     *)
(* wp_explorer (wrapper.c) shows a page; DisplayHTMLStr, WaitOnReadyState  *)
(* and DoPageAction are what cwebpage.h offers besides, for any moment     *)
(* between two messages.  WaitOnReadyState dispatches messages itself, so  *)
(* the window can be sized or destroyed below it.                          *)
(***************************************************************************)
EXTENDS SequencesExt, FiniteSetsExt

CONSTANT MaxMoves       \* bound: changes of position while a call begins

ASSUME BrowserAssumption == MaxMoves \in Nat

VARIABLES
    window,     \* "none", "creating", "open", "doomed" (WM_CREATE failed), "gone"
    userdata,   \* GWL_USERDATA points to the block
    block,      \* the memory of the client site: "none", "held", "freed"
    site,       \* the browser has been given the client site
    refs,       \* references the plugin holds, by interface
    page,       \* the page: "none", "loading", "complete", "stopped"
    calls,      \* the calls in progress that take more than one step
    moves,      \* history: calls of InPlace_OnPosRectChange
    rc          \* history: what EmbedBrowserObject returned

vars == <<window, userdata, block, site, refs, page, calls, moves, rc>>

Interface == {"web", "ole", "inplace", "doc", "disp"}

Obtain(r, i) == [r EXCEPT ![i] = @ + 1]
Release(r, i) == [r EXCEPT ![i] = @ - 1]

IsWindow == window \in {"creating", "open", "doomed"}

(* InPlace_OnPosRectChange, n times: the IOleInPlaceObject it asks for is  *)
(* not released.                                                           *)
Moved(r, n) == [r EXCEPT !["inplace"] = @ + n]
Moves(n) == moves <= MaxMoves /\ moves' = moves + n

(* GetWebPtrs for the document: the browser and its IDispatch are let go.  *)
DocPtr(r, found) ==
    LET web  == Obtain(r, "web")
        doc  == IF found = "doc" THEN Obtain(Obtain(web, "disp"), "doc") ELSE Obtain(web, "disp")
        disp == IF found = "no dispatch" THEN web ELSE Release(doc, "disp")
    IN  Release(disp, "web")

Top == Last(calls)
Step(op) == IF calls = << >> THEN FALSE ELSE Top.op = op
At(op, pc) == IF Step(op) THEN Top.pc = pc ELSE FALSE
Goto(pc) == calls' = [calls EXCEPT ![Len(calls)].pc = pc]
Ends == calls' = Front(calls)

Init ==
    /\ window = "none" /\ userdata = FALSE /\ block = "none" /\ site = FALSE
    /\ refs = [i \in Interface |-> 0] /\ page = "none"
    /\ calls = << >> /\ moves = 0 /\ rc = 1

-----------------------------------------------------------------------------
(* EmbedBrowserObject, in WM_CREATE                                        *)

Create ==
    /\ window = "none"
    /\ window' = "creating"
    /\ calls' = <<[op |-> "embed", pc |-> "alloc"]>>
    /\ UNCHANGED <<userdata, block, site, refs, page, moves, rc>>

(* AuthProc answers -1 when the call fails, and the window is destroyed.   *)
EmbedReturns(code) ==
    /\ rc' = code
    /\ window' = IF code = 0 THEN "open" ELSE "doomed"
    /\ Ends

(* UnEmbedBrowserObject.  Mutants: the block goes too; the pointer stays.  *)
UnEmbed_FreesBlock(r) ==
    IF userdata
    THEN refs' = Release(r, "ole") /\ userdata' = FALSE /\ block' = "freed"
    ELSE refs' = r /\ UNCHANGED <<userdata, block>>

UnEmbed_KeepsPointer(r) ==
    IF userdata
    THEN refs' = Release(r, "ole") /\ UNCHANGED <<userdata, block>>
    ELSE refs' = r /\ UNCHANGED <<userdata, block>>

UnEmbed(r) ==
    IF userdata
    THEN refs' = Release(r, "ole") /\ userdata' = FALSE /\ UNCHANGED block
    ELSE refs' = r /\ UNCHANGED <<userdata, block>>

EmbedAllocates ==
    /\ At("embed", "alloc")
    /\ \/ EmbedReturns(-1) /\ UNCHANGED block
       \/ block' = "held" /\ Goto("create") /\ UNCHANGED <<window, rc>>
    /\ UNCHANGED <<userdata, site, refs, page, moves>>

EmbedCreates ==
    /\ At("embed", "create")
    /\ \/ block' = "freed" /\ EmbedReturns(-2) /\ UNCHANGED refs
       \/ refs' = Obtain(refs, "web") /\ Goto("ole") /\ UNCHANGED <<window, rc, block>>
    /\ UNCHANGED <<userdata, site, page, moves>>

EmbedAsksOle ==
    /\ At("embed", "ole")
    /\ \/ /\ refs' = Release(refs, "web") /\ block' = "freed"
          /\ EmbedReturns(-3) /\ UNCHANGED userdata
       \/ /\ refs' = Obtain(refs, "ole") /\ userdata' = TRUE
          /\ Goto("site") /\ UNCHANGED <<window, rc, block>>
    /\ UNCHANGED <<site, page, moves>>

EmbedUndoes == UnEmbed(Release(refs, "web")) /\ EmbedReturns(-4)

EmbedSetsSite ==
    /\ At("embed", "site")
    /\ \/ EmbedUndoes /\ UNCHANGED site
       \/ site' = TRUE /\ Goto("verb") /\ UNCHANGED <<window, rc, userdata, block, refs>>
    /\ UNCHANGED <<page, moves>>

(* DoVerb, and the four calls that place the browser in the window.        *)
EmbedActivates ==
    /\ At("embed", "verb")
    /\ \/ EmbedUndoes /\ UNCHANGED moves
       \/ \E n \in 0 .. 4 :
             /\ refs' = Release(Moved(refs, n), "web") /\ Moves(n)
             /\ EmbedReturns(0) /\ UNCHANGED <<userdata, block>>
    /\ UNCHANGED <<site, page>>

-----------------------------------------------------------------------------
(* Messages: dispatched between two calls or in the loop of a wait.        *)

Dispatching == calls = << >> \/ At("str", "pump") \/ At("wait", "pump")

(* WM_DESTROY.                                                             *)
Destroy ==
    /\ window \in {"open", "doomed"} /\ Dispatching
    /\ UnEmbed(refs)
    /\ window' = "gone"
    /\ UNCHANGED <<site, page, calls, moves, rc>>

(* WM_SIZE: ResizeBrowser sets width and height.                           *)
Resize ==
    /\ window = "open" /\ Dispatching
    /\ \E n \in 0 .. 2 :
          /\ refs' = Release(Moved(Obtain(refs, "web"), n), "web")
          /\ Moves(n)
    /\ UNCHANGED <<window, userdata, block, site, page, calls, rc>>

PageLoads ==
    /\ page = "loading"
    /\ page' = "complete"
    /\ UNCHANGED <<window, userdata, block, site, refs, calls, moves, rc>>

-----------------------------------------------------------------------------
(* The calls that show something.  GetWebPtrs fails for a window that is   *)
(* gone, and the call with it.                                             *)

MayCall == calls = << >> /\ window = "open"

(* DisplayHTMLPage, when the name cannot be made a BSTR and otherwise.     *)
DisplayPage ==
    /\ MayCall
    /\ \/ refs' = Release(Obtain(refs, "web"), "web") /\ UNCHANGED page
       \/ refs' = Release(Obtain(refs, "web"), "web") /\ page' = "loading"
    /\ UNCHANGED <<window, userdata, block, site, calls, moves, rc>>

(* DoPageAction; a refresh falls through into the case that stops it.      *)
PageAction ==
    /\ MayCall
    /\ refs' = Release(Obtain(refs, "web"), "web")
    /\ page' \in {"loading", "stopped"}
    /\ UNCHANGED <<window, userdata, block, site, calls, moves, rc>>

(* DisplayHTMLStr navigates to the empty page and waits for it.            *)
StrBegins ==
    /\ MayCall
    /\ refs' = Obtain(refs, "web")
    /\ page' = "loading"
    /\ calls' = <<[op |-> "str", pc |-> "ready"]>>
    /\ UNCHANGED <<window, userdata, block, site, moves, rc>>

(* WaitOnReadyState without a browser of the caller's: releaseOnComplete.  *)
WaitBegins ==
    /\ MayCall
    /\ refs' = Obtain(refs, "web")
    /\ calls' = <<[op |-> "wait", pc |-> "ready"]>>
    /\ UNCHANGED <<window, userdata, block, site, page, moves, rc>>

Ready == page = "complete"

Waits ==
    /\ (At("str", "ready") \/ At("wait", "ready"))
    /\ ~Ready
    /\ Goto("pump")
    /\ UNCHANGED <<window, userdata, block, site, refs, page, moves, rc>>

(* The wait of WaitOnReadyState itself: success, the window destroyed,     *)
(* the time over.                                                          *)
WaitReturns ==
    /\ (At("wait", "ready") /\ Ready) \/ At("wait", "pump")
    /\ refs' = Release(refs, "web")
    /\ Ends
    /\ UNCHANGED <<window, userdata, block, site, page, moves, rc>>

(* After WORS_SUCCESS or WORS_TIMEOUT the document is asked for.           *)
StrAsksDoc ==
    /\ (At("str", "ready") /\ Ready) \/ (At("str", "pump") /\ IsWindow)
    /\ \E found \in {"doc", "no doc", "no dispatch"} :
          /\ refs' = DocPtr(refs, found)
          /\ IF found = "doc" THEN Goto("write") ELSE Goto("end")
    /\ UNCHANGED <<window, userdata, block, site, page, moves, rc>>

StrDestroyed ==
    /\ At("str", "pump") /\ ~IsWindow
    /\ Goto("end")
    /\ UNCHANGED <<window, userdata, block, site, refs, page, moves, rc>>

(* The string is written, or one of its three allocations fails.           *)
StrWrites ==
    /\ At("str", "write")
    /\ refs' = Release(refs, "doc")
    /\ Goto("end")
    /\ UNCHANGED <<window, userdata, block, site, page, moves, rc>>

StrEnds ==
    /\ At("str", "end")
    /\ refs' = Release(refs, "web")
    /\ Ends
    /\ UNCHANGED <<window, userdata, block, site, page, moves, rc>>

Next ==
    \/ Create
    \/ EmbedAllocates \/ EmbedCreates \/ EmbedAsksOle \/ EmbedSetsSite \/ EmbedActivates
    \/ Destroy \/ Resize \/ PageLoads
    \/ DisplayPage \/ PageAction
    \/ StrBegins \/ WaitBegins \/ Waits \/ WaitReturns
    \/ StrAsksDoc \/ StrDestroyed \/ StrWrites \/ StrEnds

Spec == Init /\ [][Next]_vars

-----------------------------------------------------------------------------
(* Every variable keeps to its type (cwebpage.c, EmbedBrowserObject's      *)
(* locals).                                                                *)
TypeOK ==
    /\ window \in {"none", "creating", "open", "doomed", "gone"}
    /\ block \in {"none", "held", "freed"} /\ {userdata, site} \subseteq BOOLEAN
    /\ refs \in [Interface -> Nat] /\ moves \in Nat
    /\ page \in {"none", "loading", "complete", "stopped"}
    /\ calls \in Seq([op : {"embed", "str", "wait"},
                      pc : {"alloc", "create", "ole", "site", "verb", "ready", "pump", "write", "end"}])
    /\ rc \in -4 .. 1

(* Every reference is accounted for (cwebpage.c:2244-2383, 1883-1905):     *)
(* between two calls the window holds the control once, from a successful  *)
(* embedding to its destruction, and nothing else is held but one          *)
(* IOleInPlaceObject for each change of position.  The block is given back *)
(* when no control could be made, and stays when one was, also after -4.   *)
ReferencesBalance ==
    /\ refs["inplace"] = moves
    /\ window = "open" => userdata
    /\ calls = << >> =>
          /\ refs["web"] = 0 /\ refs["doc"] = 0 /\ refs["disp"] = 0
          /\ refs["ole"] = IF userdata THEN 1 ELSE 0
          /\ userdata <=> window = "open"
          /\ rc # 1 => (block = "held" <=> rc \in {0, -4})

(* As long as any reference keeps the browser alive it may call back       *)
(* through the client site it was given, so that memory must be there -    *)
(* also when the window is destroyed under a call that waits.              *)
SiteOutlivesBrowser ==
    site /\ (\E i \in Interface : refs[i] > 0) => block = "held"
=============================================================================
