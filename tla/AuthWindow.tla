----------------------------- MODULE AuthWindow -----------------------------
(***************************************************************************)
(* The authorization window: wp_explorer (src/netdisk4tc/wrapper.c) runs a *)
(* message loop of its own until the window it made is destroyed, AuthProc *)
(* (ui.c) answers the window's messages, UI_TranslateUrl                   *)
(* (webbrowser/cwebpage.c) posts the page's answer.  All of it is one      *)
(* thread; what interleaves is what the user, the page and the browser do, *)
(* and a loop can be entered again from a message it dispatches.           *)
(*                                                                         *)
(* The thread's queue holds posted messages; WM_QUIT is a flag that        *)
(* GetMessage looks at when no posted message is left, input comes last.   *)
(***************************************************************************)
EXTENDS SequencesExt, Selection

CONSTANTS Win,          \* window handles, each used once
          Url,          \* addresses of URL strings of the browser, each used once
          NULL,
          Garbage,      \* what is read from a string that has been freed
          MaxDepth,     \* bound: calls of wp_explorer inside one another
          MaxQueue,     \* bound: posted messages when the page answers
          MaxErrors     \* bound: windows and calls that errors leave without the other

ASSUME AuthAssumption ==
    /\ {NULL, Garbage} \cap (Win \cup Url) = {} /\ NULL # Garbage
    /\ MaxDepth \in Nat /\ MaxQueue \in Nat /\ MaxErrors \in Nat

VARIABLES
    frames,     \* the running calls of wp_explorer, innermost last
    window,     \* state of each window: "none", "open", "blank", "gone"
    queue,      \* posted messages of the plugin's windows
    quit,       \* WM_QUIT is pending
    enabled,    \* the host's window accepts input
    host,       \* the host's own message loop runs
    freed,      \* URL strings the browser has freed
    answers,    \* history: the answers of each window's page, in order
    returned,   \* history: what the last call of wp_explorer returned, and where
    adrift,     \* history: windows made without a loop, and loops left without WM_QUIT
    left,       \* history: an error has left the host's window disabled, for no call to enable
    missed,     \* history: windows whose token another message loop has taken
    nested      \* history: a call has begun inside another one

vars == <<frames, window, queue, quit, enabled, host, freed, answers, returned,
          adrift, left, missed, nested>>

Msg(m, w, u) == [msg |-> m, win |-> w, url |-> u]

(* A call: its window (NULL when CreateWindowEx failed), the window it     *)
(* disabled, and tmp, the token.                                           *)
Frame(w, p) == [win |-> w, parent |-> p, tmp |-> NULL]

Open == {w \in Win : window[w] \in {"open", "blank"}}
Used == UNION {Range(answers[w]) : w \in Win}
Top == Last(frames)

Init ==
    /\ frames = << >> /\ queue = << >> /\ quit = FALSE
    /\ window = [w \in Win |-> "none"]
    /\ enabled = TRUE /\ host = "up" /\ freed = {}
    /\ answers = [w \in Win |-> << >>]
    /\ returned = NULL /\ nested = FALSE
    /\ adrift = 0 /\ left = FALSE /\ missed = {}

-----------------------------------------------------------------------------
(* wp_explorer up to its loop.  A parameter that is missing stays on the   *)
(* Lua stack as nil, and the next lua_getfield raises an error there.      *)

CanCall == host = "up" /\ Len(frames) < MaxDepth

(* GetActiveWindow: the host's window, or another one or none.             *)
Disable(p) == enabled' = (enabled /\ ~p)

Enter(f) ==
    /\ frames' = Append(frames, f)
    /\ nested' = (nested \/ frames # << >>)

(* The window is made, with a page to show, or blank for want of "url".    *)
Explore(w, p, page) ==
    /\ CanCall /\ window[w] = "none"
    /\ window' = [window EXCEPT ![w] = page]
    /\ Enter(Frame(w, p))
    /\ Disable(p)
    /\ UNCHANGED <<queue, quit, host, freed, answers, returned, adrift, left, missed>>

(* EmbedBrowserObject fails: WM_CREATE answers -1, the window gets         *)
(* WM_DESTROY, and AuthProc posts WM_QUIT.                                 *)
ExploreNoBrowser(p) ==
    /\ CanCall
    /\ Enter(Frame(NULL, p))
    /\ quit' = TRUE
    /\ Disable(p)
    /\ UNCHANGED <<window, queue, host, freed, answers, returned, adrift, left, missed>>

(* CreateWindowEx fails by itself: the loop starts all the same.           *)
ExploreNoWindow(p) ==
    /\ CanCall
    /\ Enter(Frame(NULL, p))
    /\ Disable(p)
    /\ UNCHANGED <<window, queue, quit, host, freed, answers, returned, adrift, left, missed>>

(* No "height": the error leaves the host's window disabled.               *)
NoHeight(p) ==
    /\ CanCall
    /\ Disable(p) /\ left' = (left \/ p)
    /\ UNCHANGED <<frames, window, queue, quit, host, freed, answers, returned, adrift, missed, nested>>

(* No "title": the window is there, and no loop of the plugin's.           *)
NoTitle(w, p) ==
    /\ CanCall /\ window[w] = "none" /\ adrift < MaxErrors
    /\ window' = [window EXCEPT ![w] = "blank"]
    /\ adrift' = adrift + 1
    /\ Disable(p) /\ left' = (left \/ p)
    /\ UNCHANGED <<frames, queue, quit, host, freed, answers, returned, missed, nested>>

(* A listing that the host begins from a message of the innermost loop     *)
(* raises an error outside of a lua_pcall of its own: the error goes to    *)
(* the lua_pcall of the script that called wp_explorer, and the call is    *)
(* left as it stands, without EnableWindow and with its window open.       *)
Unwind ==
    /\ host = "up" /\ frames # << >> /\ adrift < MaxErrors
    /\ frames' = Front(frames)
    /\ adrift' = adrift + 1
    /\ left' = (left \/ Top.parent)
    /\ UNCHANGED <<window, queue, quit, enabled, host, freed, answers, returned, missed, nested>>

-----------------------------------------------------------------------------
(* The page and the browser                                                *)

(* UI_TranslateUrl for an app: link: the address of the browser's own      *)
(* string goes into the message.                                           *)
TranslateUrl(w, u) ==
    /\ host = "up" /\ window[w] = "open" /\ u \notin Used
    /\ Len(queue) < MaxQueue
    /\ queue' = Append(queue, Msg("WM_APP", w, u))
    /\ answers' = [answers EXCEPT ![w] = Append(@, u)]
    /\ UNCHANGED <<frames, window, quit, enabled, host, freed, returned, adrift, left, missed, nested>>

(* The browser owns the string and frees it after the call.                *)
BrowserFrees(u) ==
    /\ u \in Used \ freed
    /\ freed' = freed \cup {u}
    /\ UNCHANGED <<frames, window, queue, quit, enabled, host, answers, returned, adrift, left, missed, nested>>

-----------------------------------------------------------------------------
(* The message loop: the innermost wp_explorer's, or else the host's       *)

(* Mutant: the window is closed before its answer is posted.               *)
OnApp_ClosesFirst ==
    /\ host = "up" /\ queue # << >> /\ Head(queue).msg = "WM_APP"
    /\ queue' = Tail(queue) \o <<Msg("WM_CLOSE", Head(queue).win, NULL),
                                 Msg("WM_USER_AUTHTOKENDATA", Head(queue).win, Head(queue).url)>>
    /\ UNCHANGED <<frames, window, quit, enabled, host, freed, answers, returned, adrift, left, missed, nested>>

OnApp ==
    /\ host = "up" /\ queue # << >> /\ Head(queue).msg = "WM_APP"
    /\ queue' = Tail(queue) \o <<Msg("WM_USER_AUTHTOKENDATA", Head(queue).win, Head(queue).url),
                                 Msg("WM_CLOSE", Head(queue).win, NULL)>>
    /\ UNCHANGED <<frames, window, quit, enabled, host, freed, answers, returned, adrift, left, missed, nested>>

(* What wtoc makes of the string at u now: a copy.                         *)
Text(u) == [of |-> u]
Texts == {Text(u) : u \in Url} \cup {Garbage}
Read(u) == IF u \in freed THEN Garbage ELSE Text(u)

(* Mutant: the loop is left as soon as there is a token.                   *)
OnToken_Leaves ==
    /\ host = "up" /\ queue # << >> /\ Head(queue).msg = "WM_USER_AUTHTOKENDATA"
    /\ queue' = Tail(queue)
    /\ IF frames = << >> THEN UNCHANGED <<frames, enabled, left, returned>>
       ELSE /\ frames' = Front(frames)
            /\ enabled' = (enabled \/ Top.parent) /\ left' = (left /\ ~Top.parent)
            /\ returned' = [win |-> Top.win, token |-> Read(Head(queue).url)]
    /\ UNCHANGED <<window, quit, host, freed, answers, adrift, missed, nested>>

(* The loop takes the message whichever window it was posted to; an        *)
(* earlier token is overwritten.  The host's loop ignores it.              *)
OnToken ==
    /\ host = "up" /\ queue # << >> /\ Head(queue).msg = "WM_USER_AUTHTOKENDATA"
    /\ queue' = Tail(queue)
    /\ frames' = IF frames = << >> THEN frames
                 ELSE [frames EXCEPT ![Len(frames)].tmp = Read(Head(queue).url)]
    /\ UNCHANGED <<window, quit, enabled, host, freed, answers, returned, adrift, left, missed, nested>>

(* A message loop inside wp_explorer's own (a window being dragged, an     *)
(* alert of the page, a message box of the host) dispatches the message    *)
(* to the window, where it does nothing.                                   *)
OnTokenElsewhere ==
    /\ host = "up" /\ frames # << >>
    /\ queue # << >> /\ Head(queue).msg = "WM_USER_AUTHTOKENDATA"
    /\ queue' = Tail(queue)
    /\ missed' = missed \cup {Head(queue).win}
    /\ UNCHANGED <<frames, window, quit, enabled, host, freed, answers, returned, adrift, left, nested>>

(* Mutant: the window's destruction does not post WM_QUIT.                 *)
Destroy_NoQuit(w) ==
    /\ window' = [window EXCEPT ![w] = "gone"]
    /\ queue' = Selected(queue, {i \in DOMAIN queue : queue[i].win # w})
    /\ quit' = quit
    /\ UNCHANGED <<frames, enabled, host, freed, answers, returned, adrift, left, missed, nested>>

(* DefWindowProc destroys the window on WM_CLOSE; the messages still       *)
(* posted to it go with it, WM_DESTROY posts WM_QUIT.                      *)
Destroy(w) ==
    /\ window' = [window EXCEPT ![w] = "gone"]
    /\ queue' = Selected(queue, {i \in DOMAIN queue : queue[i].win # w})
    /\ quit' = TRUE
    /\ UNCHANGED <<frames, enabled, host, freed, answers, returned, adrift, left, missed, nested>>

OnClose ==
    /\ host = "up" /\ queue # << >> /\ Head(queue).msg = "WM_CLOSE"
    /\ Destroy(Head(queue).win)

(* The user closes the window: input, after everything that is posted.     *)
UserCloses(w) == host = "up" /\ queue = << >> /\ ~quit /\ w \in Open /\ Destroy(w)

(* Mutant: the host's window stays disabled when there is no token.        *)
OnQuit_EnablesWithToken ==
    /\ host = "up" /\ queue = << >> /\ quit /\ frames # << >>
    /\ quit' = FALSE
    /\ frames' = Front(frames)
    /\ enabled' = (enabled \/ (Top.parent /\ Top.tmp # NULL)) /\ left' = (left /\ ~Top.parent)
    /\ returned' = [win |-> Top.win, token |-> Top.tmp]
    /\ UNCHANGED <<window, queue, host, freed, answers, adrift, missed, nested>>

(* GetMessage answers 0: the innermost call returns its token, or nil.     *)
OnQuit ==
    /\ host = "up" /\ queue = << >> /\ quit /\ frames # << >>
    /\ quit' = FALSE
    /\ frames' = Front(frames)
    /\ enabled' = (enabled \/ Top.parent) /\ left' = (left /\ ~Top.parent)
    /\ returned' = [win |-> Top.win, token |-> Top.tmp]
    /\ UNCHANGED <<window, queue, host, freed, answers, adrift, missed, nested>>

(* No loop of the plugin's runs: the WM_QUIT is the host's, and ends it.   *)
HostQuits ==
    /\ host = "up" /\ queue = << >> /\ quit /\ frames = << >>
    /\ host' = "ended" /\ quit' = FALSE
    /\ UNCHANGED <<frames, window, queue, enabled, freed, answers, returned, adrift, left, missed, nested>>

-----------------------------------------------------------------------------
Loop == OnApp \/ OnToken \/ OnTokenElsewhere \/ OnClose \/ OnQuit \/ HostQuits

Script(p) ==
    \/ \E w \in Win : NoTitle(w, p) \/ \E page \in {"open", "blank"} : Explore(w, p, page)
    \/ ExploreNoBrowser(p) \/ ExploreNoWindow(p) \/ NoHeight(p)

Next ==
    \/ Loop
    \/ \E p \in BOOLEAN : Script(p)
    \/ Unwind
    \/ \E w \in Win, u \in Url : TranslateUrl(w, u)
    \/ \E u \in Url : BrowserFrees(u)
    \/ \E w \in Win : UserCloses(w)

Spec == Init /\ [][Next]_vars

(* A loop goes on while there is a message.  Nothing obliges the user or   *)
(* the page to do anything.                                                *)
FairSpec == Spec /\ WF_vars(Loop)

-----------------------------------------------------------------------------
(* Properties                                                              *)

Calls == [win : Win \cup {NULL}, parent : BOOLEAN, tmp : Texts \cup {NULL}]

Messages == [msg : {"WM_APP", "WM_USER_AUTHTOKENDATA", "WM_CLOSE"},
             win : Win, url : Url \cup {NULL}]

Results == [win : Win \cup {NULL}, token : Texts \cup {NULL}]

(* Every variable keeps to its type (wrapper.c:58-65, ui.c:77-104).        *)
TypeOK ==
    /\ frames \in Seq(Calls) /\ Len(frames) <= MaxDepth
    /\ window \in [Win -> {"none", "open", "blank", "gone"}]
    /\ queue \in Seq(Messages)
    /\ quit \in BOOLEAN /\ enabled \in BOOLEAN /\ left \in BOOLEAN /\ nested \in BOOLEAN
    /\ adrift \in Nat /\ missed \subseteq Win
    /\ host \in {"up", "ended"}
    /\ freed \subseteq Url /\ answers \in [Win -> Seq(Url)]
    /\ returned \in {NULL} \cup Results

(* A WM_QUIT of the plugin's never reaches the host before an error has    *)
(* parted a window from its loop: the open windows and the pending WM_QUIT *)
(* are no more than the loops of the plugin's left to end and what errors  *)
(* have set adrift, even when the loops are nested and their windows       *)
(* closed in any order (wrapper.c:96-119, ui.c:96-99).                     *)
QuitHasALoop ==
    /\ Cardinality(Open) + (IF quit THEN 1 ELSE 0) <= Len(frames) + adrift
    /\ adrift = 0 => host = "up"

(* When no call is left the host's window accepts input again, unless an   *)
(* error has left a call that disabled it and no call has enabled it since *)
(* (wrapper.c:88, 120).                                                    *)
HostEnabledAtRest == frames = << >> /\ ~left => enabled

(* As long as no call has been nested and no window parted from its call,  *)
(* what a call returns is the first answer of its own window's page, and   *)
(* nil exactly when there was no answer or another message loop has taken  *)
(* the token: a later answer is never returned in its place                *)
(* (wrapper.c:113-129, ui.c:92-95).                                        *)
FirstAnswerReturned ==
    returned # NULL /\ ~nested /\ adrift = 0 =>
        IF returned.win = NULL \/ answers[returned.win] = << >> \/ returned.win \in missed
        THEN returned.token = NULL
        ELSE returned.token \in {Text(answers[returned.win][1]), Garbage}

(* Unless calls are nested, a page that has answered closes its window and *)
(* ends the call (wrapper.c:113-119, ui.c:92-99).                          *)
AnswerEndsLoop ==
    \A w \in Win :
        (\E i \in DOMAIN queue : queue[i].win = w)
            ~> nested \/ (window[w] = "gone" /\ \A i \in DOMAIN frames : frames[i].win # w)

(* cwebpage.c:682: the code was modified "to pass the url data".  The      *)
(* token a call returns is that of the URL, not what the browser left of   *)
(* it.                                                                     *)
UrlDataIsPassed == returned # NULL => returned.token # Garbage
=============================================================================
