----------------------------- MODULE AuthProofs -----------------------------
(***************************************************************************)
(* The message loops of the authorization windows (AuthWindow.tla): every  *)
(* WM_QUIT has a loop of the plugin's to end until errors part windows and *)
(* loops, the host's window is enabled in the end, and a call that is not  *)
(* nested returns the first answer of its own window's page, for any       *)
(* number of windows, URLs, calls and errors.                              *)
(***************************************************************************)
EXTENDS AuthWindow, SequenceFacts, FiniteSetTheorems, TLAPS

(* Messages are posted to windows that are open and have answered, and     *)
(* only a window that has been made has a call or an answer.               *)
Mail ==
    /\ \A i \in 1 .. Len(queue) : queue[i].win \in Open
    /\ \A i \in 1 .. Len(queue) : queue[i].msg # "WM_CLOSE" => queue[i].url \in Url
    /\ \A i \in 1 .. Len(queue) : answers[queue[i].win] # << >>
    /\ \A w \in missed : answers[w] # << >>
    /\ \A w \in Win : window[w] = "none" => answers[w] = << >>
    /\ \A i \in 1 .. Len(frames) : frames[i].win # NULL => window[frames[i].win] # "none"

(* The loops that are left for the windows and for the WM_QUIT.            *)
Loops == IsFiniteSet(Open) /\ QuitHasALoop

(* Some call that has not returned will enable the host's window, unless   *)
(* an error has left it.                                                   *)
WillEnable == enabled \/ left \/ \E i \in 1 .. Len(frames) : frames[i].parent

-----------------------------------------------------------------------------
(* One call: how far the answer of its window's page is.                   *)

IsApp(i) == queue[i].msg = "WM_APP"

(* The answer is on its way: in the page's message, or in the token's,     *)
(* which the window's WM_CLOSE follows; further answers may be before and  *)
(* behind them.                                                            *)
Posted(w) ==
    /\ answers[w] # << >> /\ w \notin missed
    /\ \/ /\ queue # << >> /\ queue[1].url = answers[w][1]
          /\ \A i \in 1 .. Len(queue) : IsApp(i)
       \/ \E k \in 1 .. Len(queue) - 1 :
             /\ \A i \in 1 .. k - 1 : IsApp(i)
             /\ queue[k].msg = "WM_USER_AUTHTOKENDATA" /\ queue[k].url = answers[w][1]
             /\ queue[k + 1].msg = "WM_CLOSE"

(* What the call of window w returns after its first answer.               *)
Due(w) == IF w \in missed THEN {NULL} ELSE {Text(answers[w][1]), Garbage}

(* The token has been taken, by the call or elsewhere, and the window's    *)
(* WM_CLOSE comes next.                                                    *)
Taken(w, t) ==
    /\ answers[w] # << >> /\ t \in Due(w)
    /\ \E k \in 1 .. Len(queue) :
          queue[k].msg = "WM_CLOSE" /\ \A i \in 1 .. k - 1 : IsApp(i)

(* What the call of window w, which is no longer open, is to return.       *)
Result(w, t) ==
    IF w = NULL \/ answers[w] = << >> THEN t = NULL ELSE t \in Due(w)

(* The call f, the only one.                                               *)
Call(f) ==
    \/ f.win \in Open /\ f.tmp = NULL /\ answers[f.win] = << >> /\ queue = << >>
    \/ f.win \in Open /\ f.tmp = NULL /\ Posted(f.win)
    \/ f.win \in Open /\ Taken(f.win, f.tmp)
    \/ f.win \notin Open /\ Result(f.win, f.tmp)

Single ==
    ~nested /\ adrift = 0 =>
        /\ frames = << >> => Open = {}
        /\ frames # << >> => Len(frames) = 1 /\ Open \subseteq {frames[1].win} /\ Call(frames[1])
        /\ returned # NULL => returned.win \notin Open /\ Result(returned.win, returned.token)
        /\ returned # NULL /\ returned.win # NULL => window[returned.win] # "none"

IInv == TypeOK /\ Mail /\ Loops /\ WillEnable /\ Single
-----------------------------------------------------------------------------
(* Types                                                                   *)

(* At the start nothing is called, posted or open.                         *)
LEMMA TypeInit == Init => TypeOK
  <1> SUFFICES ASSUME Init PROVE TypeOK
    OBVIOUS
  <1>1. /\ frames \in Seq(Calls) /\ Len(frames) <= MaxDepth
        /\ queue \in Seq(Messages)
    BY AuthAssumption DEF Init
  <1>2. /\ window \in [Win -> {"none", "open", "blank", "gone"}]
        /\ answers \in [Win -> Seq(Url)] /\ freed \subseteq Url
    BY DEF Init
  <1>3. /\ quit \in BOOLEAN /\ enabled \in BOOLEAN /\ left \in BOOLEAN /\ nested \in BOOLEAN
        /\ adrift \in Nat /\ missed \subseteq Win
        /\ host \in {"up", "ended"}
    BY DEF Init
  <1>4. returned \in {NULL} \cup Results
    BY DEF Init
  <1> QED
    BY <1>1, <1>2, <1>3, <1>4 DEF TypeOK

(* No step of a window, a message or a loop leaves the types; the message  *)
(* read is one of the queue.                                               *)
LEMMA TypeStep == ASSUME TypeOK, Mail, Next PROVE TypeOK'
  <1> USE AuthAssumption
  <1>1. ASSUME NEW w \in Win, NEW p \in BOOLEAN, NEW page \in {"open", "blank"}, Explore(w, p, page)
        PROVE  TypeOK'
    <2>1. Frame(w, p) \in Calls
      BY DEF Frame, Calls
    <2>2. frames' \in Seq(Calls) /\ Len(frames') <= MaxDepth
      BY <1>1, <2>1 DEF TypeOK, Explore, Enter, CanCall
    <2>3. enabled' \in BOOLEAN /\ nested' \in BOOLEAN
      BY <1>1, Zenon DEF TypeOK, Explore, Disable, Enter
    <2>4. window' \in [Win -> {"none", "open", "blank", "gone"}]
      BY <1>1 DEF TypeOK, Explore
    <2>5. UNCHANGED <<queue, quit, host, freed, answers, returned, adrift, left, missed>>
      BY <1>1 DEF Explore
    <2> QED
      BY <2>2, <2>3, <2>4, <2>5 DEF TypeOK
  <1>2. ASSUME NEW p \in BOOLEAN, ExploreNoBrowser(p) \/ ExploreNoWindow(p)
        PROVE  TypeOK'
    <2>1. Frame(NULL, p) \in Calls
      BY DEF Frame, Calls
    <2>2. CanCall /\ Enter(Frame(NULL, p))
      BY <1>2 DEF ExploreNoBrowser, ExploreNoWindow
    <2>3. frames' \in Seq(Calls) /\ Len(frames') <= MaxDepth
      BY <2>1, <2>2 DEF TypeOK, Enter, CanCall
    <2> QED
      BY <1>2, <2>3 DEF TypeOK, ExploreNoBrowser, ExploreNoWindow, Enter, Disable
  <1>3. ASSUME NEW p \in BOOLEAN, NoHeight(p) PROVE TypeOK'
    BY <1>3 DEF TypeOK, NoHeight, Disable
  <1>4. ASSUME NEW w \in Win, NEW p \in BOOLEAN, NoTitle(w, p) PROVE TypeOK'
    BY <1>4 DEF TypeOK, NoTitle, Disable
  <1>5. ASSUME NEW w \in Win, NEW u \in Url, TranslateUrl(w, u) PROVE TypeOK'
    <2>1. Msg("WM_APP", w, u) \in Messages
      BY DEF Msg, Messages
    <2> QED
      BY <1>5, <2>1 DEF TypeOK, TranslateUrl
  <1>6. ASSUME NEW u \in Url, BrowserFrees(u) PROVE TypeOK'
    BY <1>6 DEF TypeOK, BrowserFrees
  <1>7. ASSUME OnApp PROVE TypeOK'
    <2>1. Head(queue) \in Messages /\ Tail(queue) \in Seq(Messages)
      BY <1>7, HeadTailProperties DEF TypeOK, OnApp
    <2>2. /\ Msg("WM_USER_AUTHTOKENDATA", Head(queue).win, Head(queue).url) \in Messages
          /\ Msg("WM_CLOSE", Head(queue).win, NULL) \in Messages
      BY <2>1 DEF Msg, Messages
    <2>3. queue' \in Seq(Messages)
      BY <1>7, <2>1, <2>2 DEF OnApp
    <2> QED
      BY <1>7, <2>3 DEF TypeOK, OnApp
  <1>8. ASSUME OnToken PROVE TypeOK'
    <2>1. Tail(queue) \in Seq(Messages) /\ Head(queue) = queue[1] /\ 1 \in 1 .. Len(queue)
      BY <1>8 DEF Messages, TypeOK, OnToken
    <2>2. Head(queue).url \in Url
      BY <1>8, <2>1 DEF Mail, OnToken
    <2>3. Read(Head(queue).url) \in Texts
      BY <2>2 DEF Read, Texts
    <2>4. frames' \in Seq(Calls) /\ Len(frames') = Len(frames)
      <3>1. CASE frames = << >>
        BY <1>8, <3>1 DEF OnToken, TypeOK
      <3>2. CASE frames # << >>
        <4>1. frames[Len(frames)] \in Calls
          BY <3>2, Popped DEF TypeOK
        <4>2. [frames[Len(frames)] EXCEPT !.tmp = Read(Head(queue).url)] \in Calls
          BY <2>3, <4>1 DEF Calls
        <4> QED
          BY <1>8, <3>2, <4>2 DEF OnToken, TypeOK
      <3> QED
        BY <3>1, <3>2
    <2> QED
      BY <1>8, <2>1, <2>4 DEF TypeOK, OnToken
  <1>9. ASSUME NEW w \in Win, Destroy(w) PROVE TypeOK'
    <2>1. queue' \in Seq(Messages)
      BY <1>9, SelectedFrom DEF Destroy, TypeOK
    <2> QED
      BY <1>9, <2>1 DEF TypeOK, Destroy
  <1>10. ASSUME OnClose PROVE TypeOK'
    <2>1. Head(queue) \in Messages
      BY <1>10, HeadTailProperties DEF OnClose, TypeOK
    <2>2. Head(queue).win \in Win
      BY <2>1 DEF Messages
    <2> QED
      BY <1>9, <1>10, <2>2 DEF OnClose
  <1>11. ASSUME OnQuit PROVE TypeOK'
    <2>1. Top \in Calls /\ Front(frames) \in Seq(Calls) /\ Len(Front(frames)) <= MaxDepth
      BY <1>11, Popped DEF OnQuit, Top, TypeOK
    <2> QED
      BY <1>11, <2>1 DEF TypeOK, OnQuit, Calls, Results
  <1>12. ASSUME HostQuits PROVE TypeOK'
    BY <1>12 DEF TypeOK, HostQuits
  <1>13. ASSUME Unwind PROVE TypeOK'
    <2>1. Top \in Calls /\ Front(frames) \in Seq(Calls) /\ Len(Front(frames)) <= MaxDepth
      <3>1. frames \in Seq(Calls) /\ Len(frames) <= MaxDepth /\ frames # << >>
        BY <1>13 DEF Unwind, TypeOK
      <3> QED
        BY <3>1, Popped DEF Top
    <2>2. Top.parent \in BOOLEAN
      BY <2>1 DEF Calls
    <2> QED
      BY <1>13, <2>1, <2>2 DEF TypeOK, Unwind
  <1>14. ASSUME OnTokenElsewhere PROVE TypeOK'
    <2>1. Head(queue) \in Messages /\ Tail(queue) \in Seq(Messages)
      BY <1>14, HeadTailProperties DEF TypeOK, OnTokenElsewhere
    <2> QED
      BY <1>14, <2>1 DEF TypeOK, OnTokenElsewhere, Messages
  <1> QED
    BY <1>1, <1>2, <1>3, <1>4, <1>5, <1>6, <1>7, <1>8, <1>9, <1>10, <1>11, <1>12, <1>13, <1>14
       DEF Next, Loop, Script, UserCloses

-----------------------------------------------------------------------------
(* Windows and their messages                                              *)

(* The parts of TypeOK, in the form the proofs below take them.            *)
LEMMA Typed ==
  ASSUME TypeOK
  PROVE  /\ frames \in Seq(Calls) /\ queue \in Seq(Messages)
         /\ Len(frames) \in Nat /\ Len(queue) \in Nat
         /\ \A i \in 1 .. Len(frames) : frames[i] \in Calls /\ frames[i].win \in Win \cup {NULL}
         /\ \A i \in 1 .. Len(queue) : queue[i] \in Messages
  <1>1. frames \in Seq(Calls) /\ queue \in Seq(Messages)
    BY DEF TypeOK
  <1>2. \A i \in 1 .. Len(frames) : frames[i] \in Calls
    BY <1>1
  <1>3. \A f \in Calls : f.win \in Win \cup {NULL}
    BY DEF Calls
  <1>4. \A i \in 1 .. Len(queue) : queue[i] \in Messages
    BY <1>1
  <1> QED
    BY <1>1, <1>2, <1>3, <1>4

(* A window that is made is one more open one.                             *)
LEMMA Opened ==
  ASSUME TypeOK, NEW w \in Win, NEW page \in {"open", "blank"}, window[w] = "none",
         window' = [window EXCEPT ![w] = page]
  PROVE  Open' = Open \cup {w} /\ w \notin Open
  BY DEF TypeOK, Open

(* A window destroyed is one less, and its messages are gone (ui.c:96-99). *)
LEMMA Destroyed ==
  ASSUME TypeOK, NEW w \in Win, Destroy(w)
  PROVE  /\ Open' = Open \ {w} /\ window'[w] = "gone"
         /\ queue' \in Seq(Messages)
         /\ \A j \in 1 .. Len(queue') : \E i \in 1 .. Len(queue) : queue'[j] = queue[i] /\ queue[i].win # w
  <1>1. Open' = Open \ {w} /\ window'[w] = "gone"
    BY DEF TypeOK, Open, Destroy
  <1> DEFINE K == {i \in DOMAIN queue : queue[i].win # w}
  <1>2. queue' = Selected(queue, K) /\ queue \in Seq(Messages)
    BY DEF Destroy, TypeOK
  <1> HIDE DEF K
  <1>3. /\ queue' \in Seq(Messages)
        /\ \A j \in 1 .. Len(queue') : \E i \in K \cap (1 .. Len(queue)) : queue'[j] = queue[i]
    BY <1>2, SelectedFrom
  <1> QED
    BY <1>1, <1>3 DEF K

(* The window that OnClose destroys is open.                               *)
LEMMA Closed == ASSUME TypeOK, Mail, OnClose
                PROVE  \E w \in Open : Destroy(w) /\ Head(queue).win = w
  <1>1. Head(queue) = queue[1] /\ 1 \in 1 .. Len(queue)
    BY EmptySeq DEF OnClose, TypeOK
  <1> QED
    BY <1>1 DEF OnClose, Mail

(* The queue is empty at the start.                                        *)
LEMMA MailInit == Init => Mail
  BY DEF Init, Mail

(* Messages are posted to open windows only, and go with their window.     *)
LEMMA MailStep == ASSUME TypeOK, Mail, Next PROVE Mail'
  <1>1. ASSUME NEW w \in Win, NEW p \in BOOLEAN, NEW page \in {"open", "blank"}, Explore(w, p, page)
        PROVE  Mail'
    <2>1. Open \subseteq Open' /\ window'[w] = page
      BY <1>1, Opened DEF Explore, TypeOK
    <2>2. \A v \in Win : v # w => window'[v] = window[v]
      BY <1>1 DEF Explore, TypeOK
    <2>3. /\ \A i \in 1 .. Len(queue') : /\ queue'[i].win \in Open' /\ answers'[queue'[i].win] # << >>
                                         /\ queue'[i].msg # "WM_CLOSE" => queue'[i].url \in Url
          /\ \A v \in missed' : answers'[v] # << >>
      BY <1>1, <2>1 DEF Explore, Mail
    <2>4. \A v \in Win : window'[v] = "none" => answers'[v] = << >>
      BY <1>1, <2>1, <2>2 DEF Explore, Mail
    <2>5. \A i \in 1 .. Len(frames') : frames'[i].win # NULL => window'[frames'[i].win] # "none"
      <3>1. \A i \in 1 .. Len(frames') : (frames'[i] = frames[i] /\ i \in 1 .. Len(frames)) \/ frames'[i] = Frame(w, p)
        BY <1>1 DEF Explore, Enter, TypeOK
      <3>2. \A i \in 1 .. Len(frames) : frames[i].win \in Win \cup {NULL}
        BY Typed
      <3> QED
        BY <2>1, <2>2, <3>1, <3>2 DEF Mail, Frame
    <2> QED
      BY <2>3, <2>4, <2>5 DEF Mail
  <1>2. ASSUME NEW p \in BOOLEAN, ExploreNoBrowser(p) \/ ExploreNoWindow(p)
        PROVE  Mail'
    <2>1. Enter(Frame(NULL, p)) /\ UNCHANGED <<window, queue, answers, missed>>
      BY <1>2 DEF ExploreNoBrowser, ExploreNoWindow
    <2>2. \A i \in 1 .. Len(frames') : (frames'[i] = frames[i] /\ i \in 1 .. Len(frames)) \/ frames'[i] = Frame(NULL, p)
      BY <2>1 DEF Enter, TypeOK
    <2> QED
      BY <2>1, <2>2 DEF Mail, Frame, Open
  <1>3. ASSUME NEW p \in BOOLEAN, NoHeight(p) PROVE Mail'
    BY <1>3 DEF NoHeight, Mail, Open
  <1>4. ASSUME NEW w \in Win, NEW p \in BOOLEAN, NoTitle(w, p) PROVE Mail'
    <2>1. Open \subseteq Open' /\ window'[w] = "blank"
      BY <1>4, Opened DEF NoTitle, TypeOK
    <2>2. \A v \in Win : v # w => window'[v] = window[v]
      BY <1>4 DEF NoTitle, TypeOK
    <2>3. \A i \in 1 .. Len(frames) : frames[i].win \in Win \cup {NULL}
      BY Typed
    <2> QED
      BY <1>4, <2>1, <2>2, <2>3 DEF NoTitle, Mail
  <1>5. ASSUME NEW w \in Win, NEW u \in Url, TranslateUrl(w, u) PROVE Mail'
    <2>1. \A i \in 1 .. Len(queue') : (queue'[i] = queue[i] /\ i \in 1 .. Len(queue)) \/ queue'[i] = Msg("WM_APP", w, u)
      BY <1>5 DEF TranslateUrl, TypeOK
    <2>2. w \in Open /\ Open' = Open
      BY <1>5 DEF TranslateUrl, Open
    <2>3. /\ \A v \in Win : answers'[v] = answers[v] \/ v = w
          /\ answers'[w] # << >> /\ missed \subseteq Win
      <3>1. answers \in [Win -> Seq(Url)] /\ answers' = [answers EXCEPT ![w] = Append(@, u)] /\ missed \subseteq Win
        BY <1>5 DEF TranslateUrl, TypeOK
      <3>2. answers[w] \in Seq(Url) /\ Append(answers[w], u) # << >>
        BY <3>1
      <3> QED
        BY <3>1, <3>2
    <2>4. \A v \in Win : answers[v] # << >> => answers'[v] # << >>
      BY <2>3
    <2>5. Open \subseteq Win
      BY DEF Open
    <2> QED
      BY <1>5, <2>1, <2>2, <2>3, <2>4, <2>5 DEF TranslateUrl, Mail, Msg
  <1>6. ASSUME NEW u \in Url, BrowserFrees(u) PROVE Mail'
    BY <1>6 DEF BrowserFrees, Mail, Open
  <1>7. ASSUME OnApp PROVE Mail'
    <2> DEFINE h == Head(queue)
               token == Msg("WM_USER_AUTHTOKENDATA", h.win, h.url)
               close == Msg("WM_CLOSE", h.win, NULL)
    <2>1. h = queue[1] /\ 1 \in 1 .. Len(queue) /\ h.msg = "WM_APP"
      BY <1>7, EmptySeq DEF OnApp, TypeOK
    <2>2. h.win \in Open /\ h.url \in Url /\ answers[h.win] # << >>
      BY <2>1 DEF Mail
    <2>3. \A i \in 1 .. Len(queue') : (\E j \in 1 .. Len(queue) : queue'[i] = queue[j])
                                      \/ queue'[i] = token \/ queue'[i] = close
      BY <1>7, <2>1, HeadTailProperties DEF OnApp, TypeOK
    <2>4. UNCHANGED <<frames, window, answers, missed>> /\ Open' = Open
      BY <1>7 DEF OnApp, Open
    <2>5. \A i \in 1 .. Len(queue') : /\ queue'[i].win \in Open /\ answers[queue'[i].win] # << >>
                                      /\ queue'[i].msg # "WM_CLOSE" => queue'[i].url \in Url
      BY <2>2, <2>3 DEF Mail, Msg
    <2> QED
      BY <2>4, <2>5 DEF Mail
  <1>8. ASSUME OnToken PROVE Mail'
    <2>1. \A i \in 1 .. Len(queue') : \E j \in 1 .. Len(queue) : queue'[i] = queue[j]
      BY <1>8, Typed, Tailed DEF OnToken
    <2>2. UNCHANGED <<window, answers, missed>> /\ Open' = Open
      BY <1>8 DEF OnToken, Open
    <2>3. \A i \in 1 .. Len(frames') : i \in 1 .. Len(frames) /\ frames'[i].win = frames[i].win
      <3>1. CASE frames = << >>
        BY <1>8, <3>1 DEF OnToken
      <3>2. CASE frames # << >>
        BY <1>8, <3>2, Popped DEF OnToken, TypeOK, Calls
      <3> QED
        BY <3>1, <3>2
    <2>4. \A i \in 1 .. Len(queue') : /\ queue'[i].win \in Open /\ answers[queue'[i].win] # << >>
                                      /\ queue'[i].msg # "WM_CLOSE" => queue'[i].url \in Url
      BY <2>1 DEF Mail
    <2> QED
      BY <2>2, <2>3, <2>4 DEF Mail
  <1>9. ASSUME NEW w \in Win, Destroy(w) PROVE Mail'
    <2>1. \A v \in Win : v # w => window'[v] = window[v]
      BY <1>9 DEF Destroy, TypeOK
    <2>2. UNCHANGED <<frames, answers, missed>>
      BY <1>9 DEF Destroy
    <2>3. \A i \in 1 .. Len(frames) : frames[i].win \in Win \cup {NULL}
      BY Typed
    <2>4. \A i \in 1 .. Len(queue') : /\ queue'[i].win \in Open' /\ answers[queue'[i].win] # << >>
                                      /\ queue'[i].msg # "WM_CLOSE" => queue'[i].url \in Url
      BY <1>9, Destroyed DEF Mail
    <2>5. window'[w] = "gone"
      BY <1>9, Destroyed
    <2> QED
      BY <2>1, <2>2, <2>3, <2>4, <2>5 DEF Mail
  <1>10. ASSUME OnClose PROVE Mail'
    BY <1>9, <1>10, Closed DEF Open
  <1>11. ASSUME OnQuit PROVE Mail'
    <2>1. \A i \in 1 .. Len(frames') : i \in 1 .. Len(frames) /\ frames'[i] = frames[i]
      BY <1>11, Typed, Popped DEF OnQuit
    <2>2. UNCHANGED <<window, queue, answers, missed>> /\ Open' = Open
      BY <1>11 DEF OnQuit, Open
    <2> QED
      BY <2>1, <2>2 DEF Mail
  <1>12. ASSUME HostQuits PROVE Mail'
    BY <1>12 DEF HostQuits, Mail, Open
  <1>13. ASSUME Unwind PROVE Mail'
    <2>1. \A i \in 1 .. Len(frames') : i \in 1 .. Len(frames) /\ frames'[i] = frames[i]
      <3>1. frames' = Front(frames) /\ frames # << >>
        BY <1>13 DEF Unwind
      <3> QED
        BY <3>1, Typed, Popped
    <2>2. UNCHANGED <<window, queue, answers, missed>> /\ Open' = Open
      BY <1>13 DEF Unwind, Open
    <2> QED
      BY <2>1, <2>2 DEF Mail
  <1>14. ASSUME OnTokenElsewhere PROVE Mail'
    <2>1. \A i \in 1 .. Len(queue') : \E j \in 1 .. Len(queue) : queue'[i] = queue[j]
      BY <1>14, Typed, Tailed DEF OnTokenElsewhere
    <2>2. Head(queue) = queue[1] /\ 1 \in 1 .. Len(queue)
      BY <1>14, EmptySeq DEF OnTokenElsewhere, TypeOK
    <2>3. UNCHANGED <<frames, window, answers>> /\ Open' = Open /\ missed' = missed \cup {queue[1].win}
      BY <1>14, <2>2 DEF OnTokenElsewhere, Open
    <2>4. \A i \in 1 .. Len(queue') : /\ queue'[i].win \in Open /\ answers[queue'[i].win] # << >>
                                      /\ queue'[i].msg # "WM_CLOSE" => queue'[i].url \in Url
      BY <2>1 DEF Mail
    <2>5. \A v \in missed' : answers[v] # << >>
      BY <2>2, <2>3 DEF Mail
    <2> QED
      BY <2>3, <2>4, <2>5 DEF Mail
  <1> QED
    BY <1>1, <1>2, <1>3, <1>4, <1>5, <1>6, <1>7, <1>8, <1>9, <1>10, <1>11, <1>12, <1>13, <1>14
       DEF Next, Loop, Script, UserCloses

-----------------------------------------------------------------------------
(* Every WM_QUIT has a loop to end                                         *)

(* No window, no loop.                                                     *)
LEMMA LoopsInit == Init => Loops
  <1> SUFFICES ASSUME Init PROVE Loops
    OBVIOUS
  <1>1. Open = {} /\ frames = << >> /\ quit = FALSE /\ host = "up" /\ adrift = 0
    BY DEF Init, Open
  <1>2. IsFiniteSet(Open) /\ Cardinality(Open) = 0
    BY <1>1, FS_EmptySet
  <1> QED
    BY <1>1, <1>2 DEF Loops, QuitHasALoop

Pending == IF quit THEN 1 ELSE 0

(* A window is opened with its loop, WM_QUIT is one for a window           *)
(* destroyed, and OnQuit takes it with the loop (wrapper.c:96-130); a      *)
(* window without a loop and a loop left behind are counted.               *)
LEMMA LoopsStep == ASSUME TypeOK, Mail, Loops, Next PROVE Loops'
  <1> DEFINE n == Cardinality(Open)
             l == Len(frames)
  <1>1. IsFiniteSet(Open) /\ n \in Nat /\ l \in Nat /\ quit \in BOOLEAN /\ adrift \in Nat
    BY FS_CardinalityType DEF Loops, TypeOK
  <1>2. n + Pending <= l + adrift /\ (adrift = 0 => host = "up")
    BY DEF Loops, QuitHasALoop, Pending
  <1>3. ASSUME IsFiniteSet(Open'), (Cardinality(Open) + Pending)' <= Len(frames') + adrift',
               adrift' = 0 => host' = "up"
        PROVE  Loops'
    BY <1>3 DEF Loops, QuitHasALoop, Pending
  <1>4. ASSUME Open' = Open, Len(frames') = l, UNCHANGED <<quit, host, adrift>>
        PROVE  Loops'
    BY <1>1, <1>2, <1>3, <1>4 DEF Pending
  <1>5. ASSUME NEW w \in Win, Destroy(w), w \in Open, host = "up" PROVE Loops'
    <2>1. Open' = Open \ {w} /\ IsFiniteSet(Open') /\ Cardinality(Open') = n - 1
      BY <1>1, <1>5, Destroyed, FS_RemoveElement
    <2>2. quit' = TRUE /\ UNCHANGED <<frames, host, adrift>>
      BY <1>5 DEF Destroy
    <2>3. Pending' = 1 /\ Pending \in {0, 1}
      BY <2>2 DEF Pending
    <2> QED
      BY <1>1, <1>2, <1>3, <2>1, <2>2, <2>3
  <1>6. ASSUME NEW w \in Win, NEW p \in BOOLEAN, NEW page \in {"open", "blank"}, Explore(w, p, page)
        PROVE  Loops'
    <2>1. Open' = Open \cup {w} /\ w \notin Open
      BY <1>6, Opened DEF Explore
    <2>2. IsFiniteSet(Open') /\ Cardinality(Open') = n + 1
      BY <1>1, <2>1, FS_AddElement
    <2>3. Len(frames') = l + 1 /\ UNCHANGED <<quit, host, adrift>>
      BY <1>6 DEF Explore, Enter, TypeOK
    <2>4. Pending' = Pending
      BY <2>3 DEF Pending
    <2>5. Pending \in {0, 1}
      BY DEF Pending
    <2> QED
      BY <1>1, <1>2, <1>3, <2>2, <2>3, <2>4, <2>5
  <1>7. ASSUME NEW p \in BOOLEAN, ExploreNoBrowser(p) \/ ExploreNoWindow(p) PROVE Loops'
    <2>1. Enter(Frame(NULL, p)) /\ UNCHANGED <<window, host, adrift>>
      BY <1>7 DEF ExploreNoBrowser, ExploreNoWindow
    <2>2. Len(frames') = l + 1 /\ Open' = Open
      BY <2>1 DEF Enter, TypeOK, Open
    <2>3. Pending \in {0, 1} /\ (Pending' = Pending \/ Pending' = 1)
      BY <1>7 DEF Pending, ExploreNoBrowser, ExploreNoWindow
    <2> QED
      BY <1>1, <1>2, <1>3, <2>1, <2>2, <2>3
  <1>8. ASSUME NEW w \in Win, NEW p \in BOOLEAN, NoTitle(w, p) PROVE Loops'
    <2>1. Open' = Open \cup {w} /\ w \notin Open
      BY <1>8, Opened DEF NoTitle
    <2>2. IsFiniteSet(Open') /\ Cardinality(Open') = n + 1
      BY <1>1, <2>1, FS_AddElement
    <2>3. Len(frames') = l /\ UNCHANGED <<quit, host>> /\ adrift' = adrift + 1
      BY <1>8 DEF NoTitle
    <2>4. Pending' = Pending /\ Pending \in {0, 1}
      BY <2>3 DEF Pending
    <2> QED
      BY <1>1, <1>2, <1>3, <2>2, <2>3, <2>4
  <1>9. ASSUME OnToken PROVE Loops'
    <2>1. Len(frames') = l
      BY <1>9, Typed DEF OnToken
    <2> QED
      BY <1>4, <1>9, <2>1 DEF OnToken, Open
  <1>10. ASSUME OnQuit PROVE Loops'
    <2>1. Len(frames') = l - 1 /\ quit' = FALSE /\ quit = TRUE /\ UNCHANGED <<window, host, adrift>>
      BY <1>10, Typed, Popped DEF OnQuit, TypeOK
    <2>2. Pending = 1 /\ Pending' = 0 /\ Open' = Open
      BY <2>1 DEF Pending, Open
    <2> QED
      BY <1>1, <1>2, <1>3, <2>1, <2>2
  <1>11. ASSUME HostQuits PROVE Loops'
    <2>1. l = 0 /\ quit = TRUE /\ quit' = FALSE /\ UNCHANGED <<frames, window, adrift>>
      BY <1>11 DEF HostQuits, TypeOK
    <2>2. Pending = 1 /\ Pending' = 0 /\ Open' = Open
      BY <2>1 DEF Pending, Open
    <2>3. adrift # 0
      BY <1>1, <1>2, <2>1, <2>2
    <2> QED
      BY <1>1, <1>2, <1>3, <2>1, <2>2, <2>3
  <1>12. ASSUME NEW p \in BOOLEAN, NoHeight(p) PROVE Loops'
    BY <1>4, <1>12 DEF NoHeight, Open
  <1>13. ASSUME OnApp \/ (\E w \in Win, u \in Url : TranslateUrl(w, u)) \/ (\E u \in Url : BrowserFrees(u))
         PROVE  Loops'
    BY <1>4, <1>13 DEF OnApp, TranslateUrl, BrowserFrees, Open
  <1>14. ASSUME OnClose PROVE Loops'
    BY <1>5, <1>14, Closed DEF Open, OnClose
  <1>15. ASSUME NEW w \in Win, UserCloses(w) PROVE Loops'
    BY <1>5, <1>15 DEF UserCloses
  <1>16. ASSUME Unwind PROVE Loops'
    <2>1. Len(frames') = l - 1 /\ adrift' = adrift + 1 /\ UNCHANGED <<window, quit, host>>
      BY <1>16, Typed, Popped DEF Unwind
    <2>2. Pending' = Pending /\ Pending \in {0, 1} /\ Open' = Open
      BY <2>1 DEF Pending, Open
    <2> QED
      BY <1>1, <1>2, <1>3, <2>1, <2>2
  <1>17. ASSUME OnTokenElsewhere PROVE Loops'
    BY <1>4, <1>17 DEF OnTokenElsewhere, Open
  <1> QED
    BY <1>6, <1>7, <1>8, <1>9, <1>10, <1>11, <1>12, <1>13, <1>14, <1>15, <1>16, <1>17
       DEF Next, Loop, Script

-----------------------------------------------------------------------------
(* The host's window                                                       *)

(* The host's window is enabled at the start.                              *)
LEMMA EnableInit == Init => WillEnable
  BY DEF Init, WillEnable

(* Who disables the host's window is in a frame, and OnQuit enables it     *)
(* before the frame is left.                                               *)
LEMMA EnableStep == ASSUME TypeOK, WillEnable, Next PROVE WillEnable'
  <1> SUFFICES enabled' \/ left' \/ \E i \in 1 .. Len(frames') : frames'[i].parent
    BY DEF WillEnable
  <1>1. ASSUME NEW p \in BOOLEAN, NEW f \in Calls, f.parent = p, Enter(f), Disable(p), left' = left
        PROVE  enabled' \/ left' \/ \E i \in 1 .. Len(frames') : frames'[i].parent
    <2>1. frames' = Append(frames, f) /\ Len(frames') = Len(frames) + 1 /\ Len(frames) \in Nat
      BY <1>1, Typed DEF Enter
    <2>2. frames'[Len(frames) + 1] = f /\ \A i \in 1 .. Len(frames) : frames'[i] = frames[i]
      BY <2>1, Typed
    <2>3. CASE p
      <3>1. f.parent
        BY <1>1, <2>3, Zenon
      <3>2. Len(frames) + 1 \in 1 .. Len(frames')
        BY <2>1
      <3> QED
        BY <2>2, <3>1, <3>2, Zenon
    <2>4. CASE ~p
      <3>1. CASE enabled
        <4>1. enabled' = (enabled /\ ~p)
          BY <1>1 DEF Disable
        <4> QED
          BY <2>4, <3>1, <4>1, Zenon
      <3>2. CASE left
        BY <1>1, <3>2, Zenon
      <3>3. CASE ~enabled /\ ~left
        <4>1. PICK i \in 1 .. Len(frames) : frames[i].parent
          BY <1>1, <3>3, Zenon DEF WillEnable
        <4>2. frames'[i] = frames[i] /\ i \in 1 .. Len(frames')
          BY <2>1, <2>2
        <4> QED
          BY <4>1, <4>2, Zenon
      <3> QED
        BY <3>1, <3>2, <3>3
    <2> QED
      BY <2>3, <2>4
  <1>2. CASE OnToken
    <2>1. Len(frames') = Len(frames) /\ \A i \in 1 .. Len(frames) : frames'[i].parent = frames[i].parent
      BY <1>2, Typed DEF OnToken, Calls
    <2> QED
      BY <1>2, <2>1 DEF OnToken, WillEnable
  <1>3. CASE OnQuit
    <2>1. /\ Top = frames[Len(frames)] /\ Len(frames) \in Nat \ {0} /\ Len(frames') = Len(frames) - 1
          /\ \A i \in 1 .. Len(frames) - 1 : frames'[i] = frames[i]
      BY <1>3, Typed, Popped DEF OnQuit, Top
    <2>2. enabled' = (enabled \/ Top.parent) /\ left' = (left /\ ~Top.parent)
      BY <1>3 DEF OnQuit
    <2>3. CASE enabled \/ frames[Len(frames)].parent
      BY <2>1, <2>2, <2>3
    <2>4. CASE ~(enabled \/ frames[Len(frames)].parent)
      <3>3. left \/ \E i \in 1 .. Len(frames) : frames[i].parent
        BY <2>4 DEF WillEnable
      <3>4. CASE left
        BY <2>1, <2>2, <2>4, <3>4
      <3>5. SUFFICES ASSUME ~left PROVE enabled' \/ left' \/ \E i \in 1 .. Len(frames') : frames'[i].parent
        BY <3>4
      <3>1. PICK i \in 1 .. Len(frames) : frames[i].parent
        BY <3>3, <3>5
      <3>2. i \in 1 .. Len(frames) - 1
        BY <2>1, <2>4, <3>1
      <3> QED
        BY <2>1, <3>1, <3>2
    <2> QED
      BY <2>3, <2>4
  <1>4. ASSUME NEW w \in Win, Destroy(w) PROVE enabled' \/ left' \/ \E i \in 1 .. Len(frames') : frames'[i].parent
    BY <1>4 DEF Destroy, WillEnable
  <1>5. ASSUME NEW w \in Win, NEW p \in BOOLEAN, NEW page \in {"open", "blank"}, Explore(w, p, page)
        PROVE  enabled' \/ left' \/ \E i \in 1 .. Len(frames') : frames'[i].parent
    <2>1. Frame(w, p) \in Calls /\ Frame(w, p).parent = p
      BY DEF Frame, Calls
    <2> QED
      BY <1>1, <1>5, <2>1 DEF Explore
  <1>6. ASSUME NEW p \in BOOLEAN, ExploreNoBrowser(p) \/ ExploreNoWindow(p)
        PROVE  enabled' \/ left' \/ \E i \in 1 .. Len(frames') : frames'[i].parent
    <2>1. Frame(NULL, p) \in Calls /\ Frame(NULL, p).parent = p
      BY DEF Frame, Calls
    <2> QED
      BY <1>1, <1>6, <2>1 DEF ExploreNoBrowser, ExploreNoWindow
  <1>7. ASSUME NEW p \in BOOLEAN, NoHeight(p) \/ \E w \in Win : NoTitle(w, p)
        PROVE  enabled' \/ left' \/ \E i \in 1 .. Len(frames') : frames'[i].parent
    <2>1. enabled' = (enabled /\ ~p) /\ left' = (left \/ p) /\ frames' = frames
      BY <1>7 DEF NoHeight, NoTitle, Disable
    <2> QED
      BY <2>1, Zenon DEF WillEnable
  <1>11. CASE Unwind
    <2>1. /\ Top = frames[Len(frames)] /\ Len(frames) \in Nat \ {0} /\ Len(frames') = Len(frames) - 1
          /\ \A i \in 1 .. Len(frames) - 1 : frames'[i] = frames[i]
      BY <1>11, Typed, Popped DEF Unwind, Top
    <2>2. enabled' = enabled /\ left' = (left \/ Top.parent)
      BY <1>11 DEF Unwind
    <2>3. CASE enabled \/ left \/ frames[Len(frames)].parent
      BY <2>1, <2>2, <2>3, Zenon
    <2>4. CASE ~(enabled \/ left \/ frames[Len(frames)].parent)
      <3>1. PICK i \in 1 .. Len(frames) : frames[i].parent
        BY <2>4 DEF WillEnable
      <3>2. i \in 1 .. Len(frames) - 1
        BY <2>1, <2>4, <3>1
      <3> QED
        BY <2>1, <3>1, <3>2
    <2> QED
      BY <2>3, <2>4
  <1>8. CASE OnClose
    BY <1>4, <1>8, Typed, Tailed DEF OnClose, Messages
  <1>9. CASE \E w \in Win : UserCloses(w)
    BY <1>4, <1>9 DEF UserCloses
  <1>10. CASE OnApp \/ OnTokenElsewhere \/ HostQuits \/ (\E w \in Win, u \in Url : TranslateUrl(w, u)) \/ (\E u \in Url : BrowserFrees(u))
    BY <1>10 DEF OnApp, OnTokenElsewhere, HostQuits, TranslateUrl, BrowserFrees, WillEnable
  <1> QED
    BY <1>2, <1>3, <1>5, <1>6, <1>7, <1>8, <1>9, <1>10, <1>11 DEF Next, Loop, Script

-----------------------------------------------------------------------------
(* The first answer on its way through the queue                           *)

(* The queue behind AuthProc's turn for WM_APP (ui.c:92-95).               *)
LEMMA AppQueue ==
  ASSUME TypeOK, OnApp
  PROVE  /\ Len(queue) \in Nat \ {0} /\ queue[1].msg = "WM_APP" /\ queue' \in Seq(Messages)
         /\ Len(queue') = Len(queue) + 1
         /\ \A i \in 1 .. Len(queue) - 1 : queue'[i] = queue[i + 1]
         /\ queue'[Len(queue)].msg = "WM_USER_AUTHTOKENDATA" /\ queue'[Len(queue)].url = queue[1].url
         /\ queue'[Len(queue) + 1].msg = "WM_CLOSE"
         /\ answers' = answers /\ missed' = missed
  <1> DEFINE token == Msg("WM_USER_AUTHTOKENDATA", Head(queue).win, Head(queue).url)
             close == Msg("WM_CLOSE", Head(queue).win, NULL)
  <1>1. /\ Head(queue) = queue[1] /\ queue[1] \in Messages /\ Len(queue) \in Nat \ {0}
        /\ Tail(queue) \in Seq(Messages) /\ Len(Tail(queue)) = Len(queue) - 1
        /\ \A i \in 1 .. Len(queue) - 1 : Tail(queue)[i] = queue[i + 1]
    BY Typed, Tailed DEF OnApp
  <1>2. token \in Messages /\ close \in Messages
    BY <1>1 DEF Msg, Messages
  <1>3. /\ token.msg = "WM_USER_AUTHTOKENDATA" /\ token.url = queue[1].url
        /\ close.msg = "WM_CLOSE"
    BY <1>1 DEF Msg
  <1>4. /\ queue' = Tail(queue) \o <<token, close>> /\ queue[1].msg = "WM_APP"
        /\ answers' = answers /\ missed' = missed
    BY <1>1 DEF OnApp
  <1> HIDE DEF token, close
  <1>5. /\ queue' \in Seq(Messages) /\ Len(queue') = Len(queue) + 1
        /\ \A i \in 1 .. Len(queue) - 1 : queue'[i] = queue[i + 1]
        /\ queue'[Len(queue)] = token /\ queue'[Len(queue) + 1] = close
    BY <1>1, <1>2, <1>4
  <1> QED
    BY <1>1, <1>3, <1>4, <1>5

(* AuthProc's two messages come behind every answer: the first answer is   *)
(* still the first.                                                        *)
LEMMA PostedApp == ASSUME TypeOK, OnApp, NEW w \in Win, Posted(w) PROVE Posted(w)'
  <1> USE AppQueue
  <1>1. CASE queue # << >> /\ queue[1].url = answers[w][1] /\ \A i \in 1 .. Len(queue) : IsApp(i)
    <2>1. Len(queue) \in 1 .. Len(queue') - 1
      OBVIOUS
    <2>2. \A i \in 1 .. Len(queue) - 1 : queue'[i].msg = "WM_APP"
      BY <1>1 DEF IsApp
    <2>3. /\ queue'[Len(queue)].msg = "WM_USER_AUTHTOKENDATA" /\ queue'[Len(queue)].url = answers'[w][1]
          /\ queue'[Len(queue) + 1].msg = "WM_CLOSE"
      BY <1>1
    <2> QED
      BY <2>1, <2>2, <2>3 DEF Posted, IsApp
  <1>2. ASSUME NEW k \in 1 .. Len(queue) - 1, \A i \in 1 .. k - 1 : IsApp(i),
               queue[k].msg = "WM_USER_AUTHTOKENDATA", queue[k].url = answers[w][1],
               queue[k + 1].msg = "WM_CLOSE"
        PROVE  Posted(w)'
    <2>1. k # 1
      BY <1>2
    <2>2. k - 1 \in 1 .. Len(queue') - 1 /\ k \in 1 .. Len(queue) - 1 /\ k - 1 \in 1 .. Len(queue) - 1
      BY <2>1
    <2>3. queue'[k - 1] = queue[k] /\ queue'[k] = queue[k + 1] /\ (k - 1) + 1 = k
      BY <2>2
    <2>4. \A i \in 1 .. (k - 1) - 1 : queue'[i].msg = "WM_APP"
      <3> SUFFICES ASSUME NEW i \in 1 .. (k - 1) - 1 PROVE queue'[i].msg = "WM_APP"
        OBVIOUS
      <3>1. i + 1 \in 1 .. k - 1 /\ i \in 1 .. Len(queue) - 1
        OBVIOUS
      <3> QED
        BY <1>2, <3>1 DEF IsApp
    <2> DEFINE m == k - 1
    <2>5. /\ m \in 1 .. Len(queue') - 1 /\ \A i \in 1 .. m - 1 : IsApp(i)'
          /\ queue'[m].msg = "WM_USER_AUTHTOKENDATA" /\ queue'[m].url = answers'[w][1]
          /\ queue'[m + 1].msg = "WM_CLOSE"
      BY <1>2, <2>2, <2>3, <2>4 DEF IsApp
    <2>6. answers'[w] # << >>
      BY DEF Posted
    <2> HIDE DEF m
    <2> QED
      BY <2>5, <2>6 DEF Posted
  <1> QED
    BY <1>1, <1>2 DEF Posted

(* A token read stays the one the loop will return.                        *)
LEMMA TakenApp == ASSUME TypeOK, OnApp, NEW w \in Win, NEW t, Taken(w, t) PROVE Taken(w, t)'
  <1> USE AppQueue
  <1>1. PICK k \in 1 .. Len(queue) : queue[k].msg = "WM_CLOSE" /\ \A i \in 1 .. k - 1 : IsApp(i)
    BY DEF Taken
  <1>2. k # 1
    BY <1>1
  <1>3. k - 1 \in 1 .. Len(queue') /\ k - 1 \in 1 .. Len(queue) - 1 /\ queue'[k - 1] = queue[k]
    BY <1>2
  <1>4. \A i \in 1 .. (k - 1) - 1 : queue'[i].msg = "WM_APP"
    <2> SUFFICES ASSUME NEW i \in 1 .. (k - 1) - 1 PROVE queue'[i].msg = "WM_APP"
      OBVIOUS
    <2>1. i + 1 \in 1 .. k - 1 /\ i \in 1 .. Len(queue) - 1
      OBVIOUS
    <2> QED
      BY <1>1, <2>1 DEF IsApp
  <1> QED
    BY <1>1, <1>3, <1>4 DEF Taken, IsApp, Due

(* A further answer goes behind the first one.                             *)
LEMMA UrlQueue ==
  ASSUME TypeOK, NEW w \in Win, NEW u \in Url, TranslateUrl(w, u)
  PROVE  /\ Len(queue) \in Nat /\ Len(queue') = Len(queue) + 1 /\ queue' # << >>
         /\ \A i \in 1 .. Len(queue) : queue'[i] = queue[i]
         /\ queue'[Len(queue) + 1].msg = "WM_APP" /\ queue'[Len(queue) + 1].url = u
         /\ answers'[w] = Append(answers[w], u) /\ answers[w] \in Seq(Url)
         /\ answers'[w] # << >>
         /\ answers[w] # << >> => answers'[w][1] = answers[w][1]
         /\ answers[w] = << >> => answers'[w][1] = u
         /\ \A v \in Win : v # w => answers'[v] = answers[v]
         /\ missed' = missed
  <1>1. Msg("WM_APP", w, u) \in Messages
    BY DEF Msg, Messages
  <1>2. queue' = Append(queue, Msg("WM_APP", w, u)) /\ missed' = missed
    BY DEF TranslateUrl
  <1>3. /\ Len(queue) \in Nat /\ Len(queue') = Len(queue) + 1
        /\ \A i \in 1 .. Len(queue) : queue'[i] = queue[i]
        /\ queue'[Len(queue) + 1] = Msg("WM_APP", w, u)
    BY <1>1, <1>2, Typed
  <1>7. queue' # << >>
    BY <1>1, <1>2, Typed
  <1>4. /\ answers'[w] = Append(answers[w], u) /\ answers[w] \in Seq(Url)
        /\ \A v \in Win : v # w => answers'[v] = answers[v]
    BY DEF TranslateUrl, TypeOK
  <1>5. answers[w] # << >> => Len(answers[w]) \in Nat \ {0}
    BY <1>4, EmptySeq
  <1>6. /\ answers'[w] # << >>
        /\ answers[w] # << >> => answers'[w][1] = answers[w][1]
        /\ answers[w] = << >> => answers'[w][1] = u
    BY <1>4, <1>5
  <1> QED
    BY <1>2, <1>3, <1>4, <1>6, <1>7 DEF Msg

(* A further answer comes behind the first.                                *)
LEMMA PostedUrl ==
  ASSUME TypeOK, NEW w \in Win, NEW u \in Url, TranslateUrl(w, u),
         Posted(w) \/ (answers[w] = << >> /\ queue = << >>), Mail
  PROVE  Posted(w)'
  <1> USE UrlQueue
  <1>1. CASE answers[w] = << >> /\ queue = << >>
    <2>1. Len(queue') = 1 /\ queue'[1].msg = "WM_APP" /\ queue'[1].url = answers'[w][1]
      BY <1>1
    <2>2. queue' # << >> /\ w \notin missed'
      BY <1>1 DEF Mail
    <2> QED
      BY <2>1, <2>2 DEF Posted, IsApp
  <1>2. CASE /\ answers[w] # << >> /\ queue # << >> /\ queue[1].url = answers[w][1]
             /\ \A i \in 1 .. Len(queue) : IsApp(i)
    <2>1. Len(queue) \in Nat \ {0}
      BY <1>2, Typed, EmptySeq
    <2>2. queue'[1] = queue[1] /\ queue' # << >>
      BY <2>1
    <2>3. \A i \in 1 .. Len(queue') : queue'[i].msg = "WM_APP"
      BY <1>2 DEF IsApp
    <2> QED
      BY <1>2, <2>2, <2>3 DEF Posted, IsApp
  <1>3. ASSUME NEW k \in 1 .. Len(queue) - 1, \A i \in 1 .. k - 1 : IsApp(i), answers[w] # << >>,
               queue[k].msg = "WM_USER_AUTHTOKENDATA", queue[k].url = answers[w][1],
               queue[k + 1].msg = "WM_CLOSE"
        PROVE  Posted(w)'
    <2>1. k \in 1 .. Len(queue') - 1 /\ queue'[k] = queue[k] /\ queue'[k + 1] = queue[k + 1]
      OBVIOUS
    <2>2. \A i \in 1 .. k - 1 : queue'[i].msg = "WM_APP"
      BY <1>3 DEF IsApp
    <2>3. /\ answers'[w] # << >> /\ answers'[w][1] = answers[w][1] /\ w \notin missed'
      BY <1>3 DEF Posted
    <2>4. /\ queue'[k].msg = "WM_USER_AUTHTOKENDATA" /\ queue'[k].url = answers'[w][1]
          /\ queue'[k + 1].msg = "WM_CLOSE" /\ k \in 1 .. Len(queue') - 1
      BY <1>3, <2>1, <2>3
    <2> HIDE UrlQueue
    <2> QED
      BY <2>2, <2>3, <2>4 DEF Posted, IsApp
  <1> QED
    BY <1>1, <1>2, <1>3 DEF Posted

(* A token read is not disturbed by a further answer.                      *)
LEMMA TakenUrl ==
  ASSUME TypeOK, NEW w \in Win, NEW u \in Url, TranslateUrl(w, u), NEW t, Taken(w, t)
  PROVE  Taken(w, t)'
  <1> USE UrlQueue
  <1>1. PICK k \in 1 .. Len(queue) : queue[k].msg = "WM_CLOSE" /\ \A i \in 1 .. k - 1 : IsApp(i)
    BY DEF Taken
  <1>2. k \in 1 .. Len(queue') /\ queue'[k] = queue[k]
    OBVIOUS
  <1>3. \A i \in 1 .. k - 1 : queue'[i].msg = "WM_APP"
    <2> SUFFICES ASSUME NEW i \in 1 .. k - 1 PROVE queue'[i].msg = "WM_APP"
      OBVIOUS
    <2>1. i \in 1 .. Len(queue) /\ queue[i].msg = "WM_APP"
      BY <1>1 DEF IsApp
    <2> QED
      BY <2>1
  <1>4. answers'[w] # << >> /\ answers'[w][1] = answers[w][1]
    BY DEF Taken
  <1>5. t \in Due(w)'
    BY <1>4 DEF Taken, Due
  <1> QED
    BY <1>1, <1>2, <1>3, <1>4, <1>5 DEF Taken, IsApp

(* When the token is dispatched, the window's WM_CLOSE is next.            *)
LEMMA TokenNext ==
  ASSUME TypeOK, OnToken \/ OnTokenElsewhere, NEW w \in Win, Posted(w)
  PROVE  /\ 1 \in 1 .. Len(queue') /\ queue'[1].msg = "WM_CLOSE" /\ \A i \in 1 .. 1 - 1 : IsApp(i)'
         /\ Head(queue).url = answers[w][1] /\ answers[w] # << >> /\ w \notin missed
         /\ answers' = answers
  <1>1. /\ Head(queue) = queue[1] /\ Len(queue) \in Nat \ {0} /\ queue' = Tail(queue)
        /\ Len(queue') = Len(queue) - 1 /\ answers' = answers
        /\ \A i \in 1 .. Len(queue) - 1 : queue'[i] = queue[i + 1]
        /\ queue[1].msg = "WM_USER_AUTHTOKENDATA"
    BY Typed, Tailed DEF OnToken, OnTokenElsewhere
  <1>2. PICK k \in 1 .. Len(queue) - 1 :
           /\ \A i \in 1 .. k - 1 : IsApp(i)
           /\ queue[k].msg = "WM_USER_AUTHTOKENDATA" /\ queue[k].url = answers[w][1]
           /\ queue[k + 1].msg = "WM_CLOSE"
    BY <1>1 DEF Posted, IsApp
  <1>3. k = 1
    BY <1>1, <1>2 DEF IsApp
  <1>4. 1 \in 1 .. Len(queue') /\ queue'[1].msg = "WM_CLOSE" /\ \A i \in 1 .. 1 - 1 : IsApp(i)'
    BY <1>1, <1>2, <1>3
  <1> QED
    BY <1>1, <1>2, <1>3, <1>4 DEF Posted

(* The loop takes the token.                                               *)
LEMMA TokenTaken ==
  ASSUME TypeOK, OnToken, NEW w \in Win, Posted(w), NEW t, t = Read(Head(queue).url)
  PROVE  Taken(w, t)'
  <1>1. missed' = missed /\ t \in {Text(answers[w][1]), Garbage}
    BY TokenNext DEF OnToken, Read
  <1> QED
    BY <1>1, TokenNext DEF Taken, Due

(* Another loop takes it, and the call will return nil.                    *)
LEMMA TokenElsewhere ==
  ASSUME TypeOK, OnTokenElsewhere, NEW w \in Win, Posted(w), w \in missed'
  PROVE  Taken(w, NULL)'
  BY TokenNext DEF Taken, Due

-----------------------------------------------------------------------------
(* A call that is not nested                                               *)

(* Nothing has been returned at the start.                                 *)
LEMMA SingleInit == Init => Single
  BY DEF Init, Single, Open

(* What Single says of the call in progress.                               *)
LEMMA OneCall ==
  ASSUME TypeOK, Mail, Single, ~nested, adrift = 0
  PROVE  /\ frames = << >> => Open = {} /\ queue = << >>
         /\ frames # << >> => /\ Len(frames) = 1 /\ Open \subseteq {frames[1].win}
                              /\ frames[1] \in Calls /\ Call(frames[1])
         /\ Open = {} => queue = << >>
  <1>1. Open = {} => queue = << >>
    <2> SUFFICES ASSUME Open = {}, queue # << >> PROVE FALSE
      OBVIOUS
    <2>1. 1 \in 1 .. Len(queue)
      BY Typed, Tailed
    <2> QED
      BY <2>1 DEF Mail
  <1>2. frames # << >> => frames[1] \in Calls
    BY Typed, Tailed
  <1> QED
    BY <1>1, <1>2 DEF Single

(* The call of an open window, the only window that is open.               *)
LEMMA CallOfOpen ==
  ASSUME TypeOK, Mail, Single, ~nested, adrift = 0, NEW w \in Open
  PROVE  /\ frames # << >> /\ Len(frames) = 1 /\ frames[1] \in Calls
         /\ frames[1].win = w /\ Open = {w}
         /\ \/ frames[1].tmp = NULL /\ answers[w] = << >> /\ queue = << >>
            \/ frames[1].tmp = NULL /\ Posted(w)
            \/ Taken(w, frames[1].tmp)
  <1>1. frames # << >> /\ Len(frames) = 1 /\ frames[1] \in Calls /\ frames[1].win = w
    BY OneCall
  <1> QED
    BY <1>1, OneCall DEF Call

(* What a call has returned does not change any more.                      *)
LEMMA ReturnStays ==
  ASSUME TypeOK, Mail, Single, ~nested, adrift = 0, returned' = returned,
         \A w \in Win : w \in Open' => w \in Open \/ window[w] = "none",
         \A w \in Win : window'[w] = "none" => window[w] = "none",
         \A w \in Win : (answers'[w] = answers[w] /\ (w \in missed' <=> w \in missed)) \/ w \in Open
  PROVE  /\ returned' # NULL => returned'.win \notin Open' /\ Result(returned.win, returned.token)'
         /\ returned' # NULL /\ returned'.win # NULL => window'[returned'.win] # "none"
  <1> SUFFICES ASSUME returned # NULL
               PROVE  /\ returned.win \notin Open' /\ Result(returned.win, returned.token)'
                      /\ returned.win # NULL => window'[returned.win] # "none"
    BY DEF Result
  <1>1. PICK w, t : returned.win = w /\ returned.token = t
    OBVIOUS
  <1>2. w \in Win \cup {NULL} /\ NULL \notin Win
    BY <1>1, AuthAssumption DEF TypeOK, Results
  <1>3. w \notin Open /\ Result(w, t) /\ (w # NULL => window[w] # "none")
    BY <1>1 DEF Single
  <1>4. w \notin Open' /\ (w # NULL => window'[w] # "none")
    BY <1>2, <1>3 DEF Open
  <1>5. Result(w, t)'
    BY <1>2, <1>3 DEF Result, Due
  <1> QED
    BY <1>1, <1>4, <1>5, returned' = returned DEF Result

(* A call that is not nested keeps to its own window, each step of every   *)
(* kind.                                                                   *)
LEMMA SingleStep == ASSUME TypeOK, Mail, Loops, Single, Next PROVE Single'
  <1> SUFFICES ASSUME ~nested', adrift' = 0
               PROVE  /\ frames' = << >> => Open' = {}
                      /\ frames' # << >> => Len(frames') = 1 /\ Open' \subseteq {frames'[1].win} /\ Call(frames[1])'
                      /\ returned' # NULL => returned'.win \notin Open' /\ Result(returned.win, returned.token)'
                      /\ returned' # NULL /\ returned'.win # NULL => window'[returned'.win] # "none"
    BY DEF Single
  <1> DEFINE Goal ==
               /\ frames' = << >> => Open' = {}
               /\ frames' # << >> => Len(frames') = 1 /\ Open' \subseteq {frames'[1].win} /\ Call(frames[1])'
             Kept ==
               /\ returned' # NULL => returned'.win \notin Open' /\ Result(returned.win, returned.token)'
               /\ returned' # NULL /\ returned'.win # NULL => window'[returned'.win] # "none"
  <1>1. ASSUME NEW w \in Win, NEW p \in BOOLEAN, NEW page \in {"open", "blank"}, Explore(w, p, page)
        PROVE  Goal /\ Kept
    <2>1. /\ ~nested /\ adrift = 0 /\ frames = << >> /\ window[w] = "none"
          /\ UNCHANGED <<queue, answers, returned, missed>>
      BY <1>1 DEF Explore, Enter
    <2>2. Open = {} /\ queue = << >> /\ Open' = {w}
      BY <1>1, <2>1, OneCall, Opened DEF Explore
    <2>3. frames' = <<Frame(w, p)>>
      BY <1>1, <2>1 DEF Explore, Enter
    <2>4. answers[w] = << >>
      BY <2>1 DEF Mail
    <2>5. Len(frames') = 1 /\ frames'[1].win = w /\ frames'[1].tmp = NULL
      BY <2>3 DEF Frame
    <2>6. Call(frames[1])'
      BY <2>1, <2>2, <2>4, <2>5 DEF Call
    <2>7. Goal
      BY <2>2, <2>3, <2>5, <2>6
    <2>8. \A v \in Win : window'[v] = "none" => window[v] = "none"
      BY <1>1 DEF Explore, TypeOK
    <2>9. Kept
      BY <2>1, <2>2, <2>8, ReturnStays
    <2> QED
      BY <2>7, <2>9
  <1>2. ASSUME NEW p \in BOOLEAN, ExploreNoBrowser(p) \/ ExploreNoWindow(p) PROVE Goal /\ Kept
    <2>1. Enter(Frame(NULL, p)) /\ UNCHANGED <<window, queue, answers, returned, adrift, missed>>
      BY <1>2 DEF ExploreNoBrowser, ExploreNoWindow
    <2>2. ~nested /\ adrift = 0 /\ frames = << >> /\ Open' = Open
      BY <2>1 DEF Enter, Open
    <2>7. frames' = <<Frame(NULL, p)>>
      BY <2>1, <2>2 DEF Enter
    <2>3. Open' = {}
      BY <2>2, OneCall
    <2>4. Len(frames') = 1 /\ frames'[1].win = NULL /\ frames'[1].tmp = NULL
      BY <2>7 DEF Frame
    <2>5. Call(frames[1])'
      BY <2>3, <2>4 DEF Call, Result
    <2>6. Kept
      BY <2>1, <2>2, ReturnStays
    <2> QED
      BY <2>2, <2>3, <2>4, <2>5, <2>6
  <1>3. ASSUME Unwind \/ \E w \in Win, p \in BOOLEAN : NoTitle(w, p) PROVE FALSE
    BY <1>3 DEF Unwind, NoTitle, TypeOK
  <1>4. ASSUME NEW w \in Win, NEW u \in Url, TranslateUrl(w, u) PROVE Goal /\ Kept
    <2>1. /\ ~nested /\ adrift = 0 /\ UNCHANGED <<missed, frames, window, returned>>
          /\ w \in Open /\ Open' = Open
      BY <1>4 DEF TranslateUrl, Open
    <2>2. PICK t : frames[1].tmp = t
      OBVIOUS
    <2>3. (t = NULL /\ Posted(w)') \/ Taken(w, t)'
      <3>1. (t = NULL /\ (Posted(w) \/ (answers[w] = << >> /\ queue = << >>))) \/ Taken(w, t)
        BY <2>1, <2>2, CallOfOpen
      <3>2. Posted(w) \/ (answers[w] = << >> /\ queue = << >>) => Posted(w)'
        BY <1>4, PostedUrl
      <3>3. Taken(w, t) => Taken(w, t)'
        BY <1>4, TakenUrl
      <3> QED
        BY <3>1, <3>2, <3>3
    <2>4. frames # << >> /\ Len(frames) = 1 /\ frames[1].win = w /\ Open = {w}
      BY <2>1, CallOfOpen
    <2>5. Call(frames[1])'
      BY <2>1, <2>2, <2>3, <2>4 DEF Call
    <2>6. Kept
      BY <1>4, <2>1, UrlQueue, ReturnStays
    <2> QED
      BY <2>1, <2>4, <2>5, <2>6
  <1>5. ASSUME (\E u \in Url : BrowserFrees(u)) \/ HostQuits \/ (\E p \in BOOLEAN : NoHeight(p))
        PROVE  Goal /\ Kept
    <2>1. ~nested /\ adrift = 0 /\ UNCHANGED <<missed, frames, window, queue, answers, returned>>
      BY <1>5 DEF BrowserFrees, HostQuits, NoHeight
    <2>2. Open' = Open
      BY <2>1 DEF Open
    <2>3. Call(frames[1]) => Call(frames[1])'
      BY <2>1, <2>2 DEF Call, Posted, Taken, Result, Due, IsApp
    <2>4. Goal
      BY <2>1, <2>2, <2>3, OneCall
    <2>5. Kept
      BY <2>1, <2>2, ReturnStays
    <2> QED
      BY <2>4, <2>5
  <1>6. ASSUME OnApp PROVE Goal /\ Kept
    <2>1. ~nested /\ adrift = 0 /\ UNCHANGED <<missed, frames, window, answers, returned>> /\ queue # << >> /\ Open' = Open
      BY <1>6 DEF OnApp, Open
    <2>2. PICK w \in Open : TRUE
      BY <2>1, OneCall
    <2>3. PICK t : frames[1].tmp = t
      OBVIOUS
    <2>4. w \in Win
      BY DEF Open
    <2>5. (t = NULL /\ Posted(w)') \/ Taken(w, t)'
      BY <1>6, <2>1, <2>3, <2>4, CallOfOpen, PostedApp, TakenApp
    <2>6. frames # << >> /\ Len(frames) = 1 /\ frames[1].win = w /\ Open = {w}
      BY <2>1, CallOfOpen
    <2>7. Call(frames[1])'
      BY <2>1, <2>3, <2>5, <2>6 DEF Call
    <2>8. Kept
      BY <2>1, ReturnStays
    <2> QED
      BY <2>1, <2>6, <2>7, <2>8
  <1>7. ASSUME OnToken PROVE Goal /\ Kept
    <2>1. ~nested /\ adrift = 0 /\ UNCHANGED <<missed, window, answers, returned>> /\ queue # << >> /\ Open' = Open
      BY <1>7 DEF OnToken, Open
    <2>2. PICK w \in Open : TRUE
      BY <2>1, OneCall
    <2>3. PICK t : Read(Head(queue).url) = t
      OBVIOUS
    <2>4. w \in Win
      BY DEF Open
    <2>5. frames # << >> /\ Len(frames) = 1 /\ frames[1] \in Calls /\ frames[1].win = w /\ Open = {w}
      BY <2>1, CallOfOpen
    <2>6. ~Taken(w, frames[1].tmp)
      <3>1. Head(queue) = queue[1] /\ queue[1].msg = "WM_USER_AUTHTOKENDATA" /\ Len(queue) \in Nat \ {0}
        BY <1>7, Typed, Tailed DEF OnToken
      <3> QED
        BY <3>1 DEF Taken, IsApp
    <2>7. Posted(w)
      BY <2>1, <2>6, CallOfOpen
    <2>8. Taken(w, t)'
      BY <1>7, <2>3, <2>4, <2>7, TokenTaken
    <2>9. frames' = [frames EXCEPT ![1].tmp = t]
      BY <1>7, <2>3, <2>5 DEF OnToken
    <2>10. frames' # << >> /\ Len(frames') = 1 /\ frames'[1].win = w /\ frames'[1].tmp = t
      <3>1. Len(frames') = 1 /\ frames'[1] = [frames[1] EXCEPT !.tmp = t]
        BY <2>5, <2>9, Typed
      <3>2. frames' # << >>
        BY <3>1
      <3> QED
        BY <2>5, <3>1, <3>2 DEF Calls
    <2>11. Call(frames[1])'
      BY <2>1, <2>5, <2>8, <2>10 DEF Call
    <2>12. Kept
      BY <2>1, ReturnStays
    <2> QED
      BY <2>1, <2>5, <2>10, <2>11, <2>12
  <1>12. ASSUME OnTokenElsewhere PROVE Goal /\ Kept
    <2>1. /\ ~nested /\ adrift = 0 /\ UNCHANGED <<frames, window, answers, returned>>
          /\ queue # << >> /\ Open' = Open
          /\ Head(queue).msg = "WM_USER_AUTHTOKENDATA" /\ missed' = missed \cup {Head(queue).win}
      BY <1>12 DEF OnTokenElsewhere, Open
    <2>2. PICK w \in Open : TRUE
      BY <2>1, OneCall
    <2>4. w \in Win
      BY DEF Open
    <2>5. frames # << >> /\ Len(frames) = 1 /\ frames[1].win = w /\ Open = {w}
      BY <2>1, CallOfOpen
    <2>3. Head(queue) = queue[1] /\ Len(queue) \in Nat \ {0} /\ missed' = missed \cup {w}
      <3>1. Head(queue) = queue[1] /\ Len(queue) \in Nat \ {0}
        BY <2>1, Typed, Tailed
      <3>2. queue[1].win \in Open
        BY <3>1 DEF Mail
      <3> QED
        BY <2>1, <2>5, <3>1, <3>2
    <2>6. ~Taken(w, frames[1].tmp)
      BY <2>1, <2>3 DEF Taken, IsApp
    <2>7. Posted(w) /\ frames[1].tmp = NULL
      BY <2>1, <2>6, CallOfOpen
    <2>8. Taken(w, NULL)'
      BY <1>12, <2>3, <2>4, <2>7, TokenElsewhere
    <2>11. Call(frames[1])'
      BY <2>1, <2>5, <2>7, <2>8 DEF Call
    <2>12. Kept
      BY <2>1, <2>3, ReturnStays
    <2> QED
      BY <2>1, <2>5, <2>11, <2>12
  <1>8. ASSUME NEW w \in Open, Destroy(w), queue = << >> \/ Head(queue).msg = "WM_CLOSE"
        PROVE  Goal /\ Kept
    <2>1. ~nested /\ adrift = 0 /\ UNCHANGED <<missed, frames, answers, returned>> /\ w \in Win
      BY <1>8 DEF Destroy, Open
    <2>2. frames # << >> /\ Len(frames) = 1 /\ frames[1].win = w /\ Open = {w}
      BY <2>1, CallOfOpen
    <2>3. Open' = {}
      BY <1>8, <2>1, <2>2, Destroyed
    <2>4. ~Posted(w)
      <3>1. queue # << >> => Head(queue) = queue[1] /\ Len(queue) \in Nat \ {0}
        BY Typed, Tailed
      <3>2. queue = << >> => Len(queue) = 0
        OBVIOUS
      <3> QED
        BY <1>8, <3>1, <3>2 DEF Posted, IsApp
    <2>5. Result(w, frames[1].tmp)
      <3>1. w # NULL
        BY <2>1, AuthAssumption
      <3> QED
        BY <2>1, <2>4, <3>1, CallOfOpen DEF Result, Taken
    <2>6. Call(frames[1])'
      BY <2>1, <2>2, <2>3, <2>5 DEF Call, Result, Due
    <2>7. \A v \in Win : window'[v] = "none" => window[v] = "none"
      BY <1>8, <2>1 DEF Destroy, TypeOK
    <2>8. Kept
      BY <2>1, <2>3, <2>7, ReturnStays
    <2> QED
      BY <2>1, <2>2, <2>3, <2>6, <2>8
  <1>9. ASSUME OnQuit PROVE Goal /\ Kept
    <2>1. /\ ~nested /\ adrift = 0 /\ UNCHANGED <<missed, window, queue, answers>> /\ frames # << >> /\ quit
          /\ frames' = Front(frames) /\ returned' = [win |-> Top.win, token |-> Top.tmp]
      BY <1>9 DEF OnQuit
    <2>2. Len(frames) = 1 /\ Call(frames[1])
      BY <2>1, OneCall
    <2>3. Open = {} /\ Open' = {}
      <3>1. IsFiniteSet(Open) /\ Cardinality(Open) \in Nat /\ Cardinality(Open) + 1 <= 1
        BY <2>1, <2>2, FS_CardinalityType DEF Loops, QuitHasALoop
      <3>2. Cardinality(Open) = 0
        BY <3>1
      <3>3. Open = {}
        BY <3>1, <3>2, FS_EmptySet
      <3> QED
        BY <2>1, <3>3 DEF Open
    <2>4. frames' = << >> /\ Top = frames[1]
      BY <2>1, <2>2, Typed, Popped DEF Top
    <2>5. Result(frames[1].win, frames[1].tmp) /\ (frames[1].win # NULL => window[frames[1].win] # "none")
      BY <2>2, <2>3 DEF Call, Mail
    <2>6. returned'.win = frames[1].win /\ returned'.token = frames[1].tmp
      BY <2>1, <2>4
    <2>7. Result(returned.win, returned.token)'
      BY <2>1, <2>5, <2>6 DEF Result, Due
    <2> QED
      BY <2>1, <2>3, <2>4, <2>5, <2>6, <2>7
  <1>10. ASSUME OnClose PROVE Goal /\ Kept
    BY <1>8, <1>10, Closed DEF OnClose
  <1>11. ASSUME NEW w \in Win, UserCloses(w) PROVE Goal /\ Kept
    BY <1>8, <1>11 DEF UserCloses
  <1> HIDE DEF Goal, Kept
  <1>13. Goal /\ Kept
    BY <1>1, <1>2, <1>3, <1>4, <1>5, <1>6, <1>7, <1>9, <1>10, <1>11, <1>12 DEF Next, Loop, Script
  <1> QED
    BY <1>13 DEF Goal, Kept

-----------------------------------------------------------------------------
(* Theorems                                                                *)

(* A stuttering step keeps the invariant.                                  *)
LEMMA IInvStays == IInv /\ UNCHANGED vars => IInv'
  BY DEF IInv, vars, TypeOK, Mail, Loops, QuitHasALoop, WillEnable, Single, Open,
         Call, Posted, Taken, Result, Due, IsApp

(* The invariant the theorems below rest on.                               *)
THEOREM Invariant == Spec => []IInv
  <1>1. Init => IInv
    BY TypeInit, MailInit, LoopsInit, EnableInit, SingleInit DEF IInv
  <1>2. IInv /\ [Next]_vars => IInv'
    BY TypeStep, MailStep, LoopsStep, EnableStep, SingleStep, IInvStays DEF IInv
  <1> QED
    BY <1>1, <1>2, PTL DEF Spec

(* Every variable keeps to its type, whatever the scripts leave out and    *)
(* however the calls are nested: a token is the text of an answer, or what *)
(* the browser left of it (wrapper.c:58-130).                              *)
THEOREM AuthTypes == Spec => []TypeOK
  <1>1. IInv => TypeOK
    BY DEF IInv
  <1> QED
    BY <1>1, Invariant, PTL

(* The open windows and a WM_QUIT that is pending are no more than the     *)
(* loops of the plugin's and what errors have set adrift, so that without  *)
(* such an error no WM_QUIT reaches the host (wrapper.c:96-119,            *)
(* ui.c:96-99, disk.c:176-181).                                            *)
THEOREM EveryQuitHasALoop == Spec => []QuitHasALoop
  <1>1. IInv => QuitHasALoop
    BY DEF IInv, Loops
  <1> QED
    BY <1>1, Invariant, PTL

(* The host's window accepts input when no call is left, unless an error   *)
(* has left the call that was to enable it (wrapper.c:88, 120).            *)
THEOREM HostIsEnabledAtRest == Spec => []HostEnabledAtRest
  <1>1. IInv => HostEnabledAtRest
    <2> SUFFICES ASSUME IInv, ~left, frames = << >> PROVE enabled
      BY DEF HostEnabledAtRest
    <2>1. \A i \in 1 .. Len(frames) : FALSE
      OBVIOUS
    <2> QED
      BY <2>1, Zenon DEF IInv, WillEnable
  <1> QED
    BY <1>1, Invariant, PTL

(* A call that is not nested returns the first answer of its own window's  *)
(* page, and nil exactly when there was none or another message loop has   *)
(* taken the token (wrapper.c:113-129, ui.c:92-95).                        *)
THEOREM FirstAnswerIsReturned == Spec => []FirstAnswerReturned
  <1>1. IInv => FirstAnswerReturned
    BY DEF IInv, Single, FirstAnswerReturned, Result, Due
  <1> QED
    BY <1>1, Invariant, PTL
=============================================================================
