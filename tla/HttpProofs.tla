----------------------------- MODULE HttpProofs -----------------------------
(***************************************************************************)
(* Every way out of wp_http closes the connection, and what the script is  *)
(* given is the body the peer sent, for any number of calls, lines and     *)
(* failed reads (HttpClient.tla).                                          *)
(***************************************************************************)
EXTENDS HttpClient, SequenceFacts, TLAPS

Held(k) == IF k \in conn THEN 1 ELSE 0

(* The inductive invariant: what there is of each kind is what conn owns   *)
(* and what the failed lookups have left behind, and conn owns nothing     *)
(* outside the part of the call that has a connection.                     *)
Account ==
    /\ live \in [Kind -> Int] /\ unresolved \in Int /\ conn \subseteq Kind
    /\ live["socket"] = Held("socket") /\ live["host"] = Held("host")
    /\ live["conn"] = unresolved + Held("conn")
    /\ live["ssl"] <= unresolved + Held("ssl")
    /\ pc \in {"idle", "connect"} => conn = {}

(* A call has just begun or returned: no connection (wrapper.c:177-204).   *)
LEMMA InitAccount == Init => Account
  BY DEF Init, Account, Held, Kind

(* Giving back what conn owns leaves the account balanced                  *)
(* (http.c:274-289).                                                       *)
LEMMA DisconnectAccount ==
  ASSUME Account, Disconnect, unresolved' = unresolved
  PROVE  Account'
  <1>1. live' = [k \in Kind |-> live[k] - Held(k)]
    BY DEF Disconnect, Release, Held
  <1>2. /\ live["socket"] = Held("socket") /\ live["host"] = Held("host")
        /\ live["conn"] = unresolved + Held("conn")
        /\ live["ssl"] <= unresolved + Held("ssl")
        /\ live \in [Kind -> Int] /\ unresolved \in Int
    BY DEF Account
  <1>3. \A k : Held(k) \in Int
    BY DEF Held
  <1>4. live' \in [Kind -> Int]
    BY <1>1, <1>2, <1>3
  <1>5. /\ live'["socket"] = 0 /\ live'["host"] = 0
        /\ live'["conn"] = unresolved /\ live'["ssl"] <= unresolved
    BY <1>1, <1>2, <1>3 DEF Kind
  <1>6. conn' = {}
    BY DEF Disconnect
  <1> QED
    BY <1>2, <1>4, <1>5, <1>6 DEF Account, Held

(* Every step keeps the account (wrapper.c:132-205, http.c:216-341).       *)
LEMMA NextAccount == Account /\ [Next]_vars => Account'
  <1> SUFFICES ASSUME Account, [Next]_vars PROVE Account'
    OBVIOUS
  <1>1. CASE Call
    <2>1. PICK ks \in {{}, {"request"}} : live' = [k \in Kind |-> live[k] + IF k \in ks THEN 1 ELSE 0]
      BY <1>1 DEF Call, Obtain
    <2>2. live' \in [Kind -> Int]
      BY <2>1 DEF Account
    <2>3. \A k \in Kind \ {"request"} : live'[k] = live[k]
      BY <2>1 DEF Account
    <2> QED
      BY <1>1, <2>2, <2>3 DEF Account, Held, Call, Kind
  <1>2. CASE ConnectFails
    BY <1>2 DEF ConnectFails, Return, history, Account, Held
  <1>3. ASSUME NEW ssl \in Ssl, HostNotFound(ssl) PROVE Account'
    <2>1. live' = [k \in Kind |-> live[k] + IF k \in {"conn"} \cup ssl THEN 1 ELSE 0]
      BY <1>3 DEF HostNotFound, Obtain
    <2>2. live' \in [Kind -> Int] /\ unresolved' = unresolved + 1
      BY <1>3, <2>1 DEF HostNotFound, Account
    <2>3. /\ live'["socket"] = live["socket"] /\ live'["host"] = live["host"]
          /\ live'["conn"] = live["conn"] + 1 /\ live'["ssl"] <= live["ssl"] + 1
      BY <2>1 DEF Kind, Ssl, Account
    <2> QED
      BY <1>3, <2>2, <2>3 DEF Account, Held, HostNotFound, Return, Kind
  <1>4. ASSUME NEW ssl \in Ssl, Connect(ssl) PROVE Account'
    <2>1. live' = [k \in Kind |-> live[k] + IF k \in Parts(ssl) THEN 1 ELSE 0]
      BY <1>4 DEF Connect, Obtain
    <2>2. conn = {} /\ conn' = Parts(ssl) /\ pc' = "request" /\ unresolved' = unresolved
      BY <1>4 DEF Connect, Account, history
    <2>3. live' \in [Kind -> Int] /\ Parts(ssl) \subseteq Kind
      BY <2>1 DEF Account, Parts, Kind, Ssl
    <2>4. /\ live'["socket"] = live["socket"] + 1 /\ live'["host"] = live["host"] + 1
          /\ live'["conn"] = live["conn"] + 1
          /\ live'["ssl"] = live["ssl"] + IF "ssl" \in ssl THEN 1 ELSE 0
      BY <2>1 DEF Kind, Parts, Ssl
    <2>5. Parts(ssl) \cap {"socket", "host", "conn"} = {"socket", "host", "conn"}
          /\ ("ssl" \in Parts(ssl) <=> "ssl" \in ssl)
      BY DEF Parts, Ssl
    <2> QED
      BY <2>2, <2>3, <2>4, <2>5 DEF Account, Held, Kind
  <1>5. CASE RequestMissing \/ Parse
    BY <1>5, DisconnectAccount DEF RequestMissing, Parse, history
  <1>6. CASE Send
    BY <1>6 DEF Send, history, Account, Held
  <1>7. ASSUME NEW lines, NEW full, Recv(lines, full) PROVE Account'
    BY <1>7 DEF Recv, history, Account, Held
  <1>8. ASSUME NEW lines, RecvNoMemory(lines) PROVE Account'
    BY <1>8 DEF RecvNoMemory, history, Account, Held
  <1>9. CASE RecvFails
    BY <1>9 DEF RecvFails, history, Account, Held
  <1>10. CASE RecvEnds
    BY <1>10 DEF RecvEnds, history, Account, Held
  <1>11. CASE ParseOverrun
    <2>1. CASE Crash
      BY <2>1 DEF Crash, history, Account, Held
    <2>2. CASE ~Crash
      BY <1>11, <2>2, DisconnectAccount DEF ParseOverrun, history
    <2> QED
      BY <2>1, <2>2
  <1>12. CASE HeaderOverrun \/ NoResponse
    BY <1>12 DEF HeaderOverrun, NoResponse, Crash, history, Account, Held
  <1>13. CASE UNCHANGED vars
    BY <1>13 DEF vars, Account, Held
  <1> QED
    BY <1>1, <1>2, <1>3, <1>4, <1>5, <1>6, <1>7, <1>8, <1>9, <1>10, <1>11, <1>12, <1>13 DEF Next

(* Between two calls no socket is open and nothing of a connection is left *)
(* but what the failed lookups left (wrapper.c:192-203, http.c:236-290).   *)
THEOREM Closed == Spec => []ConnectionsClosed
  <1>1. Account => ConnectionsClosed
    BY DEF Account, ConnectionsClosed, Held
  <1> QED
    BY <1>1, InitAccount, NextAccount, PTL DEF Spec

-----------------------------------------------------------------------------
(* What is received, and what the script is given of it                    *)

(* As long as nothing goes wrong the text received is what the peer has    *)
(* sent, and there is no body before the call returns.                     *)
Received ==
    /\ sent \in Seq(Line) /\ mishap \subseteq {"full", "error", "memory"}
    /\ pc \notin {"idle", "crashed"} => body = NULL
    /\ pc \in {"connect", "request"} => sent = << >> /\ tmp = NULL
    /\ mishap = {} /\ pc \in {"recv", "parse"} => tmp = IF sent = << >> THEN NULL ELSE sent

Intact == Received /\ BodyIsTheAnswers /\ CompleteAnswerIsSafe

(* Lines received are told from no text at all.                            *)
LEMMA NullIsNoText == \A t \in Seq(Line) : t # NULL
  BY ByteAssumption

(* A read brings at least one line.                                        *)
LEMMA ChunkLines == ASSUME NEW c \in Chunk PROVE c \in Seq(Line) /\ c # << >>
  <1>1. ASSUME NEW l \in Line, c = <<l>> PROVE c \in Seq(Line) /\ c # << >>
    BY <1>1
  <1>2. ASSUME NEW l \in Line, NEW m \in Line, c = <<l, m>> PROVE c \in Seq(Line) /\ c # << >>
    BY <1>2
  <1> QED
    BY <1>1, <1>2 DEF Chunk

(* The body of a text begins behind its first empty line                   *)
(* (http.c:160-191).                                                       *)
LEMMA BodyBegins ==
  ASSUME NEW S, NEW t \in Seq(S), Blanks(t) # {}
  PROVE  \E n \in 2 .. Len(t) :
            /\ t[n] = "blank" /\ \A i \in 2 .. n - 1 : t[i] # "blank"
            /\ BodyOf(t) = SubSeq(t, n + 1, Len(t))
  <1> DEFINE n == Min(Blanks(t))
  <1>1. Blanks(t) \in SUBSET Nat
    BY DEF Blanks
  <1>2. \E x \in Blanks(t) : \A y \in Blanks(t) : x <= y
    BY <1>1, Least
  <1>3. n \in Blanks(t) /\ \A y \in Blanks(t) : n <= y
    BY <1>2 DEF Min
  <1>4. BodyOf(t) = SubSeq(t, n + 1, Len(t))
    BY DEF BodyOf
  <1> HIDE DEF n
  <1>5. n \in 2 .. Len(t) /\ t[n] = "blank"
    BY <1>3 DEF Blanks
  <1>6. ASSUME NEW i \in 2 .. n - 1, t[i] = "blank" PROVE FALSE
    <2>1. i \in Blanks(t)
      BY <1>5, <1>6 DEF Blanks
    <2> QED
      BY <1>3, <1>5, <2>1
  <1> QED
    BY <1>4, <1>5, <1>6

(* It holds none of the bytes from behind the text.                        *)
LEMMA BodyIsText ==
  ASSUME NEW t \in Seq(Line), NEW n \in 2 .. Len(t)
  PROVE  SubSeq(t, n + 1, Len(t)) # <<Garbage>>
  <1>1. SubSeq(t, n + 1, Len(t)) \in Seq(Line)
    OBVIOUS
  <1>2. <<Garbage>> \notin Seq(Line)
    BY ByteAssumption
  <1> QED
    BY <1>1, <1>2

(* Nothing has been received at the start.                                 *)
LEMMA InitIntact == Init => Intact
  BY DEF Init, Intact, Received, BodyIsTheAnswers, CompleteAnswerIsSafe

(* A read that falls short of the buffer adds its lines (http.c:318-335).  *)
LEMMA RecvIntact ==
  ASSUME Intact, NEW lines \in Chunk, NEW full \in BOOLEAN, Recv(lines, full)
  PROVE  Intact'
  <1>1. lines \in Seq(Line) /\ lines # << >>
    BY ChunkLines
  <1>2. /\ sent \in Seq(Line) /\ sent' = sent \o lines /\ pc = "recv" /\ pc' = "recv"
        /\ body = NULL /\ body' = NULL
        /\ mishap' = mishap \cup IF full THEN {"full"} ELSE {}
    BY DEF Recv, Intact, Received
  <1>3. sent' \in Seq(Line) /\ sent' # << >> /\ (sent = << >> => sent' = lines)
    <2>1. sent' \in Seq(Line) /\ Len(lines) # 0 /\ Len(sent') = Len(sent) + Len(lines)
      BY <1>1, <1>2, EmptySeq
    <2>2. sent' # << >>
      BY <1>1, <1>2, <2>1, EmptySeq, LenProperties
    <2>3. sent = << >> => sent' = lines
      BY <1>1, <1>2
    <2> QED
      BY <2>1, <2>2, <2>3
  <1>4. ASSUME mishap' = {} PROVE tmp' = sent'
    <2>1. ~full /\ mishap = {} /\ tmp = IF sent = << >> THEN NULL ELSE sent
      BY <1>2, <1>4 DEF Intact, Received
    <2>2. PICK rest \in {<< >>, <<Garbage>>, <<Garbage, "blank">>} :
             (rest # << >> => full) /\ buff' = lines \o rest
      BY DEF Recv
    <2>3. buff' = lines
      BY <1>1, <2>1, <2>2
    <2>4. tmp' = IF tmp = NULL THEN lines ELSE tmp \o lines
      BY <2>3 DEF Recv, Keep
    <2>5. sent # NULL
      BY <1>2, NullIsNoText
    <2> QED
      BY <1>2, <1>3, <2>1, <2>4, <2>5
  <1>5. mishap' \subseteq {"full", "error", "memory"}
    BY <1>2 DEF Intact, Received
  <1>6. body' # <<Garbage>>
    <2>1. <<Garbage>> \in Seq(Line \cup {Garbage})
      OBVIOUS
    <2> QED
      BY <1>2, <2>1, ByteAssumption
  <1> QED
    BY <1>2, <1>3, <1>4, <1>5, <1>6 DEF Intact, Received, BodyIsTheAnswers, CompleteAnswerIsSafe

(* Every step of a call keeps what was received apart from what was lost.  *)
LEMMA NextIntact == Intact /\ [Next]_vars => Intact'
  <1> SUFFICES ASSUME Intact, [Next]_vars PROVE Intact'
    OBVIOUS
  <1>1. NULL # <<Garbage>> /\ \A t \in Seq(Line) : t # NULL /\ t # <<Garbage>>
    <2>1. <<Garbage>> \in Seq(Line \cup {Garbage}) /\ <<Garbage>> \notin Seq(Line)
      BY ByteAssumption
    <2> QED
      BY <2>1, ByteAssumption, NullIsNoText
  <1>2. CASE Call
    BY <1>1, <1>2 DEF Call, Intact, Received, BodyIsTheAnswers, CompleteAnswerIsSafe
  <1>3. CASE ConnectFails \/ RequestMissing \/ \E ssl \in Ssl : HostNotFound(ssl)
    <2>1. pc \in {"connect", "request"} /\ pc' = "idle" /\ body' = NULL /\ UNCHANGED <<sent, tmp, mishap>>
      BY <1>3 DEF ConnectFails, RequestMissing, HostNotFound, Return, received
    <2> QED
      BY <1>1, <2>1 DEF Intact, Received, BodyIsTheAnswers, CompleteAnswerIsSafe
  <1>4. CASE Send \/ \E ssl \in Ssl : Connect(ssl)
    BY <1>1, <1>4 DEF Send, Connect, received, Intact, Received, BodyIsTheAnswers, CompleteAnswerIsSafe
  <1>5. ASSUME NEW lines \in Chunk, RecvNoMemory(lines) PROVE Intact'
    <2>1. lines \in Seq(Line)
      BY ChunkLines
    <2>2. sent' \in Seq(Line) /\ mishap' = mishap \cup {"memory"} /\ body' = body
          /\ pc = "recv" /\ pc' \in {"recv", "crashed"}
      BY <1>5, <2>1 DEF RecvNoMemory, Intact, Received
    <2> QED
      BY <2>2 DEF Intact, Received, BodyIsTheAnswers, CompleteAnswerIsSafe
  <1>6. CASE RecvFails
    BY <1>1, <1>6 DEF RecvFails, Intact, Received, BodyIsTheAnswers, CompleteAnswerIsSafe
  <1>7. CASE RecvEnds
    BY <1>1, <1>7 DEF RecvEnds, received, Intact, Received, BodyIsTheAnswers, CompleteAnswerIsSafe
  <1>8. CASE Parse
    <2>1. /\ pc = "parse" /\ pc' = "idle" /\ UNCHANGED <<tmp, sent, mishap>>
          /\ body' \in {BodyOf(tmp), NULL} /\ Blanks(tmp) # {} /\ tmp # NULL
      BY <1>8 DEF Parse, Return, received, HasStatus
    <2>2. ASSUME mishap = {}, body' # NULL
          PROVE  \E n \in 2 .. Len(sent) :
                    /\ sent[n] = "blank" /\ \A i \in 2 .. n - 1 : sent[i] # "blank"
                    /\ body' = SubSeq(sent, n + 1, Len(sent))
      <3>1. tmp = sent /\ sent \in Seq(Line)
        BY <2>1, <2>2 DEF Intact, Received
      <3> QED
        BY <2>1, <2>2, <3>1, BodyBegins
    <2>3. mishap = {} => body' # <<Garbage>>
      <3>1. sent \in Seq(Line)
        BY DEF Intact, Received
      <3> QED
        BY <1>1, <2>2, <3>1, BodyIsText
    <2> QED
      BY <2>1, <2>2, <2>3 DEF Intact, Received, BodyIsTheAnswers, CompleteAnswerIsSafe
  <1>9. CASE HeaderOverrun \/ ParseOverrun \/ NoResponse
    <2>1. /\ pc = "parse" /\ UNCHANGED <<tmp, sent, mishap>>
          /\ \/ pc' = "crashed"
             \/ pc' = "idle" /\ body' = <<Garbage>>
      BY <1>9 DEF HeaderOverrun, ParseOverrun, NoResponse, Crash, Return, received
    <2>2. mishap = {} /\ sent # << >> => tmp = sent /\ tmp # NULL
      BY <1>1, <2>1 DEF Intact, Received
    <2>3. ~(/\ mishap = {} /\ sent # << >> /\ sent[1] = "status"
            /\ \E n \in 2 .. Len(sent) : sent[n] = "blank" /\ \A i \in 2 .. n : sent[i] # "cut")
      <3> SUFFICES ASSUME mishap = {}, sent # << >>, sent[1] = "status", NEW n \in 2 .. Len(sent),
                          sent[n] = "blank", \A i \in 2 .. n : sent[i] # "cut"
                   PROVE  FALSE
        OBVIOUS
      <3>1. tmp = sent /\ tmp # NULL /\ sent \in Seq(Line)
        BY <2>2 DEF Intact, Received
      <3>2. Head(sent) = "status" /\ "status" # Garbage
        BY <3>1, ByteAssumption DEF Line
      <3>3. HasStatus(tmp) /\ n \in Blanks(tmp) /\ ~NoResponse
        BY <3>1, <3>2 DEF HasStatus, Blanks, NoResponse
      <3>4. ~Overruns(sent)
        <4> SUFFICES ASSUME NEW i \in 2 .. Len(sent), sent[i] \in {"cut", Garbage},
                            \A j \in 2 .. i : sent[j] # "blank"
                     PROVE  FALSE
          BY DEF Overruns
        <4>1. sent[i] \in Line /\ Garbage \notin Line
          BY <3>1, ByteAssumption
        <4>2. sent[i] = "cut"
          BY <4>1
        <4>3. n <= i
          BY <4>2
        <4> QED
          BY <4>3
      <3> QED
        BY <1>9, <3>1, <3>3, <3>4 DEF HeaderOverrun, ParseOverrun
    <2> QED
      BY <2>1, <2>3 DEF Intact, Received, BodyIsTheAnswers, CompleteAnswerIsSafe
  <1>10. CASE UNCHANGED vars
    BY <1>10 DEF vars, Intact, Received, BodyIsTheAnswers, CompleteAnswerIsSafe
  <1> QED
    BY <1>2, <1>3, <1>4, <1>5, <1>6, <1>7, <1>8, <1>9, <1>10, RecvIntact DEF Next

(* Unless a read fails, fills the buffer or finds no memory, a body the    *)
(* script is given is what the peer sent behind the first empty line, in   *)
(* however many reads it came (http.c:318-335, 135-191, wrapper.c:201).    *)
THEOREM BodyIsWhatWasSent == Spec => []BodyIsTheAnswers
  <1>1. Intact => BodyIsTheAnswers
    BY DEF Intact
  <1> QED
    BY <1>1, InitIntact, NextIntact, PTL DEF Spec

(* Then an answer whose first line has version, code and reason phrase,    *)
(* with an empty line and a value in every header line before it, neither  *)
(* ends the process nor lets bytes from behind it through                  *)
(* (http.c:141-193, wrapper.c:196-204).                                    *)
THEOREM CompleteAnswersAreSafe == Spec => []CompleteAnswerIsSafe
  <1>1. Intact => CompleteAnswerIsSafe
    BY DEF Intact
  <1> QED
    BY <1>1, InitIntact, NextIntact, PTL DEF Spec

-----------------------------------------------------------------------------
(* Types                                                                   *)

Bytes == Line \cup {Garbage}

(* What conn owns there is, and a call whose host was not found is over.   *)
Typed ==
    /\ TypeOK
    /\ \A k \in Kind : Held(k) <= live[k]
    /\ pc = "connect" => unresolved < calls

(* A body is a text again.                                                 *)
LEMMA TextTyped == ASSUME NEW t \in Seq(Bytes), Blanks(t) # {} PROVE BodyOf(t) \in Seq(Bytes)
  <1>1. PICK n \in 2 .. Len(t) : BodyOf(t) = SubSeq(t, n + 1, Len(t))
    BY BodyBegins
  <1> QED
    BY <1>1

(* At the start the buffer is garbage and nothing is held.                 *)
LEMMA InitTyped == Init => Typed
  <1> SUFFICES ASSUME Init PROVE Typed
    OBVIOUS
  <1>1. <<Garbage>> \in Seq(Bytes) /\ << >> \in Seq(Line)
    BY DEF Bytes
  <1>2. live \in [Kind -> Nat] /\ \A k \in Kind : Held(k) <= live[k]
    BY DEF Init, Held
  <1>3. calls \in 0 .. MaxCalls /\ repeats \in 0 .. MaxRepeats /\ unresolved \in 0 .. calls
    BY HttpAssumption DEF Init
  <1> QED
    BY <1>1, <1>2, <1>3 DEF Init, Typed, TypeOK, Bytes

(* http_disconnect gives back what the connection has, and no count falls  *)
(* below nothing.                                                          *)
LEMMA DisconnectTyped ==
  ASSUME Typed, Disconnect
  PROVE  live' \in [Kind -> Nat] /\ conn' = {} /\ \A k \in Kind : Held(k)' <= live'[k]
  <1>1. live' = [k \in Kind |-> live[k] - Held(k)] /\ conn' = {}
    BY DEF Disconnect, Release, Held
  <1>2. \A k \in Kind : live[k] \in Nat /\ Held(k) \in {0, 1} /\ Held(k) <= live[k]
    BY DEF Typed, TypeOK, Held
  <1>3. \A k \in Kind : live[k] - Held(k) \in Nat
    BY <1>2
  <1>4. live' \in [Kind -> Nat]
    BY <1>1, <1>3
  <1>5. \A k \in Kind : Held(k)' = 0
    BY <1>1 DEF Held
  <1> QED
    BY <1>1, <1>4, <1>5

(* No step of a call leaves the types.                                     *)
LEMMA NextTyped == Typed /\ Account /\ [Next]_vars => Typed'
  <1> SUFFICES ASSUME Typed, Account, [Next]_vars PROVE Typed'
    OBVIOUS
  <1> USE HttpAssumption
  <1>1. CASE Call
    <2>1. PICK ks \in {{}, {"request"}} : live' = [k \in Kind |-> live[k] + IF k \in ks THEN 1 ELSE 0]
      BY <1>1 DEF Call, Obtain
    <2>2. live' \in [Kind -> Nat] /\ \A k \in Kind : live[k] <= live'[k]
      BY <2>1 DEF Typed, TypeOK
    <2>3. \A k \in Kind : Held(k)' = Held(k) /\ Held(k) <= live'[k]
      BY <1>1, <2>2 DEF Typed, TypeOK, Call, Held
    <2>4. <<Garbage>> \in Seq(Bytes) /\ << >> \in Seq(Line)
      BY DEF Bytes
    <2>5. unresolved' \in 0 .. calls' /\ calls' \in 0 .. MaxCalls /\ unresolved' < calls'
      BY <1>1 DEF Call, Typed, TypeOK
    <2> QED
      BY <1>1, <2>2, <2>3, <2>4, <2>5 DEF Call, Typed, TypeOK, Bytes
  <1>2. CASE ConnectFails
    BY <1>2 DEF ConnectFails, Return, received, history, Typed, TypeOK, Held
  <1>3. ASSUME NEW ssl \in Ssl, HostNotFound(ssl) PROVE Typed'
    <2>1. live' = [k \in Kind |-> live[k] + IF k \in {"conn"} \cup ssl THEN 1 ELSE 0]
      BY <1>3 DEF HostNotFound, Obtain
    <2>2. live' \in [Kind -> Nat] /\ \A k \in Kind : live[k] <= live'[k]
      BY <2>1 DEF Typed, TypeOK
    <2>3. \A k \in Kind : Held(k)' = Held(k) /\ Held(k) <= live'[k]
      BY <1>3, <2>2 DEF Typed, TypeOK, HostNotFound, Held
    <2>4. unresolved' \in 0 .. calls'
      BY <1>3 DEF HostNotFound, Typed, TypeOK
    <2> QED
      BY <1>3, <2>2, <2>3, <2>4 DEF HostNotFound, Return, received, Typed, TypeOK
  <1>4. ASSUME NEW ssl \in Ssl, Connect(ssl) PROVE Typed'
    <2>1. live' = [k \in Kind |-> live[k] + IF k \in Parts(ssl) THEN 1 ELSE 0] /\ conn' = Parts(ssl)
      BY <1>4 DEF Connect, Obtain
    <2>2. live' \in [Kind -> Nat] /\ \A k \in Kind : live'[k] = live[k] + IF k \in Parts(ssl) THEN 1 ELSE 0
      BY <2>1 DEF Typed, TypeOK
    <2>3. \A k \in Kind : Held(k)' <= live'[k]
      BY <2>1, <2>2 DEF Typed, TypeOK, Held
    <2>4. Parts(ssl) \subseteq Kind
      BY DEF Parts, Kind, Ssl
    <2> QED
      BY <1>4, <2>1, <2>2, <2>3, <2>4 DEF Connect, history, Typed, TypeOK
  <1>5. CASE RequestMissing
    BY <1>5, DisconnectTyped DEF RequestMissing, Return, received, history, Typed, TypeOK
  <1>6. CASE Send
    BY <1>6 DEF Send, history, Typed, TypeOK, Held
  <1>7. ASSUME NEW lines \in Chunk, NEW full \in BOOLEAN, Recv(lines, full) PROVE Typed'
    <2>1. lines \in Seq(Line)
      BY ChunkLines
    <2>2. PICK rest \in {<< >>, <<Garbage>>, <<Garbage, "blank">>} : buff' = lines \o rest
      BY <1>7 DEF Recv
    <2>3. rest \in Seq(Bytes) /\ lines \in Seq(Bytes)
      <3>1. Garbage \in Bytes /\ "blank" \in Bytes /\ Line \subseteq Bytes
        BY DEF Bytes, Line
      <3>2. << >> \in Seq(Bytes) /\ <<Garbage>> \in Seq(Bytes) /\ <<Garbage, "blank">> \in Seq(Bytes)
        BY <3>1
      <3>3. lines \in Seq(Bytes)
        BY <2>1 DEF Bytes
      <3> QED
        BY <3>2, <3>3
    <2>4. buff' \in Seq(Bytes)
      BY <2>2, <2>3
    <2>5. Keep(buff')
      BY <1>7 DEF Recv
    <2>6. tmp' \in Seq(Bytes)
      BY <2>4, <2>5 DEF Keep, Typed, TypeOK, Bytes
    <2>7. sent' \in Seq(Line)
      BY <1>7, <2>1 DEF Recv, Typed, TypeOK
    <2> QED
      BY <1>7, <2>4, <2>6, <2>7 DEF Recv, history, Typed, TypeOK, Held, Bytes
  <1>8. ASSUME NEW lines \in Chunk, RecvNoMemory(lines) PROVE Typed'
    <2>1. lines \in Seq(Line)
      BY ChunkLines
    <2>2. lines \in Seq(Bytes) /\ sent' \in Seq(Line)
      BY <1>8, <2>1 DEF Bytes, RecvNoMemory, Typed, TypeOK
    <2> QED
      BY <1>8, <2>2 DEF RecvNoMemory, history, Typed, TypeOK, Held, Bytes
  <1>9. CASE RecvFails
    <2>1. Keep(buff) /\ buff \in Seq(Bytes) /\ (tmp = NULL \/ tmp \in Seq(Bytes))
      BY <1>9 DEF RecvFails, Typed, TypeOK, Bytes
    <2>3. tmp' \in Seq(Bytes)
      BY <2>1 DEF Keep
    <2> QED
      BY <1>9, <2>3 DEF RecvFails, history, Typed, TypeOK, Held, Bytes
  <1>10. CASE RecvEnds
    BY <1>10 DEF RecvEnds, received, history, Typed, TypeOK, Held
  <1>11. CASE Parse
    <2>1. tmp \in Seq(Bytes) /\ BodyOf(tmp) \in Seq(Bytes)
      BY <1>11, TextTyped DEF Parse, HasStatus, Typed, TypeOK, Bytes
    <2>2. body' = NULL \/ body' \in Seq(Bytes)
      BY <1>11, <2>1 DEF Parse, Return
    <2> QED
      BY <1>11, <2>2, DisconnectTyped DEF Parse, Return, received, history, Typed, TypeOK, Bytes
  <1>12. CASE HeaderOverrun \/ ParseOverrun \/ NoResponse
    <2>1. CASE Crash
      BY <2>1 DEF Crash, received, history, Typed, TypeOK, Held
    <2>2. CASE ~Crash
      <3>1. <<Garbage>> \in Seq(Bytes)
        BY DEF Bytes
      <3> QED
        BY <1>12, <2>2, <3>1, DisconnectTyped
           DEF HeaderOverrun, ParseOverrun, NoResponse, Return, received, history, Typed, TypeOK, Bytes
    <2> QED
      BY <2>1, <2>2
  <1>13. CASE UNCHANGED vars
    BY <1>13 DEF vars, Typed, TypeOK, Held
  <1> QED
    BY <1>1, <1>2, <1>3, <1>4, <1>5, <1>6, <1>7, <1>8, <1>9, <1>10, <1>11, <1>12, <1>13 DEF Next

(* Every variable keeps to its type: what is given back was there, and the *)
(* text received is made of lines and of what lies behind a full buffer    *)
(* (wrapper.c:132-205, http.c:216-341).                                    *)
THEOREM HttpTypes == Spec => []TypeOK
  <1>1. Typed => TypeOK
    BY DEF Typed
  <1> QED
    BY <1>1, InitTyped, NextTyped, InitAccount, NextAccount, PTL DEF Spec
=============================================================================
