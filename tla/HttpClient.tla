----------------------------- MODULE HttpClient -----------------------------
(***************************************************************************)
(* The HTTP client the scripts are given (wp_http in                       *)
(* src/netdisk4tc/wrapper.c over http.c): one blocking call at a time,     *)
(* from the request to the body handed to the script, with what the peer   *)
(* and the allocator do to it.                                             *)
(*                                                                         *)
(* An answer is a sequence of lines; how its bytes fall into reads is the  *)
(* network's choice.  `live' counts the blocks and handles that have been  *)
(* obtained and not given back.                                            *)
(***************************************************************************)
EXTENDS SequencesExt

CONSTANTS NULL,
          Garbage,      \* bytes nobody wrote there for this call
          MaxCalls,     \* bound: calls of the script
          MaxLines,     \* bound: lines of an answer
          MaxRepeats    \* bound: failed reads of a call

ASSUME HttpAssumption == MaxCalls \in Nat /\ MaxLines \in Nat /\ MaxRepeats \in Nat

VARIABLES
    pc,         \* where the call is
    request,    \* the request was allocated
    conn,       \* what *connection owns
    peer,       \* the other end: "open", "broken"
    buff,       \* contents of the receive buffer, up to its terminator
    tmp,        \* the text received so far, or NULL
    body,       \* what the last call gave the script, NULL for nil and during a call
    live,       \* blocks and handles of each kind
    sent,       \* history: the lines the peer has sent
    mishap,     \* history: what went wrong while receiving
    unresolved, \* history: calls whose host was not found
    calls,      \* history: calls so far
    repeats     \* history: failed reads of this call

vars == <<pc, request, conn, peer, buff, tmp, body, live, sent, mishap,
          unresolved, calls, repeats>>
received == <<peer, buff, tmp, sent, mishap, repeats>>
history == <<unresolved, calls>>

Kind == {"request", "conn", "ssl", "host", "socket"}
(* A status line has version, code and reason phrase, "text" is any line   *)
(* with a name, ": " and a value.  "cut" is one that lacks a part: in the  *)
(* first place a status line without its phrase or with the code 0, behind *)
(* it a name without a value.                                              *)
Line == {"status", "blank", "text", "cut"}
(* No pointer is a text, and garbage is no line.                           *)
ASSUME ByteAssumption == Garbage \notin Line /\ NULL \notin Seq(Line \cup {Garbage})

Parts(ssl) == {"conn", "host", "socket"} \cup ssl

Obtain(ks) == live' = [k \in Kind |-> live[k] + IF k \in ks THEN 1 ELSE 0]
Release(ks) == live' = [k \in Kind |-> live[k] - IF k \in ks THEN 1 ELSE 0]

Init ==
    /\ pc = "idle" /\ request = FALSE /\ conn = {} /\ peer = "open"
    /\ buff = <<Garbage>> /\ tmp = NULL /\ body = NULL
    /\ live = [k \in Kind |-> 0]
    /\ sent = << >> /\ mishap = {} /\ unresolved = 0 /\ calls = 0 /\ repeats = 0

Return(b) == pc' = "idle" /\ body' = b

(* An access through NULL, or a copy into it: the process ends.            *)
Crash == pc' = "crashed" /\ UNCHANGED <<request, conn, body, live, received, history>>

-----------------------------------------------------------------------------
(* wp_http: http_request_create, whose failure shows in http_request only  *)

Call ==
    /\ pc = "idle" /\ calls < MaxCalls
    /\ pc' = "connect" /\ calls' = calls + 1
    /\ request' \in BOOLEAN /\ Obtain(IF request' THEN {"request"} ELSE {})
    /\ peer' = "open" /\ buff' = <<Garbage>> /\ tmp' = NULL /\ body' = NULL
    /\ sent' = << >> /\ mishap' = {} /\ repeats' = 0
    /\ UNCHANGED <<conn, unresolved>>

-----------------------------------------------------------------------------
(* http_connect                                                            *)

(* There is no memory, or the socket cannot be had or connected and        *)
(* http_disconnect has given everything back.                              *)
ConnectFails ==
    /\ pc = "connect"
    /\ Return(NULL)
    /\ UNCHANGED <<request, conn, live, received, history>>

(* The host is not found: the function returns, and the connection with    *)
(* its SSL objects is forgotten.                                           *)
HostNotFound(ssl) ==
    /\ pc = "connect"
    /\ Obtain({"conn"} \cup ssl) /\ unresolved' = unresolved + 1
    /\ Return(NULL)
    /\ UNCHANGED <<request, conn, received, calls>>

(* The result of SSL_connect is not looked at.                             *)
Connect(ssl) ==
    /\ pc = "connect"
    /\ conn' = Parts(ssl) /\ Obtain(Parts(ssl))
    /\ peer' \in {"open"} \cup (IF ssl = {} THEN {} ELSE {"broken"})
    /\ pc' = "request"
    /\ UNCHANGED <<request, buff, tmp, body, sent, mishap, repeats, history>>

(* http_disconnect                                                         *)
Disconnect == conn' = {} /\ Release(conn)

-----------------------------------------------------------------------------
(* http_request                                                            *)

(* Mutant: the call returns nil without http_disconnect.                   *)
RequestMissing_KeepsConnection ==
    /\ pc = "request" /\ ~request
    /\ conn' = {} /\ live' = live
    /\ Return(NULL)
    /\ UNCHANGED <<request, received, history>>

RequestMissing ==
    /\ pc = "request" /\ ~request
    /\ Disconnect
    /\ Return(NULL)
    /\ UNCHANGED <<request, received, history>>

(* The result of the send is not looked at.                                *)
Send ==
    /\ pc = "request" /\ request
    /\ pc' = "recv"
    /\ peer' \in {peer, "broken"}
    /\ UNCHANGED <<request, conn, buff, tmp, body, live, sent, mishap, repeats, history>>

(* The text is added to what there is: a copy of it, or a realloc and      *)
(* strcat_s.  Without memory for the copy tmp stays NULL.                  *)
Keep(text) == tmp' = IF tmp = NULL THEN text ELSE tmp \o text

(* A read.  One that fills the buffer leaves it without a terminator, and  *)
(* strlen goes on behind its end, where an empty line may be found too.    *)
Recv(lines, full) ==
    /\ pc = "recv" /\ peer = "open" /\ Len(sent) + Len(lines) <= MaxLines
    /\ sent' = sent \o lines
    /\ \E rest \in {<< >>, <<Garbage>>, <<Garbage, "blank">>} :
          /\ rest # << >> => full
          /\ buff' = lines \o rest
    /\ Keep(buff')
    /\ mishap' = mishap \cup IF full THEN {"full"} ELSE {}
    /\ UNCHANGED <<pc, request, conn, peer, body, live, repeats, history>>

(* The answer -1 is not 0, and not less than the unsigned size of the      *)
(* buffer: what the buffer holds from the last read is added once more.    *)
RecvFails ==
    /\ pc = "recv" /\ repeats < MaxRepeats
    /\ peer' = "broken" /\ repeats' = repeats + 1
    /\ Keep(buff)
    /\ mishap' = mishap \cup {"error"}
    /\ UNCHANGED <<pc, request, conn, buff, body, live, sent, history>>

(* No memory: for the first copy, and the text is forgotten; later, and    *)
(* strcat_s gets NULL.                                                     *)
RecvNoMemory(lines) ==
    /\ pc = "recv" /\ peer = "open" /\ Len(sent) + Len(lines) <= MaxLines
    /\ sent' = sent \o lines /\ mishap' = mishap \cup {"memory"}
    /\ buff' = lines
    /\ pc' = IF tmp = NULL THEN "recv" ELSE "crashed"
    /\ UNCHANGED <<request, conn, peer, tmp, body, live, repeats, history>>

(* The peer has closed the connection.                                     *)
RecvEnds ==
    /\ pc = "recv"
    /\ pc' = "parse"
    /\ UNCHANGED <<request, conn, body, live, received, history>>

-----------------------------------------------------------------------------
(* http_response_fromstr, and the rest of wp_http.  The first line must be *)
(* a status line with all its parts; header lines follow, up to an empty   *)
(* one.  Bytes nobody wrote may be either.                                 *)

(* Mutant: an answer without header lines is no answer.                    *)
HasStatus_AndHeader(t) == t # NULL /\ Len(t) > 2 /\ Head(t) \in {"status", Garbage}

HasStatus(t) == t # NULL /\ t # << >> /\ Head(t) \in {"status", Garbage}

Blanks(t) == {i \in 2 .. Len(t) : t[i] = "blank"}

(* Mutant: the header ends at the last empty line.                         *)
BodyOf_LastBlank(t) == SubSeq(t, Max(Blanks(t)) + 1, Len(t))

BodyOf(t) == SubSeq(t, Min(Blanks(t)) + 1, Len(t))

(* The body is NULL when there is no memory to copy it.  The response and  *)
(* the connection are given back.                                          *)
Parse ==
    /\ pc = "parse" /\ HasStatus(tmp) /\ Blanks(tmp) # {}
    /\ Disconnect
    /\ \E b \in {BodyOf(tmp), NULL} : Return(b)
    /\ UNCHANGED <<request, received, history>>

(* A header line whose value would begin behind its block: its length is   *)
(* read from there, which ends the process or (Parse) goes well.           *)
Overruns(t) ==
    \E i \in 2 .. Len(t) :
        t[i] \in {"cut", Garbage} /\ \A j \in 2 .. i : t[j] # "blank"

HeaderOverrun == pc = "parse" /\ HasStatus(tmp) /\ Overruns(tmp) /\ Crash

(* No empty line: the search for it goes on behind the end of the text.    *)
ParseOverrun ==
    /\ pc = "parse" /\ HasStatus(tmp) /\ Blanks(tmp) = {}
    /\ \/ Crash
       \/ Disconnect /\ Return(<<Garbage>>) /\ UNCHANGED <<request, received, history>>

(* No status line, or not all of it: there is no response (or no code to   *)
(* convert), and wp_http reads its body all the same.                      *)
NoResponse == pc = "parse" /\ (HasStatus(tmp) => Head(tmp) = Garbage) /\ Crash

-----------------------------------------------------------------------------
Chunk == {<<l>> : l \in Line} \cup {<<l, m>> : l, m \in Line}
Ssl == {{}, {"ssl"}}

Next ==
    \/ Call
    \/ ConnectFails \/ \E ssl \in Ssl : HostNotFound(ssl) \/ Connect(ssl)
    \/ RequestMissing \/ Send
    \/ \E lines \in Chunk : RecvNoMemory(lines) \/ \E full \in BOOLEAN : Recv(lines, full)
    \/ RecvFails \/ RecvEnds
    \/ Parse \/ HeaderOverrun \/ ParseOverrun \/ NoResponse

Spec == Init /\ [][Next]_vars

-----------------------------------------------------------------------------
(* Properties                                                              *)

(* Every variable keeps to its type (http.h:32-45, http.c:216-335).         *)
TypeOK ==
    /\ pc \in {"idle", "connect", "request", "recv", "parse", "crashed"}
    /\ request \in BOOLEAN /\ conn \subseteq Kind /\ peer \in {"open", "broken"}
    /\ buff \in Seq(Line \cup {Garbage})
    /\ tmp = NULL \/ tmp \in Seq(Line \cup {Garbage})
    /\ body = NULL \/ body \in Seq(Line \cup {Garbage})
    /\ live \in [Kind -> Nat]
    /\ sent \in Seq(Line) /\ mishap \subseteq {"full", "error", "memory"}
    /\ unresolved \in 0 .. calls /\ calls \in 0 .. MaxCalls
    /\ repeats \in 0 .. MaxRepeats

(* Between two calls no socket is open, and the only connections left over *)
(* are those of hosts that were not found, with their SSL objects; every   *)
(* way out of wp_http once it is connected closes the connection           *)
(* (wrapper.c:192-203, http.c:236-290).                                    *)
ConnectionsClosed ==
    pc = "idle" =>
        /\ conn = {} /\ live["socket"] = 0 /\ live["host"] = 0
        /\ live["conn"] = unresolved /\ live["ssl"] <= unresolved

(* When every read fell short of the buffer, none failed and there was     *)
(* memory, the script gets the body the peer sent, however its bytes came  *)
(* in: what follows the first empty line behind the status line            *)
(* (http.c:318-335, 135-191, wrapper.c:201).                               *)
BodyIsTheAnswers ==
    pc = "idle" /\ mishap = {} /\ body \notin {NULL, <<Garbage>>} =>
        \E n \in 2 .. Len(sent) :
            /\ sent[n] = "blank" /\ \A i \in 2 .. n - 1 : sent[i] # "blank"
            /\ body = SubSeq(sent, n + 1, Len(sent))

(* The process does not end over an answer that is complete, when nothing  *)
(* went wrong in receiving it, and then the script is not given bytes from *)
(* behind the answer.  Complete is one with version, code and reason       *)
(* phrase in its first line, an empty line, and a value in every header    *)
(* line before it; what the body looks like does not matter.  The code     *)
(* survives no answer without the phrase, and one without the rest only by *)
(* luck (http.c:141-193, wrapper.c:196-204).                               *)
CompleteAnswerIsSafe ==
    /\ mishap = {} /\ sent # << >> /\ sent[1] = "status"
    /\ \E n \in 2 .. Len(sent) :
           sent[n] = "blank" /\ \A i \in 2 .. n : sent[i] # "cut"
    => pc # "crashed" /\ body # <<Garbage>>
=============================================================================
