----------------------------- MODULE HttpServer -----------------------------
(***************************************************************************)
(* The web server of src/main.rs: one thread accepts a connection, reads   *)
(* one request from it, answers and closes it, then takes the next one.    *)
(* Clients send in pieces of any size, hang up half-way or go away.        *)
(*                                                                         *)
(* A message is [head, route, length, body]: the units of its head, what   *)
(* its request line asks for (Unreadable when there is none), its          *)
(* Content-Length (Unreadable when it is no number) and the units that     *)
(* follow the head.  A unit is a byte, except that one Crlf stands for     *)
(* "\r\n", so that the end of the head is two of them.                     *)
(***************************************************************************)
EXTENDS Integers, SequencesExt

CONSTANTS
    Clients,
    Units,        \* what a connection carries
    Messages,     \* what each client may have to say
    Judge(_),     \* what becomes of a body posted to /api/verify
    Chunk,        \* most units the head is read by (1024)
    MaxHead,      \* units read without finding the head's end (1024 * 1024)
    MaxBody,      \* largest Content-Length accepted (2 * 1024 * 1024)
    Crlf, Unreadable, NoClient

VARIABLES
    phase,      \* client: "idle", "open", "eof" (it sends no more), "gone"
    msg,        \* its message
    sent,       \* units of it that reached the server's socket
    answer,     \* "none" until the server closes the connection
    queue,      \* connections to be accepted
    at,         \* server: "accept", "head", "body" or "answer"
    conn,       \* the connection being served
    taken,      \* units read from it
    buf,        \* those read while looking for the end of the head
    body

vars == <<phase, msg, sent, answer, queue, at, conn, taken, buf, body>>
clients == <<phase, msg, sent>>
server  == <<at, conn, taken, buf, body>>

Stream(m)  == m.head \o <<Crlf, Crlf>> \o m.body
HeadEnd(m) == Len(m.head) + 2

AllMessages == UNION {Messages[c] : c \in Clients}

\* The head is what comes before the first empty line, and a Content-Length is a
\* usize.
ASSUME MessagesAssumption ==
    \A m \in AllMessages :
        /\ m.head \in Seq(Units) /\ m.body \in Seq(Units)
        /\ \A k \in 1..(Len(m.head) - 1) : ~(m.head[k] = Crlf /\ m.head[k + 1] = Crlf)
        /\ m.head # <<>> => Last(m.head) # Crlf
        /\ m.length = Unreadable \/ m.length \in Nat

ASSUME UnitsAssumption == Crlf \in Units

ASSUME ClientsAssumption == NoClient \notin Clients

ASSUME LimitsAssumption == Chunk \in Nat \ {0} /\ MaxHead \in Nat /\ MaxBody \in Nat

Init ==
    /\ phase = [c \in Clients |-> "idle"]
    /\ msg \in {f \in [Clients -> AllMessages] : \A c \in Clients : f[c] \in Messages[c]}
    /\ sent = [c \in Clients |-> 0]
    /\ answer = [c \in Clients |-> "none"]
    /\ queue = <<>>
    /\ at = "accept" /\ conn = NoClient /\ taken = 0 /\ buf = <<>> /\ body = <<>>

-----------------------------------------------------------------------------
(* Clients *)

Connect(c) ==
    /\ phase[c] = "idle"
    /\ phase' = [phase EXCEPT ![c] = "open"]
    /\ queue' = Append(queue, c)
    /\ UNCHANGED <<msg, sent, answer, server>>

Send(c) ==
    /\ phase[c] = "open" /\ answer[c] = "none"
    /\ \E n \in (sent[c] + 1)..Len(Stream(msg[c])) : sent' = [sent EXCEPT ![c] = n]
    /\ UNCHANGED <<phase, msg, answer, queue, server>>

HangUp(c) ==
    /\ phase[c] \in {"open", "eof"} /\ answer[c] = "none"
    /\ \E how \in {"eof", "gone"} \ {phase[c]} : phase' = [phase EXCEPT ![c] = how]
    /\ UNCHANGED <<msg, sent, answer, queue, server>>

-----------------------------------------------------------------------------
(* The server *)

Accept ==
    /\ at = "accept" /\ queue # <<>>
    /\ conn' = Head(queue) /\ queue' = Tail(queue)
    /\ at' = "head" /\ taken' = 0 /\ buf' = <<>> /\ body' = <<>>
    /\ UNCHANGED <<clients, answer>>

\* The handler returns, with an answer or with an error that is only logged;
\* the stream is dropped and the loop goes on.
Close(result) ==
    /\ answer' = [answer EXCEPT ![conn] = result]
    /\ at' = "accept" /\ conn' = NoClient
    /\ taken' = 0 /\ buf' = <<>> /\ body' = <<>>
    /\ UNCHANGED <<clients, queue>>

Drop == Close("dropped")

\* What a read of at most `most` units returns: all that is there, up to that
\* (Send cuts the stream anywhere).  A read blocks while nothing is there and the
\* client may still send.
Readable == taken < sent[conn]

Piece(most) ==
    SubSeq(Stream(msg[conn]), taken + 1,
           IF taken + most < sent[conn] THEN taken + most ELSE sent[conn])

AtEof == taken = sent[conn] /\ phase[conn] \in {"eof", "gone"}

\* A client that is gone may have reset the connection.
ReadFails == at \in {"head", "body"} /\ phase[conn] = "gone" /\ Drop

\* find_subsequence: where the first empty line ends, or 0
FindEnd(units) ==
    LET ends == {k \in 2..Len(units) : units[k - 1] = Crlf /\ units[k] = Crlf}
    IN  IF ends = {} THEN 0 ELSE CHOOSE k \in ends : \A j \in ends : k <= j

\* Deviation: what was read along with the head is forgotten.
TakeHeadAlone(units) ==
    IF \/ msg[conn].route = Unreadable \/ msg[conn].length = Unreadable
    THEN Drop
    ELSE IF msg[conn].length > MaxBody THEN Drop
    ELSE /\ at' = "body" /\ body' = <<>>
         /\ buf' = units /\ taken' = Len(units)
         /\ UNCHANGED <<conn, queue, answer, clients>>

\* The head is complete: parse it, and begin the body with what was read of it.
TakeHead(units) ==
    IF \/ msg[conn].route = Unreadable \/ msg[conn].length = Unreadable
    THEN Drop
    ELSE IF msg[conn].length > MaxBody THEN Drop
    ELSE /\ at' = "body" /\ body' = SubSeq(units, FindEnd(units) + 1, Len(units))
         /\ buf' = units /\ taken' = Len(units)
         /\ UNCHANGED <<conn, queue, answer, clients>>

\* Deviation: no limit on the head.
ReadHeadUnbounded ==
    /\ at = "head" /\ Readable
    /\ LET units == buf \o Piece(Chunk)
       IN   IF FindEnd(units) # 0 THEN TakeHead(units)
            ELSE /\ buf' = units /\ taken' = Len(units)
                 /\ UNCHANGED <<at, conn, body, queue, answer, clients>>

\* Deviation: the size tested before the end of the head is looked for.
ReadHeadStrict ==
    /\ at = "head" /\ Readable
    /\ LET units == buf \o Piece(Chunk)
       IN   IF Len(units) > MaxHead THEN Drop
            ELSE IF FindEnd(units) # 0 THEN TakeHead(units)
            ELSE /\ buf' = units /\ taken' = Len(units)
                 /\ UNCHANGED <<at, conn, body, queue, answer, clients>>

ReadHead ==
    /\ at = "head" /\ Readable
    /\ LET units == buf \o Piece(Chunk)
       IN   IF FindEnd(units) # 0 THEN TakeHead(units)
            ELSE IF Len(units) > MaxHead THEN Drop
            ELSE /\ buf' = units /\ taken' = Len(units)
                 /\ UNCHANGED <<at, conn, body, queue, answer, clients>>

\* Deviation: an empty read of the head is tried again.
EndOfInputIgnored ==
    /\ at = "body" /\ Len(body) < msg[conn].length
    /\ AtEof /\ Drop

\* n == 0: "incomplete HTTP headers", "unexpected EOF in request body"
EndOfInput ==
    /\ at = "head" \/ (at = "body" /\ Len(body) < msg[conn].length)
    /\ AtEof /\ Drop

ReadBody ==
    /\ at = "body" /\ Len(body) < msg[conn].length /\ Readable
    /\ LET piece == Piece(msg[conn].length - Len(body))
       IN  body' = body \o piece /\ taken' = taken + Len(piece)
    /\ UNCHANGED <<at, conn, buf, queue, answer, clients>>

\* Deviation: whatever came after the body left in it.
BodyReadUncut ==
    /\ at = "body" /\ Len(body) >= msg[conn].length
    /\ at' = "answer"
    /\ UNCHANGED <<conn, taken, buf, body, queue, answer, clients>>

BodyRead ==
    /\ at = "body" /\ Len(body) >= msg[conn].length
    /\ body' = SubSeq(body, 1, msg[conn].length)
    /\ at' = "answer"
    /\ UNCHANGED <<conn, taken, buf, queue, answer, clients>>

\* handle_http_client
Status(route, posted) ==
    CASE route = "GET /"               -> "200"
      [] route = "GET /api/sample"     -> "200"
      [] route = "OPTIONS /api/verify" -> "204"
      [] route = "POST /api/verify"    ->
            (CASE Judge(posted) = "settled"  -> "200"
               [] Judge(posted) = "rejected" -> "422"
               [] OTHER                      -> "400")
      [] OTHER                         -> "404"

\* Writing fails when the client is gone (and may seem to work).
Answer ==
    /\ at = "answer"
    /\ \E result \in {Status(msg[conn].route, body)}
                        \cup IF phase[conn] = "gone" THEN {"dropped"} ELSE {} : Close(result)

Serve == \/ Accept     \/ ReadHead \/ ReadFails
         \/ EndOfInput \/ ReadBody \/ BodyRead \/ Answer

Next == \/ \E c \in Clients : Connect(c) \/ Send(c) \/ HangUp(c)
        \/ Serve

Spec == Init /\ [][Next]_vars

\* The server's thread runs whenever it can; nothing makes a client go on.
FairSpec == Spec /\ WF_vars(Serve)

-----------------------------------------------------------------------------
(* Properties *)

Statuses == {"200", "204", "400", "404", "422"}

\* Types, and: the server serves one connection, which no other step has
\* answered and which it has not read past.
TypeOK ==
    /\ at \in {"accept", "head", "body", "answer"}
    /\ conn = NoClient <=> at = "accept"
    /\ conn # NoClient => /\ conn \in Clients /\ answer[conn] = "none"
                          /\ taken <= sent[conn]
    /\ \A c \in Clients : answer[c] \in Statuses \cup {"none", "dropped"}
    /\ at = "answer" => Len(body) = msg[conn].length

\* However a request is cut into pieces, it is answered as if it had come in
\* one: by its route and by exactly the Content-Length units after its head,
\* neither short of what came with the head nor with what came after the body.
AnsweredAsSent ==
    \A c \in Clients :
        answer[c] \in Statuses =>
            /\ HeadEnd(msg[c]) + msg[c].length <= Len(Stream(msg[c]))
            /\ answer[c] = Status(msg[c].route, SubSeq(msg[c].body, 1, msg[c].length))

\* What is answered keeps both limits: which messages do does not depend on luck,
\* except where the head is longer than MaxHead by at most one chunk.
WithinLimits ==
    \A c \in Clients :
        answer[c] \in Statuses => /\ HeadEnd(msg[c]) <= MaxHead + Chunk
                                 /\ msg[c].length <= MaxBody

Needed(m) == HeadEnd(m) + m.length

\* A connection closed without an answer had it coming: the message is not
\* readable, is over a limit, or was never sent whole.
DroppedForCause ==
    \A c \in Clients :
        answer[c] = "dropped" =>
            \/ phase[c] = "gone"
            \/ msg[c].route = Unreadable \/ msg[c].length = Unreadable
            \/ msg[c].length > MaxBody
            \/ HeadEnd(msg[c]) > MaxHead + 1
            \/ sent[c] < Needed(msg[c])

\* The limits of read_http_request (main.rs:214-244) part the messages: what is
\* answered keeps them, and nothing that keeps them is dropped by the server.
LimitsPart == WithinLimits /\ DroppedForCause

Waiting(c)   == phase[c] # "idle" /\ answer[c] = "none"
Delivered(c) == \/ phase[c] \in {"eof", "gone"}
                \/ answer[c] # "none"
                \/ /\ {msg[c].route, msg[c].length} \cap {Unreadable} = {}
                   /\ sent[c] >= Needed(msg[c])
                \/ /\ {msg[c].route, msg[c].length} \cap {Unreadable} # {}
                   /\ sent[c] >= HeadEnd(msg[c])

\* With no read timeout, a client that neither finishes nor hangs up keeps all
\* the others waiting; when nobody does that, everybody's connection is answered
\* or closed (main.rs:115-124).
NobodyStalls   == \A c \in Clients : Waiting(c) ~> Delivered(c)
EveryoneServed == NobodyStalls => \A c \in Clients : Waiting(c) ~> ~Waiting(c)
=============================================================================
