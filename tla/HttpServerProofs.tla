-------------------------- MODULE HttpServerProofs --------------------------
(***************************************************************************)
(* HttpServer's invariants, for any number of clients, whatever they have  *)
(* to say and however it is cut, and for every size of chunk and limit.    *)
(***************************************************************************)
EXTENDS HttpServer, SequenceTheorems, TLAPS

-----------------------------------------------------------------------------
(* Messages *)

\* A message is a sequence of units whose head ends with two line ends.
LEMMA StreamShape ==
    ASSUME NEW m \in AllMessages
    PROVE  /\ Stream(m) \in Seq(Units)
           /\ Len(m.head) \in Nat /\ Len(m.body) \in Nat
           /\ HeadEnd(m) \in Nat /\ HeadEnd(m) >= 2
           /\ Len(Stream(m)) = HeadEnd(m) + Len(m.body)
           /\ \A k \in 1..Len(m.head) : Stream(m)[k] = m.head[k]
           /\ Stream(m)[HeadEnd(m) - 1] = Crlf /\ Stream(m)[HeadEnd(m)] = Crlf
           /\ \A k \in 1..Len(m.body) : Stream(m)[HeadEnd(m) + k] = m.body[k]
<1> DEFINE h == m.head
           e == <<Crlf, Crlf>>
           b == m.body
<1>1. h \in Seq(Units) /\ b \in Seq(Units)
    BY MessagesAssumption
<1>2. e \in Seq(Units) /\ Len(e) = 2 /\ e[1] = Crlf /\ e[2] = Crlf
    BY UnitsAssumption
<1> HIDE DEF h, e, b
<1>3. Len(h) \in Nat /\ Len(b) \in Nat
    BY <1>1, LenProperties
<1>4. /\ h \o e \in Seq(Units)
      /\ Len(h \o e) = Len(h) + 2
      /\ \A i \in 1..(Len(h) + 2) : (h \o e)[i] = IF i <= Len(h) THEN h[i] ELSE e[i - Len(h)]
    <2>1. /\ h \o e \in Seq(Units)
          /\ Len(h \o e) = Len(h) + Len(e)
          /\ \A i \in 1..(Len(h) + Len(e)) :
                (h \o e)[i] = IF i <= Len(h) THEN h[i] ELSE e[i - Len(h)]
        BY <1>1, <1>2, ConcatProperties
    <2> QED BY <2>1, <1>2
<1> DEFINE he == h \o e
<1> HIDE DEF he
<1>5. /\ he \o b \in Seq(Units)
      /\ Len(he \o b) = Len(h) + 2 + Len(b)
      /\ \A i \in 1..(Len(h) + 2 + Len(b)) :
            (he \o b)[i] = IF i <= Len(h) + 2 THEN he[i] ELSE b[i - (Len(h) + 2)]
    <2>1. he \in Seq(Units) /\ Len(he) = Len(h) + 2
        BY <1>4 DEF he
    <2>2. /\ he \o b \in Seq(Units)
          /\ Len(he \o b) = Len(he) + Len(b)
          /\ \A i \in 1..(Len(he) + Len(b)) :
                (he \o b)[i] = IF i <= Len(he) THEN he[i] ELSE b[i - Len(he)]
        BY <1>1, <2>1, ConcatProperties
    <2> QED BY <2>1, <2>2
<1>6. Stream(m) = he \o b /\ HeadEnd(m) = Len(h) + 2
    BY DEF Stream, HeadEnd, h, e, b, he
<1>7. \A k \in 1..Len(h) : Stream(m)[k] = h[k]
    <2>1. \A k \in 1..Len(h) : he[k] = h[k]
        BY <1>3, <1>4 DEF he
    <2> QED BY <2>1, <1>3, <1>5, <1>6
<1>8. Stream(m)[Len(h) + 1] = Crlf /\ Stream(m)[Len(h) + 2] = Crlf
    <2>1. he[Len(h) + 1] = e[1] /\ he[Len(h) + 2] = e[2]
        BY <1>3, <1>4 DEF he
    <2> QED BY <2>1, <1>2, <1>3, <1>5, <1>6
<1>9. \A k \in 1..Len(b) : Stream(m)[Len(h) + 2 + k] = b[k]
    BY <1>3, <1>5, <1>6
<1>10. HeadEnd(m) - 1 = Len(h) + 1
    BY <1>3, <1>6
<1>11. /\ Stream(m) \in Seq(Units)
       /\ Len(h) \in Nat /\ Len(b) \in Nat
       /\ HeadEnd(m) \in Nat /\ HeadEnd(m) >= 2
       /\ Len(Stream(m)) = HeadEnd(m) + Len(b)
    BY <1>3, <1>5, <1>6
<1> QED BY <1>6, <1>7, <1>8, <1>9, <1>10, <1>11 DEF h, b

\* No empty line comes before the one that ends the head.
LEMMA FirstEmptyLine ==
    ASSUME NEW m \in AllMessages, NEW k \in 2..(HeadEnd(m) - 1)
    PROVE  ~(Stream(m)[k - 1] = Crlf /\ Stream(m)[k] = Crlf)
<1> DEFINE h == m.head
<1>1. /\ Len(h) \in Nat /\ HeadEnd(m) = Len(h) + 2
      /\ \A j \in 1..Len(h) : Stream(m)[j] = h[j]
    BY StreamShape DEF HeadEnd
<1>2. /\ \A j \in 1..(Len(h) - 1) : ~(h[j] = Crlf /\ h[j + 1] = Crlf)
      /\ h # <<>> => h[Len(h)] # Crlf
    BY MessagesAssumption DEF Last
<1> HIDE DEF h
<1>3. k \in Int /\ 2 <= k /\ k <= Len(h) + 1
    BY <1>1
<1>4. CASE k <= Len(h)
    <2>1. k - 1 \in 1..(Len(h) - 1) /\ (k - 1) + 1 = k
        BY <1>1, <1>3, <1>4
    <2>2. Stream(m)[k - 1] = h[k - 1] /\ Stream(m)[k] = h[k]
        BY <1>1, <1>3, <1>4
    <2> QED BY <2>1, <2>2, <1>2
<1>5. CASE k = Len(h) + 1
    <2>1. k - 1 = Len(h) /\ Len(h) \in 1..Len(h)
        BY <1>1, <1>3, <1>5
    <2>2. h # <<>>
        BY <2>1
    <2> QED BY <2>1, <2>2, <1>1, <1>2
<1> QED BY <1>1, <1>3, <1>4, <1>5

\* Looking for the end of the head in what has been read (find_subsequence,
\* main.rs:221) finds it as soon as it is there, and nothing before.
LEMMA FindEndOf ==
    ASSUME NEW m \in AllMessages, NEW n \in 0..Len(Stream(m))
    PROVE  FindEnd(SubSeq(Stream(m), 1, n)) = IF n >= HeadEnd(m) THEN HeadEnd(m) ELSE 0
<1> DEFINE S == Stream(m)
           u == SubSeq(S, 1, n)
           E == HeadEnd(m)
           ends == {k \in 2..Len(u) : u[k - 1] = Crlf /\ u[k] = Crlf}
<1>1. /\ S \in Seq(Units) /\ Len(S) \in Nat /\ E \in Nat /\ E >= 2
      /\ S[E - 1] = Crlf /\ S[E] = Crlf
    BY StreamShape, LenProperties
<1>2. \A k \in 2..(E - 1) : ~(S[k - 1] = Crlf /\ S[k] = Crlf)
    BY FirstEmptyLine
<1>3. FindEnd(u) = IF ends = {} THEN 0 ELSE CHOOSE k \in ends : \A j \in ends : k <= j
    BY DEF FindEnd
<1> HIDE DEF S, E
<1>4. n \in Int /\ 0 <= n /\ n <= Len(S)
    BY <1>1 DEF S
<1>5. \A i \in 1..n : S[i] \in Units
    BY <1>1, <1>4, ElementOfSeq
<1>6. Len(u) = n /\ \A i \in 1..n : u[i] = S[i]
    <2>1. /\ Len(u) = IF 1 <= n THEN n - 1 + 1 ELSE 0
          /\ \A i \in 1..(n - 1 + 1) : u[i] = S[1 + i - 1]
        BY <1>4, <1>5, SubSeqProperties
    <2>2. n - 1 + 1 = n
        BY <1>4
    <2>3. \A i \in 1..n : 1 + i - 1 = i
        OBVIOUS
    <2> QED BY <2>1, <2>2, <2>3, <1>4
<1>7. ends = {k \in 2..n : S[k - 1] = Crlf /\ S[k] = Crlf}
    <2>1. ASSUME NEW k \in 2..n PROVE u[k - 1] = S[k - 1] /\ u[k] = S[k]
        BY <1>4, <1>6
    <2> QED BY <2>1, <1>6
<1> HIDE DEF u, ends
<1>8. \A k \in ends : k \in Int /\ E <= k /\ k <= n
    <2>1. ASSUME NEW k \in ends, k < E PROVE FALSE
        <3>1. k \in 2..(E - 1) /\ S[k - 1] = Crlf /\ S[k] = Crlf
            BY <2>1, <1>1, <1>4, <1>7
        <3> QED BY <3>1, <1>2
    <2> QED BY <2>1, <1>1, <1>4, <1>7
<1>9. CASE n >= E
    <2>1. E \in ends
        BY <1>1, <1>4, <1>7, <1>9
    <2>2. \A k \in ends : (\A j \in ends : k <= j) <=> k = E
        BY <2>1, <1>1, <1>8
    <2>3. (CHOOSE k \in ends : \A j \in ends : k <= j) = E
        BY <2>1, <2>2
    <2> QED BY <2>1, <2>3, <1>3, <1>9 DEF u, E, S
<1>10. CASE ~(n >= E)
    <2>1. ends = {}
        BY <1>1, <1>4, <1>8, <1>10
    <2> QED BY <2>1, <1>3, <1>10 DEF u, E, S
<1> QED BY <1>9, <1>10

\* What follows the head in the stream, up to some unit of it, are the first
\* units of the body.
LEMMA BodyOf ==
    ASSUME NEW m \in AllMessages, NEW n \in HeadEnd(m)..Len(Stream(m))
    PROVE  SubSeq(Stream(m), HeadEnd(m) + 1, n) = SubSeq(m.body, 1, n - HeadEnd(m))
<1> DEFINE S == Stream(m)
           E == HeadEnd(m)
           b == m.body
           l == n - E
<1>1. /\ S \in Seq(Units) /\ Len(b) \in Nat /\ E \in Nat
      /\ Len(S) = E + Len(b)
      /\ \A k \in 1..Len(b) : S[E + k] = b[k]
    BY StreamShape
<1>2. b \in Seq(Units)
    BY MessagesAssumption
<1>3. n \in Int /\ E <= n /\ n <= Len(S)
    BY <1>1
<1> HIDE DEF S, E, b
<1>4. l \in Int /\ 0 <= l /\ l <= Len(b) /\ n = E + l
    BY <1>1, <1>3
<1> HIDE DEF l
<1>5. /\ \A i \in (E + 1)..n : S[i] \in Units
      /\ \A i \in 1..l : b[i] \in Units
    <2>1. \A i \in 1..Len(S) : S[i] \in Units
        BY <1>1, ElementOfSeq
    <2>2. \A i \in 1..Len(b) : b[i] \in Units
        BY <1>2, ElementOfSeq
    <2> QED BY <2>1, <2>2, <1>1, <1>3, <1>4
<1>6. /\ SubSeq(S, E + 1, n) \in Seq(Units)
      /\ Len(SubSeq(S, E + 1, n)) = IF E + 1 <= n THEN n - (E + 1) + 1 ELSE 0
      /\ \A i \in 1..(n - (E + 1) + 1) : SubSeq(S, E + 1, n)[i] = S[E + 1 + i - 1]
    BY <1>1, <1>3, <1>5, SubSeqProperties
<1>7. /\ SubSeq(b, 1, l) \in Seq(Units)
      /\ Len(SubSeq(b, 1, l)) = IF 1 <= l THEN l - 1 + 1 ELSE 0
      /\ \A i \in 1..(l - 1 + 1) : SubSeq(b, 1, l)[i] = b[1 + i - 1]
    BY <1>4, <1>5, SubSeqProperties
<1> DEFINE s == SubSeq(S, E + 1, n)
           t == SubSeq(b, 1, l)
<1>8. Len(s) = l /\ \A i \in 1..l : s[i] = S[E + i]
    <2>1. n - (E + 1) + 1 = l /\ \A i \in 1..l : E + 1 + i - 1 = E + i
        BY <1>1, <1>3, <1>4
    <2> QED BY <2>1, <1>1, <1>3, <1>4, <1>6
<1>9. Len(t) = l /\ \A i \in 1..l : t[i] = b[i]
    <2>1. l - 1 + 1 = l /\ \A i \in 1..l : 1 + i - 1 = i
        BY <1>4
    <2> QED BY <2>1, <1>4, <1>7
<1>10. s \in Seq(Units) /\ t \in Seq(Units)
    BY <1>6, <1>7
<1> HIDE DEF s, t
<1>11. \A i \in 1..Len(s) : s[i] = t[i]
    <2>1. ASSUME NEW i \in 1..l PROVE s[i] = t[i]
        <3>1. i \in 1..Len(b)
            BY <1>1, <1>4
        <3> QED BY <3>1, <1>1, <1>8, <1>9
    <2> QED BY <2>1, <1>8
<1>12. s = t
    BY <1>8, <1>9, <1>10, <1>11, SeqEqual
<1> QED BY <1>12 DEF s, t, S, E, b, l

\* How much of the body has been read when the stream has been read up to n.
LEMMA ReadSoFar ==
    ASSUME NEW m \in AllMessages, NEW n \in Nat, HeadEnd(m) <= n, n <= Len(Stream(m))
    PROVE  Len(SubSeq(Stream(m), HeadEnd(m) + 1, n)) = n - HeadEnd(m)
<1> DEFINE S == Stream(m)
           E == HeadEnd(m)
<1>1. S \in Seq(Units) /\ E \in Nat /\ Len(S) \in Nat
    BY StreamShape, LenProperties
<1> HIDE DEF S, E
<1>2. \A i \in (E + 1)..n : S[i] \in Units
    BY <1>1, ElementOfSeq DEF S
<1>3. Len(SubSeq(S, E + 1, n)) = IF E + 1 <= n THEN n - (E + 1) + 1 ELSE 0
    BY <1>1, <1>2, SubSeqProperties
<1> QED BY <1>1, <1>3 DEF S, E

-----------------------------------------------------------------------------
(* The inductive invariant *)

\* Types; no more of a message is sent than there is.
ClientsTyped ==
    /\ phase \in [Clients -> {"idle", "open", "eof", "gone"}]
    /\ msg \in [Clients -> AllMessages]
    /\ sent \in [Clients -> Nat]
    /\ \A c \in Clients : sent[c] <= Len(Stream(msg[c]))
    /\ answer \in [Clients -> Statuses \cup {"none", "dropped"}]
    /\ queue \in Seq(Clients)
    /\ taken \in Nat

\* Whoever is in line is there once, has connected, and has no answer; so is not
\* being served.
QueuedOnce ==
    /\ \A i, j \in 1..Len(queue) : queue[i] = queue[j] => i = j
    /\ \A i \in 1..Len(queue) : /\ queue[i] # conn
                                /\ phase[queue[i]] # "idle"
                                /\ answer[queue[i]] = "none"
    /\ \A c \in Clients : phase[c] = "idle" => c # conn /\ answer[c] = "none"

\* The server holds the units of one message, from its first on: while it reads
\* the head, all it took and no end among them; then those after the head; then
\* those that Content-Length counts.
HoldsMessage ==
    conn # NoClient =>
        LET m == msg[conn]
        IN  /\ at = "head" => /\ buf = SubSeq(Stream(m), 1, taken)
                              /\ taken < HeadEnd(m) /\ taken <= MaxHead
            /\ at \in {"body", "answer"} => /\ m.length \in Nat /\ m.length <= MaxBody
                                            /\ HeadEnd(m) <= MaxHead + Chunk
            /\ at = "body" => /\ HeadEnd(m) <= taken
                              /\ body = SubSeq(Stream(m), HeadEnd(m) + 1, taken)
            /\ at = "answer" => /\ HeadEnd(m) + m.length <= Len(Stream(m))
                                /\ body = SubSeq(m.body, 1, m.length)

IInv == /\ ClientsTyped /\ TypeOK /\ QueuedOnce /\ HoldsMessage
        /\ AnsweredAsSent /\ WithinLimits /\ DroppedForCause

\* The server starts without clients, and they without answers.
LEMMA InitIInv == Init => IInv
<1> SUFFICES ASSUME Init PROVE IInv
    OBVIOUS
<1> USE DEF Init
<1>1. ClientsTyped
    <2>1. \A m \in AllMessages : Len(Stream(m)) \in Nat
        BY StreamShape, LenProperties
    <2>2. msg \in [Clients -> AllMessages]
        OBVIOUS
    <2>3. \A c \in Clients : sent[c] <= Len(Stream(msg[c]))
        BY <2>1, <2>2
    <2>4. queue \in Seq(Clients)
        BY EmptySeq
    <2> QED BY <2>2, <2>3, <2>4 DEF ClientsTyped
<1>2. TypeOK
    BY DEF TypeOK
<1>3. QueuedOnce
    <2>1. Len(queue) = 0
        BY EmptySeq
    <2> QED BY <2>1, ClientsAssumption DEF QueuedOnce
<1>4. HoldsMessage
    BY DEF HoldsMessage
<1>5. AnsweredAsSent /\ WithinLimits /\ DroppedForCause
    BY DEF AnsweredAsSent, WithinLimits, DroppedForCause, Statuses
<1> QED BY <1>1, <1>2, <1>3, <1>4, <1>5 DEF IInv

-----------------------------------------------------------------------------
(* Clients *)

\* Connecting puts a client in line that was not there.
LEMMA ConnectIInv == ASSUME IInv, NEW c \in Clients, Connect(c) PROVE IInv'
<1> USE DEF Connect, server
<1>1. /\ phase \in [Clients -> {"idle", "open", "eof", "gone"}]
      /\ queue \in Seq(Clients)
    BY DEF IInv, ClientsTyped
<1>2. /\ queue' \in Seq(Clients)
      /\ Len(queue) \in Nat
      /\ Len(queue') = Len(queue) + 1
      /\ \A i \in 1..Len(queue) : queue'[i] = queue[i]
      /\ queue'[Len(queue) + 1] = c
    BY <1>1, AppendProperties, LenProperties
<1>3. /\ phase' \in [Clients -> {"idle", "open", "eof", "gone"}]
      /\ phase'[c] = "open"
      /\ \A d \in Clients \ {c} : phase'[d] = phase[d]
    BY <1>1
<1>4. ClientsTyped'
    BY <1>2, <1>3 DEF IInv, ClientsTyped
<1>5. TypeOK'
    BY DEF IInv, TypeOK
<1>6. QueuedOnce'
    <2>1. c # conn /\ answer[c] = "none"
        BY DEF IInv, QueuedOnce
    <2>2. \A i \in 1..Len(queue) : queue[i] \in Clients /\ queue[i] # c
        BY <1>1, ElementOfSeq DEF IInv, QueuedOnce
    <2>3. \A i \in 1..Len(queue') : i \in 1..Len(queue) \/ i = Len(queue) + 1
        BY <1>2
    <2>4. \A i, j \in 1..Len(queue') : queue'[i] = queue'[j] => i = j
        BY <1>2, <2>2, <2>3 DEF IInv, QueuedOnce
    <2>5. \A i \in 1..Len(queue') : /\ queue'[i] # conn
                                    /\ phase'[queue'[i]] # "idle"
                                    /\ answer[queue'[i]] = "none"
        BY <1>2, <1>3, <2>1, <2>2, <2>3 DEF IInv, QueuedOnce
    <2>6. \A d \in Clients : phase'[d] = "idle" => d # conn /\ answer[d] = "none"
        BY <1>3 DEF IInv, QueuedOnce
    <2> QED BY <2>4, <2>5, <2>6 DEF QueuedOnce
<1>7. HoldsMessage'
    BY DEF IInv, HoldsMessage
<1>8. (AnsweredAsSent /\ WithinLimits)'
    BY DEF IInv, AnsweredAsSent, WithinLimits
<1>9. DroppedForCause'
    BY <1>3, <1>1 DEF IInv, DroppedForCause
<1> QED BY <1>4, <1>5, <1>6, <1>7, <1>8, <1>9 DEF IInv

\* Sending adds to what the server may read, and only while there is no answer.
LEMMA SendIInv == ASSUME IInv, NEW c \in Clients, Send(c) PROVE IInv'
<1> USE DEF Send, server
<1>1. /\ sent \in [Clients -> Nat] /\ msg \in [Clients -> AllMessages]
      /\ \A d \in Clients : sent[d] <= Len(Stream(msg[d]))
    BY DEF IInv, ClientsTyped
<1>2. Len(Stream(msg[c])) \in Nat
    BY <1>1, StreamShape, LenProperties
<1>3. PICK n \in (sent[c] + 1)..Len(Stream(msg[c])) : sent' = [sent EXCEPT ![c] = n]
    OBVIOUS
<1>4. /\ sent' \in [Clients -> Nat]
      /\ sent'[c] = n /\ n >= sent[c] /\ n <= Len(Stream(msg[c]))
      /\ \A d \in Clients \ {c} : sent'[d] = sent[d]
    BY <1>1, <1>2, <1>3
<1>5. ClientsTyped'
    BY <1>1, <1>4 DEF IInv, ClientsTyped
<1>6. TypeOK'
    <2>1. conn # NoClient => taken <= sent'[conn]
        <3>1. ASSUME conn # NoClient PROVE taken <= sent'[conn]
            <4>1. conn \in Clients /\ taken <= sent[conn] /\ taken \in Nat
                BY <3>1 DEF IInv, TypeOK, ClientsTyped
            <4> QED BY <4>1, <1>1, <1>4
        <3> QED BY <3>1
    <2> QED BY <2>1 DEF IInv, TypeOK
<1>7. QueuedOnce'
    BY DEF IInv, QueuedOnce
<1>8. HoldsMessage'
    BY DEF IInv, HoldsMessage
<1>9. (AnsweredAsSent /\ WithinLimits)'
    BY DEF IInv, AnsweredAsSent, WithinLimits
<1>10. DroppedForCause'
    BY <1>4 DEF IInv, DroppedForCause
<1> QED BY <1>5, <1>6, <1>7, <1>8, <1>9, <1>10 DEF IInv

\* Hanging up changes nothing of what was sent.
LEMMA HangUpIInv == ASSUME IInv, NEW c \in Clients, HangUp(c) PROVE IInv'
<1> USE DEF HangUp, server
<1>1. phase \in [Clients -> {"idle", "open", "eof", "gone"}] /\ phase[c] # "idle"
    BY DEF IInv, ClientsTyped
<1>2. PICK how \in {"eof", "gone"} : phase' = [phase EXCEPT ![c] = how]
    OBVIOUS
<1>3. /\ phase' \in [Clients -> {"idle", "open", "eof", "gone"}]
      /\ phase'[c] # "idle"
      /\ \A d \in Clients \ {c} : phase'[d] = phase[d]
    BY <1>1, <1>2
<1>4. ClientsTyped'
    BY <1>3 DEF IInv, ClientsTyped
<1>5. TypeOK'
    BY DEF IInv, TypeOK
<1>6. QueuedOnce'
    <2>1. \A i \in 1..Len(queue) : queue[i] \in Clients
        BY ElementOfSeq DEF IInv, ClientsTyped
    <2> QED BY <1>3, <2>1 DEF IInv, QueuedOnce
<1>7. HoldsMessage'
    BY DEF IInv, HoldsMessage
<1>8. (AnsweredAsSent /\ WithinLimits)'
    BY DEF IInv, AnsweredAsSent, WithinLimits
<1>9. DroppedForCause'
    BY <1>3 DEF IInv, DroppedForCause
<1> QED BY <1>4, <1>5, <1>6, <1>7, <1>8, <1>9 DEF IInv

-----------------------------------------------------------------------------
(* The server *)

\* The one being served is a client with a message and no answer.
LEMMA Serving ==
    ASSUME IInv, at # "accept"
    PROVE  /\ conn \in Clients /\ conn # NoClient /\ msg[conn] \in AllMessages
           /\ answer[conn] = "none" /\ phase[conn] # "idle"
           /\ sent[conn] \in Nat /\ taken \in Nat /\ taken <= sent[conn]
           /\ sent[conn] <= Len(Stream(msg[conn]))
           /\ Len(Stream(msg[conn])) \in Nat
<1>1. conn \in Clients /\ conn # NoClient /\ answer[conn] = "none" /\ taken <= sent[conn]
    BY ClientsAssumption DEF IInv, TypeOK
<1>2. msg[conn] \in AllMessages
    BY <1>1 DEF IInv, ClientsTyped
<1>3. Len(Stream(msg[conn])) \in Nat
    BY <1>2, StreamShape, LenProperties
<1> QED BY <1>1, <1>2, <1>3 DEF IInv, ClientsTyped, QueuedOnce

\* Taking the next connection (main.rs:115): the first in line, of which nothing
\* is read.
LEMMA AcceptIInv == ASSUME IInv, Accept PROVE IInv'
<1> USE DEF Accept, clients
<1>1. queue \in Seq(Clients) /\ queue # <<>>
    BY DEF IInv, ClientsTyped
<1>2. /\ conn' \in Clients /\ queue' \in Seq(Clients)
      /\ Len(queue) \in Nat /\ Len(queue) > 0
      /\ Len(queue') = Len(queue) - 1
      /\ \A i \in 1..Len(queue') : queue'[i] = queue[i + 1]
    BY <1>1, HeadTailProperties, EmptySeq
<1>3. conn' = queue[1]
    BY <1>1
<1>4. ClientsTyped'
    BY <1>2 DEF IInv, ClientsTyped
<1>5. answer[conn'] = "none" /\ phase[conn'] # "idle"
    BY <1>2, <1>3 DEF IInv, QueuedOnce
<1>6. TypeOK'
    <2>1. conn' # NoClient
        BY <1>2, ClientsAssumption
    <2>2. taken' <= sent[conn']
        BY <1>2 DEF IInv, ClientsTyped
    <2> QED BY <1>2, <1>5, <2>1, <2>2 DEF IInv, TypeOK
<1>7. QueuedOnce'
    <2>1. \A i \in 1..Len(queue') : i + 1 \in 1..Len(queue) /\ i + 1 # 1
        BY <1>2
    <2>2. \A i \in 1..Len(queue') : /\ queue'[i] # conn'
                                    /\ phase[queue'[i]] # "idle"
                                    /\ answer[queue'[i]] = "none"
        BY <1>2, <1>3, <2>1 DEF IInv, QueuedOnce
    <2>3. \A i, j \in 1..Len(queue') : queue'[i] = queue'[j] => i = j
        BY <1>2, <2>1 DEF IInv, QueuedOnce
    <2>4. \A d \in Clients : phase[d] = "idle" => d # conn' /\ answer[d] = "none"
        BY <1>5 DEF IInv, QueuedOnce
    <2> QED BY <2>2, <2>3, <2>4 DEF QueuedOnce
<1>8. HoldsMessage'
    <2>1. conn' # NoClient => /\ buf' = SubSeq(Stream(msg[conn']), 1, 0)
                              /\ 0 < HeadEnd(msg[conn']) /\ 0 <= MaxHead
        <3>1. msg[conn'] \in AllMessages
            BY <1>2 DEF IInv, ClientsTyped
        <3>2. SubSeq(Stream(msg[conn']), 1, 0) = <<>>
            BY SubSeqEmpty
        <3> QED BY <3>1, <3>2, StreamShape, LimitsAssumption
    <2> QED BY <2>1 DEF HoldsMessage
<1>9. (AnsweredAsSent /\ WithinLimits)'
    BY DEF IInv, AnsweredAsSent, WithinLimits
<1>10. DroppedForCause'
    BY DEF IInv, DroppedForCause
<1> QED BY <1>4, <1>6, <1>7, <1>8, <1>9, <1>10 DEF IInv

\* Closing a connection with an answer that its message calls for, or without one
\* for a cause (handle_http_client, main.rs:137-188; its errors end in main.rs:121).
LEMMA CloseIInv ==
    ASSUME IInv, at # "accept", NEW result \in Statuses \cup {"dropped"}, Close(result),
           result \in Statuses =>
               /\ HeadEnd(msg[conn]) + msg[conn].length <= Len(Stream(msg[conn]))
               /\ HeadEnd(msg[conn]) <= MaxHead + Chunk
               /\ msg[conn].length <= MaxBody
               /\ result = Status(msg[conn].route,
                                  SubSeq(msg[conn].body, 1, msg[conn].length)),
           result = "dropped" =>
               \/ phase[conn] = "gone"
               \/ msg[conn].route = Unreadable \/ msg[conn].length = Unreadable
               \/ msg[conn].length > MaxBody
               \/ HeadEnd(msg[conn]) > MaxHead + 1
               \/ sent[conn] < Needed(msg[conn])
    PROVE  IInv'
<1> USE DEF Close, clients
<1>1. conn \in Clients
    BY Serving
<1>2. answer \in [Clients -> Statuses \cup {"none", "dropped"}]
    BY DEF IInv, ClientsTyped
<1>3. /\ answer' \in [Clients -> Statuses \cup {"none", "dropped"}]
      /\ answer'[conn] = result
      /\ \A c \in Clients \ {conn} : answer'[c] = answer[c]
    BY <1>1, <1>2
<1>4. ClientsTyped'
    BY <1>3 DEF IInv, ClientsTyped
<1>5. TypeOK'
    BY <1>3 DEF TypeOK
<1>6. QueuedOnce'
    <2>1. \A i \in 1..Len(queue) : queue[i] \in Clients /\ queue[i] # conn
        BY ElementOfSeq DEF IInv, ClientsTyped, QueuedOnce
    <2>2. \A i, j \in 1..Len(queue) : queue[i] = queue[j] => i = j
        BY DEF IInv, QueuedOnce
    <2>3. \A i \in 1..Len(queue) : /\ queue[i] # NoClient
                                   /\ phase[queue[i]] # "idle"
                                   /\ answer'[queue[i]] = "none"
        BY <1>3, <2>1, ClientsAssumption DEF IInv, QueuedOnce
    <2>4. \A c \in Clients : phase[c] = "idle" => c # NoClient /\ answer'[c] = "none"
        BY <1>3, Serving, ClientsAssumption DEF IInv, QueuedOnce
    <2> QED BY <2>2, <2>3, <2>4 DEF QueuedOnce
<1>7. HoldsMessage'
    BY DEF HoldsMessage
<1>8. AnsweredAsSent'
    BY <1>3 DEF IInv, AnsweredAsSent
<1>9. WithinLimits'
    BY <1>3 DEF IInv, WithinLimits
<1>10. DroppedForCause'
    BY <1>3 DEF IInv, DroppedForCause, Needed
<1> QED BY <1>4, <1>5, <1>6, <1>7, <1>8, <1>9, <1>10 DEF IInv

\* A connection given up for a cause.
LEMMA DropIInv ==
    ASSUME IInv, at # "accept", Drop,
           \/ phase[conn] = "gone"
           \/ msg[conn].route = Unreadable \/ msg[conn].length = Unreadable
           \/ msg[conn].length > MaxBody
           \/ HeadEnd(msg[conn]) > MaxHead + 1
           \/ sent[conn] < Needed(msg[conn])
    PROVE  IInv'
<1>1. "dropped" \notin Statuses
    BY DEF Statuses
<1> QED BY <1>1, CloseIInv DEF Drop

\* A read that goes on with the same connection disturbs nobody.
LEMMA ReadIInv ==
    ASSUME IInv, at # "accept", at' \in {"head", "body", "answer"},
           UNCHANGED <<phase, msg, sent, answer, queue, conn>>,
           taken' \in Nat, taken' <= sent[conn],
           at' = "answer" => Len(body') = msg[conn].length,
           HoldsMessage'
    PROVE  IInv'
<1>1. ClientsTyped'
    BY DEF IInv, ClientsTyped
<1>2. TypeOK'
    BY Serving DEF IInv, TypeOK
<1>3. QueuedOnce'
    BY DEF IInv, QueuedOnce
<1>4. (AnsweredAsSent /\ WithinLimits)'
    BY DEF IInv, AnsweredAsSent, WithinLimits
<1>5. DroppedForCause'
    BY DEF IInv, DroppedForCause
<1> QED BY <1>1, <1>2, <1>3, <1>4, <1>5 DEF IInv

\* A read of at most so many units returns the next ones, up to some unit.
LEMMA PieceOf ==
    ASSUME IInv, at # "accept", Readable, NEW most \in Nat, most > 0
    PROVE  \E n \in (taken + 1)..sent[conn] :
               n <= taken + most /\ Piece(most) = SubSeq(Stream(msg[conn]), taken + 1, n)
<1> DEFINE n == IF taken + most < sent[conn] THEN taken + most ELSE sent[conn]
<1>1. n \in (taken + 1)..sent[conn] /\ n <= taken + most
    BY Serving DEF Readable
<1>2. Piece(most) = SubSeq(Stream(msg[conn]), taken + 1, n)
    BY DEF Piece
<1> QED BY <1>1, <1>2

\* A broken connection is a cause.
LEMMA ReadFailsIInv == ASSUME IInv, ReadFails PROVE IInv'
BY DropIInv DEF ReadFails

\* So is the end of a message before all of it arrived (main.rs:217, 248).
LEMMA EndOfInputIInv == ASSUME IInv, EndOfInput PROVE IInv'
<1> DEFINE m == msg[conn]
<1>1. at \in {"head", "body"} /\ at # "accept" /\ Drop
    BY DEF EndOfInput
<1>2. m \in AllMessages /\ taken = sent[conn] /\ taken \in Nat /\ conn # NoClient
    BY <1>1, Serving DEF EndOfInput, AtEof
<1>3. HeadEnd(m) \in Nat /\ (m.length = Unreadable \/ m.length \in Nat)
    BY <1>2, StreamShape, MessagesAssumption
<1>4. CASE at = "head"
    <2>1. taken < HeadEnd(m)
        BY <1>2, <1>4 DEF IInv, HoldsMessage
    <2>2. m.length \in Nat => sent[conn] < Needed(m)
        BY <2>1, <1>2, <1>3 DEF Needed
    <2> QED BY <2>2, <1>1, <1>3, DropIInv
<1>5. CASE at = "body"
    <2>1. /\ m.length \in Nat /\ HeadEnd(m) <= taken
          /\ body = SubSeq(Stream(m), HeadEnd(m) + 1, taken)
        BY <1>2, <1>5 DEF IInv, HoldsMessage
    <2>2. Len(body) = taken - HeadEnd(m)
        BY <2>1, <1>1, <1>2, <1>3, Serving, ReadSoFar
    <2>3. Len(body) < m.length
        BY <1>5 DEF EndOfInput
    <2>4. sent[conn] < Needed(m)
        BY <2>1, <2>2, <2>3, <1>2, <1>3 DEF Needed
    <2> QED BY <2>4, <1>1, DropIInv
<1> QED BY <1>1, <1>4, <1>5

\* What has been read of the head after one more read is the beginning of the
\* message up to some unit, wherever the pieces were cut (main.rs:215-221).
LEMMA HeadSoFar ==
    ASSUME IInv, at = "head", Readable
    PROVE  \E n \in (taken + 1)..sent[conn] :
               /\ n <= taken + Chunk
               /\ buf \o Piece(Chunk) = SubSeq(Stream(msg[conn]), 1, n)
               /\ Len(SubSeq(Stream(msg[conn]), 1, n)) = n
<1> DEFINE S == Stream(msg[conn])
<1>1. /\ taken \in Nat /\ sent[conn] \in Nat /\ taken <= sent[conn]
      /\ sent[conn] <= Len(S) /\ Len(S) \in Nat
      /\ S \in Seq(Units)
    BY Serving, StreamShape
<1>2. buf = SubSeq(S, 1, taken)
    BY Serving DEF IInv, HoldsMessage
<1>3. PICK n \in (taken + 1)..sent[conn] :
            n <= taken + Chunk /\ Piece(Chunk) = SubSeq(S, taken + 1, n)
    BY PieceOf, LimitsAssumption
<1> HIDE DEF S
<1>4. 1 \in 1..(Len(S) + 1) /\ taken \in (1 - 1)..Len(S) /\ n \in taken..Len(S)
    BY <1>1, <1>3
<1>5. SubSeq(S, 1, taken) \o SubSeq(S, taken + 1, n) = SubSeq(S, 1, n)
    BY <1>1, <1>4, ConcatAdjacentSubSeq
<1>6. \A i \in 1..n : S[i] \in Units
    BY <1>1, <1>4, ElementOfSeq
<1>7. Len(SubSeq(S, 1, n)) = IF 1 <= n THEN n - 1 + 1 ELSE 0
    BY <1>1, <1>3, <1>6, SubSeqProperties
<1>8. Len(SubSeq(S, 1, n)) = n
    BY <1>1, <1>3, <1>7
<1> QED BY <1>2, <1>3, <1>5, <1>8 DEF S

\* What came along with the head is the beginning of the body (main.rs:246).
LEMMA RestOfHead ==
    ASSUME NEW m \in AllMessages, NEW n \in HeadEnd(m)..Len(Stream(m))
    PROVE  SubSeq(SubSeq(Stream(m), 1, n), HeadEnd(m) + 1, n)
               = SubSeq(Stream(m), HeadEnd(m) + 1, n)
<1> DEFINE S == Stream(m)
           E == HeadEnd(m)
<1>1. S \in Seq(Units) /\ E \in Nat /\ E >= 2 /\ Len(S) \in Nat
    BY StreamShape, LenProperties
<1>2. n \in Int /\ E <= n /\ n <= Len(S)
    BY <1>1
<1> HIDE DEF S, E
<1>3. CASE E = n
    <2>1. n < E + 1 /\ E + 1 \in Int
        BY <1>1, <1>2, <1>3
    <2>2. SubSeq(SubSeq(S, 1, n), E + 1, n) = <<>> /\ SubSeq(S, E + 1, n) = <<>>
        BY <1>2, <2>1, SubSeqEmpty
    <2> QED BY <2>2 DEF S, E
<1>4. CASE E < n
    <2>1. /\ 1 \in 1..Len(S) /\ n \in 1..Len(S)
          /\ E + 1 \in 1..(n - 1 + 1) /\ n \in 1..(n - 1 + 1)
        BY <1>1, <1>2, <1>4
    <2>2. SubSeq(SubSeq(S, 1, n), E + 1, n) = SubSeq(S, 1 + (E + 1) - 1, 1 + n - 1)
        BY <1>1, <2>1, SubSeqOfSubSeq
    <2>3. 1 + (E + 1) - 1 = E + 1 /\ 1 + n - 1 = n
        BY <1>1, <1>2
    <2> QED BY <2>2, <2>3 DEF S, E
<1>5. E = n \/ E < n
    BY <1>1, <1>2
<1> QED BY <1>3, <1>4, <1>5

\* The head is read on until its end is there, the limit is passed, or it cannot
\* be accepted (main.rs:214-244).
LEMMA ReadHeadIInv == ASSUME IInv, ReadHead PROVE IInv'
<1> DEFINE m == msg[conn]
           E == HeadEnd(m)
           units == buf \o Piece(Chunk)
<1>1. at = "head" /\ Readable
    BY DEF ReadHead
<1>2. /\ conn # NoClient /\ m \in AllMessages
      /\ sent[conn] \in Nat /\ taken \in Nat
      /\ sent[conn] <= Len(Stream(m)) /\ Len(Stream(m)) \in Nat
    BY <1>1, Serving
<1>3. E \in Nat /\ (m.length = Unreadable \/ m.length \in Nat)
    BY <1>2, StreamShape, MessagesAssumption
<1>4. PICK n \in (taken + 1)..sent[conn] :
            /\ n <= taken + Chunk
            /\ units = SubSeq(Stream(m), 1, n)
            /\ Len(units) = n
    BY <1>1, HeadSoFar
<1>5. n \in Nat /\ n <= sent[conn] /\ n \in 0..Len(Stream(m))
    BY <1>2, <1>4
<1>6. FindEnd(units) = IF n >= E THEN E ELSE 0
    BY <1>2, <1>4, <1>5, FindEndOf
<1>7. taken <= MaxHead
    BY <1>1, <1>2 DEF IInv, HoldsMessage
<1>8. E >= 2
    BY <1>2, StreamShape
<1> HIDE DEF units
<1>9. CASE n >= E
    <2>1. TakeHead(units)
        BY <1>3, <1>6, <1>8, <1>9 DEF ReadHead, units
    <2>2. CASE Drop
        <3>1. \/ m.route = Unreadable \/ m.length = Unreadable
              \/ m.length > MaxBody
              \/ at' = "body"
            BY <2>1 DEF TakeHead
        <3>2. at' = "accept"
            BY <2>2 DEF Drop, Close
        <3> QED BY <3>1, <3>2, <2>2, <1>1, DropIInv
    <2>3. CASE ~Drop
        <3>1. /\ m.length # Unreadable /\ ~(m.length > MaxBody)
              /\ at' = "body" /\ taken' = n
              /\ body' = SubSeq(units, E + 1, n)
              /\ UNCHANGED <<phase, msg, sent, answer, queue, conn>>
            BY <2>1, <2>3, <1>4, <1>6, <1>9 DEF TakeHead, clients
        <3>2. n \in E..Len(Stream(m))
            BY <1>3, <1>5, <1>9
        <3>3. body' = SubSeq(Stream(m), E + 1, n)
            BY <3>1, <3>2, <1>2, <1>4, RestOfHead
        <3>4. E <= MaxHead + Chunk /\ m.length \in Nat /\ m.length <= MaxBody
            BY <3>1, <1>2, <1>3, <1>4, <1>5, <1>7, <1>9, LimitsAssumption
        <3>5. HoldsMessage'
            BY <3>1, <3>3, <3>4, <1>3, <1>9 DEF HoldsMessage
        <3> QED BY <3>1, <3>5, <1>1, <1>5, ReadIInv
    <2> QED BY <2>2, <2>3
<1>10. CASE ~(n >= E) /\ n > MaxHead
    <2>1. Drop
        BY <1>4, <1>6, <1>10 DEF ReadHead, units
    <2>2. E > MaxHead + 1
        BY <1>3, <1>5, <1>10, LimitsAssumption
    <2> QED BY <2>1, <2>2, <1>1, DropIInv
<1>11. CASE ~(n >= E) /\ ~(n > MaxHead)
    <2>1. /\ at' = "head" /\ buf' = units /\ taken' = n
          /\ UNCHANGED <<phase, msg, sent, answer, queue, conn>>
        BY <1>4, <1>6, <1>11 DEF ReadHead, units, clients
    <2>2. HoldsMessage'
        BY <2>1, <1>3, <1>4, <1>5, <1>11, LimitsAssumption DEF HoldsMessage
    <2> QED BY <2>1, <2>2, <1>1, <1>5, ReadIInv
<1> QED BY <1>9, <1>10, <1>11

\* The body is read on from where the head's last chunk ended (main.rs:247-252).
LEMMA ReadBodyIInv == ASSUME IInv, ReadBody PROVE IInv'
<1> DEFINE m == msg[conn]
           S == Stream(m)
           E == HeadEnd(m)
           most == m.length - Len(body)
<1>1. at = "body" /\ Readable /\ Len(body) < m.length
    BY DEF ReadBody
<1>2. /\ conn # NoClient /\ m \in AllMessages
      /\ sent[conn] \in Nat /\ taken \in Nat /\ taken <= sent[conn]
      /\ sent[conn] <= Len(S) /\ Len(S) \in Nat
    BY <1>1, Serving
<1>3. S \in Seq(Units) /\ E \in Nat
    BY <1>2, StreamShape
<1>4. m.length \in Nat /\ E <= taken /\ body = SubSeq(S, E + 1, taken)
    BY <1>1, <1>2 DEF IInv, HoldsMessage
<1>4a. m.length <= MaxBody /\ E <= MaxHead + Chunk
    BY <1>1, <1>2 DEF IInv, HoldsMessage
<1>5. Len(body) = taken - E
    BY <1>2, <1>3, <1>4, ReadSoFar
<1>6. most \in Nat /\ most > 0
    BY <1>1, <1>2, <1>3, <1>4, <1>5
<1>7. PICK n \in (taken + 1)..sent[conn] : Piece(most) = SubSeq(S, taken + 1, n)
    BY <1>1, <1>6, PieceOf
<1>8. /\ body' = body \o Piece(most)
      /\ taken' = taken + Len(Piece(most))
      /\ at' = "body" /\ UNCHANGED <<phase, msg, sent, answer, queue, conn>>
    BY <1>1 DEF ReadBody, clients
<1> HIDE DEF S, E, most
<1>9. n \in Nat /\ taken + 1 <= n /\ n <= Len(S) /\ n <= sent[conn]
    BY <1>2, <1>7
<1>10. taken' = n
    <2>1. \A i \in (taken + 1)..n : S[i] \in Units
        BY <1>2, <1>3, <1>9, ElementOfSeq
    <2>2. Len(Piece(most)) = IF taken + 1 <= n THEN n - (taken + 1) + 1 ELSE 0
        BY <2>1, <1>2, <1>7, <1>9, SubSeqProperties
    <2> QED BY <2>2, <1>2, <1>8, <1>9
<1>11. body' = SubSeq(S, E + 1, n)
    <2>1. E + 1 \in 1..(Len(S) + 1) /\ taken \in (E + 1 - 1)..Len(S) /\ n \in taken..Len(S)
        BY <1>2, <1>3, <1>4, <1>9
    <2>2. SubSeq(S, E + 1, taken) \o SubSeq(S, taken + 1, n) = SubSeq(S, E + 1, n)
        BY <2>1, <1>3, ConcatAdjacentSubSeq
    <2> QED BY <2>2, <1>4, <1>7, <1>8
<1>12. E <= n
    BY <1>2, <1>3, <1>4, <1>9
<1>13. HoldsMessage'
    BY <1>4, <1>8, <1>10, <1>11, <1>12, <1>4a DEF HoldsMessage, S, E
<1> QED BY <1>1, <1>8, <1>9, <1>10, <1>13, ReadIInv

\* Once there is enough, what came after the body is cut off (main.rs:253): what
\* is left are the first Content-Length units of the body.
LEMMA BodyReadIInv == ASSUME IInv, BodyRead PROVE IInv'
<1> DEFINE m == msg[conn]
           S == Stream(m)
           E == HeadEnd(m)
           l == m.length
<1>1. /\ at = "body" /\ Len(body) >= l
      /\ body' = SubSeq(body, 1, l) /\ at' = "answer"
      /\ UNCHANGED <<phase, msg, sent, answer, queue, conn, taken>>
    BY DEF BodyRead, clients
<1>2. /\ conn # NoClient /\ m \in AllMessages
      /\ taken \in Nat /\ taken <= sent[conn] /\ sent[conn] \in Nat
      /\ sent[conn] <= Len(S) /\ Len(S) \in Nat
    BY <1>1, Serving
<1>3. E \in Nat /\ Len(m.body) \in Nat /\ Len(S) = E + Len(m.body)
    BY <1>2, StreamShape
<1>4. l \in Nat /\ E <= taken /\ body = SubSeq(S, E + 1, taken)
    BY <1>1, <1>2 DEF IInv, HoldsMessage
<1>4a. l <= MaxBody /\ E <= MaxHead + Chunk
    BY <1>1, <1>2 DEF IInv, HoldsMessage
<1>5. Len(body) = taken - E
    BY <1>2, <1>3, <1>4, ReadSoFar
<1>6. body = SubSeq(m.body, 1, taken - E)
    <2>1. taken \in E..Len(S)
        BY <1>2, <1>3, <1>4
    <2> QED BY <2>1, <1>2, <1>4, BodyOf
<1>7. E + l <= Len(S)
    BY <1>1, <1>2, <1>3, <1>4, <1>5
<1>8. SubSeq(body, 1, l) = SubSeq(m.body, 1, l)
    <2>1. CASE l = 0
        BY <2>1, SubSeqEmpty
    <2>2. CASE l > 0
        <3> DEFINE k == taken - E
        <3> HIDE DEF S, E, l
        <3>1. k \in Nat /\ k <= Len(m.body) /\ l <= k
            <4>1. l <= taken - E
                BY <1>1, <1>5
            <4>2. taken \in Nat /\ taken <= E + Len(m.body)
                BY <1>2, <1>3
            <4> QED BY <4>1, <4>2, <1>3, <1>4
        <3> HIDE DEF k
        <3>2. /\ 1 \in 1..Len(m.body) /\ k \in 1..Len(m.body)
              /\ 1 \in 1..(k - 1 + 1) /\ l \in 1..(k - 1 + 1)
            BY <3>1, <2>2, <1>3, <1>4
        <3>3. m.body \in Seq(Units)
            BY <1>2, MessagesAssumption
        <3>4. SubSeq(SubSeq(m.body, 1, k), 1, l) = SubSeq(m.body, 1 + 1 - 1, 1 + l - 1)
            BY <3>2, <3>3, SubSeqOfSubSeq
        <3>5. 1 + 1 - 1 = 1 /\ 1 + l - 1 = l
            BY <1>4
        <3>6. SubSeq(SubSeq(m.body, 1, k), 1, l) = SubSeq(m.body, 1, l)
            BY <3>4, <3>5
        <3>7. body = SubSeq(m.body, 1, k)
            BY <1>6 DEF k
        <3> QED BY <3>6, <3>7 DEF l
    <2>3. l = 0 \/ l > 0
        BY <1>4
    <2> QED BY <2>1, <2>2, <2>3
<1>9. Len(body') = l
    <2> DEFINE b == m.body
    <2>1. b \in Seq(Units)
        BY <1>2, MessagesAssumption
    <2>2. l <= Len(b)
        BY <1>3, <1>4, <1>7
    <2> HIDE DEF b, l
    <2>3. \A i \in 1..l : b[i] \in Units
        BY <2>1, <2>2, <1>3, <1>4, ElementOfSeq DEF b
    <2>4. Len(SubSeq(b, 1, l)) = IF 1 <= l THEN l - 1 + 1 ELSE 0
        BY <2>3, <1>4, SubSeqProperties
    <2>5. Len(SubSeq(b, 1, l)) = l
        BY <2>4, <1>4
    <2> QED BY <2>5, <1>1, <1>8 DEF b
<1>10. HoldsMessage'
    BY <1>1, <1>4, <1>7, <1>8, <1>4a DEF HoldsMessage
<1> QED BY <1>1, <1>2, <1>9, <1>10, ReadIInv

\* Every route has a status (handle_http_client, main.rs:137-188).
LEMMA StatusKnown == ASSUME NEW route, NEW posted PROVE Status(route, posted) \in Statuses
BY DEF Status, Statuses

\* The answer is that to the message's own route and body, or fails for a client
\* that is gone.
LEMMA AnswerIInv == ASSUME IInv, Answer PROVE IInv'
<1> DEFINE m == msg[conn]
<1>1. at = "answer" /\ conn # NoClient
    BY Serving DEF Answer
<1>2. /\ HeadEnd(m) <= MaxHead + Chunk /\ m.length <= MaxBody
      /\ HeadEnd(m) + m.length <= Len(Stream(m))
      /\ body = SubSeq(m.body, 1, m.length)
    BY <1>1 DEF IInv, HoldsMessage
<1>3. PICK result \in {Status(m.route, body)}
                          \cup IF phase[conn] = "gone" THEN {"dropped"} ELSE {} :
            Close(result)
    BY DEF Answer
<1>4. "dropped" \notin Statuses /\ Status(m.route, body) \in Statuses
    BY StatusKnown DEF Statuses
<1>5. CASE result = Status(m.route, body)
    BY <1>1, <1>2, <1>3, <1>4, <1>5, CloseIInv
<1>6. CASE result = "dropped" /\ phase[conn] = "gone"
    BY <1>1, <1>3, <1>4, <1>6, CloseIInv
<1> QED BY <1>3, <1>5, <1>6

-----------------------------------------------------------------------------
(* Theorems *)

\* Every step of the clients and of the server preserves the invariant.
LEMMA NextIInv == ASSUME IInv, [Next]_vars PROVE IInv'
<1>1. ASSUME NEW c \in Clients, Connect(c) PROVE IInv'
    BY <1>1, ConnectIInv
<1>2. ASSUME NEW c \in Clients, Send(c) PROVE IInv'
    BY <1>2, SendIInv
<1>3. ASSUME NEW c \in Clients, HangUp(c) PROVE IInv'
    BY <1>3, HangUpIInv
<1>4. CASE Serve
    BY <1>4, AcceptIInv, ReadHeadIInv, ReadFailsIInv, EndOfInputIInv, ReadBodyIInv,
       BodyReadIInv, AnswerIInv DEF Serve
<1>5. CASE UNCHANGED vars
    BY <1>5 DEF vars, IInv, ClientsTyped, TypeOK, QueuedOnce, HoldsMessage, AnsweredAsSent,
       WithinLimits, DroppedForCause
<1> QED BY <1>1, <1>2, <1>3, <1>4, <1>5 DEF Next

\* The inductive invariant holds in every run of the server, however its clients
\* cut what they send.
THEOREM Invariance == Spec => []IInv
<1>1. IInv /\ [Next]_vars => IInv'
    BY NextIInv
<1> QED BY InitIInv, <1>1, PTL DEF Spec

\* The server answers the connection it serves, once, and never reads past what
\* has arrived.
THEOREM TypeCorrect == Spec => []TypeOK
<1>1. IInv => TypeOK
    BY DEF IInv
<1> QED BY <1>1, Invariance, PTL

\* However a request is cut, it is answered by its route and by exactly the units
\* that its Content-Length counts (read_http_request, main.rs:206-256).
THEOREM AnswersAreOfTheMessage == Spec => []AnsweredAsSent
<1>1. IInv => AnsweredAsSent
    BY DEF IInv
<1> QED BY <1>1, Invariance, PTL

\* What is answered has a head within the limit and one chunk, and what is dropped
\* broke a limit, was unreadable, incomplete, or its client is gone.
THEOREM LimitsPartMessages == Spec => []LimitsPart
<1>1. IInv => LimitsPart
    BY DEF IInv, LimitsPart
<1> QED BY <1>1, Invariance, PTL
=============================================================================
