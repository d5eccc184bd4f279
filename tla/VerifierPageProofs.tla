------------------------- MODULE VerifierPageProofs -------------------------
(***************************************************************************)
(* VerifierPage's invariants, for any texts and any number of calls.       *)
(***************************************************************************)
EXTENDS VerifierPage, FiniteSetTheorems, TLAPS

-----------------------------------------------------------------------------
(* The inductive invariant *)

\* Calls are numbered as they are made.
InOrder == \E n \in Nat : Made = 1..n

\* The verify button knows of the one verification in flight,
OneInFlight == IF disabled THEN \E c \in CallIds : InFlight("verify") = {c}
                           ELSE InFlight("verify") = {}

\* which is the latest;
LatestInFlight == \A c \in InFlight("verify") : \A v \in Verifications : v <= c

\* the answer on the page is that of a verification that is over, and only the
\* one in flight is later;
AnswerSettled ==
    result.shows = "answer" =>
        /\ result.call \in Verifications /\ calls[result.call].at = "done"
        /\ \A v \in Verifications : v <= result.call \/ v \in InFlight("verify")

\* and the server says 200 to requests it settles only.
OkIsValid == \A c \in Verifications : calls[c].ok => calls[c].body \in Valid

IInv == /\ Typed /\ InOrder /\ OneInFlight /\ LatestInFlight /\ AnswerSettled /\ OkIsValid
        /\ VerdictAgrees

\* The page has only begun to load its sample.
LEMMA InitIInv == Init => IInv
<1> SUFFICES ASSUME Init PROVE IInv
    OBVIOUS
<1>1. 1 \in CallIds
    BY MaxCallsAssumption DEF CallIds
<1>2. calls[1].kind = "sample" /\ \A c \in CallIds \ {1} : calls[c].kind = "none"
    BY <1>1 DEF Init, Call, NoCall
<1>3. Made = {1} /\ Verifications = {} /\ InFlight("verify") = {}
    BY <1>1, <1>2 DEF Made, Verifications, InFlight
<1>4. InOrder
    <2>1. Made = 1..1
        BY <1>3
    <2> QED BY <2>1 DEF InOrder
<1>5. Typed
    <2>1. calls \in [CallIds -> Calls]
        BY TextsAssumption DEF Init, Call, NoCall, Calls
    <2> QED BY <2>1, TextsAssumption DEF Init, Typed
<1> QED BY <1>3, <1>4, <1>5
        DEF Init, IInv, OneInFlight, LatestInFlight, AnswerSettled, OkIsValid, VerdictAgrees

-----------------------------------------------------------------------------
(* What a step does to the calls *)

\* A call gets the number after all the others (main.rs:1093, 1111).
LEMMA Started ==
    ASSUME Typed, InOrder, NEW kind \in {"sample", "verify"}, NEW text \in Texts,
           StartCall(Call(kind, text))
    PROVE  \E c \in CallIds : /\ calls[c].kind = "none" /\ \A d \in Made : d < c
                              /\ calls' = [calls EXCEPT ![c] = Call(kind, text)]
                              /\ Made' = Made \cup {c}
                              /\ calls' \in [CallIds -> Calls]
                              /\ InOrder'
<1> PICK n \in Nat : Made = 1..n
    BY DEF InOrder
<1> DEFINE c == n + 1
<1>1. Cardinality(Made) = n
    BY FS_Interval
<1>2. c \in CallIds /\ calls' = [calls EXCEPT ![c] = Call(kind, text)]
    BY <1>1 DEF StartCall
<1>3. c \notin Made /\ \A d \in Made : d < c
    OBVIOUS
<1>4. calls[c].kind = "none"
    BY <1>2, <1>3 DEF Made
<1>5. calls' \in [CallIds -> Calls]
    BY <1>2 DEF Typed, Call, Calls
<1>6. calls'[c].kind # "none" /\ \A d \in CallIds \ {c} : calls'[d] = calls[d]
    BY <1>2 DEF Typed, Call, Calls
<1>7. Made' = Made \cup {c}
    BY <1>2, <1>6 DEF Made
<1>8. InOrder'
    <2>1. Made' = 1..c /\ c \in Nat
        BY <1>7
    <2> QED BY <2>1 DEF InOrder
<1> QED BY <1>2, <1>3, <1>4, <1>5, <1>7, <1>8

\* A call that goes on keeps its kind and its text.
GoesOn(c, there, ok) == calls' = [calls EXCEPT ![c].at = there, ![c].ok = ok]

\* It stays in its place among the calls.
LEMMA WentOn ==
    ASSUME Typed, InOrder, NEW c \in CallIds, NEW there \in {"text", "done"},
           NEW ok \in BOOLEAN, GoesOn(c, there, ok)
    PROVE  /\ calls' \in [CallIds -> Calls]
           /\ Made' = Made /\ Verifications' = Verifications /\ InOrder'
           /\ calls'[c].at = there /\ calls'[c].ok = ok
           /\ calls'[c].kind = calls[c].kind /\ calls'[c].body = calls[c].body
           /\ \A d \in CallIds \ {c} : calls'[d] = calls[d]
<1>1. /\ calls' \in [CallIds -> Calls]
      /\ calls'[c].at = there /\ calls'[c].ok = ok
      /\ calls'[c].kind = calls[c].kind /\ calls'[c].body = calls[c].body
      /\ \A d \in CallIds \ {c} : calls'[d] = calls[d]
    BY DEF Typed, GoesOn, Calls
<1>2. Made' = Made /\ Verifications' = Verifications
    BY <1>1 DEF Made, Verifications
<1> QED BY <1>1, <1>2 DEF InOrder

\* A call that is over has only reached its end.
LEMMA SettledGoesOn ==
    ASSUME Typed, NEW c \in CallIds, Settled(c)
    PROVE  GoesOn(c, "done", calls[c].ok) /\ calls[c].ok \in BOOLEAN
BY DEF Typed, Settled, GoesOn, Calls

-----------------------------------------------------------------------------
(* Every step keeps the invariant. *)

\* Typing, clearing and saving an endpoint leave the calls alone (main.rs:1136-1140).
LEMMA QuietStep ==
    ASSUME IInv, Edit \/ ClickClear \/ ClickSaveApi, UNCHANGED page
    PROVE  IInv'
<1>1. /\ UNCHANGED <<calls, disabled>> /\ payload' \in Texts
      /\ \/ result' = result
         \/ result'.shows = "cleared" /\ result'.call = 0 /\ status' = ""
      /\ status' \in {status, "", "saved"}
    <2>1. CASE Edit
        BY <2>1 DEF Edit
    <2>2. CASE ClickClear
        BY <2>2 DEF IInv, Typed, ClickClear, Show
    <2>3. CASE ClickSaveApi
        BY <2>3 DEF IInv, Typed, ClickSaveApi
    <2> QED BY <2>1, <2>2, <2>3
<1>2. Made' = Made /\ Verifications' = Verifications
      /\ InFlight("verify")' = InFlight("verify")
    BY <1>1 DEF Made, Verifications, InFlight
<1>3. Typed'
    BY <1>1, <1>2 DEF IInv, Typed
<1>4. InOrder' /\ OneInFlight' /\ LatestInFlight' /\ OkIsValid'
    BY <1>1, <1>2 DEF IInv, InOrder, OneInFlight, LatestInFlight, OkIsValid
<1>5. AnswerSettled'
    BY <1>1, <1>2 DEF IInv, AnswerSettled
<1>6. VerdictAgrees'
    BY <1>1 DEF IInv, VerdictAgrees
<1> QED BY <1>3, <1>4, <1>5, <1>6 DEF IInv

\* A load of the sample is no verification (main.rs:1093-1104).
LEMMA LoadStep ==
    ASSUME IInv, ClickLoadSample, UNCHANGED page
    PROVE  IInv'
<1>1. Typed /\ InOrder /\ Sample \in Texts
    BY TextsAssumption DEF IInv
<1> PICK c \in CallIds : /\ calls[c].kind = "none" /\ \A d \in Made : d < c
                         /\ calls' = [calls EXCEPT ![c] = Call("sample", Sample)]
                         /\ Made' = Made \cup {c}
                         /\ calls' \in [CallIds -> Calls]
                         /\ InOrder'
    BY <1>1, Started DEF ClickLoadSample
<1>2. /\ calls'[c].kind = "sample" /\ \A d \in CallIds \ {c} : calls'[d] = calls[d]
      /\ status' = "loading" /\ UNCHANGED <<payload, result, disabled>>
    BY <1>1 DEF Typed, Call, ClickLoadSample
<1>3. Verifications' = Verifications /\ InFlight("verify")' = InFlight("verify")
    BY <1>2 DEF Verifications, InFlight
<1>4. \A v \in Verifications : calls'[v] = calls[v]
    BY <1>2 DEF Verifications
<1>5. Typed'
    BY <1>1, <1>2 DEF Typed
<1>6. OneInFlight' /\ LatestInFlight' /\ OkIsValid'
    BY <1>2, <1>3, <1>4 DEF IInv, OneInFlight, LatestInFlight, OkIsValid
<1>7. AnswerSettled'
    BY <1>2, <1>3, <1>4 DEF IInv, AnswerSettled
<1>8. VerdictAgrees'
    BY <1>2 DEF VerdictAgrees
<1> QED BY <1>5, <1>6, <1>7, <1>8 DEF IInv

\* The button is enabled, so that the new verification is the only one in flight
\* (main.rs:1111-1114).
LEMMA VerifyStep ==
    ASSUME IInv, ClickVerify, UNCHANGED page
    PROVE  IInv'
<1>1. Typed /\ InOrder /\ payload \in Texts
    BY DEF IInv, Typed
<1> PICK c \in CallIds : /\ calls[c].kind = "none" /\ \A d \in Made : d < c
                         /\ calls' = [calls EXCEPT ![c] = Call("verify", payload)]
                         /\ Made' = Made \cup {c}
                         /\ calls' \in [CallIds -> Calls]
                         /\ InOrder'
    BY <1>1, Started DEF ClickVerify
<1>2. /\ calls'[c] = Call("verify", payload)
      /\ \A d \in CallIds \ {c} : calls'[d] = calls[d]
      /\ status' = "verifying" /\ disabled' = TRUE /\ ~disabled
      /\ UNCHANGED <<payload, result>>
    BY <1>1 DEF Typed, ClickVerify
<1>3. /\ calls'[c].kind = "verify" /\ calls'[c].at = "fetch" /\ ~calls'[c].ok
    BY <1>2 DEF Call
<1>4. /\ Verifications' = Verifications \cup {c} /\ InFlight("verify") = {}
      /\ c \notin Verifications
    BY <1>2, <1>3 DEF IInv, OneInFlight, Verifications
<1>5. InFlight("verify")' = {c}
    BY <1>2, <1>3, <1>4 DEF InFlight
<1>6. \A v \in Verifications : v < c /\ calls'[v] = calls[v]
    BY <1>2, <1>4 DEF Verifications, Made
<1>7. Typed'
    BY <1>1, <1>2 DEF Typed
<1>8. OneInFlight'
    BY <1>2, <1>5 DEF OneInFlight
<1>9. LatestInFlight'
    <2>1. c \in Nat
        BY MaxCallsAssumption DEF CallIds
    <2>2. \A v \in Verifications : v \in Nat
        BY MaxCallsAssumption DEF CallIds, Verifications
    <2> QED BY <1>4, <1>5, <1>6, <2>1, <2>2 DEF LatestInFlight
<1>10. OkIsValid'
    BY <1>3, <1>4, <1>6 DEF IInv, OkIsValid
<1>11. AnswerSettled'
    BY <1>2, <1>4, <1>5, <1>6 DEF IInv, AnswerSettled
<1>12. VerdictAgrees'
    BY <1>2 DEF VerdictAgrees
<1> QED BY <1>7, <1>8, <1>9, <1>10, <1>11, <1>12 DEF IInv

\* The beginning of a response changes nothing on the page (main.rs:1115-1121).
LEMMA RespondStep ==
    ASSUME IInv, NEW c \in CallIds, Respond(c), UNCHANGED page
    PROVE  IInv'
<1>1. Typed /\ InOrder
    BY DEF IInv
<1> PICK ok \in BOOLEAN : /\ ok => calls[c].kind = "sample" \/ calls[c].body \in Valid
                          /\ GoesOn(c, "text", ok)
    BY DEF Respond, GoesOn
<1>2. calls[c].at = "fetch" /\ UNCHANGED <<payload, result, status, disabled>>
    BY DEF Respond
<1>3. /\ calls' \in [CallIds -> Calls]
      /\ Made' = Made /\ Verifications' = Verifications /\ InOrder'
      /\ calls'[c].at = "text" /\ calls'[c].ok = ok
      /\ calls'[c].kind = calls[c].kind /\ calls'[c].body = calls[c].body
      /\ \A d \in CallIds \ {c} : calls'[d] = calls[d]
    BY <1>1, WentOn
<1>4. InFlight("verify")' = InFlight("verify")
    BY <1>2, <1>3 DEF InFlight
<1>5. Typed'
    BY <1>1, <1>2, <1>3 DEF Typed
<1>6. OneInFlight' /\ LatestInFlight'
    BY <1>2, <1>3, <1>4 DEF IInv, OneInFlight, LatestInFlight
<1>7. OkIsValid'
    <2> SUFFICES ASSUME NEW v \in Verifications, calls'[v].ok PROVE calls'[v].body \in Valid
        BY <1>3 DEF OkIsValid
    <2>1. CASE v = c
        BY <1>3, <2>1 DEF Verifications
    <2>2. CASE v # c
        BY <1>3, <2>2 DEF IInv, OkIsValid, Verifications
    <2> QED BY <2>1, <2>2
<1>8. result.shows = "answer" => result.call \in CallIds \ {c}
    BY <1>2 DEF IInv, AnswerSettled, Verifications
<1>9. AnswerSettled' /\ VerdictAgrees'
    BY <1>2, <1>3, <1>4, <1>8 DEF IInv, AnswerSettled, VerdictAgrees
<1> QED BY <1>3, <1>5, <1>6, <1>7, <1>9 DEF IInv

\* A verification that is over gives the button back, and what it shows is of it
\* (main.rs:1121-1132).
LEMMA VerifyEndStep ==
    ASSUME IInv, NEW c \in CallIds, FinishVerify(c) \/ FailVerify(c), UNCHANGED page
    PROVE  IInv'
<1>1. Typed /\ InOrder
    BY DEF IInv
<1>2. /\ c \in InFlight("verify") /\ Settled(c) /\ disabled' = FALSE /\ payload' = payload
      /\ result'.call = c
      /\ \/ /\ result'.shows = "answer"
            /\ status' = IF calls[c].ok THEN "validated" ELSE "rejected"
         \/ result'.shows = "error" /\ status' = "connection failed"
    <2>1. CASE FinishVerify(c)
        BY <2>1 DEF FinishVerify, Show, InFlight
    <2>2. CASE FailVerify(c)
        BY <2>2 DEF FailVerify, Show
    <2> QED BY <2>1, <2>2
<1>3. /\ calls' \in [CallIds -> Calls]
      /\ Made' = Made /\ Verifications' = Verifications /\ InOrder'
      /\ calls'[c].at = "done" /\ calls'[c].ok = calls[c].ok
      /\ calls'[c].kind = calls[c].kind /\ calls'[c].body = calls[c].body
      /\ \A d \in CallIds \ {c} : calls'[d] = calls[d]
    BY <1>1, <1>2, SettledGoesOn, WentOn
<1>4. InFlight("verify") = {c} /\ c \in Verifications
    <2>1. \E d \in CallIds : InFlight("verify") \subseteq {d}
        BY <1>2 DEF IInv, OneInFlight
    <2> QED BY <1>2, <2>1 DEF InFlight, Verifications
<1>5. InFlight("verify")' = {}
    BY <1>3, <1>4 DEF InFlight
<1>6. Typed'
    BY <1>1, <1>2, <1>3 DEF Typed, Made, InFlight
<1>7. OneInFlight' /\ LatestInFlight'
    BY <1>2, <1>5 DEF OneInFlight, LatestInFlight
<1>8. OkIsValid'
    BY <1>3 DEF IInv, OkIsValid, Verifications
<1>9. AnswerSettled'
    BY <1>2, <1>3, <1>4 DEF IInv, AnswerSettled, LatestInFlight
<1>10. VerdictAgrees'
    BY <1>2, <1>3, <1>4 DEF IInv, OkIsValid, VerdictAgrees
<1> QED BY <1>3, <1>6, <1>7, <1>8, <1>9, <1>10 DEF IInv

\* A load that is over leaves the verifications and the button alone
\* (main.rs:1093-1109, 1135, 1141-1147).
LEMMA SampleEndStep ==
    ASSUME IInv, NEW c \in CallIds,
           FinishSample(c) \/ FailSample(c) \/ LoseSample(c), UNCHANGED page
    PROVE  IInv'
<1>1. Typed /\ InOrder
    BY DEF IInv
<1>2. /\ calls[c].kind = "sample" /\ Settled(c) /\ disabled' = disabled
      /\ payload' \in {payload, Sample, ErrorPage}
      /\ \/ result' = result /\ status' = status
         \/ /\ result'.shows # "answer" /\ result'.call = c
            /\ status' \in {"sample ready", "sample failed"}
    <2>1. CASE FinishSample(c)
        BY <2>1 DEF FinishSample, Show
    <2>2. CASE FailSample(c)
        BY <2>2 DEF FailSample, Show, InFlight
    <2>3. CASE LoseSample(c)
        BY <2>3 DEF LoseSample, InFlight
    <2> QED BY <2>1, <2>2, <2>3
<1>3. /\ calls' \in [CallIds -> Calls]
      /\ Made' = Made /\ Verifications' = Verifications /\ InOrder'
      /\ calls'[c].kind = calls[c].kind
      /\ \A d \in CallIds \ {c} : calls'[d] = calls[d]
    BY <1>1, <1>2, SettledGoesOn, WentOn
<1>4. /\ InFlight("verify")' = InFlight("verify") /\ c \notin Verifications
      /\ \A v \in Verifications : calls'[v] = calls[v]
    BY <1>2, <1>3 DEF InFlight, Verifications
<1>5. Typed'
    BY <1>1, <1>2, <1>3, TextsAssumption DEF Typed, Made
<1>6. OneInFlight' /\ LatestInFlight' /\ OkIsValid'
    BY <1>2, <1>3, <1>4 DEF IInv, OneInFlight, LatestInFlight, OkIsValid
<1>7. AnswerSettled'
    BY <1>2, <1>3, <1>4 DEF IInv, AnswerSettled
<1>8. VerdictAgrees'
    BY <1>2, <1>3, <1>4 DEF IInv, AnswerSettled, VerdictAgrees
<1> QED BY <1>3, <1>5, <1>6, <1>7, <1>8 DEF IInv

\* Every step keeps the inductive invariant.
LEMMA NextIInv == IInv /\ [Next]_vars => IInv'
<1> SUFFICES ASSUME IInv, [Next]_vars PROVE IInv'
    OBVIOUS
<1>1. CASE Next
    BY <1>1, QuietStep, LoadStep, VerifyStep, RespondStep, VerifyEndStep, SampleEndStep
       DEF Next, Progress
<1>2. CASE UNCHANGED vars
    BY <1>2 DEF vars, IInv, Typed, InOrder, OneInFlight, LatestInFlight, AnswerSettled,
                OkIsValid, VerdictAgrees, Made, Verifications, InFlight
<1> QED BY <1>1, <1>2

-----------------------------------------------------------------------------
(* Theorems *)

\* However handlers, clicks and responses interleave, the page's invariant holds.
THEOREM Invariance == Spec => []IInv
BY InitIInv, NextIInv, PTL DEF Spec

\* The button is disabled exactly while a verification is in flight, and there is
\* never a second one (main.rs:1111-1133).
THEOREM TypeCorrect == Spec => []TypeOK
<1>1. ASSUME NEW S, NEW b \in BOOLEAN,
             IF b THEN \E c \in CallIds : S = {c} ELSE S = {}
      PROVE  Cardinality(S) = IF b THEN 1 ELSE 0
    BY <1>1, FS_EmptySet, FS_Singleton
<1>2. IInv => TypeOK
    BY <1>1 DEF IInv, Typed, OneInFlight, TypeOK
<1> QED BY <1>2, Invariance, PTL

\* With the button enabled, an answer on the page is the one to the latest
\* request, for any number of calls (main.rs:1111-1133).
THEOREM LatestAnswer == Spec => []AnswerIsLatest
<1>1. ASSUME IInv, result.shows = "answer", ~disabled
      PROVE  result.call = Max(Verifications)
    <2>1. result.call \in Verifications /\ \A v \in Verifications : v <= result.call
        BY <1>1 DEF IInv, AnswerSettled, OneInFlight
    <2>2. Verifications \subseteq Int
        BY MaxCallsAssumption DEF Verifications, CallIds
    <2>3. \A v \in Verifications :
            (\A y \in Verifications : v >= y) => v = result.call
        <3> SUFFICES ASSUME NEW v \in Verifications, \A y \in Verifications : v >= y
                     PROVE  v = result.call
            OBVIOUS
        <3>1. v >= result.call /\ v <= result.call
            BY <2>1
        <3>2. v \in Int /\ result.call \in Int
            BY <2>1, <2>2
        <3> DEFINE shown == result.call
        <3> HIDE DEF shown
        <3>3. v = shown
            BY <3>1, <3>2 DEF shown
        <3> QED BY <3>3 DEF shown
    <2>4. \A y \in Verifications : result.call >= y
        BY <2>1, <2>2
    <2> QED BY <2>1, <2>3, <2>4 DEF Max
<1>2. IInv => AnswerIsLatest
    BY <1>1 DEF AnswerIsLatest
<1> QED BY <1>2, Invariance, PTL

\* The verdict in the status line is that of the answer shown, and "validated"
\* is said of valid requests only (main.rs:1121-1126).
THEOREM VerdictsAgree == Spec => []VerdictAgrees
<1>1. IInv => VerdictAgrees
    BY DEF IInv
<1> QED BY <1>1, Invariance, PTL
=============================================================================
