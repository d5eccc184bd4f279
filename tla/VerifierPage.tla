---------------------------- MODULE VerifierPage ----------------------------
(***************************************************************************)
(* The page that fetches a sample request and has requests verified, in    *)
(* the copy the server ships (INDEX_HTML, main.rs:1091-1148) and the one   *)
(* that is published (docs/app.html), which can be told another server.    *)
(* Handlers run to their next await; what they do after it meets a page    *)
(* that the user, or another handler, has changed since.                   *)
(*                                                                         *)
(* A call is one run of loadSample or verify, at "fetch" until the         *)
(* response begins, at "text" until it is complete, "done" after that.  A  *)
(* tunnel or proxy may answer in the server's place, with an error page.   *)
(* Which server is asked (apiBase) changes nothing here and is left out.   *)
(***************************************************************************)
EXTENDS Integers, FiniteSetsExt

CONSTANTS
    Texts,          \* what the text area may hold
    Valid,          \* the requests among them that are settled
    Sample,         \* the sample request
    NoText,         \* the empty text
    ErrorPage,      \* the text of an error page
    MaxCalls        \* bounds the runs of loadSample and verify

ASSUME TextsAssumption ==
    /\ Valid \subseteq Texts /\ Sample \in Valid
    /\ {ErrorPage, NoText} \subseteq Texts \ Valid
ASSUME MaxCallsAssumption == MaxCalls \in Nat \ {0}

VARIABLES
    page,           \* the copy: "served" by the server or "published"
    payload,        \* the text area
    result, status, \* what the page shows, result with the call it came from
    disabled,       \* verifyBtn.disabled
    calls           \* the calls made

vars == <<page, payload, result, status, disabled, calls>>

CallIds == 1..MaxCalls
NoCall  == [kind |-> "none", at |-> "done", body |-> Sample, ok |-> FALSE]
Call(kind, body) == [kind |-> kind, at |-> "fetch", body |-> body, ok |-> FALSE]

InFlight(kind) == {c \in CallIds : calls[c].kind = kind /\ calls[c].at # "done"}
Made           == {c \in CallIds : calls[c].kind # "none"}

Show(what, c) == result' = [shows |-> what, call |-> c]
Settled(c)    == calls' = [calls EXCEPT ![c].at = "done"]

\* The page loads its sample when it opens.
Init ==
    /\ page \in {"served", "published"}
    /\ payload = NoText
    /\ result = [shows |-> "hint", call |-> 0]
    /\ status = "loading"
    /\ disabled = FALSE
    /\ calls = [c \in CallIds |-> IF c = 1 THEN Call("sample", Sample) ELSE NoCall]

----------------------------------------------------------------------------
(* The user                                                                *)

Edit ==
    /\ payload' \in Texts
    /\ UNCHANGED <<result, status, disabled, calls>>

StartCall(call) ==
    LET c == Cardinality(Made) + 1
    IN  c \in CallIds /\ calls' = [calls EXCEPT ![c] = call]

ClickLoadSample ==
    /\ StartCall(Call("sample", Sample))
    /\ status' = "loading"
    /\ UNCHANGED <<payload, result, disabled>>

\* Deviation: the button is not disabled while a verification runs.
ClickVerifyAgain ==
    /\ StartCall(Call("verify", payload))
    /\ status' = "verifying"
    /\ disabled' = TRUE
    /\ UNCHANGED <<payload, result>>

\* A disabled button gets no clicks.
ClickVerify ==
    /\ ~disabled
    /\ StartCall(Call("verify", payload))
    /\ disabled' = TRUE
    /\ status' = "verifying"
    /\ UNCHANGED <<payload, result>>

ClickClear ==
    /\ Show("cleared", 0)
    /\ status' = ""
    /\ UNCHANGED <<payload, disabled, calls>>

\* Only the published page keeps an endpoint.
ClickSaveApi ==
    /\ page = "published"
    /\ status' = "saved"
    /\ UNCHANGED <<payload, result, disabled, calls>>

----------------------------------------------------------------------------
(* What a call meets                                                       *)

\* The response begins: res.ok is known, the text is not.
Respond(c) ==
    /\ calls[c].at = "fetch"
    /\ \E ok \in BOOLEAN :
        /\ ok => calls[c].kind = "sample" \/ calls[c].body \in Valid
        /\ calls' = [calls EXCEPT ![c].at = "text", ![c].ok = ok]
    /\ UNCHANGED <<payload, result, status, disabled>>

\* loadSample takes whatever text came for the sample.
FinishSample(c) ==
    /\ calls[c].kind = "sample" /\ calls[c].at = "text"
    /\ payload' = IF calls[c].ok THEN Sample ELSE ErrorPage
    /\ Show("sample loaded", c)
    /\ status' = "sample ready"
    /\ Settled(c)
    /\ UNCHANGED disabled

\* Deviation: res.ok is not looked at.
FinishVerifyUnchecked(c) ==
    /\ calls[c].kind = "verify" /\ calls[c].at = "text"
    /\ Show("answer", c)
    /\ status' = "validated"
    /\ disabled' = FALSE
    /\ Settled(c)
    /\ UNCHANGED payload

FinishVerify(c) ==
    /\ calls[c].kind = "verify" /\ calls[c].at = "text"
    /\ Show("answer", c)
    /\ status' = IF calls[c].ok THEN "validated" ELSE "rejected"
    /\ disabled' = FALSE
    /\ Settled(c)
    /\ UNCHANGED payload

\* Deviation: the button is given back at the end of the try, without finally.
FailVerifyStuck(c) ==
    /\ c \in InFlight("verify")
    /\ Show("error", c)
    /\ status' = "connection failed"
    /\ Settled(c)
    /\ UNCHANGED <<payload, disabled>>

\* Either await may throw.
FailVerify(c) ==
    /\ c \in InFlight("verify")
    /\ Show("error", c)
    /\ status' = "connection failed"
    /\ disabled' = FALSE
    /\ Settled(c)
    /\ UNCHANGED payload

\* Deviation: nothing catches what a load throws.
FailSampleUncaught(c) ==
    /\ c \in InFlight("sample")
    /\ Settled(c)
    /\ UNCHANGED <<payload, result, status, disabled>>

\* The load of the page's opening is caught in both copies, the clicked one
\* only in the published page.
FailSample(c) ==
    /\ c \in InFlight("sample")
    /\ c = 1 \/ page = "published"
    /\ Show("error", c)
    /\ status' = "sample failed"
    /\ Settled(c)
    /\ UNCHANGED <<payload, disabled>>

\* The served page hands loadSample itself to the click: what it throws is
\* caught nowhere.
LoseSample(c) ==
    /\ c \in InFlight("sample")
    /\ c # 1 /\ page = "served"
    /\ Settled(c)
    /\ UNCHANGED <<payload, result, status, disabled>>

Progress(c) ==
    /\ \/ Respond(c) \/ FinishSample(c) \/ FinishVerify(c)
       \/ FailVerify(c) \/ FailSample(c) \/ LoseSample(c)
    /\ UNCHANGED page

Next ==
    \/ /\ Edit \/ ClickLoadSample \/ ClickVerify \/ ClickClear \/ ClickSaveApi
       /\ UNCHANGED page
    \/ \E c \in CallIds : Progress(c)

\* A fetch settles, one way or the other.  The user need not do anything.
Spec == Init /\ [][Next]_vars /\ \A c \in CallIds : WF_vars(Progress(c))

----------------------------------------------------------------------------
Calls == [kind : {"none", "sample", "verify"}, at : {"fetch", "text", "done"},
          body : Texts, ok : BOOLEAN]

Typed ==
    /\ page \in {"served", "published"}
    /\ payload \in Texts
    /\ result.call \in {0} \cup Made
    /\ status \in {"loading", "sample ready", "sample failed", "verifying", "validated",
                   "rejected", "connection failed", "saved", ""}
    /\ disabled \in BOOLEAN
    /\ calls \in [CallIds -> Calls]

\* The verify button is disabled exactly while a verification is in flight
\* (main.rs:1111-1133), so that there is never more than one.
TypeOK == Typed /\ Cardinality(InFlight("verify")) = IF disabled THEN 1 ELSE 0

Verifications == {c \in CallIds : calls[c].kind = "verify"}

\* With no verification in flight, an answer on the page is the one to the
\* latest request, however the fetches overlapped (main.rs:1111-1133).
AnswerIsLatest ==
    result.shows = "answer" /\ ~disabled => result.call = Max(Verifications)

\* The verdict in the status line and the answer below it are of one call,
\* whatever sample, failure or click came in between; "validated" is only ever
\* said of a request that is (main.rs:1121-1126).
VerdictAgrees ==
    status \in {"validated", "rejected"} =>
        /\ result.shows = "answer"
        /\ calls[result.call].ok <=> status = "validated"
        /\ status = "validated" => calls[result.call].body \in Valid

\* Every verification gives the button back, also one whose fetch or text
\* throws (the finally of main.rs:1130-1132).
ButtonComesBack == disabled ~> ~disabled

\* "Carregando exemplo..." (app.html:174) does not stay for good on the published
\* page: a load that fails says so.  On the served page it may, when the load
\* was clicked (main.rs:1098, 1135).
LoadingEnds == (page = "published" /\ status = "loading") ~> status # "loading"

\* "Exemplo pronto." (app.html:179): what is then in the text area is the
\* sample.  The code does not look at res.ok.
ReadyMeansSample ==
    [][status' = "sample ready" /\ status # "sample ready" => payload' = Sample]_vars
=============================================================================
