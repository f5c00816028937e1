------------------------------ MODULE ApiCalls ------------------------------
(***************************************************************************)
(* Requests of the client: fetchApi, authedFetch and uploadBook of         *)
(* lib/api.ts with the base candidates and timers of lib/config.ts.  A     *)
(* call tries its bases in turn, each attempt under a timer of its own; an *)
(* upload is tried twice.  A request that was given up may still reach the *)
(* server, and an answer may be lost after the server acted.               *)
(*                                                                         *)
(* kinds of call: "read" and "write" through fetchApi, a read with the     *)
(* caller's signal; "upload" through authedFetch; "cover" through          *)
(* authedFetch with the caller's signal and no timer.                      *)
(***************************************************************************)
EXTENDS ClientEvents, FiniteSets

CONSTANT Bases   \* how many base candidates there are
ASSUME BasesAssumption == Bases \in Nat \ {0}

VARIABLES
    call,     \* the call the client has under way
    request,  \* the requests on the wire or at the server: [n, at]
    server    \* what the server did of the call, and whether it has the book

apiVars == <<call, request, server, events>>

Kinds == {"read", "write", "upload", "cover"}
FetchApi == {"read", "write"}
Signalled == {"read", "cover"}
Timed == Kinds \ {"cover"}

NoCall == [kind |-> "read", phase |-> "idle", base |-> 0, attempt |-> 0, n |-> 0, aborted |-> FALSE, outcome |-> "none"]

ApiInit ==
    /\ call = NoCall
    /\ request = {}
    /\ \E b \in BOOLEAN : server = [acted |-> 0, has |-> b, took |-> 0, refused |-> FALSE]

(* fetch: one more request; an aborted signal lets none out. *)
Fetch(c) ==
    /\ call' = [c EXCEPT !.phase = "waiting", !.n = c.n + 1]
    /\ request' = request \cup {[n |-> c.n + 1, at |-> "wire"]}

Ends(c, outcome) ==
    /\ call' = [c EXCEPT !.phase = "done", !.outcome = outcome]
    /\ UNCHANGED request

(* login to deleteBookmark: a call begins at the first candidate. *)
BeginCall(kind) ==
    /\ call.phase \in {"idle", "done"}
    /\ request = {}
    /\ Fetch([NoCall EXCEPT !.kind = kind, !.base = 1, !.attempt = 1])
    /\ server' = [server EXCEPT !.acted = 0, !.took = 0, !.refused = FALSE]

(* The catch of uploadBook: once more after a while, unless the server has spoken. *)
Gives(c) ==
    IF c.kind = "upload" /\ c.attempt = 1
    THEN call' = [c EXCEPT !.phase = "pausing"] /\ UNCHANGED request
    ELSE Ends(c, "failed")

(* The loop over the candidates: the next one, unless this was the last. *)
NextBase(c) == IF c.base < Bases THEN Fetch([c EXCEPT !.base = @ + 1]) ELSE Gives(c)

(* Mutant: the client hears of an abort; the next candidate is tried all the same. *)
NoAnswerBlind ==
    /\ call.phase = "waiting"
    /\ NextBase(call)
    /\ UNCHANGED server

(* shouldRetryWithNextApiBase: no answer, by an error of the network, by the timer or by the   *)
(* caller.  What the caller aborted fails at the remaining candidates without a request.       *)
NoAnswer ==
    /\ call.phase = "waiting"
    /\ IF call.aborted THEN Ends(call, "aborted") ELSE NextBase(call)
    /\ UNCHANGED server

NetworkFails == NoAnswer

(* createAbortController: every attempt has its timer. *)
TimerFires == call.kind \in Timed /\ ~call.aborted /\ NoAnswer

AbortHeard == call.aborted /\ NoAnswer

(* The caller's signal *)
Abort ==
    /\ call.kind \in Signalled /\ call.phase = "waiting" /\ ~call.aborted
    /\ call' = [call EXCEPT !.aborted = TRUE]
    /\ UNCHANGED <<request, server>>

(* The server acts on a request, awaited or not.  It keeps one book of one content. *)
ServerActs(r) ==
    /\ r.at = "wire"
    /\ server' = [server EXCEPT !.acted = IF call.kind \in {"write", "upload"} THEN @ + 1 ELSE @,
                                !.took = IF call.kind = "upload" /\ ~server.has THEN @ + 1 ELSE @,
                                !.has = @ \/ call.kind = "upload"]
    /\ request' = (request \ {r}) \cup
          {[r EXCEPT !.at = IF call.kind = "upload" /\ server.has THEN "duplicate" ELSE "good"]}
    /\ UNCHANGED call

(* It refuses, by an error of the caller's; a gateway has no server behind it, or gave it up. *)
ServerRefuses(r) ==
    /\ r.at = "wire"
    /\ request' = (request \ {r}) \cup {[r EXCEPT !.at = "refused"]}
    /\ server' = [server EXCEPT !.refused = TRUE]
    /\ UNCHANGED call
GatewayFails(r) ==
    /\ r.at # "gateway"
    /\ request' = (request \ {r}) \cup {[r EXCEPT !.at = "gateway"]}
    /\ server' = [server EXCEPT !.refused = TRUE]
    /\ UNCHANGED call

(* A request nobody waits for any more is lost, or its answer is. *)
RequestLost(r) == r.n # call.n /\ request' = request \ {r} /\ UNCHANGED <<call, server>>

(* duplicateBookFromError: the book is there, perhaps by an attempt whose answer was lost. *)
Answered(r) == IF r.at = "good" \/ (r.at = "duplicate" /\ call.kind = "upload") THEN "ok" ELSE "refused"

(* The answer of the attempt that is awaited.  fetchApi reads the body under its timer,  *)
(* authedFetch leaves it to the caller; only a gateway's error is worth another candidate. *)
AnswerArrives(r) ==
    /\ call.phase = "waiting" /\ r.n = call.n /\ r.at # "wire" /\ ~call.aborted
    /\ IF r.at = "gateway" /\ call.base < Bases
       THEN /\ call' = [call EXCEPT !.base = @ + 1, !.n = @ + 1]
            /\ request' = (request \ {r}) \cup {[n |-> call.n + 1, at |-> "wire"]}
       ELSE /\ call' = IF call.kind \in FetchApi
                       THEN [call EXCEPT !.phase = "done", !.outcome = Answered(r)]
                       ELSE [call EXCEPT !.phase = "body", !.outcome = Answered(r)]
            /\ request' = request \ {r}
    /\ UNCHANGED server

(* The body, for which no timer runs; an upload whose answer breaks off is sent again. *)
BodyArrives == call.phase = "body" /\ Ends(call, call.outcome) /\ UNCHANGED server
BodyBreaks ==
    /\ call.phase = "body"
    /\ IF call.outcome = "ok" THEN Gives([call EXCEPT !.outcome = "none"]) ELSE Ends(call, call.outcome)
    /\ UNCHANGED server

(* Half a second later: from the first candidate. *)
TryAgain ==
    /\ call.phase = "pausing"
    /\ Fetch([call EXCEPT !.attempt = 2, !.base = 1])
    /\ UNCHANGED server

ApiNext ==
    \/ External /\ ((\E kind \in Kinds : BeginCall(kind)) \/ Abort)
    \/ Internal /\ (\/ NetworkFails \/ TimerFires \/ AbortHeard \/ BodyArrives \/ BodyBreaks \/ TryAgain
                    \/ \E r \in request : \/ ServerActs(r) \/ ServerRefuses(r) \/ GatewayFails(r) \/ RequestLost(r)
                                          \/ AnswerArrives(r))

(* Timers run out, and an aborted fetch says so; that anybody answers is not assumed. *)
ApiFairness ==
    /\ WF_apiVars(Internal /\ TimerFires)
    /\ WF_apiVars(Internal /\ AbortHeard)

(***************************************************************************)
(* Properties                                                              *)
(***************************************************************************)

(* A call through fetchApi ends, whatever the network and the server do, also   *)
(* when nobody ever answers at any base.                                        *)
CallsEnd == (call.phase = "waiting" /\ call.kind \in FetchApi) ~> call.phase \in {"done", "idle"}

(* After the caller's abort no request leaves any more, to no candidate.        *)
AbortSendsNothing == [][call.aborted => call'.n = call.n \/ ~call'.aborted]_apiVars

(* An upload is reported as refused only if it was: repeated after a lost       *)
(* answer it finds its own book and says so; the library has it once.           *)
UploadHonest ==
    (call.kind = "upload" /\ call.phase = "done") =>
        /\ call.outcome = "refused" => server.refused
        /\ call.outcome = "ok" => server.has /\ server.took <= 1

(* Together: what is sent, and what is said of it, is what the caller meant. *)
RequestsSafe == []UploadHonest /\ AbortSendsNothing
=============================================================================
