---------------------------- MODULE RequestBatch ----------------------------
(***************************************************************************)
(* Request.request(attributes:) over RyNetManager: a batch of requests in  *)
(* one DispatchGroup, whose completions come back on the main queue in any *)
(* order, and the manager's recovery from server errors: the third one     *)
(* asks a second service for a new base URL, then GETs that URL and hands  *)
(* the answer to the completion of the request that failed last.           *)
(***************************************************************************)
EXTENDS Integers, FiniteSets, Sequences

CONSTANTS
  Batches, Attributes,       \* a request is one attribute of one batch
  ServerErrorRequestLimit    \* serverErrorRequestLimit

ASSUME BatchAssumption ==
  /\ IsFiniteSet(Attributes) /\ Attributes # {}
  /\ ServerErrorRequestLimit \in Nat \ {0}

\* A batch is a Set of attributes, which are equal if kind and number are.
Requests == Batches \X Attributes

VARIABLES
  baseURL,       \* "given", "moved" (answered by the second service) or ""
  errorCount,    \* serverErrorRequestCount
  stage,         \* per request: "unsent", "given", "moved", "" (in flight to
                 \* that base URL) or "answered"
  barriers,      \* synchronizationQueue: blocks of requests that met a 5xx
  recovery,      \* per request: "none", "probe" (getCurrentBaseURL in flight)
                 \* or the new base URL whose GET is in flight
  open,          \* per batch: enters of its DispatchGroup minus leaves
  results,       \* per batch: what its completions appended
  notice,        \* per batch: "unset", "set" by notify, "posted", "delivered"
  received,      \* per batch: what response(results) was called with
  crashed,       \* leave() without an enter() stops the process
  switched       \* history: requests whose completion got a second answer

netVars == << baseURL, errorCount, stage, barriers, recovery, switched >>
groupVars == << open, results, notice, received, crashed >>
vars == << netVars, groupVars >>

InFlight == {"given", "moved", ""}

Init ==
  /\ baseURL = "given"
  /\ errorCount = 0
  /\ stage = [r \in Requests |-> "unsent"]
  /\ barriers = << >>
  /\ recovery = [r \in Requests |-> "none"]
  /\ switched = {}
  /\ open = [b \in Batches |-> 0]
  /\ results = [b \in Batches |-> << >>]
  /\ notice = [b \in Batches |-> "unset"]
  /\ received = [b \in Batches |-> << >>]
  /\ crashed = FALSE

-----------------------------------------------------------------------------

\* request(attributes:): enter and send each attribute, then notify. Answers
\* arrive on the main queue, after this.
RequestAll(b) ==
  /\ ~crashed
  /\ notice[b] = "unset"
  /\ stage' = [r \in Requests |-> IF r[1] = b THEN baseURL ELSE stage[r]]
  /\ open' = [open EXCEPT ![b] = Cardinality(Attributes)]
  /\ notice' = [notice EXCEPT ![b] = "set"]
  /\ UNCHANGED << baseURL, errorCount, barriers, recovery, switched, results, received, crashed >>

\* Seeded faults: every leave notifies; a failure does not leave.
CompleteEager(b, result) ==
  /\ results' = [results EXCEPT ![b] = Append(@, result)]
  /\ IF open[b] = 0
     THEN crashed' = TRUE /\ UNCHANGED << open, notice >>
     ELSE /\ open' = [open EXCEPT ![b] = @ - 1]
          /\ notice' = [notice EXCEPT ![b] = IF @ = "set" THEN "posted" ELSE @]
          /\ UNCHANGED crashed
  /\ UNCHANGED received

CompleteSuccess(b, result) ==
  /\ results' = [results EXCEPT ![b] = Append(@, result)]
  /\ IF ~result.ok
     THEN UNCHANGED << open, notice, crashed >>
     ELSE IF open[b] = 0
     THEN crashed' = TRUE /\ UNCHANGED << open, notice >>
     ELSE /\ open' = [open EXCEPT ![b] = @ - 1]
          /\ notice' = [notice EXCEPT ![b] = IF open[b] = 1 /\ @ = "set" THEN "posted" ELSE @]
          /\ UNCHANGED crashed
  /\ UNCHANGED received

\* The completion of a request of batch b: append, then leave. The last leave
\* submits the notify block; one more is a fatal error of libdispatch.
Complete(b, result) ==
  /\ results' = [results EXCEPT ![b] = Append(@, result)]
  /\ IF open[b] = 0
     THEN crashed' = TRUE /\ UNCHANGED << open, notice >>
     ELSE /\ open' = [open EXCEPT ![b] = @ - 1]
          /\ notice' = [notice EXCEPT ![b] = IF open[b] = 1 /\ @ = "set" THEN "posted" ELSE @]
          /\ UNCHANGED crashed
  /\ UNCHANGED received

Result(r, ok) == [of |-> r[2], ok |-> ok, repeated |-> r \in switched']

\* handleResponse of a success, parsed or not, or of a failure with no status
\* code of a server error; an empty base URL makes no valid URL.
Respond(r, ok) ==
  /\ ~crashed
  /\ stage[r] \in InFlight /\ (stage[r] = "" => ~ok)
  /\ stage' = [stage EXCEPT ![r] = "answered"]
  /\ UNCHANGED << baseURL, errorCount, barriers, recovery, switched >>
  /\ Complete(r[1], Result(r, ok))

\* Seeded faults: the request is answered and sent again; it is queued and not
\* answered; a request to an empty base URL counts as a server error.
RespondServerErrorAgain(r) ==
  /\ ~crashed
  /\ stage[r] \in InFlight \ {""} /\ Len(barriers) < 2
  /\ barriers' = Append(barriers, r)
  /\ UNCHANGED << baseURL, errorCount, stage, recovery, switched >>
  /\ Complete(r[1], Result(r, FALSE))

RespondServerErrorLater(r) ==
  /\ ~crashed
  /\ stage[r] \in InFlight \ {""}
  /\ stage' = [stage EXCEPT ![r] = "answered"]
  /\ barriers' = Append(barriers, r)
  /\ UNCHANGED << baseURL, errorCount, recovery, switched, groupVars >>

RespondAnyError(r) ==
  /\ ~crashed
  /\ stage[r] \in InFlight
  /\ stage' = [stage EXCEPT ![r] = "answered"]
  /\ barriers' = Append(barriers, r)
  /\ UNCHANGED << baseURL, errorCount, recovery, switched >>
  /\ Complete(r[1], Result(r, FALSE))

\* handleResponse of a 5xx: queue the barrier block, and complete at once.
RespondServerError(r) ==
  /\ ~crashed
  /\ stage[r] \in InFlight \ {""}
  /\ stage' = [stage EXCEPT ![r] = "answered"]
  /\ barriers' = Append(barriers, r)
  /\ UNCHANGED << baseURL, errorCount, recovery, switched >>
  /\ Complete(r[1], Result(r, FALSE))

\* Seeded fault: the count is not reset.
CountErrorOn ==
  /\ ~crashed
  /\ barriers # << >>
  /\ barriers' = Tail(barriers)
  /\ errorCount' = errorCount + 1
  /\ recovery' = IF errorCount + 1 >= ServerErrorRequestLimit
                 THEN [recovery EXCEPT ![Head(barriers)] = "probe"] ELSE recovery
  /\ UNCHANGED << baseURL, stage, switched, groupVars >>

\* The barrier block, on its own queue.
CountError ==
  /\ ~crashed
  /\ barriers # << >>
  /\ barriers' = Tail(barriers)
  /\ IF errorCount + 1 >= ServerErrorRequestLimit
     THEN errorCount' = 0 /\ recovery' = [recovery EXCEPT ![Head(barriers)] = "probe"]
     ELSE errorCount' = errorCount + 1 /\ UNCHANGED recovery
  /\ UNCHANGED << baseURL, stage, switched, groupVars >>

\* getCurrentBaseURL: JSON without data.base_url yields "", no JSON no call of
\* its completion.
ProbeAnswered(r, url) ==
  /\ ~crashed
  /\ recovery[r] = "probe"
  /\ baseURL' = url
  /\ recovery' = [recovery EXCEPT ![r] = url]
  /\ UNCHANGED << errorCount, stage, barriers, switched, groupVars >>

ProbeLost(r) ==
  /\ ~crashed
  /\ recovery[r] = "probe"
  /\ recovery' = [recovery EXCEPT ![r] = "none"]
  /\ UNCHANGED << baseURL, errorCount, stage, barriers, switched, groupVars >>

\* Seeded fault: the answer of the GET is dropped.
GetAnsweredSilently(r, ok) ==
  /\ ~crashed
  /\ recovery[r] \in {"moved", ""} /\ (recovery[r] = "" => ~ok)
  /\ recovery' = [recovery EXCEPT ![r] = "none"]
  /\ switched' = switched \cup {r}
  /\ UNCHANGED << baseURL, errorCount, stage, barriers, groupVars >>

\* The GET of the new base URL calls the completion of the request, which has
\* been called before. A GET of "" can only fail.
GetAnswered(r, ok) ==
  /\ ~crashed
  /\ recovery[r] \in {"moved", ""} /\ (recovery[r] = "" => ~ok)
  /\ recovery' = [recovery EXCEPT ![r] = "none"]
  /\ switched' = switched \cup {r}
  /\ UNCHANGED << baseURL, errorCount, stage, barriers >>
  /\ Complete(r[1], Result(r, ok))

\* The notify block, through the global queue to the main queue: results is
\* read when response is called.
Deliver(b) ==
  /\ ~crashed
  /\ notice[b] = "posted"
  /\ notice' = [notice EXCEPT ![b] = "delivered"]
  /\ received' = [received EXCEPT ![b] = results[b]]
  /\ UNCHANGED << netVars, open, results, crashed >>

Answer(r) ==
  \/ \E ok \in BOOLEAN : Respond(r, ok)
  \/ RespondServerError(r)

Probe(r) == ProbeLost(r) \/ \E url \in {"moved", ""} : ProbeAnswered(r, url)

Next ==
  \/ \E b \in Batches : RequestAll(b) \/ Deliver(b)
  \/ \E r \in Requests : Answer(r) \/ Probe(r) \/ \E ok \in BOOLEAN : GetAnswered(r, ok)
  \/ CountError

Spec == Init /\ [][Next]_vars

\* Alamofire answers every request, if only with a timeout, and dispatch queues
\* run what is submitted to them.
Fairness ==
  /\ \A b \in Batches : WF_vars(Deliver(b))
  /\ \A r \in Requests :
       WF_vars(Answer(r)) /\ WF_vars(Probe(r)) /\ WF_vars(\E ok \in BOOLEAN : GetAnswered(r, ok))
  /\ WF_vars(CountError)

FairSpec == Spec /\ Fairness

-----------------------------------------------------------------------------

\* Types; between barrier blocks the error count is below its limit.
TypeOK ==
  /\ baseURL \in InFlight
  /\ errorCount \in 0 .. ServerErrorRequestLimit - 1
  /\ stage \in [Requests -> InFlight \cup {"unsent", "answered"}]
  /\ barriers \in Seq(Requests)
  /\ recovery \in [Requests -> {"none", "probe", "moved", ""}]
  /\ switched \subseteq Requests
  /\ open \in [Batches -> 0 .. Cardinality(Attributes)]
  /\ results \in [Batches -> Seq([of : Attributes, ok : BOOLEAN, repeated : BOOLEAN])]
  /\ received \in [Batches -> Seq([of : Attributes, ok : BOOLEAN, repeated : BOOLEAN])]
  /\ notice \in [Batches -> {"unset", "set", "posted", "delivered"}]
  /\ crashed \in BOOLEAN

SwitchedIn(b) == \E r \in switched : r[1] = b

\* Unless a recovery answered one of its requests a second time, the caller of
\* a batch gets one result of each attribute, once all have arrived.
AnswersComplete ==
  \A b \in Batches : notice[b] = "delivered" /\ ~SwitchedIn(b) =>
    /\ Len(received[b]) = Cardinality(Attributes)
    /\ {received[b][i].of : i \in DOMAIN received[b]} = Attributes

\* The group is never left more often than it was entered, except by a second
\* answer: no order of ordinary completions crashes the process.
CrashNeedsSwitch == crashed => switched # {}

\* A group that is closed has been left once per answer: open counts exactly
\* the requests in flight minus the second answers.
OpenCountsFlights ==
  ~crashed => \A b \in Batches :
    open[b] = Cardinality({r \in Requests : r[1] = b /\ stage[r] \in InFlight})
              - Cardinality({r \in switched : r[1] = b})

\* An empty base URL is for good once nothing sent before it is under way:
\* requests to it get no status code, so no error is counted any more and no
\* new base URL is ever asked for, however many batches follow.
Stranded ==
  /\ baseURL = "" /\ barriers = << >>
  /\ \A r \in Requests : recovery[r] # "probe" /\ stage[r] \notin {"given", "moved"}

EmptyBaseIsFinal == [](Stranded => []Stranded)

\* Every batch is answered, if the process lives.
BatchAnswered == \A b \in Batches : notice[b] = "set" ~> (notice[b] = "delivered" \/ crashed)

\* A recovery that runs to its end is fatal: its second answer makes the group
\* one leave short of its enters, now or when the last request answers.
SwitchIsFatal == switched # {} ~> crashed
=============================================================================
