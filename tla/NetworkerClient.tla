--------------------------- MODULE NetworkerClient ---------------------------
(***************************************************************************)
(* NetworkerRestClient.fetch_payloads: which endpoints a class asks for,   *)
(* over which window, and the loop that sends one request after another,   *)
(* with a pause between two of them, retries of the answers that may pass, *)
(* and errors kept per endpoint.                                           *)
(***************************************************************************)
EXTENDS NetworkerServer

CONSTANTS
    Endpoints,      \* the names of config.endpoints or DEFAULT_ENDPOINTS, in order
    ScheduleSets,   \* the sets of classes an effective_schedules may have
    JobsWindow,     \* networker_jobs_query_window_minutes
    BackupsWindow,  \* networker_backups_query_window_minutes
    FieldFilter,    \* networker_field_filter
    Spacing,        \* rest_request_spacing_seconds
    Retries,        \* retries
    Backoff,        \* RETRY_BACKOFF_SECONDS
    Timeout         \* the longest a request takes: timeout_seconds of the HTTP client

ASSUME WindowAssumption == JobsWindow \in Nat \ {0} /\ BackupsWindow \in Nat \ {0}
ASSUME EndpointsAssumption == Endpoints \in Seq({"jobs", "backups", "clients", "policies"})
ASSUME RetryAssumption ==
    Spacing \in Nat /\ Retries \in Int /\ Backoff \in Nat /\ Timeout \in Nat \ {0}

VARIABLES
    schedules,  \* the classes of effective_schedules
    round       \* the fetch_payloads in progress

clientvars == <<schedules, round>>

Classes == {"fast", "slow", "jobs", "backups", "inventory"}
NoRound == [class |-> "none"]

-----------------------------------------------------------------------------
(* What a round asks for.                                                    *)

ClassEndpoints(class) ==
    CASE class = "fast" -> {"jobs", "backups"}
      [] class \in {"slow", "inventory"} -> {"clients", "policies"}
      [] class = "jobs" -> {"jobs"}
      [] class = "backups" -> {"backups"}

\* The collector's active_class: with one schedule every endpoint is asked.
EndpointsForClass(class) ==
    IF Cardinality(schedules) > 1
    THEN Picked(Endpoints, {i \in DOMAIN Endpoints : Endpoints[i] \in ClassEndpoints(class)})
    ELSE Endpoints

\* Mutant of QueryMinutes: the jobs are asked for over less than their window.
QueryMinutesShort(name) == IF name = "jobs" THEN JobsWindow - 2 ELSE BackupsWindow - 2

\* minutes_by_endpoint.
QueryMinutes(name) == IF name = "jobs" THEN JobsWindow ELSE BackupsWindow

\* Mutant of HasFieldFilter: every query with the option has the filter.
HasFieldFilterAlways(name) == FieldFilter

\* The clients have the fl parameter always, the policies when it is configured.
HasFieldFilter(name) == name = "clients" \/ (FieldFilter /\ name = "policies")

RequestSpec(name, windowEnd) ==
    [name |-> name, fl |-> HasFieldFilter(name),
     from |-> IF name \in {"jobs", "backups"} THEN windowEnd - QueryMinutes(name) ELSE None,
     to |-> IF name \in {"jobs", "backups"} THEN windowEnd ELSE None]

BuildRequestPlan(class, windowEnd) ==
    LET names == EndpointsForClass(class)
    IN  [i \in DOMAIN names |-> RequestSpec(names[i], windowEnd)]

-----------------------------------------------------------------------------
(* The loop.                                                                 *)

MaxAttempts == IF Retries + 1 > 1 THEN Retries + 1 ELSE 1

\* fetch_payloads begins: the window of all its queries ends now.
BeginRound(class) ==
    /\ round = NoRound
    /\ round' = [class |-> class, windowEnd |-> clock,
                 plan |-> BuildRequestPlan(class, clock),
                 next |-> 1, attempt |-> 1,
                 phase |-> "asleep", wake |-> clock, sent |-> clock,
                 responses |-> <<>>, errors |-> {}]

Active(phase) == round # NoRound /\ round.phase = phase
Request == round.plan[round.next]
Fetched == round # NoRound /\ round.next > Len(round.plan)

\* The sleep before a request is over, and the request is sent.
Send ==
    /\ Active("asleep") /\ ~Fetched
    /\ clock >= round.wake
    /\ round' = [round EXCEPT !.phase = "sent", !.sent = clock]

\* Mutant of Proceed: no pause after an error.
ProceedAtOnceAfterErrors(r) ==
    [r EXCEPT !.next = @ + 1, !.attempt = 1, !.phase = "asleep",
              !.wake = IF r.errors # {} THEN clock ELSE clock + Spacing]

\* On to the next request, rest_request_spacing_seconds from now.
Proceed(r) ==
    [r EXCEPT !.next = @ + 1, !.attempt = 1, !.phase = "asleep", !.wake = clock + Spacing]

\* The server answers: the payload is kept under the name of the endpoint.
Receive ==
    /\ Active("sent")
    /\ \E answer \in AnswersTo(Request) :
          round' = Proceed([round EXCEPT !.responses = Over([n \in {Request.name} |-> answer], @)])

\* Mutant of Fail: the error is not kept.
FailSilently ==
    /\ Active("sent")
    /\ round' = Proceed(round)

\* _get_json raises: the error is kept, and the other requests still go out.
\* A status below 500 other than 429, a refused connection or a payload that
\* is no JSON raise at once; 429, 5xx and timeouts at the last attempt.
Fail ==
    /\ Active("sent")
    /\ round' = Proceed([round EXCEPT !.errors = @ \cup {Request.name}])

\* Mutant of RetryLater: the attempts are not counted.
RetryLaterUncounted ==
    /\ Active("sent")
    /\ round' = [round EXCEPT !.phase = "asleep", !.wake = clock + Backoff]

\* 429, 5xx or a timeout before the last attempt: once more, after a backoff.
RetryLater ==
    /\ Active("sent")
    /\ round.attempt < MaxAttempts
    /\ round' = [round EXCEPT !.attempt = @ + 1, !.phase = "asleep",
                              !.wake = clock + Backoff * 2 ^ (round.attempt - 1)]

FetchStep == Send \/ Receive \/ Fail \/ RetryLater

\* Time passes: no further than the timer or the timeout of the client; and
\* without a round no further than the bound.
Tick ==
    /\ IF round = NoRound THEN clock < Horizon
       ELSE IF round.phase = "sent" THEN clock < round.sent + Timeout
       ELSE ~Fetched /\ clock < round.wake
    /\ clock' = clock + 1
    /\ UNCHANGED <<servervars, clientvars>>
=============================================================================
