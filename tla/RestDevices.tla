----------------------------- MODULE RestDevices -----------------------------
(***************************************************************************)
(* The collections of an i6000 library or a ZFS appliance: callers that    *)
(* share one ReusableRestClient, its semaphore and its HTTP client; the    *)
(* login session of the library, under a lock; and the pools, projects and *)
(* shares of the appliance, fetched one stage after the other.             *)
(***************************************************************************)
EXTENDS DeviceCalls

CONSTANTS
    PoolLists,      \* the answers of the appliance to "pools"
    ProjectLists    \* the answers of a pool to "projects"

Nobody == "nobody"
NoAnswer == {}

ASSUME CallersAssumption == Stoppable \subseteq Callers /\ Nobody \notin Callers

VARIABLES
    step,       \* the stage of the appliance that the caller fetches
    asked,      \* the calls of fetch_named: the state of each endpoint
    httpClient, \* the HTTP client: the number of the last one, or 0 for None
    made,       \* how many were made
    opened,     \* those that are open
    session,    \* at the library: the caller who is logged in
    mislaid,    \* history: the answer to a login or a logout never came
    outlived    \* history: a collection went on when the collector was closed

restvars == <<step, asked, httpClient, made, opened, session, mislaid, outlived>>

IsLibrary == config.type = "i6000"
IsRest == config.protocol = "rest"

FastNames == [i6000 |-> {"ping", "status", "drives", "segments_storage_used",
                         "segments_storage_available", "ras_status", "ras_tickets"},
              ZFS |-> {"version", "pools", "logs", "alert_logs", "fault_logs"}]
SlowNames == [i6000 |-> {"physical_library", "media", "towers", "ie_stations"},
              ZFS |-> {"version", "pools"}]

\* The names of the file, or else all.
Configured == IF DOMAIN config.endpoints # {} THEN DOMAIN config.endpoints
              ELSE FastNames[config.type] \cup SlowNames[config.type]

\* _endpoints_for_class: every class but "fast" asks for what is slow.
EndpointsFor(class) ==
    Configured \cap
        (CASE class = "all" -> Configured
           [] class = "fast" -> FastNames[config.type]
           [] OTHER -> SlowNames[config.type])

-----------------------------------------------------------------------------
(* The stages of the appliance.                                              *)

Items(answers, name) == IF name \in DOMAIN answers THEN answers[name] ELSE NoAnswer
PoolNames(answers) == Items(answers, <<"pools">>)
Projects(answers, pool) == Items(answers, <<"projects", pool>>)

DetailNames(answers) == {<<"pool", p>> : p \in PoolNames(answers)}
ProjectNames(answers) == {<<"projects", p>> : p \in PoolNames(answers)}
ShareNames(answers) ==
    UNION {{<<kind, p, project>> : kind \in {"project", "filesystems", "luns"},
                                   project \in Projects(answers, p)} : p \in PoolNames(answers)}

\* The library has one stage, an appliance two, and four with its inventory.
Steps(class) ==
    CASE IsLibrary -> 1
      [] ~IsLibrary /\ class \in {"all", "slow"} -> 4
      [] OTHER -> 2

NamesOf(class, n, answers) ==
    CASE n = 1 -> {<<name>> : name \in EndpointsFor(class)}
      [] n = 2 -> DetailNames(answers)
      [] n = 3 -> ProjectNames(answers)
      [] n = 4 -> ShareNames(answers)

AnswersOf(name) ==
    CASE name = <<"pools">> -> PoolLists
      [] name[1] = "projects" -> ProjectLists
      [] OTHER -> {NoAnswer}

-----------------------------------------------------------------------------
(* A collection begins.                                                      *)

Asking(names) == [name \in names |-> "waiting"]

StartFetch(c) ==
    /\ step' = [step EXCEPT ![c] = 1]
    /\ asked' = [asked EXCEPT ![c] = Asking(NamesOf(Class(c), 1, <<>>))]

BeginFetch(c) ==
    /\ IsRest /\ ~Skipped(config) /\ MayBegin(c)
    /\ IF IsLibrary
       THEN Move(c, "idle", "locking") /\ UNCHANGED <<step, asked>>
       ELSE Move(c, "idle", "fetching") /\ StartFetch(c)
    /\ outlived' = (outlived \/ phase \in {"closing", "closed"})
    /\ UNCHANGED <<config, phase, payloads, errors, httpClient, made, opened, session, mislaid>>

InSession == {"login", "fetching", "logout", "leaving"}
SessionLocked == IsLibrary /\ \E c \in Callers : stage[c] \in InSession

\* The client property makes a new HTTP client when there is none.
UseClient ==
    IF httpClient # 0 THEN UNCHANGED <<httpClient, made, opened>>
    ELSE /\ made' = made + 1 /\ httpClient' = made + 1
         /\ opened' = opened \cup {made + 1}

\* A client that is closed and not yet forgotten raises an error, none of httpx.
Usable == httpClient = 0 \/ httpClient \in opened

\* Mutant of SessionFree: the session lock is not waited for.
SessionFreeAlways == TRUE

SessionFree == ~SessionLocked

\* async with _session_lock, and the login is posted.
TakeSession(c) ==
    /\ SessionFree
    /\ Move(c, "locking", IF Usable THEN "login" ELSE "failed")
    /\ UseClient
    /\ UNCHANGED <<config, phase, payloads, errors, step, asked, session, mislaid, outlived>>

\* forceLogin: the library ends another session of the user.
LoginAnswered(c) ==
    /\ Move(c, "login", "fetching")
    /\ session' = c
    /\ StartFetch(c)
    /\ UNCHANGED <<config, phase, payloads, errors, httpClient, made, opened, mislaid, outlived>>

\* Refused, or answered too late: the login is before the try, without a logout.
LoginFails(c) ==
    /\ Move(c, "login", "failed")
    /\ \/ UNCHANGED <<session, mislaid>>
       \/ session' = c /\ mislaid' = TRUE
    /\ UNCHANGED <<config, phase, payloads, errors, step, asked, httpClient, made, opened, outlived>>

-----------------------------------------------------------------------------
(* fetch_named.                                                              *)

Sent(c) == {name \in DOMAIN asked[c] : asked[c][name] = "sent"}
InFlight == UNION {{<<c, name>> : name \in Sent(c)} : c \in Callers}

\* Mutant of SlotFree: a semaphore for each call of fetch_named.
SlotFreeOfCall(c) == Cardinality(Sent(c)) < config.concurrency

SlotFree(c) == Cardinality(InFlight) < config.concurrency

\* A task gets the semaphore and sends its request with the present HTTP client.
SendGet(c, name) ==
    /\ asked[c][name] = "waiting"
    /\ SlotFree(c)
    /\ UseClient
    /\ asked' = [asked EXCEPT ![c][name] = IF Usable THEN "sent" ELSE "failed"]
    /\ UNCHANGED <<callvars, step, session, mislaid, outlived>>

\* gather keeps the answers of all tasks; the library wants the session of the caller.
GetAnswered(c, name) ==
    /\ asked[c][name] = "sent"
    /\ IsLibrary => session = c
    /\ \E answer \in AnswersOf(name) : Answer(c, name, answer)
    /\ asked' = [asked EXCEPT ![c][name] = "answered"]
    /\ UNCHANGED <<config, phase, stage, errors, step, httpClient, made, opened, session, mislaid,
                   outlived>>

GetFails(c, name) ==
    /\ asked[c][name] = "sent"
    /\ asked' = [asked EXCEPT ![c][name] = "failed"]
    /\ UNCHANGED <<callvars, step, httpClient, made, opened, session, mislaid, outlived>>

FailedNow(c) == {name \in DOMAIN asked[c] : asked[c][name] = "failed"}

Settled(c) ==
    stage[c] = "fetching" /\ \A name \in DOMAIN asked[c] : asked[c][name] \in {"answered", "failed"}

\* Mutant of MergedErrors: the errors of a stage replace those before.
MergedErrorsOfLast(c) == IF FailedNow(c) # {} THEN FailedNow(c) ELSE errors[c]

\* _merge_fetch_result.
MergedErrors(c) == errors[c] \cup FailedNow(c)

\* All tasks of a stage are done, and there is another one.
NextStage(c) ==
    /\ Settled(c) /\ step[c] < Steps(Class(c))
    /\ errors' = [errors EXCEPT ![c] = MergedErrors(c)]
    /\ step' = [step EXCEPT ![c] = @ + 1]
    /\ asked' = [asked EXCEPT ![c] = Asking(NamesOf(Class(c), step[c] + 1, payloads[c]))]
    /\ UNCHANGED <<config, phase, stage, payloads, httpClient, made, opened, session, mislaid,
                   outlived>>

\* It was the last one: the end, or the logout, which a closed client refuses with
\* an error that nothing catches.
FetchReturns(c) ==
    /\ Settled(c) /\ step[c] = Steps(Class(c))
    /\ errors' = [errors EXCEPT ![c] = MergedErrors(c)]
    /\ asked' = [asked EXCEPT ![c] = <<>>]
    /\ IF IsLibrary
       THEN /\ stage' = [stage EXCEPT ![c] = IF Usable THEN "logout" ELSE "failed"]
            /\ mislaid' = (mislaid \/ ~Usable)
            /\ UseClient
       ELSE /\ stage' = [stage EXCEPT ![c] = "returned"]
            /\ UNCHANGED <<mislaid, httpClient, made, opened>>
    /\ UNCHANGED <<config, phase, payloads, step, session, outlived>>

AfterLogout == [logout |-> "returned", leaving |-> "cancelled"]

\* The logout is answered, with any status ...
LogoutAnswered(c) ==
    /\ stage[c] \in DOMAIN AfterLogout
    /\ stage' = [stage EXCEPT ![c] = AfterLogout[@]]
    /\ session' = IF session = c THEN Nobody ELSE session
    /\ UNCHANGED <<config, phase, payloads, errors, step, asked, httpClient, made, opened, mislaid,
                   outlived>>

\* ... or is not, and the error of httpx is passed over.
LogoutLost(c) ==
    /\ stage[c] \in DOMAIN AfterLogout
    /\ stage' = [stage EXCEPT ![c] = AfterLogout[@]]
    /\ session' \in {session, Nobody} /\ mislaid' = TRUE
    /\ UNCHANGED <<config, phase, payloads, errors, step, asked, httpClient, made, opened, outlived>>

-----------------------------------------------------------------------------
(* stop() and close().                                                       *)

\* Mutant of AfterCancel: a cancelled fetch does not log out.
AfterCancelAtOnce(at) == IF at \in Ended THEN at ELSE "cancelled"

\* Mutant of AfterCancel: a cancelled round waits for its thread.
AfterCancelOfThread(at) ==
    CASE at \in Ended \cup {"waiting"} -> at
      [] IsLibrary /\ at = "fetching" -> "leaving"
      [] OTHER -> "cancelled"

\* A cancelled fetch ends its requests, and logs out in its finally.
AfterCancel(at) ==
    CASE at \in Ended -> at
      [] IsLibrary /\ at = "fetching" -> "leaving"
      [] OTHER -> "cancelled"

\* A login or a logout that is cut off is carried out or not, with nobody to know.
CutOff(callers) ==
    LET cut == {c \in callers : stage[c] \in {"login", "logout", "leaving"}}
    IN  /\ mislaid' = (mislaid \/ cut # {})
        /\ \/ UNCHANGED session
           \/ \E c \in cut : session' = IF stage[c] = "login" THEN c ELSE Nobody

\* Every scheduled round is cancelled at its await; a thread it waits for goes on.
Stop ==
    /\ phase = "up"
    /\ phase' = "stopping"
    /\ stage' = [c \in Callers |-> IF c \in Stoppable THEN AfterCancel(stage[c]) ELSE stage[c]]
    /\ asked' = [c \in Callers |-> IF c \in Stoppable THEN <<>> ELSE asked[c]]
    /\ CutOff(Stoppable)
    /\ UNCHANGED <<config, payloads, errors, step, httpClient, made, opened, outlived>>

\* close(), when the rounds have ended: the HTTP client is closed, and what was
\* sent with it fails.
CloseBegins ==
    /\ phase = "stopping"
    /\ \A c \in Stoppable : stage[c] \in Ended
    /\ phase' = "closing"
    /\ opened' = opened \ {httpClient}
    /\ outlived' = (\E c \in Callers : stage[c] \notin Ended)
    /\ stage' = [c \in Callers |-> CASE stage[c] = "login" -> "failed"
                                     [] stage[c] = "logout" -> "returned"
                                     [] OTHER -> stage[c]]
    /\ asked' = [c \in Callers |-> [name \in DOMAIN asked[c] |->
                   IF asked[c][name] = "sent" THEN "failed" ELSE asked[c][name]]]
    /\ CutOff(Callers)
    /\ UNCHANGED <<config, payloads, errors, step, httpClient, made>>

\* Its connections are closed, and it is forgotten.
CloseEnds ==
    /\ phase = "closing"
    /\ phase' = "closed" /\ httpClient' = 0
    /\ UNCHANGED <<config, stage, payloads, errors, step, asked, made, opened, session, mislaid,
                   outlived>>

RestInit ==
    /\ step = [c \in Callers |-> 0]
    /\ asked = [c \in Callers |-> <<>>]
    /\ httpClient = 0 /\ made = 0 /\ opened = {}
    /\ session = Nobody /\ mislaid = FALSE /\ outlived = FALSE

RestStep(c) ==
    \/ TakeSession(c) \/ LoginAnswered(c) \/ LoginFails(c)
    \/ \E name \in DOMAIN asked[c] : SendGet(c, name) \/ GetAnswered(c, name) \/ GetFails(c, name)
    \/ NextStage(c) \/ FetchReturns(c) \/ LogoutAnswered(c) \/ LogoutLost(c)

RestProcess == Stop \/ CloseBegins \/ CloseEnds
=============================================================================
