---------------------------- MODULE DeviceRounds ----------------------------
(***************************************************************************)
(* The collections of one device, of any of the types but NetWorker and    *)
(* with any configuration, from the file it is read from to the end of the *)
(* process.                                                                *)
(***************************************************************************)
EXTENDS RestDevices, CommandDevices

CONSTANT RawConfigs     \* the entries of the file

Schedule == [interval : Int, offset : Int, second : Int]

\* The numbers of a schedule; the deprecated "schedule_second" is one of them.
ScheduleInFile(schedule) ==
    CASE schedule.form = "classes" ->
           \A class \in DOMAIN schedule.classes : schedule.classes[class].fields \in Schedule
      [] schedule.form = "single" -> schedule.fields \in Schedule
      [] schedule.form = "second" -> schedule.second \in Int \ {Default}
      [] OTHER -> schedule.form = "absent"

\* An entry has the settings that are read of it, and numbers where int() takes them.
ASSUME RawConfigsAssumption ==
    \A raw \in RawConfigs :
        /\ {"type", "protocol", "enabled", "schedule", "endpoints", "commands", "oids", "walk_oids"}
             \subseteq DOMAIN raw
        /\ raw.type # "Networker" /\ raw.enabled \in BOOLEAN
        /\ raw.concurrency \in Int /\ raw.spacing \in Int
        /\ ScheduleInFile(raw.schedule)

vars == <<callvars, restvars, commandvars>>

Init ==
    /\ \E raw \in RawConfigs : Builds(raw) /\ config = ParseCollector(raw)
    /\ CallsInit /\ RestInit /\ CommandInit

Begin(c) ==
    \/ SkipCollect(c) /\ UNCHANGED <<restvars, commandvars>>
    \/ BeginFetch(c) /\ UNCHANGED commandvars
    \/ StartThread(c) /\ UNCHANGED restvars

Collecting(c) ==
    \/ RestStep(c) /\ UNCHANGED commandvars
    \/ CommandStep(c) /\ UNCHANGED restvars

Loses(c) == LosesConnection(c) /\ UNCHANGED restvars

Process == RestProcess /\ UNCHANGED commandvars

Next ==
    \/ \E c \in Callers : Begin(c) \/ Collecting(c) \/ Loses(c)
    \/ Process

\* Requests, connections and reads have timeouts, and a command whose output fits
\* is assumed to exit; a connection need never be lost.
Fairness ==
    /\ \A c \in Callers : WF_vars(Collecting(c))
    /\ WF_vars((CloseBegins \/ CloseEnds) /\ UNCHANGED commandvars)

Spec == Init /\ [][Next]_vars
FairSpec == Spec /\ Fairness

-----------------------------------------------------------------------------
(* Properties.                                                               *)

Threads == {"none", "jump", "channel", "connect", "next", "exit", "read", "raising", "over"}

DTypeOK ==
    /\ phase \in {"up", "stopping", "closing", "closed"}
    /\ stage \in [Callers -> Ended \cup InSession \cup {"locking", "waiting"}]
    /\ thread \in [Callers -> Threads]
    /\ httpClient \in 0..made /\ opened \subseteq 1..made
    /\ session \in Callers \cup {Nobody}
    /\ \A c \in Callers :
          /\ links[c] \subseteq DOMAIN NextLink
          /\ errors[c] \cap todo[c] = {}
          /\ stage[c] = "skipped" <=> Skipped(config) /\ stage[c] # "idle"
          /\ InFlight # {} => Cardinality(InFlight) <= config.concurrency

\* The library answers a request only in the session of the user it belongs to, and
\* a login ends the session of another collection (forceLogin): the lock keeps each
\* fetch inside a session of its own, whatever is cancelled, lost or closed.
GetsInsideSession ==
    \A c \in Callers : IsLibrary /\ stage[c] = "fetching" => session = c

\* When no collection is under way no session is left at the library, but for a
\* login or logout whose answer never came.
SessionsEnd ==
    (\A c \in Callers : stage[c] \in Ended) /\ session # Nobody => mislaid

\* What a caller is due: of the library and of each stage of the appliance every
\* name, of a DXi and a Data Domain every command or OID.
Due(c) ==
    IF IsRest THEN UNION {NamesOf(Class(c), n, payloads[c]) : n \in 1..Steps(Class(c))}
              ELSE ItemsOf

\* A result accounts for every name it is due: each has an answer or an error, none
\* is lost between the stages of an appliance; a REST name never has both, and a
\* Data Domain has all its answers.
NamesAreAccounted ==
    \A c \in Callers : stage[c] = "returned" =>
        /\ DOMAIN payloads[c] \cup errors[c] = Due(c)
        /\ IsRest => DOMAIN payloads[c] \cap errors[c] = {}
        /\ IsShell => DOMAIN payloads[c] = Due(c)
        /\ config.protocol = "snmp" => errors[c] = {}

\* Once the process has closed its collectors no HTTP client is open, unless a
\* collection went on; a thread that is over has closed its SSH connections, on
\* whichever of them it failed.
NothingStaysOpen ==
    /\ phase = "closed" /\ ~outlived => opened = {}
    /\ \A c \in Callers : thread[c] = "over" => links[c] = {}

\* Everything ends: a collection, unless its command has filled the SSH window, as
\* the lock, the semaphore and the stages all let go; and the shutdown, also when
\* the thread of a cancelled round never does.
WorkEnds ==
    /\ \A c \in Callers :
          stage[c] \notin Ended ~> stage[c] \in Ended \/ output[c] = "exceeds"
    /\ phase = "stopping" ~> phase = "closed"

Given(settings) == \A s \in settings : config[s] \notin {"", ToBeFilled}
AllGiven(entries) == \A name \in DOMAIN entries : entries[name] \notin {"", ToBeFilled}

\* What the clients read.
Complete ==
    CASE config.type = "i6000" ->
           /\ Given({"base_url", "username", "password"})
           /\ config.concurrency > 0 /\ config.spacing >= 0
           /\ DOMAIN config.endpoints # {} \/ Given({"endpoint"})
           /\ AllGiven(config.endpoints)
      [] config.type = "ZFS" ->
           /\ Given({"base_url"}) /\ (Given({"token"}) \/ Given({"username", "password"}))
           /\ config.concurrency > 0 /\ config.spacing >= 0 /\ AllGiven(config.endpoints)
      [] config.type = "DXi" ->
           /\ Given({"host", "username"})
           /\ Given({"password"}) \/ Given({"ssh_key_path"})
           /\ DOMAIN config.commands # {} /\ AllGiven(config.commands)
           /\ Given({"jump_host"}) =>
                 /\ Given({"jump_username", "ssh_known_hosts_path"})
                 /\ Given({"jump_ssh_key_path"}) \/ Given({"ssh_key_path"})
      [] config.type = "DD" ->
           /\ Given({"host", "community"})
           /\ DOMAIN config.oids \cup DOMAIN config.walk_oids # {}
           /\ AllGiven(config.oids) /\ AllGiven(config.walk_oids)
      [] OTHER -> FALSE

\* The numbers that the file gives for a class.
GivenFor(class) ==
    CASE config.schedule.form = "classes" -> config.schedule.classes[class].fields
      [] config.schedule.form = "single" -> config.schedule.fields
      [] config.schedule.form = "second" -> [NullSchedule EXCEPT !.second = config.schedule.second]
      [] config.schedule.form = "absent" -> NullSchedule

InRange(given, interval) ==
    /\ given.interval # Default => given.interval > 0
    /\ given.offset # Default => 0 <= given.offset /\ given.offset < interval
    /\ given.second # Default => given.second \in 0..59

\* A collector is skipped exactly when its client misses something or a number of
\* its limits or its schedule is out of range: a round that starts finds all that it
\* reads, and a number which the file leaves out never keeps a collector from running.
SkipsWhatCannotRun ==
    Skipped(config) <=>
        ~ /\ config.enabled /\ Complete
          /\ \A class \in DOMAIN config.schedules :
                InRange(GivenFor(class), config.schedules[class].interval)
=============================================================================
