---------------------------- MODULE DeviceConfig ----------------------------
(***************************************************************************)
(* core/config.py and collectors/factory.py: the configuration of one      *)
(* collector, its schedules, the reason for which its rounds are skipped,  *)
(* and the client that is built for it.  A text setting is "" when it is   *)
(* missing; a number is Default.                                           *)
(***************************************************************************)
EXTENDS PythonData, TLC

ToBeFilled == "TO_BE_FILLED"
Default == -99
OrDefault(n, default) == IF n = Default THEN default ELSE n

-----------------------------------------------------------------------------
(* Schedules.                                                                *)

\* default_minute_offset.
DefaultOffset(type) ==
    CASE type = "DXi" -> 0 [] type = "DD" -> 1 [] type = "i6000" -> 2
      [] type = "Networker" -> 3 [] type = "ZFS" -> 4

ScheduleConfig(interval, offset, second) ==
    [interval |-> interval, offset |-> offset, second |-> second]

\* default_schedule.
DefaultSchedule(type) == ScheduleConfig(5, DefaultOffset(type), 0)

\* The interval of a class that leaves it out.
DefaultInterval(class, type) ==
    CASE class \in {"fast", "jobs"} -> 5
      [] class = "backups" -> 15
      [] class = "slow" -> 60
      [] class = "inventory" -> IF type = "Networker" THEN 1440 ELSE 60

DefaultSecond(class) == IF class = "slow" THEN 30 ELSE 0

\* Mutant of OffsetOf: the offset of the type, also when the interval is shorter.
OffsetOfType(type, interval) == DefaultOffset(type)

OffsetOf(type, interval) == IF DefaultOffset(type) >= interval THEN 0 ELSE DefaultOffset(type)

\* _schedule_from_mapping.
ScheduleOf(raw, type, interval, second) ==
    LET i == OrDefault(raw.interval, interval)
    IN  ScheduleConfig(i, OrDefault(raw.offset, OffsetOf(type, i)),
                       OrDefault(raw.second, second))

NullSchedule == ScheduleConfig(Default, Default, Default)

\* CollectionClass.
CollectionClasses == {"fast", "jobs", "backups", "inventory", "slow"}

\* _parse_schedule, items() and effective_schedules, by class.  A class without a
\* value takes the defaults, but "slow" without one is no schedule.
EffectiveSchedules(raw) ==
    CASE raw.schedule.form = "classes" ->
           [class \in {class \in CollectionClasses \cap DOMAIN raw.schedule.classes :
                         class = "slow" => ~raw.schedule.classes[class].null} |->
               ScheduleOf(raw.schedule.classes[class].fields, raw.type,
                          DefaultInterval(class, raw.type), DefaultSecond(class))]
      [] raw.schedule.form = "single" -> [fast |-> ScheduleOf(raw.schedule.fields, raw.type, 5, 0)]
      [] raw.schedule.form = "second" -> [fast |-> ScheduleConfig(1, 0, raw.schedule.second)]
      [] raw.schedule.form = "absent" -> [fast |-> DefaultSchedule(raw.type)]

\* ScheduleConfig.skip_reason is None.
IsValid(s) ==
    /\ s.interval > 0
    /\ 0 <= s.offset /\ s.offset < s.interval
    /\ 0 <= s.second /\ s.second <= 59

-----------------------------------------------------------------------------
(* Settings.                                                                 *)

\* is_unfilled_placeholder, and None.
Unfilled(text) == text \in {"", ToBeFilled}

\* A placeholder reads as a missing setting.
Optional(text) == IF Unfilled(text) THEN "" ELSE text

\* The setting, else the content of its file, for all the secrets.
Secret(text, file) == IF Optional(text) # "" THEN text ELSE Optional(file)

OptionalSettings == {"host", "base_url", "endpoint", "ssh_key_path", "ssh_known_hosts_path",
                     "jump_host", "jump_username", "jump_ssh_key_path", "source_networker"}

\* _parse_collector.
ParseCollector(raw) ==
    LET texts == [setting \in OptionalSettings |-> Optional(raw[setting])]
        values == [community |-> Secret(raw.community, raw.community_file),
                   token |-> Secret(raw.token, raw.token_file),
                   username |-> Secret(raw.username, raw.username_file),
                   password |-> Secret(raw.password, raw.password_file),
                   schedules |-> EffectiveSchedules(raw),
                   concurrency |-> OrDefault(raw.concurrency, 4),
                   spacing |-> OrDefault(raw.spacing, 0),
                   jobs_window |-> OrDefault(raw.jobs_window, OrDefault(raw.window, 10)),
                   backups_window |-> OrDefault(raw.backups_window, OrDefault(raw.window, 20)),
                   window |-> OrDefault(raw.window, 20)]
    IN  Over(texts, Over(values, raw))

\* has_unfilled_values.
AnyUnfilled(config, settings) == \E s \in settings : Unfilled(config[s])
AnyEntryUnfilled(entries) == \E name \in DOMAIN entries : Unfilled(entries[name])

-----------------------------------------------------------------------------
(* skip_reason: a collector with one of these returns skipped results.       *)

SnmpSkipped(c) ==
    \/ AnyUnfilled(c, {"host", "community"})
    \/ AnyEntryUnfilled(c.oids) \/ AnyEntryUnfilled(c.walk_oids)
    \/ DOMAIN c.oids \cup DOMAIN c.walk_oids = {}

NetworkerSkipped(c) ==
    \/ c.window <= 0 \/ c.jobs_window <= 0 \/ c.backups_window <= 0
    \/ c.source_networker \notin {"core", "chnl", "info"}
    \/ AnyUnfilled(c, {"username", "password"})
    \/ AnyEntryUnfilled(c.endpoints)

RestSkipped(c) ==
    \/ c.concurrency <= 0 \/ c.spacing < 0
    \/ Unfilled(c.base_url)
    \/ c.type = "i6000" /\ (AnyUnfilled(c, {"username", "password"})
                              \/ AnyEntryUnfilled(c.endpoints))
    \/ c.type = "Networker" /\ NetworkerSkipped(c)
    \/ c.type = "ZFS" /\ (AnyEntryUnfilled(c.endpoints)
                            \/ (c.token = "" /\ (c.username = "" \/ c.password = "")))
    \/ c.type \notin {"i6000", "Networker", "ZFS"} /\ Unfilled(c.endpoint)
    \/ c.type \notin {"Networker", "ZFS"} /\ c.endpoint = "" /\ DOMAIN c.endpoints = {}

\* Mutant of JumpSkipped: the host alone makes a jump.
JumpSkippedByHost(c) == c.jump_host = ""

JumpSkipped(c) ==
    /\ c.jump_host # ""
    /\ \/ AnyUnfilled(c, {"jump_username", "ssh_known_hosts_path"})
       \/ c.jump_ssh_key_path = "" /\ c.ssh_key_path = ""

SshSkipped(c) ==
    \/ c.password = "" /\ c.ssh_key_path = ""
    \/ AnyUnfilled(c, {"host", "username"})
    \/ AnyEntryUnfilled(c.commands) \/ DOMAIN c.commands = {}
    \/ JumpSkipped(c)

Skipped(c) ==
    \/ ~c.enabled
    \/ \E class \in DOMAIN c.schedules : ~IsValid(c.schedules[class])
    \/ CASE c.protocol = "snmp" -> SnmpSkipped(c)
         [] c.protocol = "rest" -> RestSkipped(c)
         [] c.protocol \in {"ssh", "cli"} -> SshSkipped(c)
         [] OTHER -> TRUE

\* build_collector; for every other pair it raises, and the service does not start.
Builds(c) == <<c.type, c.protocol>> \in {<<"DD", "snmp">>, <<"i6000", "rest">>,
                                         <<"Networker", "rest">>, <<"ZFS", "rest">>,
                                         <<"DXi", "cli">>}

ActiveClass(c, class) == IF Cardinality(DOMAIN c.schedules) > 1 THEN class ELSE "all"
=============================================================================
