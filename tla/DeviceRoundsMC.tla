--------------------------- MODULE DeviceRoundsMC ---------------------------
(***************************************************************************)
(* A round of the scheduler and a collection of run_once on one device of  *)
(* each type, with a configuration that is complete, or in which one       *)
(* setting is blank, is a placeholder, or is out of range.                 *)
(***************************************************************************)
EXTENDS DeviceRounds

MCCallers == {"round", "request"}
MCStoppable == {"round"}
MCClassOf == [round |-> "fast", request |-> "slow"]

MCPoolLists == {{}, {"p"}}
MCProjectLists == {{}, {"project"}}

Entries(names) == [name \in names |-> "path"]
Blank == [setting \in OptionalSettings \cup
             {"community", "community_file", "token", "token_file", "username", "username_file",
              "password", "password_file"} |-> ""]
Numbers == [enabled |-> TRUE, concurrency |-> Default, spacing |-> Default, window |-> Default,
            jobs_window |-> Default, backups_window |-> Default,
            oids |-> <<>>, walk_oids |-> <<>>, endpoints |-> <<>>, commands |-> <<>>]

Fields(interval, offset, second) == [interval |-> interval, offset |-> offset, second |-> second]
Class1(null, fields) == [null |-> null, fields |-> fields]

Absent == [form |-> "absent"]
FastAndSlow == [form |-> "classes",
                classes |-> [fast |-> Class1(FALSE, Fields(2, Default, Default)),
                             slow |-> Class1(FALSE, NullSchedule)]]

Filled(values, lists) == [setting \in DOMAIN values |-> values[setting]] @@ lists @@ Blank @@ Numbers

Library == Filled([type |-> "i6000", protocol |-> "rest", base_url |-> "b", username |-> "u",
                   password_file |-> "p"],
                  [endpoints |-> Entries({"status", "media"}), schedule |-> FastAndSlow])
Appliance == Filled([type |-> "ZFS", protocol |-> "rest", base_url |-> "b", username |-> "u",
                     password |-> "p"],
                    [concurrency |-> 1, endpoints |-> Entries({"version", "pools"}),
                     schedule |-> FastAndSlow])
Shell == Filled([type |-> "DXi", protocol |-> "cli", host |-> "h", username |-> "u",
                 password |-> "p", jump_host |-> "j", jump_username |-> "u",
                 ssh_known_hosts_path |-> "k", jump_ssh_key_path |-> "k"],
                [commands |-> Entries({"df", "service_tickets"}), schedule |-> Absent])
Agent == Filled([type |-> "DD", protocol |-> "snmp", host |-> "h", community |-> "c"],
                [oids |-> Entries({"capacity"}), walk_oids |-> Entries({"alerts"}),
                 schedule |-> Absent])

Schedules ==
    {[form |-> "second", second |-> s] : s \in {0, 60}}
    \cup {[form |-> "single", fields |-> f] :
             f \in [interval : {Default, 0, 1, 5}, offset : {Default, -1, 0, 4, 5}, second : {Default, 60}]}
    \cup {[form |-> "classes", classes |-> (class :> Class1(TRUE, NullSchedule))] :
             class \in {"fast", "slow", "inventory"}}
    \cup {[form |-> "classes", classes |-> [jobs |-> Class1(FALSE, Fields(3, Default, Default)),
                                            backups |-> Class1(FALSE, NullSchedule)]]}

Texts == [rest |-> {"base_url", "endpoint", "token", "username", "password", "password_file"},
          cli |-> {"host", "username", "password", "ssh_key_path", "ssh_known_hosts_path",
                   "jump_host", "jump_username", "jump_ssh_key_path"},
          snmp |-> {"host", "community", "community_file"}]
Lists == [rest |-> {"endpoints"}, cli |-> {"commands"}, snmp |-> {"oids", "walk_oids"}]

\* One or two settings changed, for what they can be in a file.
Variants(raw) ==
    {[raw EXCEPT ![s] = v] : s \in Texts[raw.protocol], v \in {"", ToBeFilled}}
    \cup {[raw EXCEPT ![s] = "", ![t] = v] :
             s \in Texts[raw.protocol], t \in Texts[raw.protocol], v \in {"", "x"}}
    \cup {[raw EXCEPT !.enabled = FALSE], [raw EXCEPT !.concurrency = 0],
          [raw EXCEPT !.concurrency = -1], [raw EXCEPT !.spacing = -1]}
    \cup {[raw EXCEPT ![list] = [status |-> ToBeFilled]] : list \in Lists[raw.protocol]}
    \cup {[raw EXCEPT ![list] = <<>>] : list \in Lists[raw.protocol] \ {"endpoints"}}
    \cup {[raw EXCEPT !.schedule = s] : s \in Schedules}

MCRawConfigs ==
    {Library, Appliance, Shell, Agent, [Library EXCEPT !.endpoints = <<>>]}
    \cup Variants([Library EXCEPT !.endpoints = Entries({"media"})])
    \cup Variants([Appliance EXCEPT !.endpoints = Entries({"version"})])
    \cup Variants([Shell EXCEPT !.commands = Entries({"df"})])
    \cup Variants([Agent EXCEPT !.walk_oids = <<>>])
=============================================================================
