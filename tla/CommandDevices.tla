--------------------------- MODULE CommandDevices ---------------------------
(***************************************************************************)
(* The collections of a DXi over SSH and of a Data Domain over SNMP.  Each *)
(* runs in a thread of its own, which nothing can cancel: the caller only  *)
(* waits for it.  The order of commands and OIDs is any.                   *)
(***************************************************************************)
EXTENDS DeviceCalls

VARIABLES
    thread,     \* where the thread of each caller is
    links,      \* of its SSH connections those that are open
    todo,       \* the commands or OIDs that are left
    output      \* of its command, against the window that SSH grants unread

commandvars == <<thread, links, todo, output>>

IsCommand == config.protocol \in {"cli", "snmp"}
IsShell == config.protocol = "cli"
ItemsOf == IF IsShell THEN DOMAIN config.commands
                      ELSE DOMAIN config.oids \cup DOMAIN config.walk_oids

Advance(c, from, to) == thread[c] = from /\ thread' = [thread EXCEPT ![c] = to]

\* asyncio.to_thread; the client of a DXi connects, over a jump host if it has one.
StartThread(c) ==
    /\ IsCommand /\ ~Skipped(config) /\ MayBegin(c)
    /\ Move(c, "idle", "waiting")
    /\ Advance(c, "none", CASE ~IsShell -> "next"
                            [] IsShell /\ config.jump_host # "" -> "jump"
                            [] OTHER -> "connect")
    /\ todo' = [todo EXCEPT ![c] = ItemsOf]
    /\ UNCHANGED <<config, phase, payloads, errors, links, output>>

NextLink == [jump |-> "channel", channel |-> "connect", connect |-> "next"]

\* The jump host, the channel through it, and the device answer.
Connects(c) ==
    /\ thread[c] \in DOMAIN NextLink
    /\ links' = [links EXCEPT ![c] = @ \cup {thread[c]}]
    /\ thread' = [thread EXCEPT ![c] = NextLink[@]]
    /\ UNCHANGED <<callvars, todo, output>>

\* exec_command; how much the command writes is up to the device.
Executes(c) ==
    /\ IsShell /\ todo[c] # {}
    /\ Advance(c, "next", "exit")
    /\ \E size \in {"fits", "exceeds"} : output' = [output EXCEPT ![c] = size]
    /\ UNCHANGED <<callvars, links, todo>>

\* recv_exit_status, before any read: without a timeout, and a command that has
\* filled the window is never done.
Exits(c) ==
    /\ output[c] = "fits"
    /\ Advance(c, "exit", "read")
    /\ UNCHANGED <<callvars, links, todo, output>>

\* The connection is lost: the status is -1.
LosesConnection(c) ==
    /\ Advance(c, "exit", "read")
    /\ output' = [output EXCEPT ![c] = "lost"]
    /\ UNCHANGED <<callvars, links, todo>>

\* The output counts also when the command failed; that there is no open ticket
\* is no error.
Statuses(c, name) ==
    IF output[c] = "lost" THEN {"failed"}
    ELSE {"done", "failed"} \cup (IF name = "service_tickets" THEN {"no tickets"} ELSE {})

Reads(c) ==
    /\ Advance(c, "read", "next")
    /\ \E name \in todo[c] : \E status \in Statuses(c, name) :
          /\ todo' = [todo EXCEPT ![c] = @ \ {name}]
          /\ Answer(c, name, {})
          /\ errors' = [errors EXCEPT ![c] = IF status = "failed" THEN @ \cup {name} ELSE @]
    /\ UNCHANGED <<config, phase, stage, links, output>>

\* get_cmd, or all of walk_cmd.
Gets(c) ==
    /\ ~IsShell /\ thread[c] = "next"
    /\ \E name \in todo[c] :
          /\ todo' = [todo EXCEPT ![c] = @ \ {name}]
          /\ Answer(c, name, {})
    /\ UNCHANGED <<config, phase, stage, errors, thread, links, output>>

\* A connection, a command, a read, or one OID fails: all of the collection does.
Raises(c) ==
    /\ \/ thread[c] \in DOMAIN NextLink \cup {"read"}
       \/ thread[c] = "next" /\ todo[c] # {}
    /\ thread' = [thread EXCEPT ![c] = "raising"]
    /\ UNCHANGED <<callvars, links, todo, output>>

\* Mutant of LinksLeft: the connections are closed with that of the device.
LinksLeftUnconnected(c) == IF "connect" \in links[c] THEN {} ELSE links[c]

LinksLeft(c) == {}

\* The finally, and the result for the caller when he still waits.
ThreadEnds(c) ==
    /\ thread[c] = "raising" \/ (thread[c] = "next" /\ todo[c] = {})
    /\ links' = [links EXCEPT ![c] = LinksLeft(c)]
    /\ thread' = [thread EXCEPT ![c] = "over"]
    /\ stage' = IF stage[c] # "waiting" THEN stage
                ELSE [stage EXCEPT ![c] = IF thread[c] = "raising" THEN "failed" ELSE "returned"]
    /\ UNCHANGED <<config, phase, payloads, errors, todo, output>>

CommandInit ==
    /\ thread = [c \in Callers |-> "none"]
    /\ links = [c \in Callers |-> {}]
    /\ todo = [c \in Callers |-> {}]
    /\ output = [c \in Callers |-> "fits"]

CommandStep(c) ==
    \/ Connects(c) \/ Executes(c) \/ Exits(c) \/ Reads(c) \/ Gets(c) \/ Raises(c)
    \/ ThreadEnds(c)
=============================================================================
