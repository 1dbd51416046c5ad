----------------------------- MODULE RunLedger -----------------------------
(***************************************************************************)
(* What a NetWorker collector promises of the runs of jobs: a ledger, in   *)
(* which every job that ended has at most one entry, every entry is true   *)
(* and stays as it was written, and which over a stretch of time, the one  *)
(* the stored rounds make up, leaves out no job.                           *)
(***************************************************************************)
EXTENDS Integers

CONSTANTS
    Jobs,       \* the jobs that may run
    Window,     \* how far back a round asks
    NoTime      \* the time of a stretch that has not begun

VARIABLES
    ended,      \* of each job that ended its end and its status
    ledger,     \* entries of a job, the key of its document, and the document
    stretch     \* from when to when no job is left out

lvars == <<ended, ledger, stretch>>

HasEntry(j) == \E e \in ledger : e.job = j

IsTrue(e) ==
    /\ e.job \in DOMAIN ended
    /\ e.document.end = ended[e.job].end
    /\ e.document.status = ended[e.job].status

Init ==
    /\ DOMAIN ended = {} /\ ledger = {}
    /\ stretch = [first |-> NoTime, last |-> NoTime]

\* A job ends, not earlier than the stretch does.
End(j) ==
    /\ DOMAIN ended' = DOMAIN ended \cup {j}
    /\ \A i \in DOMAIN ended : ended'[i] = ended[i]
    /\ ended'[j].end \in Int /\ ended'[j].end >= stretch.last
    /\ UNCHANGED <<ledger, stretch>>

\* The stretch is prolonged by a round whose window begins in it, and begun
\* anew with the window of a round that comes too late for that.
StretchGoesOn ==
    /\ stretch' \in [first : Int, last : Int]
    /\ stretch'.last >= stretch.last
    /\ stretch'.first = IF stretch.last # NoTime /\ stretch'.last - Window <= stretch.last
                        THEN stretch.first
                        ELSE stretch'.last - Window

WindowIsRecorded ==
    \A j \in DOMAIN ended :
        (stretch'.last - Window <= ended[j].end /\ ended[j].end < stretch'.last) => HasEntry(j)'

\* A round is stored, or a part of it: true entries are added for jobs without
\* one, none is changed or taken away, and the stretch goes on only with all
\* that ended in the window.
Record ==
    /\ ledger \subseteq ledger'
    /\ \A e \in ledger' \ ledger : IsTrue(e) /\ ~HasEntry(e.job)
    /\ \A e, f \in ledger' \ ledger : e.job = f.job => e = f
    /\ stretch' = stretch \/ (StretchGoesOn /\ WindowIsRecorded)
    /\ UNCHANGED ended

Next == Record \/ \E j \in Jobs \ DOMAIN ended : End(j)

Spec == Init /\ [][Next]_lvars

-----------------------------------------------------------------------------
(* What a ledger promises.                                                   *)

EntriesAreTrue == \A e \in ledger : IsTrue(e)

OneEntryEach == \A e, f \in ledger : e.job = f.job => e = f

\* Windows that overlap leave out no job of the stretch they make up.
NoneIsLeftOut ==
    \A j \in DOMAIN ended :
        (stretch.first <= ended[j].end /\ ended[j].end < stretch.last) => HasEntry(j)

Promised == EntriesAreTrue /\ OneEntryEach /\ NoneIsLeftOut
=============================================================================
