--------------------------- MODULE WindowsCapture ---------------------------
(***************************************************************************)
(* A Windows capture of the composite programs: the harness runs the       *)
(* planned programs one after the other (run.ps1, external), Sysmon writes *)
(* process starts and, later, the operations of processes into one log,    *)
(* and when the log has been drained analyze.py joins Hayabusa's alerts to *)
(* the processes measured.  The composite adapters (composites.py,         *)
(* batch_composites.py) make a status of every row.                        *)
(*                                                                         *)
(* Windows gives the number of a process that has ended to another one.  A *)
(* GUID names a process for good, but Sysmon finds it by the number when   *)
(* it writes an operation, and may find none (zero) or that of a process   *)
(* that had the number before; the analysis knows this of the records that *)
(* come late only.  Processes are numbered in the order of their starts;   *)
(* that number is the GUID.  Positions in the log are time.                *)
(***************************************************************************)
EXTENDS Integers, Sequences, FiniteSets

CONSTANTS
    Plans,      \* captures explored: [kind |-> "single" or "batch", modes |-> sequence]
    Pids,       \* process numbers
    MaxProcs,   \* bound: processes started in a capture
    MaxOps,     \* bound: operations they perform
    MaxFailures \* bound: starts not recorded, programs that fail, failures of the harness

VARIABLES
    plan,       \* the capture
    procs,      \* the processes: [pid, parent, image, seen, alive]
    backlog,    \* operations Sysmon has not written yet: [op, who, hit, kind]
    ops,        \* operations performed
    events,     \* the records written
    attempts,   \* [main, pid, start, end, ok] of the programs run; end is -1 while one runs
    results,    \* statuses of the slots, "integrity", or none so far
    failures    \* failures so far

vars == <<plan, procs, backlog, ops, events, attempts, results, failures>>

Zero == 0
Hits == {"rule", "other"}  \* the slot's rule, or another rule of the selection

\* Network, DNS, thread and access records (3, 22, 8, 10) are "late", all others "op".
OpKinds == {"late", "op"}

----------------------------------------------------------------------------
(* analyze.py: one attempt against the records of the capture.             *)

Records == DOMAIN events
Creates == {i \in Records : events[i].kind = "create"}
Ops     == Records \ Creates
Late    == {i \in Records : events[i].kind = "late"}

\* The record of the program's start: its number, its image, its time.  Two
\* programs of one number are further apart than the margin of the window.
Starts(a) == {i \in Creates : events[i].pid = a.pid /\ events[i].image = "probe"
                              /\ a.start < i /\ i <= a.end}

Children(G) == {events[i].guid : i \in {j \in Creates : events[j].parent \in G}}

\* The descendants of the one process identified.
Guids(a) ==
    LET own == {events[i].guid : i \in Starts(a)}
        grown[n \in Nat] == IF n = 0 THEN own
                            ELSE grown[n - 1] \cup Children(grown[n - 1])
    IN  IF Cardinality(own) = 1 THEN grown[Len(procs)] ELSE own

Attributable(a) == {i \in Records : events[i].guid \in Guids(a)}

\* Records of the program's number from its start to the end of the log; the
\* drain is no longer than the 30 s of the window.
Near(a) == {i \in Records : events[i].pid = a.pid /\ a.start < i}

Unattributed(a) == {i \in Near(a) : events[i].guid = Zero}

LaterPidReuse(a, i) ==
    \E j \in Creates : events[j].guid = events[i].guid /\ events[j].pid = a.pid
                       /\ a.end < j /\ j <= i

Conflicting_None(a) == {}  \* mutation: stale GUIDs are not looked for
Conflicting(a) ==
    {i \in Near(a) \cap Late : /\ events[i].guid \notin Guids(a) \cup {Zero}
                               /\ ~LaterPidReuse(a, i)}

OwnerPidReused(i) ==
    \E o \in Creates, j \in Creates :
        /\ events[o].guid = events[i].guid /\ events[j].pid = events[o].pid
        /\ events[j].guid # events[o].guid /\ o < j /\ j <= i

ReusedOwner(a) == {i \in Late \cap Attributable(a) : OwnerPidReused(i)}

Ambiguous(a) == Unattributed(a) \cup Conflicting(a) \cup ReusedOwner(a)

\* Rules whose alert counts: a control must not raise any of the selection.
Matching(mode) == IF mode = "control" THEN Hits ELSE {"rule"}

Fired(a, mode) == \E i \in Attributable(a) : events[i].hit \in Matching(mode)

Outcome(a, mode, healthy) ==
    LET valid == healthy /\ a.ok /\ Cardinality(Starts(a)) = 1
    IN  IF valid /\ Ambiguous(a) # {} THEN "attribution-incomplete"
        ELSE IF ~valid THEN "invalid"
        ELSE IF mode = "control" THEN IF Fired(a, mode) THEN "control-failed" ELSE "control-pass"
        ELSE IF Fired(a, mode) THEN "alert" ELSE "valid-miss"

ValidOutcomes == {"alert", "valid-miss", "control-pass", "control-failed"}

----------------------------------------------------------------------------
(* The adapters, after the harness has ended: "clean"; "sick", the health  *)
(* of the capture is bad; "exit", it exits with an error for no failed     *)
(* program; "missing", its records cannot be read; "unsafe", it left an    *)
(* error file.                                                             *)

Complete == Len(attempts) = Len(plan.modes)

Row(k, end) == Outcome(attempts[k], plan.modes[k], end # "sick" /\ Complete)

\* execute: one program, and a capture of its own.
Single(end) ==
    IF end = "unsafe" \/ attempts = <<>> THEN <<"integrity">>
    ELSE IF ~attempts[1].ok THEN <<"behavior-failure">>
    ELSE IF end # "clean" \/ Row(1, end) \notin ValidOutcomes
         THEN <<"measurement-failure">> ELSE <<"valid">>

\* execute_batch: a failed program keeps its status and leaves its peers theirs.
Batch(end) ==
    IF end = "unsafe" \/ ~Complete THEN <<"integrity">>
    ELSE [k \in DOMAIN attempts |->
            IF ~attempts[k].ok THEN "behavior-failure"
            ELSE IF \/ end \in {"missing", "sick"}
                    \/ end = "exit" /\ \A j \in DOMAIN attempts : attempts[j].ok
                    \/ Row(k, end) \notin ValidOutcomes
                 THEN "measurement-failure" ELSE "valid"]

Statuses(end) == IF plan.kind = "single" THEN Single(end) ELSE Batch(end)

----------------------------------------------------------------------------
Fault == failures < MaxFailures /\ failures' = failures + 1
Fine  == UNCHANGED failures

Running == attempts # <<>> /\ attempts[Len(attempts)].end = -1
Current == attempts[Len(attempts)]

Live == {n \in DOMAIN procs : procs[n].alive}

\* A process starts under a number nobody has; its start is recorded or lost.
Start(pid, parent, image) ==
    /\ Len(procs) < MaxProcs
    /\ pid \notin {procs[n].pid : n \in Live}
    /\ \E seen \in BOOLEAN :
        /\ procs' = Append(procs, [pid |-> pid, parent |-> parent, image |-> image,
                                   seen |-> seen, alive |-> TRUE])
        /\ IF seen
           THEN /\ events' = Append(events, [kind |-> "create", pid |-> pid,
                                             guid |-> Len(procs) + 1, parent |-> parent,
                                             image |-> image, who |-> Len(procs) + 1,
                                             hit |-> "none"])
                /\ Fine
           ELSE UNCHANGED events /\ Fault

\* Invoke-Probe starts the next program of the plan.
Launch(pid) ==
    /\ results = <<>> /\ ~Running /\ ~Complete
    /\ Start(pid, Zero, "probe")
    /\ attempts' = Append(attempts, [main |-> Len(procs) + 1, pid |-> pid,
                                     start |-> Len(events), end |-> -1, ok |-> FALSE])
    /\ UNCHANGED <<plan, backlog, ops, results>>

\* A measured process starts another, or something unrelated starts.
Spawn(pid, parent) ==
    /\ results = <<>>
    /\ parent \in Live \cup {Zero}
    /\ Start(pid, parent, "other")
    /\ UNCHANGED <<plan, backlog, ops, attempts, results>>

Act(n, hit, kind) ==
    /\ results = <<>> /\ ops < MaxOps /\ n \in Live
    /\ ops' = ops + 1
    /\ backlog' = backlog \cup {[op |-> ops, who |-> n, hit |-> hit, kind |-> kind]}
    /\ UNCHANGED <<plan, procs, events, attempts, results, failures>>

\* Sysmon writes an operation, under the GUID of the process, none, or one that
\* had its number earlier.
Write(q) ==
    /\ results = <<>> /\ q \in backlog
    /\ backlog' = backlog \ {q}
    /\ LET pid == procs[q.who].pid
           stale == {n \in 1 .. q.who - 1 : procs[n].pid = pid}
       IN  \E guid \in {q.who, Zero} \cup stale :
             events' = Append(events, [kind |-> q.kind, pid |-> pid, guid |-> guid, parent |-> Zero,
                                 image |-> "none", who |-> q.who, hit |-> q.hit])
    /\ UNCHANGED <<plan, procs, ops, attempts, results, failures>>

\* A process ends; with the program's own process the attempt ends.
Exit(n) ==
    /\ results = <<>> /\ n \in Live
    /\ procs' = [procs EXCEPT ![n].alive = FALSE]
    /\ IF Running /\ Current.main = n
       THEN \E ok \in BOOLEAN :
              /\ attempts' = [attempts EXCEPT ![Len(attempts)].end = Len(events),
                                              ![Len(attempts)].ok = ok]
              /\ IF ok THEN Fine ELSE Fault
       ELSE UNCHANGED attempts /\ Fine
    /\ UNCHANGED <<plan, backlog, ops, events, results>>

\* After 30 s nothing is left to write; the harness ends and the adapter judges.
\* It may also have given up after any program.
Judge ==
    /\ results = <<>> /\ ~Running /\ backlog = {}
    /\ \/ Complete /\ results' = Statuses("clean") /\ Fine
       \/ \E end \in {"sick", "exit", "missing", "unsafe"} :
            /\ Complete \/ end = "unsafe"
            /\ results' = Statuses(end) /\ Fault
    /\ UNCHANGED <<plan, procs, backlog, ops, events, attempts>>

Init ==
    /\ plan \in Plans
    /\ procs = <<>> /\ backlog = {} /\ ops = 0 /\ events = <<>>
    /\ attempts = <<>> /\ results = <<>> /\ failures = 0

Next ==
    \/ \E pid \in Pids : Launch(pid) \/ \E n \in Live \cup {Zero} : Spawn(pid, n)
    \/ \E n \in Live : Exit(n) \/ \E hit \in Hits, kind \in OpKinds : Act(n, hit, kind)
    \/ \E q \in backlog : Write(q)
    \/ Judge

Spec == Init /\ [][Next]_vars

----------------------------------------------------------------------------
(* Properties.                                                             *)

\* The processes a program really started, itself included.
Tree(n) ==
    LET grown[k \in Nat] ==
          IF k = 0 THEN {n}
          ELSE grown[k - 1] \cup {m \in DOMAIN procs : procs[m].parent \in grown[k - 1]}
    IN  grown[Len(procs)]

\* An older process's GUID is looked for on the late records only.
Checked(i) == i \in Late \/ events[i].guid \in {events[i].who, Zero}

\* A valid row tells the truth although records come late and, those at least,
\* under wrong GUIDs: an alert on what the program's own process did is not
\* missed, and, when every start was recorded, no alert on what a process
\* outside the program's tree did is credited to it.
ValidIsTrue ==
    \A k \in DOMAIN attempts :
        Complete /\ results # <<>> /\ results[1] # "integrity" /\ results[k] = "valid" =>
            LET a == attempts[k]
                telling == {i \in Ops : Checked(i) /\ events[i].hit \in Matching(plan.modes[k])}
            IN  /\ \A i \in telling : events[i].who = a.main => i \in Attributable(a)
                /\ (\A n \in DOMAIN procs : procs[n].seen) =>
                     \A i \in telling \cap Attributable(a) : events[i].who \in Tree(a.main)
=============================================================================
