---------------------------- MODULE LinuxCapture ----------------------------
(***************************************************************************)
(* How a Linux composite is measured with Falco.  Four drivers share the   *)
(* harness (ttp-composite/linux/harness/run.py):                           *)
(*   "single"   the campaign's adapter, one capture per program            *)
(*   "batch"    the campaign's adapter with --batch-size, one capture for  *)
(*              a group of first attempts; replacements run singly         *)
(*   "pilot"    scripts/pilot/composites-linux.py, which can be resumed    *)
(*   "qualify"  the harness's own main                                     *)
(* beside a machine that delivers alerts late, drops events, loses the     *)
(* collector, changes a frozen file, and may kill the pilot.               *)
(*                                                                         *)
(* An attempt <<slot, number>> has one container and one program.  Alerts  *)
(* are told apart by their container and by whether the fixture or the     *)
(* measured program caused them; event times by the same distinction.      *)
(***************************************************************************)
EXTENDS Integers, Sequences, FiniteSets

CONSTANTS
  Drivers,     \* the drivers explored
  Planned,     \* slots of the plan
  BatchSize,
  MaxTries,    \* attempts per slot of a campaign
  MaxFaults    \* bound: drops, collector crashes, changed files, kills, creates
               \* that time out, outcomes and clean-up notes not written

ASSUME CaptureAssumption ==
  /\ Drivers \subseteq {"single", "batch", "pilot", "qualify"}
  /\ {Planned, BatchSize, MaxTries} \subseteq Nat \ {0}
  /\ MaxFaults \in Nat

VARIABLES
  \* the machine
  falco,       \* the collector: running, its process, its drop counter
  wire,        \* alerts caused and not yet written
  journal,     \* alerts written to the journal since the cursor was read
  boxes,       \* containers of which the driver has the id, by attempt
  stray,       \* those it has no id of, because their docker create timed out
  alive,       \* programs running in their containers
  outcome,     \* what the group's programs did
  hit,         \* programs of the group that caused an alert
  frozen,      \* the released files are what they were
  impure,      \* programs of the group started from a changed file
  ran,         \* history: slots whose program the pilot started
  reran,       \* history: it started one of them again
  unsaid,      \* history: removals that failed, with the note of it not written
  faults,
  \* the driver
  driver, pc, todo, group, i,
  before,      \* the collector's state at the start of the capture
  log,         \* the alerts read at its end
  healthy,
  started,     \* attempts whose row has started_ns
  noted,       \* attempts whose native outcome is in execution.json, or the row
  raised,      \* the exception on its way through `finally`
  \* the disk
  filed,       \* the attempts with a row, in order
  rows,        \* the rows of the group
  suite,       \* what suite_ok sees of all rows
  folders      \* the pilot's batch folders

collector == <<falco, wire, journal>>
containers == <<boxes, stray, unsaid>>
programs  == <<containers, alive, outcome, hit, impure, ran, reran>>
capture   == <<before, log, healthy>>
queue     == <<todo, group>>
disk      == <<filed, rows, suite, folders>>
vars == <<collector, programs, frozen, faults, driver, pc, queue, i, capture,
          started, noted, raised, disk>>

Attempts == (1..Planned) \X (1..MaxTries)
Plan     == [s \in 1..Planned |-> <<s, 1>>]
Alerts   == [cid : Attempts, cause : {"fixture", "program"}]
NoState  == [up |-> FALSE, pid |-> 0, drops |-> 0]
Campaign == driver \in {"single", "batch"}
Shared   == driver = "pilot" \/ Len(group) > 1
Here     == group[i]

-----------------------------------------------------------------------------
(* The harness's operators.                                                *)
HealthOk_Drops(b, a) == b.up /\ a.up /\ b.pid = a.pid  \* mutation: drops ignored
HealthOk(b, a) == b.up /\ a.up /\ b.pid = a.pid /\ b.drops = a.drops

(* detector_state raises when it is not running or shows no drop counter.  *)
Answering == falco.up

Caused(x) == IF falco.up THEN wire \cup {x} ELSE wire

AttributedAlerts(a) == {x \in log : x.cid = a}

(* A shared capture has fixtures of later members in it: the time counts.  *)
RowAlerts(a) ==
  IF Shared
  THEN {x \in AttributedAlerts(a) : a \in started /\ x.cause = "program"}
  ELSE AttributedAlerts(a)

Class_Health(a) ==   \* mutation: the collector is judged before the program
  IF ~healthy THEN "measurement-failure"
  ELSE IF outcome[a] = "ok" THEN "valid" ELSE "behavior-failure"
Class(a) ==
  IF a \notin noted
  THEN IF driver = "pilot" THEN "behavior-failure" ELSE "measurement-failure"
  ELSE IF outcome[a] # "ok" THEN "behavior-failure"
  ELSE IF ~healthy THEN "measurement-failure" ELSE "valid"

Row(a, status) == [aid |-> a, status |-> status, fired |-> RowAlerts(a) # {}]

(* suite_ok: the exit code of the pilot and of the harness.                *)
SuiteOk == suite.valid /\ suite.fired

File(new) ==
  /\ filed' = filed \o [k \in DOMAIN new |-> new[k].aid]
  /\ rows' = rows \o new
  /\ suite' = [valid |-> suite.valid /\ \A k \in DOMAIN new : new[k].status = "valid",
               fired |-> suite.fired \/ \E k \in DOMAIN new :
                           new[k].status = "valid" /\ new[k].fired]
  /\ UNCHANGED folders

-----------------------------------------------------------------------------
(* Choosing what to run next.                                              *)
MayShare(n) ==
  n = 1 \/ /\ driver \in {"batch", "pilot"} /\ n <= BatchSize
           /\ \A k \in 1..n : todo[k][2] = 1
GroupLen ==
  CHOOSE n \in 1..Len(todo) :
    MayShare(n) /\ \A m \in (n + 1)..Len(todo) : ~MayShare(m)

Offset == Len(filed)

Pick ==
  /\ pc = "pick" /\ todo # << >>
  /\ IF driver = "pilot" /\ Offset \in folders
     THEN pc' = "refused" /\ UNCHANGED <<queue, folders>>   \* mkdir fails
     ELSE /\ group' = SubSeq(todo, 1, GroupLen)
          /\ todo' = SubSeq(todo, GroupLen + 1, Len(todo))
          /\ folders' = IF driver = "pilot" THEN folders \cup {Offset} ELSE folders
          /\ pc' = IF driver = "qualify" THEN "box" ELSE "check"
  /\ i' = 1 /\ raised' = "none"
  /\ before' = NoState /\ log' = {} /\ healthy' = FALSE /\ started' = {} /\ noted' = {}
  /\ outcome' = [a \in Attempts |-> "none"] /\ hit' = {} /\ impure' = {}
  /\ rows' = << >>
  /\ UNCHANGED <<collector, containers, alive, ran, reran, frozen, faults, driver,
                 filed, suite>>

Finish ==
  /\ pc = "pick" /\ todo = << >>
  /\ pc' = IF Campaign \/ SuiteOk THEN "done" ELSE "failed"
  /\ UNCHANGED <<collector, programs, frozen, faults, driver, queue, i, capture,
                 started, noted, raised, disk>>

(* An exception: the campaign's finally block runs first.                  *)
Throw(e) ==
  /\ raised' = e /\ pc' = "cleanup"
  /\ UNCHANGED <<queue, i, capture, started, noted, disk>>
Abandon == IF Campaign THEN Throw("measurement") ELSE Throw("fatal")

Step(p) == pc' = p /\ UNCHANGED raised

OneMoreFault == faults < MaxFaults /\ faults' = faults + 1

-----------------------------------------------------------------------------
(* Readiness.  A campaign restarts the collector before a replacement.     *)
Verified == Campaign => frozen

Check ==
  /\ pc = "check"
  /\ IF ~Verified THEN Throw("fatal")
     ELSE IF ~Answering \/ (Campaign /\ Here[2] > 1)
     THEN Step("setup") /\ UNCHANGED <<queue, i, capture, started, noted, disk>>
     ELSE /\ before' = falco
          /\ Step(IF Campaign THEN "settling" ELSE "cursor")
          /\ UNCHANGED <<queue, i, log, healthy, started, noted, disk>>
  /\ UNCHANGED <<collector, programs, frozen, faults, driver>>

Restarted == [up |-> TRUE, pid |-> falco.pid + 1, drops |-> 0]

Setup ==
  /\ pc = "setup"
  /\ \/ /\ falco' = Restarted
        /\ wire' = {}
        /\ before' = falco'
        /\ Step(IF Campaign THEN "settling" ELSE "cursor")
        /\ UNCHANGED <<queue, i, log, healthy, started, noted, disk>>
     \/ Abandon /\ UNCHANGED <<falco, wire>>
  /\ UNCHANGED <<journal, programs, frozen, faults, driver>>

(* The file that changed may be the collector's own program.               *)
OtherFalco == ~frozen

Settled ==
  /\ pc = "settling"
  /\ \/ OtherFalco /\ Throw("fatal")
     \/ IF HealthOk(before, falco)
        THEN /\ Step(IF Shared THEN "before" ELSE "box")
             /\ UNCHANGED <<queue, i, capture, started, noted, disk>>
        ELSE Abandon
  /\ UNCHANGED <<collector, programs, frozen, faults, driver>>

(* The health snapshot and, in a step of its own, the journal's cursor.  A *)
(* single capture has slept two seconds: the fixture's alerts are written. *)
Flushed == Shared \/ wire = {}

Before ==
  /\ pc = "before" /\ Flushed
  /\ IF Answering
     THEN before' = falco /\ Step("cursor")
          /\ UNCHANGED <<queue, i, log, healthy, started, noted, disk>>
     ELSE Abandon
  /\ UNCHANGED <<collector, programs, frozen, faults, driver>>

Cursor ==
  /\ pc = "cursor"
  /\ \/ /\ journal' = {}
        /\ Step(IF Shared THEN "box" ELSE "native")
        /\ UNCHANGED <<queue, i, capture, started, noted, disk>>
     \/ Abandon /\ UNCHANGED journal
  /\ UNCHANGED <<falco, wire, programs, frozen, faults, driver>>

-----------------------------------------------------------------------------
(* One member: its container and fixture, then its program.                *)
NextMember == i' = (IF i < Len(group) THEN i + 1 ELSE 1)
AfterMember == IF i < Len(group) THEN "box" ELSE "drain"

Box ==
  /\ pc = "box"
  /\ IF ~Verified THEN Throw("fatal") /\ UNCHANGED <<wire, boxes>>
     ELSE /\ boxes' = boxes \cup {Here}
          /\ wire' \in {wire, Caused([cid |-> Here, cause |-> "fixture"])}
          /\ Step(IF Shared THEN "native" ELSE "before")
          /\ UNCHANGED <<queue, i, capture, started, noted, disk>>
  /\ UNCHANGED <<falco, journal, stray, unsaid, alive, outcome, hit, impure, ran,
                 reran, frozen, faults, driver>>

(* docker create, start, a fixture command or the note before the start    *)
(* fails.  A create that timed out may leave a container without an id for *)
(* `finally`.  A campaign's batch notes the failure in the member's row,   *)
(* the pilot only what comes after the create.  A single capture calls a   *)
(* timeout of prepare.py, whose command names the case, a hanging program. *)
(* A namespace fixture that does not come up, a folder that cannot be made *)
(* and the pilot's docker create raise through all of it.                  *)
BoxFails ==
  /\ pc = "box" /\ Verified
  /\ \E id \in BOOLEAN :
       /\ boxes' = IF id THEN boxes \cup {Here} ELSE boxes
       /\ \/ UNCHANGED <<stray, faults>>
          \/ ~id /\ OneMoreFault /\ stray' = stray \cup {Here}
       /\ \/ /\ Shared /\ (driver = "pilot" => id)
             /\ Step(AfterMember) /\ NextMember
             /\ UNCHANGED <<queue, capture, started, noted, disk>>
          \/ ~Shared /\ Throw("measurement")
          \/ ~Shared /\ id /\ Throw("timeout")
          \/ Throw("fatal")
  /\ UNCHANGED <<collector, unsaid, alive, outcome, hit, impure, ran, reran, frozen, driver>>

Native ==
  /\ pc = "native"
  /\ started' = started \cup {Here}
  /\ alive' = alive \cup {Here}
  /\ ran' = IF driver = "pilot" THEN ran \cup {Here} ELSE ran
  /\ reran' = (reran \/ Here \in ran)
  /\ outcome' = [outcome EXCEPT ![Here] = "running"]
  /\ impure' = IF frozen THEN impure ELSE impure \cup {Here}
  /\ \/ UNCHANGED <<hit, wire>>
     \/ /\ hit' = hit \cup {Here}
        /\ wire' = Caused([cid |-> Here, cause |-> "program"])
  /\ Step("wait")
  /\ UNCHANGED <<falco, journal, containers, frozen, faults, driver, queue, i, capture,
                 noted, disk>>

(* The program ends, or 20 seconds pass: that kills the docker client; the *)
(* program in the container runs on.  A batch keeps the outcome in the     *)
(* member's row also where execution.json cannot be written.               *)
Return ==
  /\ pc = "wait"
  /\ \E o \in {"ok", "bad"} : outcome' = [outcome EXCEPT ![Here] = o]
  /\ alive' = alive \ {Here}
  /\ noted' = noted \cup {Here}
  /\ Step(AfterMember) /\ NextMember
  /\ UNCHANGED <<collector, containers, hit, impure, ran, reran, frozen, faults, driver,
                 queue, capture, started, disk>>

Timeout ==
  /\ pc = "wait"
  /\ outcome' = [outcome EXCEPT ![Here] = "timeout"]
  /\ noted' = noted \cup {Here}
  /\ IF Shared
     THEN Step(AfterMember) /\ NextMember
          /\ UNCHANGED <<queue, capture, started, disk>>
     ELSE /\ raised' = "timeout" /\ pc' = "cleanup"
          /\ UNCHANGED <<queue, i, capture, started, disk>>
  /\ UNCHANGED <<collector, containers, alive, hit, impure, ran, reran, frozen, faults,
                 driver>>

(* The outcome, whatever it is, cannot be written to execution.json: an    *)
(* OSError, which a single capture takes for one of the collector unless   *)
(* half a file or a second failure makes it worse.  The pilot notes that   *)
(* there is no result; what it and a batch raise, their own note failed.   *)
NotNoted ==
  /\ pc = "wait" /\ OneMoreFault
  /\ \E o \in {"ok", "bad", "timeout"} :
       /\ outcome' = [outcome EXCEPT ![Here] = o]
       /\ alive' = IF o = "timeout" THEN alive ELSE alive \ {Here}
  /\ \/ /\ driver = "pilot"
        /\ Step(AfterMember) /\ NextMember
        /\ UNCHANGED <<queue, capture, started, noted, disk>>
     \/ ~Shared /\ Throw("measurement")
     \/ Throw("fatal")
  /\ UNCHANGED <<collector, containers, hit, impure, ran, reran, frozen, driver>>

-----------------------------------------------------------------------------
(* The end of the capture: three seconds, in which every alert caused so   *)
(* far is written or lost; the second snapshot; the journal.               *)
Drained_Quiet == wire = {} /\ alive = {}  \* mutation: waits for hung programs
Drained == wire = {}

After ==
  /\ pc = "drain" /\ Drained
  /\ healthy' = HealthOk(before, falco)
  /\ Step("log")
  /\ UNCHANGED <<collector, programs, frozen, faults, driver, queue, i, before,
                 log, started, noted, disk>>

ReadLog ==
  /\ pc = "log"
  /\ \/ log' = journal /\ UNCHANGED healthy
     \/ log' = {} /\ healthy' = FALSE
  /\ Step(IF Shared THEN "score" ELSE "cleanup")
  /\ UNCHANGED <<collector, programs, frozen, faults, driver, queue, i, before,
                 started, noted, disk>>

(* An evidence file of the capture cannot be written.                      *)
WriteFails ==
  /\ pc \in {"log", "score"}
  /\ \/ ~Shared /\ Throw("measurement")
     \/ Throw("fatal")
  /\ UNCHANGED <<collector, programs, frozen, faults, driver>>

(* A campaign's batch verifies the files again after each member's score;  *)
(* the pilot appends the member's row.                                     *)
Score ==
  /\ pc = "score"
  /\ IF ~Verified THEN Throw("fatal")
     ELSE /\ IF driver = "pilot" THEN File(<<Row(Here, Class(Here))>>)
             ELSE UNCHANGED disk
          /\ Step(IF i < Len(group) THEN "score" ELSE "cleanup") /\ NextMember
          /\ UNCHANGED <<queue, capture, started, noted>>
  /\ UNCHANGED <<collector, programs, frozen, faults, driver>>

(* finally: docker rm -f for every container whose id is known.  A failure *)
(* is fatal, except that the pilot looks at no return code, and that a     *)
(* single capture which cannot write cleanup-error.txt either raises an    *)
(* OSError, one more failure of the collection.                            *)
Boxes == boxes \cap {group[k] : k \in DOMAIN group}

CleanupFailed_Ignored(left) == {raised}  \* mutation: the return code is ignored
CleanupFailed(left) ==
  IF left = {} THEN {raised} ELSE IF driver = "pilot" THEN {raised, "fatal"} ELSE {"fatal"}

NoteFails(left) ==
  /\ ~Shared /\ left # {} /\ OneMoreFault
  /\ raised' = "measurement" /\ unsaid' = unsaid \cup left

Cleanup ==
  /\ pc = "cleanup"
  /\ \E left \in SUBSET Boxes :
       /\ Shared \/ left \in {{}, Boxes}
       /\ boxes' = boxes \ (Boxes \ left)
       /\ alive' = alive \ (Boxes \ left)
       /\ \/ raised' \in CleanupFailed(left) /\ UNCHANGED <<unsaid, faults>>
          \/ NoteFails(left)
  /\ pc' = "file"
  /\ UNCHANGED <<collector, stray, outcome, hit, impure, ran, reran, frozen, driver,
                 queue, i, capture, started, noted, disk>>

-----------------------------------------------------------------------------
(* What the caller makes of it.                                            *)
StatusOf(a) ==
  CASE raised = "measurement" -> IF a \in noted /\ outcome[a] # "ok"
                                 THEN "behavior-failure" ELSE "measurement-failure"
    [] raised = "timeout"     -> "behavior-failure"
    [] raised = "fatal"       -> "fatal"
    [] OTHER                  -> Class(a)

Verdicts == [k \in DOMAIN group |-> Row(group[k], StatusOf(group[k]))]
Again(r) == r.status # "valid" /\ r.aid[2] < MaxTries
Replacements(rs) ==
  LET upto[k \in 0..Len(rs)] ==
        IF k = 0 THEN << >>
        ELSE IF ~Again(rs[k]) THEN upto[k - 1]
        ELSE Append(upto[k - 1], <<rs[k].aid[1], rs[k].aid[2] + 1>>)
  IN  upto[Len(rs)]

(* A single capture verifies the files once more before it is classified.  *)
ChangedSince_Unchecked == FALSE        \* mutation: only checked before the run
ChangedSince == ~Shared /\ raised = "none" /\ ~Verified

FileCampaign ==
  /\ pc = "file" /\ Campaign
  /\ LET new == IF ChangedSince THEN <<Row(Here, "fatal")>> ELSE Verdicts
     IN  /\ File(new)
         /\ IF ChangedSince \/ raised = "fatal"
            THEN pc' = "stopped" /\ UNCHANGED todo
            ELSE pc' = "pick" /\ todo' = Replacements(new) \o todo
  /\ UNCHANGED <<collector, programs, frozen, faults, driver, group, i, capture,
                 started, noted, raised>>

(* The harness's main notes any exception as an invalid record and goes on *)
(* to the next item; the pilot's rows are filed, and an exception ends it. *)
FileOther ==
  /\ pc = "file" /\ ~Campaign
  /\ IF driver = "pilot"
     THEN /\ pc' = IF raised = "none" THEN "pick" ELSE "down"
          /\ UNCHANGED disk
     ELSE /\ pc' = "pick"
          /\ File(<<Row(Here, IF raised = "none" THEN Class(Here)
                              ELSE "behavior-failure")>>)
  /\ UNCHANGED <<collector, programs, frozen, faults, driver, queue, i, capture,
                 started, noted, raised>>

-----------------------------------------------------------------------------
(* composites-linux.py --resume                                            *)
Resumable_Anywhere == Offset < Planned \* mutation: a partial batch is resumed
Resumable == Offset % BatchSize = 0 /\ Offset < Planned

Resume ==
  /\ pc = "down"
  /\ IF Resumable
     THEN pc' = "pick" /\ todo' = SubSeq(Plan, Offset + 1, Planned)
     ELSE pc' = "refused" /\ UNCHANGED todo
  /\ UNCHANGED <<collector, programs, frozen, faults, driver, group, i, capture,
                 started, noted, raised, disk>>

-----------------------------------------------------------------------------
(* The machine.                                                            *)
Ended == pc \in {"done", "failed", "stopped", "refused"}

Deliver(x) ==
  /\ falco.up
  /\ journal' = journal \cup {x} /\ wire' = wire \ {x}
  /\ UNCHANGED <<falco, programs, frozen, faults, driver, pc, queue, i, capture,
                 started, noted, raised, disk>>

Fault ==
  /\ OneMoreFault /\ ~Ended
  /\ \/ /\ falco.up /\ falco' = [falco EXCEPT !.drops = @ + 1]
        /\ wire' \in {wire} \cup {wire \ {x} : x \in wire}
        /\ UNCHANGED <<frozen, pc>>
     \/ /\ falco.up /\ falco' = [falco EXCEPT !.up = FALSE] /\ wire' = {}
        /\ UNCHANGED <<frozen, pc>>
     \/ /\ frozen /\ frozen' = FALSE
        /\ UNCHANGED <<falco, wire, pc>>
     \/ /\ driver = "pilot" /\ pc # "down" /\ pc' = "down"
        /\ UNCHANGED <<falco, wire, frozen>>
  /\ UNCHANGED <<journal, programs, driver, queue, i, capture, started, noted,
                 raised, disk>>

Init ==
  /\ falco = [up |-> TRUE, pid |-> 1, drops |-> 0]
  /\ wire = {} /\ journal = {}
  /\ boxes = {} /\ stray = {} /\ unsaid = {} /\ noted = {}
  /\ alive = {} /\ ran = {} /\ reran = FALSE
  /\ outcome = [a \in Attempts |-> "none"]
  /\ hit = {} /\ impure = {} /\ frozen = TRUE /\ faults = 0
  /\ driver \in Drivers /\ pc = "pick"
  /\ todo = Plan /\ group = << >> /\ i = 1
  /\ before = NoState /\ log = {} /\ healthy = FALSE
  /\ started = {} /\ raised = "none"
  /\ filed = << >> /\ rows = << >> /\ folders = {}
  /\ suite = [valid |-> TRUE, fired |-> FALSE]

Drive ==
  \/ Pick \/ Finish \/ Check \/ Setup \/ Settled \/ Before \/ Cursor
  \/ Box \/ BoxFails \/ Native \/ Return \/ Timeout \/ NotNoted
  \/ After \/ ReadLog \/ WriteFails \/ Score \/ Cleanup \/ FileCampaign \/ FileOther

Next == Drive \/ Resume \/ Fault \/ \E x \in wire : Deliver(x)

Spec     == Init /\ [][Next]_vars
FairSpec == Spec /\ WF_vars(Drive) /\ WF_vars(\E x \in wire : Deliver(x))

-----------------------------------------------------------------------------
Pcs == {"pick", "check", "setup", "settling", "before", "cursor", "box",
        "native", "wait", "drain", "log", "score", "cleanup", "file", "down",
        "done", "failed", "stopped", "refused"}
Statuses == {"valid", "behavior-failure", "measurement-failure", "fatal"}

(* Types.                                                                  *)
TypeOK ==
  /\ falco \in [up : BOOLEAN, pid : Nat, drops : Nat]
  /\ before \in [up : BOOLEAN, pid : Nat, drops : Nat]
  /\ {wire, journal, log} \subseteq SUBSET Alerts
  /\ {boxes, stray, unsaid, alive, hit, impure, started, noted, ran} \subseteq SUBSET Attempts
  /\ outcome \in [Attempts -> {"none", "running", "ok", "bad", "timeout"}]
  /\ {frozen, healthy, reran} \subseteq BOOLEAN
  /\ faults \in 0..MaxFaults
  /\ driver \in Drivers /\ pc \in Pcs
  /\ todo \in Seq(Attempts) /\ group \in Seq(Attempts) /\ i \in Nat \ {0}
  /\ raised \in {"none", "measurement", "timeout", "fatal"}
  /\ filed \in Seq(Attempts)
  /\ rows \in Seq([aid : Attempts, status : Statuses, fired : BOOLEAN])
  /\ suite \in [valid : BOOLEAN, fired : BOOLEAN]
  /\ folders \subseteq Nat

(* A row filed as valid says an alert exactly when the measured program    *)
(* itself caused one and ran to its end: neither an alert of the fixture   *)
(* or of a neighbour that is written late, nor one that was dropped or     *)
(* lost with the collector, makes it say otherwise.  Missing alerts are    *)
(* results, so nothing later would notice (run.py:56-65, 144-202,          *)
(* batch_composites.py:75-95).                                             *)
ValidIsWitnessed ==
  \A k \in DOMAIN rows :
    rows[k].status = "valid" =>
      /\ outcome[rows[k].aid] = "ok"
      /\ rows[k].fired <=> rows[k].aid \in hit

(* A program that failed or hung is never filed as a failure of the        *)
(* collector, whatever the collector, the clean-up and the evidence files  *)
(* did at the same time - with one exception: a single capture of a        *)
(* campaign whose execution.json could not be written (run.py:168-176,     *)
(* composites.py:92-98, batch_composites.py:89-95).                        *)
NativeOutcomeKept ==
  \A k \in DOMAIN rows :
    outcome[rows[k].aid] \in {"bad", "timeout"}
      /\ (Campaign /\ ~Shared => rows[k].aid \in noted) =>
        rows[k].status \in {"behavior-failure", "fatal"}

(* No valid measurement of a campaign ran a file that differs from the     *)
(* frozen one, also when the file changed between the check and the run    *)
(* (run.py:96-121 of scripts/experiment).                                  *)
FrozenWhenRun ==
  Campaign => \A k \in DOMAIN rows :
                rows[k].status = "valid" => rows[k].aid \notin impure

(* When a campaign takes up further work, every container of an earlier    *)
(* attempt that it has the id of is gone, and with it the program in it,   *)
(* except for those of single captures that could be neither removed nor   *)
(* noted. What stays beside them has no program: a container whose docker  *)
(* create timed out (run.py:149, 203-211, batch_composites.py:51-53,       *)
(* 98-106).                                                                *)
CleanBeforeNext == Campaign /\ pc = "pick" => boxes \cup alive \subseteq unsaid

(* However often the pilot is killed and resumed, no slot's program is     *)
(* started twice and the rows are the plan's slots in order                *)
(* (composites-linux.py:16, 29-37, 43).                                    *)
PilotOnce ==
  driver = "pilot" =>
    ~reran /\ filed = SubSeq(Plan, 1, Len(filed))

(* Every driver comes to an end, or is killed and not resumed: no hung     *)
(* program, lost alert or dead collector keeps it waiting.                 *)
Ends == <>[](Ended \/ pc = "down")
=============================================================================
