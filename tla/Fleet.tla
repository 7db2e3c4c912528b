------------------------------- MODULE Fleet -------------------------------
(***************************************************************************)
(* The fleet of one iteration study: the resume-safe stage/run/archive     *)
(* driver with one thread per host (orchestrate.py, orchestrate300.py),    *)
(* the scripts it sends to the hosts, the bucket, the watcher that         *)
(* normalizes verified archives and analyses when all are in (watch.py,    *)
(* watch300.py, normalize.py), the program that stops the last Linux host  *)
(* (finish_linux.py) and the one that destroys the stack (finalize.py,     *)
(* finalize300.py).  They share nothing but files and the hosts, and each  *)
(* may be anywhere when another acts.                                      *)
(*                                                                         *)
(* Evidence is abstracted to its completeness: an archive is "whole" when  *)
(* every planned slot of both cohorts is in it, "composites" when only the *)
(* primitives' collector ended early, "cut" when the other one did. Where  *)
(* a collector was still at work (or had not begun) it is "ahead" when     *)
(* every composite was in it nevertheless, and otherwise "part". A digest  *)
(* is the content it was taken of.                                         *)
(***************************************************************************)
EXTENDS Integers, FiniteSets, Sequences

CONSTANT
    Fleets  \* the fleets explored: the hosts of fleet.json, those of them that
            \* run Linux, the Linux host finish_linux.py stops (H10), and two
            \* bounds: how often the driver is started; how often it is stopped,
            \* a call or a script fails, or a collector ends early

ASSUME FleetAssumption ==
    \A f \in Fleets : /\ f.linux \subseteq f.hosts /\ f.last \in f.linux
                      /\ f.starts \in Nat \ {0} /\ f.faults \in Nat

VARIABLES
    fleet,      \* the fleet of this study
    up,         \* the driver process runs
    starts,     \* how often it was started
    faults,     \* failures so far
    pc,         \* host -> where the driver's thread for it is
    phase,      \* host -> the phase that thread is in
    meta,       \* host -> phase -> the command of its command.json, 0: no file
    lost,       \* host -> phase -> commands sent whose id never reached disk
    cmds,       \* host -> the commands sent to it, with their progress
    power,      \* host -> "on", "stopped" or "gone" (destroyed)
    evid,       \* host -> cohort -> state of its collection
    disk,       \* host -> what evidence-final.tar.gz and its digest are of
    bucket,     \* host -> [tar, sum] in the bucket
    local,      \* host -> [tar, receipt] in BASE/archives
    norm,       \* host -> content its verification file was made from
    watch,      \* [at, new, todo, cur]: the watcher's loop
    seen,       \* host -> the receipt's digest the watcher has noted
    finish,     \* finish_linux.py: "wait", "stopped"
    final       \* finalize.py: "wait", "checked", "destroying", "destroyed", "failed"

driver == <<fleet, up, starts, pc, phase, meta, lost>>
remote == <<cmds, evid, disk, bucket>>
desk   == <<norm, watch, seen>>
vars   == <<driver, remote, power, local, desk, finish, final, faults>>

Hosts == fleet.hosts

none == "none"
Phases == {"stage", "run", "archive"}
Cohorts == {"primitives", "composites"}

----------------------------------------------------------------------------
(* The driver's threads.                                                   *)

After == [stage |-> "run", run |-> "archive"]

FirstStep == [stage |-> "staging", run |-> "primitives", archive |-> "tar"]

InProgress(c) == c.at \notin {"Success", "Failed"}

Thread(h, from) == up /\ pc[h] = from

Go(h, to) == pc' = [pc EXCEPT ![h] = to]

Fault == faults < fleet.faults /\ faults' = faults + 1
Fine  == UNCHANGED faults

\* An hour without an answer.
GivesUp_Never(h) == FALSE  \* mutation: a stopped host is waited for
GivesUp(h) == power[h] # "on"

\* A host answers the readiness probe, or the driver gives up on it.  Every
\* start of the driver asks again, also for a host whose archive is verified.
Ready(h) ==
    /\ Thread(h, "ready")
    /\ \/ power[h] = "on" /\ Go(h, "phase") /\ Fine
       \/ power[h] = "on" /\ Go(h, "error") /\ Fault
       \/ GivesUp(h) /\ Go(h, "error") /\ Fine
    /\ UNCHANGED <<fleet, up, starts, phase, meta, lost, remote, power, local, desk, finish, final>>

\* send-command: accepted and answered, accepted with the answer lost, or
\* refused.  The last two raise, and the thread ends.
Send(h) ==
    /\ Thread(h, "phase")
    /\ meta[h][phase[h]] = 0
    /\ \/ /\ power[h] = "on"
          /\ cmds' = [cmds EXCEPT ![h] = Append(@, [phase |-> phase[h],
                                                    at |-> FirstStep[phase[h]]])]
          /\ \/ Go(h, "record") /\ UNCHANGED lost /\ Fine
             \/ Go(h, "error") /\ lost' = [lost EXCEPT ![h][phase[h]] = @ + 1] /\ Fault
       \/ Go(h, "error") /\ UNCHANGED <<cmds, lost>>
          /\ IF power[h] = "on" THEN Fault ELSE Fine
    /\ UNCHANGED <<fleet, up, starts, phase, meta, evid, disk, bucket, power, local,
                   desk, finish, final>>

\* Only now is the command's id on disk.
Record_Forgotten(h) ==  \* mutation: the id is not written
    /\ Thread(h, "record")
    /\ Go(h, "phase")
    /\ UNCHANGED <<fleet, up, starts, phase, meta, lost, remote, power, local, desk, finish, final, faults>>
Record(h) ==
    /\ Thread(h, "record")
    /\ meta' = [meta EXCEPT ![h][phase[h]] = Len(cmds[h])]
    /\ Go(h, "phase")
    /\ UNCHANGED <<fleet, up, starts, phase, lost, remote, power, local, desk, finish, final, faults>>

Settled(h) == meta[h][phase[h]] # 0 /\ ~InProgress(cmds[h][meta[h][phase[h]]])

Succeeded_Any(h) == TRUE  \* mutation: a failed phase counts as done
Succeeded(h) == cmds[h][meta[h][phase[h]]].at = "Success"

\* With command.json there, written now or by an earlier start, its command is
\* followed, whatever became of it.  The first status that is not Pending,
\* InProgress or Delayed ends the wait.
Poll(h) ==
    /\ Thread(h, "phase")
    /\ Settled(h)
    /\ IF ~Succeeded(h) THEN Go(h, "error") /\ UNCHANGED phase
       ELSE IF phase[h] = "archive"
            THEN Go(h, "tar") /\ UNCHANGED phase
            ELSE UNCHANGED pc /\ phase' = [phase EXCEPT ![h] = After[@]]
    /\ UNCHANGED <<fleet, up, starts, meta, lost, remote, power, local, desk, finish, final, faults>>

\* Two downloads, each whole or not at all; a failing one raises.
Fetched(h, file) ==
    /\ power[h] # "gone" /\ bucket[h][file] # none
    /\ Fine

NotFetched(h) ==
    /\ Go(h, "error") /\ UNCHANGED local
    /\ IF power[h] # "gone" THEN Fault ELSE Fine

FetchTar(h) ==
    /\ Thread(h, "tar")
    /\ \/ /\ Fetched(h, "tar")
          /\ local' = [local EXCEPT ![h].tar = bucket[h].tar]
          /\ Go(h, "sum")
       \/ NotFetched(h)
    /\ UNCHANGED <<fleet, up, starts, phase, meta, lost, remote, power, desk, finish, final>>

Matches(h) == local[h].tar = bucket[h].sum

\* The downloaded archive against the downloaded digest; a receipt where they
\* agree.
FetchSum(h) ==
    /\ Thread(h, "sum")
    /\ \/ /\ Fetched(h, "sum") /\ Matches(h)
          /\ local' = [local EXCEPT ![h].receipt = local[h].tar]
          /\ Go(h, "verified")
       \/ /\ Fetched(h, "sum") /\ ~Matches(h)
          /\ Go(h, "error") /\ UNCHANGED local
       \/ NotFetched(h)
    /\ UNCHANGED <<fleet, up, starts, phase, meta, lost, remote, power, desk, finish, final>>

\* The pool has joined every thread.
Joined ==
    /\ up /\ \A h \in Hosts : pc[h] \in {"verified", "error"}
    /\ up' = FALSE
    /\ UNCHANGED <<fleet, starts, pc, phase, meta, lost, remote, power, local, desk, finish, final, faults>>

\* The driver is stopped anywhere: an id not yet written is lost.
Stop ==
    /\ up /\ up' = FALSE /\ Fault
    /\ lost' = [h \in Hosts |-> [p \in Phases |->
                  lost[h][p] + IF pc[h] = "record" /\ phase[h] = p THEN 1 ELSE 0]]
    /\ pc' = [h \in Hosts |-> "off"]
    /\ UNCHANGED <<fleet, starts, phase, meta, remote, power, local, desk, finish, final>>

\* It is started again: main submits every host of the fleet.
Start ==
    /\ ~up /\ starts < fleet.starts
    /\ up' = TRUE /\ starts' = starts + 1
    /\ pc' = [h \in Hosts |-> "ready"]
    /\ phase' = [h \in Hosts |-> "stage"]
    /\ UNCHANGED <<fleet, meta, lost, remote, power, local, desk, finish, final, faults>>

----------------------------------------------------------------------------
(* The scripts on a host.  Nothing keeps two of them apart.                *)

Runs(h, i, at) == power[h] = "on" /\ i \in DOMAIN cmds[h] /\ cmds[h][i].at = at

Move(h, i, to) == cmds' = [cmds EXCEPT ![h][i].at = to]
Goes(h, i, to) == Move(h, i, to) /\ Fine
Fails(h, i)    == Move(h, i, "Failed") /\ Fault

\* `set -eu`: the staging script can fail.
Stage(h, i) ==
    /\ Runs(h, i, "staging")
    /\ Goes(h, i, "Success") \/ Fails(h, i)
    /\ UNCHANGED <<driver, evid, disk, bucket, power, local, desk, finish, final>>

\* So can what comes before a collection: the image, the collector's preflight.
Prologue(h, i) ==
    /\ Runs(h, i, "primitives")
    /\ Fails(h, i)
    /\ UNCHANGED <<driver, evid, disk, bucket, power, local, desk, finish, final>>

Busy == [primitives |-> "collecting", composites |-> "measuring"]

Following(cohort) == IF cohort = "primitives" THEN "composites" ELSE "Success"

\* A collector begins by making its output folder; where another script has
\* made it, the collector dies and `set +e` goes on to the next.
Collect(h, i, cohort) ==
    /\ Runs(h, i, cohort)
    /\ IF evid[h][cohort] = none
       THEN /\ evid' = [evid EXCEPT ![h][cohort] = "running"]
            /\ Move(h, i, Busy[cohort])
       ELSE Move(h, i, Following(cohort)) /\ UNCHANGED evid
    /\ UNCHANGED <<driver, disk, bucket, power, local, desk, finish, final, faults>>

\* It ends with every slot recorded (what it writes after the last adds nothing
\* that is counted) or, on an error it does not handle, before.
\* Its exit status is written to a file; the script succeeds in any case.
Collected(h, i, cohort) ==
    /\ Runs(h, i, Busy[cohort])
    /\ \/ evid' = [evid EXCEPT ![h][cohort] = "whole"] /\ Fine
       \/ evid' = [evid EXCEPT ![h][cohort] = "cut"] /\ Fault
    /\ Move(h, i, Following(cohort))
    /\ UNCHANGED <<driver, disk, bucket, power, local, desk, finish, final>>

Unsettled == {"part", "ahead"}

Content(e) ==
    IF \E c \in Cohorts : e[c] \in {none, "running"}
    THEN IF e.composites = "whole" THEN "ahead" ELSE "part"
    ELSE IF e.composites = "cut" THEN "cut"
    ELSE IF e.primitives = "cut" THEN "composites" ELSE "whole"

\* tar of the evidence as it is, and its digest; of files that change meanwhile
\* tar may fail.
Tar(h, i) ==
    /\ Runs(h, i, "tar")
    /\ \/ /\ disk' = [disk EXCEPT ![h] = Content(evid[h])]
          /\ Goes(h, i, "put-tar")
       \/ Fails(h, i) /\ UNCHANGED disk
    /\ UNCHANGED <<driver, evid, bucket, power, local, desk, finish, final>>

Put(h, i, at, file, to) ==
    /\ Runs(h, i, at)
    /\ \/ bucket' = [bucket EXCEPT ![h][file] = disk[h]] /\ Goes(h, i, to)
       \/ Fails(h, i) /\ UNCHANGED bucket
    /\ UNCHANGED <<driver, evid, disk, power, local, desk, finish, final>>

\* What a stopped host was doing is reported as failed when its time is over.
Expire(h, i) ==
    /\ power[h] # "on" /\ i \in DOMAIN cmds[h] /\ InProgress(cmds[h][i])
    /\ Move(h, i, "Failed")
    /\ UNCHANGED <<driver, evid, disk, bucket, power, local, desk, finish, final, faults>>

HostStep(h, i) ==
    \/ Stage(h, i) \/ Prologue(h, i) \/ Tar(h, i) \/ Expire(h, i)
    \/ Put(h, i, "put-tar", "tar", "put-sum") \/ Put(h, i, "put-sum", "sum", "Success")
    \/ \E c \in Cohorts : Collect(h, i, c) \/ Collected(h, i, c)

----------------------------------------------------------------------------
(* The watcher, with the normalizer it runs.                               *)

Receipts == {h \in Hosts : local[h].receipt # none}

New == {h \in Receipts : seen[h] # local[h].receipt}

\* Both counts of a host are exact.
Exact_Present(h) == norm[h] # none  \* mutation: the counts are not compared
Exact(h) == norm[h] = "whole"

\* With every host seen the counts decide: analysis, or watch.py goes on waiting
\* and watch300.py gives up.
Gates(noted) ==
    IF \E h \in Hosts : noted[h] = none THEN {"scan"}
    ELSE IF \A h \in Hosts : Exact(h) THEN {"analysed"} ELSE {"scan", "failed"}

Scan ==
    /\ watch.at = "scan"
    /\ \/ /\ New # {}
          /\ watch' = [watch EXCEPT !.at = "normalize", !.new = New,
                                    !.todo = {h \in Hosts : local[h].tar # none}]
       \/ /\ New = {}
          /\ \E at \in Gates(seen) : watch' = [watch EXCEPT !.at = at]
    /\ UNCHANGED <<driver, remote, power, local, norm, seen, finish, final, faults>>

\* A host with a verification file is never done again, one without a receipt
\* not yet.
Skipped(h) == norm[h] # none \/ local[h].receipt = none

\* The archive's digest against the receipt; anything else ends the watcher.
Assure(h) ==
    /\ watch.at = "normalize" /\ h \in watch.todo
    /\ watch' = [watch EXCEPT !.todo = @ \ {h},
                              !.cur = IF Skipped(h) THEN none ELSE h,
                              !.at = IF Skipped(h) THEN @
                                     ELSE IF local[h].tar = local[h].receipt
                                          THEN "read" ELSE "failed"]
    /\ UNCHANGED <<driver, remote, power, local, norm, seen, finish, final, faults>>

\* The evidence is read: rows, raw files and hashes are checked one by one, and
\* files written to while they were archived need not pass.
Normalize ==
    /\ watch.at = "read"
    /\ LET h == watch.cur IN
       \/ /\ norm' = [norm EXCEPT ![h] = local[h].tar]
          /\ watch' = [watch EXCEPT !.at = "normalize", !.cur = none]
       \/ /\ local[h].tar \in Unsettled
          /\ watch' = [watch EXCEPT !.at = "failed", !.cur = none]
          /\ UNCHANGED norm
    /\ UNCHANGED <<driver, remote, power, local, seen, finish, final, faults>>

\* The receipts are read again here, after the normalizer has run.
Noted ==
    /\ watch.at = "normalize" /\ watch.todo = {}
    /\ seen' = [h \in Hosts |-> IF h \in watch.new THEN local[h].receipt ELSE seen[h]]
    /\ \E at \in Gates(seen') : watch' = [watch EXCEPT !.at = at, !.new = {}]
    /\ UNCHANGED <<driver, remote, power, local, norm, finish, final, faults>>

----------------------------------------------------------------------------
(* The programs that give hosts up.                                        *)

\* Here the composites alone are counted, whatever the primitives' collector
\* does meanwhile.
CompositesExact(h) == norm[h] \in {"whole", "composites", "ahead"}

LinuxDone == \A h \in fleet.linux : CompositesExact(h)

StopLast ==
    /\ finish = "wait" /\ LinuxDone
    /\ finish' = "stopped"
    /\ power' = [power EXCEPT ![fleet.last] = IF @ = "on" THEN "stopped" ELSE @]
    /\ UNCHANGED <<driver, remote, local, desk, final, faults>>

\* Twenty receipts, twenty verification files, and each archive against its
\* receipt, once the watcher has said that the analysis is ready;
Accounted(h) == norm[h] # none /\ local[h].receipt # none
                /\ local[h].tar = local[h].receipt

\* and, in finalize300.py, against the digest in the bucket.
BucketAgrees(h) == bucket[h].sum = local[h].receipt

Confirm ==
    /\ final = "wait" /\ watch.at = "analysed"
    /\ \/ final' = IF \A h \in Hosts : Accounted(h) THEN "checked" ELSE "failed"
       \/ final' = "failed" /\ \E h \in Hosts : ~BucketAgrees(h)
    /\ UNCHANGED <<driver, remote, power, local, desk, finish, faults>>

Destroy ==
    /\ final = "checked"
    /\ final' = "destroying"
    /\ power' = [h \in Hosts |-> "gone"]
    /\ UNCHANGED <<driver, remote, local, desk, finish, faults>>

\* Five minutes later the instances have to be seen terminated.
Terminated ==
    /\ final = "destroying"
    /\ final' \in {"destroyed", "failed"}
    /\ UNCHANGED <<driver, remote, power, local, desk, finish, faults>>

----------------------------------------------------------------------------
Init ==
    /\ fleet \in Fleets
    /\ up = TRUE /\ starts = 1 /\ faults = 0
    /\ pc = [h \in Hosts |-> "ready"]
    /\ phase = [h \in Hosts |-> "stage"]
    /\ meta = [h \in Hosts |-> [p \in Phases |-> 0]]
    /\ lost = [h \in Hosts |-> [p \in Phases |-> 0]]
    /\ cmds = [h \in Hosts |-> <<>>]
    /\ power = [h \in Hosts |-> "on"]
    /\ evid = [h \in Hosts |-> [c \in Cohorts |-> none]]
    /\ disk = [h \in Hosts |-> none]
    /\ bucket = [h \in Hosts |-> [tar |-> none, sum |-> none]]
    /\ local = [h \in Hosts |-> [tar |-> none, receipt |-> none]]
    /\ norm = [h \in Hosts |-> none]
    /\ watch = [at |-> "scan", new |-> {}, todo |-> {}, cur |-> none]
    /\ seen = [h \in Hosts |-> none]
    /\ finish = "wait" /\ final = "wait"

ThreadStep(h) ==
    \/ Ready(h) \/ Send(h) \/ Record(h) \/ Poll(h)
    \/ FetchTar(h) \/ FetchSum(h)

WatchStep == Scan \/ Normalize \/ Noted \/ \E h \in Hosts : Assure(h)

Commands(h) == 1 .. Len(cmds[h])

Next ==
    \/ \E h \in Hosts : ThreadStep(h)
    \/ \E h \in Hosts : \E i \in Commands(h) : HostStep(h, i)
    \/ Joined \/ Stop \/ Start \/ WatchStep \/ StopLast \/ Confirm \/ Destroy
    \/ Terminated

Spec == Init /\ [][Next]_vars

FleetStep ==
    Joined \/ \E h \in Hosts :
                 ThreadStep(h) \/ \E i \in Commands(h) : HostStep(h, i)

\* While something of the driver or of the scripts can go on, something does (a
\* script is ended by its 48 hour limit, a poll that fails is repeated), and so
\* does the watcher.  Nobody has to stop, restart or finish anything.
FairSpec == Spec /\ WF_vars(FleetStep) /\ WF_vars(WatchStep)

----------------------------------------------------------------------------
(* Properties.                                                             *)

Sent(h, p) == Cardinality({i \in DOMAIN cmds[h] : cmds[h][i].phase = p})

\* "Resume-safe" (orchestrate.py): a phase reaches a host a second time only
\* where the id of an earlier command never reached the disk.
SentOnce == \A h \in Hosts, p \in Phases : Sent(h, p) <= 1 + lost[h][p]

\* A receipt says more than that two digests agree: unless a phase went out
\* twice, the archive it names was taken when both collectors had ended.
VerifiedIsComplete ==
    \A h \in Hosts :
        /\ local[h].receipt # none
        /\ \A p \in Phases : lost[h][p] = 0
        => local[h].receipt = Content(evid[h]) /\ local[h].receipt \notin Unsettled

\* A host is stopped only when every one of its composites is in what has been
\* normalized (its primitives may still be measured), the analysis made and the
\* stack destroyed only when the whole of the evidence has been normalized from a
\* receipted archive, whatever was sent twice, archived too early or downloaded
\* again.
KeptBeforeGone ==
    /\ \A h \in Hosts : power[h] # "on" => norm[h] \in {"whole", "composites", "ahead"}
    /\ watch.at = "analysed" => \A h \in Hosts : norm[h] = "whole"
    /\ final \in {"destroying", "destroyed"} =>
         \A h \in Hosts : local[h].receipt = "whole" /\ local[h].tar = "whole"

\* Every run of the driver comes to its end, hosts that were stopped or
\* destroyed meanwhile included; and when every host is normalized whole, the
\* watcher analyses or says that it cannot.
Settles ==
    <>[](~up /\ ((\A h \in Hosts : Exact(h)) => watch.at \in {"analysed", "failed"}))
=============================================================================
