# telemetry-lab in TLA+

A model of the parts of telemetry-lab whose correctness depends on the order in
which things happen: the system-call tracers `tmon-linux` and `tmon-windows`, the
campaign engine that repeats invalid measurements, the adapters and harnesses that
take one measurement, the fleet driver that collects a study from many hosts, and the
programs that check the evidence before it is counted. The modules are written from
the source under `src/`; line numbers below are lines of those files.

## Inventory

| Component | State it keeps | Operations | What must be true of it |
| --- | --- | --- | --- |
| **tmon-linux, kernel side** (`tmon-linux/bpf/tmon.bpf.c`) | hash maps `traced` and `decoding`, ring `events`, counter `dropped_events` | one program per tracepoint: sys_enter, sys_exit, fork, exec, exit | the whole tree of the target is recorded and nothing else; a refused record is counted; pointers are decoded for the call they belong to |
| **tmon-linux, engine** (`src/core/engine.cpp`, `event_decode.cpp`) | per-thread stacks of pending enters, counts, `stop`, the child's state | the ring callback; `Run()`: spawn, seed, continue, poll, reap, kill, flush, summary | no record is lost or doubled between ring and sink; a return value goes to its own call; tmon ends, and a run without errors leaves no target behind |
| tmon-linux command line and formatters | - | parse options, print events | text, unit-tested |
| **campaign engine** (`scripts/experiment/engine.py`) | queue of slots, attempts, accepted and unresolved slots; on disk folders, `attempt.json`, `attempts.jsonl`, `accepted.jsonl`, `summary.json` | `campaign()`: group, prepare, mark, execute, file, retry, summarize | one accepted measurement per slot whatever happens; bounded and linked replacements; an honest summary |
| **Linux composites**: harness `linux/harness/run.py`, adapters `composites.py`, `batch_composites.py`, pilot `composites-linux.py`, `collector_guard.py`, digests in `experiment/run.py` | containers, collector health, journal cursor, `results.jsonl`, batch folders | ready the collector, prepare containers, run programs, drain, score, clean up, resume | a row says valid only if the collector was healthy throughout and names its own program's alerts; nothing runs on into the next measurement; resume repeats no program |
| **container fixtures** (`linux/harness/fixtures/*.py`) | service processes, FIFO, receipt files | prepare services, serve one connection, enter by Apache or Bun | success is reported only for an operation that was carried out, and not missed for one that was |
| **Windows composites**: `windows/harness/analyze.py`, `run.ps1`, the adapters' Windows halves | Sysmon's log, alerts by record, attempts with their process numbers | launch, attribute, score | an alert is credited to the program that caused it and to no other |
| tmon-windows (`EtwEngine.cs`) | maps thread to process and processor to thread, traced set, summary; two threads | ETW handlers on the consumer thread, `Run()` on the main thread | calls go to the right process; the sink is ended once, after the last event |
| tap (`tap/internal`, `tap/cmd`) | executions, normalized events, per-run profiles | parse, normalize, merge, compare, rank test | incomplete runs never enter the analysis; statistics are what they say |
| **iteration-study orchestration** (`orchestrate*.py`, `watch*.py`, `finish_linux.py`, `finalize*.py`) | `command.json` per phase, archives, receipts, verification files; commands on the hosts; the bucket | send, poll, archive, download, verify; normalize, analyse; stop, destroy | a phase runs once; a receipt means complete evidence; a host is given up only when its evidence is safe |
| **evidence checks** (`pilot/primitives.py`, `experiment/primitives.py`, `verify-evidence.py`, `pilot/analyze.py`, `normalize.py`, `audit.py`, `composites-windows.ps1`) | raw files, rows, `health.json`, captures and replacements | collect, resume, replace, verify, count | only whole, unchanged measurements are counted, one per slot |
| coverage-expansion, substrate verifier, release scripts, lab environment, specimens, CI | - | single passes, packaging, infrastructure | - |

How they interact: an adapter starts `tmon` (or Falco, Sysmon) around one specimen
program; tmon's kernel side passes records through the ring to the engine, which
writes JSONL that ends in a summary with the drop counter; the adapter classifies
the JSONL by that summary; the campaign engine files the attempt as accepted or
suspect and retries; `tap normalize` reads what was accepted, again gated by the
drop counter; `tap analyze` compares runs. So the chain rests on the drop counter
and the pairing in tmon, and on one accepted attempt per slot in the engine: the
two cores that were modelled first. The older studies (pilot, iteration) use the same
harnesses without that engine: a driver per host, archives in a bucket, and checks of
the evidence afterwards; watcher, driver and finishing programs share nothing but
files.

What is hard there: tracepoints of many tasks run beside each other and beside the
pump; the target dies between a poll and the look at it; ids are reused; the ring
and the maps are bounded; a cap stops the run in the middle of a poll; Ctrl-C, a
full disk or a power cut comes between any two statements of the campaign loop.
Falco writes alerts late and may drop them; a timeout kills a client while the program
runs on; Sysmon writes an operation under the identity of a process that is gone; a
driver is killed between a call to AWS and the note of its answer.
`PROJECT.json` lists each hazard at its line.

## Modules

**TmonKernel** - the tasks of the machine and the five BPF programs. A task is an
id; `mode`, `group` and `killed` are the kernel's, `traced`, `decoding`, `ring` and
`dropped` the program's. One action per program (`SysEnter`, `SysExit`, `Fork`,
`Exec`, `Exit`), each the whole handler with its `is_traced` early return, and
three external ones (`Reap`, `Release`, `Spawn`) for parents and other processes.
`Fork` looks up and inserts *thread* ids, because that is what the tracepoint's
`parent_pid` and `child_pid` are (`tmon.bpf.c:296-304`); `Untrace` is the deletion
that only a leader's death does (`:365`). `Insert` fails silently on a full map.

**TmonEngine** - extends TmonKernel with `engine.cpp`. `phase` is the program
counter of `Run()`: `seed`, `release`, `poll`, `check`, `kill`, `reap`, `flush`,
`done`; `ended` says by which way out. Two of these come before the loop and leave the
stopped child behind, `WaitFails` and `SeedFails`; `CallsMayFail` admits them and
`PollFails`. `HandleRingEvent` takes one record (`HandleEnter`, `HandleExit`,
`HandleForkExec`, `HandleTaskExit` are the cases of its switch), so kernel steps
interleave with a poll; `PollReturns`, `PollInterrupted`, `PollFails` are the ends of
a poll; `CheckReaps`, `CheckAlive`, `CheckGone` the code after it, `NextTurn` the
loop condition; `KillTarget`, `ReapKilled`, `FlushPending`, `Finish` the rest.

**CaptureLedger** - the abstract specification of tmon-linux: every tracepoint hit
is captured, refused or unseen, once and for ever; a captured one may be reported
once; refusals are counted; nothing is reported after the end. `KeepsTheBooks` in
TmonEngine is the refinement.

**Campaign** - one call of `campaign()`. `pc` is the place in the function, one
action per statement that writes memory or disk; memory and disk are separate, so
that a crash keeps the disk only. `Execute` and `Raise` are the adapter: a class per
attempt, MeasurementError, or any other exception. `Interrupt` is an exception
outside the inner `try`, `Crash` the end of the process.

**CampaignContract** - what a slot is promised: at most `MaxRetries + 1` tries, taken
or dropped once and only after a try, nothing afterwards. `HonoursContract` is the
refinement.

**EtwEngine** - tmon-windows: `EtwEngine.cs`. Three groups of actions: the machine
(processors, threads, processes that log events; external), the consumer thread (one
action per handler of `WireHandlers`, over the head of the stream), and `Run()` with
`Spawn()`, one action per statement the consumer can see. An event is handled long
after it was logged, so the maps the consumer keeps (`cpuToTid`, `threadToPid`,
`traced`) follow the stream, while the three seeds of `Spawn` take effect at once.
`Emit` may throw, which ends the consumer only; `Join` may time out.

**LinuxCapture** - one Linux composite capture under each of its four drivers: the
campaign's single and batched adapters, the pilot's collector (with `--resume`) and the
harness's own `main`. `pc` is the place in the driver: `pick` (grouping, batch folder),
`check`/`setup`/`settling` (`prepare`, `collector_guard.ensure_ready`), `before`,
`cursor`, `box`, `native`, `wait`, `drain`, `log`, `score`, `cleanup` (the `finally`
blocks), `file`. Single and shared captures go through these in different orders, as
the sources do: a single one prepares its container first and waits until the
fixture's alerts are written, a shared one opens the capture and then tells fixture
from program by event time. `raised` is the exception on its way through `finally`.
`boxes` are the containers of which the driver has the id, `stray` those it has none
of, because their `docker create` timed out (`BoxFails`). `NotNoted` is a native outcome
that cannot be written, `WriteFails` any later file of the evidence, `NoteFails` the note
of a failed removal; `noted` says which outcomes are on disk.
The machine beside it delivers alerts late, drops one, loses Falco, changes a released
file, or kills the pilot.

**Fleet** - the study's driver (`ThreadStep`, one thread per host), the scripts it
sends (`HostStep`, nothing keeps two apart), the bucket, the watcher with the
normalizer (`WatchStep`), `finish_linux.py` (`StopLast`) and `finalize*.py`
(`Confirm`, `Destroy`, `Terminated`). One module stands for `orchestrate.py` and
`orchestrate300.py`, `watch.py` and `watch300.py`; where they differ the step has both
outcomes (`Gates`, `Confirm`). Evidence and archives are abstracted to what they hold
(`Content`): "ahead" is an archive with every composite in it, taken while the
primitives were still measured; `finish_linux.py` takes it for complete.

**WindowsCapture** - the programs of a capture and their children under process
numbers that Windows hands on, the records Sysmon writes late and perhaps under a
wrong GUID (external), and `analyze.py` with the adapters as operators over the log. A
record is a start, one of the late kinds (network, DNS, thread and access: events 3, 22,
8 and 10), among which alone the analysis looks for wrong GUIDs, or any other operation.
`Outcome` is one row, `Single` and `Batch` are the statuses the adapters make.

**Evidence** - rows and raw files of one cohort of one host in the pilot, the
iteration study or a campaign: how they are collected (`Execute`, `Collect`,
`ScoreSlot`, `AppendRow`, `First`, `Replace`, `Resume`), what may happen to them
(`Die`, `Alter`), and the programs that check and count (`Verify`, `CountPrimitives`,
`CountLinux`, `CountComposites`).

**Fixtures** - the inside of a container: `prepare.py`, `services.py`, the Bun
installation, Apache, `invoke.py` and, as external actions, the program and its tool.
Connections are sequences of tokens; files are created before they are written.

**MCTmon, MCCampaign, MCEtw, MCStudy** - instances for TLC. MCStudy puts Fleet,
WindowsCapture, Evidence and Fixtures side by side, one of them moving in a behaviour:
they share no state in the code. **TmonProof, CampaignProof, CaptureProof, WindowsProof,
EtwProof, EvidenceProof, FixturesProof, StudyProof** - proofs. MCStudy instantiates its
parts with their proofs, so that StudyProof can cite them.

History variables, which the program does not have: `clock`, `call`, `family`, `used`,
`lost`, `missed`, `alien`, `ended` and the fields `owner`, `of`, `tree` of a record in
tmon; `ran` in the campaign; `hit`, `impure`, `unsaid`, `ran`, `reran` in LinuxCapture;
`lost` in Fleet; `did`, `slow` in Fixtures; the field `who` of a Windows record. They
name what the properties speak about: the n-th tracepoint hit is named n, and `missed`
holds those the family passed unrecorded.

Definitions named `X_Y`, commented "mutation", are plausible errors in `X`; nothing
uses them. Each is paired in `PROJECT.json` with a property that it breaks.

### Abstractions

* System call numbers, arguments, paths, names and errno are left out. `ptr` says
  whether a call has a pointer the program decodes; the decoded value is named by
  the call whose pointers were read.
* The ring holds `RingCap` records; the real one holds bytes. `scratch_get` never
  fails (a per-processor array of one entry).
* libbpf, as `engine.cpp` uses it: a poll handles every record it finds, a positive
  return of the callback does not stop it, and -EINTR comes only out of a wait.
* A call is entered, then left or died in; `Fork` and `Exec` happen inside one. A
  forked task, and the target when it is continued, first leaves the call it was
  created or stopped in. At most one process of others runs at a time.
* Campaign: `json` contents, timestamps and the per-cell counts of the summary are
  left out; the `measurement_invoked` marks of one batch are one step.
* LinuxCapture: the pauses before and after a program (2 and 3 s) are long enough for
  every alert caused so far to be written (`Flushed`, `Drained`); all slots of the plan
  may share a capture. An alert is told apart by its container and by fixture or
  program. The coverage study's `functional_only` runs have no collector and are left
  out.
* Fleet: the `ready` probe stands for the readiness phases of Windows hosts; `tar` and
  its digest are one step; the calls of a host's thread succeed, fail or lose their
  answer.
* WindowsCapture: two programs with one number are further apart than the one second of
  the window; Sysmon writes every record within the drain of 30 s. Positions in the
  log are time.
* Evidence: a file is its number of records, whether its last line is cut, and its
  summary; one batch of Linux composites; slots are not ordered; `results.jsonl` has
  whole lines.
* Fixtures: one connection; the HTTP and the payload peer are one; controls, which talk
  to nobody, are left out; so are the services whose failure nobody but `prepare.py`
  could report (rsync, sshd).

## Runs and bounds

| Run | Question | Bounds |
| --- | --- | --- |
| `TmonTree` | is the tree followed, and only the tree, when programs have no threads but ids are reused and strangers run? | 3 ids, ring of 2, map of 3, no enter, fork or exec after time 4, with and without returns |
| `TmonThreads` | do returns, pointers and leftovers stay with their calls and threads? does the pump keep the ledger? | 3 ids, ring of 2, time 5, threads, no reuse |
| `TmonModes` | does tmon end, in every configuration and when its calls fail, and what is left of the target then? | 3 ids, time 3, five configurations, fair |
| `CampaignRetries` | all of the campaign's properties | 4 slots (keys a,a,a,b), batches of 2, 1 retry, fair |
| `LinuxCapture` | what is a valid Linux row worth, what survives a failure, what is left behind? | 4 drivers, 3 slots, batches of 2, 2 tries, 1 fault, fair |
| `Study` | the fleet; Windows attribution; evidence; fixtures | fleets of 2 hosts (2 starts, 1 fault) and of 1 host (4 starts, 2 faults), fair; a single Windows program, and a batch of 2, in 3 processes on 2 numbers with 1 operation and 1 failure; 2 slots of evidence and 1 mishap; 5 fixture cases |
| `TmonCleanRun` | violated: no drops means complete (README.md:153) | as TmonThreads |
| `TmonUnrelated` | violated: nothing of unrelated processes is copied (README.md:11) | threads, reuse and strangers |
| `EtwTree` | is what the consumer reports the tree's, complete, and given to its own thread and key? | 3 processes, 3 threads, 1 processor, 9 events, buffers of 2, 1 system call or input besides named keys, one outsider at a time |
| `EtwReuse` | violated: only the tree (tmon-windows/README.md:5) | the target's id was another process's before; 4 events, buffers of 6 |
| `EtwEnd` | violated: End comes last (IEventSink.cs:28) | as EtwTree, 6 events |
| `CampaignUnstarted` | violated: attempted slots are not unstarted (engine.py:127-128) | as CampaignRetries |

Three ids are a target with two children, a child with a thread, or a target, a child
and a stranger: every pair of roles that a program relates. A ring of two is full after
two records of one task, and lets a third be refused while two of different threads
wait. In `TmonTree` the map has room for every id, so its last slot is used (the
`Insert_OneShort` mutation finds it), but it never refuses one; a map that is too small
breaks `FollowsTree`, which is the code's limit of 8192 tasks and hazard 5. `MaxClock`
stops enters, forks and execs only: whatever was begun can always end. Four slots with
three of one key give a full batch, a batch cut short by the key, a batch in which both
members are replaced, and a plan behind it.

In `LinuxCapture` three slots and batches of two give a batch, a rest, and replacements
of one or both; one fault at any statement comes on top of the calls that may fail
without counting (`docker`, `journalctl`, the restart of Falco, a file of the evidence
that cannot be written, a program that hangs), so two things can go wrong together. The
faults that count are a drop, a crash of Falco, a changed file, a kill, a create that
times out, an outcome and a clean-up note that cannot be written. Two hosts are needed for the
watcher to see one receipt while it normalizes another and for the stop of the last
Linux host; one host with two failures and four starts lets a phase be sent twice and
the driver come back to a host that was stopped or destroyed. A Windows program with a
child and a stranger on two numbers is the smallest log in which a number is handed on
within a capture; the batch's second program is that stranger as well. `Study` explores
the parts in one run; each was also checked alone, with every action taken.

Nine events let a child start, run, stop and give its process id to an outsider that
stops in turn. Two in the buffers keep the consumer behind the seeds, the wait and
the stop. After the first loss nothing new happens (`MaxLost` = 0): what is reported
then is a guess by design, and only `EndSeesAll` speaks of it.

`CHECK_DEADLOCK FALSE`: tmon returns, a campaign ends or crashes, a driver ends, a
capture is judged, a count concludes.

### What the properties say

TmonEngine. `Accounted`: at every moment each hit is in the ring, pending, reported,
refused or unseen. `ReportedOnce`: none is in two of those places or reported twice, and
the counter is the number refused. `PairedWithOwnReturn`: without drops, a return value
belongs to the call it is reported with (without threads or without reuse: with both, a
leaked thread id brings back a process to a stack on which the enter of its former owner
waits). `DecodedFromOwnCall`: an exit record in the ring carries the pointers of the
call it ends, and what is reported those of the call whose return value it shows, or its
own where it shows none; after a drop that need not be the call of the enter, because
the exit is then given to an older one (checked with reuse without threads; threads and
reuse together admit a leaked thread id that meets a stale stash). `FollowsTree` and
`OnlyTheTree`: without threads, the family is recorded from its first tracepoint, and
nobody else. `TargetDrained`: a loop that ended because the target was gone left no
record of the target in the ring. `NoOrphan`: what each way out leaves. A loop that
ended by itself or at the cap leaves no target. A failed poll leaves it as it is and
sends it nothing; a failed first `waitpid` leaves it stopped and unharmed; a failed
seeding leaves it with a SIGKILL sent; none of the three waits for it. `Terminates`:
`Run()` returns once the target is dead, the cap reached or a call failed, if the
tracepoints of the tree fall silent some day. A descendant that goes on making calls
keeps the loop going, and no property says otherwise.

Campaign. `OneAcceptedPerSlot`, in the index and in the folder that tap reads;
`EvidenceFiled`: folders, ledger and index agree after any crash; `RetryChain`: a
replacement follows the invalid attempt it names; `RetryDiscipline`: batches hold only
first attempts of one key, and replacements come first; `DurableBeforeExecution`;
`SummaryHonest`: `complete` means an index line per slot and no
folder in progress, no count is negative; `Settles`.

EtwEngine. `OnlyTheTree`, `TreeComplete`, `AttributedToOwner`, `KeyFromSameThread`
hold while EventsLost is 0, however far the consumer is behind: no event of a process
that is not the target's tree is reported, none of the tree is passed over (except the
target's own start, when the consumer is faster than `Spawn`), a system call is given
to the thread that made it although the event names a processor only, and a registry
operation by handle to the key its thread named last, if no earlier thread had its id.
`EndSeesAll`: after a join that did not time out the sink's totals are those of what
it was given.

LinuxCapture. `ValidIsWitnessed`: a valid row reports an alert exactly when its own
program caused one, although alerts come late, are dropped or lost with the collector,
and neighbours share the capture. `NativeOutcomeKept`: a program that failed or hung is
never called a collector failure, whatever else failed meanwhile - except in a single
capture of a campaign whose `execution.json` could not be written. `FrozenWhenRun`: no
valid measurement of a campaign ran a changed file, also when it changed between check
and run. `CleanBeforeNext`: a campaign goes on only when every container whose id it has
is gone, and its program with it; excepted are those of single captures whose removal
failed and whose `cleanup-error.txt` could not be written either (`unsaid`). A stray
container may stay; no program was started in it. `PilotOnce`: kills and resumes start
no program twice. `Ends`.

Fleet. `SentOnce`: a phase is sent again only where the id of its command never reached
the disk. `VerifiedIsComplete`: unless a phase went out twice, a receipt names an
archive taken after both collectors had ended. `KeptBeforeGone`: a host is stopped only
when every composite is in what was normalized - its primitives may still be measured
then, where a phase went out twice - and nothing is analysed or destroyed before the
whole evidence is normalized from a receipted archive.
`FleetSettles`: every run of the driver ends, and on whole evidence the watcher
concludes. WindowsCapture. `ValidIsTrue`: a valid row misses no alert of its program
and, if every start was recorded, is credited with nobody else's - for the records of
the late kinds under whatever GUID, for the others where the GUID is their process's own
or none (`Checked`). Evidence.
`CountsAreWhole`: what is counted has a whole file or a healthy batch behind it, as far
as the study in question checks it; `NoSecondChance`: one row per slot, and a later
capture counts only where the first failed as a whole. Fixtures. `VerdictIsTrue`:
success is reported only for an operation that was carried out and received, the echo
of a command is not taken for its output, and no operation that was carried out in time
is reported as failed, except where the code reads a file that is being written.

### Fairness

tmon: `EngineNext` is weakly fair, it is scheduled. `PollReturns` is strongly fair: a
ring that is found empty again and again is some day found so without a signal in
between. A task of a process that was sent SIGKILL dies (`TaskExit` under `killed`).
Nothing else is asked of the target or its descendants: `Terminates` has the target's
end, the cap or a failure, and the silence of the tracepoints, as its premises.
The campaign's `Advance` is weakly fair; exceptions and crashes are not.
LinuxCapture: the driver's process and Falco's writing of alerts are weakly fair; faults
and resumes are not. Every wait of the driver has a timeout but one, the `docker exec
... test -e` of `run.py:134`, which is taken to answer. Fleet: while
something of the driver or of the hosts' scripts can go on, something does (a script is
ended by its 48 h limit; a failing poll is repeated, and `get-command-invocation` answers
again some day), and so does the watcher; nobody
has to stop, restart or finish anything. Fleet's two conditions are weak fairness of a
union, so no thread is promised its turn against another.

### Divergences found

1. `tmon.bpf.c:365`: when a leader thread exits first, its process leaves `traced`
   and its other threads are unseen with `dropped` 0.
2. `tmon.bpf.c:303`: thread ids enter `traced` and stay; a process that is given such
   an id is traced although it is unrelated.
3. `engine.py:119-134`: an executed slot whose attempt was not yet noted when the
   interrupt came is counted as unstarted.
4. `EtwEngine.cs:342-344`: the seeds run ahead of the stream; events of an earlier
   process with the target's id are reported as the target's, and its stop untraces
   the target.
5. `EtwEngine.cs:119`: after a join that timed out, events follow the sink's end.

Also seen, without a run: the cap is overshot by the rest of the poll and by the pending
enters (`engine.cpp:114, 241-243`); LIFO pairing reports calls in the order of their
exits, not in "kernel-emitted order" (`event_sink.hpp:31`); a capped run returns 0, not
the target's exit code (README.md:67); after a reuse or an orphaned thread `processes`
can count ids that are not tgids (`event_sink.hpp:20`); with threads and reuse a return
value can be given to the call of an earlier owner of its thread id (see the proof in
TmonProof). Once the child exists, `Run()` has three ways out that do not wait for it
(`engine.cpp:198-203`, `:207-214`, and `:222` with `:236`); after the last it returns 0
and calls the sink's End as after a complete run (`engine.hpp:19`).

Seen in the parts added since, as the sources read (no run: each is a limit that the
properties above name, not a claim of a document they break, or the document's sentence
is looser than the code):

* `linux/harness/run.py:165-172`, `composites.py`, the pilot: a timeout leaves the
  program running in its container until the container is removed; in a batch the next
  member starts beside it. The pilot ignores the return code of `docker rm`
  (`composites-linux.py:81-82`), and the harness's `main` notes "cleanup failed" and
  goes on. Only a campaign looks before it goes on, at the containers it has the ids of
  (`CleanBeforeNext`).
* `run.py:149`, `batch_composites.py:51-53`: when `docker create` times out its container
  may come to exist all the same; its id is in no list, so nothing removes it.
* `run.py:165-176`: the writes that "Persist native outcome" (`:173`) can fail
  themselves. The OSError reaches `composites.py:80`, finds no `execution.json`, and a
  program that failed or hung is a measurement failure and tried again. The same holds
  for the write of `cleanup-error.txt` (`:207`, `:210`): a container that was not removed
  then does not end the campaign.
* `composites.py`: a timeout of `prepare.py` is classified like a hanging program,
  because the command names the case.
* `orchestrate.py:25`: a stop between `send-command` and the write of its id, or a lost
  answer, sends the phase again on resume; two `run` scripts on one host then race for
  the output folders, and an archive can be taken while a collector still runs. A
  failed phase is never sent again.
* `normalize.py:105`: a verification file is never redone, so a second, better archive
  of a host changes nothing; `watch.py` then waits for ever where `watch300.py` gives
  up. `finish_linux.py:6` compares the composites only: after a phase that went out
  twice, H10 can be stopped while its primitives are still measured.
* `normalize.py` and `verify-evidence.py` ask for one summary in every primitive's
  file, invalid rows included: one that timed out ends the host's normalization.
* `windows/harness/analyze.py`: an operation of a *descendant* recorded without GUID is
  not seen as ambiguous; only the program's own number is looked at. `ValidIsTrue` is
  therefore about the program's own alerts when it speaks of misses. Stale GUIDs are
  looked for on events 3, 8, 10 and 22 only (`:80`, `:100`): a file or registry record
  that carries one is missed or credited without a sign of doubt.
* A campaign's `classify` (`experiment/primitives.py:10-26`) does not compare the
  number of event records with the summary's; the studies' checks do.
* `composites-windows.ps1` replaces a capture that ended with an error although some of
  its rows were valid; `pilot/analyze.py:169` then raises for the whole study.
* The pilot's checks do not compare a valid Linux row with the health of its batch;
  `normalize.py` does.
* `fixtures/services.py:25-26`: netcat's receipt is created, then written, with no
  acknowledgement, and the program checks it as soon as ncat has ended: it may find no
  receipt, or an empty one, after an operation that succeeded. `invoke.py:10-14` reads
  `npm-result.json` as soon as it exists. The shell's case, for which this was fixed
  (docs/linux67-coverage/README.md:22), is free of it.

## Proofs

TLAPS checks the proofs for every value of the constants that the assumptions of the
modules admit, which TLC evaluates on the runs: `KernelAssumption` and
`EngineAssumption` (any finite set of ids, any capacity of ring and maps, any set of
configurations), `CampaignAssumption` (any plan, retry limit, batch size and batch
key), `CaptureAssumption` (any plan, batch size, number of tries and of faults, any of
the four drivers), `FleetAssumption` (any set of fleets), `EtwAssumption` (any sets of
ids and keys, any size of the buffers). A theorem that needs more says so in its
statement. Three of the hypotheses are on constants: `NoneHasASecondChance` has finitely
many slots, `ValidRowsAreTrue` has plans in which a single capture runs one program
(`PlansAssumption`; the adapter makes no other), and `HarnessIsToldTheTruth` has cases
made of the peers and entries that the fixtures have (`Kinds`). The others are named
below. Every invariant was model-checked as an invariant before it was proved.

With these, every safety property that a passing run checks, action properties and
refinements included, is a theorem.

**TmonProof** has five parts, each with an invariant of its own.

*Types*, `TypeCorrect == Spec => []TypeOK`. Beyond the types of the variables,
`TypeOK` says that the ring is never over-full, that every id names at most one task
and that the histories stay within the times that have passed. It is not inductive:
`ReleaseTarget` sets the child's mode whatever it was, and if the child could have
died before, a task would run under an id that no process has. `ChildWaits` is the
strengthening: until `Run()` continues it, the child is where its own SIGSTOP left it,
because no tracepoint's task is a stopped one and `Exec` waits for the other threads
of a group. One lemma per action, `Observe` and `Overlook` factored out.

*Accounting*, `EverythingAccounted == Spec => []Accounted`. `KernelStepRecords`
says that a kernel step does one of three things to the books: it names one new time
and sends it to the ring or to `lost`, or it overlooks one task's tracepoint, or it
touches none of them. `HandledAccounts` says what the callback does with a record: by
its kind the time goes to a stack, or to the sink with the enter it completes, or to
the sink with all that the dying thread left over. A pending enter has two time
fields, and reporting it must not name a time that was in no place before: that is
`PendingOpen`, a pending enter has no return value yet. The rest is the arithmetic of
three sets: what leaves the ring is reported or waits, what leaves a stack is
reported (`StackReplaced`, `PoppedTimes`, `EmitReports`).

*The ledger*, `NothingReportedTwice == Spec => []ReportedOnce` and
`BooksKept == Spec => KeepsTheBooks`, the refinement. `Accounted` is a union; here the
places are shown disjoint. `Books` adds to the invariant of the accounting that no two
records of the ring, no two pending enters of any two threads and no two reports name
the same hit, that ring, stacks and reports have none in common, and that the counter
is the number of refusals. With it every step maps to a step of CaptureLedger or to a
stutter: a kernel step to `Capture`, `Refuse` or `Miss` of one time, the callback, the
flush and the summary to `Report` and `Close`.

*Pairs*, `ReturnsPaired == ASSUME ~Threads \/ ~ReuseIds PROVE Spec =>
[]PairedWithOwnReturn`. The stacks are behind the machine by the records in the ring.
`Foreseen` bridges this: while nothing was dropped there is a sequence of stacks, from
those of now to what they will be when the ring has been handled, in which every record
fits where its turn comes (an enter finds an empty stack, an exit its own call) and
whose last agrees with the machine: the stack of a traced thread holds the call it is
in, an id that can be given has an empty one. A record appended extends the sequence,
one handled drops its first. `Tasks` says what is needed of the machine: groups have
leaders, a zombie is not traced, who is in no call has none. The hypothesis is needed.
With threads and reuse TLC finds the counterexample: the leader dies first, so its
process is untraced and its other thread ends unseen, with its enter still on the stack
and its id still in `traced` (`tmon.bpf.c:303`, `:365`); a process that is given this id
is traced, and its first exit, of the fork that made it, is given to the old enter.

*Tasks*. Five theorems about what the engine knows of the machine's tasks.
`OnlyTheTreeRecorded`, `DecodedRight` and `TreeFollowed` assume `~Threads`: with threads
they are false (divergences 1 and 2). The invariants: `TreeInside`, what is in `traced`
lives and belongs to the family; `StashFresh` and `FreshRing`, a stash is of the call
its task is in, hence also the one that an exit record carries; `FreshPump`, an enter
that waits has neither pointers nor a return value, so that one exit gives it both;
`TreeTraced`, every living member of the family is in `traced`, which needs room for
every id at once (`Cardinality(Ids) <= MapCap`), as the code does. `NoOrphan` and
`TargetDrained` are about `Run()`, threads included: `EndInv` says that once the target
was waited for no task has its group, `Left` what each way out has left of it,
`DrainInv` that an empty poll after the wait leaves no record of it. They assume
`~ReuseIds`, because both properties name the target by its id: if the id is given
again, another process may hold it.

**StudyProof**. Of the fleet first `NeverSentTwice == Spec => []SentOnce`. That a phase
was sent at most once more than ids were lost does not survive a step by itself: the
thread might be about to send. `SendInv` says where the one command beyond the lost ones
is accounted for: its id is in `command.json`, or the thread is on its way to write it
(`Known`); so a thread that finds no `command.json` has sent no more than were lost.
`Quiet` covers the steps that neither send nor note, `MoveKeeps` that a script's
progress changes no phase, `SendKeeps`, `RecordKeeps` and `StopKeeps` the three that
matter. The count of commands is a cardinality, hence `CountAppend`.

On it rest `GoneOnlyWhenKept` (`KeptBeforeGone`) and `ReceiptsAreComplete`
(`VerifiedIsComplete`). `KeepInv` follows "whole" backwards: normalized, local archive,
bucket, disk, both collectors (`WholeAllAlong`), and says that what the watcher and
the finishing program have learned stays true while they act on it (`Learned`). It
holds whatever was sent twice. `VerifyInv` adds, for a host none of whose ids was
lost, that it has one command per phase (`SendInv` gives that), that the place of the
one `run` script tells how far the evidence is (`Told`), that the archive's script
starts after that one's success (`InOrder`), and so that every copy is of the
evidence as it is now (`Genuine`).

**CampaignProof**. All safety properties of Campaign and the refinement
`ContractHonoured`. None is inductive; `Engine` is, the conjunction of `TypeOK`,
`OpenInv` and `Counted`. `OpenInv` follows each open entry from the deque through the
group to the ledger: per statement it says which folders an entry has (`Fresh`,
`Begun`, `Moved`), that the ledger has no line of it yet and the line of its
predecessor (`Behind`, `Linked`), that its slot is not resolved, that no two open
entries are of one slot (`Apart`), and that every folder in progress belongs to one
(`Opened`). `Counted` ties the counters and the index to the slots. A batch is cut
where the key changes, which is the longest of many prefixes: `Least` and
`Everywhere`, well-foundedness and induction of the naturals for sets, take the place
of the library's induction theorems, whose operator parameters the provers cannot
instantiate.

**EtwProof**. The safety properties of EtwEngine that hold in all its runs.
`TypesKept`, `KeysRemembered` (`KeyFromSameThread`) and `EndedWithAll`
(`EndSeesAll`) need no hypothesis; `OnlyTheTreeReported`, `OwnersNamed`
(`AttributedToOwner`) and `NothingPassedOver` (`TreeComplete`) assume `FreshTarget`,
without which they are false (divergence 4). Whose an event is, is decided by maps
that are behind the machine by everything in the buffers. `Foreseen` is the invariant
that bridges this: there is a sequence of maps, from those of now to what they will be
when everything in the buffers has been handled, each the result of handling one event
of the buffers with the one before, in which every event is judged rightly and whose
last agrees with the machine. Handling an event drops the first of the sequence,
logging one appends to it (`Extend`, `Drop`), and a seed of `Spawn` changes them all
at once (`SeedForeseen`): that this contradicts none of the events that wait is what
`Newborn` and `Announced` are for - until it is resumed, nothing but its start was
logged of the target, and no waiting event has its ids for another. `KeysForeseen` is
the same for the registry keys; it holds for threads whose id no thread had before.
`EndedWithAll` rests on `Sums`, the counters are those of what the sink was given
while the consumer has not failed, and `Quiet`, nothing is logged after the stop nor
handled after an empty buffer was joined.

**CaptureProof**. All safety properties of LinuxCapture: `ValidRowsWitnessed`
(`ValidIsWitnessed`), `NativeOutcomesKept` (`NativeOutcomeKept`), `FrozenFilesRun`
(`FrozenWhenRun`), `NextStartsClean` (`CleanBeforeNext`), `PilotStartsOnce`
(`PilotOnce`), and `CaptureTypes`. A row is made at the end of a capture, so each rests
on what was true all along. `Listening` is the part about alerts. From the snapshot of
the counters to the reading of the journal, what is on its way and what is written
together tell exactly which programs of the group caused an alert (`Tells`), as long as
no drop was counted: `Live` while the programs run, `Written` after the drain, when
nothing is on its way any more (`Still`), `Read` of what the rows are made from. It
needs that only the container at hand causes alerts (`Tidy`) and that nothing of a group
is on its way before the group runs (`NoEcho`), which for a campaign follows from
`Untried` - a first attempt stands in the queue once, nothing was heard of it, and only
first attempts share a capture - and for the pilot from `Batches`: its folders are its
memory. `Batches` says that the numbers of the folders are multiples of the batch size
(`RanOnce`), that the rows filed are the plan's beginning (`FiledOnce`), that the next
batch begins where they end (`NextBatch`), and what batch a capture is of, however many
of its rows are filed (`ThisBatch`). That a folder on disk covers no slot of another
one's batch is `Apart`, the arithmetic of multiples. `Tidy` also says that a program
runs only in a container with an id, and that one which is left is of the group or its
failed removal was not noted (`CleanBeforeNext`). `Placed` and `Progress` follow the
program through its statements: where nothing was raised, the outcome of one that failed
is on disk (`NativeOutcomeKept`); `Purity` says when a changed file has been run. In the
model `Replacements` is a recursive function, not a `SelectSeq`, so that what it returns
can be typed by induction over the rows (`ReplacementsType`).

**EvidenceProof**. `CountedIsWhole` (`CountsAreWhole`) and `NoneHasASecondChance`
(`NoSecondChance`). A file may be altered between collection and count, so the invariant
says when each thing was looked at: `Primitives` and `BatchRows`, what a row says of its
file when it is written and while nothing was altered; `Seen`, what a check or a verdict
has found and that it still is so; `Settled`, that nothing moves after it. `Cells` says
which slots a capture of a Windows cell may try: in the iteration study none of those
that it was told had been tried. The rest is about the set that is counted at the verdict
(`ReplacementFair`, `ResumptionFair`): it is unique per slot because
a capture has one row for each program it tried (`CaptureRows`). Finiteness is needed
because `normalize.py` compares numbers of rows.

**FixturesProof**. `HarnessIsToldTheTruth` (`VerdictIsTrue`). Tool, peer, program and
harness know only what they received. `Line` says who may be using the connection;
`Deeds` ties the tokens under way to what was executed: the one that only an executed
command prints was sent once, by a tool that carried it out, and a receipt comes of it;
`Shell` follows the shell's two-way exchange, in which the tool ends only after the
receipt is whole; `Told` is what program and harness have concluded. Tokens are found
by position (`Has`, `Once`), so that the lemmas `Appended` and `Taken` are all
that is needed about sequences.

**WindowsProof**. `ValidRowsAreTrue` (`ValidIsTrue`). The invariant says of each record
what is true of it: `Created` and `Recorded`, starts and their records, `Ordered`, they
are written in the order in which they happened, `Operated`, an operation comes after
its process's start and carries its GUID, none, or that of an earlier process with the
same number. `Fits` places the window of an attempt among them - in it starts nothing else with
the program's number, because the program has it (`Alone`) -, and `Judged` keeps, from
the verdict on, that a valid row has one start and no doubtful record (`Clear`). The
one start in the window is therefore the program's own (`Identified`). Then
`OwnIsAttributed`: a late operation of the program under a GUID that is not its own would
have been found in conflict, any other is checked only under its own;
`AttributedIsOwn`: a late one credited by the GUID of an earlier process with that number
would have a reused owner. The descendants are computed by
as many rounds as there are processes: `Repeated` is the induction over the rounds,
once more with `Least` and `Everywhere`, and `Descended` that every round stays within
the tree.

The last part of **StudyProof** carries this over to the behaviours of MCStudy, in
which the four parts stand side by side: `PartsMove` says that each part of such a
behaviour is one of its own specification, so that the theorems of the parts, cited
from the instances, give `StudyRowsAreTrue`, `StudyCountsWhole`, `StudyCountsOnce`
(for finitely many slots) and `StudyToldTheTruth`.

Model-checked only: liveness, `Terminates`, `Settles`, `Ends` and `FleetSettles`,
because the prover has neither fairness nor ENABLED; and the five violations, which are
behaviours and not theorems.

## Plan

1. *(done)* tmon-linux kernel and engine, its ledger; campaign engine, its contract;
   types and accounting of tmon-linux proved.
2. *(done)* Adapters and harnesses: the Linux capture with its four drivers, the
   fixtures in its container, the attribution of a Windows capture.
3. *(done)* tmon-windows: consumer thread beside `Run()`.
4. *(done)* Orchestration and pilot: resume after a stop at any statement; evidence and
   the checks before it is counted.
5. tap: the exclusion gate composed with what tmon and the campaign write.
6. *(done)* Proofs of every safety property that the passing runs check.
7. Proofs about tap's gate, once it is modelled (5).

## Not modelled, and why

Command lines, formatters, name tables and reports only turn data into text. Lab
infrastructure, release scripts and CI are declarative or single passes. The specimen
programs are independent of each other; to tmon they are tasks that make calls, to the
captures they cause alerts and end. The buffer size of `engine.cpp:143-148` and the
failures before the child exists come before the engine's module begins.

tap reads finished files one after the other; its gate and its merge are worth a module
only together with what they may be given. The substrate verifier and
`verify_programs.py` parse ELF and PE files; the statistics, plots and tables of the
studies (`pilot/analyze.py` from line 220, `plateau.py`, `plot*.py`, `*300.py` reports)
are arithmetic over complete data. `snapshot-primitives`, `postflight300` and the
progress displays only look at a running study. The host lock of `experiment/run.py` is
one `flock`. Of the Windows adapters the restart of Sysmon and its timeout, and of the
fixtures rsync, sshd, debugfs and the namespace handle, are left out: they prepare and
take no part afterwards. The coverage-expansion scripts are one-off drivers around the
harnesses.
