----------------------------- MODULE TmonEngine -----------------------------
(***************************************************************************)
(* The whole of tmon-linux: Engine::Run and its ring-buffer callback       *)
(* (core/engine.cpp) beside the kernel of TmonKernel.  The callback        *)
(* handles one record per step, so tracepoints of other tasks interleave   *)
(* with a poll, with the look at the child between two polls, with the     *)
(* kill and with the final flush.                                          *)
(***************************************************************************)
EXTENDS TmonKernel

CONSTANTS
  CallsMayFail   \* may the first waitpid, the seeding or a poll return an error?

ASSUME EngineAssumption == CallsMayFail \in BOOLEAN

VARIABLES
  phase,     \* where Run() is
  got,       \* what the current poll has returned so far
  gone,      \* child_gone
  pending,   \* PumpState::pending, per thread a stack of enter events
  out,       \* the events handed to the sink, in order
  syscalls,  \* summary.syscall_events
  pids,      \* PumpState::pids
  stop,      \* PumpState::stop
  exitCode,  \* summary.target_exit_code: "none" while it is still 0
  ended,     \* history: why the pump loop ended
  summary    \* processes and dropped of the summary given to sink.End

pumpVars   == <<pending, out, syscalls, pids, stop>>
runVars    == <<phase, got, gone, exitCode, ended, summary>>
engineVars == <<pumpVars, runVars>>
vars       == <<kernelVars, engineVars>>

Phases == {"seed", "release", "poll", "check", "kill", "reap", "flush", "done"}

-----------------------------------------------------------------------------
(* DecodeEvent: enter and exit records both become a kSyscall event.  `ts` *)
(* is the event's timestamp, `exit` the time its return value was taken at *)
(* (0 = it has none), `retOf` the call that value really belongs to.       *)
DecodeEvent(w) ==
  LET isExit == w.kind = "SYS_EXIT" IN
  [kind  |-> IF w.kind \in {"SYS_ENTER", "SYS_EXIT"} THEN "SYSCALL" ELSE w.kind,
   ts    |-> w.ts,
   pid   |-> w.pid,
   tid   |-> w.tid,
   owner |-> w.owner,
   exit  |-> IF isExit THEN w.ts ELSE 0,
   retOf |-> IF isExit THEN w.of ELSE 0,
   arg   |-> w.arg]

(* The enter event takes the return value, the duration and the decoded    *)
(* pointers of the exit it is paired with.                                 *)
Paired(enter, ex) ==
  [enter EXCEPT !.exit = ex.exit, !.retOf = ex.retOf,
                !.arg = IF ex.arg # 0 THEN ex.arg ELSE @]

(* Emit, for a sequence of events.                                         *)
Emit(events) ==
  LET calls == Cardinality({i \in DOMAIN events : events[i].kind = "SYSCALL"})
  IN
  /\ out' = out \o events
  /\ syscalls' = syscalls + calls
  /\ pids' = pids \cup {events[i].pid : i \in DOMAIN events}
  /\ stop' = (stop \/ (config.max # 0 /\ syscalls' >= config.max))

Keep == UNCHANGED <<out, syscalls, pids, stop>>

(* The stacks: which one a record belongs to, what is left of it when an   *)
(* enter is paired, what is reported and what remains when a thread dies.  *)
Key_Process(w) == w.pid                \* mutation: one stack per process
Key(w)         == w.tid

Popped(stack) == SubSeq(stack, 1, Len(stack) - 1)

LeftOver_None(t) == << >>              \* mutation: pending enters are forgotten
LeftOver(t)      == pending[t]

Erase_Not(t) == UNCHANGED pending      \* mutation: the stack outlives its thread
Erase(t)     == pending' = [pending EXCEPT ![t] = << >>]

(* HandleRingEvent, by the kind of the record.                             *)
HandleEnter(w) ==
  /\ w.kind = "SYS_ENTER"
  /\ \/ /\ config.returns
        /\ pending' = [pending EXCEPT ![Key(w)] = Append(@, DecodeEvent(w))]
        /\ Keep
     \/ /\ ~config.returns
        /\ Emit(<<DecodeEvent(w)>>)
        /\ UNCHANGED pending

HandleExit(w) ==
  LET stack == pending[Key(w)]
      top   == stack[Len(stack)]
  IN
  /\ w.kind = "SYS_EXIT"
  /\ \/ /\ stack # << >>
        /\ pending' = [pending EXCEPT ![Key(w)] = Popped(stack)]
        /\ Emit(<<Paired(top, DecodeEvent(w))>>)
     \/ /\ stack = << >>
        /\ Emit(<<DecodeEvent(w)>>)
        /\ UNCHANGED pending

HandleForkExec(w) ==
  /\ w.kind \in {"FORK", "EXEC"}
  /\ Emit(<<DecodeEvent(w)>>)
  /\ UNCHANGED pending

HandleTaskExit(w) ==
  /\ w.kind = "EXIT"
  /\ Emit(Append(LeftOver(Key(w)), DecodeEvent(w)))
  /\ Erase(Key(w))

(* ring_buffer__poll calls the callback for every record that is there.    *)
(* The callback's 1 does not stop it: libbpf stops on negative values.     *)
HandleRingEvent ==
  /\ phase = "poll" /\ ring # << >>
  /\ LET w == Head(ring) IN
       \/ HandleEnter(w)
       \/ HandleExit(w)
       \/ HandleForkExec(w)
       \/ HandleTaskExit(w)
  /\ ring' = Tail(ring)
  /\ got' = "some"
  /\ UNCHANGED <<config, taskVars, traced, decoding, call, dropped, clock, lost, missed,
                 alien, phase, gone, exitCode, ended, summary>>

-----------------------------------------------------------------------------
(* The child has stopped itself.  Run() puts it into `traced`...           *)
Seed ==
  /\ phase = "seed"
  /\ traced' = traced \cup {Target}
  /\ phase' = "release"
  /\ UNCHANGED <<config, taskVars, decoding, call, recordVars, pumpVars, got, gone,
                 exitCode, ended, summary>>

(* The two ways out that leave the stopped child behind: the wait for it   *)
(* fails, or the map does not take its id and it is killed without a wait. *)
(* Neither gives the sink a Begin or an End.                               *)
WaitFails ==
  /\ CallsMayFail
  /\ phase = "seed"
  /\ ended' = "unwatched"
  /\ phase' = "done"
  /\ UNCHANGED <<kernelVars, pumpVars, got, gone, exitCode, summary>>

SeedFails ==
  /\ CallsMayFail
  /\ phase = "seed"
  /\ killed' = TRUE
  /\ ended' = "unseeded"
  /\ phase' = "done"
  /\ UNCHANGED <<config, mode, group, family, used, traced, decoding, call, recordVars,
                 pumpVars, got, gone, exitCode, summary>>

(* ... and only then continues it, inside the raise() it stopped in.       *)
ReleaseTarget ==
  /\ phase = "release"
  /\ mode' = [mode EXCEPT ![Target] = "leaving"]
  /\ phase' = "poll"
  /\ UNCHANGED <<config, group, killed, family, used, traced, decoding, call,
                 recordVars, pumpVars, got, gone, exitCode, ended, summary>>

(* The poll returns: it saw the ring empty after what it handled, or after *)
(* waiting 100 ms.                                                         *)
PollReturns ==
  /\ phase = "poll" /\ ring = << >>
  /\ phase' = "check"
  /\ UNCHANGED <<kernelVars, pumpVars, got, gone, exitCode, ended, summary>>

(* A signal interrupts the wait for the first record: n = -EINTR.          *)
PollInterrupted ==
  /\ phase = "poll" /\ got = "none" /\ ring = << >>
  /\ got' = "eintr"
  /\ phase' = "check"
  /\ UNCHANGED <<kernelVars, pumpVars, gone, exitCode, ended, summary>>

(* Any other error leaves the loop: the target is neither killed nor       *)
(* waited for.                                                             *)
PollFails ==
  /\ CallsMayFail
  /\ phase = "poll" /\ got = "none"
  /\ ended' = "failed"
  /\ phase' = "flush"
  /\ UNCHANGED <<kernelVars, pumpVars, got, gone, exitCode, summary>>

TargetDead == mode[Target] = "zombie" /\ Live(Target) = {}

NextTurn_NoKill(isGone) ==  \* mutation: the capped run just ends
  IF stop
  THEN ended' = "stopped" /\ phase' = "flush" /\ got' = got
  ELSE phase' = "poll" /\ got' = "none" /\ ended' = ended

(* Where the loop goes after a look at the child: on, or out when the      *)
(* callback asked to stop.                                                 *)
NextTurn(isGone) ==
  IF stop
  THEN /\ ended' = "stopped"
       /\ phase' = IF isGone THEN "flush" ELSE "kill"
       /\ got' = got
  ELSE /\ phase' = "poll"
       /\ got' = "none"
       /\ ended' = ended

AfterReap_Leave ==  \* mutation: an empty poll before the reaping is enough
  /\ got' = got
  /\ phase' = IF got = "none" THEN "flush" ELSE "poll"
  /\ ended' = IF got = "none" THEN "drained" ELSE ended

AfterReap == NextTurn(TRUE)

(* waitpid(WNOHANG) takes the exit status.                                 *)
CheckReaps ==
  /\ phase = "check" /\ ~gone /\ TargetDead
  /\ Release(Target)
  /\ exitCode' = "target"
  /\ gone' = TRUE
  /\ AfterReap
  /\ UNCHANGED <<config, killed, used, traced, decoding, call, recordVars, pumpVars,
                 summary>>

CheckAlive ==
  /\ phase = "check" /\ ~gone /\ ~TargetDead
  /\ NextTurn(FALSE)
  /\ UNCHANGED <<kernelVars, pumpVars, gone, exitCode, summary>>

NothingLeft_Never == FALSE             \* mutation: only an error ends the loop
NothingLeft       == got = "none"

(* Once the child is gone, a poll that found nothing ends the loop.        *)
CheckGone ==
  /\ phase = "check" /\ gone
  /\ \/ /\ NothingLeft
        /\ ended' = "drained"
        /\ phase' = "flush"
        /\ UNCHANGED got
     \/ /\ ~NothingLeft
        /\ NextTurn(TRUE)
  /\ UNCHANGED <<kernelVars, pumpVars, gone, exitCode, summary>>

(* The cap was reached with the child alive: kill it ...                   *)
KillTarget ==
  /\ phase = "kill"
  /\ killed' = TRUE
  /\ phase' = "reap"
  /\ UNCHANGED <<config, mode, group, family, used, traced, decoding, call, recordVars,
                 pumpVars, got, gone, exitCode, ended, summary>>

(* ... and wait for it; its status is not recorded.                        *)
ReapKilled ==
  /\ phase = "reap"
  /\ Release(Target)
  /\ phase' = "flush"
  /\ killed' = FALSE
  /\ UNCHANGED <<config, used, traced, decoding, call, recordVars, pumpVars,
                 got, gone, exitCode, ended, summary>>

(* The enters left over, one thread after the other in no given order.     *)
FlushPending(t) ==
  /\ phase = "flush" /\ pending[t] # << >>
  /\ Emit(LeftOver(t))
  /\ Erase(t)
  /\ UNCHANGED <<kernelVars, runVars>>

(* The summary is given to the sink; the programs are detached.            *)
Finish ==
  /\ phase = "flush"
  /\ \A t \in Ids : pending[t] = << >>
  /\ summary' = [processes |-> Cardinality(pids), dropped |-> dropped]
  /\ phase' = "done"
  /\ UNCHANGED <<kernelVars, pumpVars, got, gone, exitCode, ended>>

-----------------------------------------------------------------------------
Init ==
  /\ KernelInit
  /\ phase = "seed"
  /\ got = "none"
  /\ gone = FALSE
  /\ pending = [t \in Ids |-> << >>]
  /\ out = << >>
  /\ syscalls = 0
  /\ pids = {}
  /\ stop = FALSE
  /\ exitCode = "none"
  /\ ended = "running"
  /\ summary = [processes |-> 0, dropped |-> 0]

EngineNext ==
  \/ Seed \/ WaitFails \/ SeedFails \/ ReleaseTarget
  \/ HandleRingEvent \/ PollReturns \/ PollInterrupted \/ PollFails
  \/ CheckReaps \/ CheckAlive \/ CheckGone
  \/ KillTarget \/ ReapKilled
  \/ (\E t \in Ids : FlushPending(t))
  \/ Finish

KernelStep ==
  /\ phase # "done"
  /\ KernelNext
  /\ UNCHANGED engineVars

TaskExit(t) ==
  /\ phase # "done"
  /\ Exit(t)
  /\ UNCHANGED engineVars

Next == EngineNext \/ KernelStep

Spec == Init /\ [][Next]_vars

(* tmon is scheduled, signals do not interrupt every single poll, and the  *)
(* tasks of a process that was sent SIGKILL die.  No other task is obliged *)
(* to do anything: not the target, not its descendants.                    *)
Fairness ==
  /\ WF_vars(EngineNext)
  /\ SF_vars(PollReturns)
  /\ \A t \in Ids : WF_vars(killed /\ group[t] = Target /\ TaskExit(t))

FairSpec == Spec /\ Fairness

-----------------------------------------------------------------------------
Events ==
  [kind : {"SYSCALL", "FORK", "EXEC", "EXIT"}, ts : Nat, pid : Ids, tid : Ids,
   owner : Ids, exit : Nat, retOf : Nat, arg : Nat]

(* Types of the whole system.                                              *)
TypeOK ==
  /\ KernelTypeOK
  /\ phase \in Phases
  /\ got \in {"none", "some", "eintr"}
  /\ gone \in BOOLEAN
  /\ pending \in [Ids -> Seq(Events)]
  /\ out \in Seq(Events)
  /\ syscalls \in Nat
  /\ pids \subseteq Ids
  /\ stop \in BOOLEAN
  /\ exitCode \in {"none", "target"}
  /\ ended \in {"running", "drained", "stopped", "failed", "unwatched", "unseeded"}
  /\ summary \in [processes : Nat, dropped : Nat]

-----------------------------------------------------------------------------
(* Where the tracepoint hit at time n can be.                              *)
InRing     == {ring[i].ts : i \in DOMAIN ring}
InPending  == UNION {{pending[t][i].ts : i \in DOMAIN pending[t]} : t \in Ids}
Reported   == (UNION {{out[i].ts, out[i].exit} : i \in DOMAIN out}) \ {0}

(* Every tracepoint hit is accounted for at every moment: it is in the     *)
(* ring, awaits its exit, was given to the sink, was refused by the full   *)
(* ring, or belongs to a task that was not traced.  A record is never      *)
(* dropped between the ring and the sink (engine.cpp:50-115, 241-243).     *)
Accounted ==
  1..clock = InRing \cup InPending \cup Reported \cup lost \cup missed

(* The counter in the summary is the number of refused records, and no     *)
(* record is both reported and still on its way, or reported twice.        *)
ReportedOnce ==
  /\ dropped = Cardinality(lost)
  /\ InPending \cap Reported = {}
  /\ InRing \cap (InPending \cup Reported) = {}
  /\ \A i, j \in DOMAIN out : out[i].ts = out[j].ts => i = j

(* A return value given to an enter event is the return value of that      *)
(* call, and an exit that is reported alone belongs to a call whose enter  *)
(* was never recorded - as long as nothing was dropped.  The LIFO stack of *)
(* engine.cpp:30-32 and the flush at a task's death are there for this.    *)
(* Without threads or without reuse of ids (theorem ReturnsPaired).        *)
PairedWithOwnReturn ==
  dropped = 0 =>
    \A i \in DOMAIN out : out[i].exit # 0 =>
      out[i].retOf = IF out[i].ts = out[i].exit THEN 0 ELSE out[i].ts

(* A decoded path or socket address was read through the pointers of the   *)
(* call it is shown with, dropped records or not: in the ring, of the call *)
(* the exit record ends; in the output, of the call whose return value the *)
(* event carries, and of the event's own call where it carries none.  A    *)
(* stale stash is never used (tmon.bpf.c:245-250, 279-286, 352), and an    *)
(* enter takes pointer and return value from one exit (engine.cpp:71-89).  *)
(* Whether that exit is the enter's own is PairedWithOwnReturn: after a    *)
(* drop it need not be, and then the pointer is not the enter's either.    *)
DecodedFromOwnCall ==
  /\ \A i \in DOMAIN ring : ring[i].kind = "SYS_EXIT" => ring[i].arg \in {0, ring[i].of}
  /\ \A i \in DOMAIN out : out[i].arg # 0 =>
       out[i].arg = IF out[i].exit # 0 THEN out[i].retOf ELSE out[i].ts

(* Programs without threads: no task of the target's tree passes a         *)
(* tracepoint unrecorded, from the target's first instruction on - the     *)
(* seeding happens before the continue, a child is entered by its parent's *)
(* fork, and a process leaves `traced` only when it dies.                  *)
FollowsTree == missed = {}

(* Programs without threads: nothing of a process outside the target's     *)
(* tree is ever copied out of the kernel, whatever ids are reused.         *)
OnlyTheTree == alien = {}

(* The pump loop that ends because the target is gone and the ring was     *)
(* found empty leaves no record of the target behind.                      *)
TargetDrained ==
  phase = "done" /\ ended = "drained" =>
    \A i \in DOMAIN ring : ring[i].owner # Target

(* What each way out of Run() leaves of the target.  A loop that ended by  *)
(* itself or at the cap leaves nothing: the target is dead and was waited  *)
(* for.  Otherwise a call failed, and the target was not waited for: it    *)
(* still stands where its SIGSTOP put it, unharmed (waitpid) or with a     *)
(* SIGKILL sent to it (seeding); or, after a poll, it is in whatever state *)
(* it was in, and nothing was sent to it (engine.cpp:197-239).             *)
(* (Where ids are not reused, so that Target names one process.)           *)
NoOrphan ==
  phase = "done" =>
    \/ mode[Target] = "free"
    \/ ended = "failed" /\ ~killed
    \/ ended = "unwatched" /\ mode[Target] = "stopped" /\ ~killed
    \/ ended = "unseeded" /\ mode[Target] = "stopped" /\ killed

(* tmon returns once the target is dead, the cap was reached or a call     *)
(* failed - provided the tracepoints of the tree fall silent some day: the *)
(* loop goes on for as long as descendants of a dead target keep the ring  *)
(* from being empty for one poll (engine.cpp:231).  They need not end.     *)
Ending == TargetDead \/ stop \/ ended # "running"

Terminates == <>Ending /\ <>[][clock' = clock]_clock => <>(phase = "done")

(* The pump implements the ledger of CaptureLedger.                        *)
Ledger == INSTANCE CaptureLedger WITH
  hits <- clock, inFlight <- InRing \cup InPending, reported <- Reported,
  refused <- lost, unseen <- missed, counter <- dropped,
  closed <- phase = "done"

KeepsTheBooks == Ledger!LedgerSpec

-----------------------------------------------------------------------------
(* README.md:153: with no drops counted the run is complete.  For a run    *)
(* that ended because the target did, that says that no tracepoint the     *)
(* target itself passed is missing from the output.                        *)
CleanRunIsComplete ==
  phase = "done" /\ ended = "drained" /\ summary.dropped = 0 => missed = {}
=============================================================================
