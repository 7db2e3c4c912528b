------------------------------ MODULE EtwEngine ------------------------------
(***************************************************************************)
(* tmon-windows (Core/EtwEngine.cs): the ETW consumer thread, which runs   *)
(* the handlers of WireHandlers over the stream of kernel events, beside   *)
(* Run(), which spawns the target, seeds the maps the consumer reads,      *)
(* waits, stops the session and ends the sink.                             *)
(*                                                                         *)
(* The stream is behind the machine: an event is handled long after it was *)
(* logged, while the seeds take effect at once.  Events carry what ETW     *)
(* writes and five history fields (owner, thread, tree, named, fresh).     *)
(***************************************************************************)
EXTENDS Naturals, Sequences, FiniteSets

CONSTANTS
  Pids, Tids, Cpus, Keys,
  NoPid, NoTid, NoCpu, NoKey,
  Target, Main,      \* the target's process and first thread id
  FreshTarget,       \* are the target's ids new to the session?
  SinkMayFail,       \* may IEventSink.Handle throw?
  JoinMayTimeOut,    \* may the consumer need more than 2 s after the stop?
  Follows, Maxes,    \* values of config.Follow and config.MaxEvents
  BufferCap,         \* events the session's buffers hold
  MaxClock,          \* bound: nothing new happens after this many events
  MaxOps,            \* bound: operations but those that name a registry key
  MaxLost            \* bound: nothing new happens after more losses

ASSUME EtwAssumption ==
  /\ Target \in Pids /\ Main \in Tids
  /\ NoPid \notin Pids /\ NoTid \notin Tids /\ NoCpu \notin Cpus /\ NoKey \notin Keys
  /\ {FreshTarget, SinkMayFail, JoinMayTimeOut} \cup Follows \subseteq BOOLEAN
  /\ Maxes \subseteq Nat /\ BufferCap \in Nat \ {0} /\ {MaxClock, MaxOps, MaxLost} \subseteq Nat

VARIABLES
  follow, max,    \* config
  proc,           \* the process of each live thread
  running,        \* the thread each processor runs
  session,        \* is the kernel session active?
  buffer,         \* logged events the consumer has not handled
  killed,         \* was TerminateProcess called on the target?
  lost,           \* EventsLost of the session
  clock,          \* history: events logged
  ops,            \* history: operations so far
  family,         \* history: live processes of the target's tree
  named, usedTids,\* history: key each thread named last; ids had by threads
  traced, threadToPid, cpuToTid, threadRegKey, targetPid, targetStartEmitted,
  maxReached, total, syscalls, pids,
  consumer,       \* has the consumer thread failed?
  out,            \* the events handed to the sink
  missed,         \* history: the tree's events that were not reported
  phase,          \* where Run() is
  exitCode, summary,
  timedOut        \* history: did Join give up?

machineVars  == <<proc, running, killed, family, named, usedTids, ops>>
streamVars   == <<session, buffer, clock, lost>>
consumerVars == <<cpuToTid, threadRegKey, targetStartEmitted, maxReached, total,
                  syscalls, pids, consumer, out, missed>>
sharedVars   == <<traced, threadToPid, targetPid>>
runVars      == <<phase, exitCode, summary, timedOut>>
configVars   == <<follow, max>>
vars == <<configVars, machineVars, streamVars, consumerVars, sharedVars, runVars>>

Alive   == {p \in Pids : \E t \in Tids : proc[t] = p}
Started == phase \notin {"spawn", "target", "traced", "thread", "resume"}

(* A thread that can run: suspended until ResumeThread, dead once killed.  *)
CanRun(t) ==
  /\ proc[t] # NoPid
  /\ proc[t] = Target /\ phase # "spawn" => Started \/ t # Main
  /\ ~(killed /\ proc[t] = Target)

(* Ids are given again at once, but not while tmon has handles of them.    *)
FreeTid(t) == proc[t] = NoPid /\ (t = Main => phase = "spawn" /\ ~FreshTarget)
FreePid(p) == p \notin Alive /\ (p = Target => phase = "spawn" /\ ~FreshTarget)

-----------------------------------------------------------------------------
(* An event of thread t of process p.                                      *)
EventOf(kind, p, t) ==
  [kind |-> kind, pid |-> p, tid |-> t, cpu |-> NoCpu,
   parent |-> NoPid, key |-> NoKey, owner |-> p, thread |-> t,
   tree |-> p \in family, named |-> NoKey, fresh |-> t \notin usedTids]

Fits_More(events) == Len(events)  \* mutation: a full buffer is overwritten
Fits(events) ==
  LET room == BufferCap - Len(buffer) IN
  IF room >= Len(events) THEN Len(events) ELSE IF room > 0 THEN room ELSE 0

(* The session logs events: what its buffers cannot hold is lost, and      *)
(* EventsLost counts it.                                                   *)
Log(events) ==
  LET n == Fits(events) IN
  /\ clock' = clock + Len(events)
  /\ buffer' = buffer \o SubSeq(events, 1, n)
  /\ lost' = lost + Len(events) - n

Machine == session /\ UNCHANGED <<configVars, session, consumerVars, sharedVars, runVars>>
Busy    == clock < MaxClock /\ lost <= MaxLost /\ consumer = "running"

(* A processor switches to another thread.                                 *)
ContextSwitch(c, t) ==
  /\ Machine /\ Busy /\ CanRun(t)
  /\ \A d \in Cpus : running[d] # t
  /\ running' = [running EXCEPT ![c] = t]
  /\ Log(<<[EventOf("CSWITCH", proc[t], t) EXCEPT !.cpu = c]>>)
  /\ UNCHANGED <<proc, killed, family, named, usedTids, ops>>

Runs(c) == running[c] # NoTid /\ CanRun(running[c])

Operates(c) ==
  /\ Machine /\ Busy /\ Runs(c)
  /\ ops < MaxOps
  /\ UNCHANGED <<proc, running, killed, family, usedTids>>

(* A system call: ETW writes the processor only.                           *)
SystemCall(c) ==
  /\ Operates(c) /\ ops' = ops + 1 /\ UNCHANGED named
  /\ Log(<<[EventOf("SYSCALL", proc[running[c]], running[c]) EXCEPT
              !.cpu = c, !.pid = NoPid, !.tid = NoTid]>>)

(* An image is loaded, or a file or socket is used; ETW may not know the   *)
(* process of the latter.                                                  *)
Input(c, kind, known) ==
  LET e == EventOf(kind, proc[running[c]], running[c]) IN
  /\ Operates(c) /\ ops' = ops + 1 /\ UNCHANGED named
  /\ kind = "IMAGE" => known
  /\ Log(<<IF known THEN e ELSE [e EXCEPT !.pid = NoPid]>>)

(* A registry operation, on a key by name or by handle (NoKey).            *)
Registry(c, key) ==
  LET t == running[c] IN
  /\ Operates(c)
  /\ ops' = IF key = NoKey THEN ops + 1 ELSE ops
  /\ named' = [named EXCEPT ![t] = IF key = NoKey THEN @ ELSE key]
  /\ Log(<<[EventOf("REGISTRY", proc[t], t) EXCEPT !.key = key, !.named = named'[t]]>>)

(* A process and its first thread appear; then a further thread.           *)
Begins(p, t, parent, inTree) ==
  LET e == [EventOf("PROCESS_START", p, t) EXCEPT !.parent = parent, !.tree = inTree]
  IN
  /\ proc' = [proc EXCEPT ![t] = p]
  /\ family' = IF inTree THEN family \cup {p} ELSE family
  /\ named' = [named EXCEPT ![t] = NoKey]
  /\ Log(<<e, [e EXCEPT !.kind = "THREAD_START"]>>)

StartProcess(c, p, t) ==
  /\ Machine /\ Busy /\ Runs(c) /\ FreePid(p) /\ FreeTid(t)
  /\ Begins(p, t, proc[running[c]], follow /\ proc[running[c]] \in family)
  /\ UNCHANGED <<running, killed, usedTids, ops>>

(* A process with an unknown parent (one at a time in this model).         *)
Outsider(p, t) ==
  /\ Alive \subseteq family
  /\ Machine /\ Busy /\ FreePid(p) /\ FreeTid(t)
  /\ Begins(p, t, NoPid, FALSE)
  /\ UNCHANGED <<running, killed, usedTids, ops>>

StartThread(c, t) ==
  LET p == proc[running[c]] IN
  /\ Machine /\ Busy /\ Runs(c) /\ FreeTid(t)
  /\ proc' = [proc EXCEPT ![t] = p]
  /\ named' = [named EXCEPT ![t] = NoKey]
  /\ Log(<<EventOf("THREAD_START", p, t)>>)
  /\ UNCHANGED <<running, killed, family, usedTids, ops>>

(* A process ends with its threads; their ids are free again.              *)
EndProcess(p) ==
  LET gone == {t \in Tids : proc[t] = p} IN
  /\ Machine
  /\ p \in Alive /\ (p = Target /\ phase # "spawn" => Started)
  /\ Busy \/ p = Target
  /\ proc' = [t \in Tids |-> IF t \in gone THEN NoPid ELSE proc[t]]
  /\ running' = [c \in Cpus |-> IF running[c] \in gone THEN NoTid ELSE running[c]]
  /\ family' = family \ {p}
  /\ usedTids' = usedTids \cup gone
  /\ Log(<<EventOf("PROCESS_STOP", p, NoTid)>>)
  /\ UNCHANGED <<killed, named, ops>>

-----------------------------------------------------------------------------
(* Emit.  A sink that throws ends the consumer thread, in the middle.      *)
Emit(e, pid, tid, key) ==
  /\ total' = total + 1
  /\ syscalls' = IF e.kind = "SYSCALL" THEN syscalls + 1 ELSE syscalls
  /\ maxReached' = (maxReached \/ (e.kind = "SYSCALL" /\ max # 0 /\ syscalls' >= max))
  /\ pids' = pids \cup {pid}
  /\ \/ /\ out' = Append(out, [e EXCEPT !.pid = pid, !.tid = tid, !.key = key])
        /\ UNCHANGED consumer
     \/ /\ SinkMayFail
        /\ consumer' = "failed"
        /\ UNCHANGED out
  /\ UNCHANGED missed

Ignore(e) ==
  /\ missed' = IF e.tree THEN missed \cup {e} ELSE missed
  /\ UNCHANGED <<total, syscalls, maxReached, pids, consumer, out>>

Silent == UNCHANGED <<total, syscalls, maxReached, pids, consumer, out, missed>>

(* EmitFile, EmitNet, ImageLoad: reported if the process is traced.        *)
EmitIfTraced(e, pid, tid, key) ==
  \/ pid \in traced /\ Emit(e, pid, tid, key)
  \/ pid \notin traced /\ Ignore(e)

PidFor(e) == IF e.pid # NoPid THEN e.pid ELSE threadToPid[e.tid]

Handles(kind) ==
  /\ consumer = "running" /\ buffer # << >> /\ Head(buffer).kind = kind
  /\ buffer' = Tail(buffer)
  /\ UNCHANGED <<configVars, machineVars, session, clock, lost, runVars, targetPid>>

OnThreadStart ==
  LET e == Head(buffer) IN
  /\ Handles("THREAD_START")
  /\ threadToPid' = [threadToPid EXCEPT ![e.tid] = e.pid]
  /\ Silent /\ UNCHANGED <<traced, cpuToTid, threadRegKey, targetStartEmitted>>

Scheduled_Traced(e) ==  \* mutation: switches to other processes are skipped
  IF threadToPid[e.tid] \in traced
  THEN [cpuToTid EXCEPT ![e.cpu] = e.tid] ELSE cpuToTid
Scheduled(e) == [cpuToTid EXCEPT ![e.cpu] = e.tid]

OnContextSwitch ==
  LET e == Head(buffer) IN
  /\ Handles("CSWITCH")
  /\ cpuToTid' = Scheduled(e)
  /\ Silent /\ UNCHANGED <<traced, threadToPid, threadRegKey, targetStartEmitted>>

(* Processor -> thread -> process -> traced set.                           *)
OnSystemCall ==
  LET e   == Head(buffer)
      tid == cpuToTid[e.cpu]
      pid == IF tid = NoTid THEN NoPid ELSE threadToPid[tid]
  IN
  /\ Handles("SYSCALL")
  /\ EmitIfTraced(e, pid, tid, NoKey)
  /\ UNCHANGED <<traced, threadToPid, cpuToTid, threadRegKey, targetStartEmitted>>

IsChild_Target(e) == e.parent = targetPid  \* mutation: only the target's children
IsChild(e)        == e.parent \in traced

OnProcessStart ==
  LET e        == Head(buffer)
      isTarget == e.pid = targetPid /\ ~targetStartEmitted
  IN
  /\ Handles("PROCESS_START")
  /\ targetStartEmitted' = (targetStartEmitted \/ isTarget)
  /\ \/ /\ isTarget
        /\ Emit(e, e.pid, NoTid, NoKey)
        /\ UNCHANGED traced
     \/ /\ ~isTarget /\ IsChild(e) /\ follow
        /\ Emit(e, e.pid, NoTid, NoKey)
        /\ traced' = traced \cup {e.pid}
     \/ /\ ~isTarget /\ ~(IsChild(e) /\ follow)
        /\ Ignore(e)
        /\ UNCHANGED traced
  /\ UNCHANGED <<threadToPid, cpuToTid, threadRegKey>>

(* The removal comes after the report: a sink that throws prevents it.     *)
Untrace_Not(pid) == traced  \* mutation: a dead process stays traced
Untrace(pid)     == traced \ {pid}

OnProcessStop ==
  LET e == Head(buffer) IN
  /\ Handles("PROCESS_STOP")
  /\ EmitIfTraced(e, e.pid, NoTid, NoKey)
  /\ traced' = IF consumer' = "failed" THEN traced ELSE Untrace(e.pid)
  /\ UNCHANGED <<threadToPid, cpuToTid, threadRegKey, targetStartEmitted>>

OnImageLoad ==
  LET e == Head(buffer) IN
  /\ Handles("IMAGE")
  /\ EmitIfTraced(e, e.pid, NoTid, NoKey)
  /\ UNCHANGED <<traced, threadToPid, cpuToTid, threadRegKey, targetStartEmitted>>

OnFileOrNet ==
  LET e == Head(buffer) IN
  /\ Handles("IO")
  /\ EmitIfTraced(e, PidFor(e), e.tid, NoKey)
  /\ UNCHANGED <<traced, threadToPid, cpuToTid, threadRegKey, targetStartEmitted>>

(* A key that is named is remembered for the thread, traced or not; one    *)
(* that is not is taken from the thread's memory.                          *)
Recall_Not(tid) == NoKey  \* mutation: nothing is carried forward
Recall(tid)     == threadRegKey[tid]

OnRegistry ==
  LET e == Head(buffer) IN
  /\ Handles("REGISTRY")
  /\ threadRegKey' = IF e.key # NoKey THEN [threadRegKey EXCEPT ![e.tid] = e.key]
                                      ELSE threadRegKey
  /\ EmitIfTraced(e, PidFor(e), e.tid, IF e.key # NoKey THEN e.key ELSE Recall(e.tid))
  /\ UNCHANGED <<traced, threadToPid, cpuToTid, targetStartEmitted>>

-----------------------------------------------------------------------------
Run(at, next) == phase = at /\ phase' = next
Idle == UNCHANGED <<configVars, consumerVars, timedOut>>

(* Spawn: the target is created suspended, then the maps are seeded, then  *)
(* it is resumed.                                                          *)
CreateTarget ==
  /\ Run("spawn", "target")
  /\ Target \notin Alive /\ proc[Main] = NoPid
  /\ Begins(Target, Main, NoPid, TRUE)
  /\ Idle /\ UNCHANGED <<sharedVars, running, killed, usedTids, ops, session, exitCode, summary>>

SpawnFails ==
  /\ Run("spawn", "failed")
  /\ session' = FALSE
  /\ Idle /\ UNCHANGED <<sharedVars, machineVars, buffer, clock, lost, exitCode, summary>>

SetTargetPid ==
  /\ Run("target", "traced")
  /\ targetPid' = Target
  /\ Idle /\ UNCHANGED <<machineVars, streamVars, traced, threadToPid, exitCode, summary>>

SeedTraced ==
  /\ Run("traced", "thread")
  /\ traced' = traced \cup {Target}
  /\ Idle /\ UNCHANGED <<machineVars, streamVars, targetPid, threadToPid, exitCode, summary>>

SeedThread ==
  /\ Run("thread", "resume")
  /\ threadToPid' = [threadToPid EXCEPT ![Main] = Target]
  /\ Idle /\ UNCHANGED <<machineVars, streamVars, targetPid, traced, exitCode, summary>>

ResumeTarget ==
  /\ Run("resume", "wait")
  /\ Idle /\ UNCHANGED <<machineVars, streamVars, sharedVars, exitCode, summary>>

WaitSeesExit ==
  /\ Run("wait", "drain")
  /\ Target \notin Alive
  /\ exitCode' = "target"
  /\ Idle /\ UNCHANGED <<machineVars, streamVars, sharedVars, summary>>

(* The wait timed out before the consumer's flag was read; the target may  *)
(* have ended in between.                                                  *)
TerminateTarget ==
  /\ Run("wait", "terminated")
  /\ maxReached
  /\ killed' = TRUE
  /\ Idle /\ UNCHANGED <<proc, running, family, named, usedTids, ops, streamVars, sharedVars,
                         exitCode, summary>>

(* Dead, or 2 s are over.                                                  *)
WaitTerminated ==
  /\ Run("terminated", "drain")
  /\ exitCode' = "one"
  /\ Idle /\ UNCHANGED <<machineVars, streamVars, sharedVars, summary>>

StopSession ==
  /\ Run("drain", "join")
  /\ session' = FALSE
  /\ Idle /\ UNCHANGED <<machineVars, buffer, clock, lost, sharedVars, exitCode, summary>>

Joined_Not == TRUE  \* mutation: the consumer is not waited for
Joined     == buffer = << >> \/ consumer = "failed"

Join ==
  /\ Run("join", "end")
  /\ \/ Joined /\ timedOut' = FALSE
     \/ ~Joined /\ JoinMayTimeOut /\ timedOut' = TRUE
  /\ UNCHANGED <<configVars, consumerVars, machineVars, streamVars, sharedVars,
                 exitCode, summary>>

EndSink ==
  /\ Run("end", "done")
  /\ summary' = [total |-> total, syscalls |-> syscalls,
                 processes |-> Cardinality(pids), lost |-> lost]
  /\ Idle /\ UNCHANGED <<machineVars, streamVars, sharedVars, exitCode>>

-----------------------------------------------------------------------------
(* The session may start while another process runs: a ThreadDCStart event *)
(* names its thread, no event says which processor it is on.               *)
Init ==
  /\ follow \in Follows /\ max \in Maxes
  /\ session = TRUE /\ killed = FALSE
  /\ family = {} /\ usedTids = {} /\ ops = 0 /\ named = [t \in Tids |-> NoKey]
  /\ lost = 0
  /\ \/ /\ proc = [t \in Tids |-> NoPid]
        /\ running = [c \in Cpus |-> NoTid]
        /\ clock = 0 /\ buffer = << >>
     \/ \E c \in Cpus, p \in Pids \ {Target}, t \in Tids \ {Main} :
          /\ proc = [u \in Tids |-> IF u = t THEN p ELSE NoPid]
          /\ running = [d \in Cpus |-> IF d = c THEN t ELSE NoTid]
          /\ clock = 1
          /\ buffer = <<[kind |-> "THREAD_START", pid |-> p, tid |-> t,
                         cpu |-> NoCpu, parent |-> NoPid, key |-> NoKey, owner |-> p,
                         thread |-> t, tree |-> FALSE, named |-> NoKey, fresh |-> TRUE]>>
  /\ traced = {} /\ threadToPid = [t \in Tids |-> NoPid] /\ targetPid = NoPid
  /\ cpuToTid = [c \in Cpus |-> NoTid] /\ threadRegKey = [t \in Tids |-> NoKey]
  /\ targetStartEmitted = FALSE /\ maxReached = FALSE
  /\ total = 0 /\ syscalls = 0 /\ pids = {}
  /\ consumer = "running" /\ out = << >> /\ missed = {}
  /\ phase = "spawn" /\ exitCode = "none" /\ timedOut = FALSE
  /\ summary = [total |-> 0, syscalls |-> 0, processes |-> 0, lost |-> 0]

MachineNext ==
  \/ \E c \in Cpus, t \in Tids : ContextSwitch(c, t)
  \/ \E c \in Cpus : SystemCall(c)
  \/ \E c \in Cpus, kind \in {"IMAGE", "IO"}, known \in BOOLEAN : Input(c, kind, known)
  \/ \E c \in Cpus, key \in Keys \cup {NoKey} : Registry(c, key)
  \/ \E c \in Cpus, p \in Pids, t \in Tids : StartProcess(c, p, t)
  \/ \E p \in Pids, t \in Tids : Outsider(p, t)
  \/ \E c \in Cpus, t \in Tids : StartThread(c, t)
  \/ \E p \in Pids : EndProcess(p)

ConsumerNext ==
  \/ OnThreadStart \/ OnContextSwitch \/ OnSystemCall
  \/ OnProcessStart \/ OnProcessStop
  \/ OnImageLoad \/ OnFileOrNet \/ OnRegistry

RunNext ==
  \/ CreateTarget \/ SpawnFails \/ SetTargetPid \/ SeedTraced \/ SeedThread
  \/ ResumeTarget \/ WaitSeesExit \/ TerminateTarget \/ WaitTerminated
  \/ StopSession \/ Join \/ EndSink

Next == MachineNext \/ ConsumerNext \/ RunNext

Spec == Init /\ [][Next]_vars

-----------------------------------------------------------------------------
(* Types.                                                                  *)
TypeOK ==
  /\ proc \in [Tids -> Pids \cup {NoPid}]
  /\ running \in [Cpus -> Tids \cup {NoTid}]
  /\ Len(buffer) <= BufferCap
  /\ lost \in 0..clock
  /\ {family, traced, pids} \subseteq SUBSET Pids
  /\ threadToPid \in [Tids -> Pids \cup {NoPid}]
  /\ cpuToTid \in [Cpus -> Tids \cup {NoTid}]
  /\ threadRegKey \in [Tids -> Keys \cup {NoKey}]
  /\ targetPid \in {NoPid, Target}
  /\ total \in Nat /\ syscalls \in 0..total

Reports == {out[i] : i \in DOMAIN out}

(* README.md:4-5: only the target's tree is recorded.  It holds as long as *)
(* no event was lost and the target's ids are new to the stream, however   *)
(* the other ids are reused (EtwEngine.cs:140-181).                        *)
OnlyTheTree == lost = 0 => \A e \in Reports : e.tree

(* Without losses, a system call is reported with the thread and process   *)
(* that made it, though ETW names a processor only, and a file, socket or  *)
(* registry event with its process (EtwEngine.cs:138-156, 226-230).        *)
AttributedToOwner ==
  lost = 0 => \A e \in Reports :
    e.pid = e.owner /\ (e.kind = "SYSCALL" => e.tid = e.thread)

(* Without losses nothing of the tree is passed over, however far the      *)
(* consumer is behind, except the target's own start, if it is handled     *)
(* before Spawn has stored the process id (EtwEngine.cs:160, 342).         *)
TreeComplete ==
  lost = 0 => \A e \in missed : e.kind = "PROCESS_START" /\ e.pid = Target

(* Without losses, the key of a registry operation is the one the same     *)
(* thread named last, as long as its id belonged to no thread before it    *)
(* (EtwEngine.cs:32-36, 267-275).                                          *)
KeyFromSameThread ==
  lost = 0 => \A e \in Reports : e.kind = "REGISTRY" /\ e.fresh => e.key = e.named

(* When the consumer was joined, the sink is ended with nothing left to    *)
(* handle and with the totals of what it was given (EtwEngine.cs:117-124). *)
EndSeesAll ==
  phase = "done" /\ ~timedOut /\ consumer = "running" =>
    /\ buffer = << >>
    /\ summary = [total     |-> Len(out),
                  syscalls  |-> Cardinality({i \in DOMAIN out : out[i].kind = "SYSCALL"}),
                  processes |-> Cardinality({e.pid : e \in Reports}),
                  lost      |-> lost]

(* IEventSink.cs:28: End is "called once after the last event".            *)
EndIsLast == [][phase = "done" => UNCHANGED out]_vars
=============================================================================
