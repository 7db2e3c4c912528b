----------------------------- MODULE TmonProof ------------------------------
(***************************************************************************)
(* tmon-linux, for every set of ids, capacity, configuration and bound.    *)
(*                                                                         *)
(* Five parts, each with an invariant of its own: the types; that every    *)
(* tracepoint hit is accounted for; that the books of CaptureLedger are    *)
(* kept and nothing is reported twice; that a return value is given to the *)
(* call that returned it; and what is known of the tasks of the machine.   *)
(* The second, third and fourth rest on the ones before, the fifth on the  *)
(* types alone.                                                            *)
(***************************************************************************)
EXTENDS TmonEngine, SequenceTheorems, FiniteSetTheorems, TLAPS

-----------------------------------------------------------------------------
(***************************************************************************)
(* Type correctness of the whole of tmon-linux, for every set of ids,      *)
(* capacity, configuration and bound.                                      *)
(***************************************************************************)

(* A record written by a task of the machine is a record.                  *)
LEMMA RecordType ==
  ASSUME KernelTypeOK, NEW t \in Ids, mode[t] # "free", NEW pid \in Ids,
         NEW kind \in RecordKinds, NEW of \in Nat, NEW arg \in Nat
  PROVE  Record(kind, pid, t, t, of, arg) \in Records
<1>1. group[t] \in Ids
  BY DEF KernelTypeOK
<1> QED
  BY <1>1 DEF KernelTypeOK, Record, Records, Now

(* Emitting a record, or overlooking a tracepoint, keeps the types of the  *)
(* ring, the counter and the histories.                                    *)
RecordTypes ==
  /\ ring' \in Seq(Records)
  /\ Len(ring') <= RingCap
  /\ dropped' \in Nat
  /\ clock' \in Nat
  /\ lost' \subseteq 1..clock'
  /\ missed' \subseteq 1..clock'
  /\ alien' \subseteq 1..clock'

(* A set of times up to now, with or without now.                          *)
LEMMA TimesGrow ==
  ASSUME KernelTypeOK, NEW S, S \subseteq 1..clock
  PROVE  /\ Now \in Nat
         /\ S \subseteq 1..Now
         /\ S \cup {Now} \subseteq 1..Now
<1>1. clock \in Nat /\ Now = clock + 1
  BY DEF KernelTypeOK, Now
<1>2. 1..clock \subseteq 1..Now /\ Now \in 1..Now
  BY <1>1
<1> QED
  BY <1>1, <1>2

LEMMA ObserveType ==
  ASSUME KernelTypeOK, NEW rec \in Records, Observe(rec)
  PROVE  RecordTypes
<1>1. clock' = Now /\ missed' = missed
  BY DEF Observe
<1>2. /\ clock' \in Nat
      /\ lost' \subseteq 1..clock'
      /\ missed' \subseteq 1..clock'
      /\ alien' \subseteq 1..clock'
  <2>1. lost' = lost \/ lost' = lost \cup {Now}
    BY DEF Observe
  <2>2. alien' = alien \/ alien' = alien \cup {Now}
    BY DEF Observe
  <2>3. /\ lost \subseteq 1..clock
        /\ missed \subseteq 1..clock
        /\ alien \subseteq 1..clock
    BY DEF KernelTypeOK
  <2> QED
    BY ONLY <1>1, <2>1, <2>2, <2>3, KernelTypeOK, TimesGrow
<1>3. ring' \in Seq(Records) /\ Len(ring') <= RingCap /\ dropped' \in Nat
  <2>1. /\ ring \in Seq(Records) /\ Len(ring) \in Nat
        /\ Len(ring) <= RingCap /\ dropped \in Nat /\ RingCap \in Nat
    BY LenProperties, KernelAssumption DEF KernelTypeOK
  <2>2. CASE ~RingFull
    <3>1. ring' = Append(ring, rec) /\ dropped' = dropped
      BY <2>2 DEF Observe
    <3>2. ring' \in Seq(Records) /\ Len(ring') = Len(ring) + 1
      BY <2>1, <3>1, AppendProperties
    <3>3. Len(ring) < RingCap
      BY <2>1, <2>2 DEF RingFull
    <3> QED
      BY <2>1, <3>1, <3>2, <3>3
  <2>3. CASE RingFull
    <3>1. ring' = ring /\ dropped' = dropped + 1
      BY <2>3 DEF Observe, CountDrop
    <3> QED
      BY <2>1, <3>1
  <2> QED
    BY <2>2, <2>3
<1> QED
  BY <1>2, <1>3 DEF RecordTypes

LEMMA OverlookType ==
  ASSUME KernelTypeOK, NEW t \in Ids, Overlook(t)
  PROVE  RecordTypes
<1>1. ring' = ring /\ dropped' = dropped /\ lost' = lost /\ alien' = alien
  BY DEF Overlook
<1>2. \/ clock' = Now /\ missed' = missed \cup {Now}
      \/ clock' = clock /\ missed' = missed
  BY DEF Overlook
<1>3. /\ clock' \in Nat
      /\ lost \subseteq 1..clock'
      /\ missed' \subseteq 1..clock'
      /\ alien \subseteq 1..clock'
  BY <1>2, TimesGrow DEF KernelTypeOK
<1> QED
  BY <1>1, <1>3 DEF RecordTypes, KernelTypeOK

LEMMA UnchangedRecordType ==
  ASSUME KernelTypeOK, UNCHANGED recordVars
  PROVE  RecordTypes
BY DEF recordVars, RecordTypes, KernelTypeOK

-----------------------------------------------------------------------------
(* Every tracepoint and every other kernel step keeps the kernel's types.  *)
TaskTypes ==
  /\ config' \in Configs
  /\ mode' \in [Ids -> Modes]
  /\ group' \in [Ids -> Ids \cup {NoTask}]
  /\ \A t \in Ids : group'[t] = NoTask <=> mode'[t] = "free"
  /\ killed' \in BOOLEAN
  /\ traced' \subseteq Ids
  /\ decoding' \in [Ids -> Nat]
  /\ call' \in [Ids -> Nat]
  /\ family' \subseteq Ids
  /\ used' \subseteq Ids

LEMMA TypesOf == ASSUME TaskTypes, RecordTypes PROVE KernelTypeOK'
BY DEF TaskTypes, RecordTypes, KernelTypeOK

LEMMA SysEnterType ==
  ASSUME KernelTypeOK, NEW t \in Ids, NEW ptr \in BOOLEAN, SysEnter(t, ptr)
  PROVE  KernelTypeOK'
<1> DEFINE rec == Record("SYS_ENTER", group[t], t, t, Now,
                         IF ptr /\ config.decode /\ ~config.returns
                         THEN Now ELSE 0)
<1>1. Now \in Nat /\ group[t] \in Ids /\ mode[t] # "free"
  BY DEF KernelTypeOK, SysEnter, Now
<1>2. rec \in Records
  <2>1. (IF ptr /\ config.decode /\ ~config.returns THEN Now ELSE 0) \in Nat
    BY <1>1
  <2> QED
    BY <1>1, <2>1, RecordType DEF RecordKinds
<1>3. RecordTypes
  <2>1. Observe(rec) \/ Overlook(t)
    BY DEF SysEnter
  <2> QED
    BY <1>2, <2>1, ObserveType, OverlookType
<1>4. TaskTypes
  <2>1. decoding' \in [Ids -> Nat] /\ call' \in [Ids -> Nat]
    <3>1. \/ decoding' = decoding
          \/ decoding' = [decoding EXCEPT ![t] = Now]
      BY DEF SysEnter
    <3>2. \/ call' = [call EXCEPT ![t] = Now]
          \/ call' = [call EXCEPT ![t] = 0]
      BY DEF SysEnter
    <3>3. decoding \in [Ids -> Nat] /\ call \in [Ids -> Nat] /\ Now \in Nat
      BY <1>1 DEF KernelTypeOK
    <3>4. decoding' \in [Ids -> Nat]
      BY ONLY <3>1, <3>3
    <3>5. call' \in [Ids -> Nat]
      BY ONLY <3>2, <3>3
    <3> QED
      BY <3>4, <3>5
  <2>2. /\ mode' \in [Ids -> Modes]
        /\ \A s \in Ids : group'[s] = NoTask <=> mode'[s] = "free"
    BY DEF SysEnter, KernelTypeOK, Modes, Running
  <2> QED
    BY <2>1, <2>2 DEF SysEnter, TaskTypes, KernelTypeOK
<1> QED
  BY <1>3, <1>4, TypesOf

LEMMA SysExitType ==
  ASSUME KernelTypeOK, NEW t \in Ids, SysExit(t)
  PROVE  KernelTypeOK'
<1> DEFINE rec == Record("SYS_EXIT", group[t], t, t, call[t],
                         IF config.decode THEN decoding[t] ELSE 0)
<1>1. group[t] \in Ids /\ mode[t] # "free" /\ call[t] \in Nat
      /\ (IF config.decode THEN decoding[t] ELSE 0) \in Nat
  BY DEF KernelTypeOK, SysExit
<1>2. rec \in Records
  BY <1>1, RecordType DEF RecordKinds
<1>3. RecordTypes
  <2>1. Observe(rec) \/ Overlook(t) \/ UNCHANGED recordVars
    BY DEF SysExit
  <2> QED
    BY <1>2, <2>1, ObserveType, OverlookType, UnchangedRecordType
<1>4. TaskTypes
  <2>1. decoding' \in [Ids -> Nat] /\ call' \in [Ids -> Nat]
    <3>1. decoding' = decoding \/ decoding' = [decoding EXCEPT ![t] = 0]
      BY DEF SysExit, Unstash
    <3>2. call' = [call EXCEPT ![t] = 0]
      BY DEF SysExit
    <3> QED
      BY <3>1, <3>2 DEF KernelTypeOK
  <2>2. /\ mode' \in [Ids -> Modes]
        /\ \A s \in Ids : group'[s] = NoTask <=> mode'[s] = "free"
    BY DEF SysExit, KernelTypeOK, Modes, Running
  <2> QED
    BY <2>1, <2>2 DEF SysExit, TaskTypes, KernelTypeOK
<1> QED
  BY <1>3, <1>4, TypesOf

LEMMA ForkType ==
  ASSUME KernelTypeOK, NEW t \in Ids, NEW c \in Ids, NEW thread \in BOOLEAN,
         Fork(t, c, thread)
  PROVE  KernelTypeOK'
<1>1. group[t] \in Ids /\ mode[t] # "free" /\ 0 \in Nat /\ t # c
  BY DEF KernelTypeOK, Fork
<1>2. RecordTypes
  <2>1. Record("FORK", t, t, t, 0, 0) \in Records
    BY <1>1, RecordType DEF RecordKinds
  <2>2. Observe(Record("FORK", t, t, t, 0, 0)) \/ Overlook(t)
    BY DEF Fork
  <2> QED
    BY <2>1, <2>2, ObserveType, OverlookType
<1>3. TaskTypes
  <2>1. call' \in [Ids -> Nat] /\ decoding' \in [Ids -> Nat]
    BY DEF Fork, KernelTypeOK
  <2>2. /\ mode' \in [Ids -> Modes]
        /\ group' \in [Ids -> Ids \cup {NoTask}]
        /\ \A s \in Ids : group'[s] = NoTask <=> mode'[s] = "free"
    BY <1>1, KernelAssumption DEF Fork, KernelTypeOK, Modes, Running
  <2>3. traced' \subseteq Ids /\ family' \subseteq Ids /\ used' \subseteq Ids
    BY DEF Fork, KernelTypeOK, Insert
  <2> QED
    BY <2>1, <2>2, <2>3 DEF Fork, TaskTypes, KernelTypeOK
<1> QED
  BY <1>2, <1>3, TypesOf

LEMMA ExecType ==
  ASSUME KernelTypeOK, NEW t \in Ids, Exec(t)
  PROVE  KernelTypeOK'
<1> DEFINE g == group[t]
<1>1. g \in Ids /\ mode[t] # "free" /\ 0 \in Nat
  BY DEF KernelTypeOK, Exec
<1>2. RecordTypes
  <2>1. g # NoTask /\ Record("EXEC", g, g, t, 0, 0) \in Records
    BY <1>1, KernelAssumption DEF Record, Records, RecordKinds, Now, KernelTypeOK
  <2>2. Observe(Record("EXEC", g, g, t, 0, 0)) \/ Overlook(t)
    BY DEF Exec
  <2> QED
    BY <2>1, <2>2, ObserveType, OverlookType
<1>3. TaskTypes
  <2>1. call' \in [Ids -> Nat]
    BY <1>1 DEF Exec, KernelTypeOK
  <2>2. /\ mode' \in [Ids -> Modes]
        /\ group' \in [Ids -> Ids \cup {NoTask}]
        /\ \A s \in Ids : group'[s] = NoTask <=> mode'[s] = "free"
    BY <1>1, KernelAssumption DEF Exec, KernelTypeOK, Modes, Running
  <2>3. family' \subseteq Ids
    BY <1>1 DEF Exec, KernelTypeOK
  <2> QED
    BY <2>1, <2>2, <2>3 DEF Exec, TaskTypes, KernelTypeOK
<1> QED
  BY <1>2, <1>3, TypesOf

LEMMA ExitType ==
  ASSUME KernelTypeOK, NEW t \in Ids, Exit(t)
  PROVE  KernelTypeOK'
<1> DEFINE g == group[t]
<1>1. g \in Ids /\ mode[t] # "free" /\ 0 \in Nat
  BY DEF KernelTypeOK, Exit, Running
<1>2. RecordTypes
  <2>1. Record("EXIT", g, t, t, 0, 0) \in Records
    BY <1>1, RecordType DEF RecordKinds
  <2>2. Observe(Record("EXIT", g, t, t, 0, 0)) \/ Overlook(t)
    BY DEF Exit
  <2> QED
    BY <2>1, <2>2, ObserveType, OverlookType
<1>3. TaskTypes
  <2>1. call' \in [Ids -> Nat] /\ decoding' \in [Ids -> Nat]
    <3>1. decoding' = decoding \/ decoding' = [decoding EXCEPT ![t] = 0]
      BY DEF Exit, Unstash
    <3>2. call' = [call EXCEPT ![t] = 0]
      BY DEF Exit
    <3> QED
      BY <3>1, <3>2 DEF KernelTypeOK
  <2>2. /\ mode' \in [Ids -> Modes]
        /\ group' \in [Ids -> Ids \cup {NoTask}]
        /\ \A s \in Ids : group'[s] = NoTask <=> mode'[s] = "free"
    BY <1>1, KernelAssumption DEF Exit, KernelTypeOK, Modes, Running
  <2>3. family' \subseteq Ids /\ traced' \subseteq Ids
    BY DEF Exit, Untrace, KernelTypeOK
  <2> QED
    BY <2>1, <2>2, <2>3 DEF Exit, TaskTypes, KernelTypeOK
<1> QED
  BY <1>2, <1>3, TypesOf

(* Release is also the engine's waitpid.                                   *)
LEMMA ReleaseType ==
  ASSUME KernelTypeOK, NEW p \in Ids, Release(p), killed' \in BOOLEAN,
         UNCHANGED <<config, used, traced, decoding, call, recordVars>>
  PROVE  KernelTypeOK'
<1>1. /\ mode' \in [Ids -> Modes]
      /\ group' \in [Ids -> Ids \cup {NoTask}]
      /\ \A s \in Ids : group'[s] = NoTask <=> mode'[s] = "free"
  BY DEF Release, KernelTypeOK, Modes
<1>2. TaskTypes
  BY <1>1 DEF Release, TaskTypes, KernelTypeOK
<1>3. RecordTypes
  BY UnchangedRecordType
<1> QED
  BY <1>2, <1>3, TypesOf

LEMMA SpawnType ==
  ASSUME KernelTypeOK, NEW c \in Ids, Spawn(c)
  PROVE  KernelTypeOK'
<1>1. /\ mode' \in [Ids -> Modes]
      /\ group' \in [Ids -> Ids \cup {NoTask}]
      /\ \A s \in Ids : group'[s] = NoTask <=> mode'[s] = "free"
  BY KernelAssumption DEF Spawn, KernelTypeOK, Modes, Running
<1>2. TaskTypes
  BY <1>1 DEF Spawn, TaskTypes, KernelTypeOK
<1>3. RecordTypes
  BY UnchangedRecordType DEF Spawn
<1> QED
  BY <1>2, <1>3, TypesOf

LEMMA KernelStepType == ASSUME KernelTypeOK, KernelNext PROVE KernelTypeOK'
<1>1. ASSUME NEW p \in Ids, Reap(p) PROVE KernelTypeOK'
  <2>1. killed' \in BOOLEAN
    BY <1>1 DEF Reap, KernelTypeOK
  <2> QED
    BY <1>1, <2>1, ReleaseType DEF Reap
<1> QED
  BY <1>1, SysEnterType, SysExitType, ForkType, ExecType, ExitType, SpawnType
     DEF KernelNext

-----------------------------------------------------------------------------
(* The pump: what a handler must keep, and what the callback hands over.   *)
PumpTypeOK ==
  /\ pending \in [Ids -> Seq(Events)]
  /\ out \in Seq(Events)
  /\ syscalls \in Nat
  /\ pids \subseteq Ids
  /\ stop \in BOOLEAN

RunTypeOK ==
  /\ phase \in Phases
  /\ got \in {"none", "some", "eintr"}
  /\ gone \in BOOLEAN
  /\ exitCode \in {"none", "target"}
  /\ ended \in {"running", "drained", "stopped", "failed", "unwatched", "unseeded"}
  /\ summary \in [processes : Nat, dropped : Nat]

LEMMA TypeParts == TypeOK <=> KernelTypeOK /\ PumpTypeOK /\ RunTypeOK
BY DEF TypeOK, PumpTypeOK, RunTypeOK

LEMMA TypePartsNext == TypeOK' <=> KernelTypeOK' /\ PumpTypeOK' /\ RunTypeOK'
BY DEF TypeOK, PumpTypeOK, RunTypeOK

LEMMA DecodeType == ASSUME NEW w \in Records PROVE DecodeEvent(w) \in Events
BY DEF DecodeEvent, Records, RecordKinds, Events

LEMMA PairedType ==
  ASSUME NEW enter \in Events, NEW ex \in Events
  PROVE  Paired(enter, ex) \in Events
BY DEF Paired, Events

LEMMA EmitType ==
  ASSUME PumpTypeOK, NEW events \in Seq(Events), Emit(events)
  PROVE  /\ out' \in Seq(Events)
         /\ syscalls' \in Nat
         /\ pids' \subseteq Ids
         /\ stop' \in BOOLEAN
<1>1. DOMAIN events = 1..Len(events) /\ Len(events) \in Nat
      /\ \A i \in DOMAIN events : events[i] \in Events
  BY LenProperties, ElementOfSeq
<1>2. out' \in Seq(Events)
  BY ConcatProperties DEF Emit, PumpTypeOK
<1>3. syscalls' \in Nat
  <2> DEFINE C == {i \in DOMAIN events : events[i].kind = "SYSCALL"}
  <2>1. IsFiniteSet(DOMAIN events)
    BY <1>1, FS_Interval
  <2>2. Cardinality(C) \in Nat
    BY <2>1, FS_Subset, FS_CardinalityType
  <2>3. syscalls' = syscalls + Cardinality(C) /\ syscalls \in Nat
    BY DEF Emit, PumpTypeOK
  <2> QED
    BY <2>2, <2>3
<1>4. pids' \subseteq Ids
  BY <1>1 DEF Emit, PumpTypeOK, Events
<1>5. stop' \in BOOLEAN
  BY DEF Emit, PumpTypeOK
<1> QED
  BY <1>2, <1>3, <1>4, <1>5

LEMMA HandlerType ==
  ASSUME PumpTypeOK, NEW w \in Records,
         HandleEnter(w) \/ HandleExit(w) \/ HandleForkExec(w) \/ HandleTaskExit(w)
  PROVE  PumpTypeOK'
<1> DEFINE e == DecodeEvent(w)
           stack == pending[w.tid]
<1>1. e \in Events /\ w.tid \in Ids
  BY DecodeType DEF Records
<1>2. stack \in Seq(Events) /\ pending \in [Ids -> Seq(Events)]
  BY <1>1 DEF PumpTypeOK
<1>3. <<e>> \in Seq(Events)
  BY <1>1
<1>4. CASE HandleEnter(w)
  <2>1. CASE config.returns
    <3>1. Append(stack, e) \in Seq(Events)
      BY <1>1, <1>2, AppendProperties
    <3>2. pending' = [pending EXCEPT ![w.tid] = Append(stack, e)]
      BY <1>2, <1>4, <2>1 DEF HandleEnter, Key
    <3> QED
      BY <1>1, <1>2, <1>4, <2>1, <3>1, <3>2 DEF HandleEnter, Keep, PumpTypeOK
  <2>2. CASE ~config.returns
    BY <1>3, <1>4, <2>2, EmitType DEF HandleEnter, PumpTypeOK
  <2> QED
    BY <2>1, <2>2
<1>5. CASE HandleExit(w)
  <2>1. CASE stack # << >>
    <3>1. Len(stack) \in Nat \ {0} /\ \A i \in 1..Len(stack) : stack[i] \in Events
      BY <1>2, <2>1, LenProperties, ElementOfSeq, EmptySeq
    <3>2. SubSeq(stack, 1, Len(stack) - 1) \in Seq(Events)
      BY <3>1, SubSeqProperties
    <3>3. pending' = [pending EXCEPT ![w.tid] = SubSeq(stack, 1, Len(stack) - 1)]
      BY <1>5, <2>1 DEF HandleExit, Key, Popped
    <3>4. Paired(stack[Len(stack)], e) \in Events
      BY <1>1, <3>1, PairedType
    <3>5. <<Paired(stack[Len(stack)], e)>> \in Seq(Events)
      BY <3>4
    <3>6. Emit(<<Paired(stack[Len(stack)], e)>>)
      BY <1>5, <2>1 DEF HandleExit, Key
    <3> HIDE DEF e, stack
    <3>7. pending' \in [Ids -> Seq(Events)]
      BY <1>2, <3>2, <3>3
    <3> QED
      BY <3>5, <3>6, <3>7, EmitType DEF PumpTypeOK
  <2>2. CASE stack = << >>
    BY <1>3, <1>5, <2>2, EmitType DEF HandleExit, Key, PumpTypeOK
  <2> QED
    BY <2>1, <2>2
<1>6. CASE HandleForkExec(w)
  BY <1>3, <1>6, EmitType DEF HandleForkExec, PumpTypeOK
<1>7. CASE HandleTaskExit(w)
  <2>1. Append(stack, e) \in Seq(Events)
    BY <1>1, <1>2, AppendProperties
  <2>2. Emit(Append(stack, e))
    BY <1>7 DEF HandleTaskExit, LeftOver, Key
  <2>3. pending' = [pending EXCEPT ![w.tid] = << >>]
    BY <1>7 DEF HandleTaskExit, Erase, Key
  <2>4. pending' \in [Ids -> Seq(Events)]
    BY <1>2, <2>3, EmptySeq
  <2> QED
    BY <2>1, <2>2, <2>4, EmitType DEF PumpTypeOK
<1> QED
  BY <1>4, <1>5, <1>6, <1>7

-----------------------------------------------------------------------------
(* The steps of Run().                                                     *)
LEMMA HandleRingEventType ==
  ASSUME TypeOK, HandleRingEvent PROVE TypeOK'
<1> USE TypeParts
<1> DEFINE w == Head(ring)
<1>1. w \in Records /\ Tail(ring) \in Seq(Records) /\ Len(Tail(ring)) = Len(ring) - 1
  BY HeadTailProperties DEF HandleRingEvent, KernelTypeOK
<1>2. PumpTypeOK'
  <2>1. HandleEnter(w) \/ HandleExit(w) \/ HandleForkExec(w) \/ HandleTaskExit(w)
    BY DEF HandleRingEvent
  <2> QED
    BY <1>1, <2>1, HandlerType
<1>3. KernelTypeOK'
  <2>1. Len(ring) \in Nat /\ RingCap \in Nat
    BY LenProperties, KernelAssumption DEF KernelTypeOK
  <2>2. ring' \in Seq(Records) /\ Len(ring') <= RingCap
    BY <1>1, <2>1 DEF HandleRingEvent, KernelTypeOK
  <2> QED
    BY <2>2 DEF HandleRingEvent, KernelTypeOK, taskVars
<1>4. RunTypeOK'
  BY DEF HandleRingEvent, RunTypeOK
<1> QED
  BY <1>2, <1>3, <1>4, TypePartsNext

LEMMA NextTurnType ==
  ASSUME RunTypeOK, NEW isGone \in BOOLEAN, NextTurn(isGone)
  PROVE  /\ phase' \in Phases
         /\ got' \in {"none", "some", "eintr"}
         /\ ended' \in {"running", "drained", "stopped", "failed", "unwatched", "unseeded"}
BY DEF NextTurn, RunTypeOK, Phases

LEMMA LoopType ==
  ASSUME TypeOK, \/ PollReturns \/ PollInterrupted \/ PollFails
                 \/ CheckAlive \/ CheckGone \/ WaitFails
  PROVE  TypeOK'
<1> USE TypeParts
<1>1. KernelTypeOK' /\ PumpTypeOK'
  BY DEF PollReturns, PollInterrupted, PollFails, CheckAlive, CheckGone, WaitFails,
         KernelTypeOK, PumpTypeOK, kernelVars, taskVars, recordVars, pumpVars
<1>2. RunTypeOK'
  <2>1. CASE PollReturns \/ PollInterrupted \/ PollFails \/ WaitFails
    BY <2>1 DEF PollReturns, PollInterrupted, PollFails, WaitFails, RunTypeOK, Phases
  <2>2. CASE CheckAlive
    BY <2>2, NextTurnType DEF CheckAlive, RunTypeOK
  <2>3. CASE CheckGone
    BY <2>3, NextTurnType DEF CheckGone, RunTypeOK, Phases
  <2> QED
    BY <2>1, <2>2, <2>3
<1> QED
  BY <1>1, <1>2, TypePartsNext

LEMMA WaitType ==
  ASSUME TypeOK, CheckReaps \/ ReapKilled \/ KillTarget \/ SeedFails
  PROVE  TypeOK'
<1> USE TypeParts
<1>1. KernelTypeOK'
  <2>1. CASE CheckReaps
    <3>1. killed' \in BOOLEAN
      BY <2>1 DEF CheckReaps, KernelTypeOK
    <3> QED
      BY <2>1, <3>1, ReleaseType, KernelAssumption DEF CheckReaps
  <2>2. CASE ReapKilled
    <3>1. killed' \in BOOLEAN
      BY <2>2 DEF ReapKilled
    <3> QED
      BY <2>2, <3>1, ReleaseType, KernelAssumption DEF ReapKilled
  <2>3. CASE KillTarget \/ SeedFails
    BY <2>3 DEF KillTarget, SeedFails, KernelTypeOK, recordVars
  <2> QED
    BY <2>1, <2>2, <2>3
<1>2. PumpTypeOK'
  BY DEF CheckReaps, ReapKilled, KillTarget, SeedFails, PumpTypeOK, pumpVars
<1>3. RunTypeOK'
  <2>1. CASE CheckReaps
    BY <2>1, NextTurnType DEF CheckReaps, AfterReap, RunTypeOK
  <2>2. CASE ReapKilled \/ KillTarget \/ SeedFails
    BY <2>2 DEF ReapKilled, KillTarget, SeedFails, RunTypeOK, Phases
  <2> QED
    BY <2>1, <2>2
<1> QED
  BY <1>1, <1>2, <1>3, TypePartsNext

(* What makes the types inductive: until Run() continues it, the child is  *)
(* where its SIGSTOP left it (engine.cpp:184-198).                         *)
ChildWaits ==
  phase \in {"seed", "release"} => mode[Target] = "stopped" /\ group[Target] = Target

LEMMA StartType == ASSUME TypeOK, ChildWaits, Seed \/ ReleaseTarget PROVE TypeOK'
<1> USE TypeParts
<1>1. KernelTypeOK'
  <2>1. CASE Seed
    BY <2>1, KernelAssumption DEF Seed, KernelTypeOK, taskVars, recordVars
  <2>2. CASE ReleaseTarget
    <3>1. group[Target] # NoTask
      BY <2>2, KernelAssumption DEF ReleaseTarget, ChildWaits
    <3>2. /\ mode' \in [Ids -> Modes]
          /\ \A s \in Ids : group'[s] = NoTask <=> mode'[s] = "free"
      BY <2>2, <3>1, KernelAssumption
         DEF ReleaseTarget, KernelTypeOK, Modes, Running
    <3> QED
      BY <2>2, <3>2 DEF ReleaseTarget, KernelTypeOK, recordVars
  <2> QED
    BY <2>1, <2>2
<1>2. PumpTypeOK' /\ RunTypeOK'
  BY DEF Seed, ReleaseTarget, PumpTypeOK, RunTypeOK, pumpVars, Phases
<1> QED
  BY <1>1, <1>2, TypePartsNext

(* No task's step touches a stopped process.                               *)
LEMMA ChildWaitsStep ==
  ASSUME TypeOK, ChildWaits, [Next]_vars
  PROVE  ChildWaits'
<1> SUFFICES ASSUME phase' \in {"seed", "release"}
             PROVE  mode'[Target] = "stopped" /\ group'[Target] = Target
  BY DEF ChildWaits
<1>1. Target \in Ids /\ KernelTypeOK
  BY KernelAssumption, TypeParts
<1>2. CASE EngineNext
  BY <1>2 DEF EngineNext, Seed, WaitFails, SeedFails, ReleaseTarget, HandleRingEvent,
    PollReturns, PollInterrupted, PollFails, CheckReaps, CheckAlive, CheckGone, KillTarget,
    ReapKilled, FlushPending, Finish, AfterReap, NextTurn, ChildWaits, taskVars, runVars
<1>3. CASE KernelStep
  <2>1. mode[Target] = "stopped" /\ group[Target] = Target
    BY <1>3 DEF KernelStep, engineVars, runVars, ChildWaits
  <2>2. ASSUME NEW t \in Ids, NEW ptr \in BOOLEAN, SysEnter(t, ptr)
        PROVE  mode'[Target] = "stopped" /\ group'[Target] = Target
    BY <1>1, <2>1, <2>2 DEF SysEnter, KernelTypeOK
  <2>3. ASSUME NEW t \in Ids, SysExit(t)
        PROVE  mode'[Target] = "stopped" /\ group'[Target] = Target
    BY <1>1, <2>1, <2>3 DEF SysExit, KernelTypeOK
  <2>4. ASSUME NEW t \in Ids, NEW c \in Ids, NEW thread \in BOOLEAN,
               Fork(t, c, thread)
        PROVE  mode'[Target] = "stopped" /\ group'[Target] = Target
    BY <1>1, <2>1, <2>4 DEF Fork, KernelTypeOK
  <2>5. ASSUME NEW t \in Ids, Exec(t)
        PROVE  mode'[Target] = "stopped" /\ group'[Target] = Target
    <3>1. t # Target
      BY <2>1, <2>5 DEF Exec
    <3>2. Target \in Live(Target)
      BY <1>1, <2>1 DEF Live
    <3>3. group[t] # Target
      BY <2>5, <3>1, <3>2 DEF Exec
    <3> QED
      BY <1>1, <2>1, <2>5, <3>1, <3>3 DEF Exec, KernelTypeOK
  <2>6. ASSUME NEW t \in Ids, Exit(t)
        PROVE  mode'[Target] = "stopped" /\ group'[Target] = Target
    BY <1>1, <2>1, <2>6 DEF Exit, KernelTypeOK, Running
  <2>7. ASSUME NEW p \in Ids, Reap(p)
        PROVE  mode'[Target] = "stopped" /\ group'[Target] = Target
    BY <1>1, <2>1, <2>7 DEF Reap, Release, KernelTypeOK
  <2>8. ASSUME NEW c \in Ids, Spawn(c)
        PROVE  mode'[Target] = "stopped" /\ group'[Target] = Target
    BY <1>1, <2>1, <2>8 DEF Spawn, KernelTypeOK
  <2> QED
    BY <1>3, <2>2, <2>3, <2>4, <2>5, <2>6, <2>7, <2>8 DEF KernelStep, KernelNext
<1>4. CASE UNCHANGED vars
  BY <1>4 DEF vars, kernelVars, taskVars, engineVars, runVars, ChildWaits
<1> QED
  BY <1>2, <1>3, <1>4 DEF Next

LEMMA FinishType ==
  ASSUME TypeOK, Finish \/ \E t \in Ids : FlushPending(t)
  PROVE  TypeOK'
<1> USE TypeParts
<1>1. KernelTypeOK'
  BY DEF Finish, FlushPending, KernelTypeOK, kernelVars, taskVars, recordVars
<1>2. CASE Finish
  <2>1. Cardinality(pids) \in Nat
    BY KernelAssumption, FS_Subset, FS_CardinalityType DEF PumpTypeOK
  <2>2. RunTypeOK'
    BY <1>2, <2>1 DEF Finish, RunTypeOK, KernelTypeOK, Phases
  <2>3. PumpTypeOK'
    BY <1>2 DEF Finish, PumpTypeOK, pumpVars
  <2> QED
    BY <1>1, <2>2, <2>3, TypePartsNext
<1>3. ASSUME NEW t \in Ids, FlushPending(t) PROVE TypeOK'
  <2>1. pending[t] \in Seq(Events) /\ pending \in [Ids -> Seq(Events)]
    BY DEF PumpTypeOK
  <2>2. pending' \in [Ids -> Seq(Events)]
    BY <1>3, <2>1, EmptySeq DEF FlushPending, Erase
  <2>3. PumpTypeOK'
    BY <1>3, <2>1, <2>2, EmitType DEF FlushPending, LeftOver, PumpTypeOK
  <2>4. RunTypeOK'
    BY <1>3 DEF FlushPending, RunTypeOK, runVars
  <2> QED
    BY <1>1, <2>3, <2>4, TypePartsNext
<1> QED
  BY <1>2, <1>3

-----------------------------------------------------------------------------
LEMMA InitType == Init => TypeOK
<1> SUFFICES ASSUME Init PROVE TypeOK
  OBVIOUS
<1>1. KernelTypeOK
  <2>1. ring \in Seq(Records) /\ Len(ring) <= RingCap
    BY EmptySeq, KernelAssumption DEF Init, KernelInit
  <2>2. /\ mode \in [Ids -> Modes]
        /\ group \in [Ids -> Ids \cup {NoTask}]
        /\ \A t \in Ids : group[t] = NoTask <=> mode[t] = "free"
    BY KernelAssumption DEF Init, KernelInit, Modes, Running
  <2>3. decoding \in [Ids -> Nat] /\ call \in [Ids -> Nat]
    BY DEF Init, KernelInit
  <2> QED
    BY <2>1, <2>2, <2>3, KernelAssumption DEF Init, KernelInit, KernelTypeOK
<1>2. PumpTypeOK /\ RunTypeOK
  BY EmptySeq DEF Init, PumpTypeOK, RunTypeOK, Phases
<1> QED
  BY <1>1, <1>2, TypeParts

LEMMA NextType == ASSUME TypeOK, ChildWaits, [Next]_vars PROVE TypeOK'
<1>1. CASE EngineNext
  BY <1>1, StartType, HandleRingEventType, LoopType, WaitType, FinishType
     DEF EngineNext
<1>2. CASE KernelStep
  <2>1. KernelTypeOK'
    BY <1>2, KernelStepType, TypeParts DEF KernelStep
  <2>2. PumpTypeOK' /\ RunTypeOK'
    BY <1>2, TypeParts
       DEF KernelStep, PumpTypeOK, RunTypeOK, engineVars, pumpVars, runVars
  <2> QED
    BY <2>1, <2>2, TypePartsNext
<1>3. CASE UNCHANGED vars
  <2>1. KernelTypeOK'
    BY <1>3, TypeParts DEF vars, kernelVars, taskVars, recordVars, KernelTypeOK
  <2>2. PumpTypeOK' /\ RunTypeOK'
    BY <1>3, TypeParts
       DEF vars, engineVars, pumpVars, runVars, PumpTypeOK, RunTypeOK
  <2> QED
    BY <2>1, <2>2, TypePartsNext
<1> QED
  BY <1>1, <1>2, <1>3 DEF Next

(* The types of TmonEngine are an invariant of tmon-linux: the ring never  *)
(* holds more records than it has room for, every history set stays within *)
(* the times that have passed, every id names at most one task.            *)
THEOREM TypeCorrect == Spec => []TypeOK
<1>1. Init => TypeOK /\ ChildWaits
  BY InitType, KernelAssumption DEF Init, KernelInit, ChildWaits
<1>2. TypeOK /\ ChildWaits /\ [Next]_vars => TypeOK' /\ ChildWaits'
  BY NextType, ChildWaitsStep
<1> QED
  BY <1>1, <1>2, PTL DEF Spec

-----------------------------------------------------------------------------
(***************************************************************************)
(* Every tracepoint hit is accounted for at every moment, for every set of *)
(* ids, capacity, configuration and bound.                                 *)
(*                                                                         *)
(* Each step of the kernel names one new time and puts it into the ring,   *)
(* into `lost` or into `missed`; each step of the pump moves times from    *)
(* the ring to the stacks or to the sink, or from a stack to the sink.     *)
(***************************************************************************)

(* The times of a sequence of events handed to the sink.                   *)
Times(events) == UNION {{events[k].ts, events[k].exit} : k \in DOMAIN events}

(* A pending enter has no return value yet: what makes Accounted inductive.*)
PendingOpen ==
  \A t \in Ids : \A k \in 1..Len(pending[t]) : pending[t][k].exit = 0

-----------------------------------------------------------------------------
(* Membership in the places a time can be.                                 *)
LEMMA InRingDef ==
  ASSUME TypeOK
  PROVE  \A n : n \in InRing <=> \E k \in 1..Len(ring) : ring[k].ts = n
<1>1. DOMAIN ring = 1..Len(ring)
  BY LenProperties DEF TypeOK, KernelTypeOK
<1> QED
  BY <1>1 DEF InRing

LEMMA InPendingDef ==
  ASSUME TypeOK
  PROVE  \A n : n \in InPending <=>
           \E t \in Ids : \E k \in 1..Len(pending[t]) : pending[t][k].ts = n
<1>1. \A t \in Ids : DOMAIN pending[t] = 1..Len(pending[t])
  BY LenProperties DEF TypeOK
<1> QED
  BY <1>1 DEF InPending

LEMMA ReportedDef ==
  ASSUME TypeOK
  PROVE  \A n : n \in Reported <=>
           n # 0 /\ \E k \in 1..Len(out) : out[k].ts = n \/ out[k].exit = n
<1>1. DOMAIN out = 1..Len(out)
  BY LenProperties DEF TypeOK
<1> QED
  BY <1>1 DEF Reported

LEMMA TimesDef ==
  ASSUME NEW events \in Seq(Events)
  PROVE  \A n : n \in Times(events) <=>
           \E k \in 1..Len(events) : events[k].ts = n \/ events[k].exit = n
<1>1. DOMAIN events = 1..Len(events)
  BY LenProperties
<1> QED
  BY <1>1 DEF Times

(* What the sink is given is reported.                                     *)
LEMMA EmitReports ==
  ASSUME TypeOK, TypeOK', NEW events \in Seq(Events), Emit(events)
  PROVE  Reported' = Reported \cup (Times(events) \ {0})
<1>1. out \in Seq(Events) /\ out' = out \o events
  BY DEF TypeOK, Emit
<1>2. /\ Len(out') = Len(out) + Len(events)
      /\ \A k \in 1..Len(out) + Len(events) :
           out'[k] = IF k <= Len(out) THEN out[k] ELSE events[k - Len(out)]
  BY <1>1, ConcatProperties
<1>3. Len(out) \in Nat /\ Len(events) \in Nat
  BY <1>1, LenProperties
<1>4. \A n : n \in Reported' <=>
        n # 0 /\ \E k \in 1..Len(out') : out'[k].ts = n \/ out'[k].exit = n
  <2>1. DOMAIN (out') = 1..Len(out')
    BY <1>1, LenProperties, ConcatProperties
  <2> QED
    BY <2>1 DEF Reported
<1>5. ASSUME NEW n, n \in Reported'
      PROVE  n \in Reported \/ (n # 0 /\ n \in Times(events))
  <2>1. PICK k \in 1..Len(out') : n # 0 /\ (out'[k].ts = n \/ out'[k].exit = n)
    BY <1>4, <1>5
  <2>2. CASE k <= Len(out)
    <3>1. k \in 1..Len(out) /\ out'[k] = out[k]
      BY <1>2, <1>3, <2>2
    <3> QED
      BY <2>1, <3>1, ReportedDef
  <2>3. CASE ~(k <= Len(out))
    <3>1. k - Len(out) \in 1..Len(events) /\ out'[k] = events[k - Len(out)]
      BY <1>2, <1>3, <2>3
    <3> QED
      BY <2>1, <3>1, TimesDef
  <2> QED
    BY <2>2, <2>3
<1>6. ASSUME NEW n, n \in Reported PROVE n \in Reported'
  <2>1. PICK k \in 1..Len(out) : n # 0 /\ (out[k].ts = n \/ out[k].exit = n)
    BY <1>6, ReportedDef
  <2>2. k \in 1..Len(out') /\ out'[k] = out[k]
    BY <1>2, <1>3
  <2> QED
    BY <1>4, <2>1, <2>2
<1>7. ASSUME NEW n, n # 0, n \in Times(events) PROVE n \in Reported'
  <2>1. PICK k \in 1..Len(events) : events[k].ts = n \/ events[k].exit = n
    BY <1>7, TimesDef
  <2> DEFINE j == Len(out) + k
  <2>2. j \in 1..Len(out') /\ ~(j <= Len(out)) /\ j - Len(out) = k
    BY <1>2, <1>3
  <2>3. out'[j] = events[k]
    BY <1>2, <2>2
  <2> QED
    BY <1>4, <1>7, <2>1, <2>2, <2>3
<1> QED
  BY <1>5, <1>6, <1>7

-----------------------------------------------------------------------------
(* The kernel's steps.  Each does one of three things to the books.        *)
LEMMA KernelStepRecords ==
  ASSUME KernelTypeOK, KernelNext
  PROVE  \/ \E rec \in Records : rec.ts = Now /\ Observe(rec)
         \/ \E t \in Ids : Overlook(t)
         \/ UNCHANGED recordVars
<1> DEFINE Goal == \/ \E rec \in Records : rec.ts = Now /\ Observe(rec)
                   \/ \E t \in Ids : Overlook(t)
                   \/ UNCHANGED recordVars
<1>1. Now \in Nat /\ 0 \in Nat
  BY DEF Now, KernelTypeOK
<1>2. ASSUME NEW kind, NEW pid, NEW tid, NEW t, NEW of, NEW arg
      PROVE  Record(kind, pid, tid, t, of, arg).ts = Now
  BY DEF Record
<1>3. ASSUME NEW t \in Ids, NEW ptr \in BOOLEAN, SysEnter(t, ptr) PROVE Goal
  <2> DEFINE arg == IF ptr /\ config.decode /\ ~config.returns THEN Now ELSE 0
             rec == Record("SYS_ENTER", group[t], t, t, Now, arg)
  <2>1. Observe(rec) \/ Overlook(t)
    BY <1>3 DEF SysEnter
  <2>2. arg \in Nat /\ group[t] \in Ids /\ mode[t] # "free"
    BY <1>1, <1>3 DEF SysEnter, KernelTypeOK
  <2>3. rec \in Records
    BY <1>1, <2>2, RecordType DEF RecordKinds
  <2> QED
    BY <1>2, <2>1, <2>3
<1>4. ASSUME NEW t \in Ids, SysExit(t) PROVE Goal
  <2> DEFINE arg == IF config.decode THEN decoding[t] ELSE 0
             rec == Record("SYS_EXIT", group[t], t, t, call[t], arg)
  <2>1. Observe(rec) \/ Overlook(t) \/ UNCHANGED recordVars
    BY <1>4 DEF SysExit
  <2>2. arg \in Nat /\ call[t] \in Nat /\ group[t] \in Ids /\ mode[t] # "free"
    BY <1>4 DEF SysExit, KernelTypeOK
  <2>3. rec \in Records
    BY <2>2, RecordType DEF RecordKinds
  <2> QED
    BY <1>2, <2>1, <2>3
<1>5. ASSUME NEW t \in Ids, NEW c \in Ids, NEW thread \in BOOLEAN, Fork(t, c, thread)
      PROVE  Goal
  <2>1. Observe(Record("FORK", t, t, t, 0, 0)) \/ Overlook(t)
    BY <1>5 DEF Fork
  <2>2. mode[t] # "free"
    BY <1>5 DEF Fork
  <2>3. Record("FORK", t, t, t, 0, 0) \in Records
    BY <1>1, <2>2, RecordType DEF RecordKinds
  <2> QED
    BY <1>2, <2>1, <2>3
<1>6. ASSUME NEW t \in Ids, Exec(t) PROVE Goal
  <2> DEFINE g == group[t]
  <2>1. Observe(Record("EXEC", g, g, t, 0, 0)) \/ Overlook(t)
    BY <1>6 DEF Exec
  <2>2. g \in Ids
    BY <1>6 DEF Exec, KernelTypeOK
  <2>3. Record("EXEC", g, g, t, 0, 0) \in Records
    BY <1>1, <2>2 DEF Record, Records, RecordKinds, Now, KernelTypeOK
  <2> QED
    BY <1>2, <2>1, <2>3
<1>7. ASSUME NEW t \in Ids, Exit(t) PROVE Goal
  <2> DEFINE g == group[t]
  <2>1. Observe(Record("EXIT", g, t, t, 0, 0)) \/ Overlook(t)
    BY <1>7 DEF Exit
  <2>2. g \in Ids /\ mode[t] # "free"
    BY <1>7 DEF Exit, KernelTypeOK, Running
  <2>3. Record("EXIT", g, t, t, 0, 0) \in Records
    BY <1>1, <2>2, RecordType DEF RecordKinds
  <2> QED
    BY <1>2, <2>1, <2>3
<1>8. ASSUME NEW p \in Ids, Reap(p) \/ Spawn(p) PROVE Goal
  BY <1>8 DEF Reap, Spawn
<1> QED
  BY <1>3, <1>4, <1>5, <1>6, <1>7, <1>8 DEF KernelNext

LEMMA KernelAccounts ==
  ASSUME TypeOK, TypeOK', Accounted, KernelNext, UNCHANGED engineVars
  PROVE  Accounted'
<1>1. InPending' = InPending /\ Reported' = Reported
  BY DEF InPending, Reported, engineVars, pumpVars
<1>2. clock \in Nat /\ Now = clock + 1 /\ 1..Now = 1..clock \cup {Now}
  BY DEF TypeOK, KernelTypeOK, Now
<1>3. ASSUME NEW rec \in Records, rec.ts = Now, Observe(rec)
      PROVE  Accounted'
  <2>1. clock' = Now /\ missed' = missed
    BY <1>3 DEF Observe
  <2>2. CASE ~RingFull
    <3>1. ring' = Append(ring, rec) /\ lost' = lost /\ ring \in Seq(Records)
      BY <1>3, <2>2 DEF Observe, TypeOK, KernelTypeOK
    <3>2. /\ Len(ring') = Len(ring) + 1 /\ Len(ring) \in Nat
          /\ \A k \in 1..Len(ring) : ring'[k] = ring[k]
          /\ ring'[Len(ring) + 1] = rec
      BY <3>1, AppendProperties, LenProperties
    <3>3. DOMAIN ring = 1..Len(ring) /\ DOMAIN (ring') = 1..Len(ring')
      BY <3>1, LenProperties DEF TypeOK, KernelTypeOK
    <3>4. 1..Len(ring') = 1..Len(ring) \cup {Len(ring) + 1}
      BY <3>2
    <3>5. InRing' = InRing \cup {Now}
      BY <1>3, <3>2, <3>3, <3>4 DEF InRing
    <3> QED
      BY <1>1, <1>2, <2>1, <3>1, <3>5 DEF Accounted
  <2>3. CASE RingFull
    <3>1. ring' = ring /\ lost' = lost \cup {Now}
      BY <1>3, <2>3 DEF Observe
    <3>2. InRing' = InRing
      BY <3>1 DEF InRing
    <3> QED
      BY <1>1, <1>2, <2>1, <3>1, <3>2 DEF Accounted
  <2> QED
    BY <2>2, <2>3
<1>4. ASSUME NEW t \in Ids, Overlook(t) PROVE Accounted'
  <2>1. ring' = ring /\ lost' = lost
    BY <1>4 DEF Overlook
  <2>2. \/ clock' = Now /\ missed' = missed \cup {Now}
        \/ clock' = clock /\ missed' = missed
    BY <1>4 DEF Overlook
  <2>3. InRing' = InRing
    BY <2>1 DEF InRing
  <2> QED
    BY <1>1, <1>2, <2>1, <2>2, <2>3 DEF Accounted
<1>5. ASSUME UNCHANGED recordVars PROVE Accounted'
  BY <1>1, <1>5 DEF recordVars, InRing, Accounted
<1> QED
  BY <1>3, <1>4, <1>5, KernelStepRecords DEF TypeOK

-----------------------------------------------------------------------------
(* The times of a stack, and of all stacks.                                *)
TimesOf(stack) == {stack[k].ts : k \in DOMAIN stack}
StackTimes(p)  == UNION {TimesOf(p[t]) : t \in Ids}

LEMMA StackTimesDef == InPending = StackTimes(pending) /\ InPending' = StackTimes(pending')
BY DEF InPending, StackTimes, TimesOf

LEMMA StackReplaced ==
  ASSUME NEW p \in [Ids -> Seq(Events)], NEW t \in Ids, NEW stack \in Seq(Events)
  PROVE  LET q == [p EXCEPT ![t] = stack] IN
         /\ StackTimes(q) \cup TimesOf(p[t]) = StackTimes(p) \cup TimesOf(stack)
         /\ TimesOf(stack) \subseteq StackTimes(q)
         /\ TimesOf(p[t]) \subseteq StackTimes(p)
<1> DEFINE q == [p EXCEPT ![t] = stack]
<1>1. q[t] = stack /\ \A s \in Ids : s # t => q[s] = p[s]
  OBVIOUS
<1> HIDE DEF q
<1>2. \A n : n \in StackTimes(q) <=> \E s \in Ids : n \in TimesOf(q[s])
  BY DEF StackTimes
<1>3. \A n : n \in StackTimes(p) <=> \E s \in Ids : n \in TimesOf(p[s])
  BY DEF StackTimes
<1>4. /\ StackTimes(q) \cup TimesOf(p[t]) = StackTimes(p) \cup TimesOf(stack)
      /\ TimesOf(stack) \subseteq StackTimes(q)
      /\ TimesOf(p[t]) \subseteq StackTimes(p)
  BY ONLY <1>1, <1>2, <1>3, t \in Ids
<1> QED
  BY <1>4 DEF q

(* What the sequences the pump builds hold.                                *)
LEMMA PushedTimes ==
  ASSUME NEW stack \in Seq(Events), NEW e \in Events
  PROVE  /\ TimesOf(Append(stack, e)) = TimesOf(stack) \cup {e.ts}
         /\ Times(Append(stack, e)) = Times(stack) \cup {e.ts, e.exit}
<1> DEFINE longer == Append(stack, e)
<1>1. /\ Len(stack) \in Nat /\ Len(longer) = Len(stack) + 1
      /\ DOMAIN stack = 1..Len(stack)
      /\ DOMAIN longer = 1..Len(longer)
      /\ \A k \in 1..Len(stack) : longer[k] = stack[k]
      /\ longer[Len(stack) + 1] = e
  BY AppendProperties, LenProperties
<1> HIDE DEF longer
<1>2. DOMAIN longer = DOMAIN stack \cup {Len(stack) + 1}
  BY <1>1
<1>3. TimesOf(longer) = TimesOf(stack) \cup {e.ts}
  BY <1>1, <1>2 DEF TimesOf
<1>4. \A n : n \in Times(longer) <=>
        \E k \in DOMAIN longer : longer[k].ts = n \/ longer[k].exit = n
  BY DEF Times
<1>5. \A n : n \in Times(stack) <=>
        \E k \in DOMAIN stack : stack[k].ts = n \/ stack[k].exit = n
  BY DEF Times
<1>6. Times(longer) = Times(stack) \cup {e.ts, e.exit}
  BY ONLY <1>1, <1>2, <1>4, <1>5
<1> QED
  BY <1>3, <1>6 DEF longer

LEMMA PoppedTimes ==
  ASSUME NEW stack \in Seq(Events), stack # << >>
  PROVE  TimesOf(stack) = TimesOf(Popped(stack)) \cup {stack[Len(stack)].ts}
<1> DEFINE n == Len(stack)
           rest == SubSeq(stack, 1, n - 1)
<1>1. n \in Nat \ {0} /\ DOMAIN stack = 1..n
  BY LenProperties, EmptySeq
<1>2. /\ Len(rest) = n - 1
      /\ \A k \in 1..n - 1 : rest[k] = stack[k]
      /\ DOMAIN rest = 1..n - 1
  BY <1>1, SubSeqProperties, LenProperties
<1> HIDE DEF n, rest
<1>3. 1..n = (1..n - 1) \cup {n}
  BY <1>1
<1>4. TimesOf(stack) = TimesOf(rest) \cup {stack[n].ts}
  BY <1>1, <1>2, <1>3 DEF TimesOf
<1> QED
  BY <1>4 DEF n, rest, Popped

LEMMA SingleTimes ==
  ASSUME NEW e \in Events
  PROVE  <<e>> \in Seq(Events) /\ Times(<<e>>) = {e.ts, e.exit}
<1>1. DOMAIN <<e>> = {1} /\ <<e>>[1] = e
  OBVIOUS
<1> QED
  BY <1>1 DEF Times

(* The times of enters that still wait for their exit.                     *)
LEMMA OpenTimes ==
  ASSUME TypeOK, PendingOpen, NEW t \in Ids
  PROVE  Times(pending[t]) \ {0} = TimesOf(pending[t]) \ {0}
<1>1. DOMAIN pending[t] = 1..Len(pending[t])
  BY LenProperties DEF TypeOK
<1>2. \A k \in DOMAIN pending[t] : pending[t][k].exit = 0
  BY <1>1 DEF PendingOpen
<1>3. \A n : n \in Times(pending[t]) <=>
        \E k \in DOMAIN pending[t] : pending[t][k].ts = n \/ pending[t][k].exit = n
  BY DEF Times
<1>4. \A n : n \in TimesOf(pending[t]) <=> \E k \in DOMAIN pending[t] : pending[t][k].ts = n
  BY DEF TimesOf
<1> QED
  BY <1>2, <1>3, <1>4

LEMMA EmptyTimes == TimesOf(<< >>) = {}
BY DEF TimesOf

(* The record handled leaves the ring.                                     *)
LEMMA RingHead ==
  ASSUME TypeOK, ring # << >>, ring' = Tail(ring)
  PROVE  InRing = InRing' \cup {Head(ring).ts}
<1>1. /\ ring \in Seq(Records) /\ Len(ring) \in Nat \ {0}
      /\ Head(ring) = ring[1]
      /\ Len(ring') = Len(ring) - 1
      /\ \A k \in 1..Len(ring') : ring'[k] = ring[k + 1]
  BY HeadTailProperties, LenProperties, EmptySeq DEF TypeOK, KernelTypeOK
<1>2. DOMAIN ring = 1..Len(ring) /\ DOMAIN (ring') = 1..Len(ring')
  BY <1>1, HeadTailProperties, LenProperties
<1>3. \A n : n \in InRing <=> \E k \in 1..Len(ring) : ring[k].ts = n
  BY <1>2 DEF InRing
<1>4. \A n : n \in InRing' <=> \E k \in 1..Len(ring') : ring'[k].ts = n
  BY <1>2 DEF InRing
<1>5. ASSUME NEW n, n \in InRing PROVE n \in InRing' \cup {Head(ring).ts}
  <2>1. PICK k \in 1..Len(ring) : ring[k].ts = n
    BY <1>3, <1>5
  <2>2. CASE k = 1
    BY <1>1, <2>1, <2>2
  <2>3. CASE k # 1
    <3>1. k - 1 \in 1..Len(ring') /\ (k - 1) + 1 = k
      BY <1>1, <2>3
    <3>2. ring'[k - 1] = ring[(k - 1) + 1]
      BY <1>1, <3>1
    <3>3. ring'[k - 1].ts = n
      BY <2>1, <3>1, <3>2
    <3>4. n \in InRing'
      BY <1>4, <3>1, <3>3
    <3> QED
      BY <3>4
  <2> QED
    BY <2>2, <2>3
<1>6. ASSUME NEW n, n \in InRing' PROVE n \in InRing
  <2>1. PICK k \in 1..Len(ring') : ring'[k].ts = n
    BY <1>4, <1>6
  <2>2. k + 1 \in 1..Len(ring) /\ ring'[k] = ring[k + 1]
    BY <1>1
  <2> QED
    BY <1>3, <2>1, <2>2
<1>7. Head(ring).ts \in InRing
  <2>1. 1 \in 1..Len(ring)
    BY <1>1
  <2> QED
    BY <1>1, <1>3, <2>1
<1> QED
  BY <1>5, <1>6, <1>7

-----------------------------------------------------------------------------
(* The pump's steps.                                                       *)
LEMMA PendingOpenUpdate ==
  ASSUME TypeOK, PendingOpen, NEW t \in Ids, NEW stack \in Seq(Events),
         \A k \in 1..Len(stack) : stack[k].exit = 0,
         pending' = [pending EXCEPT ![t] = stack]
  PROVE  PendingOpen'
BY DEF PendingOpen, TypeOK

(* The enters of a thread are taken off its stack, all at once.            *)
LEMMA StackErased ==
  ASSUME TypeOK, PendingOpen, NEW t \in Ids, Erase(t)
  PROVE  /\ InPending' \cup TimesOf(pending[t]) = InPending
         /\ PendingOpen'
<1> DEFINE none == << >>
<1>1. none \in Seq(Events) /\ \A k \in 1..Len(none) : none[k].exit = 0
  BY EmptySeq
<1>2. pending' = [pending EXCEPT ![t] = none] /\ pending \in [Ids -> Seq(Events)]
  BY DEF Erase, TypeOK
<1>3. TimesOf(none) = {}
  BY EmptyTimes
<1> HIDE DEF none
<1>4. PendingOpen'
  BY <1>1, <1>2, PendingOpenUpdate
<1>5. StackTimes(pending') \cup TimesOf(pending[t]) = StackTimes(pending) \cup TimesOf(none)
  BY <1>1, <1>2, StackReplaced
<1> QED
  BY <1>3, <1>4, <1>5, StackTimesDef

(* The record `w` goes from the ring to a stack or to the sink, with what  *)
(* it takes from its thread's stack.                                       *)
LEMMA HandledAccounts ==
  ASSUME TypeOK, TypeOK', PendingOpen, Accounted, NEW w \in Records,
         HandleEnter(w) \/ HandleExit(w) \/ HandleForkExec(w) \/ HandleTaskExit(w)
  PROVE  /\ InPending' \cup Reported' = InPending \cup Reported \cup {w.ts}
         /\ PendingOpen'
<1> DEFINE e     == DecodeEvent(w)
           stack == pending[w.tid]
           top   == stack[Len(stack)]
           Goal  == /\ InPending' \cup Reported' = InPending \cup Reported \cup {w.ts}
                    /\ PendingOpen'
<1>1. e \in Events /\ w.tid \in Ids /\ w.ts # 0 /\ e.ts = w.ts
  BY DecodeType DEF Records, DecodeEvent
<1>2. stack \in Seq(Events) /\ pending \in [Ids -> Seq(Events)]
  BY <1>1 DEF TypeOK
<1>3. 0 \notin InPending
  BY DEF Accounted, TypeOK, KernelTypeOK
<1>4. TimesOf(stack) \subseteq InPending
  <2>1. TimesOf(stack) \subseteq StackTimes(pending)
    BY <1>1 DEF StackTimes
  <2> QED
    BY <2>1, StackTimesDef
<1>5. \A k \in 1..Len(stack) : stack[k].exit = 0
  BY <1>1 DEF PendingOpen
<1>6. ASSUME UNCHANGED pending PROVE InPending' = InPending /\ PendingOpen'
  BY <1>6 DEF InPending, PendingOpen
<1>7. ASSUME Emit(<<e>>), UNCHANGED pending, e.exit \in {0, w.ts} PROVE Goal
  <2>1. Reported' = Reported \cup ({e.ts, e.exit} \ {0})
    BY <1>1, <1>7, SingleTimes, EmitReports
  <2> QED
    BY <1>1, <1>6, <1>7, <2>1
<1>8. CASE HandleEnter(w)
  <2>1. e.exit = 0
    BY <1>8 DEF HandleEnter, DecodeEvent
  <2>2. CASE config.returns
    <3> DEFINE longer == Append(stack, e)
    <3>1. pending' = [pending EXCEPT ![w.tid] = longer] /\ out' = out
      BY <1>1, <1>2, <1>8, <2>2 DEF HandleEnter, Key, Keep
    <3>2. /\ longer \in Seq(Events)
          /\ Len(longer) = Len(stack) + 1 /\ Len(stack) \in Nat
          /\ \A k \in 1..Len(stack) : longer[k] = stack[k]
          /\ longer[Len(stack) + 1] = e
      BY <1>1, <1>2, AppendProperties, LenProperties
    <3>3. TimesOf(longer) = TimesOf(stack) \cup {w.ts}
      BY <1>1, <1>2, PushedTimes
    <3> HIDE DEF longer, e, stack
    <3>4. \A k \in 1..Len(longer) : longer[k].exit = 0
      BY <1>5, <2>1, <3>2
    <3>5. PendingOpen'
      BY <1>1, <3>1, <3>2, <3>4, PendingOpenUpdate
    <3>6. /\ StackTimes(pending') \cup TimesOf(stack)
                = StackTimes(pending) \cup TimesOf(longer)
          /\ TimesOf(longer) \subseteq StackTimes(pending')
      BY <1>1, <1>2, <3>1, <3>2, StackReplaced DEF stack
    <3>7. InPending' = InPending \cup {w.ts}
      BY <1>4, <3>3, <3>6, StackTimesDef
    <3>8. Reported' = Reported
      BY <3>1 DEF Reported
    <3> QED
      BY <3>5, <3>7, <3>8
  <2>3. CASE ~config.returns
    BY <1>7, <1>8, <2>1, <2>3 DEF HandleEnter
  <2> QED
    BY <2>2, <2>3
<1>9. CASE HandleExit(w)
  <2>1. e.exit = w.ts
    BY <1>9 DEF HandleExit, DecodeEvent
  <2>2. CASE stack # << >>
    <3> DEFINE rest == Popped(stack)
               paired == Paired(top, e)
    <3>1. pending' = [pending EXCEPT ![w.tid] = rest] /\ Emit(<<paired>>)
      BY <1>1, <1>2, <1>9, <2>2 DEF HandleExit, Key
    <3>2. Len(stack) \in Nat \ {0} /\ \A k \in 1..Len(stack) : stack[k] \in Events
      BY <1>2, <2>2, LenProperties, ElementOfSeq, EmptySeq
    <3>3. /\ rest \in Seq(Events) /\ Len(rest) = Len(stack) - 1
          /\ \A k \in 1..Len(stack) - 1 : rest[k] = stack[k]
      BY <1>2, <3>2, SubSeqProperties DEF Popped
    <3>4. top \in Events /\ paired \in Events /\ paired.ts = top.ts /\ paired.exit = w.ts
      <4>1. top \in Events
        BY <3>2
      <4>2. paired \in Events
        BY <1>1, <4>1, PairedType
      <4> HIDE DEF top, e
      <4>3. paired.ts = top.ts /\ paired.exit = e.exit
        BY <4>1 DEF Paired, Events
      <4> QED
        BY <2>1, <4>1, <4>2, <4>3
    <3>5. Reported' = Reported \cup ({top.ts, w.ts} \ {0})
      BY <3>1, <3>4, SingleTimes, EmitReports
    <3>6. TimesOf(stack) = TimesOf(rest) \cup {top.ts}
      BY <1>2, <2>2, PoppedTimes
    <3> HIDE DEF rest, paired, top, e, stack
    <3>7. \A k \in 1..Len(rest) : rest[k].exit = 0
      BY <1>5, <3>2, <3>3
    <3>8. PendingOpen'
      BY <1>1, <3>1, <3>3, <3>7, PendingOpenUpdate
    <3>9. /\ StackTimes(pending') \cup TimesOf(stack)
                = StackTimes(pending) \cup TimesOf(rest)
          /\ TimesOf(rest) \subseteq StackTimes(pending')
      BY <1>1, <1>2, <3>1, <3>3, StackReplaced DEF stack
    <3>10. InPending' \cup {top.ts} = InPending /\ top.ts # 0
      BY <1>3, <1>4, <3>6, <3>9, StackTimesDef
    <3> QED
      BY <1>1, <3>5, <3>8, <3>10
  <2>3. CASE stack = << >>
    <3>1. Emit(<<e>>) /\ UNCHANGED pending
      BY <1>9, <2>3 DEF HandleExit, Key
    <3> QED
      BY <1>7, <2>1, <3>1
  <2> QED
    BY <2>2, <2>3
<1>10. CASE HandleForkExec(w)
  <2>1. e.exit = 0
    BY <1>10 DEF HandleForkExec, DecodeEvent
  <2> QED
    BY <1>7, <1>10, <2>1 DEF HandleForkExec
<1>11. CASE HandleTaskExit(w)
  <2>1. e.exit = 0
    BY <1>11 DEF HandleTaskExit, DecodeEvent
  <2>2. Emit(Append(stack, e)) /\ Append(stack, e) \in Seq(Events)
    BY <1>1, <1>2, <1>11, AppendProperties DEF HandleTaskExit, LeftOver, Key
  <2>3. Times(Append(stack, e)) = Times(stack) \cup {e.ts, e.exit}
    BY <1>1, <1>2, PushedTimes
  <2>4. Times(stack) \ {0} = TimesOf(stack) \ {0}
    BY <1>1, OpenTimes
  <2>5. Reported' = Reported \cup (Times(Append(stack, e)) \ {0})
    BY <2>2, EmitReports
  <2>6. InPending' \cup TimesOf(stack) = InPending /\ PendingOpen'
    BY <1>1, <1>11, StackErased DEF HandleTaskExit, Key
  <2> HIDE DEF e, stack
  <2> QED
    BY <1>1, <1>3, <1>4, <2>1, <2>3, <2>4, <2>5, <2>6
<1> QED
  BY <1>8, <1>9, <1>10, <1>11

LEMMA HandleRingEventAccounts ==
  ASSUME TypeOK, TypeOK', PendingOpen, Accounted, HandleRingEvent
  PROVE  Accounted' /\ PendingOpen'
<1> DEFINE w == Head(ring)
<1>1. w \in Records /\ ring # << >> /\ ring' = Tail(ring)
  BY HeadTailProperties DEF HandleRingEvent, TypeOK, KernelTypeOK
<1>2. /\ InPending' \cup Reported' = InPending \cup Reported \cup {w.ts}
      /\ PendingOpen'
  <2>1. HandleEnter(w) \/ HandleExit(w) \/ HandleForkExec(w) \/ HandleTaskExit(w)
    BY DEF HandleRingEvent
  <2> QED
    BY <1>1, <2>1, HandledAccounts
<1>3. InRing = InRing' \cup {w.ts}
  BY <1>1, RingHead
<1>4. clock' = clock /\ lost' = lost /\ missed' = missed
  BY DEF HandleRingEvent
<1> HIDE DEF w
<1> QED
  BY <1>2, <1>3, <1>4 DEF Accounted

LEMMA FlushAccounts ==
  ASSUME TypeOK, TypeOK', PendingOpen, Accounted, NEW t \in Ids, FlushPending(t)
  PROVE  Accounted' /\ PendingOpen'
<1> DEFINE stack == pending[t]
<1>1. stack \in Seq(Events) /\ Emit(stack)
  BY DEF TypeOK, FlushPending, LeftOver
<1>2. InPending' \cup TimesOf(stack) = InPending /\ PendingOpen'
  BY StackErased DEF FlushPending
<1>3. Reported' = Reported \cup (TimesOf(stack) \ {0})
  BY <1>1, OpenTimes, EmitReports
<1>4. 0 \notin InPending
  BY DEF Accounted, TypeOK, KernelTypeOK
<1>5. InRing' = InRing /\ clock' = clock /\ lost' = lost /\ missed' = missed
  BY DEF FlushPending, kernelVars, recordVars, InRing
<1> HIDE DEF stack
<1>6. InPending' \cup Reported' = InPending \cup Reported
  BY <1>2, <1>3, <1>4
<1> QED
  BY <1>2, <1>5, <1>6 DEF Accounted

(* Every other step leaves the books alone.                                *)
LEMMA OtherAccounts ==
  ASSUME Accounted, PendingOpen, UNCHANGED <<ring, clock, lost, missed, pending, out>>
  PROVE  Accounted' /\ PendingOpen'
BY DEF Accounted, PendingOpen, InRing, InPending, Reported

LEMMA NextAccounts ==
  ASSUME TypeOK, TypeOK', PendingOpen, Accounted, [Next]_vars
  PROVE  Accounted' /\ PendingOpen'
<1>1. CASE KernelStep
  <2>1. PendingOpen'
    BY <1>1 DEF KernelStep, engineVars, pumpVars, PendingOpen
  <2> QED
    BY <1>1, <2>1, KernelAccounts DEF KernelStep
<1>2. CASE UNCHANGED vars
  BY <1>2, OtherAccounts DEF vars, kernelVars, recordVars, engineVars, pumpVars
<1>3. CASE EngineNext
  <2>1. CASE \/ Seed \/ SeedFails \/ ReleaseTarget
             \/ CheckReaps \/ KillTarget \/ ReapKilled
    BY <2>1, OtherAccounts
       DEF Seed, SeedFails, ReleaseTarget, CheckReaps, KillTarget, ReapKilled,
           recordVars, pumpVars
  <2>2. CASE \/ PollReturns \/ PollInterrupted \/ PollFails
             \/ CheckAlive \/ CheckGone \/ Finish \/ WaitFails
    BY <2>2, OtherAccounts
       DEF PollReturns, PollInterrupted, PollFails, CheckAlive, CheckGone, Finish,
           WaitFails, kernelVars, recordVars, pumpVars
  <2>3. CASE HandleRingEvent
    BY <2>3, HandleRingEventAccounts
  <2>4. ASSUME NEW t \in Ids, FlushPending(t)
        PROVE  Accounted' /\ PendingOpen'
    BY <2>4, FlushAccounts
  <2> QED
    BY <1>3, <2>1, <2>2, <2>3, <2>4 DEF EngineNext
<1> QED
  BY <1>1, <1>2, <1>3 DEF Next

LEMMA InitAccounts == Init => Accounted /\ PendingOpen
<1> SUFFICES ASSUME Init PROVE Accounted /\ PendingOpen
  OBVIOUS
<1>1. /\ ring = << >> /\ out = << >> /\ lost = {} /\ missed = {} /\ clock = 0
      /\ \A t \in Ids : pending[t] = << >>
  BY DEF Init, KernelInit
<1>2. DOMAIN << >> = {} /\ 1..0 = {}
  OBVIOUS
<1>3. InRing = {} /\ Reported = {} /\ InPending = {}
  BY <1>1, <1>2 DEF InRing, Reported, InPending
<1>4. PendingOpen
  BY <1>1, EmptySeq DEF PendingOpen
<1> QED
  BY <1>1, <1>2, <1>3, <1>4 DEF Accounted

(* The accounting of TmonEngine is an invariant of tmon-linux: with the    *)
(* counter of refused records known, no tracepoint hit of a traced or      *)
(* followed task disappears between the kernel and the sink, in no         *)
(* interleaving of tracepoints, polls, the kill and the final flush.       *)
THEOREM EverythingAccounted == Spec => []Accounted
<1> DEFINE Inv == TypeOK /\ ChildWaits /\ Accounted /\ PendingOpen
<1>1. Init => Inv
  BY InitType, InitAccounts, KernelAssumption DEF Init, KernelInit, ChildWaits
<1>2. Inv /\ [Next]_vars => Inv'
  BY NextType, ChildWaitsStep, NextAccounts
<1>3. Inv => Accounted
  OBVIOUS
<1> QED
  BY <1>1, <1>2, <1>3, PTL DEF Spec

-----------------------------------------------------------------------------
(***************************************************************************)
(* tmon-linux keeps the books of CaptureLedger, for every set of ids,      *)
(* capacity, configuration and bound.                                      *)
(*                                                                         *)
(* That nothing is reported twice is not inductive: it depends on no two   *)
(* records of the ring, and no two pending enters of any two threads,      *)
(* naming the same tracepoint hit.                                         *)
(***************************************************************************)

(* No two elements of a sequence name the same hit.                        *)
Distinct(s) == \A i, j \in 1..Len(s) : s[i].ts = s[j].ts => i = j

(* The places a hit can be do not overlap, nor does a place name it twice. *)
RingOnce  == Distinct(ring)
StackOnce ==
  /\ \A t \in Ids : Distinct(pending[t])
  /\ \A s, t \in Ids : s # t => TimesOf(pending[s]) \cap TimesOf(pending[t]) = {}
OutOnce   == Distinct(out) /\ 0 \notin TimesOf(out)
Apart     == /\ InPending \cap Reported = {}
             /\ InRing \cap (InPending \cup Reported) = {}
Counted   == dropped = Cardinality(lost)

Once == RingOnce /\ StackOnce /\ OutOnce /\ Apart /\ Counted

-----------------------------------------------------------------------------
(* Sequences of timed things.                                              *)
LEMMA TimesOfDef ==
  ASSUME NEW S, NEW s \in Seq(S)
  PROVE  \A n : n \in TimesOf(s) <=> \E k \in 1..Len(s) : s[k].ts = n
<1>1. DOMAIN s = 1..Len(s)
  BY LenProperties
<1> QED
  BY <1>1 DEF TimesOf

(* Two sequences without a hit in common, one after the other.             *)
LEMMA DistinctConcat ==
  ASSUME NEW S, NEW s \in Seq(S), NEW t \in Seq(S), Distinct(s), Distinct(t),
         TimesOf(s) \cap TimesOf(t) = {}
  PROVE  /\ Distinct(s \o t)
         /\ TimesOf(s \o t) = TimesOf(s) \cup TimesOf(t)
<1> DEFINE both == s \o t
<1>1. /\ both \in Seq(S)
      /\ Len(both) = Len(s) + Len(t)
      /\ \A k \in 1..Len(s) + Len(t) :
           both[k] = IF k <= Len(s) THEN s[k] ELSE t[k - Len(s)]
  BY ConcatProperties
<1>2. Len(s) \in Nat /\ Len(t) \in Nat
  BY LenProperties
<1> HIDE DEF both
<1>3. \A k \in 1..Len(s) : k \in 1..Len(both) /\ both[k] = s[k]
  BY <1>1, <1>2
<1>4. ASSUME NEW k \in 1..Len(both), ~(k <= Len(s))
      PROVE  k - Len(s) \in 1..Len(t) /\ both[k] = t[k - Len(s)]
  BY <1>1, <1>2, <1>4
<1>5. \A n : n \in TimesOf(s) <=> \E k \in 1..Len(s) : s[k].ts = n
  BY TimesOfDef
<1>6. \A n : n \in TimesOf(t) <=> \E k \in 1..Len(t) : t[k].ts = n
  BY TimesOfDef
<1>7. \A n : n \in TimesOf(both) <=> \E k \in 1..Len(both) : both[k].ts = n
  BY <1>1, TimesOfDef
<1>8. Distinct(both)
  <2> SUFFICES ASSUME NEW i \in 1..Len(both), NEW j \in 1..Len(both),
                      both[i].ts = both[j].ts
               PROVE  i = j
    BY DEF Distinct
  <2>1. CASE i <= Len(s) /\ j <= Len(s)
    <3>1. i \in 1..Len(s) /\ j \in 1..Len(s)
      BY <1>1, <1>2, <2>1
    <3> QED
      BY <1>3, <3>1 DEF Distinct
  <2>2. CASE i <= Len(s) /\ ~(j <= Len(s))
    <3>1. i \in 1..Len(s)
      BY <1>1, <1>2, <2>2
    <3>2. both[i].ts \in TimesOf(s) /\ both[j].ts \in TimesOf(t)
      BY <1>3, <1>4, <1>5, <1>6, <2>2, <3>1
    <3> QED
      BY <3>2
  <2>3. CASE ~(i <= Len(s)) /\ j <= Len(s)
    <3>1. j \in 1..Len(s)
      BY <1>1, <1>2, <2>3
    <3>2. both[j].ts \in TimesOf(s) /\ both[i].ts \in TimesOf(t)
      BY <1>3, <1>4, <1>5, <1>6, <2>3, <3>1
    <3> QED
      BY <3>2
  <2>4. CASE ~(i <= Len(s)) /\ ~(j <= Len(s))
    <3>1. i - Len(s) = j - Len(s)
      BY <1>4, <2>4 DEF Distinct
    <3> QED
      BY <1>1, <1>2, <3>1
  <2> QED
    BY <2>1, <2>2, <2>3, <2>4
<1>9. ASSUME NEW n, n \in TimesOf(t) PROVE n \in TimesOf(both)
  <2>1. PICK k \in 1..Len(t) : t[k].ts = n
    BY <1>6, <1>9
  <2>2. /\ k + Len(s) \in 1..Len(both) /\ ~(k + Len(s) <= Len(s))
        /\ (k + Len(s)) - Len(s) = k
    BY <1>1, <1>2
  <2>3. both[k + Len(s)] = t[k]
    BY <1>4, <2>2
  <2> QED
    BY <1>7, <2>1, <2>2, <2>3
<1>10. ASSUME NEW n, n \in TimesOf(both) PROVE n \in TimesOf(s) \cup TimesOf(t)
  <2>1. PICK k \in 1..Len(both) : both[k].ts = n
    BY <1>7, <1>10
  <2>2. CASE k <= Len(s)
    <3>1. k \in 1..Len(s)
      BY <1>1, <1>2, <2>2
    <3> QED
      BY <1>3, <1>5, <2>1, <3>1
  <2>3. CASE ~(k <= Len(s))
    BY <1>4, <1>6, <2>1, <2>3
  <2> QED
    BY <2>2, <2>3
<1>11. TimesOf(s) \subseteq TimesOf(both)
  BY <1>3, <1>5, <1>7
<1> QED
  BY <1>8, <1>9, <1>10, <1>11 DEF both

LEMMA DistinctSingle ==
  ASSUME NEW S, NEW e \in S
  PROVE  <<e>> \in Seq(S) /\ Distinct(<<e>>) /\ TimesOf(<<e>>) = {e.ts}
<1>1. <<e>> \in Seq(S) /\ Len(<<e>>) = 1 /\ DOMAIN <<e>> = {1} /\ <<e>>[1] = e
  OBVIOUS
<1>2. 1..1 = {1}
  OBVIOUS
<1> QED
  BY <1>1, <1>2 DEF Distinct, TimesOf

(* One more thing, with a hit of its own.                                  *)
LEMMA DistinctAppend ==
  ASSUME NEW S, NEW s \in Seq(S), NEW e \in S, Distinct(s), e.ts \notin TimesOf(s)
  PROVE  /\ Distinct(Append(s, e))
         /\ TimesOf(Append(s, e)) = TimesOf(s) \cup {e.ts}
<1> DEFINE one == <<e>>
<1>1. Append(s, e) = s \o one
  BY AppendIsConcat
<1>2. one \in Seq(S) /\ Distinct(one) /\ TimesOf(one) = {e.ts}
  BY DistinctSingle
<1> HIDE DEF one
<1>3. TimesOf(s) \cap TimesOf(one) = {}
  BY <1>2
<1> QED
  BY <1>1, <1>2, <1>3, DistinctConcat

(* The first thing goes.                                                   *)
LEMMA DistinctTail ==
  ASSUME NEW S, NEW s \in Seq(S), s # << >>, Distinct(s)
  PROVE  /\ Distinct(Tail(s))
         /\ Head(s).ts \notin TimesOf(Tail(s))
<1> DEFINE rest == Tail(s)
<1>1. /\ Head(s) = s[1] /\ rest \in Seq(S)
      /\ Len(s) \in Nat \ {0} /\ Len(rest) = Len(s) - 1
      /\ \A k \in 1..Len(rest) : rest[k] = s[k + 1]
  BY HeadTailProperties, LenProperties, EmptySeq
<1> HIDE DEF rest
<1>2. \A k \in 1..Len(rest) : k + 1 \in 1..Len(s) /\ k + 1 # 1
  BY <1>1
<1>3. Distinct(rest)
  <2> SUFFICES ASSUME NEW i \in 1..Len(rest), NEW j \in 1..Len(rest),
                      rest[i].ts = rest[j].ts
               PROVE  i = j
    BY DEF Distinct
  <2>1. i + 1 = j + 1
    BY <1>1, <1>2 DEF Distinct
  <2> QED
    BY <1>1, <2>1
<1>4. \A k \in 1..Len(rest) : rest[k].ts # s[1].ts
  <2>1. 1 \in 1..Len(s)
    BY <1>1
  <2> QED
    BY <1>1, <1>2, <2>1 DEF Distinct
<1>5. Head(s).ts \notin TimesOf(rest)
  BY <1>1, <1>4, TimesOfDef
<1> QED
  BY <1>3, <1>5 DEF rest

(* The last thing goes.                                                    *)
LEMMA DistinctPopped ==
  ASSUME NEW s \in Seq(Events), s # << >>, Distinct(s)
  PROVE  /\ Distinct(Popped(s))
         /\ TimesOf(Popped(s)) = TimesOf(s) \ {s[Len(s)].ts}
<1> DEFINE n == Len(s)
           rest == SubSeq(s, 1, n - 1)
<1>1. n \in Nat \ {0} /\ \A k \in 1..n : s[k] \in Events
  BY LenProperties, EmptySeq, ElementOfSeq
<1>2. /\ rest \in Seq(Events) /\ Len(rest) = n - 1
      /\ \A k \in 1..n - 1 : rest[k] = s[k]
  <2>1. 1 \in Int /\ n - 1 \in Int /\ \A k \in 1..n - 1 : s[k] \in Events
    BY <1>1
  <2> HIDE DEF n
  <2> QED
    BY <1>1, <2>1, SubSeqProperties
<1>3. TimesOf(s) = TimesOf(rest) \cup {s[n].ts}
  BY PoppedTimes DEF Popped
<1> HIDE DEF rest, n
<1>4. Distinct(rest)
  <2>1. \A k \in 1..n - 1 : k \in 1..n
    BY <1>1
  <2> QED
    BY <1>2, <2>1 DEF Distinct, n
<1>5. s[n].ts \notin TimesOf(rest)
  <2>1. \A k \in 1..n - 1 : k \in 1..n /\ k # n
    BY <1>1
  <2>2. n \in 1..n
    BY <1>1
  <2>3. \A k \in 1..n - 1 : rest[k].ts # s[n].ts
    BY <1>2, <2>1, <2>2 DEF Distinct, n
  <2> QED
    BY <1>2, <2>3, TimesOfDef
<1>6. TimesOf(rest) = TimesOf(s) \ {s[n].ts}
  BY <1>3, <1>5
<1> QED
  BY <1>4, <1>6 DEF rest, n, Popped

-----------------------------------------------------------------------------
(* One stack is replaced by another whose hits no other stack has.         *)
LEMMA StackOnceUpdate ==
  ASSUME TypeOK, StackOnce, NEW t \in Ids, NEW stack \in Seq(Events),
         Distinct(stack),
         TimesOf(stack) \cap (InPending \ TimesOf(pending[t])) = {},
         pending' = [pending EXCEPT ![t] = stack]
  PROVE  /\ StackOnce'
         /\ InPending' = (InPending \ TimesOf(pending[t])) \cup TimesOf(stack)
<1>1. \A s \in Ids : pending'[s] = IF s = t THEN stack ELSE pending[s]
  BY DEF TypeOK
<1>2. \A n : n \in InPending <=> \E s \in Ids : n \in TimesOf(pending[s])
  BY StackTimesDef DEF StackTimes
<1>3. \A n : n \in InPending' <=> \E s \in Ids : n \in TimesOf(pending'[s])
  BY StackTimesDef DEF StackTimes
<1>4. \A s \in Ids : Distinct(pending'[s])
  BY <1>1 DEF StackOnce
<1>5. \A s \in Ids : s # t => TimesOf(pending[s]) \cap TimesOf(pending[t]) = {}
  BY DEF StackOnce
<1>6. \A s \in Ids : s # t => TimesOf(pending[s]) \cap TimesOf(stack) = {}
  BY <1>2, <1>5
<1>7. \A r, s \in Ids : r # s => TimesOf(pending'[r]) \cap TimesOf(pending'[s]) = {}
  BY <1>1, <1>6 DEF StackOnce
<1>8. InPending' = (InPending \ TimesOf(pending[t])) \cup TimesOf(stack)
  BY <1>1, <1>2, <1>3, <1>5
<1>9. StackOnce'
  BY <1>4, <1>7 DEF StackOnce
<1> QED
  BY <1>8, <1>9

LEMMA StackEmptied ==
  ASSUME TypeOK, StackOnce, NEW t \in Ids, Erase(t)
  PROVE  StackOnce' /\ InPending' = InPending \ TimesOf(pending[t])
<1> DEFINE none == << >>
<1>1. none \in Seq(Events) /\ Distinct(none) /\ TimesOf(none) = {}
  BY EmptySeq, EmptyTimes DEF Distinct
<1>2. pending' = [pending EXCEPT ![t] = none]
  BY DEF Erase
<1> HIDE DEF none
<1> QED
  BY <1>1, <1>2, StackOnceUpdate

(* Events with hits of their own reach the sink.                           *)
LEMMA OutOnceUpdate ==
  ASSUME TypeOK, OutOnce, NEW events \in Seq(Events), Emit(events),
         Distinct(events), 0 \notin TimesOf(events),
         TimesOf(events) \cap Reported = {}
  PROVE  OutOnce'
<1>1. out \in Seq(Events) /\ out' = out \o events
  BY DEF TypeOK, Emit
<1>2. TimesOf(out) \subseteq Reported
  <2>1. \A n \in TimesOf(out) : n # 0 /\ \E k \in 1..Len(out) : out[k].ts = n
    BY <1>1, TimesOfDef DEF OutOnce
  <2> QED
    BY <2>1, ReportedDef
<1>3. TimesOf(out) \cap TimesOf(events) = {}
  BY <1>2
<1> QED
  BY <1>1, <1>3, DistinctConcat DEF OutOnce

-----------------------------------------------------------------------------
(* The kernel's steps.                                                     *)
LEMMA PlacesKnown ==
  ASSUME TypeOK, Accounted
  PROVE  /\ clock \in Nat /\ Now = clock + 1 /\ Now \notin 1..clock
         /\ InRing \subseteq 1..clock
         /\ InPending \subseteq 1..clock
         /\ Reported \subseteq 1..clock
         /\ lost \subseteq 1..clock
         /\ 0 \notin InRing \cup InPending \cup Reported
<1>1. clock \in Nat /\ Now = clock + 1
  BY DEF TypeOK, KernelTypeOK, Now
<1>2. Now \notin 1..clock /\ 0 \notin 1..clock
  BY <1>1
<1> QED
  BY <1>1, <1>2 DEF Accounted

LEMMA RefusalCounted ==
  ASSUME TypeOK, Accounted, Counted, CountDrop, lost' = lost \cup {Now}
  PROVE  Counted'
<1>1. IsFiniteSet(1..clock)
  BY PlacesKnown, FS_Interval
<1>2. IsFiniteSet(lost) /\ Now \notin lost
  BY <1>1, PlacesKnown, FS_Subset
<1>3. Cardinality(lost \cup {Now}) = Cardinality(lost) + 1
  BY <1>2, FS_AddElement
<1> QED
  BY <1>3 DEF Counted, CountDrop

(* Every hit of a tracepoint is captured, refused or not seen; and what is *)
(* not a hit leaves the books alone.                                       *)
LEMMA KernelBooks ==
  ASSUME TypeOK, TypeOK', Accounted, Once, KernelNext, UNCHANGED engineVars
  PROVE  Once' /\ [Ledger!LedgerNext]_(Ledger!ledger)
<1> DEFINE Goal == Once' /\ [Ledger!LedgerNext]_(Ledger!ledger)
<1>1. /\ InPending' = InPending /\ Reported' = Reported
      /\ StackOnce' /\ OutOnce' /\ phase' = phase
  BY DEF InPending, Reported, engineVars, pumpVars, runVars, Once, StackOnce, OutOnce
<1>2. ASSUME NEW rec \in Records, rec.ts = Now, Observe(rec) PROVE Goal
  <2>1. clock' = clock + 1 /\ missed' = missed
    BY <1>2, PlacesKnown DEF Observe
  <2>2. CASE ~RingFull
    <3>1. /\ ring' = Append(ring, rec) /\ lost' = lost /\ dropped' = dropped
          /\ ring \in Seq(Records) /\ Distinct(ring)
      BY <1>2, <2>2 DEF Observe, TypeOK, KernelTypeOK, Once, RingOnce
    <3>2. InRing = TimesOf(ring) /\ InRing' = TimesOf(ring')
      BY DEF InRing, TimesOf
    <3>3. rec.ts \notin TimesOf(ring)
      BY <1>2, <3>2, PlacesKnown
    <3>4. RingOnce' /\ InRing' = InRing \cup {Now}
      BY <1>2, <3>1, <3>2, <3>3, DistinctAppend DEF RingOnce
    <3>5. Apart'
      BY <1>1, <3>4, PlacesKnown DEF Once, Apart
    <3>6. Once'
      BY <1>1, <3>1, <3>4, <3>5 DEF Once, Counted
    <3>7. Ledger!Capture
      BY <1>1, <2>1, <3>1, <3>4, PlacesKnown DEF Ledger!Capture
    <3> QED
      BY <3>6, <3>7 DEF Ledger!LedgerNext
  <2>3. CASE RingFull
    <3>1. ring' = ring /\ lost' = lost \cup {Now} /\ CountDrop
      BY <1>2, <2>3 DEF Observe
    <3>2. InRing' = InRing /\ RingOnce'
      BY <3>1 DEF InRing, Once, RingOnce
    <3>3. Apart' /\ Counted'
      BY <1>1, <3>1, <3>2, RefusalCounted DEF Once, Apart
    <3>4. Once'
      BY <1>1, <3>2, <3>3 DEF Once
    <3>5. Ledger!Refuse
      BY <1>1, <2>1, <3>1, <3>2, PlacesKnown DEF Ledger!Refuse, CountDrop
    <3> QED
      BY <3>4, <3>5 DEF Ledger!LedgerNext
  <2> QED
    BY <2>2, <2>3
<1>3. ASSUME NEW t \in Ids, Overlook(t) PROVE Goal
  <2>1. ring' = ring /\ lost' = lost /\ dropped' = dropped
    BY <1>3 DEF Overlook
  <2>2. InRing' = InRing /\ RingOnce'
    BY <2>1 DEF InRing, Once, RingOnce
  <2>3. Apart'
    BY <1>1, <2>2 DEF Once, Apart
  <2>4. Counted'
    BY <2>1 DEF Once, Counted
  <2>5. Once'
    BY <1>1, <2>2, <2>3, <2>4 DEF Once
  <2>6. CASE clock' = Now /\ missed' = missed \cup {Now}
    <3>1. Ledger!Miss
      BY <1>1, <2>1, <2>2, <2>6, PlacesKnown DEF Ledger!Miss
    <3> QED
      BY <2>5, <3>1 DEF Ledger!LedgerNext
  <2>7. CASE clock' = clock /\ missed' = missed
    <3>1. UNCHANGED Ledger!ledger
      BY <1>1, <2>1, <2>2, <2>7 DEF Ledger!ledger
    <3> QED
      BY <2>5, <3>1
  <2> QED
    BY <1>3, <2>6, <2>7 DEF Overlook
<1>4. ASSUME UNCHANGED recordVars PROVE Goal
  <2>1. /\ ring' = ring /\ lost' = lost /\ dropped' = dropped
        /\ clock' = clock /\ missed' = missed
    BY <1>4 DEF recordVars
  <2>2. InRing' = InRing /\ RingOnce'
    BY <2>1 DEF InRing, Once, RingOnce
  <2>3. Once'
    BY <1>1, <2>1, <2>2 DEF Once, Apart, Counted
  <2>4. UNCHANGED Ledger!ledger
    BY <1>1, <2>1, <2>2 DEF Ledger!ledger
  <2> QED
    BY <2>3, <2>4
<1> QED
  BY <1>2, <1>3, <1>4, KernelStepRecords DEF TypeOK

-----------------------------------------------------------------------------
(* A step of the pump moves hits between the places, never away from the   *)
(* sink: to the books, a report or nothing at all.                         *)
LEMMA PumpBooks ==
  ASSUME Apart, Apart', phase # "done", phase' # "done",
         UNCHANGED <<clock, dropped, lost, missed>>,
         Reported \subseteq Reported',
         (InRing \cup InPending \cup Reported)' = InRing \cup InPending \cup Reported
  PROVE  [Ledger!LedgerNext]_(Ledger!ledger)
<1>1. (InRing \cup InPending)' = (InRing \cup InPending) \ Reported'
  BY DEF Apart
<1>2. CASE Reported' = Reported
  <2>1. (InRing \cup InPending)' = InRing \cup InPending
    BY <1>1, <1>2 DEF Apart
  <2> QED
    BY <1>2, <2>1 DEF Ledger!ledger
<1>3. CASE Reported' # Reported
  <2>1. Reported' \ Reported \subseteq InRing \cup InPending
    OBVIOUS
  <2>2. Ledger!Report
    BY <1>1, <1>3, <2>1 DEF Ledger!Report
  <2> QED
    BY <2>2 DEF Ledger!LedgerNext
<1> QED
  BY <1>2, <1>3

(* The record `w`, whose hit no stack and no event has, goes to a stack or *)
(* to the sink.                                                            *)
LEMMA HandledOnce ==
  ASSUME TypeOK, TypeOK', PendingOpen, Accounted, Once, NEW w \in Records,
         w.ts \notin InPending \cup Reported,
         HandleEnter(w) \/ HandleExit(w) \/ HandleForkExec(w) \/ HandleTaskExit(w)
  PROVE  /\ StackOnce' /\ OutOnce'
         /\ InPending' \cap Reported' = {}
         /\ Reported \subseteq Reported'
<1> DEFINE e     == DecodeEvent(w)
           stack == pending[w.tid]
           top   == stack[Len(stack)]
           Goal  == /\ StackOnce' /\ OutOnce'
                    /\ InPending' \cap Reported' = {}
                    /\ Reported \subseteq Reported'
<1>1. e \in Events /\ w.tid \in Ids /\ w.ts # 0 /\ e.ts = w.ts
  BY DecodeType DEF Records, DecodeEvent
<1>2. stack \in Seq(Events) /\ pending \in [Ids -> Seq(Events)] /\ Distinct(stack)
  BY <1>1 DEF TypeOK, Once, StackOnce
<1>3. TimesOf(stack) \subseteq InPending
  <2>1. TimesOf(stack) \subseteq StackTimes(pending)
    BY <1>1 DEF StackTimes
  <2> QED
    BY <2>1, StackTimesDef
<1>4. /\ StackOnce /\ OutOnce /\ InPending \cap Reported = {}
      /\ 0 \notin InPending
  BY PlacesKnown DEF Once, Apart
<1>5. w.ts \notin TimesOf(stack)
  BY <1>3
<1>6. ASSUME Emit(<<e>>), UNCHANGED pending, e.exit \in {0, w.ts} PROVE Goal
  <2>1. Reported' = Reported \cup ({e.ts, e.exit} \ {0})
    BY <1>1, <1>6, SingleTimes, EmitReports
  <2>2. InPending' = InPending /\ StackOnce'
    BY <1>4, <1>6 DEF InPending, StackOnce
  <2> DEFINE one == <<e>>
  <2>3. one \in Seq(Events) /\ Distinct(one) /\ TimesOf(one) = {w.ts}
    BY <1>1, DistinctSingle
  <2> HIDE DEF one
  <2>4. Emit(one)
    BY <1>6 DEF one
  <2>5. OutOnce'
    BY <1>1, <1>4, <2>3, <2>4, OutOnceUpdate
  <2> QED
    BY <1>1, <1>4, <1>6, <2>1, <2>2, <2>5
<1>7. CASE HandleEnter(w)
  <2>1. e.exit = 0
    BY <1>7 DEF HandleEnter, DecodeEvent
  <2>2. CASE config.returns
    <3> DEFINE longer == Append(stack, e)
    <3>1. pending' = [pending EXCEPT ![w.tid] = longer] /\ out' = out
      BY <1>1, <1>2, <1>7, <2>2 DEF HandleEnter, Key, Keep
    <3>2. longer \in Seq(Events)
      BY <1>1, <1>2, AppendProperties
    <3>3. Distinct(longer) /\ TimesOf(longer) = TimesOf(stack) \cup {w.ts}
      BY <1>1, <1>2, <1>5, DistinctAppend
    <3> HIDE DEF longer, e
    <3>4. /\ StackOnce'
          /\ InPending' = (InPending \ TimesOf(stack)) \cup TimesOf(longer)
      <4>1. TimesOf(longer) \cap (InPending \ TimesOf(stack)) = {}
        BY <3>3
      <4> QED
        BY <1>1, <1>4, <3>1, <3>2, <3>3, <4>1, StackOnceUpdate
    <3>5. InPending' = InPending \cup {w.ts}
      BY <1>3, <3>3, <3>4
    <3>6. Reported' = Reported /\ OutOnce'
      BY <1>4, <3>1 DEF Reported, OutOnce
    <3> QED
      BY <1>4, <3>4, <3>5, <3>6
  <2>3. CASE ~config.returns
    BY <1>6, <1>7, <2>1, <2>3 DEF HandleEnter
  <2> QED
    BY <2>2, <2>3
<1>8. CASE HandleExit(w)
  <2>1. e.exit = w.ts
    BY <1>8 DEF HandleExit, DecodeEvent
  <2>2. CASE stack # << >>
    <3> DEFINE rest == Popped(stack)
               paired == Paired(top, e)
               one == <<paired>>
    <3>1. pending' = [pending EXCEPT ![w.tid] = rest] /\ Emit(one)
      BY <1>1, <1>2, <1>8, <2>2 DEF HandleExit, Key
    <3>2. Len(stack) \in Nat \ {0} /\ \A k \in 1..Len(stack) : stack[k] \in Events
      BY <1>2, <2>2, LenProperties, ElementOfSeq, EmptySeq
    <3>3. rest \in Seq(Events)
      BY <1>2, <3>2, SubSeqProperties DEF Popped
    <3>4. top \in Events /\ paired \in Events /\ paired.ts = top.ts /\ paired.exit = w.ts
      <4>1. top \in Events
        BY <3>2
      <4>2. paired \in Events
        BY <1>1, <4>1, PairedType
      <4> HIDE DEF top, e
      <4>3. paired.ts = top.ts /\ paired.exit = e.exit
        BY <4>1 DEF Paired, Events
      <4> QED
        BY <2>1, <4>1, <4>2, <4>3
    <3>5. Reported' = Reported \cup ({top.ts, w.ts} \ {0})
      BY <3>1, <3>4, SingleTimes, EmitReports
    <3>6. Distinct(rest) /\ TimesOf(rest) = TimesOf(stack) \ {top.ts}
      BY <1>2, <2>2, DistinctPopped
    <3>7. one \in Seq(Events) /\ Distinct(one) /\ TimesOf(one) = {top.ts}
      BY <3>4, DistinctSingle
    <3>8. top.ts \in TimesOf(stack)
      <4>1. Len(stack) \in 1..Len(stack)
        BY <3>2
      <4> QED
        BY <1>2, <4>1, TimesOfDef
    <3> HIDE DEF rest, paired, one, top, e, stack
    <3>9. /\ StackOnce'
          /\ InPending' = (InPending \ TimesOf(stack)) \cup TimesOf(rest)
      <4>1. TimesOf(rest) \cap (InPending \ TimesOf(stack)) = {}
        BY <3>6
      <4> QED
        BY <1>1, <1>4, <3>1, <3>3, <3>6, <4>1, StackOnceUpdate DEF stack
    <3>10. InPending' = InPending \ {top.ts}
      BY <1>3, <3>6, <3>8, <3>9
    <3>11. OutOnce'
      BY <1>3, <1>4, <3>1, <3>7, <3>8, OutOnceUpdate
    <3> QED
      BY <1>4, <3>5, <3>9, <3>10, <3>11
  <2>3. CASE stack = << >>
    <3>1. Emit(<<e>>) /\ UNCHANGED pending
      BY <1>8, <2>3 DEF HandleExit, Key
    <3> QED
      BY <1>6, <2>1, <3>1
  <2> QED
    BY <2>2, <2>3
<1>9. CASE HandleForkExec(w)
  <2>1. e.exit = 0
    BY <1>9 DEF HandleForkExec, DecodeEvent
  <2> QED
    BY <1>6, <1>9, <2>1 DEF HandleForkExec
<1>10. CASE HandleTaskExit(w)
  <2> DEFINE all == Append(stack, e)
  <2>1. e.exit = 0
    BY <1>10 DEF HandleTaskExit, DecodeEvent
  <2>2. Emit(all) /\ all \in Seq(Events)
    BY <1>1, <1>2, <1>10, AppendProperties DEF HandleTaskExit, LeftOver, Key
  <2>3. Times(all) = Times(stack) \cup {e.ts, e.exit}
    BY <1>1, <1>2, PushedTimes
  <2>4. Times(stack) \ {0} = TimesOf(stack) \ {0}
    BY <1>1, OpenTimes
  <2>5. Distinct(all) /\ TimesOf(all) = TimesOf(stack) \cup {w.ts}
    BY <1>1, <1>2, <1>5, DistinctAppend
  <2> HIDE DEF e, all
  <2>6. Reported' = Reported \cup (Times(all) \ {0})
    BY <2>2, EmitReports
  <2>7. StackOnce' /\ InPending' = InPending \ TimesOf(stack)
    BY <1>1, <1>4, <1>10, StackEmptied DEF HandleTaskExit, Key
  <2> HIDE DEF stack
  <2>8. OutOnce'
    BY <1>1, <1>3, <1>4, <2>2, <2>5, OutOnceUpdate
  <2> QED
    BY <1>1, <1>3, <1>4, <2>1, <2>3, <2>4, <2>6, <2>7, <2>8
<1> QED
  BY <1>7, <1>8, <1>9, <1>10

LEMMA HandleRingEventBooks ==
  ASSUME TypeOK, TypeOK', PendingOpen, Accounted, Once, HandleRingEvent
  PROVE  Once' /\ [Ledger!LedgerNext]_(Ledger!ledger)
<1> DEFINE w == Head(ring)
<1>1. /\ w \in Records /\ ring # << >> /\ ring' = Tail(ring)
      /\ ring \in Seq(Records) /\ Distinct(ring)
  BY HeadTailProperties DEF HandleRingEvent, TypeOK, KernelTypeOK, Once, RingOnce
<1>2. HandleEnter(w) \/ HandleExit(w) \/ HandleForkExec(w) \/ HandleTaskExit(w)
  BY DEF HandleRingEvent
<1>3. InRing = InRing' \cup {w.ts}
  BY <1>1, RingHead
<1>4. RingOnce' /\ w.ts \notin InRing'
  <2>1. Distinct(ring') /\ w.ts \notin TimesOf(ring')
    BY <1>1, DistinctTail
  <2> QED
    BY <2>1 DEF RingOnce, InRing, TimesOf
<1> HIDE DEF w
<1>5. w.ts \notin InPending \cup Reported
  BY <1>3 DEF Once, Apart
<1>6. /\ StackOnce' /\ OutOnce'
      /\ InPending' \cap Reported' = {}
      /\ Reported \subseteq Reported'
  BY <1>1, <1>2, <1>5, HandledOnce
<1>7. InPending' \cup Reported' = InPending \cup Reported \cup {w.ts}
  BY <1>1, <1>2, HandledAccounts
<1>8. Apart'
  BY <1>3, <1>4, <1>6, <1>7 DEF Once, Apart
<1>9. UNCHANGED <<clock, dropped, lost, missed>> /\ phase # "done" /\ phase' # "done"
  BY DEF HandleRingEvent
<1>10. Once'
  BY <1>4, <1>6, <1>8, <1>9 DEF Once, Counted
<1>11. (InRing \cup InPending \cup Reported)' = InRing \cup InPending \cup Reported
  BY <1>3, <1>7
<1>12. [Ledger!LedgerNext]_(Ledger!ledger)
  BY <1>6, <1>8, <1>9, <1>11, PumpBooks DEF Once
<1> QED
  BY <1>10, <1>12

LEMMA FlushBooks ==
  ASSUME TypeOK, TypeOK', PendingOpen, Accounted, Once, NEW t \in Ids, FlushPending(t)
  PROVE  Once' /\ [Ledger!LedgerNext]_(Ledger!ledger)
<1> DEFINE stack == pending[t]
<1>1. stack \in Seq(Events) /\ Emit(stack) /\ Distinct(stack)
  BY DEF TypeOK, FlushPending, LeftOver, Once, StackOnce
<1>2. StackOnce' /\ InPending' = InPending \ TimesOf(stack)
  BY StackEmptied DEF FlushPending, Once
<1>3. Reported' = Reported \cup (TimesOf(stack) \ {0})
  BY <1>1, OpenTimes, EmitReports
<1>4. TimesOf(stack) \subseteq InPending
  <2>1. TimesOf(stack) \subseteq StackTimes(pending)
    BY DEF StackTimes
  <2> QED
    BY <2>1, StackTimesDef
<1>5. /\ ring' = ring /\ UNCHANGED <<clock, dropped, lost, missed>>
      /\ phase # "done" /\ phase' # "done"
  BY DEF FlushPending, kernelVars, recordVars, runVars
<1>6. InRing' = InRing /\ RingOnce'
  BY <1>5 DEF InRing, Once, RingOnce
<1> HIDE DEF stack
<1>7. OutOnce'
  BY <1>1, <1>4, OutOnceUpdate, PlacesKnown DEF Once, Apart
<1>8. Apart'
  BY <1>2, <1>3, <1>4, <1>6 DEF Once, Apart
<1>9. Once'
  BY <1>2, <1>5, <1>6, <1>7, <1>8 DEF Once, Counted
<1>10. (InRing \cup InPending \cup Reported)' = InRing \cup InPending \cup Reported
  BY <1>2, <1>3, <1>4, <1>6, PlacesKnown
<1>11. [Ledger!LedgerNext]_(Ledger!ledger)
  BY <1>3, <1>5, <1>8, <1>10, PumpBooks DEF Once
<1> QED
  BY <1>9, <1>11

(* Every other step moves nothing; one of them closes the books.           *)
LEMMA OtherBooks ==
  ASSUME Once, UNCHANGED <<ring, clock, lost, missed, dropped, pending, out>>,
         phase = "done" => phase' = "done"
  PROVE  Once' /\ [Ledger!LedgerNext]_(Ledger!ledger)
<1>1. InRing' = InRing /\ InPending' = InPending /\ Reported' = Reported
  BY DEF InRing, InPending, Reported
<1>2. Once'
  BY <1>1 DEF Once, RingOnce, StackOnce, OutOnce, Apart, Counted
<1>3. CASE phase # "done" /\ phase' = "done"
  <2>1. Ledger!Close
    BY <1>1, <1>3 DEF Ledger!Close
  <2> QED
    BY <1>2, <2>1 DEF Ledger!LedgerNext
<1>4. CASE ~(phase # "done" /\ phase' = "done")
  <2>1. (phase = "done") = (phase' = "done")
    BY <1>4
  <2>2. UNCHANGED Ledger!ledger
    BY <1>1, <2>1 DEF Ledger!ledger
  <2> QED
    BY <1>2, <2>2
<1> QED
  BY <1>3, <1>4

LEMMA NextBooks ==
  ASSUME TypeOK, TypeOK', PendingOpen, Accounted, Once, [Next]_vars
  PROVE  Once' /\ [Ledger!LedgerNext]_(Ledger!ledger)
<1>1. CASE KernelStep
  BY <1>1, KernelBooks DEF KernelStep
<1>2. CASE UNCHANGED vars
  BY <1>2, OtherBooks
     DEF vars, kernelVars, recordVars, engineVars, pumpVars, runVars
<1>3. CASE EngineNext
  <2>1. CASE \/ Seed \/ SeedFails \/ ReleaseTarget
             \/ CheckReaps \/ KillTarget \/ ReapKilled
    BY <2>1, OtherBooks
       DEF Seed, SeedFails, ReleaseTarget, CheckReaps, KillTarget, ReapKilled,
           recordVars, pumpVars
  <2>2. CASE \/ PollReturns \/ PollInterrupted \/ PollFails
             \/ CheckAlive \/ CheckGone \/ Finish \/ WaitFails
    BY <2>2, OtherBooks
       DEF PollReturns, PollInterrupted, PollFails, CheckAlive, CheckGone, Finish,
           WaitFails, kernelVars, recordVars, pumpVars
  <2>3. CASE HandleRingEvent
    BY <2>3, HandleRingEventBooks
  <2>4. ASSUME NEW t \in Ids, FlushPending(t)
        PROVE  Once' /\ [Ledger!LedgerNext]_(Ledger!ledger)
    BY <2>4, FlushBooks
  <2> QED
    BY <1>3, <2>1, <2>2, <2>3, <2>4 DEF EngineNext
<1> QED
  BY <1>1, <1>2, <1>3 DEF Next

LEMMA InitBooks == Init => Once /\ Ledger!LedgerInit
<1> SUFFICES ASSUME Init PROVE Once /\ Ledger!LedgerInit
  OBVIOUS
<1>1. /\ ring = << >> /\ out = << >> /\ lost = {} /\ missed = {} /\ clock = 0
      /\ dropped = 0 /\ phase = "seed"
      /\ \A t \in Ids : pending[t] = << >>
  BY DEF Init, KernelInit
<1>2. DOMAIN << >> = {} /\ Len(<< >>) = 0 /\ 1..0 = {}
  OBVIOUS
<1>3. InRing = {} /\ Reported = {} /\ InPending = {}
  BY <1>1, <1>2 DEF InRing, Reported, InPending
<1>4. Distinct(<< >>)
  BY <1>2 DEF Distinct
<1>5. RingOnce /\ StackOnce /\ OutOnce
  BY <1>1, <1>4, EmptyTimes DEF RingOnce, StackOnce, OutOnce
<1>6. Counted
  BY <1>1, FS_EmptySet DEF Counted
<1>7. Once
  BY <1>3, <1>5, <1>6 DEF Once, Apart
<1>8. Ledger!LedgerInit
  BY <1>1, <1>3 DEF Ledger!LedgerInit
<1> QED
  BY <1>7, <1>8

-----------------------------------------------------------------------------
Books == TypeOK /\ ChildWaits /\ Accounted /\ PendingOpen /\ Once

LEMMA BooksInvariant == Spec => []Books
<1>1. Init => Books
  BY InitType, InitAccounts, InitBooks, KernelAssumption
     DEF Init, KernelInit, ChildWaits, Books
<1>2. Books /\ [Next]_vars => Books'
  BY NextType, ChildWaitsStep, NextAccounts, NextBooks DEF Books
<1> QED
  BY <1>1, <1>2, PTL DEF Spec

(* No tracepoint hit reaches the output twice or while it is still on its  *)
(* way, and the counter the user is shown is the number of refused records *)
(* (engine.cpp:50-115, tmon.bpf.c:emit), in every interleaving.            *)
THEOREM NothingReportedTwice == Spec => []ReportedOnce
<1>1. Books => ReportedOnce
  <2> SUFFICES ASSUME Books PROVE ReportedOnce
    OBVIOUS
  <2>1. DOMAIN out = 1..Len(out)
    BY LenProperties DEF Books, TypeOK
  <2> QED
    BY <2>1 DEF Books, Once, OutOnce, Apart, Counted, Distinct, ReportedOnce
<1> QED
  BY <1>1, BooksInvariant, PTL

(* tmon-linux implements the ledger: each step of the kernel captures,     *)
(* refuses or misses one hit, each step of the pump reports hits that were *)
(* captured or changes nothing, and the summary closes the books for good. *)
THEOREM BooksKept == Spec => KeepsTheBooks
<1>1. Init => Ledger!LedgerInit
  BY InitBooks
<1>2. Books /\ Books' /\ [Next]_vars => [Ledger!LedgerNext]_(Ledger!ledger)
  BY NextBooks DEF Books
<1> QED
  BY <1>1, <1>2, BooksInvariant, PTL DEF Spec, KeepsTheBooks, Ledger!LedgerSpec

-----------------------------------------------------------------------------
(***************************************************************************)
(* tmon-linux gives a return value to the call that returned it, for every *)
(* set of ids, capacity, configuration and bound, as long as nothing was   *)
(* dropped, for programs without threads or without reuse of ids.          *)
(*                                                                         *)
(* The stacks of the pump are behind the machine by the records in the     *)
(* ring.  The invariant foresees them: each record of the ring, handled in *)
(* its turn, finds the stack of its thread as it must be, and when all are *)
(* handled, the stack of a traced thread holds the call it is in.          *)
(***************************************************************************)

\* The enter on each thread's stack, 0 if there is none.
Opens   == [Ids -> Nat]
OpenNow == [t \in Ids |-> IF pending[t] = << >> THEN 0 ELSE pending[t][1].ts]

\* What a record makes of it, and what the record needs it to be.
After(x, w) ==
  IF w.kind = "SYS_ENTER" THEN [x EXCEPT ![w.tid] = w.ts]
  ELSE IF w.kind \in {"SYS_EXIT", "EXIT"} THEN [x EXCEPT ![w.tid] = 0] ELSE x

Fits(x, w) ==
  /\ w.kind = "SYS_ENTER" => x[w.tid] = 0
  /\ w.kind = "SYS_EXIT" => w.of = x[w.tid]

Foresees(b, s) ==
  /\ s \in [1..Len(b) + 1 -> Opens]
  /\ \A k \in 1..Len(b) : s[k + 1] = After(s[k], b[k]) /\ Fits(s[k], b[k])

\* A traced thread is in the call on its stack; an id that can be given has none.
Tracked(x) == \A t \in Ids : group[t] \in traced => x[t] = call[t]
Blank(x)   == IF ReuseIds THEN \A t \in Ids : group[t] \notin traced => x[t] = 0
                          ELSE \A t \in Ids \ used : x[t] = 0
Agrees(x)  == Tracked(x) /\ Blank(x)

Pumping == dropped = 0 /\ config.returns /\ phase \notin {"flush", "done"}
OneDeep == \A t \in Ids : Len(pending[t]) <= 1

Foreseen ==
  Pumping =>
    /\ OneDeep
    /\ \E s \in [1..Len(ring) + 1 -> Opens], x \in Opens :
         Foresees(ring, s) /\ s[1] = OpenNow /\ s[Len(ring) + 1] = x /\ Agrees(x)

\* Groups have leaders, the dead are not traced, and who is in no call has none.
Grouped == \A t \in Ids : group[t] # NoTask => group[group[t]] = group[t]
Buried  == \A t \in Ids : mode[t] = "zombie" => group[t] = t /\ t \notin traced
Calling == \A t \in Ids : mode[t] \notin {"kernel", "leaving"} => call[t] = 0
Known   == IF ReuseIds THEN \A t \in Ids : mode[t] # "free" => group[t] = t
                       ELSE \A t \in Ids : mode[t] # "free" => t \in used
Unseeded ==
  phase = "seed" =>
    /\ traced = {} /\ ring = << >> /\ \A t \in Ids : pending[t] = << >>
    /\ \A t \in Ids : group[t] = Target => t = Target

Tasks == Grouped /\ Buried /\ Calling /\ Known /\ Unseeded

\* Exits are recorded with their returns only.
ReturnsAsked == ~config.returns => \A k \in 1..Len(ring) : ring[k].kind # "SYS_EXIT"

Right(e)   == e.exit # 0 => e.retOf = IF e.ts = e.exit THEN 0 ELSE e.ts
PairsRight == dropped = 0 => \A i \in 1..Len(out) : Right(out[i])

-----------------------------------------------------------------------------
(* The stacks that are foreseen.                                           *)
LEMMA AfterTypes ==
  ASSUME NEW x \in Opens, NEW w \in Records
  PROVE  After(x, w) \in Opens
BY DEF After, Opens, Records

(* One record more is foreseen.                                            *)
LEMMA Extend ==
  ASSUME NEW b \in Seq(Records), NEW s \in [1..Len(b) + 1 -> Opens], Foresees(b, s),
         NEW w \in Records, Fits(s[Len(b) + 1], w)
  PROVE  \E r \in [1..Len(Append(b, w)) + 1 -> Opens] :
           /\ Foresees(Append(b, w), r)
           /\ r[1] = s[1] /\ r[Len(Append(b, w)) + 1] = After(s[Len(b) + 1], w)
<1> DEFINE y == After(s[Len(b) + 1], w)
           r == [k \in 1..Len(b) + 2 |-> IF k = Len(b) + 2 THEN y ELSE s[k]]
<1>1. /\ Append(b, w) \in Seq(Records) /\ Len(Append(b, w)) = Len(b) + 1 /\ Len(b) \in Nat
      /\ Append(b, w)[Len(b) + 1] = w
      /\ \A k \in 1..Len(b) : Append(b, w)[k] = b[k]
  OBVIOUS
<1>2. s[Len(b) + 1] \in Opens
  BY <1>1
<1>3. y \in Opens
  BY <1>2, AfterTypes
<1>4. y = After(s[Len(b) + 1], w)
  OBVIOUS
<1> HIDE DEF y
<1>5. r \in [1..Len(b) + 2 -> Opens]
  <2>1. \A k \in 1..Len(b) + 2 : (IF k = Len(b) + 2 THEN y ELSE s[k]) \in Opens
    BY <1>1, <1>3
  <2> QED
    BY <2>1, Zenon
<1>6. /\ r[Len(b) + 2] = y
      /\ \A k \in 1..Len(b) + 1 : r[k] = s[k]
  BY <1>1
<1> HIDE DEF r
<1>7. \A k \in 1..Len(b) + 1 :
        r[k + 1] = After(r[k], Append(b, w)[k]) /\ Fits(r[k], Append(b, w)[k])
  <2> SUFFICES ASSUME NEW k \in 1..Len(b) + 1
               PROVE  r[k + 1] = After(r[k], Append(b, w)[k]) /\ Fits(r[k], Append(b, w)[k])
    OBVIOUS
  <2>1. CASE k = Len(b) + 1
    <3>1. k + 1 = Len(b) + 2
      BY <1>1, <2>1
    <3> QED
      BY <1>1, <1>4, <1>6, <2>1, <3>1
  <2>2. CASE k # Len(b) + 1
    <3>1. k \in 1..Len(b) /\ k + 1 \in 1..Len(b) + 1
      BY <1>1, <2>2
    <3> QED
      BY <1>1, <1>6, <3>1 DEF Foresees
  <2> QED
    BY <2>1, <2>2
<1>8. 1 \in 1..Len(b) + 1 /\ Len(Append(b, w)) + 1 = Len(b) + 2
  BY <1>1
<1>9. Foresees(Append(b, w), r)
  BY <1>1, <1>5, <1>7, <1>8 DEF Foresees
<1> QED
  BY <1>4, <1>5, <1>6, <1>8, <1>9

(* The first record was handled: what is left was foreseen.                *)
LEMMA Shrink ==
  ASSUME NEW b \in Seq(Records), b # << >>, NEW s \in [1..Len(b) + 1 -> Opens],
         Foresees(b, s)
  PROVE  /\ Fits(s[1], Head(b))
         /\ \E r \in [1..Len(Tail(b)) + 1 -> Opens] :
              /\ Foresees(Tail(b), r)
              /\ r[1] = After(s[1], Head(b)) /\ r[Len(Tail(b)) + 1] = s[Len(b) + 1]
<1> DEFINE r == [k \in 1..Len(b) |-> s[k + 1]]
<1>1. /\ Head(b) = b[1] /\ Len(Tail(b)) = Len(b) - 1
      /\ Len(b) \in Nat /\ Len(b) >= 1
      /\ \A k \in 1..Len(b) - 1 : Tail(b)[k] = b[k + 1]
  OBVIOUS
<1>2. r \in [1..Len(b) -> Opens]
  BY <1>1
<1>3. \A k \in 1..Len(b) : r[k] = s[k + 1]
  OBVIOUS
<1> HIDE DEF r
<1>4. Len(Tail(b)) + 1 = Len(b) /\ 1 \in 1..Len(b) /\ Len(b) \in 1..Len(b)
  BY <1>1
<1>5. Fits(s[1], Head(b)) /\ s[2] = After(s[1], Head(b))
  <2>1. s[1 + 1] = After(s[1], b[1]) /\ Fits(s[1], b[1])
    BY <1>4 DEF Foresees
  <2> QED
    BY <1>1, <2>1
<1>6. \A k \in 1..Len(b) - 1 :
        r[k + 1] = After(r[k], Tail(b)[k]) /\ Fits(r[k], Tail(b)[k])
  <2> SUFFICES ASSUME NEW k \in 1..Len(b) - 1
               PROVE  r[k + 1] = After(r[k], Tail(b)[k]) /\ Fits(r[k], Tail(b)[k])
    OBVIOUS
  <2>1. k \in 1..Len(b) /\ k + 1 \in 1..Len(b)
    BY <1>1
  <2>2. s[(k + 1) + 1] = After(s[k + 1], b[k + 1]) /\ Fits(s[k + 1], b[k + 1])
    BY <2>1 DEF Foresees
  <2> QED
    BY <1>1, <1>3, <2>1, <2>2
<1>7. Foresees(Tail(b), r)
  BY <1>1, <1>2, <1>4, <1>6 DEF Foresees
<1>8. r[1] = s[2] /\ r[Len(b)] = s[Len(b) + 1]
  <2>1. r[1] = s[1 + 1]
    BY <1>3, <1>4
  <2> QED
    BY <1>3, <1>4, <2>1
<1> QED
  BY <1>2, <1>4, <1>5, <1>7, <1>8

(* No record comes or goes.                                                *)
LEMMA ForeseenSame ==
  ASSUME Foreseen, UNCHANGED <<ring, pending>>, Pumping' => Pumping,
         \A x \in Opens : Agrees(x) => Agrees(x)'
  PROVE  Foreseen'
<1> SUFFICES ASSUME Pumping'
             PROVE  /\ OneDeep'
                    /\ \E s \in [1..Len(ring') + 1 -> Opens], x \in Opens :
                         /\ Foresees(ring', s)
                         /\ s[1] = OpenNow' /\ s[Len(ring') + 1] = x /\ Agrees(x)'
  BY DEF Foreseen
<1>1. /\ OneDeep
      /\ \E s \in [1..Len(ring) + 1 -> Opens], x \in Opens :
           Foresees(ring, s) /\ s[1] = OpenNow /\ s[Len(ring) + 1] = x /\ Agrees(x)
  BY DEF Foreseen
<1>2. OneDeep' /\ OpenNow' = OpenNow /\ ring' = ring
  BY <1>1 DEF OneDeep, OpenNow
<1>3. PICK s \in [1..Len(ring) + 1 -> Opens], x \in Opens :
        Foresees(ring, s) /\ s[1] = OpenNow /\ s[Len(ring) + 1] = x /\ Agrees(x)
  BY <1>1
<1>4. Agrees(x)'
  BY <1>3
<1> QED
  BY <1>2, <1>3, <1>4

(* A record comes, or the full ring refuses it.                            *)
LEMMA ForeseenMore ==
  ASSUME KernelTypeOK, Foreseen, UNCHANGED <<pending, config, phase>>,
         NEW w \in Records, Observe(w),
         config.returns => \A x \in Opens : Agrees(x) =>
           Fits(x, w) /\ \A y \in Opens : y = After(x, w) => Agrees(y)'
  PROVE  Foreseen'
<1> SUFFICES ASSUME Pumping'
             PROVE  /\ OneDeep'
                    /\ \E s \in [1..Len(ring') + 1 -> Opens], x \in Opens :
                         /\ Foresees(ring', s)
                         /\ s[1] = OpenNow' /\ s[Len(ring') + 1] = x /\ Agrees(x)'
  BY DEF Foreseen
<1>1. /\ ~RingFull /\ ring' = Append(ring, w) /\ dropped' = dropped
      /\ ring \in Seq(Records)
  BY DEF Pumping, Observe, CountDrop, KernelTypeOK
<1>2. Pumping /\ config.returns
  BY <1>1 DEF Pumping
<1>3. /\ OneDeep
      /\ \E s \in [1..Len(ring) + 1 -> Opens], x \in Opens :
           Foresees(ring, s) /\ s[1] = OpenNow /\ s[Len(ring) + 1] = x /\ Agrees(x)
  BY <1>2 DEF Foreseen
<1>4. OneDeep' /\ OpenNow' = OpenNow
  BY <1>3 DEF OneDeep, OpenNow
<1>5. PICK s \in [1..Len(ring) + 1 -> Opens], x \in Opens :
        Foresees(ring, s) /\ s[1] = OpenNow /\ s[Len(ring) + 1] = x /\ Agrees(x)
  BY <1>3
<1>6. PICK y \in Opens : y = After(x, w)
  BY <1>5, AfterTypes
<1>7. Fits(x, w) /\ Agrees(y)'
  BY <1>2, <1>5, <1>6
<1>8. PICK r \in [1..Len(Append(ring, w)) + 1 -> Opens] :
        /\ Foresees(Append(ring, w), r)
        /\ r[1] = s[1] /\ r[Len(Append(ring, w)) + 1] = y
  <2>1. Fits(s[Len(ring) + 1], w) /\ y = After(s[Len(ring) + 1], w)
    BY <1>5, <1>6, <1>7
  <2> QED
    BY <1>1, <1>5, <2>1, Extend
<1>9. r \in [1..Len(ring') + 1 -> Opens] /\ Foresees(ring', r)
  BY <1>1, <1>8
<1>10. r[1] = OpenNow' /\ r[Len(ring') + 1] = y
  BY <1>1, <1>4, <1>5, <1>8
<1> QED
  BY <1>3, <1>4, <1>7, <1>9, <1>10

(* The first record goes, and the pump did with it what was foreseen.      *)
LEMMA ForeseenLess ==
  ASSUME KernelTypeOK, Foreseen, ring # << >>, ring' = Tail(ring), Pumping' => Pumping,
         UNCHANGED <<group, traced, call, used>>,
         Pumping => (OneDeep /\ Fits(OpenNow, Head(ring)) =>
                       OneDeep' /\ OpenNow' = After(OpenNow, Head(ring)))
  PROVE  Foreseen'
<1> SUFFICES ASSUME Pumping'
             PROVE  /\ OneDeep'
                    /\ \E s \in [1..Len(ring') + 1 -> Opens], x \in Opens :
                         /\ Foresees(ring', s)
                         /\ s[1] = OpenNow' /\ s[Len(ring') + 1] = x /\ Agrees(x)'
  BY DEF Foreseen
<1>1. ring \in Seq(Records)
  BY DEF KernelTypeOK
<1>2. /\ OneDeep
      /\ \E s \in [1..Len(ring) + 1 -> Opens], x \in Opens :
           Foresees(ring, s) /\ s[1] = OpenNow /\ s[Len(ring) + 1] = x /\ Agrees(x)
  BY DEF Foreseen
<1>3. PICK s \in [1..Len(ring) + 1 -> Opens], x \in Opens :
        Foresees(ring, s) /\ s[1] = OpenNow /\ s[Len(ring) + 1] = x /\ Agrees(x)
  BY <1>2
<1>4. Agrees(x)'
  BY <1>3 DEF Agrees, Tracked, Blank
<1>5. /\ Fits(s[1], Head(ring))
      /\ \E r \in [1..Len(Tail(ring)) + 1 -> Opens] :
           /\ Foresees(Tail(ring), r)
           /\ r[1] = After(s[1], Head(ring)) /\ r[Len(Tail(ring)) + 1] = s[Len(ring) + 1]
  BY <1>1, <1>3, Shrink
<1>6. PICK r \in [1..Len(Tail(ring)) + 1 -> Opens] :
        /\ Foresees(Tail(ring), r)
        /\ r[1] = After(s[1], Head(ring)) /\ r[Len(Tail(ring)) + 1] = s[Len(ring) + 1]
  BY <1>5
<1>7. OneDeep' /\ OpenNow' = After(OpenNow, Head(ring))
  BY <1>2, <1>3, <1>5
<1>8. r[1] = OpenNow' /\ r[Len(ring') + 1] = x
  BY <1>3, <1>6, <1>7
<1> QED
  BY <1>4, <1>6, <1>7, <1>8
-----------------------------------------------------------------------------
(* The tasks: the invariant holds of them whatever the pump does.          *)
LEMMA RecordFields ==
  ASSUME NEW kind, NEW pid, NEW tid, NEW t, NEW of, NEW arg
  PROVE  LET w == Record(kind, pid, tid, t, of, arg) IN
           w.kind = kind /\ w.ts = Now /\ w.tid = tid /\ w.of = of
BY DEF Record

(* Nothing is recorded before the seeding.                                 *)
LEMMA NothingYet ==
  ASSUME KernelTypeOK, Unseeded, phase = "seed", KernelNext
  PROVE  traced' = {} /\ ring' = << >>
<1>1. traced = {} /\ ring = << >>
  BY DEF Unseeded
<1> QED
  BY <1>1 DEF KernelNext, SysEnter, SysExit, Fork, Exec, Exit, Reap, Spawn, IsTraced,
              Overlook, recordVars

(* A dead process is waited for.                                           *)
LEMMA ReleasedTasks ==
  ASSUME KernelTypeOK, Tasks, NEW p \in Ids, Release(p), UNCHANGED <<used, traced, call>>
  PROVE  Grouped' /\ Buried' /\ Calling' /\ Known'
<1> USE DEF Tasks, Grouped, Buried, Calling, Known, KernelTypeOK
<1>1. /\ mode[p] = "zombie" /\ group[p] = p /\ NoTask \notin Ids
      /\ \A s \in Ids : mode'[s] = IF s = p THEN "free" ELSE mode[s]
      /\ \A s \in Ids : group'[s] = IF s = p THEN NoTask ELSE group[s]
  BY KernelAssumption DEF Release
<1>2. \A s \in Ids : s # p => group[s] # p
  \* the other threads are gone: Live(p) is empty, and no other task is dead
  <2> SUFFICES ASSUME NEW s \in Ids, s # p, group[s] = p PROVE FALSE
    OBVIOUS
  <2>1. mode[s] # "zombie" /\ mode[s] # "free" /\ mode[s] \in Modes
    BY <1>1
  <2>2. s \in Live(p)
    BY <2>1 DEF Live, Modes
  <2> QED
    BY <2>2 DEF Release
<1>3. Grouped'
  BY <1>1, <1>2
<1>4. Buried' /\ Calling'
  BY <1>1
<1>5. Known'
  BY <1>1
<1> QED
  BY <1>3, <1>4, <1>5

(* Every step of a task keeps what is known of the tasks.                  *)
LEMMA KernelTasks ==
  ASSUME ~Threads \/ ~ReuseIds, TypeOK, TypeOK', ChildWaits, Tasks, KernelNext,
         UNCHANGED engineVars
  PROVE  Tasks'
<1>1. /\ Target \in Ids /\ NoTask \notin Ids /\ traced \subseteq Ids
      /\ mode \in [Ids -> Modes] /\ group \in [Ids -> Ids \cup {NoTask}] /\ call \in [Ids -> Nat]
      /\ \A t \in Ids : group[t] = NoTask <=> mode[t] = "free"
  BY KernelAssumption DEF TypeOK, KernelTypeOK
<1>2. Grouped /\ Buried /\ Calling /\ Known /\ Unseeded /\ phase' = phase /\ pending' = pending
  BY DEF Tasks, engineVars, pumpVars, runVars
<1>3. phase = "seed" => /\ mode[Target] = "stopped" /\ group[Target] = Target
                        /\ traced' = {} /\ ring' = << >>
  BY <1>2, NothingYet DEF ChildWaits, TypeOK
<1> USE DEF Grouped, Buried, Calling, Known, Unseeded
<1>4. ASSUME NEW t \in Ids, NEW ptr \in BOOLEAN, SysEnter(t, ptr) PROVE Tasks'
  <2>1. /\ mode[t] = "user" /\ group' = group /\ used' = used /\ traced' = traced
        /\ mode' = [mode EXCEPT ![t] = "kernel"]
    BY <1>4 DEF SysEnter
  <2>2. \A s \in Ids : mode'[s] = IF s = t THEN "kernel" ELSE mode[s]
    BY <1>1, <2>1
  <2>3. \A s \in Ids : s # t => call'[s] = call[s]
    <3>1. call' = [call EXCEPT ![t] = Now] \/ call' = [call EXCEPT ![t] = 0]
      BY <1>4 DEF SysEnter
    <3> QED
      BY <1>1, <3>1
  <2>4. Grouped' /\ Buried' /\ Calling'
    BY <1>1, <1>2, <2>1, <2>2, <2>3
  <2>5. Known' /\ Unseeded'
    BY <1>1, <1>2, <1>3, <2>1, <2>2
  <2> QED
    BY <2>4, <2>5 DEF Tasks
<1>5. ASSUME NEW t \in Ids, SysExit(t) PROVE Tasks'
  <2>1. /\ mode[t] \in {"kernel", "leaving"} /\ group' = group /\ used' = used /\ traced' = traced
        /\ \A s \in Ids : mode'[s] = IF s = t THEN "user" ELSE mode[s]
        /\ \A s \in Ids : call'[s] = IF s = t THEN 0 ELSE call[s]
    BY <1>1, <1>5 DEF SysExit
  <2>2. Grouped' /\ Buried' /\ Calling'
    BY <1>1, <1>2, <2>1
  <2>3. Known' /\ Unseeded'
    BY <1>1, <1>2, <1>3, <2>1
  <2> QED
    BY <2>2, <2>3 DEF Tasks
<1>6. ASSUME NEW t \in Ids, NEW c \in Ids, NEW thread \in BOOLEAN, Fork(t, c, thread)
      PROVE  Tasks'
  <2>1. /\ mode[t] = "kernel" /\ mode[c] = "free" /\ (thread => Threads)
        /\ \A s \in Ids : mode'[s] = IF s \in {t, c} THEN "leaving" ELSE mode[s]
        /\ \A s \in Ids : group'[s] = IF s = c THEN IF thread THEN group[t] ELSE c
                                      ELSE group[s]
        /\ \A s \in Ids : call'[s] = IF s = c THEN 0 ELSE call[s]
        /\ used' = (IF ReuseIds THEN used ELSE used \cup {c})
    BY <1>1, <1>6 DEF Fork
  <2>2. traced' \subseteq traced \cup {c}
    BY <1>6 DEF Fork, Insert
  <2>3. group[c] = NoTask /\ group[t] # NoTask /\ group[t] \in Ids /\ group[t] # c
    BY <1>1, <1>2, <2>1
  <2>4. Grouped'
    <3> SUFFICES ASSUME NEW s \in Ids, group'[s] # NoTask PROVE group'[group'[s]] = group'[s]
      OBVIOUS
    <3>1. \A r \in Ids : group[r] # c
      BY <1>1, <1>2, <2>3
    <3>2. CASE s # c
      <4>1. group'[s] = group[s] /\ group[s] \in Ids /\ group[s] # c
        BY <1>1, <2>1, <3>1, <3>2
      <4> QED
        BY <1>2, <2>1, <4>1
    <3>3. CASE s = c
      BY <1>2, <2>1, <2>3, <3>3
    <3> QED
      BY <3>2, <3>3
  <2>5. Buried' /\ Calling'
    BY <1>1, <1>2, <2>1, <2>2
  <2>6. Known'
    BY <1>1, <1>2, <2>1
  <2>7. Unseeded'
    BY <1>1, <1>2, <1>3, <2>1, <2>3
  <2> QED
    BY <2>4, <2>5, <2>6, <2>7 DEF Tasks
<1>7. ASSUME NEW t \in Ids, Exec(t) PROVE Tasks'
  <2> DEFINE g == group[t]
  <2>1. mode[t] = "kernel" /\ g \in Ids /\ group[g] = g /\ mode[g] # "free"
    BY <1>1, <1>2, <1>7 DEF Exec
  <2>2. /\ \A s \in Ids : mode'[s] = IF s = g THEN "leaving" ELSE IF s = t THEN "free" ELSE mode[s]
        /\ \A s \in Ids : group'[s] = IF s = g THEN g ELSE IF s = t THEN NoTask ELSE group[s]
        /\ \A s \in Ids : call'[s] = IF s = g THEN call[t] ELSE IF s = t THEN 0 ELSE call[s]
        /\ used' = used /\ traced' = traced
    <3>1. /\ mode' = [[mode EXCEPT ![t] = "free"] EXCEPT ![g] = "leaving"]
          /\ group' = [[group EXCEPT ![t] = NoTask] EXCEPT ![g] = g]
          /\ call' = [[call EXCEPT ![t] = 0] EXCEPT ![g] = call[t]]
          /\ used' = used /\ traced' = traced
      BY <1>7 DEF Exec
    <3> HIDE DEF g
    <3>2. \A s \in Ids : mode'[s] = IF s = g THEN "leaving" ELSE IF s = t THEN "free" ELSE mode[s]
      BY <1>1, <2>1, <3>1
    <3>3. \A s \in Ids : group'[s] = IF s = g THEN g ELSE IF s = t THEN NoTask ELSE group[s]
      BY <1>1, <2>1, <3>1
    <3>4. \A s \in Ids : call'[s] = IF s = g THEN call[t] ELSE IF s = t THEN 0 ELSE call[s]
      BY <1>1, <2>1, <3>1
    <3> QED
      BY <3>1, <3>2, <3>3, <3>4
  <2>3. ReuseIds => g = t
    BY <1>2, <2>1
  <2>4. \A s \in Ids : group[s] # t \/ g = t
    BY <1>1, <1>2
  <2> HIDE DEF g
  <2>5. Grouped'
    <3> SUFFICES ASSUME NEW s \in Ids, group'[s] # NoTask PROVE group'[group'[s]] = group'[s]
      OBVIOUS
    <3>1. \/ group'[s] = g
          \/ s # t /\ group'[s] = group[s] /\ group[s] \in Ids
      BY <1>1, <2>1, <2>2
    <3>2. CASE s # t /\ group'[s] = group[s] /\ group[s] \in Ids /\ group[s] # g
      <4>1. group[s] # t /\ group[group[s]] = group[s]
        BY <1>1, <1>2, <2>4, <3>2
      <4> QED
        BY <2>2, <3>2, <4>1
    <3>3. group'[g] = g
      BY <2>1, <2>2
    <3> QED
      BY <3>1, <3>2, <3>3
  <2>6. Buried' /\ Calling'
    BY <1>1, <1>2, <2>1, <2>2
  <2>7. Known'
    BY <1>1, <1>2, <2>1, <2>2, <2>3
  <2>8. Unseeded'
    <3> SUFFICES ASSUME phase' = "seed"
                 PROVE  \A s \in Ids : group'[s] = Target => s = Target
      BY <1>2, <1>3
    <3>1. phase = "seed" /\ t # Target /\ g # Target
      BY <1>1, <1>2, <1>3, <2>1 DEF g
    <3> QED
      BY <1>1, <1>2, <2>2, <3>1
  <2> QED
    BY <2>5, <2>6, <2>7, <2>8 DEF Tasks
<1>8. ASSUME NEW t \in Ids, Exit(t) PROVE Tasks'
  <2> DEFINE g == group[t]
  <2>1. mode[t] \in Running /\ g \in Ids /\ group[g] = g
    BY <1>1, <1>2, <1>8 DEF Exit, Running
  <2>2. /\ \A s \in Ids : mode'[s] = IF s = t THEN IF t = g THEN "zombie" ELSE "free" ELSE mode[s]
        /\ \A s \in Ids : group'[s] = IF s = t THEN IF t = g THEN g ELSE NoTask ELSE group[s]
        /\ \A s \in Ids : call'[s] = IF s = t THEN 0 ELSE call[s]
        /\ used' = used
    BY <1>1, <1>8 DEF Exit
  <2>3. traced' \subseteq traced /\ (t = g => t \notin traced')
    BY <1>8 DEF Exit, Untrace, IsTraced
  <2>4. \A s \in Ids : group[s] # t \/ g = t
    BY <1>1, <1>2
  <2> HIDE DEF g
  <2>5. Grouped'
    <3> SUFFICES ASSUME NEW s \in Ids, group'[s] # NoTask PROVE group'[group'[s]] = group'[s]
      OBVIOUS
    <3>1. \/ group'[s] = g
          \/ s # t /\ group'[s] = group[s] /\ group[s] \in Ids
      <4>1. CASE s = t
        BY <2>2, <4>1
      <4>2. CASE s # t
        <5>1. group'[s] = group[s]
          BY <2>2, <4>2
        <5> QED
          BY <1>1, <4>2, <5>1
      <4> QED
        BY <4>1, <4>2
    <3>2. CASE s # t /\ group'[s] = group[s] /\ group[s] \in Ids /\ group[s] # g
      <4>1. group[s] # t /\ group[group[s]] = group[s]
        BY <1>1, <1>2, <2>4, <3>2
      <4> QED
        BY <2>2, <3>2, <4>1
    <3>3. group'[g] = g
      BY <2>1, <2>2
    <3> QED
      BY <3>1, <3>2, <3>3
  <2>6. Buried' /\ Calling'
    BY <1>1, <1>2, <2>1, <2>2, <2>3
  <2>7. Known'
    BY <1>1, <1>2, <2>1, <2>2 DEF Running, g
  <2>8. Unseeded'
    BY <1>1, <1>2, <1>3, <2>1, <2>2 DEF Running, g
  <2> QED
    BY <2>5, <2>6, <2>7, <2>8 DEF Tasks
<1>9. ASSUME NEW p \in Ids, Reap(p) PROVE Tasks'
  <2>1. Release(p) /\ UNCHANGED <<used, traced, call>>
    BY <1>9 DEF Reap
  <2>2. Grouped' /\ Buried' /\ Calling' /\ Known'
    BY <2>1, ReleasedTasks DEF TypeOK
  <2>3. Unseeded'
    BY <1>1, <1>2, <1>3, <2>1 DEF Release
  <2> QED
    BY <2>2, <2>3 DEF Tasks
<1>10. ASSUME NEW c \in Ids, Spawn(c) PROVE Tasks'
  <2>1. /\ mode[c] = "free" /\ traced' = traced /\ call' = call
        /\ \A s \in Ids : mode'[s] = IF s = c THEN "user" ELSE mode[s]
        /\ \A s \in Ids : group'[s] = IF s = c THEN c ELSE group[s]
        /\ used' = (IF ReuseIds THEN used ELSE used \cup {c})
    BY <1>1, <1>10 DEF Spawn
  <2>2. group[c] = NoTask
    BY <1>1, <2>1
  <2>3. Grouped'
    BY <1>1, <1>2, <2>1, <2>2
  <2>4. Buried' /\ Calling' /\ Known'
    BY <1>1, <1>2, <2>1
  <2>5. Unseeded'
    BY <1>1, <1>2, <1>3, <2>1
  <2> QED
    BY <2>3, <2>4, <2>5 DEF Tasks
<1> QED
  BY <1>4, <1>5, <1>6, <1>7, <1>8, <1>9, <1>10 DEF KernelNext

(* What the pump does to a task: it continues the target and waits for it. *)
LEMMA PumpTasks ==
  ASSUME TypeOK, TypeOK', ChildWaits, Tasks, EngineNext \/ UNCHANGED vars
  PROVE  Tasks'
<1>1. KernelTypeOK /\ Target \in Ids /\ NoTask \notin Ids
  BY KernelAssumption DEF TypeOK
<1>2. Grouped /\ Buried /\ Calling /\ Known
  BY DEF Tasks
<1>3. ASSUME UNCHANGED <<mode, group, used, traced, call>>
      PROVE  Grouped' /\ Buried' /\ Calling' /\ Known'
  BY <1>2, <1>3 DEF Grouped, Buried, Calling, Known
<1>4. ASSUME phase' # "seed" PROVE Unseeded'
  BY <1>4 DEF Unseeded
<1>5. CASE UNCHANGED vars
  <2>1. UNCHANGED <<mode, group, used, traced, call, phase, ring, pending>>
    BY <1>5 DEF vars, kernelVars, taskVars, recordVars, engineVars, pumpVars, runVars
  <2>2. Unseeded'
    BY <2>1 DEF Tasks, Unseeded
  <2> QED
    BY <1>3, <2>1, <2>2 DEF Tasks
<1>6. CASE Seed
  <2>1. /\ mode[Target] = "stopped" /\ phase' = "release"
        /\ UNCHANGED <<mode, group, used, call>> /\ traced' = traced \cup {Target}
    BY <1>6 DEF Seed, ChildWaits, taskVars
  <2>2. Buried'
    BY <1>2, <2>1 DEF Buried
  <2>3. Grouped' /\ Calling' /\ Known'
    BY <1>2, <2>1 DEF Grouped, Calling, Known
  <2> QED
    BY <1>4, <2>1, <2>2, <2>3 DEF Tasks
<1>7. CASE ReleaseTarget
  <2>1. /\ mode[Target] = "stopped" /\ phase' = "poll"
        /\ UNCHANGED <<group, used, call, traced>> /\ mode' = [mode EXCEPT ![Target] = "leaving"]
    BY <1>7 DEF ReleaseTarget, ChildWaits
  <2>2. \A s \in Ids : mode'[s] = IF s = Target THEN "leaving" ELSE mode[s]
    BY <1>1, <2>1 DEF KernelTypeOK
  <2>3. Grouped' /\ Buried' /\ Calling' /\ Known'
    BY <1>1, <1>2, <2>1, <2>2 DEF Grouped, Buried, Calling, Known
  <2> QED
    BY <1>4, <2>1, <2>3 DEF Tasks
<1>8. CASE CheckReaps \/ ReapKilled
  <2>1. Release(Target) /\ UNCHANGED <<used, traced, call>> /\ phase' # "seed"
    BY <1>8 DEF CheckReaps, ReapKilled, AfterReap, NextTurn
  <2>2. Grouped' /\ Buried' /\ Calling' /\ Known'
    BY <1>1, <2>1, ReleasedTasks
  <2> QED
    BY <1>4, <2>1, <2>2 DEF Tasks
<1>9. CASE \/ HandleRingEvent \/ PollReturns \/ PollInterrupted \/ PollFails
           \/ CheckAlive \/ CheckGone \/ KillTarget
           \/ (\E t \in Ids : FlushPending(t)) \/ Finish \/ WaitFails \/ SeedFails
  <2>1. UNCHANGED <<mode, group, used, traced, call>> /\ phase' # "seed"
    BY <1>9 DEF HandleRingEvent, PollReturns, PollInterrupted, PollFails, CheckAlive,
                CheckGone, KillTarget, FlushPending, Finish, WaitFails, SeedFails, NextTurn,
                kernelVars, taskVars, runVars
  <2> QED
    BY <1>3, <1>4, <2>1 DEF Tasks
<1> QED
  BY <1>5, <1>6, <1>7, <1>8, <1>9 DEF EngineNext

-----------------------------------------------------------------------------
(* What the invariant foresees survives every step of a task.              *)
LEMMA UnrecordedPairs ==
  ASSUME Foreseen, UNCHANGED engineVars, UNCHANGED <<config, ring, dropped>>,
         \A x \in Opens : Agrees(x) => Agrees(x)'
  PROVE  Foreseen'
<1>1. Pumping' => Pumping
  BY DEF Pumping, engineVars, runVars
<1> QED
  BY <1>1, ForeseenSame DEF engineVars, pumpVars

LEMMA ReleaseAgrees ==
  ASSUME KernelTypeOK, Tasks, NEW p \in Ids, Release(p), UNCHANGED <<traced, call, used>>
  PROVE  \A x \in Opens : Agrees(x) => Agrees(x)'
<1> SUFFICES ASSUME NEW x \in Opens, Agrees(x) PROVE Agrees(x)'
  OBVIOUS
<1>1. /\ mode[p] = "zombie" /\ group[p] = p /\ p \notin traced /\ traced \subseteq Ids
      /\ NoTask \notin Ids
      /\ \A s \in Ids : group'[s] = IF s = p THEN NoTask ELSE group[s]
  BY KernelAssumption DEF Release, Tasks, Buried, KernelTypeOK
<1>2. Tracked(x)'
  BY <1>1 DEF Agrees, Tracked
<1>3. Blank(x)'
  BY <1>1 DEF Agrees, Blank
<1> QED
  BY <1>2, <1>3 DEF Agrees

LEMMA SysEnterForeseen ==
  ASSUME KernelTypeOK, Tasks, Foreseen, UNCHANGED engineVars,
         NEW t \in Ids, NEW ptr \in BOOLEAN, SysEnter(t, ptr)
  PROVE  Foreseen'
<1>1. /\ mode[t] = "user" /\ call[t] = 0 /\ (~ReuseIds => t \in used)
      /\ UNCHANGED <<config, group, traced, used, phase, pending>>
  BY DEF SysEnter, Tasks, Calling, Known, engineVars, pumpVars, runVars
<1>2. Now \in Nat \ {0} /\ call \in [Ids -> Nat]
  BY DEF KernelTypeOK, Now
<1>3. CASE IsTraced(group[t])
  <2> DEFINE arg == IF ptr /\ config.decode /\ ~config.returns THEN Now ELSE 0
             w == Record("SYS_ENTER", group[t], t, t, Now, arg)
  <2>1. Observe(w) /\ call' = [call EXCEPT ![t] = Now]
    BY <1>3 DEF SysEnter
  <2>2. w \in Records
    <3>1. arg \in Nat /\ group[t] \in Ids /\ mode[t] # "free"
      BY <1>1, <1>2 DEF KernelTypeOK
    <3> HIDE DEF arg
    <3> QED
      BY <1>2, <3>1, RecordType DEF RecordKinds
  <2>3. w.kind = "SYS_ENTER" /\ w.ts = Now /\ w.tid = t
    BY RecordFields
  <2> HIDE DEF w
  <2>4. ASSUME NEW x \in Opens, Agrees(x) PROVE Fits(x, w)
    <3>1. x[t] = 0
      BY <1>1, <1>3, <2>4 DEF Agrees, Tracked, IsTraced
    <3> QED
      BY <2>3, <3>1 DEF Fits
  <2>5. ASSUME NEW x \in Opens, Agrees(x), NEW y \in Opens, y = After(x, w) PROVE Agrees(y)'
    <3>1. \A s \in Ids : /\ y[s] = IF s = t THEN Now ELSE x[s]
                         /\ call'[s] = IF s = t THEN Now ELSE call[s]
      BY <1>2, <2>1, <2>3, <2>5 DEF After, Opens
    <3>2. Tracked(y)'
      BY <1>1, <2>5, <3>1 DEF Agrees, Tracked
    <3>3. Blank(y)'
      BY <1>1, <1>3, <2>5, <3>1 DEF Agrees, Blank, IsTraced
    <3> QED
      BY <3>2, <3>3 DEF Agrees
  <2> QED
    BY <1>1, <2>1, <2>2, <2>4, <2>5, ForeseenMore
<1>4. CASE ~IsTraced(group[t])
  <2>1. UNCHANGED <<ring, dropped>> /\ call' = [call EXCEPT ![t] = 0]
    BY <1>4 DEF SysEnter, Overlook
  <2>2. call' = call
    BY <1>1, <1>2, <2>1
  <2> QED
    BY <1>1, <2>1, <2>2, UnrecordedPairs DEF Agrees, Tracked, Blank
<1> QED
  BY <1>3, <1>4

LEMMA SysExitForeseen ==
  ASSUME KernelTypeOK, Tasks, Foreseen, UNCHANGED engineVars, NEW t \in Ids, SysExit(t)
  PROVE  Foreseen'
<1>1. /\ mode[t] # "free" /\ (~ReuseIds => t \in used)
      /\ UNCHANGED <<config, group, traced, used, phase, pending>>
      /\ call' = [call EXCEPT ![t] = 0]
  BY DEF SysExit, Tasks, Known, engineVars, pumpVars, runVars
<1>2. /\ call \in [Ids -> Nat] /\ decoding \in [Ids -> Nat] /\ group[t] \in Ids
      /\ \A s \in Ids : call'[s] = IF s = t THEN 0 ELSE call[s]
  BY <1>1 DEF KernelTypeOK
<1>3. CASE config.returns /\ IsTraced(group[t])
  <2> DEFINE arg == IF config.decode THEN decoding[t] ELSE 0
             w == Record("SYS_EXIT", group[t], t, t, call[t], arg)
  <2>1. Observe(w)
    BY <1>3 DEF SysExit
  <2>2. w \in Records
    <3>1. arg \in Nat /\ call[t] \in Nat
      BY <1>2
    <3> HIDE DEF arg
    <3> QED
      BY <1>1, <1>2, <3>1, RecordType DEF RecordKinds
  <2>3. w.kind = "SYS_EXIT" /\ w.tid = t /\ w.of = call[t]
    BY RecordFields
  <2> HIDE DEF w
  <2>4. ASSUME NEW x \in Opens, Agrees(x) PROVE Fits(x, w)
    <3>1. x[t] = call[t]
      BY <1>3, <2>4 DEF Agrees, Tracked, IsTraced
    <3> QED
      BY <2>3, <3>1 DEF Fits
  <2>5. ASSUME NEW x \in Opens, Agrees(x), NEW y \in Opens, y = After(x, w) PROVE Agrees(y)'
    <3>1. \A s \in Ids : y[s] = IF s = t THEN 0 ELSE x[s]
      BY <2>3, <2>5 DEF After, Opens
    <3>2. Tracked(y)'
      BY <1>1, <1>2, <2>5, <3>1 DEF Agrees, Tracked
    <3>3. Blank(y)'
      BY <1>1, <2>5, <3>1 DEF Agrees, Blank
    <3> QED
      BY <3>2, <3>3 DEF Agrees
  <2> QED
    BY <1>1, <2>1, <2>2, <2>4, <2>5, ForeseenMore
<1>4. CASE config.returns /\ ~IsTraced(group[t])
  <2>1. UNCHANGED <<ring, dropped>>
    BY <1>4 DEF SysExit, Overlook
  <2>2. ASSUME NEW x \in Opens, Agrees(x) PROVE Agrees(x)'
    <3>1. Tracked(x)'
      BY <1>1, <1>2, <1>4, <2>2 DEF Agrees, Tracked, IsTraced
    <3>2. Blank(x)'
      BY <1>1, <2>2 DEF Agrees, Blank
    <3> QED
      BY <3>1, <3>2 DEF Agrees
  <2> QED
    BY <1>1, <2>1, <2>2, UnrecordedPairs
<1>5. CASE ~config.returns
  BY <1>1, <1>5 DEF Foreseen, Pumping
<1> QED
  BY <1>3, <1>4, <1>5

LEMMA ForkForeseen ==
  ASSUME KernelTypeOK, Tasks, Foreseen, UNCHANGED engineVars,
         NEW t \in Ids, NEW c \in Ids, NEW thread \in BOOLEAN, Fork(t, c, thread)
  PROVE  Foreseen'
<1> DEFINE g == IF thread THEN group[t] ELSE c
           w == Record("FORK", t, t, t, 0, 0)
<1>1. /\ mode[t] = "kernel" /\ mode[c] = "free" /\ (ReuseIds \/ c \notin used)
      /\ group' = [group EXCEPT ![c] = g] /\ call' = [call EXCEPT ![c] = 0]
      /\ used' = (IF ReuseIds THEN used ELSE used \cup {c})
      /\ UNCHANGED <<config, phase, pending>>
  BY DEF Fork, engineVars, pumpVars, runVars
<1>2. /\ group[c] = NoTask /\ NoTask \notin Ids /\ traced \subseteq Ids
      /\ \A s \in Ids : group'[s] = IF s = c THEN g ELSE group[s]
      /\ \A s \in Ids : call'[s] = IF s = c THEN 0 ELSE call[s]
  BY <1>1, KernelAssumption DEF KernelTypeOK
<1>3. traced \subseteq traced' /\ traced' \subseteq traced \cup {c}
  BY DEF Fork, Insert
<1>4. \A s \in Ids : group[s] # c
  BY <1>2 DEF Tasks, Grouped
<1> HIDE DEF g
<1>5. ASSUME NEW x \in Opens, Agrees(x) PROVE Agrees(x)'
  <2>1. x[c] = 0
    BY <1>1, <1>2, <1>5 DEF Agrees, Blank
  <2>2. Tracked(x)'
    BY <1>2, <1>3, <1>4, <1>5, <2>1 DEF Agrees, Tracked
  <2>3. Blank(x)'
    BY <1>1, <1>2, <1>3, <1>5, <2>1 DEF Agrees, Blank
  <2> QED
    BY <2>2, <2>3 DEF Agrees
<1>6. CASE Observe(w)
  <2>1. w \in Records
    BY <1>1, RecordType DEF RecordKinds
  <2>2. w.kind = "FORK"
    BY RecordFields
  <2> HIDE DEF w
  <2>3. \A x \in Opens : Fits(x, w) /\ After(x, w) = x
    BY <2>2 DEF Fits, After
  <2> QED
    BY <1>1, <1>5, <1>6, <2>1, <2>3, ForeseenMore
<1>7. CASE Overlook(t)
  BY <1>1, <1>5, <1>7, UnrecordedPairs DEF Overlook
<1> QED
  BY <1>6, <1>7 DEF Fork

LEMMA ExecForeseen ==
  ASSUME KernelTypeOK, Tasks, Foreseen, UNCHANGED engineVars, NEW t \in Ids, Exec(t)
  PROVE  Foreseen'
<1> DEFINE g == group[t]
           w == Record("EXEC", g, g, t, 0, 0)
<1>1. /\ mode[t] = "kernel" /\ g \in Ids /\ group[g] = g /\ mode[g] # "free"
      /\ NoTask \notin Ids /\ traced \subseteq Ids
  BY KernelAssumption DEF Exec, KernelTypeOK, Tasks, Grouped
<1>2. /\ group' = [[group EXCEPT ![t] = NoTask] EXCEPT ![g] = g]
      /\ call' = [[call EXCEPT ![t] = 0] EXCEPT ![g] = call[t]]
      /\ Live(g) = {t}
      /\ UNCHANGED <<config, phase, pending, used, traced>>
  BY DEF Exec, engineVars, pumpVars, runVars
<1>3. CASE t = g
  <2>1. group' = group /\ call' = call
    BY <1>1, <1>2, <1>3 DEF KernelTypeOK
  <2>2. ASSUME NEW x \in Opens, Agrees(x) PROVE Agrees(x)'
    BY <1>2, <2>1, <2>2 DEF Agrees, Tracked, Blank
  <2>3. CASE Observe(w)
    <3>1. w \in Records
      <4>1. w = Record("EXEC", t, t, t, 0, 0)
        BY <1>3
      <4> QED
        BY <1>1, <4>1, RecordType DEF RecordKinds
    <3>2. w.kind = "EXEC"
      BY RecordFields
    <3> HIDE DEF w
    <3>3. \A x \in Opens : Fits(x, w) /\ After(x, w) = x
      BY <3>2 DEF Fits, After
    <3> QED
      BY <1>2, <2>2, <2>3, <3>1, <3>3, ForeseenMore
  <2>4. CASE Overlook(t)
    BY <1>2, <2>2, <2>4, UnrecordedPairs DEF Overlook
  <2> QED
    BY <2>3, <2>4 DEF Exec
<1>4. CASE t # g
  \* the leader is dead, and the dead are not traced
  <2>1. mode[g] = "zombie"
    <3>1. g \notin Live(g)
      BY <1>2, <1>4
    <3> QED
      BY <1>1, <3>1 DEF Live, KernelTypeOK, Modes
  <2>2. g \notin traced
    BY <1>1, <2>1 DEF Tasks, Buried
  <2>3. Overlook(t) /\ traced' = traced /\ used' = used
    BY <1>2, <2>2 DEF Exec, IsTraced
  <2> HIDE DEF g
  <2>4. \A s \in Ids : group'[s] = IF s = g THEN g ELSE IF s = t THEN NoTask ELSE group[s]
    BY <1>1, <1>2 DEF KernelTypeOK
  <2>5. \A s \in Ids : s # g /\ s # t => call'[s] = call[s]
    BY <1>1, <1>2 DEF KernelTypeOK
  <2>6. ~ReuseIds
    BY <1>1, <1>4 DEF Tasks, Known, g
  <2>7. ASSUME NEW x \in Opens, Agrees(x) PROVE Agrees(x)'
    <3>1. Tracked(x)'
      <4> SUFFICES ASSUME NEW s \in Ids, group'[s] \in traced' PROVE x[s] = call'[s]
        BY DEF Tracked
      <4>1. s # g /\ s # t
        BY <1>1, <2>2, <2>3, <2>4
      <4>2. group[s] \in traced /\ call'[s] = call[s]
        BY <2>3, <2>4, <2>5, <4>1
      <4> QED
        BY <2>7, <4>2 DEF Agrees, Tracked
    <3>2. Blank(x)'
      BY <2>3, <2>6, <2>7 DEF Agrees, Blank
    <3> QED
      BY <3>1, <3>2 DEF Agrees
  <2> QED
    BY <1>2, <2>3, <2>7, UnrecordedPairs DEF Overlook
<1> QED
  BY <1>3, <1>4

LEMMA ExitForeseen ==
  ASSUME KernelTypeOK, Tasks, Foreseen, UNCHANGED engineVars, NEW t \in Ids, Exit(t)
  PROVE  Foreseen'
<1> DEFINE g == group[t]
           w == Record("EXIT", g, t, t, 0, 0)
<1>1. /\ mode[t] # "free" /\ g \in Ids /\ NoTask \notin Ids /\ traced \subseteq Ids
      /\ (~ReuseIds => t \in used) /\ (ReuseIds => \A s \in Ids : group[s] \in {s, NoTask})
  BY KernelAssumption DEF Exit, Running, KernelTypeOK, Tasks, Known
<1>2. /\ group' = [group EXCEPT ![t] = IF t = g THEN g ELSE NoTask]
      /\ call' = [call EXCEPT ![t] = 0]
      /\ UNCHANGED <<config, phase, pending, used>>
  BY DEF Exit, engineVars, pumpVars, runVars
<1>3. /\ \A s \in Ids : group'[s] = IF s = t THEN IF t = g THEN g ELSE NoTask ELSE group[s]
      /\ \A s \in Ids : call'[s] = IF s = t THEN 0 ELSE call[s]
  BY <1>2 DEF KernelTypeOK
<1>4. CASE IsTraced(g)
  <2>1. Observe(w) /\ traced' = IF t = g THEN traced \ {t} ELSE traced
    BY <1>4 DEF Exit, Untrace
  <2>2. w \in Records
    BY <1>1, RecordType DEF RecordKinds
  <2>3. w.kind = "EXIT" /\ w.tid = t
    BY RecordFields
  <2> HIDE DEF w
  <2>4. \A x \in Opens : Fits(x, w)
    BY <2>3 DEF Fits
  <2>5. ASSUME NEW x \in Opens, Agrees(x), NEW y \in Opens, y = After(x, w) PROVE Agrees(y)'
    <3>1. \A s \in Ids : y[s] = IF s = t THEN 0 ELSE x[s]
      BY <2>3, <2>5 DEF After, Opens
    <3>2. Tracked(y)'
      BY <1>3, <2>1, <2>5, <3>1 DEF Agrees, Tracked
    <3>3. Blank(y)'
      <4>1. CASE ReuseIds
        <5>1. ASSUME NEW s \in Ids, s # t, group'[s] \notin traced' PROVE group[s] \notin traced
          BY <1>1, <1>3, <2>1, <4>1, <5>1
        <5> QED
          BY <2>5, <3>1, <4>1, <5>1 DEF Agrees, Blank
      <4>2. CASE ~ReuseIds
        BY <1>2, <2>5, <3>1, <4>2 DEF Agrees, Blank
      <4> QED
        BY <4>1, <4>2
    <3> QED
      BY <3>2, <3>3 DEF Agrees
  <2> QED
    BY <1>2, <2>1, <2>2, <2>4, <2>5, ForeseenMore
<1>5. CASE ~IsTraced(g)
  <2>1. Overlook(t) /\ traced' = traced
    BY <1>5 DEF Exit
  <2>2. ASSUME NEW x \in Opens, Agrees(x) PROVE Agrees(x)'
    <3>1. Tracked(x)'
      BY <1>1, <1>3, <1>5, <2>1, <2>2 DEF Agrees, Tracked, IsTraced
    <3>2. Blank(x)'
      <4>1. CASE ReuseIds
        <5>1. \A s \in Ids : group'[s] \notin traced' => group[s] \notin traced
          BY <1>3, <1>5, <2>1 DEF IsTraced
        <5> QED
          BY <2>2, <4>1, <5>1 DEF Agrees, Blank
      <4>2. CASE ~ReuseIds
        BY <1>2, <2>2, <4>2 DEF Agrees, Blank
      <4> QED
        BY <4>1, <4>2
    <3> QED
      BY <3>1, <3>2 DEF Agrees
  <2> QED
    BY <1>2, <2>1, <2>2, UnrecordedPairs DEF Overlook
<1> QED
  BY <1>4, <1>5

LEMMA KernelForeseen ==
  ASSUME KernelTypeOK, Tasks, Foreseen, KernelNext, UNCHANGED engineVars
  PROVE  Foreseen'
<1>1. ASSUME NEW p \in Ids, Reap(p) PROVE Foreseen'
  <2>1. Release(p) /\ UNCHANGED <<config, ring, dropped, traced, call, used>>
    BY <1>1 DEF Reap, recordVars
  <2> QED
    BY <2>1, ReleaseAgrees, UnrecordedPairs
<1>2. ASSUME NEW c \in Ids, Spawn(c) PROVE Foreseen'
  <2>1. /\ mode[c] = "free" /\ (ReuseIds \/ c \notin used)
        /\ group' = [group EXCEPT ![c] = c]
        /\ used' = (IF ReuseIds THEN used ELSE used \cup {c})
        /\ UNCHANGED <<config, ring, dropped, traced, call>>
    BY <1>2 DEF Spawn, recordVars
  <2>2. /\ group[c] = NoTask /\ NoTask \notin Ids /\ traced \subseteq Ids /\ call[c] = 0
        /\ \A s \in Ids : group'[s] = IF s = c THEN c ELSE group[s]
    BY <2>1, KernelAssumption DEF KernelTypeOK, Tasks, Calling
  <2>3. ASSUME NEW x \in Opens, Agrees(x) PROVE Agrees(x)'
    <3>1. x[c] = 0
      BY <2>1, <2>2, <2>3 DEF Agrees, Blank
    <3>2. Tracked(x)'
      BY <2>1, <2>2, <2>3, <3>1 DEF Agrees, Tracked
    <3>3. Blank(x)'
      BY <2>1, <2>2, <2>3, <3>1 DEF Agrees, Blank
    <3> QED
      BY <3>2, <3>3 DEF Agrees
  <2> QED
    BY <2>1, <2>3, UnrecordedPairs
<1> QED
  BY <1>1, <1>2, SysEnterForeseen, SysExitForeseen, ForkForeseen, ExecForeseen, ExitForeseen
     DEF KernelNext

-----------------------------------------------------------------------------
(* The pump does what is foreseen.                                         *)
LEMMA OneStack ==
  ASSUME TypeOK, OneDeep, NEW t \in Ids, NEW stack \in Seq(Events), Len(stack) <= 1,
         pending' = [pending EXCEPT ![t] = stack]
  PROVE  /\ OneDeep'
         /\ OpenNow' = [OpenNow EXCEPT ![t] = IF stack = << >> THEN 0 ELSE stack[1].ts]
<1> DEFINE n == IF stack = << >> THEN 0 ELSE stack[1].ts
<1>1. \A s \in Ids : pending'[s] = IF s = t THEN stack ELSE pending[s]
  BY DEF TypeOK
<1>2. OneDeep'
  BY <1>1 DEF OneDeep
<1>3. OpenNow' = [s \in Ids |-> IF s = t THEN n ELSE OpenNow[s]]
  BY <1>1 DEF OpenNow
<1> HIDE DEF n
<1>4. [OpenNow EXCEPT ![t] = n] = [s \in Ids |-> IF s = t THEN n ELSE OpenNow[s]]
  BY DEF OpenNow
<1>5. OpenNow' = [OpenNow EXCEPT ![t] = n]
  BY <1>3, <1>4
<1> QED
  BY <1>2, <1>5 DEF n

\* Who has an enter on the stack has one with a time.
LEMMA OpenTimed ==
  ASSUME TypeOK, Accounted, OneDeep, NEW t \in Ids
  PROVE  /\ pending[t] \in Seq(Events) /\ Len(pending[t]) \in {0, 1}
         /\ pending[t] = << >> <=> OpenNow[t] = 0
         /\ pending[t] # << >> => /\ Len(pending[t]) = 1
                                  /\ pending[t][1] \in Events
                                  /\ OpenNow[t] = pending[t][1].ts
                                  /\ OpenNow[t] \in InPending
<1>1. pending[t] \in Seq(Events) /\ Len(pending[t]) \in Nat /\ Len(pending[t]) <= 1
  BY DEF TypeOK, OneDeep
<1>2. OpenNow[t] = IF pending[t] = << >> THEN 0 ELSE pending[t][1].ts
  BY DEF OpenNow
<1>3. CASE pending[t] = << >>
  BY <1>1, <1>2, <1>3
<1>4. CASE pending[t] # << >>
  <2>1. Len(pending[t]) = 1 /\ pending[t][1] \in Events /\ 1 \in DOMAIN pending[t]
    <3>1. Len(pending[t]) = 1
      <4> DEFINE n == Len(pending[t])
      <4>1. n \in Nat \ {0} /\ n <= 1
        BY <1>1, <1>4, EmptySeq, Zenon
      <4> HIDE DEF n
      <4>2. n = 1
        BY <4>1
      <4> QED
        BY <4>2 DEF n
    <3>2. DOMAIN pending[t] = 1..Len(pending[t])
      BY <1>1, LenProperties
    <3>3. 1 \in 1..Len(pending[t])
      BY <3>1
    <3> QED
      BY <1>1, <3>1, <3>2, <3>3, ElementOfSeq
  <2>2. pending[t][1].ts \in InPending
    BY <2>1 DEF InPending
  <2>3. pending[t][1].ts # 0
    BY <2>2, PlacesKnown
  <2> QED
    BY <1>1, <1>2, <1>4, <2>1, <2>2, <2>3
<1> QED
  BY <1>3, <1>4

LEMMA HandledAsForeseen ==
  ASSUME TypeOK, Accounted, HandleRingEvent, OneDeep, config.returns,
         Fits(OpenNow, Head(ring))
  PROVE  OneDeep' /\ OpenNow' = After(OpenNow, Head(ring))
<1> DEFINE w == Head(ring)
           e == DecodeEvent(w)
           stack == pending[w.tid]
<1>1. w \in Records /\ w.tid \in Ids /\ e \in Events /\ e.ts = w.ts /\ w.ts # 0
  <2>1. w \in Records
    BY HeadTailProperties DEF HandleRingEvent, TypeOK, KernelTypeOK
  <2> HIDE DEF w
  <2> QED
    BY <2>1, DecodeType DEF Records, DecodeEvent
<1>2. /\ Fits(OpenNow, w)
      /\ HandleEnter(w) \/ HandleExit(w) \/ HandleForkExec(w) \/ HandleTaskExit(w)
  BY DEF HandleRingEvent
<1> HIDE DEF w
<1>3. /\ stack \in Seq(Events) /\ Len(stack) \in {0, 1}
      /\ stack = << >> <=> OpenNow[w.tid] = 0
      /\ pending \in [Ids -> Seq(Events)]
  BY <1>1, OpenTimed DEF TypeOK
<1>4. ASSUME UNCHANGED pending PROVE OneDeep' /\ OpenNow' = OpenNow
  BY <1>4 DEF OneDeep, OpenNow
<1>5. CASE HandleEnter(w)
  <2> DEFINE one == <<e>>
  <2>1. w.kind = "SYS_ENTER" /\ stack = << >>
    BY <1>2, <1>3, <1>5 DEF HandleEnter, Fits
  <2>2. pending' = [pending EXCEPT ![w.tid] = one]
    BY <1>1, <1>3, <1>5, <2>1 DEF HandleEnter, Key
  <2>3. one \in Seq(Events) /\ Len(one) <= 1 /\ one # << >> /\ one[1].ts = w.ts
    BY <1>1
  <2> HIDE DEF one, e, stack
  <2>4. (IF one = << >> THEN 0 ELSE one[1].ts) = w.ts
    BY <2>3
  <2>5. OneDeep' /\ OpenNow' = [OpenNow EXCEPT ![w.tid] = IF one = << >> THEN 0 ELSE one[1].ts]
    BY <1>1, <2>2, <2>3, OneStack
  <2> QED
    BY <2>1, <2>4, <2>5 DEF After, w
<1>6. CASE HandleExit(w) /\ stack # << >>
  <2> DEFINE rest == Popped(stack)
  <2>1. w.kind = "SYS_EXIT" /\ pending' = [pending EXCEPT ![w.tid] = rest]
    BY <1>1, <1>3, <1>6 DEF HandleExit, Key
  <2>2. rest = << >>
    <3>1. Len(stack) = 1
      BY <1>3, <1>6, EmptySeq
    <3>2. rest = SubSeq(stack, 1, 0)
      BY <3>1 DEF Popped
    <3> HIDE DEF rest, stack
    <3>3. rest \in Seq(Events) /\ Len(rest) = 0
      BY <1>3, <3>2, SubSeqProperties
    <3> QED
      BY <3>3, EmptySeq
  <2>3. rest \in Seq(Events) /\ Len(rest) <= 1
    BY <2>2
  <2> HIDE DEF rest
  <2>4. OneDeep' /\ OpenNow' = [OpenNow EXCEPT ![w.tid] = 0]
    BY <1>1, <2>1, <2>2, <2>3, OneStack
  <2> QED
    BY <2>1, <2>4 DEF After, w
<1>7. CASE HandleExit(w) /\ stack = << >>
  <2>1. w.kind = "SYS_EXIT" /\ UNCHANGED pending /\ OpenNow[w.tid] = 0
    BY <1>3, <1>7 DEF HandleExit, Key
  <2>2. [OpenNow EXCEPT ![w.tid] = 0] = OpenNow
    BY <1>1, <2>1 DEF OpenNow
  <2> QED
    BY <1>4, <2>1, <2>2 DEF After, w
<1>8. CASE HandleForkExec(w)
  <2>1. w.kind \in {"FORK", "EXEC"} /\ UNCHANGED pending
    BY <1>8 DEF HandleForkExec
  <2> QED
    BY <1>4, <2>1 DEF After, w
<1>9. CASE HandleTaskExit(w)
  <2> DEFINE none == << >>
  <2>1. w.kind = "EXIT" /\ pending' = [pending EXCEPT ![w.tid] = none]
    BY <1>9 DEF HandleTaskExit, Erase, Key
  <2>2. none \in Seq(Events) /\ Len(none) <= 1 /\ none = << >>
    OBVIOUS
  <2> HIDE DEF none
  <2>3. OneDeep' /\ OpenNow' = [OpenNow EXCEPT ![w.tid] = 0]
    BY <1>1, <2>1, <2>2, OneStack
  <2> QED
    BY <2>1, <2>3 DEF After, w
<1> QED
  BY <1>2, <1>5, <1>6, <1>7, <1>8, <1>9

LEMMA PumpForeseen ==
  ASSUME TypeOK, ChildWaits, Accounted, Tasks, Foreseen, EngineNext \/ UNCHANGED vars
  PROVE  Foreseen'
<1>1. KernelTypeOK /\ Target \in Ids
  BY KernelAssumption DEF TypeOK
<1>2. CASE UNCHANGED vars
  <2>1. UNCHANGED engineVars /\ UNCHANGED <<config, ring, dropped, group, traced, call, used>>
    BY <1>2 DEF vars, kernelVars, taskVars, recordVars
  <2> QED
    BY <2>1, UnrecordedPairs DEF Agrees, Tracked, Blank
<1>3. CASE Seed
  <2>1. /\ phase = "seed" /\ phase' = "release" /\ mode[Target] = "stopped"
        /\ UNCHANGED <<config, group, used, call, ring, dropped, pending>>
        /\ traced' = traced \cup {Target}
    BY <1>3 DEF Seed, ChildWaits, taskVars, recordVars, pumpVars
  <2>2. /\ traced = {} /\ ring = << >> /\ \A t \in Ids : pending[t] = << >>
        /\ \A t \in Ids : group[t] = Target => t = Target
        /\ call[Target] = 0
    BY <1>1, <2>1 DEF Tasks, Unseeded, Calling
  <2> SUFFICES ASSUME Pumping'
               PROVE  /\ OneDeep'
                      /\ \E s \in [1..Len(ring') + 1 -> Opens], x \in Opens :
                           /\ Foresees(ring', s)
                           /\ s[1] = OpenNow' /\ s[Len(ring') + 1] = x /\ Agrees(x)'
    BY DEF Foreseen
  <2>3. Pumping
    BY <2>1 DEF Pumping
  <2>4. /\ OneDeep
        /\ \E s \in [1..Len(ring) + 1 -> Opens], x \in Opens :
             Foresees(ring, s) /\ s[1] = OpenNow /\ s[Len(ring) + 1] = x /\ Agrees(x)
    BY <2>3 DEF Foreseen
  <2>5. PICK s \in [1..Len(ring) + 1 -> Opens], x \in Opens :
          Foresees(ring, s) /\ s[1] = OpenNow /\ s[Len(ring) + 1] = x /\ Agrees(x)
    BY <2>4
  <2>6. x = OpenNow /\ \A t \in Ids : x[t] = 0
    <3>1. Len(ring) + 1 = 1
      BY <2>2
    <3> QED
      BY <2>2, <2>5, <3>1 DEF OpenNow
  <2>7. Tracked(x)'
    BY <2>1, <2>2, <2>6 DEF Tracked
  <2>8. Blank(x)'
    BY <2>6 DEF Blank
  <2>9. OneDeep' /\ OpenNow' = OpenNow /\ ring' = ring
    BY <2>1, <2>4 DEF OneDeep, OpenNow
  <2> QED
    BY <2>5, <2>7, <2>8, <2>9 DEF Agrees
<1>4. CASE CheckReaps \/ ReapKilled
  <2>1. /\ Release(Target) /\ UNCHANGED <<used, traced, call>>
        /\ UNCHANGED <<config, ring, dropped, pending>>
        /\ phase \notin {"flush", "done"}
    BY <1>4 DEF CheckReaps, ReapKilled, recordVars, pumpVars
  <2>2. Pumping' => Pumping
    BY <2>1 DEF Pumping
  <2> QED
    BY <1>1, <2>1, <2>2, ReleaseAgrees, ForeseenSame
<1>5. CASE \/ ReleaseTarget \/ PollReturns \/ PollInterrupted \/ PollFails
           \/ CheckAlive \/ CheckGone \/ KillTarget
  <2>1. /\ UNCHANGED <<group, used, traced, call, config, ring, dropped, pending>>
        /\ phase \notin {"flush", "done"}
    BY <1>5 DEF ReleaseTarget, PollReturns, PollInterrupted, PollFails, CheckAlive,
                CheckGone, KillTarget, kernelVars, taskVars, recordVars, pumpVars
  <2>2. Pumping' => Pumping
    BY <2>1 DEF Pumping
  <2> QED
    BY <2>1, <2>2, ForeseenSame DEF Agrees, Tracked, Blank
<1>6. CASE (\E t \in Ids : FlushPending(t)) \/ Finish \/ WaitFails \/ SeedFails
  <2>1. phase' \in {"flush", "done"}
    BY <1>6 DEF FlushPending, Finish, WaitFails, SeedFails, runVars
  <2> QED
    BY <2>1 DEF Foreseen, Pumping
<1>7. CASE HandleRingEvent
  <2>1. /\ ring # << >> /\ ring' = Tail(ring) /\ phase = "poll"
        /\ UNCHANGED <<group, traced, call, used, config, dropped>>
    BY <1>7 DEF HandleRingEvent, taskVars
  <2>2. Pumping' => Pumping
    BY <2>1 DEF Pumping
  <2>3. Pumping => (OneDeep /\ Fits(OpenNow, Head(ring)) =>
                      OneDeep' /\ OpenNow' = After(OpenNow, Head(ring)))
    BY <1>7, HandledAsForeseen DEF Pumping
  <2> QED
    BY <1>1, <2>1, <2>2, <2>3, ForeseenLess
<1> QED
  BY <1>2, <1>3, <1>4, <1>5, <1>6, <1>7 DEF EngineNext

-----------------------------------------------------------------------------
(* What is reported.                                                       *)
LEMMA RightMore ==
  ASSUME out \in Seq(Events), NEW events \in Seq(Events), out' = out \o events,
         \A i \in 1..Len(out) : Right(out[i]), \A i \in 1..Len(events) : Right(events[i])
  PROVE  \A i \in 1..Len(out') : Right(out'[i])
<1>1. \A i \in 1..Len(out') : \/ i \in 1..Len(out) /\ out'[i] = out[i]
                              \/ i - Len(out) \in 1..Len(events) /\ out'[i] = events[i - Len(out)]
  OBVIOUS
<1> QED
  BY <1>1

LEMMA RightKernel ==
  ASSUME KernelTypeOK, KernelTypeOK', ReturnsAsked, KernelNext
  PROVE  ReturnsAsked'
<1>1. ring \in Seq(Records) /\ config' = config
  BY DEF KernelTypeOK, KernelNext, SysEnter, SysExit, Fork, Exec, Exit, Reap, Spawn
<1>2. ASSUME ring' = ring PROVE ReturnsAsked'
  BY <1>1, <1>2 DEF ReturnsAsked
<1>3. ASSUME NEW w, Observe(w), w.kind = "SYS_EXIT" => config.returns PROVE ReturnsAsked'
  <2>1. CASE ~RingFull
    <3>1. ring' = Append(ring, w)
      BY <1>3, <2>1 DEF Observe
    <3>2. \A k \in 1..Len(ring') : ring'[k] = w \/ (k \in 1..Len(ring) /\ ring'[k] = ring[k])
      BY <1>1, <3>1
    <3> QED
      BY <1>1, <1>3, <3>2 DEF ReturnsAsked
  <2>2. CASE RingFull
    BY <1>2, <1>3, <2>2 DEF Observe
  <2> QED
    BY <2>1, <2>2
<1>4. ASSUME NEW t \in Ids, Overlook(t) PROVE ReturnsAsked'
  BY <1>2, <1>4 DEF Overlook
<1>5. ASSUME NEW t \in Ids, NEW ptr \in BOOLEAN, SysEnter(t, ptr) PROVE ReturnsAsked'
  BY <1>3, <1>4, <1>5, RecordFields DEF SysEnter
<1>6. ASSUME NEW t \in Ids, SysExit(t) PROVE ReturnsAsked'
  BY <1>2, <1>3, <1>4, <1>6 DEF SysExit, recordVars
<1>7. ASSUME NEW t \in Ids, NEW c \in Ids, NEW thread \in BOOLEAN, Fork(t, c, thread)
      PROVE  ReturnsAsked'
  BY <1>3, <1>4, <1>7, RecordFields DEF Fork
<1>8. ASSUME NEW t \in Ids, Exec(t) PROVE ReturnsAsked'
  BY <1>3, <1>4, <1>8, RecordFields DEF Exec
<1>9. ASSUME NEW t \in Ids, Exit(t) PROVE ReturnsAsked'
  BY <1>3, <1>4, <1>9, RecordFields DEF Exit
<1>10. ASSUME NEW p \in Ids, Reap(p) \/ Spawn(p) PROVE ReturnsAsked'
  BY <1>2, <1>10 DEF Reap, Spawn, recordVars
<1> QED
  BY <1>5, <1>6, <1>7, <1>8, <1>9, <1>10 DEF KernelNext

\* A record is reported rightly: the return it brings is the stack's call's.
LEMMA HandledRight ==
  ASSUME TypeOK, Accounted, PendingOpen, Once, Foreseen, ReturnsAsked, PairsRight,
         dropped = 0, HandleRingEvent
  PROVE  \A i \in 1..Len(out') : Right(out'[i])
<1> DEFINE w == Head(ring)
           e == DecodeEvent(w)
           stack == pending[w.tid]
<1>1. w \in Records /\ w = ring[1] /\ 1 \in 1..Len(ring)
  BY HeadTailProperties, LenProperties, EmptySeq DEF HandleRingEvent, TypeOK, KernelTypeOK
<1>2. w.ts \in InRing
  <2>1. 1 \in DOMAIN ring
    BY <1>1, LenProperties DEF TypeOK, KernelTypeOK
  <2> QED
    BY <1>1, <2>1 DEF InRing
<1>3. w.kind = "SYS_EXIT" => OneDeep /\ Fits(OpenNow, w)
  <2>1. w.kind = "SYS_EXIT" => Pumping
    BY <1>1 DEF ReturnsAsked, HandleRingEvent, Pumping
  <2> SUFFICES ASSUME Pumping PROVE OneDeep /\ Fits(OpenNow, Head(ring))
    BY <2>1
  <2>2. /\ OneDeep
        /\ \E s \in [1..Len(ring) + 1 -> Opens], x \in Opens :
             Foresees(ring, s) /\ s[1] = OpenNow /\ s[Len(ring) + 1] = x /\ Agrees(x)
    BY DEF Foreseen
  <2>3. PICK s \in [1..Len(ring) + 1 -> Opens], x \in Opens :
          Foresees(ring, s) /\ s[1] = OpenNow /\ s[Len(ring) + 1] = x /\ Agrees(x)
    BY <2>2
  <2>4. ring \in Seq(Records) /\ ring # << >>
    BY DEF HandleRingEvent, TypeOK, KernelTypeOK
  <2>5. Fits(s[1], Head(ring))
    BY <2>3, <2>4, Shrink
  <2> QED
    BY <2>2, <2>3, <2>5
<1>4. HandleEnter(w) \/ HandleExit(w) \/ HandleForkExec(w) \/ HandleTaskExit(w)
  BY DEF HandleRingEvent
<1> HIDE DEF w
<1>5. /\ e \in Events /\ e.ts = w.ts /\ w.ts # 0 /\ w.tid \in Ids
      /\ e.exit = (IF w.kind = "SYS_EXIT" THEN w.ts ELSE 0)
      /\ e.retOf = (IF w.kind = "SYS_EXIT" THEN w.of ELSE 0)
  BY <1>1, DecodeType DEF Records, DecodeEvent
<1> HIDE DEF e
<1>6. /\ out \in Seq(Events) /\ stack \in Seq(Events)
      /\ \A i \in 1..Len(out) : Right(out[i])
      /\ \A k \in 1..Len(stack) : stack[k].exit = 0
  BY <1>5 DEF TypeOK, PairsRight, PendingOpen
<1>7. ASSUME NEW f \in Events, Emit(<<f>>), Right(f)
      PROVE  \A i \in 1..Len(out') : Right(out'[i])
  <2> DEFINE one == <<f>>
  <2>1. one \in Seq(Events) /\ \A i \in 1..Len(one) : Right(one[i])
    BY <1>7
  <2>2. out' = out \o one
    BY <1>7 DEF Emit
  <2> HIDE DEF one
  <2> QED
    BY <1>6, <2>1, <2>2, RightMore
<1>8. CASE HandleEnter(w)
  <2>1. w.kind = "SYS_ENTER" /\ (Emit(<<e>>) \/ out' = out)
    BY <1>8 DEF HandleEnter, Keep, e
  <2>2. Right(e)
    BY <1>5, <2>1 DEF Right
  <2> QED
    BY <1>5, <1>6, <1>7, <2>1, <2>2
<1>9. CASE HandleExit(w) /\ stack # << >>
  <2> DEFINE top == stack[Len(stack)]
             paired == Paired(top, e)
  <2>1. w.kind = "SYS_EXIT" /\ Emit(<<paired>>)
    BY <1>9 DEF HandleExit, Key, e
  <2>2. /\ Len(stack) = 1 /\ stack[1] \in Events /\ OpenNow[w.tid] = stack[1].ts
        /\ stack[1].ts \in InPending
    BY <1>3, <1>5, <1>9, <2>1, OpenTimed
  <2>3. top = stack[1]
    BY <2>2
  <2> HIDE DEF top, stack
  <2>4. w.of = top.ts /\ top \in Events /\ top.ts # w.ts
    BY <1>2, <1>3, <2>1, <2>2, <2>3 DEF Fits, Once, Apart
  <2>5. paired \in Events /\ paired.ts = top.ts /\ paired.exit = w.ts /\ paired.retOf = top.ts
    BY <1>5, <2>1, <2>4, PairedType DEF Paired, Events
  <2> HIDE DEF paired
  <2>6. Right(paired)
    BY <2>4, <2>5 DEF Right
  <2> QED
    BY <1>7, <2>1, <2>5, <2>6
<1>10. CASE HandleExit(w) /\ stack = << >>
  <2>1. w.kind = "SYS_EXIT" /\ Emit(<<e>>)
    BY <1>10 DEF HandleExit, Key, e
  <2>2. w.of = 0
    BY <1>3, <1>5, <1>10, <2>1, OpenTimed DEF Fits
  <2>3. Right(e)
    BY <1>5, <2>1, <2>2 DEF Right
  <2> QED
    BY <1>5, <1>7, <2>1, <2>3
<1>11. CASE HandleForkExec(w)
  <2>1. w.kind \in {"FORK", "EXEC"} /\ Emit(<<e>>)
    BY <1>11 DEF HandleForkExec, e
  <2>2. Right(e)
    BY <1>5, <2>1 DEF Right
  <2> QED
    BY <1>5, <1>7, <2>1, <2>2
<1>12. CASE HandleTaskExit(w)
  <2> DEFINE all == Append(stack, e)
  <2>1. w.kind = "EXIT" /\ out' = out \o all
    BY <1>12 DEF HandleTaskExit, LeftOver, Key, Emit, e
  <2>2. e.exit = 0
    BY <1>5, <2>1
  <2>3. all \in Seq(Events) /\ \A i \in 1..Len(all) : all[i].exit = 0
    <3>1. \A i \in 1..Len(all) : all[i] = e \/ (i \in 1..Len(stack) /\ all[i] = stack[i])
      BY <1>5, <1>6
    <3>2. all \in Seq(Events)
      BY <1>5, <1>6
    <3> HIDE DEF all, stack
    <3> QED
      BY <1>6, <2>2, <3>1, <3>2
  <2> HIDE DEF all
  <2> QED
    BY <1>6, <2>1, <2>3, RightMore DEF Right
<1> QED
  BY <1>4, <1>8, <1>9, <1>10, <1>11, <1>12

LEMMA PumpRight ==
  ASSUME TypeOK, Accounted, PendingOpen, Once, Foreseen, ReturnsAsked, PairsRight,
         EngineNext \/ UNCHANGED vars
  PROVE  ReturnsAsked' /\ PairsRight'
<1>1. config' = config /\ dropped' = dropped
  BY DEF EngineNext, Seed, WaitFails, SeedFails, ReleaseTarget, HandleRingEvent,
         PollReturns, PollInterrupted, PollFails, CheckReaps, CheckAlive, CheckGone, KillTarget, ReapKilled,
         FlushPending, Finish, vars, kernelVars, recordVars
<1>2. ring' = ring \/ (ring # << >> /\ ring' = Tail(ring))
  BY DEF EngineNext, Seed, WaitFails, SeedFails, ReleaseTarget, HandleRingEvent,
         PollReturns, PollInterrupted, PollFails, CheckReaps, CheckAlive, CheckGone, KillTarget, ReapKilled,
         FlushPending, Finish, vars, kernelVars, recordVars
<1>3. ReturnsAsked'
  <2>1. CASE ring' = ring
    BY <1>1, <2>1 DEF ReturnsAsked
  <2>2. CASE ring # << >> /\ ring' = Tail(ring)
    <3>1. \A k \in 1..Len(ring') : k + 1 \in 1..Len(ring) /\ ring'[k] = ring[k + 1]
      <4>1. ring \in Seq(Records)
        BY DEF TypeOK, KernelTypeOK
      <4> QED
        BY <2>2, <4>1
    <3> QED
      BY <1>1, <3>1 DEF ReturnsAsked
  <2> QED
    BY <1>2, <2>1, <2>2
<1>4. PairsRight'
  <2> SUFFICES ASSUME dropped = 0 PROVE \A i \in 1..Len(out') : Right(out'[i])
    BY <1>1 DEF PairsRight
  <2>1. CASE HandleRingEvent
    BY <2>1, HandledRight
  <2>2. ASSUME NEW t \in Ids, FlushPending(t)
        PROVE  \A i \in 1..Len(out') : Right(out'[i])
    <3> DEFINE stack == pending[t]
    <3>1. /\ out \in Seq(Events) /\ stack \in Seq(Events) /\ out' = out \o stack
          /\ \A i \in 1..Len(out) : Right(out[i])
          /\ \A k \in 1..Len(stack) : stack[k].exit = 0
      BY <2>2 DEF TypeOK, FlushPending, LeftOver, Emit, PairsRight, PendingOpen
    <3> HIDE DEF stack
    <3> QED
      BY <3>1, RightMore DEF Right
  <2>3. CASE out' = out
    BY <2>3 DEF PairsRight
  <2>4. \/ HandleRingEvent \/ (\E t \in Ids : FlushPending(t)) \/ out' = out
    BY DEF EngineNext, Seed, WaitFails, SeedFails, ReleaseTarget, PollReturns,
           PollInterrupted, PollFails, CheckReaps, CheckAlive, CheckGone, KillTarget, ReapKilled,
           Finish, vars, engineVars, pumpVars
  <2> QED
    BY <2>1, <2>2, <2>3, <2>4
<1> QED
  BY <1>3, <1>4

-----------------------------------------------------------------------------
LEMMA PairsInit == Init => Tasks /\ ReturnsAsked /\ Foreseen /\ PairsRight
<1> SUFFICES ASSUME Init PROVE Tasks /\ ReturnsAsked /\ Foreseen /\ PairsRight
  OBVIOUS
<1>1. /\ mode = [t \in Ids |-> IF t = Target THEN "stopped" ELSE "free"]
      /\ group = [t \in Ids |-> IF t = Target THEN Target ELSE NoTask]
      /\ traced = {} /\ ring = << >> /\ call = [t \in Ids |-> 0] /\ used = {Target}
      /\ pending = [t \in Ids |-> << >>] /\ out = << >>
      /\ Target \in Ids /\ NoTask \notin Ids
  BY KernelAssumption DEF Init, KernelInit
<1>2. Len(<< >>) = 0 /\ 1..0 = {}
  OBVIOUS
<1>3. Grouped /\ Buried /\ Calling /\ Known /\ Unseeded
  BY <1>1 DEF Grouped, Buried, Calling, Known, Unseeded
<1>4. ReturnsAsked /\ PairsRight
  BY <1>1, <1>2 DEF ReturnsAsked, PairsRight
<1>5. Foreseen
  <2> DEFINE x == [t \in Ids |-> 0]
             s == [k \in 1..1 |-> x]
  <2>1. x \in Opens /\ OpenNow = x
    BY <1>1 DEF Opens, OpenNow
  <2>2. Agrees(x)
    BY <1>1 DEF Agrees, Tracked, Blank
  <2>3. OneDeep
    BY <1>1, <1>2 DEF OneDeep
  <2>4. Len(ring) + 1 = 1 /\ 1..Len(ring) = {}
    BY <1>1
  <2> HIDE DEF x
  <2>5. s \in [1..Len(ring) + 1 -> Opens] /\ s[1] = x
    BY <2>1, <2>4
  <2> HIDE DEF s
  <2>6. Foresees(ring, s)
    BY <2>4, <2>5 DEF Foresees
  <2> QED
    BY <2>1, <2>2, <2>3, <2>4, <2>5, <2>6 DEF Foreseen
<1> QED
  BY <1>3, <1>4, <1>5 DEF Tasks

\* A refusal is never forgotten.
LEMMA DroppedStays ==
  ASSUME KernelTypeOK, KernelNext, dropped' = 0
  PROVE  dropped = 0
<1>1. dropped \in Nat
  BY DEF KernelTypeOK
<1>2. dropped' = dropped \/ dropped' = dropped + 1
  BY DEF KernelNext, SysEnter, SysExit, Fork, Exec, Exit, Reap, Spawn, Observe, Overlook,
         CountDrop, recordVars
<1> QED
  BY <1>1, <1>2

LEMMA PairsNext ==
  ASSUME ~Threads \/ ~ReuseIds, Books, Books', Tasks, ReturnsAsked, Foreseen, PairsRight,
         [Next]_vars
  PROVE  Tasks' /\ ReturnsAsked' /\ Foreseen' /\ PairsRight'
<1>1. /\ TypeOK /\ TypeOK' /\ KernelTypeOK /\ KernelTypeOK'
      /\ ChildWaits /\ Accounted /\ PendingOpen /\ Once
  BY DEF Books, TypeOK
<1>2. CASE KernelStep
  <2>1. KernelNext /\ UNCHANGED engineVars
    BY <1>2 DEF KernelStep
  <2>2. Tasks' /\ Foreseen' /\ ReturnsAsked'
    BY <1>1, <2>1, KernelTasks, KernelForeseen, RightKernel
  <2>3. dropped' = 0 => dropped = 0
    BY <1>1, <2>1, DroppedStays
  <2>4. PairsRight'
    BY <2>1, <2>3 DEF PairsRight, engineVars, pumpVars
  <2> QED
    BY <2>2, <2>4
<1>3. CASE EngineNext \/ UNCHANGED vars
  BY <1>1, <1>3, PumpTasks, PumpForeseen, PumpRight
<1> QED
  BY <1>2, <1>3 DEF Next

(* The return value an event carries is the one of the call the event is   *)
(* of, and an exit reported alone belongs to a call whose enter was never  *)
(* recorded, as long as the ring refused nothing (engine.cpp:30-32, 72-99) *)
(* - in every interleaving of any number of tasks with the pump, for       *)
(* programs that have no threads or on a machine that reuses no id.        *)
THEOREM ReturnsPaired == ASSUME ~Threads \/ ~ReuseIds PROVE Spec => []PairedWithOwnReturn
<1>1. Init => Tasks /\ ReturnsAsked /\ Foreseen /\ PairsRight
  BY PairsInit
<1>2. /\ Books /\ Books' /\ Tasks /\ ReturnsAsked /\ Foreseen /\ PairsRight
      /\ [Next]_vars
      => Tasks' /\ ReturnsAsked' /\ Foreseen' /\ PairsRight'
  BY PairsNext
<1>3. Books /\ PairsRight => PairedWithOwnReturn
  <2> SUFFICES ASSUME Books, PairsRight PROVE PairedWithOwnReturn
    OBVIOUS
  <2>1. DOMAIN out = 1..Len(out)
    BY LenProperties DEF Books, TypeOK
  <2> QED
    BY <2>1 DEF PairsRight, Right, PairedWithOwnReturn
<1> QED
  BY <1>1, <1>2, <1>3, BooksInvariant, PTL DEF Spec

-----------------------------------------------------------------------------
(***************************************************************************)
(* What tmon-linux knows of the tasks of the machine, for every set of     *)
(* ids, ring capacity, configuration and bound.                            *)
(*                                                                         *)
(* Where programs have no threads, `traced` holds the living processes of  *)
(* the target's tree and no other, through forks, execs, deaths and reused *)
(* ids, and a stashed pointer is the one of the call its task is in.       *)
(* Where ids are not reused, the run ends after the target.                *)
(***************************************************************************)

(* A process is its one task.                                              *)
Own == \A t \in Ids : mode[t] # "free" => group[t] = t

(* What is traced lives and belongs to the tree.                           *)
TracedInside == \A t \in traced : t \in family /\ mode[t] \in Running \cup {"stopped"}

FamilyExists == \A t \in family : mode[t] # "free"

TreeInside ==
  /\ Own /\ TracedInside /\ FamilyExists
  /\ mode[Target] = "stopped" => Target \in family
  /\ alien = {}

(* What lives in the tree is traced.                                       *)
TreeTraced ==
  /\ \A t \in family : mode[t] \in Running => t \in traced
  /\ phase = "release" => Target \in traced
  /\ missed = {}

(* A stash belongs to the call its task is in the middle of.               *)
StashFresh ==
  \A t \in Ids : decoding[t] # 0 =>
    /\ mode[t] \in {"kernel", "leaving"} /\ t \in traced
    /\ decoding[t] = call[t]
    /\ config.decode /\ config.returns

-----------------------------------------------------------------------------
(* Observing a record of the tree's, or overlooking a stranger's, leaves   *)
(* the histories of what went wrong alone.                                 *)
LEMMA ObservedInside ==
  ASSUME alien = {}, NEW kind, NEW pid, NEW tid, NEW t \in family, NEW of, NEW arg,
         Observe(Record(kind, pid, tid, t, of, arg))
  PROVE  alien' = {} /\ missed' = missed
<1>1. Record(kind, pid, tid, t, of, arg).tree = TRUE
  BY DEF Record
<1> QED
  BY <1>1 DEF Observe

LEMMA OverlookedOutside ==
  ASSUME NEW t, Overlook(t)
  PROVE  alien' = alien /\ (t \notin family => missed' = missed)
BY DEF Overlook

(* The steps of the tasks, without threads.                                *)
LEMMA TreeInsideKernel ==
  ASSUME ~Threads, KernelTypeOK, TreeInside, KernelNext
  PROVE  TreeInside'
<1> USE DEF TreeInside, Own, TracedInside, FamilyExists, KernelTypeOK
<1>1. Target \in Ids
  BY KernelAssumption
<1>2. ASSUME NEW t \in Ids, NEW ptr \in BOOLEAN, SysEnter(t, ptr) PROVE TreeInside'
  <2>1. group[t] = t /\ mode' = [mode EXCEPT ![t] = "kernel"]
    BY <1>2 DEF SysEnter
  <2>2. UNCHANGED <<group, family, traced>>
    BY <1>2 DEF SysEnter
  <2>3. alien' = {}
    BY <1>2, <2>1, ObservedInside, OverlookedOutside DEF SysEnter, IsTraced
  <2> QED
    BY <1>1, <1>2, <2>1, <2>2, <2>3 DEF Running, SysEnter
<1>3. ASSUME NEW t \in Ids, SysExit(t) PROVE TreeInside'
  <2>1. group[t] = t /\ mode' = [mode EXCEPT ![t] = "user"] /\ mode[t] \in {"kernel", "leaving"}
    BY <1>3 DEF SysExit
  <2>2. UNCHANGED <<group, family, traced>>
    BY <1>3 DEF SysExit
  <2>3. alien' = {}
    BY <1>3, <2>1, ObservedInside, OverlookedOutside DEF SysExit, IsTraced, recordVars
  <2> QED
    BY <1>1, <2>1, <2>2, <2>3 DEF Running
<1>4. ASSUME NEW t \in Ids, NEW c \in Ids, NEW thread \in BOOLEAN, Fork(t, c, thread)
      PROVE  TreeInside'
  <2>1. /\ ~thread /\ mode[t] = "kernel" /\ mode[c] = "free" /\ group[t] = t
        /\ mode' = [mode EXCEPT ![t] = "leaving", ![c] = "leaving"]
        /\ group' = [group EXCEPT ![c] = c]
        /\ family' = IF t \in family /\ config.follow THEN family \cup {c} ELSE family
    BY <1>4 DEF Fork
  <2>2. alien' = {}
    BY <1>4, ObservedInside, OverlookedOutside DEF Fork, IsTraced
  <2>3. \/ t \in traced /\ config.follow /\ traced' \subseteq traced \cup {c}
        \/ traced' = traced
    BY <1>4 DEF Fork, IsTraced, Insert
  <2>4. /\ \A s \in Ids : mode'[s] = IF s \in {t, c} THEN "leaving" ELSE mode[s]
        /\ \A s \in Ids : group'[s] = IF s = c THEN c ELSE group[s]
    BY <2>1
  <2>5. Own' /\ FamilyExists'
    BY <2>1, <2>4
  <2>6. TracedInside'
    BY <2>1, <2>3, <2>4 DEF Running
  <2>7. mode'[Target] = "stopped" => Target \in family'
    BY <1>1, <2>1, <2>4
  <2> QED
    BY <2>2, <2>5, <2>6, <2>7
<1>5. ASSUME NEW t \in Ids, Exec(t) PROVE TreeInside'
  <2>1. group[t] = t
    BY <1>5 DEF Exec
  <2>2. /\ \A s \in Ids : mode'[s] = IF s = t THEN "leaving" ELSE mode[s]
        /\ \A s \in Ids : group'[s] = group[s]
        /\ family' = family /\ traced' = traced /\ mode[t] = "kernel"
    BY <1>5, <2>1 DEF Exec
  <2>3. alien' = {}
    BY <1>5, <2>1, ObservedInside, OverlookedOutside DEF Exec, IsTraced
  <2>4. Own' /\ FamilyExists'
    BY <2>1, <2>2
  <2>5. TracedInside'
    BY <2>1, <2>2 DEF Running
  <2> QED
    BY <1>1, <2>2, <2>3, <2>4, <2>5
<1>6. ASSUME NEW t \in Ids, Exit(t) PROVE TreeInside'
  <2>1. group[t] = t
    BY <1>6 DEF Exit, Running
  <2>2. /\ \A s \in Ids : mode'[s] = IF s = t THEN "zombie" ELSE mode[s]
        /\ \A s \in Ids : group'[s] = group[s]
        /\ family' = family /\ mode[t] \in Running
    BY <1>6, <2>1 DEF Exit
  <2>3. t \notin traced' /\ traced' \subseteq traced
    BY <1>6, <2>1 DEF Exit, IsTraced, Untrace
  <2>4. alien' = {}
    BY <1>6, <2>1, ObservedInside, OverlookedOutside DEF Exit, IsTraced
  <2> QED
    BY <1>1, <2>1, <2>2, <2>3, <2>4 DEF Running
<1>7. ASSUME NEW p \in Ids, Reap(p) PROVE TreeInside'
  BY <1>1, <1>7 DEF Reap, Release, Running, recordVars
<1>8. ASSUME NEW c \in Ids, Spawn(c) PROVE TreeInside'
  BY <1>1, <1>8 DEF Spawn, Running, recordVars
<1> QED
  BY <1>2, <1>3, <1>4, <1>5, <1>6, <1>7, <1>8 DEF KernelNext

(* No step of a task loses one of the tree: only a full `traced` could.    *)
LEMMA TreeTracedKernel ==
  ASSUME ~Threads, Cardinality(Ids) <= MapCap,
         KernelTypeOK, TreeInside, TreeTraced, ChildWaits, KernelNext, phase' = phase
  PROVE  TreeTraced'
<1> USE DEF TreeInside, Own, TracedInside, FamilyExists, TreeTraced, KernelTypeOK
<1>1. Target \in Ids
  BY KernelAssumption
<1>2. phase = "release" => mode[Target] = "stopped"
  BY DEF ChildWaits
<1>3. ASSUME NEW t \in Ids, NEW ptr \in BOOLEAN, SysEnter(t, ptr) PROVE TreeTraced'
  <2>1. group[t] = t /\ mode' = [mode EXCEPT ![t] = "kernel"] /\ mode[t] \in Running
    BY <1>3 DEF SysEnter, Running
  <2>2. UNCHANGED <<family, traced>>
    BY <1>3 DEF SysEnter
  <2>3. missed' = {}
    <3>1. CASE t \in traced
      BY <1>3, <2>1, <3>1, ObservedInside DEF SysEnter, IsTraced
    <3>2. CASE t \notin traced
      BY <1>3, <2>1, <3>2, OverlookedOutside DEF SysEnter, IsTraced
    <3> QED
      BY <3>1, <3>2
  <2> QED
    BY <1>1, <1>2, <2>1, <2>2, <2>3 DEF Running
<1>4. ASSUME NEW t \in Ids, SysExit(t) PROVE TreeTraced'
  <2>1. group[t] = t /\ mode' = [mode EXCEPT ![t] = "user"] /\ mode[t] \in Running
    BY <1>4 DEF SysExit, Running
  <2>2. UNCHANGED <<family, traced>>
    BY <1>4 DEF SysExit
  <2>3. missed' = {}
    <3>1. CASE t \in traced
      BY <1>4, <2>1, <3>1, ObservedInside DEF SysExit, IsTraced, recordVars
    <3>2. CASE t \notin traced
      BY <1>4, <2>1, <3>2, OverlookedOutside DEF SysExit, IsTraced, recordVars
    <3> QED
      BY <3>1, <3>2
  <2> QED
    BY <1>1, <1>2, <2>1, <2>2, <2>3 DEF Running
<1>5. ASSUME NEW t \in Ids, NEW c \in Ids, NEW thread \in BOOLEAN, Fork(t, c, thread)
      PROVE  TreeTraced'
  <2>1. /\ ~thread /\ mode[t] \in Running /\ mode[c] = "free"
        /\ mode' = [mode EXCEPT ![t] = "leaving", ![c] = "leaving"]
        /\ family' = IF t \in family /\ config.follow THEN family \cup {c} ELSE family
    BY <1>5 DEF Fork, Running
  <2>2. missed' = {}
    BY <1>5, <2>1, ObservedInside, OverlookedOutside DEF Fork, IsTraced
  <2>3. Insert(traced, c) = traced \cup {c}
    <3>1. c \notin traced
      BY <2>1 DEF Running
    <3>2. traced \subseteq Ids \ {c} /\ IsFiniteSet(Ids)
      BY <3>1, KernelAssumption
    <3>3. IsFiniteSet(Ids \ {c}) /\ Cardinality(Ids \ {c}) = Cardinality(Ids) - 1
      BY <3>2, FS_RemoveElement
    <3>4. Cardinality(traced) <= Cardinality(Ids \ {c})
      BY <3>2, <3>3, FS_Subset
    <3>5. IsFiniteSet(traced)
      BY <3>2, <3>3, FS_Subset
    <3>6. /\ Cardinality(traced) \in Nat /\ Cardinality(Ids) \in Nat
          /\ Cardinality(Ids \ {c}) \in Nat /\ MapCap \in Nat
      BY <3>2, <3>3, <3>5, FS_CardinalityType, KernelAssumption
    <3>7. Cardinality(traced) < MapCap
      BY ONLY <3>3, <3>4, <3>6, Cardinality(Ids) <= MapCap
    <3> QED
      BY <3>7 DEF Insert
  <2>4. \/ traced' = IF config.follow THEN traced \cup {c} ELSE traced
        \/ t \notin traced /\ traced' = traced
    BY <1>5, <2>3 DEF Fork, IsTraced
  <2>5. traced \subseteq traced'
    BY <2>4
  <2>6. t \in family /\ config.follow => c \in traced'
    BY <2>1, <2>4
  <2>7. c \notin family
    BY <2>1
  <2> QED
    BY <1>1, <1>2, <2>1, <2>2, <2>5, <2>6, <2>7 DEF Running
<1>6. ASSUME NEW t \in Ids, Exec(t) PROVE TreeTraced'
  <2>1. group[t] = t /\ mode[t] \in Running
    BY <1>6 DEF Exec, Running
  <2>2. /\ \A s \in Ids : mode'[s] = IF s = t THEN "leaving" ELSE mode[s]
        /\ family' = family /\ traced' = traced
    BY <1>6, <2>1 DEF Exec
  <2>3. missed' = {}
    BY <1>6, <2>1, ObservedInside, OverlookedOutside DEF Exec, IsTraced
  <2> QED
    BY <1>1, <1>2, <2>1, <2>2, <2>3
<1>7. ASSUME NEW t \in Ids, Exit(t) PROVE TreeTraced'
  <2>1. group[t] = t /\ mode[t] \in Running
    BY <1>7 DEF Exit, Running
  <2>2. /\ \A s \in Ids : mode'[s] = IF s = t THEN "zombie" ELSE mode[s]
        /\ family' = family
    BY <1>7, <2>1 DEF Exit
  <2>3. traced' = traced \/ traced' = traced \ {t}
    BY <1>7, <2>1 DEF Exit, IsTraced, Untrace
  <2>4. missed' = {}
    BY <1>7, <2>1, ObservedInside, OverlookedOutside DEF Exit, IsTraced
  <2> QED
    BY <1>1, <1>2, <2>1, <2>2, <2>3, <2>4 DEF Running
<1>8. ASSUME NEW p \in Ids, Reap(p) PROVE TreeTraced'
  BY <1>1, <1>2, <1>8 DEF Reap, Release, Running, recordVars
<1>9. ASSUME NEW c \in Ids, Spawn(c) PROVE TreeTraced'
  BY <1>1, <1>2, <1>9 DEF Spawn, Running, recordVars
<1> QED
  BY <1>3, <1>4, <1>5, <1>6, <1>7, <1>8, <1>9 DEF KernelNext

LEMMA StashFreshKernel ==
  ASSUME ~Threads, KernelTypeOK, TreeInside, StashFresh, KernelNext
  PROVE  StashFresh'
<1> USE DEF TreeInside, Own, TracedInside, StashFresh, KernelTypeOK
<1>1. config' = config
  BY DEF KernelNext, SysEnter, SysExit, Fork, Exec, Exit, Reap, Spawn
<1>2. ASSUME NEW t \in Ids, NEW ptr \in BOOLEAN, SysEnter(t, ptr) PROVE StashFresh'
  <2>1. /\ group[t] = t /\ mode[t] = "user" /\ traced' = traced
        /\ mode' = [mode EXCEPT ![t] = "kernel"]
    BY <1>2 DEF SysEnter
  <2>2. decoding[t] = 0
    BY <2>1
  <2>3. \A s \in Ids : s # t => decoding'[s] = decoding[s] /\ call'[s] = call[s]
    BY <1>2 DEF SysEnter
  <2>4. decoding'[t] # 0 =>
          decoding'[t] = call'[t] /\ t \in traced /\ config.decode /\ config.returns
    BY <1>2, <2>1, <2>2 DEF SysEnter, IsTraced
  <2> QED
    BY <1>1, <2>1, <2>3, <2>4
<1>3. ASSUME NEW t \in Ids, SysExit(t) PROVE StashFresh'
  <2>1. /\ group[t] = t /\ traced' = traced
        /\ mode' = [mode EXCEPT ![t] = "user"]
        /\ call' = [call EXCEPT ![t] = 0]
    BY <1>3 DEF SysExit
  <2>2. decoding'[t] = 0 /\ \A s \in Ids : s # t => decoding'[s] = decoding[s]
    BY <1>3, <2>1 DEF SysExit, IsTraced, Unstash
  <2> QED
    BY <1>1, <2>1, <2>2
<1>4. ASSUME NEW t \in Ids, NEW c \in Ids, NEW thread \in BOOLEAN, Fork(t, c, thread)
      PROVE  StashFresh'
  <2>1. /\ mode[c] = "free" /\ decoding' = decoding
        /\ mode' = [mode EXCEPT ![t] = "leaving", ![c] = "leaving"]
        /\ call' = [call EXCEPT ![c] = 0]
        /\ traced \subseteq traced'
    BY <1>4 DEF Fork, Insert
  <2>2. decoding[c] = 0
    BY <2>1
  <2> QED
    BY <1>1, <2>1, <2>2
<1>5. ASSUME NEW t \in Ids, Exec(t) PROVE StashFresh'
  <2>1. group[t] = t
    BY <1>5 DEF Exec
  <2>2. /\ \A s \in Ids : mode'[s] = IF s = t THEN "leaving" ELSE mode[s]
        /\ \A s \in Ids : call'[s] = call[s]
        /\ decoding' = decoding /\ traced' = traced
    BY <1>5, <2>1 DEF Exec
  <2> QED
    BY <1>1, <2>2
<1>6. ASSUME NEW t \in Ids, Exit(t) PROVE StashFresh'
  <2>1. group[t] = t
    BY <1>6 DEF Exit, Running
  <2>2. /\ \A s \in Ids : s # t => mode'[s] = mode[s] /\ call'[s] = call[s]
        /\ traced \ {t} \subseteq traced'
    BY <1>6, <2>1 DEF Exit, Untrace
  <2>3. decoding'[t] = 0 /\ \A s \in Ids : s # t => decoding'[s] = decoding[s]
    BY <1>6, <2>1 DEF Exit, IsTraced, Unstash
  <2> QED
    BY <1>1, <2>2, <2>3
<1>7. ASSUME NEW p \in Ids, Reap(p) PROVE StashFresh'
  BY <1>1, <1>7 DEF Reap, Release
<1>8. ASSUME NEW c \in Ids, Spawn(c) PROVE StashFresh'
  BY <1>1, <1>8 DEF Spawn
<1> QED
  BY <1>2, <1>3, <1>4, <1>5, <1>6, <1>7, <1>8 DEF KernelNext

(* A record carries the stash of its own call, or the pointer it read      *)
(* itself, or none.                                                        *)
FreshRecord(w) ==
  /\ w.kind = "SYS_EXIT" => w.arg \in {0, w.of}
  /\ w.kind = "SYS_ENTER" => w.arg \in {0, w.ts} /\ (config.returns => w.arg = 0)
  /\ w.kind \in {"FORK", "EXEC", "EXIT"} => w.arg = 0

FreshRing == \A k \in 1..Len(ring) : FreshRecord(ring[k])

LEMMA ObservedFresh ==
  ASSUME KernelTypeOK, FreshRing, config' = config, NEW rec \in Records,
         FreshRecord(rec), Observe(rec)
  PROVE  FreshRing'
<1>1. CASE ring' = ring
  BY <1>1 DEF FreshRing, FreshRecord
<1>2. CASE ring' = Append(ring, rec)
  <2>1. /\ Len(ring') = Len(ring) + 1 /\ Len(ring) \in Nat
        /\ \A k \in 1..Len(ring) : ring'[k] = ring[k]
        /\ ring'[Len(ring) + 1] = rec
    BY <1>2, AppendProperties, LenProperties DEF KernelTypeOK
  <2>2. 1..Len(ring') = 1..Len(ring) \cup {Len(ring) + 1}
    BY <2>1
  <2> QED
    BY <2>1, <2>2 DEF FreshRing, FreshRecord
<1> QED
  BY <1>1, <1>2 DEF Observe

LEMMA FreshRingKernel ==
  ASSUME KernelTypeOK, StashFresh, FreshRing, KernelNext
  PROVE  FreshRing'
<1>1. Now \in Nat /\ config' = config
  BY DEF Now, KernelTypeOK, KernelNext, SysEnter, SysExit, Fork, Exec, Exit, Reap, Spawn
<1>2. ASSUME NEW kind \in {"FORK", "EXEC", "EXIT"}, NEW pid \in Ids, NEW tid \in Ids,
             NEW t \in Ids, group[t] \in Ids, Observe(Record(kind, pid, tid, t, 0, 0))
      PROVE  FreshRing'
  <2> DEFINE rec == Record(kind, pid, tid, t, 0, 0)
  <2>1. rec \in Records /\ FreshRecord(rec)
    BY <1>1, <1>2 DEF Record, Records, RecordKinds, FreshRecord, Now, KernelTypeOK
  <2> QED
    BY <1>1, <1>2, <2>1, ObservedFresh
<1>3. ASSUME ring' = ring PROVE FreshRing'
  BY <1>1, <1>3 DEF FreshRing, FreshRecord
<1>4. ASSUME NEW t \in Ids, NEW ptr \in BOOLEAN, SysEnter(t, ptr) PROVE FreshRing'
  <2> DEFINE arg == IF ptr /\ config.decode /\ ~config.returns THEN Now ELSE 0
             rec == Record("SYS_ENTER", group[t], t, t, Now, arg)
  <2>1. Observe(rec) \/ ring' = ring
    BY <1>4 DEF SysEnter, Overlook
  <2>2. /\ arg \in Nat /\ group[t] \in Ids /\ arg \in {0, Now}
        /\ config.returns => arg = 0
    BY <1>1, <1>4 DEF SysEnter, KernelTypeOK
  <2> HIDE DEF arg
  <2>3. rec \in Records /\ FreshRecord(rec)
    BY <1>1, <2>2 DEF Record, Records, RecordKinds, FreshRecord, Now, KernelTypeOK
  <2> QED
    BY <1>1, <1>3, <2>1, <2>3, ObservedFresh
<1>5. ASSUME NEW t \in Ids, SysExit(t) PROVE FreshRing'
  <2> DEFINE arg == IF config.decode THEN decoding[t] ELSE 0
             rec == Record("SYS_EXIT", group[t], t, t, call[t], arg)
  <2>1. Observe(rec) \/ ring' = ring
    BY <1>5 DEF SysExit, Overlook, recordVars
  <2>2. arg \in Nat /\ call[t] \in Nat /\ group[t] \in Ids
    BY <1>5 DEF SysExit, KernelTypeOK
  <2>3. arg \in {0, call[t]}
    BY DEF StashFresh
  <2>4. rec \in Records /\ FreshRecord(rec)
    BY <1>1, <2>2, <2>3 DEF Record, Records, RecordKinds, FreshRecord, Now, KernelTypeOK
  <2> QED
    BY <1>1, <1>3, <2>1, <2>4, ObservedFresh
<1>6. ASSUME NEW t \in Ids, NEW c \in Ids, NEW thread \in BOOLEAN, Fork(t, c, thread)
      PROVE  FreshRing'
  <2>1. Observe(Record("FORK", t, t, t, 0, 0)) \/ ring' = ring
    BY <1>6 DEF Fork, Overlook
  <2>2. group[t] \in Ids
    BY <1>6 DEF Fork, KernelTypeOK
  <2> QED
    BY <1>2, <1>3, <2>1, <2>2
<1>7. ASSUME NEW t \in Ids, Exec(t) PROVE FreshRing'
  <2>1. Observe(Record("EXEC", group[t], group[t], t, 0, 0)) \/ ring' = ring
    BY <1>7 DEF Exec, Overlook
  <2>2. group[t] \in Ids
    BY <1>7 DEF Exec, KernelTypeOK
  <2> QED
    BY <1>2, <1>3, <2>1, <2>2
<1>8. ASSUME NEW t \in Ids, Exit(t) PROVE FreshRing'
  <2>1. Observe(Record("EXIT", group[t], t, t, 0, 0)) \/ ring' = ring
    BY <1>8 DEF Exit, Overlook
  <2>2. group[t] \in Ids
    BY <1>8 DEF Exit, KernelTypeOK, Running
  <2> QED
    BY <1>2, <1>3, <2>1, <2>2
<1>9. ASSUME NEW p \in Ids, Reap(p) \/ Spawn(p) PROVE FreshRing'
  BY <1>3, <1>9 DEF Reap, Spawn, recordVars
<1> QED
  BY <1>4, <1>5, <1>6, <1>7, <1>8, <1>9 DEF KernelNext

-----------------------------------------------------------------------------
(* From the ring to the output: an enter that waits has no pointer yet, an *)
(* event in the output has that of the call it shows.                      *)
FreshEvent(e) == e.arg # 0 => e.arg = IF e.exit # 0 THEN e.retOf ELSE e.ts

Bare(stack) == \A k \in 1..Len(stack) : stack[k].exit = 0 /\ stack[k].arg = 0

FreshPump ==
  /\ \A t \in Ids : Bare(pending[t])
  /\ \A i \in 1..Len(out) : FreshEvent(out[i])

LEMMA FreshOutput ==
  ASSUME out \in Seq(Events), NEW events \in Seq(Events), out' = out \o events,
         \A i \in 1..Len(out) : FreshEvent(out[i]),
         \A i \in 1..Len(events) : FreshEvent(events[i])
  PROVE  \A i \in 1..Len(out') : FreshEvent(out'[i])
<1>1. \A i \in 1..Len(out') : \/ i \in 1..Len(out) /\ out'[i] = out[i]
                              \/ i - Len(out) \in 1..Len(events) /\ out'[i] = events[i - Len(out)]
  OBVIOUS
<1> QED
  BY <1>1

LEMMA BareStacks ==
  ASSUME PumpTypeOK, \A t \in Ids : Bare(pending[t]), NEW t \in Ids,
         NEW stack \in Seq(Events), Bare(stack), pending' = [pending EXCEPT ![t] = stack]
  PROVE  \A s \in Ids : Bare(pending'[s])
BY DEF PumpTypeOK

(* A record handled: the enter waits or is shown, the exit shows the enter *)
(* it meets, or itself, and the death of a thread all that waits.          *)
LEMMA HandledFresh ==
  ASSUME PumpTypeOK, FreshPump, NEW w \in Records, FreshRecord(w),
         HandleEnter(w) \/ HandleExit(w) \/ HandleForkExec(w) \/ HandleTaskExit(w)
  PROVE  FreshPump'
<1> DEFINE e == DecodeEvent(w)
           stack == pending[w.tid]
<1>1. /\ e \in Events /\ e.ts = w.ts /\ e.arg = w.arg /\ w.ts \in Nat \ {0}
      /\ e.exit = (IF w.kind = "SYS_EXIT" THEN w.ts ELSE 0)
      /\ e.retOf = (IF w.kind = "SYS_EXIT" THEN w.of ELSE 0)
      /\ w.tid \in Ids
  BY DecodeType DEF Records, DecodeEvent
<1>2. FreshEvent(e)
  BY <1>1 DEF FreshEvent, FreshRecord, Records, RecordKinds
<1>3. /\ stack \in Seq(Events) /\ Bare(stack) /\ out \in Seq(Events)
      /\ pending \in [Ids -> Seq(Events)]
      /\ \A i \in 1..Len(out) : FreshEvent(out[i])
      /\ \A t \in Ids : Bare(pending[t])
  BY <1>1 DEF PumpTypeOK, FreshPump
<1> HIDE DEF e
<1>4. ASSUME NEW f \in Events, FreshEvent(f), Emit(<<f>>)
      PROVE  \A i \in 1..Len(out') : FreshEvent(out'[i])
  <2> DEFINE one == <<f>>
  <2>1. one \in Seq(Events) /\ \A i \in 1..Len(one) : FreshEvent(one[i])
    BY <1>4
  <2>2. out' = out \o one
    BY <1>4 DEF Emit
  <2> HIDE DEF one
  <2> QED
    BY <1>3, <2>1, <2>2, FreshOutput
<1>5. CASE HandleEnter(w) /\ config.returns
  <2> DEFINE longer == Append(stack, e)
  <2>1. pending' = [pending EXCEPT ![w.tid] = longer] /\ out' = out
    BY <1>5, <1>3 DEF HandleEnter, Key, Keep, e
  <2>2. e.exit = 0 /\ e.arg = 0
    BY <1>1, <1>5 DEF HandleEnter, FreshRecord
  <2>3. /\ longer \in Seq(Events)
        /\ \A k \in 1..Len(longer) : longer[k] = e \/ (k \in 1..Len(stack) /\ longer[k] = stack[k])
    BY <1>1, <1>3
  <2> HIDE DEF longer, stack
  <2>4. Bare(longer)
    BY <1>3, <2>2, <2>3 DEF Bare
  <2>5. \A s \in Ids : Bare(pending'[s])
    BY <1>1, <1>3, <2>1, <2>3, <2>4, BareStacks
  <2> QED
    BY <1>3, <2>1, <2>5 DEF FreshPump
<1>6. CASE HandleEnter(w) /\ ~config.returns
  <2>1. Emit(<<e>>) /\ pending' = pending
    BY <1>6 DEF HandleEnter, e
  <2> QED
    BY <1>1, <1>2, <1>3, <1>4, <2>1 DEF FreshPump
<1>7. CASE HandleExit(w) /\ stack # << >>
  <2> DEFINE top == stack[Len(stack)]
             shorter == SubSeq(stack, 1, Len(stack) - 1)
             paired == Paired(top, e)
  <2>1. w.kind = "SYS_EXIT" /\ Emit(<<paired>>) /\ pending' = [pending EXCEPT ![w.tid] = shorter]
    BY <1>7 DEF HandleExit, Key, Popped, e
  <2>2. /\ Len(stack) \in 1..Len(stack) /\ shorter \in Seq(Events)
        /\ Len(shorter) = Len(stack) - 1
        /\ \A k \in 1..Len(shorter) : k \in 1..Len(stack) /\ shorter[k] = stack[k]
    BY <1>3, <1>7
  <2>3. top \in Events /\ top.arg = 0
    BY <1>3, <2>2 DEF Bare
  <2> HIDE DEF top, shorter, stack
  <2>4. paired \in Events /\ paired.exit = w.ts /\ paired.retOf = w.of /\ paired.arg = w.arg
    BY <1>1, <2>1, <2>3, PairedType DEF Paired, Events
  <2>5. FreshEvent(paired)
    BY <1>1, <2>1, <2>4 DEF FreshEvent, FreshRecord
  <2> HIDE DEF paired
  <2>6. Bare(shorter)
    BY <1>3, <2>2 DEF Bare
  <2>7. \A s \in Ids : Bare(pending'[s])
    BY <1>1, <1>3, <2>1, <2>2, <2>6, BareStacks
  <2> QED
    BY <1>4, <2>1, <2>4, <2>5, <2>7 DEF FreshPump
<1>8. CASE HandleExit(w) /\ stack = << >>
  <2>1. Emit(<<e>>) /\ pending' = pending
    BY <1>8 DEF HandleExit, Key, e
  <2> QED
    BY <1>1, <1>2, <1>3, <1>4, <2>1 DEF FreshPump
<1>9. CASE HandleForkExec(w)
  <2>1. Emit(<<e>>) /\ pending' = pending
    BY <1>9 DEF HandleForkExec, e
  <2> QED
    BY <1>1, <1>2, <1>3, <1>4, <2>1 DEF FreshPump
<1>10. CASE HandleTaskExit(w)
  <2> DEFINE all == Append(stack, e)
             none == << >>
  <2>1. out' = out \o all /\ pending' = [pending EXCEPT ![w.tid] = none]
    BY <1>10 DEF HandleTaskExit, LeftOver, Erase, Key, Emit, e
  <2>2. /\ all \in Seq(Events)
        /\ \A i \in 1..Len(all) : all[i] = e \/ (i \in 1..Len(stack) /\ all[i] = stack[i])
    BY <1>1, <1>3
  <2>3. none \in Seq(Events) /\ Bare(none)
    BY EmptySeq DEF Bare
  <2> HIDE DEF all, none, stack
  <2>4. \A i \in 1..Len(all) : FreshEvent(all[i])
    BY <1>2, <1>3, <2>2 DEF FreshEvent, Bare
  <2>5. \A i \in 1..Len(out') : FreshEvent(out'[i])
    BY <1>3, <2>1, <2>2, <2>4, FreshOutput
  <2>6. \A s \in Ids : Bare(pending'[s])
    BY <1>1, <1>3, <2>1, <2>3, BareStacks
  <2> QED
    BY <2>5, <2>6 DEF FreshPump
<1> QED
  BY <1>5, <1>6, <1>7, <1>8, <1>9, <1>10

LEMMA FlushedFresh ==
  ASSUME PumpTypeOK, FreshPump, NEW t \in Ids, FlushPending(t)
  PROVE  FreshPump'
<1> DEFINE stack == pending[t]
           none == << >>
<1>1. stack \in Seq(Events) /\ Bare(stack) /\ out \in Seq(Events)
  BY DEF PumpTypeOK, FreshPump
<1>2. out' = out \o stack /\ pending' = [pending EXCEPT ![t] = none]
  BY DEF FlushPending, LeftOver, Erase, Emit
<1>3. none \in Seq(Events) /\ Bare(none)
  BY EmptySeq DEF Bare
<1> HIDE DEF stack, none
<1>4. \A i \in 1..Len(stack) : FreshEvent(stack[i])
  BY <1>1 DEF Bare, FreshEvent
<1>5. \A i \in 1..Len(out') : FreshEvent(out'[i])
  BY <1>1, <1>2, <1>4, FreshOutput DEF FreshPump
<1>6. \A s \in Ids : Bare(pending'[s])
  BY <1>2, <1>3, BareStacks DEF FreshPump
<1> QED
  BY <1>5, <1>6 DEF FreshPump

(* No other step of Run() touches stacks or output.                        *)
LEMMA FreshPumpNext ==
  ASSUME TypeOK, FreshRing, FreshPump, [Next]_vars
  PROVE  FreshPump'
<1>1. PumpTypeOK /\ KernelTypeOK
  BY TypeParts
<1>2. CASE HandleRingEvent
  <2> DEFINE w == Head(ring)
  <2>1. w \in Records /\ w = ring[1] /\ 1 \in 1..Len(ring)
    BY <1>1, <1>2, HeadTailProperties, LenProperties, EmptySeq
       DEF HandleRingEvent, KernelTypeOK
  <2>2. FreshRecord(w)
    BY <2>1 DEF FreshRing
  <2>3. HandleEnter(w) \/ HandleExit(w) \/ HandleForkExec(w) \/ HandleTaskExit(w)
    BY <1>2 DEF HandleRingEvent
  <2> HIDE DEF w
  <2> QED
    BY <1>1, <2>1, <2>2, <2>3, HandledFresh
<1>3. ASSUME NEW t \in Ids, FlushPending(t) PROVE FreshPump'
  BY <1>1, <1>3, FlushedFresh
<1>4. CASE UNCHANGED <<pending, out>>
  BY <1>4 DEF FreshPump
<1>5. \/ HandleRingEvent \/ (\E t \in Ids : FlushPending(t))
      \/ UNCHANGED <<pending, out>>
  BY DEF Next, KernelStep, EngineNext, Seed, WaitFails, SeedFails, ReleaseTarget,
         PollReturns, PollInterrupted, PollFails, CheckReaps, CheckAlive, CheckGone,
         KillTarget, ReapKilled, Finish, vars, engineVars, pumpVars
<1> QED
  BY <1>2, <1>3, <1>4, <1>5

-----------------------------------------------------------------------------
(* The steps of Run(), as far as tasks and maps are concerned: nothing, or *)
(* the seeding, the continuing or the waiting for the target.              *)
EngineIdle ==
  /\ UNCHANGED <<config, mode, group, family, used, traced, decoding, call, missed, alien>>
  /\ phase' = phase \/ phase' # "release"

EngineReleases ==
  /\ Release(Target)
  /\ UNCHANGED <<config, used, traced, decoding, call, missed, alien>>
  /\ phase' # "release"

LEMMA EngineTasks ==
  ASSUME EngineNext
  PROVE  /\ EngineIdle \/ EngineReleases \/ Seed \/ ReleaseTarget
         /\ \/ ring' = ring
            \/ HandleRingEvent
<1>1. CASE Seed \/ ReleaseTarget
  BY <1>1 DEF Seed, ReleaseTarget, recordVars
<1>2. CASE CheckReaps \/ ReapKilled
  BY <1>2 DEF CheckReaps, ReapKilled, AfterReap, NextTurn, EngineReleases, recordVars
<1>3. CASE HandleRingEvent
  BY <1>3 DEF HandleRingEvent, EngineIdle, taskVars
<1>4. CASE KillTarget \/ SeedFails
  BY <1>4 DEF KillTarget, SeedFails, EngineIdle, recordVars
<1>5. CASE \/ PollReturns \/ PollInterrupted \/ PollFails
           \/ CheckAlive \/ CheckGone \/ Finish \/ WaitFails
  BY <1>5 DEF PollReturns, PollInterrupted, PollFails, CheckAlive, CheckGone, Finish,
              WaitFails, NextTurn, EngineIdle, kernelVars, taskVars, recordVars
<1>6. ASSUME NEW t \in Ids, FlushPending(t)
      PROVE  EngineIdle /\ ring' = ring
  BY <1>6 DEF FlushPending, EngineIdle, kernelVars, taskVars, recordVars, runVars
<1> QED
  BY <1>1, <1>2, <1>3, <1>4, <1>5, <1>6 DEF EngineNext

LEMMA IdleTasks ==
  ASSUME EngineIdle
  PROVE  /\ TreeInside => TreeInside'
         /\ TreeTraced => TreeTraced'
         /\ StashFresh => StashFresh'
BY DEF EngineIdle, TreeInside, Own, TracedInside, FamilyExists, TreeTraced, StashFresh

LEMMA ReleaseTasks ==
  ASSUME KernelTypeOK, TreeInside, EngineReleases
  PROVE  /\ TreeInside'
         /\ TreeTraced => TreeTraced'
         /\ StashFresh => StashFresh'
<1>1. Target \in Ids /\ mode[Target] = "zombie"
  BY KernelAssumption DEF EngineReleases, Release
<1>2. /\ \A s \in Ids : mode'[s] = IF s = Target THEN "free" ELSE mode[s]
      /\ \A s \in Ids : group'[s] = IF s = Target THEN NoTask ELSE group[s]
      /\ family' = family \ {Target}
      /\ UNCHANGED <<config, traced, decoding, call, missed, alien>>
      /\ phase' # "release"
  BY <1>1 DEF EngineReleases, Release, KernelTypeOK
<1>3. TreeInside'
  BY <1>1, <1>2 DEF TreeInside, Own, TracedInside, FamilyExists, Running, KernelTypeOK
<1>4. TreeTraced => TreeTraced'
  BY <1>1, <1>2 DEF TreeTraced, Running, KernelTypeOK
<1>5. StashFresh => StashFresh'
  BY <1>1, <1>2 DEF StashFresh, KernelTypeOK
<1> QED
  BY <1>3, <1>4, <1>5

LEMMA SeedTasks ==
  ASSUME KernelTypeOK, ChildWaits, TreeInside, Seed \/ ReleaseTarget
  PROVE  /\ TreeInside'
         /\ TreeTraced => TreeTraced'
         /\ StashFresh => StashFresh'
<1>1. /\ Target \in Ids /\ mode[Target] = "stopped" /\ group[Target] = Target
      /\ Target \in family
  BY KernelAssumption DEF Seed, ReleaseTarget, ChildWaits, TreeInside
<1>2. CASE Seed
  <2>1. /\ traced' = traced \cup {Target} /\ phase' = "release"
        /\ UNCHANGED <<config, mode, group, family, decoding, call, missed, alien>>
    BY <1>2 DEF Seed, taskVars, recordVars
  <2> QED
    BY <1>1, <2>1
       DEF TreeInside, Own, TracedInside, FamilyExists, TreeTraced, StashFresh
<1>3. CASE ReleaseTarget
  <2>1. /\ phase = "release" /\ phase' = "poll"
        /\ \A s \in Ids : mode'[s] = IF s = Target THEN "leaving" ELSE mode[s]
        /\ UNCHANGED <<config, group, family, traced, decoding, call, missed, alien>>
    BY <1>3 DEF ReleaseTarget, recordVars, KernelTypeOK
  <2>2. TreeInside'
    BY <1>1, <2>1 DEF TreeInside, Own, TracedInside, FamilyExists, Running, KernelTypeOK
  <2>3. TreeTraced => TreeTraced'
    BY <1>1, <2>1 DEF TreeTraced, Running, KernelTypeOK
  <2>4. StashFresh => StashFresh'
    BY <1>1, <2>1 DEF StashFresh, KernelTypeOK
  <2> QED
    BY <2>2, <2>3, <2>4
<1> QED
  BY <1>2, <1>3

LEMMA EngineTreeTasks ==
  ASSUME KernelTypeOK, ChildWaits, TreeInside, EngineNext
  PROVE  /\ TreeInside'
         /\ TreeTraced => TreeTraced'
         /\ StashFresh => StashFresh'
BY EngineTasks, IdleTasks, ReleaseTasks, SeedTasks

LEMMA EngineFresh ==
  ASSUME KernelTypeOK, FreshRing, EngineNext
  PROVE  FreshRing'
<1> USE DEF FreshRecord
<1>0. config' = config
  BY DEF EngineNext, Seed, WaitFails, SeedFails, ReleaseTarget, HandleRingEvent,
         PollReturns, PollInterrupted, PollFails, CheckReaps, CheckAlive, CheckGone,
         KillTarget, ReapKilled, FlushPending, Finish, kernelVars
<1>1. CASE HandleRingEvent
  <2>1. ring # << >> /\ ring' = Tail(ring) /\ ring \in Seq(Records)
    BY <1>1 DEF HandleRingEvent, KernelTypeOK
  <2>2. /\ Len(ring) \in Nat /\ Len(ring') = Len(ring) - 1
        /\ \A k \in 1..Len(ring') : ring'[k] = ring[k + 1]
    BY <2>1, HeadTailProperties, LenProperties
  <2>3. \A k \in 1..Len(ring') : k + 1 \in 1..Len(ring)
    BY <2>2
  <2> QED
    BY <1>0, <2>2, <2>3 DEF FreshRing
<1>2. CASE ring' = ring
  BY <1>0, <1>2 DEF FreshRing
<1> QED
  BY <1>1, <1>2, EngineTasks

-----------------------------------------------------------------------------
(* The invariant of programs without threads.                              *)
TreeInv == TypeOK /\ ChildWaits /\ TreeInside /\ StashFresh /\ FreshRing /\ FreshPump

LEMMA TreeInit == Init => TreeInv /\ TreeTraced
<1> SUFFICES ASSUME Init PROVE TreeInv /\ TreeTraced
  OBVIOUS
<1>1. TypeOK /\ Target \in Ids /\ NoTask \notin Ids
  BY InitType, KernelAssumption
<1>2. /\ mode = [t \in Ids |-> IF t = Target THEN "stopped" ELSE "free"]
      /\ group = [t \in Ids |-> IF t = Target THEN Target ELSE NoTask]
      /\ traced = {} /\ family = {Target} /\ missed = {} /\ alien = {}
      /\ decoding = [t \in Ids |-> 0] /\ ring = << >> /\ phase = "seed"
  BY DEF Init, KernelInit
<1>3. TreeInside /\ TreeTraced /\ ChildWaits
  BY <1>1, <1>2
     DEF TreeInside, Own, TracedInside, FamilyExists, TreeTraced, ChildWaits, Running
<1>4. StashFresh
  BY <1>2 DEF StashFresh
<1>5. FreshRing
  BY <1>2, EmptySeq DEF FreshRing
<1>6. FreshPump
  BY EmptySeq DEF Init, FreshPump, Bare
<1> QED
  BY <1>1, <1>3, <1>4, <1>5, <1>6 DEF TreeInv

LEMMA TreeNext ==
  ASSUME ~Threads, TreeInv, [Next]_vars
  PROVE  TreeInv'
<1>1. TypeOK' /\ ChildWaits' /\ FreshPump'
  BY NextType, ChildWaitsStep, FreshPumpNext DEF TreeInv
<1>2. KernelTypeOK
  BY TypeParts DEF TreeInv
<1>3. CASE KernelStep
  BY <1>1, <1>2, <1>3, TreeInsideKernel, StashFreshKernel, FreshRingKernel
     DEF TreeInv, KernelStep
<1>4. CASE EngineNext
  BY <1>1, <1>2, <1>4, EngineTreeTasks, EngineFresh DEF TreeInv
<1>5. CASE UNCHANGED vars
  <2>1. EngineIdle /\ ring' = ring
    BY <1>5 DEF vars, kernelVars, taskVars, recordVars, engineVars, runVars, EngineIdle
  <2>2. TreeInside' /\ StashFresh'
    BY <2>1, IdleTasks DEF TreeInv
  <2> QED
    BY <1>1, <2>1, <2>2 DEF TreeInv, FreshRing, FreshRecord, EngineIdle
<1> QED
  BY <1>3, <1>4, <1>5 DEF Next

LEMMA TreeTracedNext ==
  ASSUME ~Threads, Cardinality(Ids) <= MapCap, TreeInv, TreeTraced, [Next]_vars
  PROVE  TreeTraced'
<1>1. KernelTypeOK
  BY TypeParts DEF TreeInv
<1>2. CASE KernelStep
  BY <1>1, <1>2, TreeTracedKernel DEF TreeInv, KernelStep, engineVars, runVars
<1>3. CASE EngineNext
  BY <1>1, <1>3, EngineTreeTasks DEF TreeInv
<1>4. CASE UNCHANGED vars
  <2>1. EngineIdle
    BY <1>4 DEF vars, kernelVars, taskVars, recordVars, engineVars, runVars, EngineIdle
  <2> QED
    BY <2>1, IdleTasks
<1> QED
  BY <1>2, <1>3, <1>4 DEF Next

(* Where programs have no threads, nothing of a process outside the tree   *)
(* of the target is ever copied out of the kernel: not when ids are given  *)
(* again, not when `traced` is full (tmon.bpf.c:is_traced, tmon_exit).     *)
THEOREM OnlyTheTreeRecorded == ASSUME ~Threads PROVE Spec => []OnlyTheTree
<1>1. Init => TreeInv
  BY TreeInit
<1>2. TreeInv /\ [Next]_vars => TreeInv'
  BY TreeNext
<1>3. TreeInv => OnlyTheTree
  BY DEF TreeInv, TreeInside, OnlyTheTree
<1> QED
  BY <1>1, <1>2, <1>3, PTL DEF Spec

(* Where programs have no threads, a decoded path or address is that of    *)
(* the call it is shown with - the one whose return value the event        *)
(* carries, or the event's own - in the ring and in the output, whatever   *)
(* was dropped: no stash survives its task or its call (tmon.bpf.c:245-286,*)
(* 352), and the pump never mixes two exits (engine.cpp:71-89).            *)
THEOREM DecodedRight == ASSUME ~Threads PROVE Spec => []DecodedFromOwnCall
<1>1. Init => TreeInv
  BY TreeInit
<1>2. TreeInv /\ [Next]_vars => TreeInv'
  BY TreeNext
<1>3. TreeInv => DecodedFromOwnCall
  <2> SUFFICES ASSUME TreeInv PROVE DecodedFromOwnCall
    OBVIOUS
  <2>1. DOMAIN ring = 1..Len(ring) /\ DOMAIN out = 1..Len(out)
    BY LenProperties DEF TreeInv, TypeOK, KernelTypeOK
  <2> QED
    BY <2>1 DEF TreeInv, FreshRing, FreshRecord, FreshPump, FreshEvent, DecodedFromOwnCall
<1> QED
  BY <1>1, <1>2, <1>3, PTL DEF Spec

(* Without threads, and with room in `traced` for every process that can   *)
(* live at once, no task of the tree passes a tracepoint unrecorded: the   *)
(* target from its first instruction on, a child from its parent's fork.   *)
THEOREM TreeFollowed ==
  ASSUME ~Threads, Cardinality(Ids) <= MapCap
  PROVE  Spec => []FollowsTree
<1>1. Init => TreeInv /\ TreeTraced
  BY TreeInit
<1>2. TreeInv /\ TreeTraced /\ [Next]_vars => TreeInv' /\ TreeTraced'
  BY TreeNext, TreeTracedNext
<1>3. TreeTraced => FollowsTree
  BY DEF TreeTraced, FollowsTree
<1> QED
  BY <1>1, <1>2, <1>3, PTL DEF Spec

-----------------------------------------------------------------------------
(* The end of a run, where ids are not reused.  Once the target has been   *)
(* waited for, no task of it is left and none will come.                   *)
Left == mode[Target] = "free" /\ \A t \in Ids : group[t] # Target

EndInv ==
  /\ Target \in used
  /\ \A t \in Ids : mode[t] = "zombie" => group[t] = t
  /\ gone => Left
  /\ phase \in {"flush", "done"} /\ ended \notin {"failed", "unwatched", "unseeded"} => Left
  /\ ended \in {"unwatched", "unseeded"} =>
       phase = "done" /\ mode[Target] = "stopped" /\ (killed <=> ended = "unseeded")
  /\ killed => phase = "reap" \/ ended = "unseeded"

(* No record of the target is in the ring ...                              *)
NoneOfTarget == \A k \in 1..Len(ring) : ring[k].owner # Target

(* ... when a poll that began after the target's end saw the ring empty.   *)
DrainInv ==
  /\ gone /\ phase = "check" /\ got = "none" => NoneOfTarget
  /\ ended = "drained" => gone /\ NoneOfTarget

LEMMA ZombiesLead ==
  ASSUME KernelTypeOK, \A t \in Ids : mode[t] = "zombie" => group[t] = t, KernelNext
  PROVE  \A t \in Ids : mode'[t] = "zombie" => group'[t] = t
<1> USE DEF KernelTypeOK
<1>1. ASSUME NEW t \in Ids, NEW ptr \in BOOLEAN, SysEnter(t, ptr)
      PROVE  \A s \in Ids : mode'[s] = "zombie" => group'[s] = s
  BY <1>1 DEF SysEnter
<1>2. ASSUME NEW t \in Ids, SysExit(t)
      PROVE  \A s \in Ids : mode'[s] = "zombie" => group'[s] = s
  BY <1>2 DEF SysExit
<1>3. ASSUME NEW t \in Ids, NEW c \in Ids, NEW thread \in BOOLEAN, Fork(t, c, thread)
      PROVE  \A s \in Ids : mode'[s] = "zombie" => group'[s] = s
  BY <1>3 DEF Fork
<1>4. ASSUME NEW t \in Ids, Exec(t)
      PROVE  \A s \in Ids : mode'[s] = "zombie" => group'[s] = s
  <2>1. group[t] \in Ids
    BY <1>4 DEF Exec
  <2> QED
    BY <1>4, <2>1 DEF Exec
<1>5. ASSUME NEW t \in Ids, Exit(t)
      PROVE  \A s \in Ids : mode'[s] = "zombie" => group'[s] = s
  BY <1>5 DEF Exit
<1>6. ASSUME NEW p \in Ids, Reap(p)
      PROVE  \A s \in Ids : mode'[s] = "zombie" => group'[s] = s
  BY <1>6 DEF Reap, Release
<1>7. ASSUME NEW c \in Ids, Spawn(c)
      PROVE  \A s \in Ids : mode'[s] = "zombie" => group'[s] = s
  BY <1>7 DEF Spawn
<1> QED
  BY <1>1, <1>2, <1>3, <1>4, <1>5, <1>6, <1>7 DEF KernelNext

(* The target's id is not given again, and only its own tasks make more of *)
(* it.                                                                     *)
LEMMA LeftForGood ==
  ASSUME ~ReuseIds, KernelTypeOK, Target \in used, Left, KernelNext
  PROVE  Left'
<1> USE DEF KernelTypeOK, Left
<1>1. Target \in Ids /\ NoTask # Target
  BY KernelAssumption
<1>2. ASSUME NEW t \in Ids, NEW ptr \in BOOLEAN, SysEnter(t, ptr) PROVE Left'
  BY <1>1, <1>2 DEF SysEnter
<1>3. ASSUME NEW t \in Ids, SysExit(t) PROVE Left'
  BY <1>1, <1>3 DEF SysExit
<1>4. ASSUME NEW t \in Ids, NEW c \in Ids, NEW thread \in BOOLEAN, Fork(t, c, thread)
      PROVE  Left'
  BY <1>1, <1>4 DEF Fork
<1>5. ASSUME NEW t \in Ids, Exec(t) PROVE Left'
  <2>1. group[t] \in Ids /\ group[t] # Target /\ t # Target
    BY <1>1, <1>5 DEF Exec
  <2> QED
    BY <1>1, <1>5, <2>1 DEF Exec
<1>6. ASSUME NEW t \in Ids, Exit(t) PROVE Left'
  BY <1>1, <1>6 DEF Exit, Running
<1>7. ASSUME NEW p \in Ids, Reap(p) PROVE Left'
  BY <1>1, <1>7 DEF Reap, Release
<1>8. ASSUME NEW c \in Ids, Spawn(c) PROVE Left'
  BY <1>1, <1>8 DEF Spawn
<1> QED
  BY <1>2, <1>3, <1>4, <1>5, <1>6, <1>7, <1>8 DEF KernelNext

(* Waiting for the dead target leaves nothing of it.                       *)
LEMMA ReleasedLeft ==
  ASSUME KernelTypeOK, \A t \in Ids : mode[t] = "zombie" => group[t] = t,
         Release(Target)
  PROVE  Left' /\ \A t \in Ids : mode'[t] = "zombie" => group'[t] = t
<1>1. Target \in Ids /\ NoTask \notin Ids
  BY KernelAssumption
<1>2. /\ mode[Target] = "zombie" /\ Live(Target) = {}
      /\ \A s \in Ids : mode'[s] = IF s = Target THEN "free" ELSE mode[s]
      /\ \A s \in Ids : group'[s] = IF s = Target THEN NoTask ELSE group[s]
  BY <1>1 DEF Release, KernelTypeOK
<1>3. ASSUME NEW s \in Ids, s # Target, group[s] = Target PROVE FALSE
  <2>1. mode[s] # "free" /\ mode[s] # "zombie"
    BY <1>1, <1>3 DEF KernelTypeOK
  <2>2. s \in Live(Target)
    BY <1>3, <2>1 DEF Live, KernelTypeOK, Modes
  <2> QED
    BY <1>2, <2>2
<1> QED
  BY <1>1, <1>2, <1>3 DEF Left

(* A hit of a task that is not the target's is no record of the target.    *)
LEMMA DrainedKernel ==
  ASSUME KernelTypeOK, Left, NoneOfTarget, KernelNext
  PROVE  NoneOfTarget'
<1>1. ASSUME NEW kind, NEW pid, NEW tid, NEW t \in Ids, NEW of, NEW arg,
             Observe(Record(kind, pid, tid, t, of, arg))
      PROVE  NoneOfTarget'
  <2> DEFINE rec == Record(kind, pid, tid, t, of, arg)
  <2>1. rec.owner # Target
    BY DEF Record, Left
  <2>2. CASE ring' = ring
    BY <2>2 DEF NoneOfTarget
  <2>3. CASE ring' = Append(ring, rec)
    <3> HIDE DEF rec
    <3>1. ring \in Seq(Records)
      BY DEF KernelTypeOK
    <3>2. ring \in Seq(Records \cup {rec})
      BY <3>1, SeqMonotonic
    <3>3. /\ Len(ring') = Len(ring) + 1 /\ Len(ring) \in Nat
          /\ \A k \in 1..Len(ring) : ring'[k] = ring[k]
          /\ ring'[Len(ring) + 1] = rec
      BY <2>3, <3>2, AppendProperties, LenProperties
    <3>4. 1..Len(ring') = 1..Len(ring) \cup {Len(ring) + 1}
      BY <3>3
    <3> QED
      BY <2>1, <3>3, <3>4 DEF NoneOfTarget
  <2> QED
    BY <1>1, <2>2, <2>3 DEF Observe
<1>2. ASSUME ring' = ring PROVE NoneOfTarget'
  BY <1>2 DEF NoneOfTarget
<1>3. ASSUME NEW t \in Ids, NEW ptr \in BOOLEAN, SysEnter(t, ptr) PROVE NoneOfTarget'
  BY <1>1, <1>2, <1>3 DEF SysEnter, Overlook
<1>4. ASSUME NEW t \in Ids, SysExit(t) PROVE NoneOfTarget'
  BY <1>1, <1>2, <1>4 DEF SysExit, Overlook, recordVars
<1>5. ASSUME NEW t \in Ids, NEW c \in Ids, NEW thread \in BOOLEAN, Fork(t, c, thread)
      PROVE  NoneOfTarget'
  BY <1>1, <1>2, <1>5 DEF Fork, Overlook
<1>6. ASSUME NEW t \in Ids, Exec(t) PROVE NoneOfTarget'
  BY <1>1, <1>2, <1>6 DEF Exec, Overlook
<1>7. ASSUME NEW t \in Ids, Exit(t) PROVE NoneOfTarget'
  BY <1>1, <1>2, <1>7 DEF Exit, Overlook
<1>8. ASSUME NEW p \in Ids, Reap(p) \/ Spawn(p) PROVE NoneOfTarget'
  BY <1>2, <1>8 DEF Reap, Spawn, recordVars
<1> QED
  BY <1>3, <1>4, <1>5, <1>6, <1>7, <1>8 DEF KernelNext

LEMMA DrainedPump ==
  ASSUME KernelTypeOK, NoneOfTarget, EngineNext
  PROVE  NoneOfTarget'
<1>1. CASE HandleRingEvent
  <2>1. ring # << >> /\ ring' = Tail(ring) /\ ring \in Seq(Records)
    BY <1>1 DEF HandleRingEvent, KernelTypeOK
  <2>2. /\ Len(ring) \in Nat /\ Len(ring') = Len(ring) - 1
        /\ \A k \in 1..Len(ring') : ring'[k] = ring[k + 1]
    BY <2>1, HeadTailProperties, LenProperties
  <2>3. \A k \in 1..Len(ring') : k + 1 \in 1..Len(ring)
    BY <2>2
  <2> QED
    BY <2>2, <2>3 DEF NoneOfTarget
<1>2. CASE ring' = ring
  BY <1>2 DEF NoneOfTarget
<1> QED
  BY <1>1, <1>2, EngineTasks

LEMMA EndKernel ==
  ASSUME ~ReuseIds, KernelTypeOK, EndInv, DrainInv, KernelStep
  PROVE  EndInv' /\ DrainInv'
<1>1. /\ KernelNext /\ phase # "done" /\ killed' = killed
      /\ gone' = gone /\ phase' = phase /\ got' = got /\ ended' = ended
  BY DEF KernelStep, KernelNext, SysEnter, SysExit, Fork, Exec, Exit, Reap, Spawn,
         engineVars, runVars
<1>2. Target \in used'
  BY <1>1 DEF EndInv, KernelNext, SysEnter, SysExit, Fork, Exec, Exit, Reap, Spawn
<1>3. \A t \in Ids : mode'[t] = "zombie" => group'[t] = t
  BY <1>1, ZombiesLead DEF EndInv
<1>4. Left => Left'
  BY <1>1, LeftForGood DEF EndInv
<1>5. Left /\ NoneOfTarget => NoneOfTarget'
  BY <1>1, DrainedKernel
<1>6. EndInv'
  BY <1>1, <1>2, <1>3, <1>4 DEF EndInv
<1>7. DrainInv'
  BY <1>1, <1>5 DEF EndInv, DrainInv
<1> QED
  BY <1>6, <1>7

LEMMA EndEngine ==
  ASSUME KernelTypeOK, ChildWaits, EndInv, DrainInv, EngineNext
  PROVE  EndInv' /\ DrainInv'
<1> DEFINE Zombies == \A t \in Ids : mode[t] = "zombie" => group[t] = t
<1>1. Zombies /\ Target \in used /\ Target \in Ids
  BY KernelAssumption DEF EndInv
<1>2. UNCHANGED <<mode, group>> => Left' = Left /\ Zombies'
  BY <1>1 DEF Left
<1>3. NoneOfTarget => NoneOfTarget'
  BY DrainedPump
<1>4. CASE Seed
  <2>1. UNCHANGED <<mode, group, used, killed, gone, ended>> /\ phase = "seed" /\ phase' = "release"
    BY <1>4 DEF Seed, taskVars
  <2> QED
    BY <1>1, <1>2, <1>3, <2>1 DEF EndInv, DrainInv
<1>5. CASE ReleaseTarget
  <2>1. /\ UNCHANGED <<group, used, killed, gone, ended>> /\ phase = "release" /\ phase' = "poll"
        /\ mode[Target] = "stopped"
        /\ \A s \in Ids : mode'[s] = IF s = Target THEN "leaving" ELSE mode[s]
    BY <1>5 DEF ReleaseTarget, ChildWaits, KernelTypeOK
  <2>2. Zombies' /\ ~gone
    BY <1>1, <2>1 DEF EndInv, Left
  <2> QED
    BY <1>1, <1>3, <2>1, <2>2 DEF EndInv, DrainInv
<1>6. CASE HandleRingEvent
  <2>1. UNCHANGED <<mode, group, used, killed, gone, ended, phase>> /\ phase = "poll"
    BY <1>6 DEF HandleRingEvent, taskVars
  <2> QED
    BY <1>1, <1>2, <1>3, <2>1 DEF EndInv, DrainInv
<1>7. CASE PollReturns \/ PollInterrupted
  <2>1. /\ UNCHANGED <<mode, group, used, killed, gone, ended>> /\ phase = "poll" /\ phase' = "check"
        /\ ring = << >> /\ ring' = ring
    BY <1>7 DEF PollReturns, PollInterrupted, kernelVars, taskVars, recordVars
  <2>2. NoneOfTarget
    BY <2>1, EmptySeq DEF NoneOfTarget
  <2> QED
    BY <1>1, <1>2, <1>3, <2>1, <2>2 DEF EndInv, DrainInv
<1>8. CASE PollFails
  <2>1. /\ UNCHANGED <<mode, group, used, killed, gone>> /\ phase = "poll" /\ phase' = "flush"
        /\ ended' = "failed"
    BY <1>8 DEF PollFails, kernelVars, taskVars
  <2> QED
    BY <1>1, <1>2, <1>3, <2>1 DEF EndInv, DrainInv
<1>9. CASE CheckReaps
  <2>1. /\ Release(Target) /\ used' = used /\ killed' = killed /\ gone' = TRUE
        /\ phase = "check" /\ phase' # "check"
        /\ ended' = ended \/ ended' = "stopped"
    BY <1>9 DEF CheckReaps, AfterReap, NextTurn
  <2>2. Left' /\ Zombies'
    BY <1>1, <2>1, ReleasedLeft
  <2> QED
    BY <1>1, <1>3, <2>1, <2>2 DEF EndInv, DrainInv
<1>10. CASE CheckAlive
  <2>1. /\ UNCHANGED <<mode, group, used, killed, gone>> /\ ~gone
        /\ phase = "check" /\ phase' \in {"kill", "poll"}
        /\ ended' = ended \/ ended' = "stopped"
    BY <1>10 DEF CheckAlive, NextTurn, kernelVars, taskVars
  <2> QED
    BY <1>1, <1>2, <1>3, <2>1 DEF EndInv, DrainInv
<1>11. CASE CheckGone
  <2>1. /\ UNCHANGED <<mode, group, used, killed, gone>> /\ gone /\ phase = "check" /\ phase' # "check"
        /\ (ended' = "drained" /\ got = "none") \/ ended' = ended \/ ended' = "stopped"
    BY <1>11 DEF CheckGone, NothingLeft, NextTurn, kernelVars, taskVars
  <2> QED
    BY <1>1, <1>2, <1>3, <2>1 DEF EndInv, DrainInv
<1>12. CASE KillTarget
  <2>1. UNCHANGED <<mode, group, used, gone, ended>> /\ phase = "kill" /\ phase' = "reap"
    BY <1>12 DEF KillTarget
  <2> QED
    BY <1>1, <1>2, <1>3, <2>1 DEF EndInv, DrainInv
<1>13. CASE ReapKilled
  <2>1. /\ Release(Target) /\ UNCHANGED <<used, gone, ended>> /\ ~killed'
        /\ phase = "reap" /\ phase' = "flush"
    BY <1>13 DEF ReapKilled
  <2>2. Left' /\ Zombies'
    BY <1>1, <2>1, ReleasedLeft
  <2> QED
    BY <1>1, <1>3, <2>1, <2>2 DEF EndInv, DrainInv
<1>14. ASSUME NEW t \in Ids, FlushPending(t) PROVE EndInv' /\ DrainInv'
  <2>1. UNCHANGED <<mode, group, used, killed, gone, ended, phase>> /\ phase = "flush"
    BY <1>14 DEF FlushPending, kernelVars, taskVars, runVars
  <2> QED
    BY <1>1, <1>2, <1>3, <2>1 DEF EndInv, DrainInv
<1>15. CASE Finish
  <2>1. UNCHANGED <<mode, group, used, killed, gone, ended>> /\ phase = "flush" /\ phase' = "done"
    BY <1>15 DEF Finish, kernelVars, taskVars
  <2> QED
    BY <1>1, <1>2, <1>3, <2>1 DEF EndInv, DrainInv
<1>16. CASE WaitFails \/ SeedFails
  <2>1. /\ UNCHANGED <<mode, group, used, gone>> /\ phase = "seed" /\ phase' = "done"
        /\ mode[Target] = "stopped"
        /\ \/ ended' = "unwatched" /\ killed' = killed
           \/ ended' = "unseeded" /\ killed'
    BY <1>16 DEF WaitFails, SeedFails, ChildWaits, kernelVars, taskVars
  <2>2. ~killed
    BY <2>1 DEF EndInv
  <2> QED
    BY <1>1, <1>2, <1>3, <2>1, <2>2 DEF EndInv, DrainInv
<1> QED
  BY <1>4, <1>5, <1>6, <1>7, <1>8, <1>9, <1>10, <1>11, <1>12, <1>13, <1>14, <1>15,
     <1>16 DEF EngineNext

RunInv == TypeOK /\ ChildWaits /\ EndInv /\ DrainInv

LEMMA RunInvariant == ASSUME ~ReuseIds PROVE Spec => []RunInv
<1>1. Init => RunInv
  <2> SUFFICES ASSUME Init PROVE RunInv
    OBVIOUS
  <2>1. TypeOK /\ ChildWaits
    BY InitType, KernelAssumption DEF Init, KernelInit, ChildWaits
  <2>2. EndInv /\ DrainInv
    BY DEF Init, KernelInit, EndInv, DrainInv
  <2> QED
    BY <2>1, <2>2 DEF RunInv
<1>2. RunInv /\ [Next]_vars => RunInv'
  <2> SUFFICES ASSUME RunInv, [Next]_vars PROVE RunInv'
    OBVIOUS
  <2>1. TypeOK' /\ ChildWaits' /\ KernelTypeOK
    BY NextType, ChildWaitsStep, TypeParts DEF RunInv
  <2>2. CASE KernelStep
    BY <2>1, <2>2, EndKernel DEF RunInv
  <2>3. CASE EngineNext
    BY <2>1, <2>3, EndEngine DEF RunInv
  <2>4. CASE UNCHANGED vars
    <3>1. /\ UNCHANGED <<mode, group, used, ring>>
          /\ UNCHANGED <<phase, got, gone, ended, killed>>
      BY <2>4 DEF vars, kernelVars, taskVars, recordVars, engineVars, runVars
    <3>2. EndInv' /\ DrainInv'
      BY <3>1 DEF RunInv, EndInv, DrainInv, Left, NoneOfTarget
    <3> QED
      BY <2>1, <3>2 DEF RunInv
  <2> QED
    BY <2>2, <2>3, <2>4 DEF Next
<1> QED
  BY <1>1, <1>2, PTL DEF Spec

(* What tmon-linux leaves of the target, at each of its exits with the     *)
(* child spawned (engine.cpp:197-252): nothing where the loop ended by     *)
(* itself or at the cap; the child where its SIGSTOP put it where the      *)
(* first waitpid or the seeding failed; only after a failed poll anything. *)
THEOREM TargetNotLeftBehind == ASSUME ~ReuseIds PROVE Spec => []NoOrphan
<1>1. RunInv => NoOrphan
  BY DEF RunInv, EndInv, Left, NoOrphan
<1> QED
  BY <1>1, RunInvariant, PTL

(* A loop that ends by itself has read every record of the target: the     *)
(* poll that came back empty began after the target was waited for.        *)
THEOREM DrainedAtTheEnd == ASSUME ~ReuseIds PROVE Spec => []TargetDrained
<1>1. RunInv => TargetDrained
  <2> SUFFICES ASSUME RunInv PROVE TargetDrained
    OBVIOUS
  <2>1. DOMAIN ring = 1..Len(ring)
    BY LenProperties DEF RunInv, TypeOK, KernelTypeOK
  <2> QED
    BY <2>1 DEF RunInv, DrainInv, NoneOfTarget, TargetDrained
<1> QED
  BY <1>1, RunInvariant, PTL
=============================================================================
