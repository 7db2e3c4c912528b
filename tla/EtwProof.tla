------------------------------ MODULE EtwProof ------------------------------
(***************************************************************************)
(* What tmon-windows reports (EtwEngine), for every set of processes,      *)
(* threads, processors and keys, every size of the session's buffers and   *)
(* every configuration.                                                    *)
(*                                                                         *)
(* The consumer's maps are behind the machine by the events that it has    *)
(* not handled.  The invariant foresees what they will be: there is a      *)
(* sequence of maps, from those of now through what each event of the      *)
(* buffer will make of them, in which each event is judged rightly, and    *)
(* whose last element agrees with the machine.  Handling an event drops    *)
(* its head, logging one appends to it, and a seed of Spawn changes all of *)
(* it at once.                                                             *)
(***************************************************************************)
EXTENDS EtwEngine, FiniteSetTheorems, TLAPS

Kinds  == {"THREAD_START", "CSWITCH", "SYSCALL", "PROCESS_START", "PROCESS_STOP", "IMAGE",
           "IO", "REGISTRY"}
Events == [kind : Kinds, pid : Pids \cup {NoPid}, tid : Tids \cup {NoTid},
           cpu : Cpus \cup {NoCpu}, parent : Pids \cup {NoPid}, key : Keys \cup {NoKey},
           owner : Pids, thread : Tids \cup {NoTid}, tree : BOOLEAN,
           named : Keys \cup {NoKey}, fresh : BOOLEAN]

\* The fields a handler looks into are there.
WellFormed(e) ==
  /\ e.kind \in {"THREAD_START", "PROCESS_START", "PROCESS_STOP", "IMAGE", "REGISTRY"} =>
       e.pid = e.owner
  /\ e.kind = "IO" => e.pid \in {e.owner, NoPid}
  /\ e.kind \in {"THREAD_START", "CSWITCH", "SYSCALL", "IO", "REGISTRY"} => e.thread \in Tids
  /\ e.kind \in {"THREAD_START", "CSWITCH", "IO", "REGISTRY"} => e.tid = e.thread
  /\ e.kind \in {"CSWITCH", "SYSCALL"} => e.cpu \in Cpus

Logged == {e \in Events : WellFormed(e)}

MachineTyped ==
  /\ proc \in [Tids -> Pids \cup {NoPid}] /\ running \in [Cpus -> Tids \cup {NoTid}]
  /\ family \subseteq Pids /\ named \in [Tids -> Keys \cup {NoKey}] /\ usedTids \subseteq Tids
  /\ follow \in BOOLEAN

StreamTyped ==
  /\ buffer \in Seq(Logged) /\ Len(buffer) <= BufferCap
  /\ clock \in Nat /\ lost \in 0..clock

MapsTyped ==
  /\ traced \subseteq Pids /\ threadToPid \in [Tids -> Pids \cup {NoPid}]
  /\ cpuToTid \in [Cpus -> Tids \cup {NoTid}] /\ threadRegKey \in [Tids -> Keys \cup {NoKey}]
  /\ targetPid \in {NoPid, Target}

SinkTyped ==
  /\ pids \subseteq Pids /\ total \in Nat /\ syscalls \in 0..total /\ out \in Seq(Events)

Typed == MachineTyped /\ StreamTyped /\ MapsTyped /\ SinkTyped

----------------------------------------------------------------------------
\* The maps that decide whose an event is, and what an event makes of them.
Maps   == [traced |-> traced, thread |-> threadToPid, cpu |-> cpuToTid]
States == [traced : SUBSET Pids, thread : [Tids -> Pids \cup {NoPid}],
           cpu : [Cpus -> Tids \cup {NoTid}]]

Handled(x, e, follows) ==
  [traced |-> IF e.kind = "PROCESS_START" /\ e.parent \in x.traced /\ follows
              THEN x.traced \cup {e.pid}
              ELSE IF e.kind = "PROCESS_STOP" THEN x.traced \ {e.pid} ELSE x.traced,
   thread |-> IF e.kind = "THREAD_START" THEN [x.thread EXCEPT ![e.tid] = e.pid] ELSE x.thread,
   cpu    |-> IF e.kind = "CSWITCH" THEN [x.cpu EXCEPT ![e.cpu] = e.tid] ELSE x.cpu]

\* An event is judged rightly with these maps.
Judged(x, e, follows) ==
  /\ e.kind = "SYSCALL" =>
       \/ /\ x.cpu[e.cpu] = e.thread /\ x.thread[e.thread] = e.owner
          /\ e.owner \in x.traced <=> e.tree
       \/ x.cpu[e.cpu] = NoTid /\ ~e.tree
  /\ e.kind \in {"IO", "REGISTRY", "IMAGE", "PROCESS_STOP"} => (e.owner \in x.traced <=> e.tree)
  /\ e.kind = "IO" => x.thread[e.thread] = e.owner
  /\ e.kind = "PROCESS_START" =>
       /\ e.pid = Target => e.tree /\ e.parent = NoPid
       /\ e.pid # Target => (e.tree <=> e.parent \in x.traced /\ follows)

Foresees(b, s, follows) ==
  /\ s \in [1..Len(b) + 1 -> States]
  /\ \A k \in 1..Len(b) : s[k + 1] = Handled(s[k], b[k], follows) /\ Judged(s[k], b[k], follows)

Seeded == phase \notin {"spawn", "target", "traced"}

\* The maps agree with the machine.
Agrees(x) ==
  /\ \A t \in Tids : proc[t] # NoPid => x.thread[t] = proc[t]
  /\ \A c \in Cpus : running[c] # NoTid =>
       x.cpu[c] = running[c] \/ (x.cpu[c] = NoTid /\ proc[running[c]] \notin family)
  /\ x.traced = IF Seeded THEN family ELSE family \ {Target}

Sees == lost = 0 /\ consumer = "running"

Foreseen == Sees => \E s \in [1..Len(buffer) + 1 -> States], x \in States :
                       /\ Foresees(buffer, s, follow)
                       /\ s[1] = Maps /\ s[Len(buffer) + 1] = x /\ Agrees(x)

----------------------------------------------------------------------------
\* The same for the registry keys of the threads.
KeyMaps == [Tids -> Keys \cup {NoKey}]
KeyAfter(x, e)  == IF e.kind = "REGISTRY" /\ e.key # NoKey
                   THEN [x EXCEPT ![e.tid] = e.key] ELSE x
KeyJudged(x, e) == e.kind = "REGISTRY" /\ e.fresh =>
                     e.named = IF e.key # NoKey THEN e.key ELSE x[e.tid]

KeysForesee(b, s) ==
  /\ s \in [1..Len(b) + 1 -> KeyMaps]
  /\ \A k \in 1..Len(b) : s[k + 1] = KeyAfter(s[k], b[k]) /\ KeyJudged(s[k], b[k])

KeysAgree(x) == \A t \in Tids \ usedTids : x[t] = named[t]

KeysForeseen == Sees => \E s \in [1..Len(buffer) + 1 -> KeyMaps], x \in KeyMaps :
                  /\ KeysForesee(buffer, s)
                  /\ s[1] = threadRegKey /\ s[Len(buffer) + 1] = x /\ KeysAgree(x)

\* A thread that was never there named nothing.
Unnamed == \A t \in Tids \ usedTids : proc[t] = NoPid => named[t] = NoKey

----------------------------------------------------------------------------
\* The machine, and the target's first steps when its ids are new.
Machinery == \A c \in Cpus : running[c] # NoTid => proc[running[c]] # NoPid

Waiting == {buffer[k] : k \in DOMAIN buffer}

Newborn ==
  /\ phase = "spawn" => Target \notin Alive /\ proc[Main] = NoPid /\ targetPid = NoPid
  /\ phase \in {"target", "traced", "thread", "resume"} => proc[Main] = Target
  /\ proc[Main] \in {NoPid, Target}
  /\ ~Started =>
       /\ \A t \in Tids : proc[t] = Target => t = Main
       /\ \A c \in Cpus : running[c] # Main
       /\ family = IF phase = "spawn" THEN {} ELSE {Target}

\* What was logged of the target before it was resumed, and of its first thread.
BornEvent(e) ==
  /\ e.parent # Target
  /\ e.owner = Target => e.kind \in {"PROCESS_START", "THREAD_START"}

Announced ==
  /\ ~Started => \A e \in Logged : e \in Waiting => BornEvent(e)
  /\ \A e \in Logged : e \in Waiting => (e.thread = Main => e.owner = Target)

(***************************************************************************)
(* What is logged.                                                         *)
(***************************************************************************)

(* One element more.                                                       *)
LEMMA OneMore ==
  ASSUME NEW T, NEW s \in Seq(T), NEW e \in T
  PROVE  /\ Append(s, e) \in Seq(T)
         /\ Len(Append(s, e)) = Len(s) + 1 /\ Len(s) \in Nat
         /\ DOMAIN Append(s, e) = DOMAIN s \cup {Len(s) + 1}
         /\ Append(s, e)[Len(s) + 1] = e
         /\ \A k \in DOMAIN s : Append(s, e)[k] = s[k]
OBVIOUS

(* The head is handled.                                                    *)
LEMMA OneLess ==
  ASSUME NEW T, NEW s \in Seq(T), s # << >>
  PROVE  /\ Head(s) \in T /\ Head(s) = s[1] /\ 1 \in DOMAIN s
         /\ Tail(s) \in Seq(T) /\ Len(Tail(s)) = Len(s) - 1 /\ Len(s) \in Nat /\ Len(s) >= 1
         /\ DOMAIN Tail(s) = 1..Len(s) - 1
         /\ \A k \in DOMAIN Tail(s) : k + 1 \in DOMAIN s /\ Tail(s)[k] = s[k + 1]
OBVIOUS

(* Two sequences, one after the other.                                     *)
LEMMA Joining ==
  ASSUME NEW T, NEW s \in Seq(T), NEW r \in Seq(T)
  PROVE  /\ s \o r \in Seq(T) /\ Len(s \o r) = Len(s) + Len(r)
         /\ \A k \in DOMAIN (s \o r) :
              \/ k \in DOMAIN s /\ (s \o r)[k] = s[k]
              \/ k - Len(s) \in DOMAIN r /\ (s \o r)[k] = r[k - Len(s)]
OBVIOUS

(* What is logged fits, or is counted as lost.                             *)
LEMMA LogTypes ==
  ASSUME StreamTyped, NEW events \in Seq(Logged), Log(events)
  PROVE  /\ StreamTyped' /\ lost <= lost' /\ lost \in Nat /\ lost' \in Nat
         /\ lost' = 0 => lost = 0 /\ buffer' = buffer \o events
         /\ \A e \in Logged : e \in Waiting' =>
              e \in Waiting \/ \E k \in DOMAIN events : e = events[k]
<1> DEFINE n == Fits(events)
           first == SubSeq(events, 1, n)
<1>1. /\ buffer \in Seq(Logged) /\ BufferCap \in Nat /\ Len(buffer) <= BufferCap
      /\ Len(buffer) \in Nat /\ Len(events) \in Nat /\ clock \in Nat /\ lost \in 0..clock
  BY EtwAssumption DEF StreamTyped
<1>2. n \in 0..Len(events) /\ Len(buffer) + n <= BufferCap BY <1>1 DEF Fits
<1>3. /\ clock' = clock + Len(events) /\ buffer' = buffer \o first
      /\ lost' = lost + Len(events) - n
  BY DEF Log
<1> HIDE DEF n
<1>4. /\ first \in Seq(Logged) /\ Len(first) = n
      /\ \A k \in DOMAIN first : k \in DOMAIN events /\ first[k] = events[k]
  BY <1>2
<1>5. n = Len(events) => first = events BY <1>4
<1> HIDE DEF first
<1>6. /\ buffer \o first \in Seq(Logged) /\ Len(buffer \o first) = Len(buffer) + Len(first)
      /\ \A k \in DOMAIN (buffer \o first) :
           \/ k \in DOMAIN buffer /\ (buffer \o first)[k] = buffer[k]
           \/ k - Len(buffer) \in DOMAIN first /\ (buffer \o first)[k] = first[k - Len(buffer)]
  BY <1>1, <1>4, Joining
<1>7. lost' = 0 => n = Len(events) /\ lost = 0 BY <1>1, <1>2, <1>3
<1>8. \A k \in DOMAIN buffer' :
        \/ k \in DOMAIN buffer /\ buffer'[k] = buffer[k]
        \/ k - Len(buffer) \in DOMAIN first /\ buffer'[k] = first[k - Len(buffer)]
  BY <1>3, <1>6
<1>9. \A e \in Logged : e \in Waiting' =>
              e \in Waiting \/ \E k \in DOMAIN events : e = events[k]
  BY <1>4, <1>8 DEF Waiting
<1>10. lost' \in 0..clock' /\ clock' \in Nat /\ lost \in Nat /\ lost <= lost'
  BY <1>1, <1>2, <1>3
<1>11. buffer' \in Seq(Logged) /\ Len(buffer') <= BufferCap BY <1>2, <1>3, <1>4, <1>6
<1>12. lost' = 0 => lost = 0 /\ buffer' = buffer \o events BY <1>3, <1>5, <1>7
<1> QED BY <1>9, <1>10, <1>11, <1>12 DEF StreamTyped

LEMMA LogOne ==
  ASSUME StreamTyped, NEW e \in Logged, Log(<<e>>)
  PROVE  /\ StreamTyped' /\ lost <= lost' /\ lost \in Nat /\ lost' \in Nat
         /\ lost' = 0 => lost = 0 /\ buffer' = Append(buffer, e)
         /\ \A f \in Logged : f \in Waiting' => f \in Waiting \/ f = e
<1>1. <<e>> \in Seq(Logged) /\ DOMAIN <<e>> = {1} /\ <<e>>[1] = e OBVIOUS
<1>2. \A b \in Seq(Logged) : b \o <<e>> = Append(b, e) OBVIOUS
<1> DEFINE events == <<e>>
<1>3. events \in Seq(Logged) /\ Log(events) /\ DOMAIN events = {1} /\ events[1] = e BY <1>1
<1>4. buffer \in Seq(Logged) BY DEF StreamTyped
<1>5. buffer \o events = Append(buffer, e) BY <1>2, <1>4
<1> HIDE DEF events
<1> QED BY <1>3, <1>5, LogTypes

LEMMA LogTwo ==
  ASSUME StreamTyped, NEW e \in Logged, NEW f \in Logged, Log(<<e, f>>)
  PROVE  /\ StreamTyped' /\ lost <= lost' /\ lost \in Nat /\ lost' \in Nat
         /\ lost' = 0 => lost = 0 /\ buffer' = Append(Append(buffer, e), f)
         /\ \A g \in Logged : g \in Waiting' => g \in Waiting \/ g = e \/ g = f
<1> DEFINE events == <<e, f>>
<1>1. /\ events \in Seq(Logged) /\ Log(events) /\ DOMAIN events = {1, 2}
      /\ events[1] = e /\ events[2] = f
  OBVIOUS
<1>2. \A b \in Seq(Logged) : b \o <<e, f>> = Append(Append(b, e), f) OBVIOUS
<1>4. buffer \in Seq(Logged) BY DEF StreamTyped
<1>5. buffer \o events = Append(Append(buffer, e), f) BY <1>2, <1>4
<1> HIDE DEF events
<1> QED BY <1>1, <1>5, LogTypes

(* What each operation of the machine logs.                                *)

(* A thread that runs has a process.                                       *)
LEMMA HasProcess ==
  ASSUME MachineTyped, NEW t \in Tids, CanRun(t)
  PROVE  proc[t] \in Pids
BY DEF MachineTyped, CanRun

LEMMA RunningThread ==
  ASSUME MachineTyped, NEW c \in Cpus, Runs(c)
  PROVE  running[c] \in Tids /\ running[c] # NoTid /\ proc[running[c]] \in Pids
BY HasProcess DEF MachineTyped, Runs

LEMMA ContextSwitchLogs ==
  ASSUME MachineTyped, NEW c \in Cpus, NEW t \in Tids, ContextSwitch(c, t)
  PROVE  \E e \in Logged : Log(<<e>>) /\ e =
           [kind |-> "CSWITCH", pid |-> proc[t], tid |-> t, cpu |-> c, parent |-> NoPid,
            key |-> NoKey, owner |-> proc[t], thread |-> t, tree |-> proc[t] \in family,
            named |-> NoKey, fresh |-> t \notin usedTids]
<1> DEFINE e == [EventOf("CSWITCH", proc[t], t) EXCEPT !.cpu = c]
<1>1. proc[t] \in Pids BY HasProcess DEF ContextSwitch
<1>2. e = [kind |-> "CSWITCH", pid |-> proc[t], tid |-> t, cpu |-> c, parent |-> NoPid,
            key |-> NoKey, owner |-> proc[t], thread |-> t, tree |-> proc[t] \in family,
            named |-> NoKey, fresh |-> t \notin usedTids]
  BY DEF EventOf
<1> HIDE DEF e
<1>3. e \in Events BY <1>1, <1>2 DEF Events, Kinds
<1>5. WellFormed(e) BY <1>2 DEF WellFormed
<1>4. Log(<<e>>) BY DEF ContextSwitch, e
<1> QED BY <1>2, <1>3, <1>4, <1>5 DEF Logged

LEMMA SystemCallLogs ==
  ASSUME MachineTyped, NEW c \in Cpus, SystemCall(c)
  PROVE  \E e \in Logged : Log(<<e>>) /\ e =
           [kind |-> "SYSCALL", pid |-> NoPid, tid |-> NoTid, cpu |-> c, parent |-> NoPid,
            key |-> NoKey, owner |-> proc[running[c]], thread |-> running[c],
            tree |-> proc[running[c]] \in family,
            named |-> NoKey, fresh |-> running[c] \notin usedTids]
<1> DEFINE e == [EventOf("SYSCALL", proc[running[c]], running[c]) EXCEPT
                    !.cpu = c, !.pid = NoPid, !.tid = NoTid]
<1>1. running[c] \in Tids /\ proc[running[c]] \in Pids BY RunningThread DEF SystemCall, Operates
<1>2. e =
           [kind |-> "SYSCALL", pid |-> NoPid, tid |-> NoTid, cpu |-> c, parent |-> NoPid,
            key |-> NoKey, owner |-> proc[running[c]], thread |-> running[c],
            tree |-> proc[running[c]] \in family,
            named |-> NoKey, fresh |-> running[c] \notin usedTids]
  <2> DEFINE b == EventOf("SYSCALL", proc[running[c]], running[c])
  <2>1. /\ b.kind = "SYSCALL" /\ b.pid = proc[running[c]] /\ b.tid = running[c] /\ b.cpu = NoCpu
        /\ b.parent = NoPid /\ b.key = NoKey /\ b.owner = proc[running[c]]
        /\ b.thread = running[c] /\ b.tree = (proc[running[c]] \in family) /\ b.named = NoKey
        /\ b.fresh = (running[c] \notin usedTids)
        /\ b = [kind |-> b.kind, pid |-> b.pid, tid |-> b.tid, cpu |-> b.cpu,
                parent |-> b.parent, key |-> b.key, owner |-> b.owner, thread |-> b.thread,
                tree |-> b.tree, named |-> b.named, fresh |-> b.fresh]
    BY DEF EventOf
  <2>2. e = [b EXCEPT !.cpu = c, !.pid = NoPid, !.tid = NoTid] OBVIOUS
  <2> HIDE DEF b, e
  <2> QED BY <2>1, <2>2
<1> HIDE DEF e
<1>3. e \in Events BY <1>1, <1>2 DEF Events, Kinds
<1>4. WellFormed(e) BY <1>1, <1>2 DEF WellFormed
<1>5. Log(<<e>>) BY DEF SystemCall, e
<1> QED BY <1>2, <1>3, <1>4, <1>5 DEF Logged

LEMMA InputLogs ==
  ASSUME MachineTyped, NEW c \in Cpus, NEW kind \in {"IMAGE", "IO"},
         NEW known \in BOOLEAN, Input(c, kind, known)
  PROVE  \E e \in Logged :
           /\ Log(<<e>>) /\ e.kind = kind /\ e.thread = running[c] /\ e.owner = proc[running[c]]
           /\ e.parent = NoPid /\ e.tree = (proc[running[c]] \in family)
<1> DEFINE e == IF known THEN EventOf(kind, proc[running[c]], running[c])
                ELSE [EventOf(kind, proc[running[c]], running[c]) EXCEPT !.pid = NoPid]
<1>1. /\ running[c] \in Tids /\ proc[running[c]] \in Pids
      /\ kind = "IMAGE" => known
  BY RunningThread DEF Input, Operates
<1>2. e =
           [kind |-> kind, pid |-> IF known THEN proc[running[c]] ELSE NoPid,
            tid |-> running[c], cpu |-> NoCpu, parent |-> NoPid,
            key |-> NoKey, owner |-> proc[running[c]], thread |-> running[c],
            tree |-> proc[running[c]] \in family,
            named |-> NoKey, fresh |-> running[c] \notin usedTids]
  BY DEF EventOf
<1> HIDE DEF e
<1>6. /\ e.kind \in {"IMAGE", "IO"} /\ e.tid = running[c] /\ e.thread = running[c]
      /\ e.owner = proc[running[c]] /\ e.pid \in {e.owner, NoPid}
      /\ e.kind = "IMAGE" => e.pid = e.owner
  BY <1>1, <1>2
<1>7. (IF known THEN proc[running[c]] ELSE NoPid) \in Pids \cup {NoPid} BY <1>1
<1>3. e \in Events BY <1>1, <1>2, <1>7 DEF Events, Kinds
<1>4. WellFormed(e) BY <1>1, <1>6 DEF WellFormed
<1>5. Log(<<e>>) BY DEF Input, e
<1>8. /\ e.kind = kind /\ e.thread = running[c] /\ e.owner = proc[running[c]]
      /\ e.parent = NoPid /\ e.tree = (proc[running[c]] \in family)
  BY <1>2
<1> QED BY <1>3, <1>4, <1>5, <1>8 DEF Logged

LEMMA RegistryLogs ==
  ASSUME MachineTyped, NEW c \in Cpus, NEW key \in Keys \cup {NoKey}, Registry(c, key)
  PROVE  \E e \in Logged : Log(<<e>>) /\ e =
           [kind |-> "REGISTRY", pid |-> proc[running[c]],
            tid |-> running[c], cpu |-> NoCpu, parent |-> NoPid,
            key |-> key, owner |-> proc[running[c]], thread |-> running[c],
            tree |-> proc[running[c]] \in family,
            named |-> named'[running[c]], fresh |-> running[c] \notin usedTids]
<1> DEFINE e == [EventOf("REGISTRY", proc[running[c]], running[c]) EXCEPT
                    !.key = key, !.named = named'[running[c]]]
<1>1. /\ running[c] \in Tids /\ proc[running[c]] \in Pids
      /\ named'[running[c]] \in Keys \cup {NoKey}
  <2>1. running[c] \in Tids /\ proc[running[c]] \in Pids
    BY RunningThread DEF Registry, Operates
  <2>2. named'[running[c]] \in Keys \cup {NoKey} BY <2>1 DEF Registry, MachineTyped
  <2> QED BY <2>1, <2>2
<1>2. e =
           [kind |-> "REGISTRY", pid |-> proc[running[c]],
            tid |-> running[c], cpu |-> NoCpu, parent |-> NoPid,
            key |-> key, owner |-> proc[running[c]], thread |-> running[c],
            tree |-> proc[running[c]] \in family,
            named |-> named'[running[c]], fresh |-> running[c] \notin usedTids]
  <2> DEFINE b == EventOf("REGISTRY", proc[running[c]], running[c])
  <2>1. /\ b.kind = "REGISTRY" /\ b.pid = proc[running[c]] /\ b.tid = running[c] /\ b.cpu = NoCpu
        /\ b.parent = NoPid /\ b.key = NoKey /\ b.owner = proc[running[c]]
        /\ b.thread = running[c] /\ b.tree = (proc[running[c]] \in family) /\ b.named = NoKey
        /\ b.fresh = (running[c] \notin usedTids)
        /\ b = [kind |-> b.kind, pid |-> b.pid, tid |-> b.tid, cpu |-> b.cpu,
                parent |-> b.parent, key |-> b.key, owner |-> b.owner, thread |-> b.thread,
                tree |-> b.tree, named |-> b.named, fresh |-> b.fresh]
    BY DEF EventOf
  <2>2. e = [b EXCEPT !.key = key, !.named = named'[running[c]]] OBVIOUS
  <2> HIDE DEF b, e
  <2> QED BY <2>1, <2>2
<1> HIDE DEF e
<1>3. e \in Events BY <1>1, <1>2 DEF Events, Kinds
<1>4. WellFormed(e) BY <1>1, <1>2 DEF WellFormed
<1>5. Log(<<e>>) BY DEF Registry, e
<1> QED BY <1>2, <1>3, <1>4, <1>5 DEF Logged

\* What matters of the two.
LEMMA SystemCallFields ==
  ASSUME MachineTyped, NEW c \in Cpus, SystemCall(c)
  PROVE  \E e \in Logged :
           /\ Log(<<e>>) /\ e.kind = "SYSCALL" /\ e.cpu = c /\ e.thread = running[c]
           /\ e.owner = proc[running[c]] /\ e.tree = (proc[running[c]] \in family)
           /\ e.parent = NoPid
<1>1. PICK e \in Logged : Log(<<e>>) /\ e =
           [kind |-> "SYSCALL", pid |-> NoPid, tid |-> NoTid, cpu |-> c, parent |-> NoPid,
            key |-> NoKey, owner |-> proc[running[c]], thread |-> running[c],
            tree |-> proc[running[c]] \in family, named |-> NoKey,
            fresh |-> running[c] \notin usedTids]
  BY SystemCallLogs
<1>2. /\ e.kind = "SYSCALL" /\ e.cpu = c /\ e.thread = running[c]
      /\ e.owner = proc[running[c]] /\ e.tree = (proc[running[c]] \in family)
      /\ e.parent = NoPid
  BY <1>1
<1> QED BY <1>1, <1>2

LEMMA RegistryFields ==
  ASSUME MachineTyped, NEW c \in Cpus, NEW key \in Keys \cup {NoKey}, Registry(c, key)
  PROVE  \E e \in Logged :
           /\ Log(<<e>>) /\ e.kind = "REGISTRY" /\ e.thread = running[c]
           /\ e.owner = proc[running[c]] /\ e.tree = (proc[running[c]] \in family)
           /\ e.parent = NoPid
<1>1. PICK e \in Logged : Log(<<e>>) /\ e =
           [kind |-> "REGISTRY", pid |-> proc[running[c]], tid |-> running[c], cpu |-> NoCpu,
            parent |-> NoPid, key |-> key, owner |-> proc[running[c]], thread |-> running[c],
            tree |-> proc[running[c]] \in family, named |-> named'[running[c]],
            fresh |-> running[c] \notin usedTids]
  BY RegistryLogs
<1>2. /\ e.kind = "REGISTRY" /\ e.thread = running[c]
      /\ e.owner = proc[running[c]] /\ e.tree = (proc[running[c]] \in family)
      /\ e.parent = NoPid
  BY <1>1
<1> QED BY <1>1, <1>2

LEMMA StartThreadLogs ==
  ASSUME MachineTyped, NEW c \in Cpus, NEW t \in Tids, StartThread(c, t)
  PROVE  \E e \in Logged : Log(<<e>>) /\ e =
           [kind |-> "THREAD_START", pid |-> proc[running[c]],
            tid |-> t, cpu |-> NoCpu, parent |-> NoPid,
            key |-> NoKey, owner |-> proc[running[c]], thread |-> t,
            tree |-> proc[running[c]] \in family,
            named |-> NoKey, fresh |-> t \notin usedTids]
<1> DEFINE e == EventOf("THREAD_START", proc[running[c]], t)
<1>1. running[c] \in Tids /\ proc[running[c]] \in Pids BY RunningThread DEF StartThread
<1>2. e =
           [kind |-> "THREAD_START", pid |-> proc[running[c]],
            tid |-> t, cpu |-> NoCpu, parent |-> NoPid,
            key |-> NoKey, owner |-> proc[running[c]], thread |-> t,
            tree |-> proc[running[c]] \in family,
            named |-> NoKey, fresh |-> t \notin usedTids]
  BY DEF EventOf
<1> HIDE DEF e
<1>3. e \in Events BY <1>1, <1>2 DEF Events, Kinds
<1>4. WellFormed(e) BY <1>1, <1>2 DEF WellFormed
<1>5. Log(<<e>>) BY DEF StartThread, e
<1> QED BY <1>2, <1>3, <1>4, <1>5 DEF Logged

LEMMA EndProcessLogs ==
  ASSUME MachineTyped, NEW p \in Pids, EndProcess(p)
  PROVE  \E e \in Logged : Log(<<e>>) /\ e =
           [kind |-> "PROCESS_STOP", pid |-> p, tid |-> NoTid, cpu |-> NoCpu, parent |-> NoPid,
            key |-> NoKey, owner |-> p, thread |-> NoTid, tree |-> p \in family,
            named |-> NoKey, fresh |-> NoTid \notin usedTids]
<1> DEFINE e == EventOf("PROCESS_STOP", p, NoTid)
<1>1. p \in Pids OBVIOUS
<1>2. e =
           [kind |-> "PROCESS_STOP", pid |-> p, tid |-> NoTid, cpu |-> NoCpu, parent |-> NoPid,
            key |-> NoKey, owner |-> p, thread |-> NoTid, tree |-> p \in family,
            named |-> NoKey, fresh |-> NoTid \notin usedTids]
  BY DEF EventOf
<1> HIDE DEF e
<1>3. e \in Events BY <1>1, <1>2 DEF Events, Kinds
<1>4. WellFormed(e) BY <1>1, <1>2 DEF WellFormed
<1>5. Log(<<e>>) BY DEF EndProcess, e
<1> QED BY <1>2, <1>3, <1>4, <1>5 DEF Logged

Start(kind, p, t, parent, inTree) ==
  [kind |-> kind, pid |-> p, tid |-> t, cpu |-> NoCpu, parent |-> parent, key |-> NoKey,
   owner |-> p, thread |-> t, tree |-> inTree, named |-> NoKey, fresh |-> t \notin usedTids]

LEMMA BeginsLogs ==
  ASSUME MachineTyped, NEW p \in Pids, NEW t \in Tids, NEW parent \in Pids \cup {NoPid},
         NEW inTree \in BOOLEAN, Begins(p, t, parent, inTree)
  PROVE  /\ Start("PROCESS_START", p, t, parent, inTree) \in Logged
         /\ Start("THREAD_START", p, t, parent, inTree) \in Logged
         /\ Log(<<Start("PROCESS_START", p, t, parent, inTree),
                  Start("THREAD_START", p, t, parent, inTree)>>)
<1> DEFINE e == [EventOf("PROCESS_START", p, t) EXCEPT !.parent = parent, !.tree = inTree]
           f == [e EXCEPT !.kind = "THREAD_START"]
<1>1. e = [kind |-> "PROCESS_START", pid |-> p, tid |-> t, cpu |-> NoCpu,
                   parent |-> parent, key |-> NoKey, owner |-> p, thread |-> t,
                   tree |-> inTree, named |-> NoKey, fresh |-> t \notin usedTids]
  <2> DEFINE b == EventOf("PROCESS_START", p, t)
  <2>1. /\ b.kind = "PROCESS_START" /\ b.pid = p /\ b.tid = t /\ b.cpu = NoCpu
        /\ b.parent = NoPid /\ b.key = NoKey /\ b.owner = p
        /\ b.thread = t /\ b.tree = (p \in family) /\ b.named = NoKey
        /\ b.fresh = (t \notin usedTids)
        /\ b = [kind |-> b.kind, pid |-> b.pid, tid |-> b.tid, cpu |-> b.cpu,
                parent |-> b.parent, key |-> b.key, owner |-> b.owner, thread |-> b.thread,
                tree |-> b.tree, named |-> b.named, fresh |-> b.fresh]
    BY DEF EventOf
  <2>2. e = [b EXCEPT !.parent = parent, !.tree = inTree] OBVIOUS
  <2> HIDE DEF b, e
  <2> QED BY <2>1, <2>2
<1>2. Log(<<e, f>>) BY DEF Begins
<1> HIDE DEF e
<1>3. f = [kind |-> "THREAD_START", pid |-> p, tid |-> t, cpu |-> NoCpu,
                   parent |-> parent, key |-> NoKey, owner |-> p, thread |-> t,
                   tree |-> inTree, named |-> NoKey, fresh |-> t \notin usedTids]
  BY <1>1
<1> HIDE DEF f
<1>4. e \in Events BY <1>1 DEF Events, Kinds
<1>5. f \in Events BY <1>3 DEF Events, Kinds
<1>6. WellFormed(e) BY <1>1 DEF WellFormed
<1>7. WellFormed(f) BY <1>3 DEF WellFormed
<1>8. /\ e = Start("PROCESS_START", p, t, parent, inTree)
      /\ f = Start("THREAD_START", p, t, parent, inTree)
  BY <1>1, <1>3 DEF Start
<1> QED BY <1>2, <1>4, <1>5, <1>6, <1>7, <1>8 DEF Logged

(***************************************************************************)
(* What the consumer reports.                                              *)
(***************************************************************************)
Reported(e, pid, tid, key) ==
  [kind |-> e.kind, pid |-> pid, tid |-> tid, cpu |-> e.cpu, parent |-> e.parent,
   key |-> key, owner |-> e.owner, thread |-> e.thread, tree |-> e.tree,
   named |-> e.named, fresh |-> e.fresh]

LEMMA EmitReports ==
  ASSUME SinkTyped, NEW e \in Logged, NEW pid \in Pids, NEW tid \in Tids \cup {NoTid},
         NEW key \in Keys \cup {NoKey}, Emit(e, pid, tid, key)
  PROVE  /\ SinkTyped' /\ missed' = missed
         /\ \A r \in Events : r \in Reports' => r \in Reports \/ r = Reported(e, pid, tid, key)
         /\ \/ out' = Append(out, Reported(e, pid, tid, key)) /\ consumer' = consumer
            \/ out' = out /\ consumer' = "failed"
<1> DEFINE r == [e EXCEPT !.pid = pid, !.tid = tid, !.key = key]
<1>1. e \in Events BY DEF Logged
<1>2. r = Reported(e, pid, tid, key)
  <2>1. e = [kind |-> e.kind, pid |-> e.pid, tid |-> e.tid, cpu |-> e.cpu,
              parent |-> e.parent, key |-> e.key, owner |-> e.owner, thread |-> e.thread,
              tree |-> e.tree, named |-> e.named, fresh |-> e.fresh]
    BY <1>1 DEF Events
  <2>2. r = [e EXCEPT !.pid = pid, !.tid = tid, !.key = key] OBVIOUS
  <2> HIDE DEF r
  <2> QED BY <2>1, <2>2 DEF Reported
<1>3. \/ out' = Append(out, r) /\ consumer' = consumer
      \/ out' = out /\ consumer' = "failed"
  BY DEF Emit
<1> HIDE DEF r
<1>4. Reported(e, pid, tid, key) \in Events BY <1>1 DEF Events, Reported
<1>5. r \in Events BY <1>2, <1>4
<1>6. out \in Seq(Events) BY DEF SinkTyped
<1>7. out' \in Seq(Events) BY <1>3, <1>5, <1>6, OneMore
<1>8. pids' \subseteq Pids /\ missed' = missed BY DEF Emit, SinkTyped
<1>9. total' \in Nat /\ syscalls' \in 0..total' BY DEF Emit, SinkTyped
<1>10. \A q \in Events : q \in Reports' => q \in Reports \/ q = r
  <2> SUFFICES ASSUME NEW q \in Events, q \in Reports' PROVE q \in Reports \/ q = r OBVIOUS
  <2>1. PICK k \in DOMAIN out' : q = out'[k] BY DEF Reports
  <2>2. CASE out' = out BY <2>1, <2>2 DEF Reports
  <2>3. CASE out' = Append(out, r)
    <3>1. (k \in DOMAIN out /\ q = out[k]) \/ q = r BY <1>5, <1>6, <2>1, <2>3, OneMore
    <3> QED BY <3>1 DEF Reports
  <2> QED BY <1>3, <2>2, <2>3
<1> QED BY <1>2, <1>3, <1>7, <1>8, <1>9, <1>10 DEF SinkTyped

LEMMA EmitOrNot ==
  ASSUME SinkTyped, traced \subseteq Pids, NEW e \in Logged, NEW pid \in Pids \cup {NoPid},
         NEW tid \in Tids \cup {NoTid}, NEW key \in Keys \cup {NoKey},
         EmitIfTraced(e, pid, tid, key)
  PROVE  /\ SinkTyped'
         /\ \A r \in Events : r \in Reports' =>
              r \in Reports \/ (pid \in traced /\ r = Reported(e, pid, tid, key))
         /\ \A m \in missed' : m \in missed \/ (pid \notin traced /\ m = e /\ e.tree)
         /\ consumer' \in {consumer, "failed"}
<1>1. CASE pid \in traced /\ Emit(e, pid, tid, key)
  <2>1. pid \in Pids BY <1>1
  <2>2. /\ SinkTyped' /\ missed' = missed
        /\ \A r \in Events : r \in Reports' => r \in Reports \/ r = Reported(e, pid, tid, key)
        /\ consumer' \in {consumer, "failed"}
    BY <1>1, <2>1, EmitReports
  <2> QED BY <1>1, <2>2
<1>2. CASE pid \notin traced /\ Ignore(e)
  <2>1. SinkTyped' BY <1>2 DEF Ignore, SinkTyped
  <2>2. Reports' = Reports /\ consumer' = consumer BY <1>2 DEF Ignore, Reports
  <2>3. \A m \in missed' : m \in missed \/ (m = e /\ e.tree) BY <1>2 DEF Ignore
  <2> QED BY <1>2, <2>1, <2>2, <2>3
<1> QED BY <1>1, <1>2 DEF EmitIfTraced

LEMMA HandlesTypes ==
  ASSUME Typed, NEW kind, Handles(kind)
  PROVE  /\ Head(buffer) \in Logged /\ Head(buffer).kind = kind
         /\ StreamTyped' /\ MachineTyped' /\ targetPid' \in {NoPid, Target}
<1>1. buffer \in Seq(Logged) /\ buffer # << >> BY DEF Typed, StreamTyped, Handles
<1>2. /\ Head(buffer) \in Logged /\ Tail(buffer) \in Seq(Logged)
      /\ Len(Tail(buffer)) = Len(buffer) - 1 /\ Len(buffer) \in Nat
  BY <1>1, OneLess
<1>3. StreamTyped' BY <1>2, EtwAssumption DEF Typed, StreamTyped, Handles
<1>4. MachineTyped' BY DEF Typed, MachineTyped, Handles, configVars, machineVars
<1>5. targetPid' \in {NoPid, Target} BY DEF Typed, MapsTyped, Handles
<1> QED BY <1>2, <1>3, <1>4, <1>5 DEF Handles

(* The types.                                                              *)
LEMMA ConsumerTypes ==
  ASSUME Typed, ConsumerNext
  PROVE  Typed'
<1> DEFINE e == Head(buffer)
<1>1. SinkTyped /\ MapsTyped BY DEF Typed
<1>2. ASSUME NEW kind, Handles(kind)
      PROVE  /\ e \in Logged /\ e.kind = kind /\ StreamTyped' /\ MachineTyped'
             /\ targetPid' \in {NoPid, Target}
             /\ e.pid \in Pids \cup {NoPid} /\ e.tid \in Tids \cup {NoTid}
             /\ e.key \in Keys \cup {NoKey} /\ e.owner \in Pids
             /\ WellFormed(e)
  BY <1>2, HandlesTypes DEF Logged, Events
<1>3. Silent => SinkTyped' BY <1>1 DEF Silent, SinkTyped
<1> HIDE DEF e
<1>4. CASE OnThreadStart
  <2>1. Handles("THREAD_START") /\ SinkTyped' BY <1>3, <1>4 DEF OnThreadStart
  <2>2. e.tid \in Tids /\ e.pid \in Pids BY <1>2, <2>1 DEF WellFormed
  <2>3. threadToPid' = [threadToPid EXCEPT ![e.tid] = e.pid] BY <1>4 DEF OnThreadStart, e
  <2>4. MapsTyped' BY <1>1, <1>2, <1>4, <2>1, <2>2, <2>3 DEF OnThreadStart, MapsTyped
  <2> QED BY <1>2, <2>1, <2>4 DEF Typed
<1>5. CASE OnContextSwitch
  <2>1. Handles("CSWITCH") /\ SinkTyped' BY <1>3, <1>5 DEF OnContextSwitch
  <2>2. cpuToTid' = [cpuToTid EXCEPT ![e.cpu] = e.tid] BY <1>5 DEF OnContextSwitch, Scheduled, e
  <2>3. MapsTyped' BY <1>1, <1>2, <1>5, <2>1, <2>2 DEF OnContextSwitch, MapsTyped
  <2> QED BY <1>2, <2>1, <2>3 DEF Typed
<1>6. CASE OnSystemCall
  <2>1. Handles("SYSCALL") BY <1>6 DEF OnSystemCall
  <2>2. PICK tid \in Tids \cup {NoTid}, pid \in Pids \cup {NoPid} : EmitIfTraced(e, pid, tid, NoKey)
    <3>1. e.cpu \in Cpus BY <1>2, <2>1 DEF WellFormed
    <3>2. cpuToTid[e.cpu] \in Tids \cup {NoTid} BY <1>1, <3>1 DEF MapsTyped
    <3>3. (IF cpuToTid[e.cpu] = NoTid THEN NoPid ELSE threadToPid[cpuToTid[e.cpu]])
             \in Pids \cup {NoPid}
      BY <1>1, <3>2 DEF MapsTyped
    <3> QED BY <1>6, <3>2, <3>3 DEF OnSystemCall, e
  <2>3. SinkTyped' BY <1>1, <1>2, <2>1, <2>2, EmitOrNot DEF MapsTyped
  <2>4. MapsTyped' BY <1>1, <1>2, <1>6, <2>1 DEF OnSystemCall, MapsTyped
  <2> QED BY <1>2, <2>1, <2>3, <2>4 DEF Typed
<1>7. CASE OnProcessStart
  <2>1. Handles("PROCESS_START") BY <1>7 DEF OnProcessStart
  <2>2. e.pid \in Pids BY <1>2, <2>1 DEF WellFormed
  <2>3. Emit(e, e.pid, NoTid, NoKey) \/ Ignore(e) BY <1>7 DEF OnProcessStart, e
  <2>4. SinkTyped'
    <3>1. CASE Emit(e, e.pid, NoTid, NoKey) BY <1>1, <1>2, <2>1, <2>2, <3>1, EmitReports
    <3>2. CASE Ignore(e) BY <1>1, <3>2 DEF Ignore, SinkTyped
    <3> QED BY <2>3, <3>1, <3>2
  <2>5. traced' \in {traced, traced \cup {e.pid}} BY <1>7 DEF OnProcessStart, e
  <2>6. MapsTyped' BY <1>1, <1>2, <1>7, <2>1, <2>2, <2>5 DEF OnProcessStart, MapsTyped
  <2> QED BY <1>2, <2>1, <2>4, <2>6 DEF Typed
<1>8. CASE OnProcessStop
  <2>1. Handles("PROCESS_STOP") /\ EmitIfTraced(e, e.pid, NoTid, NoKey)
    BY <1>8 DEF OnProcessStop, e
  <2>2. SinkTyped' BY <1>1, <1>2, <2>1, EmitOrNot DEF MapsTyped
  <2>3. traced' \subseteq traced BY <1>8 DEF OnProcessStop, Untrace
  <2>4. MapsTyped' BY <1>1, <1>2, <1>8, <2>1, <2>3 DEF OnProcessStop, MapsTyped
  <2> QED BY <1>2, <2>1, <2>2, <2>4 DEF Typed
<1>9. CASE OnImageLoad
  <2>1. Handles("IMAGE") /\ EmitIfTraced(e, e.pid, NoTid, NoKey) BY <1>9 DEF OnImageLoad, e
  <2>2. SinkTyped' BY <1>1, <1>2, <2>1, EmitOrNot DEF MapsTyped
  <2>3. MapsTyped' BY <1>1, <1>2, <1>9, <2>1 DEF OnImageLoad, MapsTyped
  <2> QED BY <1>2, <2>1, <2>2, <2>3 DEF Typed
<1>10. ASSUME Handles("IO") \/ Handles("REGISTRY")
       PROVE  PidFor(e) \in Pids \cup {NoPid} /\ e.tid \in Tids
  <2>1. e.tid \in Tids /\ e.pid \in Pids \cup {NoPid} BY <1>2, <1>10 DEF WellFormed
  <2> QED BY <1>1, <2>1 DEF PidFor, MapsTyped
<1>11. CASE OnFileOrNet
  <2>1. Handles("IO") /\ EmitIfTraced(e, PidFor(e), e.tid, NoKey) BY <1>11 DEF OnFileOrNet, e
  <2>2. SinkTyped' BY <1>1, <1>2, <1>10, <2>1, EmitOrNot DEF MapsTyped
  <2>3. MapsTyped' BY <1>1, <1>2, <1>11, <2>1 DEF OnFileOrNet, MapsTyped
  <2> QED BY <1>2, <2>1, <2>2, <2>3 DEF Typed
<1>12. CASE OnRegistry
  <2>1. /\ Handles("REGISTRY")
        /\ EmitIfTraced(e, PidFor(e), e.tid, IF e.key # NoKey THEN e.key ELSE Recall(e.tid))
    BY <1>12 DEF OnRegistry, e
  <2>2. (IF e.key # NoKey THEN e.key ELSE Recall(e.tid)) \in Keys \cup {NoKey}
    BY <1>1, <1>2, <1>10, <2>1 DEF Recall, MapsTyped
  <2>3. SinkTyped' BY <1>1, <1>2, <1>10, <2>1, <2>2, EmitOrNot DEF MapsTyped
  <2>4. threadRegKey' \in [Tids -> Keys \cup {NoKey}]
    BY <1>1, <1>2, <1>10, <1>12, <2>1 DEF OnRegistry, MapsTyped, e
  <2>5. MapsTyped' BY <1>1, <1>2, <1>12, <2>1, <2>4 DEF OnRegistry, MapsTyped
  <2> QED BY <1>2, <2>1, <2>3, <2>5 DEF Typed
<1> QED BY <1>4, <1>5, <1>6, <1>7, <1>8, <1>9, <1>11, <1>12 DEF ConsumerNext

LEMMA SameConsumer ==
  ASSUME Typed, UNCHANGED <<consumerVars, sharedVars>>
  PROVE  MapsTyped' /\ SinkTyped'
<1>1. MapsTyped' BY DEF Typed, MapsTyped, consumerVars, sharedVars
<1>2. SinkTyped' BY DEF Typed, SinkTyped, consumerVars
<1> QED BY <1>1, <1>2

LEMMA BeginsTypes ==
  ASSUME Typed, NEW p \in Pids, NEW t \in Tids, NEW parent \in Pids \cup {NoPid},
         NEW inTree \in BOOLEAN, Begins(p, t, parent, inTree),
         UNCHANGED <<running, usedTids, follow>>
  PROVE  MachineTyped' /\ StreamTyped'
<1>1. MachineTyped /\ StreamTyped BY DEF Typed
<1>2. StreamTyped' BY <1>1, BeginsLogs, LogTwo
<1>3. family' \subseteq Pids BY <1>1 DEF Begins, MachineTyped
<1>4. proc' \in [Tids -> Pids \cup {NoPid}] BY <1>1 DEF Begins, MachineTyped
<1>5. named' \in [Tids -> Keys \cup {NoKey}] BY <1>1 DEF Begins, MachineTyped
<1>6. running' \in [Cpus -> Tids \cup {NoTid}] /\ usedTids' \subseteq Tids /\ follow' \in BOOLEAN
  BY <1>1 DEF MachineTyped
<1> QED BY <1>2, <1>3, <1>4, <1>5, <1>6 DEF MachineTyped

LEMMA MachineTypes ==
  ASSUME Typed, MachineNext
  PROVE  Typed'
<1>1. MachineTyped /\ StreamTyped BY DEF Typed
<1>2. Machine => MapsTyped' /\ SinkTyped' /\ follow' = follow
  BY SameConsumer DEF Machine, configVars
<1>3. ASSUME NEW c \in Cpus, NEW t \in Tids, ContextSwitch(c, t) PROVE Typed'
  <2>1. StreamTyped' BY <1>1, <1>3, ContextSwitchLogs, LogOne
  <2>2. Machine BY <1>3 DEF ContextSwitch
  <2>3. MachineTyped' BY <1>1, <1>2, <1>3, <2>2 DEF ContextSwitch, MachineTyped
  <2> QED BY <1>2, <2>1, <2>2, <2>3 DEF Typed
<1>4. ASSUME NEW c \in Cpus, SystemCall(c) PROVE Typed'
  <2>1. StreamTyped' BY <1>1, <1>4, SystemCallLogs, LogOne
  <2>2. Machine BY <1>4 DEF SystemCall, Operates
  <2>3. MachineTyped' BY <1>1, <1>2, <1>4, <2>2 DEF SystemCall, Operates, MachineTyped
  <2> QED BY <1>2, <2>1, <2>2, <2>3 DEF Typed
<1>5. ASSUME NEW c \in Cpus, NEW kind \in {"IMAGE", "IO"}, NEW known \in BOOLEAN,
             Input(c, kind, known)
      PROVE  Typed'
  <2>1. StreamTyped' BY <1>1, <1>5, InputLogs, LogOne
  <2>2. Machine BY <1>5 DEF Input, Operates
  <2>3. MachineTyped' BY <1>1, <1>2, <1>5, <2>2 DEF Input, Operates, MachineTyped
  <2> QED BY <1>2, <2>1, <2>2, <2>3 DEF Typed
<1>6. ASSUME NEW c \in Cpus, NEW key \in Keys \cup {NoKey}, Registry(c, key) PROVE Typed'
  <2>1. StreamTyped' BY <1>1, <1>6, RegistryLogs, LogOne
  <2>2. Machine BY <1>6 DEF Registry, Operates
  <2>3. running[c] \in Tids BY <1>1, <1>6, RunningThread DEF Registry, Operates
  <2>4. named' \in [Tids -> Keys \cup {NoKey}] BY <1>1, <1>6, <2>3 DEF Registry, MachineTyped
  <2>5. MachineTyped' BY <1>1, <1>2, <1>6, <2>2, <2>4 DEF Registry, Operates, MachineTyped
  <2> QED BY <1>2, <2>1, <2>2, <2>5 DEF Typed
<1>7. ASSUME NEW c \in Cpus, NEW p \in Pids, NEW t \in Tids, StartProcess(c, p, t) PROVE Typed'
  <2>1. Machine /\ proc[running[c]] \in Pids BY <1>1, <1>7, RunningThread DEF StartProcess
  <2>2. (follow /\ proc[running[c]] \in family) \in BOOLEAN OBVIOUS
  <2>3. Begins(p, t, proc[running[c]], follow /\ proc[running[c]] \in family)
    BY <1>7 DEF StartProcess
  <2>4. UNCHANGED <<running, usedTids, follow>> BY <1>2, <1>7, <2>1 DEF StartProcess
  <2>5. MachineTyped' /\ StreamTyped' BY <2>1, <2>2, <2>3, <2>4, BeginsTypes
  <2> QED BY <1>2, <2>1, <2>5 DEF Typed
<1>8. ASSUME NEW p \in Pids, NEW t \in Tids, Outsider(p, t) PROVE Typed'
  <2>1. Machine /\ Begins(p, t, NoPid, FALSE) BY <1>8 DEF Outsider
  <2>2. UNCHANGED <<running, usedTids, follow>> BY <1>2, <1>8, <2>1 DEF Outsider
  <2>3. MachineTyped' /\ StreamTyped' BY <2>1, <2>2, BeginsTypes
  <2> QED BY <1>2, <2>1, <2>3 DEF Typed
<1>9. ASSUME NEW c \in Cpus, NEW t \in Tids, StartThread(c, t) PROVE Typed'
  <2>1. StreamTyped' BY <1>1, <1>9, StartThreadLogs, LogOne
  <2>2. Machine /\ proc[running[c]] \in Pids BY <1>1, <1>9, RunningThread DEF StartThread
  <2>3. proc' \in [Tids -> Pids \cup {NoPid}] BY <1>1, <1>9, <2>2 DEF StartThread, MachineTyped
  <2>4. named' \in [Tids -> Keys \cup {NoKey}] BY <1>1, <1>9 DEF StartThread, MachineTyped
  <2>5. MachineTyped' BY <1>1, <1>2, <1>9, <2>2, <2>3, <2>4 DEF StartThread, MachineTyped
  <2> QED BY <1>2, <2>1, <2>2, <2>5 DEF Typed
<1>10. ASSUME NEW p \in Pids, EndProcess(p) PROVE Typed'
  <2>1. StreamTyped' BY <1>1, <1>10, EndProcessLogs, LogOne
  <2>2. Machine BY <1>10 DEF EndProcess
  <2>3. proc' \in [Tids -> Pids \cup {NoPid}] BY <1>1, <1>10 DEF EndProcess, MachineTyped
  <2>4. running' \in [Cpus -> Tids \cup {NoTid}] BY <1>1, <1>10 DEF EndProcess, MachineTyped
  <2>5. usedTids' \subseteq Tids /\ family' \subseteq Pids
    BY <1>1, <1>10 DEF EndProcess, MachineTyped
  <2>6. MachineTyped' BY <1>1, <1>2, <1>10, <2>2, <2>3, <2>4, <2>5 DEF EndProcess, MachineTyped
  <2> QED BY <1>2, <2>1, <2>2, <2>6 DEF Typed
<1> QED BY <1>3, <1>4, <1>5, <1>6, <1>7, <1>8, <1>9, <1>10 DEF MachineNext

LEMMA RunTypes ==
  ASSUME Typed, RunNext
  PROVE  Typed'
<1>1. MachineTyped /\ StreamTyped /\ MapsTyped /\ SinkTyped BY DEF Typed
<1>2. UNCHANGED <<configVars, consumerVars>>
  BY DEF RunNext, CreateTarget, SpawnFails, SetTargetPid, SeedTraced, SeedThread, ResumeTarget,
         WaitSeesExit, TerminateTarget, WaitTerminated, StopSession, Join, EndSink, Idle
<1>3. SinkTyped' BY <1>1, <1>2 DEF SinkTyped, consumerVars
<1>4. CASE CreateTarget
  <2>1. Begins(Target, Main, NoPid, TRUE) /\ UNCHANGED <<running, usedTids, follow, sharedVars>>
    BY <1>2, <1>4 DEF CreateTarget, configVars
  <2>2. MachineTyped' /\ StreamTyped' BY <2>1, BeginsTypes, EtwAssumption
  <2>3. MapsTyped' BY <1>2, <2>1, SameConsumer
  <2> QED BY <1>3, <2>2, <2>3 DEF Typed
<1>5. CASE ~CreateTarget
  <2>1. UNCHANGED <<proc, running, family, named, usedTids, ops, buffer, clock, lost>>
    BY <1>5 DEF RunNext, SpawnFails, SetTargetPid, SeedTraced, SeedThread, ResumeTarget,
         WaitSeesExit, TerminateTarget, WaitTerminated, StopSession, Join, EndSink,
         machineVars, streamVars
  <2>2. MachineTyped' BY <1>1, <1>2, <2>1 DEF MachineTyped, configVars
  <2>3. StreamTyped' BY <1>1, <2>1 DEF StreamTyped
  <2>4. traced' \subseteq Pids
    BY <1>1, <1>5, EtwAssumption DEF RunNext, SpawnFails, SetTargetPid, SeedTraced, SeedThread,
         ResumeTarget, WaitSeesExit, TerminateTarget, WaitTerminated, StopSession, Join, EndSink,
         sharedVars, MapsTyped
  <2>5. threadToPid' \in [Tids -> Pids \cup {NoPid}]
    <3>1. threadToPid' \in {threadToPid, [threadToPid EXCEPT ![Main] = Target]}
      BY <1>5 DEF RunNext, SpawnFails, SetTargetPid, SeedTraced, SeedThread,
         ResumeTarget, WaitSeesExit, TerminateTarget, WaitTerminated, StopSession, Join, EndSink,
         sharedVars
    <3> QED BY <1>1, <3>1, EtwAssumption DEF MapsTyped
  <2>6. targetPid' \in {NoPid, Target}
    BY <1>1, <1>5 DEF RunNext, SpawnFails, SetTargetPid, SeedTraced, SeedThread,
         ResumeTarget, WaitSeesExit, TerminateTarget, WaitTerminated, StopSession, Join, EndSink,
         sharedVars, MapsTyped
  <2>7. MapsTyped' BY <1>1, <1>2, <2>4, <2>5, <2>6 DEF MapsTyped, consumerVars
  <2> QED BY <1>3, <2>2, <2>3, <2>7 DEF Typed
<1> QED BY <1>4, <1>5

LEMMA TypedInit == Init => Typed
<1> SUFFICES ASSUME Init PROVE Typed OBVIOUS
<1>1. CASE /\ proc = [t \in Tids |-> NoPid] /\ running = [c \in Cpus |-> NoTid]
           /\ clock = 0 /\ buffer = << >>
  <2>1. MachineTyped BY <1>1, EtwAssumption DEF Init, MachineTyped
  <2>2. buffer \in Seq(Logged) /\ Len(buffer) = 0 BY <1>1
  <2>3. StreamTyped BY <1>1, <2>2, EtwAssumption DEF Init, StreamTyped
  <2>4. out = << >> BY DEF Init
  <2>5. out \in Seq(Events) BY <2>4
  <2>6. MapsTyped /\ SinkTyped BY <2>5 DEF Init, MapsTyped, SinkTyped
  <2> QED BY <2>1, <2>3, <2>6 DEF Typed
<1>2. ASSUME NEW c \in Cpus, NEW p \in Pids \ {Target}, NEW t \in Tids \ {Main},
             proc = [u \in Tids |-> IF u = t THEN p ELSE NoPid],
             running = [d \in Cpus |-> IF d = c THEN t ELSE NoTid], clock = 1,
             buffer = <<[kind |-> "THREAD_START", pid |-> p, tid |-> t,
                         cpu |-> NoCpu, parent |-> NoPid, key |-> NoKey, owner |-> p,
                         thread |-> t, tree |-> FALSE, named |-> NoKey, fresh |-> TRUE]>>
      PROVE  Typed
  <2>0. proc \in [Tids -> Pids \cup {NoPid}] BY <1>2
  <2>7. running \in [Cpus -> Tids \cup {NoTid}] BY <1>2
  <2>1. MachineTyped BY <2>0, <2>7, EtwAssumption DEF Init, MachineTyped
  <2> DEFINE e == [kind |-> "THREAD_START", pid |-> p, tid |-> t,
                         cpu |-> NoCpu, parent |-> NoPid, key |-> NoKey, owner |-> p,
                         thread |-> t, tree |-> FALSE, named |-> NoKey, fresh |-> TRUE]
  <2>2. e \in Logged BY DEF Logged, Events, Kinds, WellFormed
  <2>3. buffer = <<e>> BY <1>2
  <2> HIDE DEF e
  <2>4. buffer \in Seq(Logged) /\ Len(buffer) = 1 BY <2>2, <2>3
  <2>5. StreamTyped BY <1>2, <2>4, EtwAssumption DEF Init, StreamTyped
  <2>6. out = << >> BY DEF Init
  <2>8. out \in Seq(Events) BY <2>6
  <2>9. MapsTyped /\ SinkTyped BY <2>8 DEF Init, MapsTyped, SinkTyped
  <2> QED BY <2>1, <2>5, <2>9 DEF Typed
<1> QED BY <1>1, <1>2 DEF Init

LEMMA TypedStutters == Typed /\ UNCHANGED vars => Typed'
<1> SUFFICES ASSUME Typed, UNCHANGED vars PROVE Typed' OBVIOUS
<1>1. MachineTyped' BY DEF Typed, MachineTyped, vars, machineVars, configVars
<1>2. StreamTyped' BY DEF Typed, StreamTyped, vars, streamVars
<1>3. MapsTyped' /\ SinkTyped' BY SameConsumer DEF vars
<1> QED BY <1>1, <1>2, <1>3 DEF Typed

LEMMA TypedAlways == Spec => []Typed
<1>1. Typed /\ [Next]_vars => Typed'
  BY ConsumerTypes, MachineTypes, RunTypes, TypedStutters DEF Next
<1> QED BY <1>1, TypedInit, PTL DEF Spec

(* TypeOK: the maps that the consumer and Spawn share and the machine they *)
(* describe keep their types, the session's buffers are never exceeded,    *)
(* losses are events that were logged, and system calls are counted among  *)
(* the events (EtwEngine.cs:27-55).                                        *)
THEOREM TypesKept == Spec => []TypeOK
<1>1. Typed => TypeOK
  <2> SUFFICES ASSUME Typed PROVE TypeOK OBVIOUS
  <2>1. {family, traced, pids} \subseteq SUBSET Pids
    BY DEF Typed, MachineTyped, MapsTyped, SinkTyped
  <2> QED BY <2>1 DEF Typed, MachineTyped, StreamTyped, MapsTyped, SinkTyped, TypeOK
<1> QED BY <1>1, TypedAlways, PTL

(* The machine only logs.                                                  *)
LEMMA MachineLogs ==
  ASSUME Typed, MachineNext
  PROVE  Machine /\ \E events \in Seq(Logged) : Log(events)
<1>1. MachineTyped /\ \A e \in Logged : <<e>> \in Seq(Logged) BY DEF Typed
<1>2. \A e, f \in Logged : <<e, f>> \in Seq(Logged) OBVIOUS
<1>3. ASSUME NEW c \in Cpus, NEW t \in Tids, ContextSwitch(c, t)
      PROVE  Machine /\ \E events \in Seq(Logged) : Log(events)
  BY <1>1, <1>3, ContextSwitchLogs DEF ContextSwitch
<1>4. ASSUME NEW c \in Cpus, SystemCall(c)
      PROVE  Machine /\ \E events \in Seq(Logged) : Log(events)
  BY <1>1, <1>4, SystemCallLogs DEF SystemCall, Operates
<1>5. ASSUME NEW c \in Cpus, NEW kind \in {"IMAGE", "IO"}, NEW known \in BOOLEAN,
             Input(c, kind, known)
      PROVE  Machine /\ \E events \in Seq(Logged) : Log(events)
  BY <1>1, <1>5, InputLogs DEF Input, Operates
<1>6. ASSUME NEW c \in Cpus, NEW key \in Keys \cup {NoKey}, Registry(c, key)
      PROVE  Machine /\ \E events \in Seq(Logged) : Log(events)
  BY <1>1, <1>6, RegistryLogs DEF Registry, Operates
<1>7. ASSUME NEW p \in Pids, NEW t \in Tids, NEW parent \in Pids \cup {NoPid},
             NEW inTree \in BOOLEAN, Begins(p, t, parent, inTree)
      PROVE  \E events \in Seq(Logged) : Log(events)
  BY <1>1, <1>2, <1>7, BeginsLogs
<1>8. ASSUME NEW c \in Cpus, NEW p \in Pids, NEW t \in Tids, StartProcess(c, p, t)
      PROVE  Machine /\ \E events \in Seq(Logged) : Log(events)
  <2> DEFINE parent == proc[running[c]]
             inTree == follow /\ parent \in family
  <2>1. Machine /\ Runs(c) /\ Begins(p, t, parent, inTree) BY <1>8 DEF StartProcess
  <2>2. parent \in Pids \cup {NoPid} /\ inTree \in BOOLEAN
    BY <1>1, <2>1, RunningThread DEF MachineTyped
  <2> HIDE DEF parent, inTree
  <2> QED BY <1>7, <2>1, <2>2
<1>9. ASSUME NEW p \in Pids, NEW t \in Tids, Outsider(p, t)
      PROVE  Machine /\ \E events \in Seq(Logged) : Log(events)
  BY <1>7, <1>9 DEF Outsider
<1>10. ASSUME NEW c \in Cpus, NEW t \in Tids, StartThread(c, t)
       PROVE  Machine /\ \E events \in Seq(Logged) : Log(events)
  BY <1>1, <1>10, StartThreadLogs DEF StartThread
<1>11. ASSUME NEW p \in Pids, EndProcess(p)
       PROVE  Machine /\ \E events \in Seq(Logged) : Log(events)
  BY <1>1, <1>11, EndProcessLogs DEF EndProcess
<1> QED
  BY <1>3, <1>4, <1>5, <1>6, <1>8, <1>9, <1>10, <1>11 DEF MachineNext

(* What was lost stays lost.                                               *)
LEMMA LossesStay ==
  ASSUME Typed, [Next]_vars
  PROVE  lost' = 0 => lost = 0
<1>1. CASE MachineNext BY <1>1, MachineLogs, LogTypes DEF Typed
<1>2. CASE ConsumerNext \/ (RunNext /\ ~CreateTarget) \/ UNCHANGED vars
  BY <1>2 DEF ConsumerNext, OnThreadStart, OnContextSwitch, OnSystemCall, OnProcessStart,
         OnProcessStop, OnImageLoad, OnFileOrNet, OnRegistry, Handles,
         RunNext, SpawnFails, SetTargetPid, SeedTraced, SeedThread,
         ResumeTarget, WaitSeesExit, TerminateTarget, WaitTerminated, StopSession, Join, EndSink,
         vars, streamVars
<1>3. CASE CreateTarget
  <2>1. MachineTyped /\ StreamTyped /\ Begins(Target, Main, NoPid, TRUE)
    BY <1>3 DEF Typed, CreateTarget
  <2> QED BY <2>1, BeginsLogs, LogTwo, EtwAssumption
<1> QED BY <1>1, <1>2, <1>3 DEF Next

(***************************************************************************)
(* The maps that are foreseen.                                             *)
(***************************************************************************)
LEMMA HandledTypes ==
  ASSUME NEW x \in States, NEW e \in Logged, NEW follows \in BOOLEAN
  PROVE  Handled(x, e, follows) \in States
<1>1. e \in Events /\ WellFormed(e) BY DEF Logged
<1>2. e.pid \in Pids \cup {NoPid} /\ e.tid \in Tids \cup {NoTid} BY <1>1 DEF Events
<1>3. x.traced \subseteq Pids /\ x.thread \in [Tids -> Pids \cup {NoPid}]
      /\ x.cpu \in [Cpus -> Tids \cup {NoTid}]
  BY DEF States
<1>4. e.kind \in {"THREAD_START", "PROCESS_START"} => e.pid \in Pids
  BY <1>1 DEF WellFormed, Events
<1> DEFINE tr == IF e.kind = "PROCESS_START" /\ e.parent \in x.traced /\ follows
              THEN x.traced \cup {e.pid}
              ELSE IF e.kind = "PROCESS_STOP" THEN x.traced \ {e.pid} ELSE x.traced
           th == IF e.kind = "THREAD_START" THEN [x.thread EXCEPT ![e.tid] = e.pid] ELSE x.thread
           cp == IF e.kind = "CSWITCH" THEN [x.cpu EXCEPT ![e.cpu] = e.tid] ELSE x.cpu
<1>5. tr \in SUBSET Pids BY <1>3, <1>4
<1>6. th \in [Tids -> Pids \cup {NoPid}] BY <1>2, <1>3
<1>7. cp \in [Cpus -> Tids \cup {NoTid}] BY <1>2, <1>3
<1>8. Handled(x, e, follows) = [traced |-> tr, thread |-> th, cpu |-> cp] BY DEF Handled
<1> HIDE DEF tr, th, cp
<1> QED BY <1>5, <1>6, <1>7, <1>8 DEF States

(* One event more is foreseen.                                             *)
LEMMA Extend ==
  ASSUME NEW follows \in BOOLEAN, NEW b \in Seq(Logged), NEW s \in [1..Len(b) + 1 -> States],
         Foresees(b, s, follows),
         NEW e \in Logged, Judged(s[Len(b) + 1], e, follows)
  PROVE  \E r \in [1..Len(Append(b, e)) + 1 -> States] :
           /\ Foresees(Append(b, e), r, follows)
           /\ r[1] = s[1] /\ r[Len(Append(b, e)) + 1] = Handled(s[Len(b) + 1], e, follows)
<1> DEFINE y == Handled(s[Len(b) + 1], e, follows)
           r == [k \in 1..Len(b) + 2 |-> IF k = Len(b) + 2 THEN y ELSE s[k]]
<1>1. /\ Append(b, e) \in Seq(Logged) /\ Len(Append(b, e)) = Len(b) + 1 /\ Len(b) \in Nat
      /\ Append(b, e)[Len(b) + 1] = e
      /\ \A k \in 1..Len(b) : Append(b, e)[k] = b[k]
  BY OneMore
<1>2. s[Len(b) + 1] \in States BY <1>1
<1>3. y \in States BY <1>2, HandledTypes
<1>4. y = Handled(s[Len(b) + 1], e, follows) OBVIOUS
<1> HIDE DEF y
<1>5. r \in [1..Len(b) + 2 -> States]
  <2>1. \A k \in 1..Len(b) + 2 : (IF k = Len(b) + 2 THEN y ELSE s[k]) \in States
    BY <1>1, <1>3
  <2> QED BY <2>1, Zenon
<1>6. /\ r[Len(b) + 2] = y
      /\ \A k \in 1..Len(b) + 1 : r[k] = s[k]
  BY <1>1
<1> HIDE DEF r
<1>7. \A k \in 1..Len(b) + 1 :
        r[k + 1] = Handled(r[k], Append(b, e)[k], follows) /\ Judged(r[k], Append(b, e)[k], follows)
  <2> SUFFICES ASSUME NEW k \in 1..Len(b) + 1
               PROVE  /\ r[k + 1] = Handled(r[k], Append(b, e)[k], follows)
                      /\ Judged(r[k], Append(b, e)[k], follows)
    OBVIOUS
  <2>1. CASE k = Len(b) + 1
    <3>1. k + 1 = Len(b) + 2 BY <1>1, <2>1
    <3> QED BY <1>1, <1>4, <1>6, <2>1, <3>1
  <2>2. CASE k # Len(b) + 1
    <3>1. k \in 1..Len(b) /\ k + 1 \in 1..Len(b) + 1 BY <1>1, <2>2
    <3> QED BY <1>1, <1>6, <3>1 DEF Foresees
  <2> QED BY <2>1, <2>2
<1>8. 1 \in 1..Len(b) + 1 /\ Len(Append(b, e)) + 1 = Len(b) + 2 BY <1>1
<1>9. Foresees(Append(b, e), r, follows) BY <1>1, <1>5, <1>7, <1>8 DEF Foresees
<1> QED BY <1>4, <1>5, <1>6, <1>8, <1>9

(* The head was handled: what is left was foreseen.                        *)
LEMMA Drop ==
  ASSUME NEW follows \in BOOLEAN, NEW b \in Seq(Logged), b # << >>,
         NEW s \in [1..Len(b) + 1 -> States], Foresees(b, s, follows)
  PROVE  /\ Judged(s[1], Head(b), follows)
         /\ \E r \in [1..Len(Tail(b)) + 1 -> States] :
              /\ Foresees(Tail(b), r, follows)
              /\ r[1] = Handled(s[1], Head(b), follows) /\ r[Len(Tail(b)) + 1] = s[Len(b) + 1]
<1> DEFINE r == [k \in 1..Len(b) |-> s[k + 1]]
<1>1. /\ Head(b) \in Logged /\ Head(b) = b[1] /\ Len(Tail(b)) = Len(b) - 1
      /\ Len(b) \in Nat /\ Len(b) >= 1
      /\ \A k \in 1..Len(b) - 1 : Tail(b)[k] = b[k + 1]
  BY OneLess
<1>2. r \in [1..Len(b) -> States] BY <1>1
<1>3. \A k \in 1..Len(b) : r[k] = s[k + 1] OBVIOUS
<1> HIDE DEF r
<1>4. Len(Tail(b)) + 1 = Len(b) /\ 1 \in 1..Len(b) /\ Len(b) \in 1..Len(b) BY <1>1
<1>5. Judged(s[1], Head(b), follows) /\ s[2] = Handled(s[1], Head(b), follows)
  <2>1. s[1 + 1] = Handled(s[1], b[1], follows) /\ Judged(s[1], b[1], follows) BY <1>4 DEF Foresees
  <2> QED BY <1>1, <2>1
<1>6. \A k \in 1..Len(b) - 1 :
        r[k + 1] = Handled(r[k], Tail(b)[k], follows) /\ Judged(r[k], Tail(b)[k], follows)
  <2> SUFFICES ASSUME NEW k \in 1..Len(b) - 1
               PROVE  /\ r[k + 1] = Handled(r[k], Tail(b)[k], follows)
                      /\ Judged(r[k], Tail(b)[k], follows)
    OBVIOUS
  <2>1. k \in 1..Len(b) /\ k + 1 \in 1..Len(b) BY <1>1
  <2>2. s[(k + 1) + 1] = Handled(s[k + 1], b[k + 1], follows) /\ Judged(s[k + 1], b[k + 1], follows)
    BY <2>1 DEF Foresees
  <2> QED BY <1>1, <1>3, <2>1, <2>2
<1>7. Foresees(Tail(b), r, follows) BY <1>1, <1>2, <1>4, <1>6 DEF Foresees
<1>8. r[1] = s[2] /\ r[Len(b)] = s[Len(b) + 1]
  <2>1. r[1] = s[1 + 1] BY <1>3, <1>4
  <2> QED BY <1>3, <1>4, <2>1
<1> QED BY <1>2, <1>4, <1>5, <1>7, <1>8

(* Two events more are foreseen.                                           *)
LEMMA ExtendTwo ==
  ASSUME NEW follows \in BOOLEAN, NEW b \in Seq(Logged), NEW s \in [1..Len(b) + 1 -> States],
         Foresees(b, s, follows), NEW e \in Logged, NEW f \in Logged,
         NEW y \in States, y = Handled(s[Len(b) + 1], e, follows),
         NEW z \in States, z = Handled(y, f, follows),
         Judged(s[Len(b) + 1], e, follows), Judged(y, f, follows)
  PROVE  \E r \in [1..Len(Append(Append(b, e), f)) + 1 -> States] :
           /\ Foresees(Append(Append(b, e), f), r, follows)
           /\ r[1] = s[1] /\ r[Len(Append(Append(b, e), f)) + 1] = z
<1> DEFINE c == Append(b, e)
<1> SUFFICES \E r \in [1..Len(Append(c, f)) + 1 -> States] :
               /\ Foresees(Append(c, f), r, follows)
               /\ r[1] = s[1] /\ r[Len(Append(c, f)) + 1] = z
  OBVIOUS
<1>1. c \in Seq(Logged) BY OneMore
<1>2. PICK q \in [1..Len(c) + 1 -> States] :
        Foresees(c, q, follows) /\ q[1] = s[1] /\ q[Len(c) + 1] = y
  BY Extend
<1> HIDE DEF c
<1>3. PICK r \in [1..Len(Append(c, f)) + 1 -> States] :
        /\ Foresees(Append(c, f), r, follows)
        /\ r[1] = q[1] /\ r[Len(Append(c, f)) + 1] = z
  <2>1. Judged(q[Len(c) + 1], f, follows) /\ Handled(q[Len(c) + 1], f, follows) = z BY <1>2
  <2>2. PICK p \in [1..Len(Append(c, f)) + 1 -> States] :
          /\ Foresees(Append(c, f), p, follows)
          /\ p[1] = q[1] /\ p[Len(Append(c, f)) + 1] = Handled(q[Len(c) + 1], f, follows)
    BY <1>1, <1>2, <2>1, Extend
  <2> QED BY <2>1, <2>2
<1>4. r[1] = s[1] BY <1>2, <1>3
<1> WITNESS r \in [1..Len(Append(c, f)) + 1 -> States]
<1> QED BY <1>3, <1>4

(* One event is logged.                                                    *)
LEMMA ForeseenOne ==
  ASSUME Typed, Foreseen, follow' = follow, UNCHANGED <<consumerVars, sharedVars>>,
         NEW e \in Logged, Log(<<e>>),
         \A x \in States : Agrees(x) =>
           Judged(x, e, follow) /\ \A y \in States : y = Handled(x, e, follow) => Agrees(y)'
  PROVE  Foreseen'
<1> SUFFICES ASSUME Sees'
             PROVE  \E r \in [1..Len(buffer') + 1 -> States], y \in States :
                      /\ Foresees(buffer', r, follow')
                      /\ r[1] = Maps' /\ r[Len(buffer') + 1] = y /\ Agrees(y)'
  BY DEF Foreseen
<1>1. /\ Sees /\ buffer' = Append(buffer, e) /\ buffer \in Seq(Logged)
      /\ follow \in BOOLEAN /\ Maps' = Maps
  BY LogOne DEF Sees, Typed, StreamTyped, MachineTyped, consumerVars, sharedVars, Maps
<1>2. PICK s \in [1..Len(buffer) + 1 -> States], x \in States :
        /\ Foresees(buffer, s, follow)
        /\ s[1] = Maps /\ s[Len(buffer) + 1] = x /\ Agrees(x)
  BY <1>1 DEF Foreseen
<1>3. PICK y \in States : y = Handled(x, e, follow) BY <1>1, HandledTypes
<1>4. Judged(x, e, follow) /\ Agrees(y)' BY <1>2, <1>3
<1>5. PICK r \in [1..Len(Append(buffer, e)) + 1 -> States] :
        /\ Foresees(Append(buffer, e), r, follow)
        /\ r[1] = s[1] /\ r[Len(Append(buffer, e)) + 1] = y
  BY <1>1, <1>2, <1>3, <1>4, Extend
<1> QED BY <1>1, <1>2, <1>4, <1>5

(* Two events are logged at once.                                          *)
LEMMA ForeseenTwo ==
  ASSUME Typed, Foreseen, follow' = follow, UNCHANGED <<consumerVars, sharedVars>>,
         NEW e \in Logged, NEW f \in Logged, Log(<<e, f>>),
         \A x \in States : Agrees(x) =>
           /\ Judged(x, e, follow)
           /\ \A y \in States : y = Handled(x, e, follow) =>
                /\ Judged(y, f, follow)
                /\ \A z \in States : z = Handled(y, f, follow) => Agrees(z)'
  PROVE  Foreseen'
<1> SUFFICES ASSUME Sees'
             PROVE  \E r \in [1..Len(buffer') + 1 -> States], z \in States :
                      /\ Foresees(buffer', r, follow')
                      /\ r[1] = Maps' /\ r[Len(buffer') + 1] = z /\ Agrees(z)'
  BY DEF Foreseen
<1>1. /\ Sees /\ buffer' = Append(Append(buffer, e), f) /\ buffer \in Seq(Logged)
      /\ follow \in BOOLEAN /\ Maps' = Maps
  BY LogTwo DEF Sees, Typed, StreamTyped, MachineTyped, consumerVars, sharedVars, Maps
<1>2. PICK s \in [1..Len(buffer) + 1 -> States], x \in States :
        /\ Foresees(buffer, s, follow)
        /\ s[1] = Maps /\ s[Len(buffer) + 1] = x /\ Agrees(x)
  BY <1>1 DEF Foreseen
<1>3. PICK y \in States : y = Handled(x, e, follow) BY <1>1, HandledTypes
<1>4. PICK z \in States : z = Handled(y, f, follow) BY <1>1, HandledTypes
<1>5. Judged(x, e, follow) /\ Judged(y, f, follow) /\ Agrees(z)' BY <1>2, <1>3, <1>4
<1> DEFINE b == Append(Append(buffer, e), f)
<1>6. PICK r \in [1..Len(b) + 1 -> States] :
        Foresees(b, r, follow) /\ r[1] = s[1] /\ r[Len(b) + 1] = z
  BY <1>1, <1>2, <1>3, <1>4, <1>5, ExtendTwo
<1>7. buffer' = b /\ follow' = follow BY <1>1
<1> HIDE DEF b
<1>8. r \in [1..Len(buffer') + 1 -> States] /\ Foresees(buffer', r, follow')
  BY <1>6, <1>7
<1>9. r[1] = Maps' /\ r[Len(buffer') + 1] = z BY <1>1, <1>2, <1>6, <1>7
<1> QED BY <1>4, <1>5, <1>8, <1>9

(* An event is handled.                                                    *)
LEMMA ForeseenLess ==
  ASSUME Typed, Foreseen, NEW kind, Handles(kind), UNCHANGED <<proc, running, family, phase>>,
         Sees' => Sees /\ Maps' = Handled(Maps, Head(buffer), follow)
  PROVE  Foreseen'
<1> SUFFICES ASSUME Sees'
             PROVE  \E r \in [1..Len(buffer') + 1 -> States], x \in States :
                      /\ Foresees(buffer', r, follow')
                      /\ r[1] = Maps' /\ r[Len(buffer') + 1] = x /\ Agrees(x)'
  BY DEF Foreseen
<1>1. /\ Sees /\ buffer' = Tail(buffer) /\ buffer \in Seq(Logged) /\ buffer # << >>
      /\ follow \in BOOLEAN /\ follow' = follow
  BY DEF Typed, StreamTyped, MachineTyped, Handles, configVars
<1>2. PICK s \in [1..Len(buffer) + 1 -> States], x \in States :
        /\ Foresees(buffer, s, follow)
        /\ s[1] = Maps /\ s[Len(buffer) + 1] = x /\ Agrees(x)
  BY <1>1 DEF Foreseen
<1>3. Agrees(x)' BY <1>2 DEF Agrees, Seeded
<1>4. PICK r \in [1..Len(Tail(buffer)) + 1 -> States] :
        /\ Foresees(Tail(buffer), r, follow)
        /\ r[1] = Handled(s[1], Head(buffer), follow)
        /\ r[Len(Tail(buffer)) + 1] = s[Len(buffer) + 1]
  BY <1>1, <1>2, Drop
<1> QED BY <1>1, <1>2, <1>3, <1>4

(* The head is judged rightly.                                             *)
LEMMA JudgedNow ==
  ASSUME Typed, Foreseen, Sees, buffer # << >>
  PROVE  Judged(Maps, Head(buffer), follow)
<1>1. buffer \in Seq(Logged) /\ follow \in BOOLEAN
  BY DEF Typed, StreamTyped, MachineTyped
<1>2. PICK s \in [1..Len(buffer) + 1 -> States] : Foresees(buffer, s, follow) /\ s[1] = Maps
  BY DEF Foreseen
<1> QED BY <1>1, <1>2, Drop

(* An event that is handled makes of the maps what was foreseen.           *)
LEMMA HandlerFollows ==
  ASSUME Typed, Foreseen, ConsumerNext
  PROVE  /\ \E kind \in Kinds : Handles(kind)
         /\ Sees' => Sees /\ Maps' = Handled(Maps, Head(buffer), follow)
<1> DEFINE e == Head(buffer)
<1>1. ASSUME NEW kind, Handles(kind)
      PROVE  /\ e.kind = kind /\ buffer # << >> /\ lost' = lost
             /\ consumer = "running" /\ e.pid \in Pids \cup {NoPid} /\ WellFormed(e)
             /\ e.owner \in Pids
  BY <1>1, HandlesTypes DEF Handles, Logged, Events
<1>2. ASSUME NEW kind, Handles(kind) PROVE Sees' => Sees BY <1>1, <1>2 DEF Sees
<1>3. Sees /\ buffer # << >> => Judged(Maps, e, follow) BY JudgedNow
<1>4. Handled(Maps, e, follow) =
        [traced |-> IF e.kind = "PROCESS_START" /\ e.parent \in traced /\ follow
                    THEN traced \cup {e.pid}
                    ELSE IF e.kind = "PROCESS_STOP" THEN traced \ {e.pid} ELSE traced,
         thread |-> IF e.kind = "THREAD_START" THEN [threadToPid EXCEPT ![e.tid] = e.pid]
                                               ELSE threadToPid,
         cpu    |-> IF e.kind = "CSWITCH" THEN [cpuToTid EXCEPT ![e.cpu] = e.tid] ELSE cpuToTid]
  BY DEF Handled, Maps
<1>5. Maps' = [traced |-> traced', thread |-> threadToPid', cpu |-> cpuToTid'] BY DEF Maps
<1> HIDE DEF e
<1>6. CASE OnThreadStart
  <2>1. Handles("THREAD_START") BY <1>6 DEF OnThreadStart
  <2>2. UNCHANGED <<traced, cpuToTid>> /\ threadToPid' = [threadToPid EXCEPT ![e.tid] = e.pid]
    BY <1>6 DEF OnThreadStart, e
  <2>3. e.kind = "THREAD_START" BY <1>1, <2>1
  <2>4. Maps' = Handled(Maps, e, follow) BY <1>4, <1>5, <2>2, <2>3
  <2> QED BY <1>2, <2>1, <2>4 DEF e, Kinds
<1>7. CASE OnContextSwitch
  <2>1. Handles("CSWITCH") BY <1>7 DEF OnContextSwitch
  <2>2. UNCHANGED <<traced, threadToPid>> /\ cpuToTid' = [cpuToTid EXCEPT ![e.cpu] = e.tid]
    BY <1>7 DEF OnContextSwitch, Scheduled, e
  <2>3. e.kind = "CSWITCH" BY <1>1, <2>1
  <2>4. Maps' = Handled(Maps, e, follow) BY <1>4, <1>5, <2>2, <2>3
  <2> QED BY <1>2, <2>1, <2>4 DEF e, Kinds
<1>8. CASE OnSystemCall \/ OnImageLoad \/ OnFileOrNet \/ OnRegistry
  <2>1. PICK kind \in {"SYSCALL", "IMAGE", "IO", "REGISTRY"} : Handles(kind)
    BY <1>8 DEF OnSystemCall, OnImageLoad, OnFileOrNet, OnRegistry
  <2>2. UNCHANGED <<traced, threadToPid, cpuToTid>>
    BY <1>8 DEF OnSystemCall, OnImageLoad, OnFileOrNet, OnRegistry
  <2>3. e.kind = kind BY <1>1, <2>1
  <2>4. Maps' = Handled(Maps, e, follow) BY <1>4, <1>5, <2>1, <2>2, <2>3
  <2> QED BY <1>2, <2>1, <2>4 DEF e, Kinds
<1>9. CASE OnProcessStart
  <2>1. Handles("PROCESS_START") BY <1>9 DEF OnProcessStart
  <2>2. UNCHANGED <<threadToPid, cpuToTid>> BY <1>9 DEF OnProcessStart
  <2>3. /\ e.kind = "PROCESS_START" /\ Sees => Judged(Maps, e, follow)
        /\ e.pid \in Pids
    BY <1>1, <1>3, <2>1 DEF WellFormed
  <2>4. ASSUME Sees
        PROVE  traced' = IF e.parent \in traced /\ follow THEN traced \cup {e.pid} ELSE traced
    <3>1. e.pid = targetPid => e.parent \notin traced
      <4>1. e.pid = targetPid => e.pid = Target BY <2>3, EtwAssumption DEF Typed, MapsTyped
      <4>2. e.pid = Target => e.parent = NoPid BY <1>1, <1>3, <2>1, <2>4 DEF Judged
      <4> QED BY <4>1, <4>2, EtwAssumption DEF Typed, MapsTyped
    <3>2. \/ e.pid = targetPid /\ traced' = traced
          \/ e.parent \in traced /\ follow /\ traced' = traced \cup {e.pid}
          \/ ~(e.parent \in traced /\ follow) /\ traced' = traced
      BY <1>9 DEF OnProcessStart, IsChild, e
    <3> QED BY <3>1, <3>2
  <2>5. Sees => Maps' = Handled(Maps, e, follow)
    <3>1. e.kind = "PROCESS_START" BY <1>1, <2>1
    <3> QED BY <1>4, <1>5, <2>2, <2>4, <3>1
  <2> QED BY <1>2, <2>1, <2>5 DEF e, Kinds
<1>10. CASE OnProcessStop
  <2>1. Handles("PROCESS_STOP") BY <1>10 DEF OnProcessStop
  <2>2. /\ UNCHANGED <<threadToPid, cpuToTid>>
        /\ consumer' = "running" => traced' = traced \ {e.pid}
    BY <1>10 DEF OnProcessStop, Untrace, e
  <2>3. e.kind = "PROCESS_STOP" BY <1>1, <2>1
  <2>4. consumer' = "running" => Maps' = Handled(Maps, e, follow) BY <1>4, <1>5, <2>2, <2>3
  <2> QED BY <1>2, <2>1, <2>4 DEF e, Kinds, Sees
<1> QED BY <1>6, <1>7, <1>8, <1>9, <1>10 DEF ConsumerNext

(* What is reported, and what is passed over, when the head is judged      *)
(* rightly.                                                                *)
LEMMA HandlerReports ==
  ASSUME Typed, Judged(Maps, Head(buffer), follow), ConsumerNext
  PROVE  /\ \A r \in Events : r \in Reports' =>
              \/ r \in Reports
              \/ r.tree /\ r.pid = r.owner /\ (r.kind = "SYSCALL" => r.tid = r.thread)
         /\ \A m \in missed' : m \in missed \/ (m.kind = "PROCESS_START" /\ m.pid = Target)
<1> DEFINE e == Head(buffer)
<1>1. ASSUME NEW kind, Handles(kind)
      PROVE  /\ e \in Logged /\ e.kind = kind
             /\ e.pid \in Pids \cup {NoPid} /\ e.owner \in Pids
             /\ e.tid \in Tids \cup {NoTid} /\ e.key \in Keys \cup {NoKey}
             /\ WellFormed(e)
  BY <1>1, HandlesTypes DEF Logged, Events
<1>2. SinkTyped /\ MapsTyped /\ traced \subseteq Pids BY DEF Typed, MapsTyped
<1>3. /\ Judged(Maps, e, follow)
      /\ Maps.traced = traced /\ Maps.thread = threadToPid /\ Maps.cpu = cpuToTid
  BY DEF Maps
<1>4. Silent => Reports' = Reports /\ missed' = missed BY DEF Silent, Reports
<1>5. ASSUME NEW pid \in Pids \cup {NoPid}, NEW tid \in Tids \cup {NoTid},
             NEW key \in Keys \cup {NoKey}, e \in Logged, EmitIfTraced(e, pid, tid, key),
             pid \in traced => e.tree /\ pid = e.owner,
             pid \notin traced => ~e.tree,
             e.kind = "SYSCALL" /\ pid \in traced => tid = e.thread
      PROVE  /\ \A r \in Events : r \in Reports' =>
              \/ r \in Reports
              \/ r.tree /\ r.pid = r.owner /\ (r.kind = "SYSCALL" => r.tid = r.thread)
             /\ \A m \in missed' : m \in missed \/ (m.kind = "PROCESS_START" /\ m.pid = Target)
  <2>1. /\ \A r \in Events : r \in Reports' =>
              r \in Reports \/ (pid \in traced /\ r = Reported(e, pid, tid, key))
        /\ \A m \in missed' : m \in missed \/ (pid \notin traced /\ m = e /\ e.tree)
    BY <1>2, <1>5, EmitOrNot
  <2> DEFINE q == Reported(e, pid, tid, key)
  <2>2. q.kind = e.kind /\ q.pid = pid /\ q.tid = tid /\ q.owner = e.owner
        /\ q.thread = e.thread /\ q.tree = e.tree
    BY DEF Reported
  <2> HIDE DEF q
  <2>3. pid \in traced => q.tree /\ q.pid = q.owner /\ (q.kind = "SYSCALL" => q.tid = q.thread)
    BY <1>5, <2>2
  <2> QED BY <1>5, <2>1, <2>3 DEF q
<1> HIDE DEF e
<1>6. CASE OnThreadStart \/ OnContextSwitch BY <1>4, <1>6 DEF OnThreadStart, OnContextSwitch
<1>7. CASE OnSystemCall
  <2>1. Handles("SYSCALL") BY <1>7 DEF OnSystemCall
  <2>2. e.kind = "SYSCALL" /\ e.cpu \in Cpus /\ e.thread \in Tids BY <1>1, <2>1 DEF WellFormed
  <2>3. \/ /\ cpuToTid[e.cpu] = e.thread /\ threadToPid[e.thread] = e.owner
           /\ e.owner \in traced <=> e.tree
        \/ cpuToTid[e.cpu] = NoTid /\ ~e.tree
    BY <1>3, <2>2 DEF Judged
  <2>4. PICK tid \in Tids \cup {NoTid}, pid \in Pids \cup {NoPid} :
          /\ EmitIfTraced(e, pid, tid, NoKey)
          /\ tid = cpuToTid[e.cpu] /\ pid = IF tid = NoTid THEN NoPid ELSE threadToPid[tid]
    <3>2. cpuToTid[e.cpu] \in Tids \cup {NoTid} BY <1>2, <2>2 DEF MapsTyped
    <3>3. (IF cpuToTid[e.cpu] = NoTid THEN NoPid ELSE threadToPid[cpuToTid[e.cpu]])
             \in Pids \cup {NoPid}
      BY <1>2, <3>2 DEF MapsTyped
    <3> QED BY <1>7, <3>2, <3>3 DEF OnSystemCall, e
  <2>5. /\ pid \in traced => e.tree /\ pid = e.owner
        /\ pid \notin traced => ~e.tree
        /\ pid \in traced => tid = e.thread
    <3>1. e.thread # NoTid /\ NoPid \notin traced BY <1>2, <2>2, EtwAssumption
    <3> QED BY <2>3, <2>4, <3>1
  <2> QED BY <1>1, <1>5, <2>1, <2>4, <2>5
<1>8. CASE OnProcessStart
  <2>1. Handles("PROCESS_START") BY <1>8 DEF OnProcessStart
  <2>2. e.kind = "PROCESS_START" /\ e.pid \in Pids /\ e.pid = e.owner BY <1>1, <2>1 DEF WellFormed
  <2>3. /\ e.pid = Target => e.tree /\ e.parent = NoPid
        /\ e.pid # Target => (e.tree <=> e.parent \in traced /\ follow)
    BY <1>3, <2>2 DEF Judged
  <2>4. targetPid = e.pid => e.pid = Target BY <1>2, <2>2, EtwAssumption DEF MapsTyped
  <2>5. \/ e.pid = targetPid /\ Emit(e, e.pid, NoTid, NoKey)
        \/ e.parent \in traced /\ follow /\ Emit(e, e.pid, NoTid, NoKey)
        \/ ~(e.parent \in traced /\ follow) /\ Ignore(e)
    BY <1>8 DEF OnProcessStart, IsChild, e
  <2>6. CASE e.tree /\ Emit(e, e.pid, NoTid, NoKey)
    <3>1. /\ missed' = missed
          /\ \A r \in Events : r \in Reports' =>
               r \in Reports \/ r = Reported(e, e.pid, NoTid, NoKey)
      <4>1. e \in Logged /\ NoTid \in Tids \cup {NoTid} /\ NoKey \in Keys \cup {NoKey}
        BY <1>1, <2>1
      <4> QED BY <1>2, <2>2, <2>6, <4>1, EmitReports
    <3> DEFINE q == Reported(e, e.pid, NoTid, NoKey)
    <3>2. q.kind = "PROCESS_START" /\ q.pid = e.pid /\ q.owner = e.owner /\ q.tree = e.tree
      BY <2>2 DEF Reported
    <3> HIDE DEF q
    <3>3. q.tree /\ q.pid = q.owner /\ (q.kind = "SYSCALL" => q.tid = q.thread)
      BY <2>2, <2>6, <3>2
    <3> QED BY <3>1, <3>3 DEF q
  <2>7. CASE ~(e.parent \in traced /\ follow) /\ Ignore(e)
    <3>1. Reports' = Reports BY <2>7 DEF Ignore, Reports
    <3>2. missed' = IF e.tree THEN missed \cup {e} ELSE missed BY <2>7 DEF Ignore
    <3>3. e.tree => e.pid = Target BY <2>3, <2>7
    <3> QED BY <2>2, <3>1, <3>2, <3>3
  <2> QED BY <2>3, <2>4, <2>5, <2>6, <2>7
<1>9. CASE OnProcessStop \/ OnImageLoad
  <2>1. PICK kind \in {"PROCESS_STOP", "IMAGE"} : Handles(kind)
    BY <1>9 DEF OnProcessStop, OnImageLoad
  <2>2. EmitIfTraced(e, e.pid, NoTid, NoKey) BY <1>9 DEF OnProcessStop, OnImageLoad, e
  <2>3. e.kind \in {"PROCESS_STOP", "IMAGE"} /\ e.pid = e.owner BY <1>1, <2>1 DEF WellFormed
  <2>4. e.pid \in traced <=> e.tree BY <1>3, <2>3 DEF Judged
  <2> QED BY <1>1, <1>5, <2>1, <2>2, <2>3, <2>4
<1>10. CASE OnFileOrNet \/ OnRegistry
  <2>1. PICK kind \in {"IO", "REGISTRY"} : Handles(kind) BY <1>10 DEF OnFileOrNet, OnRegistry
  <2>2. e.kind \in {"IO", "REGISTRY"} /\ e.tid \in Tids /\ e.tid = e.thread
    BY <1>1, <2>1 DEF WellFormed
  <2>3. PICK key \in Keys \cup {NoKey} : EmitIfTraced(e, PidFor(e), e.tid, key)
    <3>1. (IF e.key # NoKey THEN e.key ELSE Recall(e.tid)) \in Keys \cup {NoKey}
      BY <1>1, <1>2, <2>1, <2>2 DEF Recall, MapsTyped
    <3> QED BY <1>10, <3>1 DEF OnFileOrNet, OnRegistry, e
  <2>4. PidFor(e) = e.owner
    <3>1. e.kind = "REGISTRY" => e.pid = e.owner BY <1>1, <2>1 DEF WellFormed
    <3>2. e.kind = "IO" => e.pid \in {e.owner, NoPid} BY <1>1, <2>1 DEF WellFormed
    <3>3. e.kind = "IO" => threadToPid[e.tid] = e.owner BY <1>3, <2>2 DEF Judged
    <3>4. e.owner # NoPid BY <1>1, <2>1, EtwAssumption
    <3> QED BY <2>2, <3>1, <3>2, <3>3, <3>4 DEF PidFor
  <2>5. e.owner \in traced <=> e.tree BY <1>3, <2>2 DEF Judged
  <2> QED BY <1>1, <1>5, <2>1, <2>2, <2>3, <2>4, <2>5
<1> QED BY <1>6, <1>7, <1>8, <1>9, <1>10 DEF ConsumerNext

(***************************************************************************)
(* The machine: what it logs is judged rightly, and the maps that are      *)
(* foreseen agree with it afterwards.                                      *)
(***************************************************************************)

(* Before the target is resumed nothing runs that is of its process.       *)
LEMMA OthersRun ==
  ASSUME MachineTyped, Newborn, NEW c \in Cpus, Runs(c), ~Started
  PROVE  proc[running[c]] # Target
<1>1. running[c] \in Tids /\ running[c] # Main BY RunningThread DEF Newborn
<1> QED BY <1>1 DEF Newborn

LEMMA OwnerTraced ==
  ASSUME MachineTyped, Newborn, NEW x \in States, Agrees(x), NEW c \in Cpus, Runs(c)
  PROVE  proc[running[c]] \in x.traced <=> proc[running[c]] \in family
<1>1. ~Seeded => proc[running[c]] # Target BY OthersRun DEF Seeded, Started
<1> QED BY <1>1 DEF Agrees

LEMMA FreeIsNotTheTarget ==
  ASSUME FreshTarget
  PROVE  /\ \A p \in Pids : FreePid(p) => p # Target /\ p \notin Alive
         /\ \A t \in Tids : FreeTid(t) => t # Main /\ proc[t] = NoPid
BY DEF FreePid, FreeTid

(* A process and its first thread appear.                                  *)
LEMMA BeginsAgrees ==
  ASSUME MachineTyped, MachineTyped', Machinery, NEW x \in States, Agrees(x),
         NEW p \in Pids, NEW t \in Tids, NEW parent \in Pids \cup {NoPid},
         NEW inTree \in BOOLEAN, Begins(p, t, parent, inTree),
         UNCHANGED <<running, follow>>, Seeded' = Seeded,
         p \notin Alive, proc[t] = NoPid,
         NEW e \in Logged, e.kind = "PROCESS_START", e.pid = p, e.parent = parent,
         e.tree <=> inTree,
         NEW f \in Logged, f.kind = "THREAD_START", f.pid = p, f.tid = t,
         p = Target => inTree /\ parent = NoPid /\ ~Seeded,
         p # Target => (inTree <=> parent \in x.traced /\ follow)
  PROVE  /\ Judged(x, e, follow)
         /\ \A y \in States : y = Handled(x, e, follow) =>
              /\ Judged(y, f, follow)
              /\ \A z \in States : z = Handled(y, f, follow) => Agrees(z)'
<1>1. Judged(x, e, follow) BY DEF Judged
<1>2. ASSUME NEW y \in States, y = Handled(x, e, follow),
             NEW z \in States, z = Handled(y, f, follow)
      PROVE  Agrees(z)'
  <2>1. /\ y.thread = x.thread /\ y.cpu = x.cpu
        /\ y.traced = IF parent \in x.traced /\ follow THEN x.traced \cup {p} ELSE x.traced
    BY <1>2 DEF Handled
  <2>2. /\ z.traced = y.traced /\ z.cpu = x.cpu /\ z.thread = [x.thread EXCEPT ![t] = p]
    BY <1>2, <2>1 DEF Handled
  <2>3. /\ proc' = [proc EXCEPT ![t] = p]
        /\ family' = IF inTree THEN family \cup {p} ELSE family
    BY DEF Begins
  <2>4. /\ x.traced \subseteq Pids /\ x.thread \in [Tids -> Pids \cup {NoPid}]
        /\ proc \in [Tids -> Pids \cup {NoPid}] /\ running \in [Cpus -> Tids \cup {NoTid}]
    BY DEF States, MachineTyped
  <2>5. \A u \in Tids : proc'[u] # NoPid => z.thread[u] = proc'[u]
    BY <2>2, <2>3, <2>4 DEF Agrees
  <2>6. ASSUME NEW c \in Cpus, running'[c] # NoTid
        PROVE  z.cpu[c] = running'[c] \/ (z.cpu[c] = NoTid /\ proc'[running'[c]] \notin family')
    <3>1. running'[c] = running[c] /\ running[c] \in Tids BY <2>4, <2>6
    <3>2. proc[running[c]] # NoPid /\ running[c] # t BY <2>6, <3>1 DEF Machinery
    <3>3. proc'[running[c]] = proc[running[c]] /\ proc[running[c]] # p
      BY <2>3, <2>4, <3>1, <3>2 DEF Alive
    <3>4. proc[running[c]] \notin family => proc'[running'[c]] \notin family'
      BY <2>3, <3>1, <3>3
    <3> QED BY <2>2, <2>6, <3>1, <3>4 DEF Agrees
  <2>7. z.traced = IF Seeded' THEN family' ELSE family' \ {Target}
    <3>1. x.traced = IF Seeded THEN family ELSE family \ {Target} BY DEF Agrees
    <3>2. CASE p = Target
      <4>1. NoPid \notin x.traced BY <2>4, EtwAssumption
      <4> QED BY <2>1, <2>2, <2>3, <3>1, <3>2, <4>1
    <3>3. CASE p # Target
      <4>1. z.traced = IF inTree THEN x.traced \cup {p} ELSE x.traced BY <2>1, <2>2, <3>3
      <4>2. (family \ {Target}) \cup {p} = (family \cup {p}) \ {Target} BY <3>3
      <4> QED BY <2>3, <3>1, <4>1, <4>2
    <3> QED BY <3>2, <3>3
  <2> QED BY <2>5, <2>6, <2>7 DEF Agrees
<1>3. \A y \in States : Judged(y, f, follow) BY DEF Judged
<1> QED BY <1>1, <1>2, <1>3

LEMMA MachineForeseen ==
  ASSUME FreshTarget, Typed, Typed', Machinery, Newborn, Foreseen, MachineNext
  PROVE  Foreseen'
<1>1. MachineTyped /\ MachineTyped' BY DEF Typed
<1>2. Machine => UNCHANGED <<consumerVars, sharedVars>> /\ follow' = follow /\ phase' = phase
  BY DEF Machine, configVars, runVars
<1>3. ASSUME NEW x \in States, Agrees(x), UNCHANGED <<proc, running, family, phase>>
      PROVE  Agrees(x)'
  BY <1>3 DEF Agrees, Seeded
<1>4. ASSUME NEW c \in Cpus, NEW t \in Tids, ContextSwitch(c, t) PROVE Foreseen'
  <2>1. Machine /\ running' = [running EXCEPT ![c] = t] /\ UNCHANGED <<proc, family>>
    BY <1>4 DEF ContextSwitch
  <2>2. PICK e \in Logged : Log(<<e>>) /\ e.kind = "CSWITCH" /\ e.cpu = c /\ e.tid = t
    BY <1>1, <1>4, ContextSwitchLogs
  <2>3. ASSUME NEW x \in States, Agrees(x), NEW y \in States, y = Handled(x, e, follow)
        PROVE  Agrees(y)'
    <3>1. /\ y.traced = x.traced /\ y.thread = x.thread /\ y.cpu = [x.cpu EXCEPT ![c] = t]
          /\ x.cpu \in [Cpus -> Tids \cup {NoTid}] /\ running \in [Cpus -> Tids \cup {NoTid}]
      BY <1>1, <2>2, <2>3 DEF Handled, States, MachineTyped
    <3>2. \A d \in Cpus : running'[d] # NoTid =>
            y.cpu[d] = running'[d] \/ (y.cpu[d] = NoTid /\ proc'[running'[d]] \notin family')
      BY <2>1, <2>3, <3>1 DEF Agrees
    <3> QED BY <1>2, <2>1, <2>3, <3>1, <3>2 DEF Agrees, Seeded
  <2>4. \A x \in States : Judged(x, e, follow) BY <2>2 DEF Judged
  <2> QED BY <1>2, <2>1, <2>2, <2>3, <2>4, ForeseenOne
<1>5. ASSUME NEW c \in Cpus, Runs(c), Machine, UNCHANGED <<proc, running, family>>,
             NEW e \in Logged, Log(<<e>>), e.kind \in {"SYSCALL", "IMAGE", "IO", "REGISTRY"},
             e.kind = "SYSCALL" => e.cpu = c,
             e.thread = running[c], e.owner = proc[running[c]],
             e.tree = (proc[running[c]] \in family)
      PROVE  Foreseen'
  <2>1. /\ running[c] \in Tids /\ running[c] # NoTid /\ proc[running[c]] \in Pids
        /\ proc[running[c]] # NoPid
    BY <1>1, <1>5, RunningThread, EtwAssumption
  <2>2. ASSUME NEW x \in States, Agrees(x) PROVE Judged(x, e, follow)
    <3>1. proc[running[c]] \in x.traced <=> proc[running[c]] \in family
      BY <1>1, <1>5, <2>2, OwnerTraced
    <3>2. x.thread[running[c]] = proc[running[c]] BY <2>1, <2>2 DEF Agrees
    <3>3. x.cpu[c] = running[c] \/ (x.cpu[c] = NoTid /\ proc[running[c]] \notin family)
      BY <2>1, <2>2 DEF Agrees
    <3>4. e.owner \in x.traced <=> e.tree BY <1>5, <3>1
    <3>5. x.thread[e.thread] = e.owner BY <1>5, <3>2
    <3>6. e.kind = "SYSCALL" => x.cpu[e.cpu] = e.thread \/ (x.cpu[e.cpu] = NoTid /\ ~e.tree)
      BY <1>5, <3>3
    <3> QED BY <1>5, <3>4, <3>5, <3>6 DEF Judged
  <2>3. ASSUME NEW x \in States, Agrees(x), NEW y \in States, y = Handled(x, e, follow)
        PROVE  Agrees(y)'
    <3>1. y.traced = x.traced /\ y.thread = x.thread /\ y.cpu = x.cpu
      BY <1>5, <2>3 DEF Handled
    <3>2. Agrees(x)' BY <1>2, <1>3, <1>5, <2>3
    <3> QED BY <3>1, <3>2 DEF Agrees
  <2> QED BY <1>2, <1>5, <2>2, <2>3, ForeseenOne
<1>6. ASSUME NEW c \in Cpus, SystemCall(c) PROVE Foreseen'
  <2>1. Machine /\ Runs(c) /\ UNCHANGED <<proc, running, family>>
    BY <1>6 DEF SystemCall, Operates
  <2>2. \E e \in Logged :
          /\ Log(<<e>>) /\ e.kind = "SYSCALL" /\ e.cpu = c /\ e.thread = running[c]
          /\ e.owner = proc[running[c]] /\ e.tree = (proc[running[c]] \in family)
    BY <1>1, <1>6, SystemCallFields
  <2> QED BY <1>5, <2>1, <2>2
<1>7. ASSUME NEW c \in Cpus, NEW kind \in {"IMAGE", "IO"}, NEW known \in BOOLEAN,
             Input(c, kind, known)
      PROVE  Foreseen'
  <2>1. Machine /\ Runs(c) /\ UNCHANGED <<proc, running, family>>
    BY <1>7 DEF Input, Operates
  <2>2. \E e \in Logged :
          /\ Log(<<e>>) /\ e.kind = kind /\ e.thread = running[c] /\ e.owner = proc[running[c]]
          /\ e.tree = (proc[running[c]] \in family)
    BY <1>1, <1>7, InputLogs
  <2> QED BY <1>5, <2>1, <2>2
<1>8. ASSUME NEW c \in Cpus, NEW key \in Keys \cup {NoKey}, Registry(c, key) PROVE Foreseen'
  <2>1. Machine /\ Runs(c) /\ UNCHANGED <<proc, running, family>>
    BY <1>8 DEF Registry, Operates
  <2>2. \E e \in Logged :
          /\ Log(<<e>>) /\ e.kind = "REGISTRY" /\ e.thread = running[c]
          /\ e.owner = proc[running[c]] /\ e.tree = (proc[running[c]] \in family)
    BY <1>1, <1>8, RegistryFields
  <2> QED BY <1>5, <2>1, <2>2
<1>9. ASSUME NEW c \in Cpus, NEW p \in Pids, NEW t \in Tids, StartProcess(c, p, t)
      PROVE  Foreseen'
  <2> DEFINE parent == proc[running[c]]
             inTree == follow /\ parent \in family
  <2>1. /\ Machine /\ Runs(c) /\ running' = running /\ FreePid(p) /\ FreeTid(t)
        /\ Begins(p, t, parent, inTree)
    BY <1>9 DEF StartProcess
  <2>2. parent \in Pids /\ parent \in Pids \cup {NoPid} /\ inTree \in BOOLEAN
    BY <1>1, <2>1, RunningThread DEF Typed, MachineTyped
  <2>3. p # Target /\ p \notin Alive /\ proc[t] = NoPid BY <2>1, FreeIsNotTheTarget
  <2>4. PICK e \in Logged, f \in Logged :
          /\ e = Start("PROCESS_START", p, t, parent, inTree)
          /\ f = Start("THREAD_START", p, t, parent, inTree)
    <3> HIDE DEF parent, inTree
    <3> QED BY <1>1, <2>1, <2>2, BeginsLogs
  <2>8. Log(<<e, f>>)
    <3> HIDE DEF parent, inTree
    <3> QED BY <1>1, <2>1, <2>2, <2>4, BeginsLogs
  <2>9. /\ e.kind = "PROCESS_START" /\ e.pid = p /\ e.parent = parent /\ (e.tree <=> inTree)
        /\ f.kind = "THREAD_START" /\ f.pid = p /\ f.tid = t
    <3> HIDE DEF parent, inTree
    <3> QED BY <2>4 DEF Start
  <2>5. \A x \in States : Agrees(x) => (inTree <=> parent \in x.traced /\ follow)
    BY <1>1, <2>1, OwnerTraced
  <2>6. UNCHANGED <<running, follow>> /\ Seeded' = Seeded BY <1>2, <2>1 DEF Seeded
  <2> HIDE DEF parent, inTree
  <2>7. ASSUME NEW x \in States, Agrees(x)
        PROVE  /\ Judged(x, e, follow)
               /\ \A y \in States : y = Handled(x, e, follow) =>
                    /\ Judged(y, f, follow)
                    /\ \A z \in States : z = Handled(y, f, follow) => Agrees(z)'
    BY <1>1, <2>1, <2>2, <2>3, <2>5, <2>6, <2>7, <2>9, BeginsAgrees
  <2> QED BY <1>2, <2>1, <2>7, <2>8, ForeseenTwo
<1>10. ASSUME NEW p \in Pids, NEW t \in Tids, Outsider(p, t) PROVE Foreseen'
  <2>1. /\ Machine /\ running' = running /\ FreePid(p) /\ FreeTid(t)
        /\ Begins(p, t, NoPid, FALSE)
    BY <1>10 DEF Outsider
  <2>2. NoPid \in Pids \cup {NoPid} /\ FALSE \in BOOLEAN OBVIOUS
  <2>3. p # Target /\ p \notin Alive /\ proc[t] = NoPid BY <2>1, FreeIsNotTheTarget
  <2>4. PICK e \in Logged, f \in Logged :
          /\ e = Start("PROCESS_START", p, t, NoPid, FALSE)
          /\ f = Start("THREAD_START", p, t, NoPid, FALSE)
    BY <1>1, <2>1, <2>2, BeginsLogs
  <2>8. Log(<<e, f>>) BY <1>1, <2>1, <2>2, <2>4, BeginsLogs
  <2>9. /\ e.kind = "PROCESS_START" /\ e.pid = p /\ e.parent = NoPid /\ (e.tree <=> FALSE)
        /\ f.kind = "THREAD_START" /\ f.pid = p /\ f.tid = t
    BY <2>4 DEF Start
  <2>5. \A x \in States : NoPid \notin x.traced BY EtwAssumption DEF States
  <2>6. UNCHANGED <<running, follow>> /\ Seeded' = Seeded BY <1>2, <2>1 DEF Seeded
  <2>7. ASSUME NEW x \in States, Agrees(x)
        PROVE  /\ Judged(x, e, follow)
               /\ \A y \in States : y = Handled(x, e, follow) =>
                    /\ Judged(y, f, follow)
                    /\ \A z \in States : z = Handled(y, f, follow) => Agrees(z)'
    BY <1>1, <2>1, <2>2, <2>3, <2>5, <2>6, <2>7, <2>9, BeginsAgrees
  <2> QED BY <1>2, <2>1, <2>7, <2>8, ForeseenTwo
<1>11. ASSUME NEW c \in Cpus, NEW t \in Tids, StartThread(c, t) PROVE Foreseen'
  <2>1. /\ Machine /\ FreeTid(t) /\ proc' = [proc EXCEPT ![t] = proc[running[c]]]
        /\ UNCHANGED <<running, family>>
    BY <1>11 DEF StartThread
  <2>2. PICK e \in Logged : /\ Log(<<e>>) /\ e.kind = "THREAD_START"
                            /\ e.pid = proc[running[c]] /\ e.tid = t
    BY <1>1, <1>11, StartThreadLogs
  <2>3. ASSUME NEW x \in States, Agrees(x), NEW y \in States, y = Handled(x, e, follow)
        PROVE  Agrees(y)'
    <3>1. /\ y.traced = x.traced /\ y.cpu = x.cpu
          /\ y.thread = [x.thread EXCEPT ![t] = proc[running[c]]]
          /\ x.thread \in [Tids -> Pids \cup {NoPid}] /\ proc \in [Tids -> Pids \cup {NoPid}]
          /\ running \in [Cpus -> Tids \cup {NoTid}]
      BY <1>1, <2>2, <2>3 DEF Handled, States, MachineTyped
    <3>2. \A u \in Tids : proc'[u] # NoPid => y.thread[u] = proc'[u]
      BY <2>1, <2>3, <3>1 DEF Agrees
    <3>3. \A d \in Cpus : running[d] # NoTid => running[d] \in Tids /\ running[d] # t
      BY <2>1, <3>1, FreeIsNotTheTarget DEF Machinery
    <3>4. \A d \in Cpus : running'[d] # NoTid =>
            y.cpu[d] = running'[d] \/ (y.cpu[d] = NoTid /\ proc'[running'[d]] \notin family')
      BY <2>1, <2>3, <3>1, <3>3 DEF Agrees
    <3> QED BY <1>2, <2>1, <2>3, <3>1, <3>2, <3>4 DEF Agrees, Seeded
  <2>4. \A x \in States : Judged(x, e, follow) BY <2>2 DEF Judged
  <2> QED BY <1>2, <2>1, <2>2, <2>3, <2>4, ForeseenOne
<1>12. ASSUME NEW p \in Pids, EndProcess(p) PROVE Foreseen'
  <2> DEFINE gone == {t \in Tids : proc[t] = p}
  <2>1. /\ Machine /\ p \in Alive /\ family' = family \ {p}
        /\ proc' = [t \in Tids |-> IF t \in gone THEN NoPid ELSE proc[t]]
        /\ running' = [c \in Cpus |-> IF running[c] \in gone THEN NoTid ELSE running[c]]
    BY <1>12 DEF EndProcess
  <2>2. ~Seeded => p # Target
    BY <1>12 DEF EndProcess, Newborn, Seeded, Started
  <2>3. PICK e \in Logged : /\ Log(<<e>>) /\ e.kind = "PROCESS_STOP" /\ e.pid = p
                            /\ e.owner = p /\ e.tree = (p \in family)
    BY <1>1, <1>12, EndProcessLogs
  <2>4. ASSUME NEW x \in States, Agrees(x) PROVE Judged(x, e, follow)
    <3>1. p \in x.traced <=> p \in family BY <2>2, <2>4 DEF Agrees
    <3> QED BY <2>3, <3>1 DEF Judged
  <2>5. ASSUME NEW x \in States, Agrees(x), NEW y \in States, y = Handled(x, e, follow)
        PROVE  Agrees(y)'
    <3>1. y.traced = x.traced \ {p} /\ y.thread = x.thread /\ y.cpu = x.cpu
      BY <2>3, <2>5 DEF Handled
    <3>2. \A u \in Tids : proc'[u] # NoPid => y.thread[u] = proc'[u]
      BY <2>1, <2>5, <3>1 DEF Agrees
    <3>3. ASSUME NEW d \in Cpus, running'[d] # NoTid
          PROVE  y.cpu[d] = running'[d] \/ (y.cpu[d] = NoTid /\ proc'[running'[d]] \notin family')
      <4>1. running'[d] = running[d] /\ running[d] \notin gone BY <2>1, <3>3
      <4>2. running[d] \in Tids BY <1>1, <3>3, <4>1 DEF MachineTyped
      <4>3. proc'[running'[d]] = proc[running[d]] BY <2>1, <4>1, <4>2
      <4> QED BY <2>1, <2>5, <3>1, <3>3, <4>1, <4>3 DEF Agrees
    <3>4. y.traced = IF Seeded' THEN family' ELSE family' \ {Target}
      <4>1. Seeded' = Seeded BY <1>2, <2>1 DEF Seeded
      <4>2. x.traced = IF Seeded THEN family ELSE family \ {Target} BY <2>5 DEF Agrees
      <4> QED BY <2>1, <3>1, <4>1, <4>2
    <3> QED BY <3>2, <3>3, <3>4 DEF Agrees
  <2> QED BY <1>2, <2>1, <2>3, <2>4, <2>5, ForeseenOne
<1> QED
  BY <1>4, <1>6, <1>7, <1>8, <1>9, <1>10, <1>11, <1>12 DEF MachineNext

(* The threads that run.                                                   *)
LEMMA MachineryKept ==
  ASSUME Typed, Machinery, MachineNext \/ CreateTarget
  PROVE  Machinery'
<1>1. MachineTyped BY DEF Typed
<1>2. ASSUME NEW p \in Pids, NEW t \in Tids, NEW parent, NEW inTree,
             Begins(p, t, parent, inTree), running' = running
      PROVE  Machinery'
  <2>1. proc' = [proc EXCEPT ![t] = p] /\ p # NoPid BY <1>2, EtwAssumption DEF Begins
  <2> QED BY <1>1, <1>2, <2>1 DEF Machinery, MachineTyped
<1>3. ASSUME NEW c \in Cpus, NEW t \in Tids, ContextSwitch(c, t) PROVE Machinery'
  <2>1. running' = [running EXCEPT ![c] = t] /\ proc' = proc /\ proc[t] # NoPid
    BY <1>3 DEF ContextSwitch, CanRun
  <2> QED BY <1>1, <2>1 DEF Machinery, MachineTyped
<1>4. ASSUME UNCHANGED <<proc, running>> PROVE Machinery' BY <1>4 DEF Machinery
<1>5. ASSUME NEW c \in Cpus, NEW t \in Tids, StartThread(c, t) PROVE Machinery'
  <2>1. /\ proc' = [proc EXCEPT ![t] = proc[running[c]]] /\ running' = running
        /\ proc[running[c]] # NoPid
    BY <1>1, <1>5, RunningThread, EtwAssumption DEF StartThread
  <2> QED BY <1>1, <2>1 DEF Machinery, MachineTyped
<1>6. ASSUME NEW p \in Pids, EndProcess(p) PROVE Machinery'
  <2> DEFINE gone == {t \in Tids : proc[t] = p}
  <2>1. /\ proc' = [t \in Tids |-> IF t \in gone THEN NoPid ELSE proc[t]]
        /\ running' = [c \in Cpus |-> IF running[c] \in gone THEN NoTid ELSE running[c]]
    BY <1>6 DEF EndProcess
  <2>2. ASSUME NEW c \in Cpus, running'[c] # NoTid PROVE proc'[running'[c]] # NoPid
    <3>1. running'[c] = running[c] /\ running[c] \notin gone BY <2>1, <2>2
    <3>2. running[c] \in Tids BY <1>1, <2>2, <3>1 DEF MachineTyped
    <3> QED BY <2>1, <2>2, <3>1, <3>2 DEF Machinery
  <2> QED BY <2>2 DEF Machinery
<1>7. CASE CreateTarget BY <1>2, <1>7, EtwAssumption DEF CreateTarget
<1>8. CASE MachineNext
  <2>1. ASSUME NEW c \in Cpus, SystemCall(c) PROVE Machinery'
    BY <1>4, <2>1 DEF SystemCall, Operates
  <2>2. ASSUME NEW c \in Cpus, NEW kind \in {"IMAGE", "IO"}, NEW known \in BOOLEAN,
               Input(c, kind, known)
        PROVE  Machinery'
    BY <1>4, <2>2 DEF Input, Operates
  <2>3. ASSUME NEW c \in Cpus, NEW key \in Keys \cup {NoKey}, Registry(c, key) PROVE Machinery'
    BY <1>4, <2>3 DEF Registry, Operates
  <2>4. ASSUME NEW c \in Cpus, NEW p \in Pids, NEW t \in Tids, StartProcess(c, p, t)
        PROVE  Machinery'
    BY <1>2, <2>4 DEF StartProcess
  <2>5. ASSUME NEW p \in Pids, NEW t \in Tids, Outsider(p, t) PROVE Machinery'
    BY <1>2, <2>5 DEF Outsider
  <2> QED BY <1>3, <1>5, <1>6, <1>8, <2>1, <2>2, <2>3, <2>4, <2>5 DEF MachineNext
<1> QED BY <1>7, <1>8

(* The target is new until it is resumed.                                  *)
LEMMA MachineNewborn ==
  ASSUME FreshTarget, Typed, Newborn, MachineNext
  PROVE  Newborn'
<1>1. MachineTyped BY DEF Typed
<1>2. Machine => phase' = phase /\ targetPid' = targetPid /\ follow' = follow
                 /\ (Started' <=> Started)
  BY DEF Machine, configVars, runVars, sharedVars, Started
<1>3. ASSUME Machine, UNCHANGED <<proc, running, family>> PROVE Newborn'
  BY <1>2, <1>3 DEF Newborn, Alive
<1>4. ASSUME NEW c \in Cpus, NEW t \in Tids, ContextSwitch(c, t) PROVE Newborn'
  <2>1. /\ Machine /\ running' = [running EXCEPT ![c] = t] /\ UNCHANGED <<proc, family>>
        /\ CanRun(t)
    BY <1>4 DEF ContextSwitch
  <2>2. ~Started => t # Main BY <2>1 DEF CanRun, Newborn, Started
  <2>3. ~Started => \A d \in Cpus : running'[d] # Main
    BY <1>1, <2>1, <2>2 DEF Newborn, MachineTyped
  <2>4. Alive' = Alive BY <2>1 DEF Alive
  <2> QED BY <1>2, <2>1, <2>3, <2>4 DEF Newborn
<1>5. ASSUME NEW p \in Pids, NEW t \in Tids, Machine, running' = running,
             proc' = [proc EXCEPT ![t] = p], t # Main, ~Started => p # Target,
             ~Started => family' = family
      PROVE  Newborn'
  <2>1. proc'[Main] = proc[Main] /\ proc'[t] = p
        /\ \A u \in Tids : u # t => proc'[u] = proc[u]
    BY <1>1, <1>5, EtwAssumption DEF MachineTyped
  <2>2. ~Started => \A u \in Tids : proc'[u] = Target => u = Main BY <1>5, <2>1 DEF Newborn
  <2>3. phase = "spawn" => Target \notin Alive'
    <3>1. phase = "spawn" => ~Started BY DEF Started
    <3> QED BY <1>5, <2>1, <3>1 DEF Newborn, Alive
  <2> QED BY <1>2, <1>5, <2>1, <2>2, <2>3 DEF Newborn
<1>6. ASSUME NEW c \in Cpus, NEW p \in Pids, NEW t \in Tids, StartProcess(c, p, t)
      PROVE  Newborn'
  <2>1. /\ Machine /\ Runs(c) /\ running' = running /\ FreePid(p) /\ FreeTid(t)
        /\ proc' = [proc EXCEPT ![t] = p]
        /\ family' = IF follow /\ proc[running[c]] \in family THEN family \cup {p} ELSE family
    BY <1>6 DEF StartProcess, Begins
  <2>2. p # Target /\ t # Main BY <2>1, FreeIsNotTheTarget
  <2>3. ~Started => proc[running[c]] \notin family BY <1>1, <2>1, OthersRun DEF Newborn
  <2> QED BY <1>5, <2>1, <2>2, <2>3
<1>7. ASSUME NEW p \in Pids, NEW t \in Tids, Outsider(p, t) PROVE Newborn'
  <2>1. /\ Machine /\ running' = running /\ FreePid(p) /\ FreeTid(t)
        /\ proc' = [proc EXCEPT ![t] = p] /\ family' = family
    BY <1>7 DEF Outsider, Begins
  <2>2. p # Target /\ t # Main BY <2>1, FreeIsNotTheTarget
  <2> QED BY <1>5, <2>1, <2>2
<1>8. ASSUME NEW c \in Cpus, NEW t \in Tids, StartThread(c, t) PROVE Newborn'
  <2>1. /\ Machine /\ Runs(c) /\ UNCHANGED <<running, family>> /\ FreeTid(t)
        /\ proc' = [proc EXCEPT ![t] = proc[running[c]]]
    BY <1>8 DEF StartThread
  <2>2. proc[running[c]] \in Pids /\ t # Main BY <1>1, <2>1, RunningThread, FreeIsNotTheTarget
  <2>3. ~Started => proc[running[c]] # Target BY <1>1, <2>1, OthersRun
  <2> QED BY <1>5, <2>1, <2>2, <2>3
<1>9. ASSUME NEW p \in Pids, EndProcess(p) PROVE Newborn'
  <2> DEFINE gone == {t \in Tids : proc[t] = p}
  <2>1. /\ Machine /\ p \in Alive /\ family' = family \ {p}
        /\ proc' = [t \in Tids |-> IF t \in gone THEN NoPid ELSE proc[t]]
        /\ running' = [c \in Cpus |-> IF running[c] \in gone THEN NoTid ELSE running[c]]
    BY <1>9 DEF EndProcess
  <2>2. ~Started => p # Target BY <1>9, <2>1 DEF EndProcess, Newborn
  <2>3. \A t \in Tids : proc'[t] \in {proc[t], NoPid} /\ (proc[t] # p => proc'[t] = proc[t])
    BY <2>1
  <2>4. ~Started => proc'[Main] = proc[Main]
    <3>1. ~Started => proc[Main] # p BY <2>2, EtwAssumption DEF Newborn
    <3> QED BY <2>3, <3>1, EtwAssumption
  <2>5. ~Started => family' = family BY <2>1, <2>2 DEF Newborn
  <2>6. \A c \in Cpus : running'[c] \in {running[c], NoTid} BY <2>1
  <2>7. ~Started => \A c \in Cpus : running'[c] # Main BY <2>6, EtwAssumption DEF Newborn
  <2>8. Target \notin Alive => Target \notin Alive' BY <2>3, EtwAssumption DEF Alive
  <2>9. ~Started => \A t \in Tids : proc'[t] = Target => t = Main
    BY <2>3, EtwAssumption DEF Newborn
  <2>10. proc'[Main] \in {NoPid, Target} BY <2>3, EtwAssumption DEF Newborn
  <2>11. phase \in {"spawn", "target", "traced", "thread", "resume"} => ~Started BY DEF Started
  <2> QED BY <1>2, <2>1, <2>4, <2>5, <2>7, <2>8, <2>9, <2>10, <2>11 DEF Newborn
<1>10. ASSUME NEW c \in Cpus, SystemCall(c) PROVE Newborn'
  BY <1>3, <1>10 DEF SystemCall, Operates
<1>11. ASSUME NEW c \in Cpus, NEW kind \in {"IMAGE", "IO"}, NEW known \in BOOLEAN,
             Input(c, kind, known)
      PROVE  Newborn'
  BY <1>3, <1>11 DEF Input, Operates
<1>12. ASSUME NEW c \in Cpus, NEW key \in Keys \cup {NoKey}, Registry(c, key) PROVE Newborn'
  BY <1>3, <1>12 DEF Registry, Operates
<1> QED
  BY <1>4, <1>6, <1>7, <1>8, <1>9, <1>10, <1>11, <1>12 DEF MachineNext

(* What is logged before the target is resumed is not of the target, but   *)
(* for its own start.                                                      *)
LEMMA MachineAnnounced ==
  ASSUME FreshTarget, Typed, Newborn, Announced, MachineNext
  PROVE  Announced'
<1>1. MachineTyped /\ StreamTyped BY DEF Typed
<1>2. Machine => (Started' <=> Started) BY DEF Machine, runVars, Started
<1>3. ASSUME Machine, NEW e \in Logged, Log(<<e>>), ~Started => BornEvent(e),
             e.thread = Main => e.owner = Target
      PROVE  Announced'
  <2>1. \A f \in Logged : f \in Waiting' => f \in Waiting \/ f = e BY <1>1, <1>3, LogOne
  <2> QED BY <1>2, <1>3, <2>1 DEF Announced
<1>4. ASSUME Machine, NEW e \in Logged, NEW f \in Logged, Log(<<e, f>>),
             ~Started => BornEvent(e) /\ BornEvent(f), e.thread # Main, f.thread # Main
      PROVE  Announced'
  <2>1. \A g \in Logged : g \in Waiting' => g \in Waiting \/ g = e \/ g = f
    BY <1>1, <1>4, LogTwo
  <2> QED BY <1>2, <1>4, <2>1 DEF Announced
<1>5. ASSUME NEW t \in Tids, CanRun(t)
      PROVE  /\ ~Started => proc[t] # Target
             /\ t = Main => proc[t] = Target
  BY <1>1, <1>5, EtwAssumption DEF CanRun, Newborn, Started, Alive
<1>6. \A c \in Cpus : Runs(c) => running[c] \in Tids /\ CanRun(running[c])
  BY <1>1 DEF Runs, MachineTyped
<1>7. NoPid # Target /\ NoTid # Main BY EtwAssumption
<1>8. ASSUME NEW c \in Cpus, NEW t \in Tids, ContextSwitch(c, t) PROVE Announced'
  <2>1. Machine /\ CanRun(t) BY <1>8 DEF ContextSwitch
  <2>2. PICK e \in Logged : Log(<<e>>) /\ e.parent = NoPid /\ e.owner = proc[t] /\ e.thread = t
    BY <1>1, <1>8, ContextSwitchLogs
  <2> QED BY <1>3, <1>5, <1>7, <2>1, <2>2 DEF BornEvent
<1>9. ASSUME NEW c \in Cpus, Machine, Runs(c), NEW e \in Logged, Log(<<e>>), e.parent = NoPid,
             e.owner = proc[running[c]], e.thread = running[c]
      PROVE  Announced'
  BY <1>3, <1>5, <1>6, <1>7, <1>9 DEF BornEvent
<1>10. ASSUME NEW c \in Cpus, SystemCall(c) PROVE Announced'
  <2>1. Machine /\ Runs(c) BY <1>10 DEF SystemCall, Operates
  <2>2. \E e \in Logged : /\ Log(<<e>>) /\ e.parent = NoPid
                          /\ e.owner = proc[running[c]] /\ e.thread = running[c]
    BY <1>1, <1>10, SystemCallFields
  <2> QED BY <1>9, <2>1, <2>2
<1>11. ASSUME NEW c \in Cpus, NEW kind \in {"IMAGE", "IO"}, NEW known \in BOOLEAN,
             Input(c, kind, known)
      PROVE  Announced'
  <2>1. Machine /\ Runs(c) BY <1>11 DEF Input, Operates
  <2>2. \E e \in Logged : /\ Log(<<e>>) /\ e.parent = NoPid
                          /\ e.owner = proc[running[c]] /\ e.thread = running[c]
    BY <1>1, <1>11, InputLogs
  <2> QED BY <1>9, <2>1, <2>2
<1>12. ASSUME NEW c \in Cpus, NEW key \in Keys \cup {NoKey}, Registry(c, key) PROVE Announced'
  <2>1. Machine /\ Runs(c) BY <1>12 DEF Registry, Operates
  <2>2. \E e \in Logged : /\ Log(<<e>>) /\ e.parent = NoPid
                          /\ e.owner = proc[running[c]] /\ e.thread = running[c]
    BY <1>1, <1>12, RegistryFields
  <2> QED BY <1>9, <2>1, <2>2
<1>13. ASSUME NEW p \in Pids, NEW t \in Tids, NEW parent \in Pids \cup {NoPid},
              NEW inTree \in BOOLEAN, Begins(p, t, parent, inTree), Machine,
              p # Target, t # Main, ~Started => parent # Target
       PROVE  Announced'
  <2>1. PICK e \in Logged, f \in Logged :
          /\ e = Start("PROCESS_START", p, t, parent, inTree)
          /\ f = Start("THREAD_START", p, t, parent, inTree)
    BY <1>1, <1>13, BeginsLogs
  <2>2. Log(<<e, f>>) BY <1>1, <1>13, <2>1, BeginsLogs
  <2>3. /\ e.parent = parent /\ e.owner = p /\ e.thread = t
        /\ f.parent = parent /\ f.owner = p /\ f.thread = t
    BY <2>1 DEF Start
  <2> QED BY <1>4, <1>13, <2>2, <2>3 DEF BornEvent
<1>14. ASSUME NEW c \in Cpus, NEW p \in Pids, NEW t \in Tids, StartProcess(c, p, t)
       PROVE  Announced'
  <2> DEFINE parent == proc[running[c]]
             inTree == follow /\ parent \in family
  <2>1. /\ Machine /\ Runs(c) /\ FreePid(p) /\ FreeTid(t)
        /\ Begins(p, t, parent, inTree)
    BY <1>14 DEF StartProcess
  <2>2. parent \in Pids \cup {NoPid} /\ inTree \in BOOLEAN
    BY <1>1, <2>1, RunningThread DEF MachineTyped
  <2>3. p # Target /\ t # Main BY <2>1, FreeIsNotTheTarget
  <2>4. ~Started => parent # Target BY <1>5, <1>6, <2>1
  <2> HIDE DEF parent, inTree
  <2> QED BY <1>13, <2>1, <2>2, <2>3, <2>4
<1>15. ASSUME NEW p \in Pids, NEW t \in Tids, Outsider(p, t) PROVE Announced'
  <2>1. Machine /\ FreePid(p) /\ FreeTid(t) /\ Begins(p, t, NoPid, FALSE) BY <1>15 DEF Outsider
  <2>2. p # Target /\ t # Main BY <2>1, FreeIsNotTheTarget
  <2> QED BY <1>7, <1>13, <2>1, <2>2
<1>16. ASSUME NEW c \in Cpus, NEW t \in Tids, StartThread(c, t) PROVE Announced'
  <2>1. Machine /\ Runs(c) /\ FreeTid(t) BY <1>16 DEF StartThread
  <2>2. PICK e \in Logged : /\ Log(<<e>>) /\ e.parent = NoPid
                            /\ e.owner = proc[running[c]] /\ e.thread = t
    BY <1>1, <1>16, StartThreadLogs
  <2>3. t # Main BY <2>1, FreeIsNotTheTarget
  <2>4. ~Started => e.owner # Target BY <1>5, <1>6, <2>1, <2>2
  <2> QED BY <1>3, <1>7, <2>1, <2>2, <2>3, <2>4 DEF BornEvent
<1>17. ASSUME NEW p \in Pids, EndProcess(p) PROVE Announced'
  <2>1. Machine BY <1>17 DEF EndProcess
  <2>2. ~Started => p # Target BY <1>17 DEF EndProcess, Newborn
  <2>3. PICK e \in Logged : Log(<<e>>) /\ e.parent = NoPid /\ e.owner = p /\ e.thread = NoTid
    <3>1. PICK e \in Logged : Log(<<e>>) /\ e =
           [kind |-> "PROCESS_STOP", pid |-> p, tid |-> NoTid, cpu |-> NoCpu, parent |-> NoPid,
            key |-> NoKey, owner |-> p, thread |-> NoTid, tree |-> p \in family,
            named |-> NoKey, fresh |-> NoTid \notin usedTids]
      BY <1>1, <1>17, EndProcessLogs
    <3>2. e.parent = NoPid /\ e.owner = p /\ e.thread = NoTid BY <3>1
    <3> QED BY <3>1, <3>2
  <2> QED BY <1>3, <1>7, <2>1, <2>2, <2>3 DEF BornEvent
<1> QED
  BY <1>8, <1>10, <1>11, <1>12, <1>14, <1>15, <1>16, <1>17 DEF MachineNext

(***************************************************************************)
(* Spawn: the target appears, and the maps are seeded.                     *)
(***************************************************************************)
LEMMA CreateForeseen ==
  ASSUME Typed, Typed', Machinery, Newborn, Announced, Foreseen, CreateTarget
  PROVE  Foreseen' /\ Newborn' /\ Announced'
<1>1. MachineTyped /\ MachineTyped' /\ StreamTyped BY DEF Typed
<1>2. /\ phase = "spawn" /\ phase' = "target" /\ Target \notin Alive /\ proc[Main] = NoPid
      /\ Begins(Target, Main, NoPid, TRUE)
      /\ UNCHANGED <<consumerVars, sharedVars, follow, running>>
  BY DEF CreateTarget, Run, Idle, configVars
<1>3. Target \in Pids /\ Main \in Tids /\ NoPid \notin Pids BY EtwAssumption
<1>4. PICK e \in Logged, f \in Logged :
        /\ e = Start("PROCESS_START", Target, Main, NoPid, TRUE)
        /\ f = Start("THREAD_START", Target, Main, NoPid, TRUE)
  BY <1>1, <1>2, <1>3, BeginsLogs
<1>5. Log(<<e, f>>) BY <1>1, <1>2, <1>3, <1>4, BeginsLogs
<1>6. /\ e.kind = "PROCESS_START" /\ e.pid = Target /\ e.parent = NoPid /\ (e.tree <=> TRUE)
      /\ e.owner = Target /\ e.thread = Main
      /\ f.kind = "THREAD_START" /\ f.pid = Target /\ f.tid = Main /\ f.parent = NoPid
      /\ f.owner = Target /\ f.thread = Main
  BY <1>4 DEF Start
<1>7. ~Seeded /\ ~Seeded' /\ ~Started /\ ~Started' BY <1>2 DEF Seeded, Started
<1>8. ASSUME NEW x \in States, Agrees(x)
      PROVE  /\ Judged(x, e, follow)
             /\ \A y \in States : y = Handled(x, e, follow) =>
                  /\ Judged(y, f, follow)
                  /\ \A z \in States : z = Handled(y, f, follow) => Agrees(z)'
  <2>1. PICK inTree \in BOOLEAN : inTree = TRUE OBVIOUS
  <2>2. PICK parent \in Pids \cup {NoPid} : parent = NoPid OBVIOUS
  <2>3. Begins(Target, Main, parent, inTree) /\ (e.tree <=> inTree) /\ Seeded' = Seeded
    BY <1>2, <1>6, <1>7, <2>1, <2>2 DEF Seeded
  <2>4. UNCHANGED <<running, follow>> BY <1>2
  <2> QED BY <1>1, <1>2, <1>3, <1>6, <1>7, <1>8, <2>1, <2>2, <2>3, <2>4, BeginsAgrees
<1>9. Foreseen' BY <1>2, <1>5, <1>8, ForeseenTwo
<1>10. Announced'
  <2>1. \A g \in Logged : g \in Waiting' => g \in Waiting \/ g = e \/ g = f
    BY <1>1, <1>5, LogTwo
  <2>2. BornEvent(e) /\ BornEvent(f) BY <1>3, <1>6 DEF BornEvent
  <2> QED BY <1>6, <1>7, <2>1, <2>2 DEF Announced
<1>11. Newborn'
  <2>1. proc' = [proc EXCEPT ![Main] = Target] /\ family' = family \cup {Target}
    BY <1>2 DEF Begins
  <2>2. \A t \in Tids : proc'[t] = Target => t = Main BY <1>1, <1>2, <2>1 DEF Alive, MachineTyped
  <2>3. \A c \in Cpus : running'[c] # Main
    BY <1>2, <1>3, EtwAssumption DEF Machinery
  <2>4. proc'[Main] = Target BY <1>1, <1>3, <2>1 DEF MachineTyped
  <2>5. family' = {Target} BY <1>2, <1>7, <2>1 DEF Newborn
  <2> QED BY <1>2, <2>2, <2>3, <2>4, <2>5 DEF Newborn
<1> QED BY <1>9, <1>10, <1>11

\* What a seed makes of the maps.
Tracing(x)   == [traced |-> x.traced \cup {Target}, thread |-> x.thread, cpu |-> x.cpu]
Threading(x) == [traced |-> x.traced, thread |-> [x.thread EXCEPT ![Main] = Target],
                 cpu |-> x.cpu]

LEMMA SeedTypes ==
  ASSUME NEW x \in States
  PROVE  Tracing(x) \in States /\ Threading(x) \in States
<1>1. x.traced \cup {Target} \in SUBSET Pids BY EtwAssumption DEF States
<1>2. [x.thread EXCEPT ![Main] = Target] \in [Tids -> Pids \cup {NoPid}]
  BY EtwAssumption DEF States
<1>3. /\ x.traced \in SUBSET Pids /\ x.thread \in [Tids -> Pids \cup {NoPid}]
      /\ x.cpu \in [Cpus -> Tids \cup {NoTid}]
  BY DEF States
<1> QED BY <1>1, <1>2, <1>3 DEF Tracing, Threading, States

(* The events of a target that was never resumed come to the same before   *)
(* and after its process is added to the traced set.                       *)
LEMMA TracingFirst ==
  ASSUME NEW follows \in BOOLEAN, NEW x \in States, NEW e \in Logged, BornEvent(e),
         Judged(x, e, follows)
  PROVE  /\ Handled(Tracing(x), e, follows) = Tracing(Handled(x, e, follows))
         /\ Judged(Tracing(x), e, follows)
<1>1. /\ Tracing(x).traced = x.traced \cup {Target} /\ Tracing(x).thread = x.thread
      /\ Tracing(x).cpu = x.cpu
  BY DEF Tracing
<1>2. WellFormed(e) BY DEF Logged
<1>3. Judged(Tracing(x), e, follows)
  <2>1. e.parent \in Tracing(x).traced <=> e.parent \in x.traced BY <1>1 DEF BornEvent
  <2>2. e.kind \notin {"PROCESS_START", "THREAD_START"} =>
          (e.owner \in Tracing(x).traced <=> e.owner \in x.traced)
    BY <1>1 DEF BornEvent
  <2> QED BY <1>1, <2>1, <2>2 DEF Judged
<1>4. Handled(Tracing(x), e, follows).traced = Handled(x, e, follows).traced \cup {Target}
  <2>1. CASE e.kind = "PROCESS_START" BY <1>1, <2>1 DEF Handled, BornEvent
  <2>2. CASE e.kind = "PROCESS_STOP"
    <3>1. e.pid # Target BY <1>2, <2>2 DEF WellFormed, BornEvent
    <3>2. Handled(Tracing(x), e, follows).traced = (x.traced \cup {Target}) \ {e.pid}
      BY <1>1, <2>2 DEF Handled
    <3>3. Handled(x, e, follows).traced = x.traced \ {e.pid} BY <2>2 DEF Handled
    <3> QED BY <3>1, <3>2, <3>3
  <2>3. CASE e.kind \notin {"PROCESS_START", "PROCESS_STOP"} BY <1>1, <2>3 DEF Handled
  <2> QED BY <2>1, <2>2, <2>3
<1>5. /\ Handled(Tracing(x), e, follows).thread = Handled(x, e, follows).thread
      /\ Handled(Tracing(x), e, follows).cpu = Handled(x, e, follows).cpu
  BY <1>1 DEF Handled
<1>6. Handled(Tracing(x), e, follows) = [traced |-> Handled(Tracing(x), e, follows).traced,
         thread |-> Handled(Tracing(x), e, follows).thread,
         cpu |-> Handled(Tracing(x), e, follows).cpu]
  BY DEF Handled
<1> QED BY <1>3, <1>4, <1>5, <1>6 DEF Tracing

(* So do the events of its first thread, whose process is no other.        *)
LEMMA ThreadingFirst ==
  ASSUME NEW follows \in BOOLEAN, NEW x \in States, NEW e \in Logged,
         e.thread = Main => e.owner = Target,
         Judged(x, e, follows)
  PROVE  /\ Handled(Threading(x), e, follows) = Threading(Handled(x, e, follows))
         /\ Judged(Threading(x), e, follows)
<1>1. /\ Threading(x).traced = x.traced /\ Threading(x).cpu = x.cpu
      /\ Threading(x).thread = [x.thread EXCEPT ![Main] = Target]
      /\ x.thread \in [Tids -> Pids \cup {NoPid}]
  BY DEF Threading, States
<1>2. WellFormed(e) BY DEF Logged
<1>3. Judged(Threading(x), e, follows)
  <2>1. ASSUME e.kind \in {"SYSCALL", "IO"}, x.thread[e.thread] = e.owner
        PROVE  Threading(x).thread[e.thread] = e.owner
    <3>1. e.thread \in Tids BY <1>2, <2>1 DEF WellFormed
    <3> QED BY <1>1, <2>1, <3>1
  <2> QED BY <1>1, <2>1 DEF Judged
<1>4. /\ Handled(Threading(x), e, follows).traced = Handled(x, e, follows).traced
      /\ Handled(Threading(x), e, follows).cpu = Handled(x, e, follows).cpu
  BY <1>1 DEF Handled
<1>5. Handled(Threading(x), e, follows).thread
        = [Handled(x, e, follows).thread EXCEPT ![Main] = Target]
  <2>1. CASE e.kind = "THREAD_START"
    <3>1. e.tid \in Tids /\ (e.tid = Main => e.pid = Target) BY <1>2, <2>1 DEF WellFormed
    <3>2. Handled(Threading(x), e, follows).thread
            = [[x.thread EXCEPT ![Main] = Target] EXCEPT ![e.tid] = e.pid]
      BY <1>1, <2>1 DEF Handled
    <3>3. Handled(x, e, follows).thread = [x.thread EXCEPT ![e.tid] = e.pid]
      BY <2>1 DEF Handled
    <3>4. [[x.thread EXCEPT ![Main] = Target] EXCEPT ![e.tid] = e.pid]
            = [[x.thread EXCEPT ![e.tid] = e.pid] EXCEPT ![Main] = Target]
      BY <1>1, <3>1
    <3> QED BY <3>2, <3>3, <3>4
  <2>2. CASE e.kind # "THREAD_START" BY <1>1, <2>2 DEF Handled
  <2> QED BY <2>1, <2>2
<1>6. Handled(Threading(x), e, follows) = [traced |-> Handled(Threading(x), e, follows).traced,
         thread |-> Handled(Threading(x), e, follows).thread,
         cpu |-> Handled(Threading(x), e, follows).cpu]
  BY DEF Handled
<1> QED BY <1>3, <1>4, <1>5, <1>6 DEF Threading

(* A seed changes what is foreseen all along the buffer.                   *)
LEMMA SeedForeseen ==
  ASSUME Typed, Typed', Machinery, Newborn, Announced, Foreseen, SeedTraced \/ SeedThread
  PROVE  Foreseen' /\ Newborn' /\ Announced'
<1>1. /\ UNCHANGED <<consumerVars, configVars, machineVars, streamVars>>
      /\ phase \in {"traced", "thread"} /\ phase' \in {"thread", "resume"} /\ targetPid' = targetPid
  BY DEF SeedTraced, SeedThread, Idle, Run
<1>2. /\ UNCHANGED <<proc, running, family, buffer, follow, cpuToTid, consumer, lost>>
      /\ Waiting' = Waiting /\ Alive' = Alive
  BY <1>1 DEF consumerVars, configVars, machineVars, streamVars, Waiting, Alive
<1>3. ~Started /\ ~Started' BY <1>1 DEF Started
<1>4. Newborn' BY <1>1, <1>2, <1>3 DEF Newborn
<1>5. Announced' BY <1>2, <1>3 DEF Announced
<1>6. proc[Main] = Target /\ family = {Target} /\ Main \in Tids
  BY <1>1, <1>3, EtwAssumption DEF Newborn
<1>7. Foreseen'
  <2> SUFFICES ASSUME Sees'
               PROVE  \E r \in [1..Len(buffer') + 1 -> States], y \in States :
                        /\ Foresees(buffer', r, follow')
                        /\ r[1] = Maps' /\ r[Len(buffer') + 1] = y /\ Agrees(y)'
    BY DEF Foreseen
  <2>1. PICK s \in [1..Len(buffer) + 1 -> States], x \in States :
          /\ Foresees(buffer, s, follow)
          /\ s[1] = Maps /\ s[Len(buffer) + 1] = x /\ Agrees(x)
    BY <1>2 DEF Foreseen, Sees
  <2>2. /\ buffer \in Seq(Logged) /\ Len(buffer) \in Nat /\ follow \in BOOLEAN
        /\ \A k \in 1..Len(buffer) : buffer[k] \in Logged /\ buffer[k] \in Waiting
    BY DEF Typed, StreamTyped, MachineTyped, Waiting
  <2>3. \A k \in 1..Len(buffer) :
          BornEvent(buffer[k]) /\ (buffer[k].thread = Main => buffer[k].owner = Target)
    BY <1>3, <2>2 DEF Announced
  <2>4. /\ \A k \in 1..Len(buffer) + 1 : s[k] \in States
        /\ 1 \in 1..Len(buffer) + 1 /\ Len(buffer) + 1 \in 1..Len(buffer) + 1
        /\ \A k \in 1..Len(buffer) : k \in 1..Len(buffer) + 1 /\ k + 1 \in 1..Len(buffer) + 1
    BY <2>2
  <2>5. CASE SeedTraced
    <3> DEFINE r == [k \in 1..Len(buffer) + 1 |-> Tracing(s[k])]
    <3>1. r \in [1..Len(buffer) + 1 -> States] BY <2>4, SeedTypes
    <3>2. \A k \in 1..Len(buffer) : r[k + 1] = Handled(r[k], buffer[k], follow)
                                  /\ Judged(r[k], buffer[k], follow)
      <4> SUFFICES ASSUME NEW k \in 1..Len(buffer)
                   PROVE  r[k + 1] = Handled(r[k], buffer[k], follow)
                          /\ Judged(r[k], buffer[k], follow)
        OBVIOUS
      <4>1. s[k + 1] = Handled(s[k], buffer[k], follow) /\ Judged(s[k], buffer[k], follow)
        BY <2>1 DEF Foresees
      <4>2. r[k] = Tracing(s[k]) /\ r[k + 1] = Tracing(s[k + 1]) BY <2>4
      <4>3. buffer[k] \in Logged /\ BornEvent(buffer[k]) /\ s[k] \in States BY <2>2, <2>3, <2>4
      <4> HIDE DEF r
      <4> QED BY <2>2, <4>1, <4>2, <4>3, TracingFirst
    <3>3. r[1] = Tracing(Maps) /\ r[Len(buffer) + 1] = Tracing(x) BY <2>1, <2>4
    <3> HIDE DEF r
    <3>4. Foresees(buffer, r, follow) BY <3>1, <3>2 DEF Foresees
    <3>5. Maps' = Tracing(Maps)
      BY <1>2, <2>5 DEF Maps, Tracing, SeedTraced
    <3>6. PICK y \in States : y = Tracing(x) BY SeedTypes
    <3>7. Agrees(y)'
      <4>1. y.traced = x.traced \cup {Target} /\ y.thread = x.thread /\ y.cpu = x.cpu
        BY <3>6 DEF Tracing
      <4>2. Seeded' /\ ~Seeded BY <2>5 DEF SeedTraced, Run, Seeded
      <4>3. y.traced = family' BY <1>2, <1>6, <2>1, <4>1, <4>2 DEF Agrees
      <4> QED BY <1>2, <2>1, <4>1, <4>2, <4>3 DEF Agrees
    <3> QED BY <1>2, <3>1, <3>3, <3>4, <3>5, <3>6, <3>7
  <2>6. CASE SeedThread
    <3> DEFINE r == [k \in 1..Len(buffer) + 1 |-> Threading(s[k])]
    <3>1. r \in [1..Len(buffer) + 1 -> States] BY <2>4, SeedTypes
    <3>2. \A k \in 1..Len(buffer) : r[k + 1] = Handled(r[k], buffer[k], follow)
                                  /\ Judged(r[k], buffer[k], follow)
      <4> SUFFICES ASSUME NEW k \in 1..Len(buffer)
                   PROVE  r[k + 1] = Handled(r[k], buffer[k], follow)
                          /\ Judged(r[k], buffer[k], follow)
        OBVIOUS
      <4>1. s[k + 1] = Handled(s[k], buffer[k], follow) /\ Judged(s[k], buffer[k], follow)
        BY <2>1 DEF Foresees
      <4>2. r[k] = Threading(s[k]) /\ r[k + 1] = Threading(s[k + 1]) BY <2>4
      <4>3. /\ buffer[k] \in Logged /\ s[k] \in States
            /\ buffer[k].thread = Main => buffer[k].owner = Target
        BY <2>2, <2>3, <2>4
      <4> HIDE DEF r
      <4> QED BY <2>2, <4>1, <4>2, <4>3, ThreadingFirst
    <3>3. r[1] = Threading(Maps) /\ r[Len(buffer) + 1] = Threading(x) BY <2>1, <2>4
    <3> HIDE DEF r
    <3>4. Foresees(buffer, r, follow) BY <3>1, <3>2 DEF Foresees
    <3>5. Maps' = Threading(Maps)
      BY <1>2, <2>6 DEF Maps, Threading, SeedThread
    <3>6. PICK y \in States : y = Threading(x) BY SeedTypes
    <3>7. Agrees(y)'
      <4>1. /\ y.traced = x.traced /\ y.thread = [x.thread EXCEPT ![Main] = Target]
            /\ y.cpu = x.cpu /\ x.thread \in [Tids -> Pids \cup {NoPid}]
        BY <3>6 DEF Threading, States
      <4>2. Seeded' = Seeded BY <2>6 DEF SeedThread, Run, Seeded
      <4>3. \A t \in Tids : proc'[t] # NoPid => y.thread[t] = proc'[t]
        BY <1>2, <1>6, <2>1, <4>1 DEF Agrees
      <4> QED BY <1>2, <2>1, <4>1, <4>2, <4>3 DEF Agrees
    <3> QED BY <1>2, <3>1, <3>3, <3>4, <3>5, <3>6, <3>7
  <2> QED BY <2>5, <2>6
<1> QED BY <1>4, <1>5, <1>7

(***************************************************************************)
(* All together: the target's ids are new, and nothing was lost.           *)
(***************************************************************************)
Foresight == Machinery /\ Newborn /\ Announced /\ Foreseen

LEMMA RunForesight ==
  ASSUME Typed, Foresight, RunNext, ~CreateTarget, ~SeedTraced, ~SeedThread
  PROVE  Foresight'
<1>1. /\ UNCHANGED <<proc, running, family, buffer, lost, consumerVars, configVars>>
      /\ UNCHANGED <<traced, threadToPid>>
  BY DEF RunNext, SpawnFails, SetTargetPid, ResumeTarget, WaitSeesExit, TerminateTarget,
         WaitTerminated, StopSession, Join, EndSink, Idle, machineVars, streamVars, sharedVars
<1>2. /\ phase' # "spawn"
      /\ phase' \in {"target", "traced", "thread", "resume"} =>
           phase \in {"target", "traced", "thread", "resume"} /\ (Seeded' <=> Seeded)
      /\ phase = "spawn" => phase' = "failed"
      /\ phase # "spawn" => (Seeded' <=> Seeded)
  BY DEF RunNext, SpawnFails, SetTargetPid, ResumeTarget, WaitSeesExit, TerminateTarget,
         WaitTerminated, StopSession, Join, EndSink, Run, Seeded
<1>3. ~Started' => ~Started /\ phase # "spawn" BY <1>2 DEF Started
<1>4. Machinery' BY <1>1 DEF Foresight, Machinery
<1>5. Newborn' BY <1>1, <1>2, <1>3 DEF Foresight, Newborn
<1>6. Announced'
  <2>1. Waiting' = Waiting BY <1>1 DEF Waiting
  <2> QED BY <1>3, <2>1 DEF Foresight, Announced
<1>7. Foreseen'
  <2>1. Maps' = Maps /\ follow' = follow /\ (Sees' => Sees)
    BY <1>1 DEF Maps, Sees, consumerVars, configVars
  <2>2. ASSUME NEW x \in States, Agrees(x) PROVE Agrees(x)'
    <3>1. x.traced = IF Seeded' THEN family' ELSE family' \ {Target}
      <4>1. CASE phase = "spawn"
        <5>1. family = {} BY <4>1 DEF Foresight, Newborn, Started
        <5> QED BY <1>1, <2>2, <5>1 DEF Agrees
      <4>2. CASE phase # "spawn" BY <1>1, <1>2, <2>2, <4>2 DEF Agrees
      <4> QED BY <4>1, <4>2
    <3> QED BY <1>1, <2>2, <3>1 DEF Agrees
  <2> SUFFICES ASSUME Sees'
               PROVE  \E r \in [1..Len(buffer') + 1 -> States], y \in States :
                        /\ Foresees(buffer', r, follow')
                        /\ r[1] = Maps' /\ r[Len(buffer') + 1] = y /\ Agrees(y)'
    BY DEF Foreseen
  <2>3. PICK s \in [1..Len(buffer) + 1 -> States], x \in States :
          /\ Foresees(buffer, s, follow)
          /\ s[1] = Maps /\ s[Len(buffer) + 1] = x /\ Agrees(x)
    BY <2>1 DEF Foresight, Foreseen
  <2> QED BY <1>1, <2>1, <2>2, <2>3
<1> QED BY <1>4, <1>5, <1>6, <1>7 DEF Foresight

LEMMA ConsumerForesight ==
  ASSUME Typed, Foresight, ConsumerNext
  PROVE  Foresight'
<1>1. PICK kind \in Kinds : Handles(kind) BY HandlerFollows DEF Foresight
<1>2. /\ UNCHANGED <<proc, running, family, phase, targetPid>>
      /\ buffer' = Tail(buffer) /\ buffer # << >>
  BY <1>1 DEF Handles, machineVars, runVars
<1>3. Foreseen' BY <1>1, <1>2, HandlerFollows, ForeseenLess DEF Foresight
<1>4. Machinery' /\ Newborn' BY <1>2 DEF Foresight, Machinery, Newborn, Alive, Started
<1>5. Announced'
  <2>1. buffer \in Seq(Logged) BY DEF Typed, StreamTyped
  <2>2. \A k \in DOMAIN buffer' : k + 1 \in DOMAIN buffer /\ buffer'[k] = buffer[k + 1]
    BY <1>2, <2>1, OneLess
  <2>3. \A e \in Logged : e \in Waiting' => e \in Waiting BY <2>2 DEF Waiting
  <2>4. Started' <=> Started BY <1>2 DEF Started
  <2> QED BY <2>3, <2>4 DEF Foresight, Announced
<1> QED BY <1>3, <1>4, <1>5 DEF Foresight

LEMMA ForesightInit == Init => Foresight
<1> SUFFICES ASSUME Init PROVE Foresight OBVIOUS
<1>1. Typed /\ Maps \in States
  <2>1. Typed BY TypedInit
  <2> QED BY <2>1 DEF Typed, MapsTyped, Maps, States
<1>2. /\ traced = {} /\ threadToPid = [t \in Tids |-> NoPid] /\ cpuToTid = [c \in Cpus |-> NoTid]
      /\ phase = "spawn" /\ family = {} /\ targetPid = NoPid /\ follow \in BOOLEAN
  BY <1>1 DEF Init, Typed, MachineTyped
<1>3. ~Seeded BY <1>2 DEF Seeded
<1>4. ASSUME buffer = << >>, Agrees(Maps) PROVE Foreseen
  <2> DEFINE s == [k \in 1..1 |-> Maps]
  <2>1. s \in [1..1 -> States] /\ s[1] = Maps BY <1>1
  <2> HIDE DEF s
  <2>2. Len(buffer) = 0 BY <1>4
  <2>3. Foresees(buffer, s, follow) BY <2>1, <2>2 DEF Foresees
  <2> QED BY <1>1, <1>4, <2>1, <2>2, <2>3 DEF Foreseen
<1>5. CASE /\ proc = [t \in Tids |-> NoPid] /\ running = [c \in Cpus |-> NoTid]
           /\ buffer = << >>
  <2>1. Agrees(Maps) BY <1>2, <1>3, <1>5 DEF Agrees, Maps
  <2>2. Machinery BY <1>5 DEF Machinery
  <2>3. Newborn BY <1>2, <1>5, EtwAssumption DEF Newborn, Alive
  <2>4. Announced BY <1>5 DEF Announced, Waiting
  <2> QED BY <1>4, <1>5, <2>1, <2>2, <2>3, <2>4 DEF Foresight
<1>6. ASSUME NEW c \in Cpus, NEW p \in Pids \ {Target}, NEW t \in Tids \ {Main},
             proc = [u \in Tids |-> IF u = t THEN p ELSE NoPid],
             running = [d \in Cpus |-> IF d = c THEN t ELSE NoTid],
             buffer = <<[kind |-> "THREAD_START", pid |-> p, tid |-> t,
                         cpu |-> NoCpu, parent |-> NoPid, key |-> NoKey, owner |-> p,
                         thread |-> t, tree |-> FALSE, named |-> NoKey, fresh |-> TRUE]>>
      PROVE  Foresight
  <2> DEFINE e == [kind |-> "THREAD_START", pid |-> p, tid |-> t,
                         cpu |-> NoCpu, parent |-> NoPid, key |-> NoKey, owner |-> p,
                         thread |-> t, tree |-> FALSE, named |-> NoKey, fresh |-> TRUE]
  <2>1. e \in Logged BY DEF Logged, Events, Kinds, WellFormed
  <2>2. /\ e.kind = "THREAD_START" /\ e.pid = p /\ e.tid = t /\ e.parent = NoPid /\ e.owner = p
        /\ e.thread = t
    OBVIOUS
  <2>3. buffer = <<e>> BY <1>6
  <2> HIDE DEF e
  <2>4. /\ \A u \in Tids : proc[u] = IF u = t THEN p ELSE NoPid
        /\ \A d \in Cpus : running[d] = IF d = c THEN t ELSE NoTid
    BY <1>6
  <2>5. Machinery BY <2>4, EtwAssumption DEF Machinery
  <2>6. Newborn BY <1>2, <2>4, EtwAssumption DEF Newborn, Alive
  <2>7. Announced
    <3>1. \A f \in Waiting : f = e BY <2>3 DEF Waiting
    <3> QED BY <2>2, <3>1, EtwAssumption DEF Announced, BornEvent
  <2>8. PICK y \in States : y = Handled(Maps, e, follow) BY <1>1, <1>2, <2>1, HandledTypes
  <2>9. Agrees(y)
    <3>1. /\ y.traced = {} /\ y.cpu = cpuToTid
          /\ y.thread = [threadToPid EXCEPT ![t] = p]
      BY <1>2, <2>2, <2>8 DEF Handled, Maps
    <3>2. \A u \in Tids : proc[u] # NoPid => y.thread[u] = proc[u] BY <1>2, <2>4, <3>1
    <3> QED BY <1>2, <1>3, <2>4, <3>1, <3>2 DEF Agrees
  <2>10. Foreseen
    <3> DEFINE s == [k \in 1..2 |-> IF k = 1 THEN Maps ELSE y]
    <3>1. \A k \in 1..2 : (IF k = 1 THEN Maps ELSE y) \in States BY <1>1
    <3>2. s \in [1..2 -> States] BY <3>1, Zenon
    <3>3. s[1] = Maps /\ s[2] = y OBVIOUS
    <3> HIDE DEF s
    <3>4. Len(buffer) = 1 /\ buffer[1] = e BY <2>3
    <3>5. Judged(Maps, e, follow) BY <2>2 DEF Judged
    <3>6. Foresees(buffer, s, follow) BY <2>8, <3>2, <3>3, <3>4, <3>5 DEF Foresees
    <3> QED BY <2>8, <2>9, <3>2, <3>3, <3>4, <3>6 DEF Foreseen
  <2> QED BY <2>5, <2>6, <2>7, <2>10 DEF Foresight
<1> QED BY <1>5, <1>6 DEF Init

LEMMA ForesightNext ==
  ASSUME FreshTarget, Typed, Typed', Foresight, [Next]_vars
  PROVE  Foresight'
<1>1. CASE MachineNext
  BY <1>1, MachineryKept, MachineNewborn, MachineAnnounced, MachineForeseen DEF Foresight
<1>2. CASE ConsumerNext BY <1>2, ConsumerForesight
<1>3. CASE RunNext
  <2>1. CASE CreateTarget BY <2>1, MachineryKept, CreateForeseen DEF Foresight
  <2>2. CASE SeedTraced \/ SeedThread
    <3>1. Machinery'
      BY <2>2 DEF Foresight, Machinery, SeedTraced, SeedThread, machineVars
    <3> QED BY <2>2, <3>1, SeedForeseen DEF Foresight
  <2>3. CASE ~CreateTarget /\ ~SeedTraced /\ ~SeedThread BY <1>3, <2>3, RunForesight
  <2> QED BY <2>1, <2>2, <2>3
<1>4. CASE UNCHANGED vars
  <2>1. UNCHANGED <<proc, running, family, buffer, lost, consumer, follow, phase, targetPid,
                    traced, threadToPid, cpuToTid>>
    BY <1>4 DEF vars, machineVars, streamVars, consumerVars, configVars, runVars, sharedVars
  <2>2. Machinery' /\ Newborn' /\ Announced'
    BY <2>1 DEF Foresight, Machinery, Newborn, Announced, Alive, Started, Waiting
  <2>3. Foreseen' BY <2>1 DEF Foresight, Foreseen, Sees, Maps, Agrees, Seeded
  <2> QED BY <2>2, <2>3 DEF Foresight
<1> QED BY <1>1, <1>2, <1>3, <1>4 DEF Next

LEMMA ForesightAlways ==
  ASSUME FreshTarget
  PROVE  Spec => [](Typed /\ Foresight)
<1>1. Init => Typed /\ Foresight BY TypedInit, ForesightInit
<1>2. Typed /\ [Next]_vars => Typed'
  BY ConsumerTypes, MachineTypes, RunTypes, TypedStutters DEF Next
<1>3. Typed /\ Foresight /\ [Next]_vars => Typed' /\ Foresight'
  BY <1>2, ForesightNext
<1> QED BY <1>1, <1>3, PTL DEF Spec

(* What was reported, and what was passed over.                            *)
Faithful ==
  lost = 0 =>
    /\ \A e \in Events : e \in Reports =>
         e.tree /\ e.pid = e.owner /\ (e.kind = "SYSCALL" => e.tid = e.thread)
    /\ \A e \in missed : e.kind = "PROCESS_START" /\ e.pid = Target

LEMMA FaithfulNext ==
  ASSUME Typed, Typed', Foresight, Faithful, [Next]_vars
  PROVE  Faithful'
<1>1. CASE ConsumerNext
  <2>1. PICK kind \in Kinds : Handles(kind) BY <1>1, HandlerFollows DEF Foresight
  <2>2. lost' = lost /\ consumer = "running" /\ buffer # << >> BY <2>1 DEF Handles
  <2>3. lost = 0 => Judged(Maps, Head(buffer), follow) BY <2>2, JudgedNow DEF Foresight, Sees
  <2> QED BY <1>1, <2>2, <2>3, HandlerReports DEF Faithful
<1>2. CASE MachineNext
  <2>1. Machine /\ \E events \in Seq(Logged) : Log(events) BY <1>2, MachineLogs
  <2>2. lost' = 0 => lost = 0 BY LossesStay
  <2>3. Reports' = Reports /\ missed' = missed BY <2>1 DEF Machine, consumerVars, Reports
  <2> QED BY <2>2, <2>3 DEF Faithful
<1>3. CASE RunNext
  <2>1. UNCHANGED consumerVars
    BY <1>3 DEF RunNext, CreateTarget, SpawnFails, SetTargetPid, SeedTraced, SeedThread,
         ResumeTarget, WaitSeesExit, TerminateTarget, WaitTerminated, StopSession, Join, EndSink,
         Idle
  <2>2. lost' = 0 => lost = 0 BY LossesStay
  <2>3. Reports' = Reports /\ missed' = missed BY <2>1 DEF consumerVars, Reports
  <2> QED BY <2>2, <2>3 DEF Faithful
<1>4. CASE UNCHANGED vars
  BY <1>4 DEF vars, streamVars, consumerVars, Faithful, Reports
<1> QED BY <1>1, <1>2, <1>3, <1>4 DEF Next

LEMMA FaithfulAlways ==
  ASSUME FreshTarget
  PROVE  Spec => [](Typed /\ Faithful)
<1>1. Init => Faithful BY DEF Init, Faithful, Reports
<1>2. Typed /\ Foresight /\ Faithful /\ Typed' /\ [Next]_vars => Faithful' BY FaithfulNext
<1> QED BY <1>1, <1>2, ForesightAlways, PTL DEF Spec

LEMMA ReportsTyped == Typed => \A e \in Reports : e \in Events
BY DEF Typed, SinkTyped, Reports

(* OnlyTheTree: unless an event was lost, every event that is reported is  *)
(* one of the target's tree, however late the events are handled and       *)
(* whichever ids are given again, provided that the target's own are new   *)
(* (EtwEngine.cs:140-181).                                                 *)
THEOREM OnlyTheTreeReported ==
  ASSUME FreshTarget
  PROVE  Spec => []OnlyTheTree
<1>1. Typed /\ Faithful => OnlyTheTree BY ReportsTyped DEF Faithful, OnlyTheTree
<1> QED BY <1>1, FaithfulAlways, PTL

(* AttributedToOwner: unless an event was lost, the process of a reported  *)
(* event, and the thread of a reported system call, are those that caused  *)
(* it, though ETW names a processor or a thread only                       *)
(* (EtwEngine.cs:138-156, 226-230).                                        *)
THEOREM OwnersNamed ==
  ASSUME FreshTarget
  PROVE  Spec => []AttributedToOwner
<1>1. Typed /\ Faithful => AttributedToOwner BY ReportsTyped DEF Faithful, AttributedToOwner
<1> QED BY <1>1, FaithfulAlways, PTL

(* TreeComplete: unless an event was lost, the consumer passes over no     *)
(* event of the tree but the target's own start (EtwEngine.cs:160, 342).   *)
THEOREM NothingPassedOver ==
  ASSUME FreshTarget
  PROVE  Spec => []TreeComplete
<1>1. Faithful => TreeComplete BY DEF Faithful, TreeComplete
<1> QED BY <1>1, FaithfulAlways, PTL

(***************************************************************************)
(* The keys of the registry operations: no assumption on the ids.          *)
(***************************************************************************)
LEMMA KeyAfterTypes ==
  ASSUME NEW x \in KeyMaps, NEW e \in Logged
  PROVE  KeyAfter(x, e) \in KeyMaps
BY DEF KeyAfter, KeyMaps, Logged, Events, WellFormed

LEMMA KeyExtend ==
  ASSUME NEW b \in Seq(Logged), NEW s \in [1..Len(b) + 1 -> KeyMaps], KeysForesee(b, s),
         NEW e \in Logged, KeyJudged(s[Len(b) + 1], e)
  PROVE  \E r \in [1..Len(Append(b, e)) + 1 -> KeyMaps] :
           /\ KeysForesee(Append(b, e), r)
           /\ r[1] = s[1] /\ r[Len(Append(b, e)) + 1] = KeyAfter(s[Len(b) + 1], e)
<1> DEFINE y == KeyAfter(s[Len(b) + 1], e)
           r == [k \in 1..Len(b) + 2 |-> IF k = Len(b) + 2 THEN y ELSE s[k]]
<1>1. /\ Append(b, e) \in Seq(Logged) /\ Len(Append(b, e)) = Len(b) + 1 /\ Len(b) \in Nat
      /\ Append(b, e)[Len(b) + 1] = e
      /\ \A k \in 1..Len(b) : Append(b, e)[k] = b[k]
  BY OneMore
<1>2. s[Len(b) + 1] \in KeyMaps BY <1>1
<1>3. y \in KeyMaps BY <1>2, KeyAfterTypes
<1>4. y = KeyAfter(s[Len(b) + 1], e) OBVIOUS
<1> HIDE DEF y
<1>5. r \in [1..Len(b) + 2 -> KeyMaps]
  <2>1. \A k \in 1..Len(b) + 2 : (IF k = Len(b) + 2 THEN y ELSE s[k]) \in KeyMaps
    BY <1>1, <1>3
  <2> QED BY <2>1, Zenon
<1>6. /\ r[Len(b) + 2] = y
      /\ \A k \in 1..Len(b) + 1 : r[k] = s[k]
  BY <1>1
<1> HIDE DEF r
<1>7. \A k \in 1..Len(b) + 1 :
        r[k + 1] = KeyAfter(r[k], Append(b, e)[k]) /\ KeyJudged(r[k], Append(b, e)[k])
  <2> SUFFICES ASSUME NEW k \in 1..Len(b) + 1
               PROVE  r[k + 1] = KeyAfter(r[k], Append(b, e)[k])
                      /\ KeyJudged(r[k], Append(b, e)[k])
    OBVIOUS
  <2>1. CASE k = Len(b) + 1
    <3>1. k + 1 = Len(b) + 2 BY <1>1, <2>1
    <3> QED BY <1>1, <1>4, <1>6, <2>1, <3>1
  <2>2. CASE k # Len(b) + 1
    <3>1. k \in 1..Len(b) /\ k + 1 \in 1..Len(b) + 1 BY <1>1, <2>2
    <3> QED BY <1>1, <1>6, <3>1 DEF KeysForesee
  <2> QED BY <2>1, <2>2
<1>8. 1 \in 1..Len(b) + 1 /\ Len(Append(b, e)) + 1 = Len(b) + 2 BY <1>1
<1>9. KeysForesee(Append(b, e), r) BY <1>1, <1>5, <1>7, <1>8 DEF KeysForesee
<1> QED BY <1>4, <1>5, <1>6, <1>8, <1>9

LEMMA KeyDrop ==
  ASSUME NEW b \in Seq(Logged), b # << >>, NEW s \in [1..Len(b) + 1 -> KeyMaps],
         KeysForesee(b, s)
  PROVE  /\ KeyJudged(s[1], Head(b))
         /\ \E r \in [1..Len(Tail(b)) + 1 -> KeyMaps] :
              /\ KeysForesee(Tail(b), r)
              /\ r[1] = KeyAfter(s[1], Head(b)) /\ r[Len(Tail(b)) + 1] = s[Len(b) + 1]
<1> DEFINE r == [k \in 1..Len(b) |-> s[k + 1]]
<1>1. /\ Head(b) \in Logged /\ Head(b) = b[1] /\ Len(Tail(b)) = Len(b) - 1
      /\ Len(b) \in Nat /\ Len(b) >= 1
      /\ \A k \in 1..Len(b) - 1 : Tail(b)[k] = b[k + 1]
  BY OneLess
<1>2. r \in [1..Len(b) -> KeyMaps] BY <1>1
<1>3. \A k \in 1..Len(b) : r[k] = s[k + 1] OBVIOUS
<1> HIDE DEF r
<1>4. Len(Tail(b)) + 1 = Len(b) /\ 1 \in 1..Len(b) /\ Len(b) \in 1..Len(b) BY <1>1
<1>5. KeyJudged(s[1], Head(b)) /\ s[2] = KeyAfter(s[1], Head(b))
  <2>1. s[1 + 1] = KeyAfter(s[1], b[1]) /\ KeyJudged(s[1], b[1]) BY <1>4 DEF KeysForesee
  <2> QED BY <1>1, <2>1
<1>6. \A k \in 1..Len(b) - 1 :
        r[k + 1] = KeyAfter(r[k], Tail(b)[k]) /\ KeyJudged(r[k], Tail(b)[k])
  <2> SUFFICES ASSUME NEW k \in 1..Len(b) - 1
               PROVE  r[k + 1] = KeyAfter(r[k], Tail(b)[k]) /\ KeyJudged(r[k], Tail(b)[k])
    OBVIOUS
  <2>1. k \in 1..Len(b) /\ k + 1 \in 1..Len(b) BY <1>1
  <2>2. s[(k + 1) + 1] = KeyAfter(s[k + 1], b[k + 1]) /\ KeyJudged(s[k + 1], b[k + 1])
    BY <2>1 DEF KeysForesee
  <2> QED BY <1>1, <1>3, <2>1, <2>2
<1>7. KeysForesee(Tail(b), r) BY <1>1, <1>2, <1>4, <1>6 DEF KeysForesee
<1>8. r[1] = s[2] /\ r[Len(b)] = s[Len(b) + 1]
  <2>1. r[1] = s[1 + 1] BY <1>3, <1>4
  <2> QED BY <1>3, <1>4, <2>1
<1> QED BY <1>2, <1>4, <1>5, <1>7, <1>8

(* One event is logged, or two.                                            *)
LEMMA KeysOne ==
  ASSUME Typed, KeysForeseen, UNCHANGED consumerVars, NEW e \in Logged, Log(<<e>>),
         \A x \in KeyMaps : KeysAgree(x) =>
           KeyJudged(x, e) /\ \A y \in KeyMaps : y = KeyAfter(x, e) => KeysAgree(y)'
  PROVE  KeysForeseen'
<1> SUFFICES ASSUME Sees'
             PROVE  \E r \in [1..Len(buffer') + 1 -> KeyMaps], y \in KeyMaps :
                      /\ KeysForesee(buffer', r)
                      /\ r[1] = threadRegKey' /\ r[Len(buffer') + 1] = y /\ KeysAgree(y)'
  BY DEF KeysForeseen
<1>1. /\ Sees /\ buffer' = Append(buffer, e) /\ buffer \in Seq(Logged)
      /\ threadRegKey' = threadRegKey
  BY LogOne DEF Sees, Typed, StreamTyped, consumerVars
<1>2. PICK s \in [1..Len(buffer) + 1 -> KeyMaps], x \in KeyMaps :
        /\ KeysForesee(buffer, s)
        /\ s[1] = threadRegKey /\ s[Len(buffer) + 1] = x /\ KeysAgree(x)
  BY <1>1 DEF KeysForeseen
<1>3. PICK y \in KeyMaps : y = KeyAfter(x, e) BY KeyAfterTypes
<1>4. KeyJudged(x, e) /\ KeysAgree(y)' BY <1>2, <1>3
<1>5. PICK r \in [1..Len(Append(buffer, e)) + 1 -> KeyMaps] :
        /\ KeysForesee(Append(buffer, e), r)
        /\ r[1] = s[1] /\ r[Len(Append(buffer, e)) + 1] = y
  BY <1>1, <1>2, <1>3, <1>4, KeyExtend
<1> QED BY <1>1, <1>2, <1>4, <1>5

LEMMA KeysTwo ==
  ASSUME Typed, KeysForeseen, UNCHANGED consumerVars,
         NEW e \in Logged, NEW f \in Logged, Log(<<e, f>>),
         e.kind # "REGISTRY", f.kind # "REGISTRY",
         \A x \in KeyMaps : KeysAgree(x) => KeysAgree(x)'
  PROVE  KeysForeseen'
<1> SUFFICES ASSUME Sees'
             PROVE  \E r \in [1..Len(buffer') + 1 -> KeyMaps], y \in KeyMaps :
                      /\ KeysForesee(buffer', r)
                      /\ r[1] = threadRegKey' /\ r[Len(buffer') + 1] = y /\ KeysAgree(y)'
  BY DEF KeysForeseen
<1>1. /\ Sees /\ buffer' = Append(Append(buffer, e), f) /\ buffer \in Seq(Logged)
      /\ threadRegKey' = threadRegKey
  BY LogTwo DEF Sees, Typed, StreamTyped, consumerVars
<1>2. PICK s \in [1..Len(buffer) + 1 -> KeyMaps], x \in KeyMaps :
        /\ KeysForesee(buffer, s)
        /\ s[1] = threadRegKey /\ s[Len(buffer) + 1] = x /\ KeysAgree(x)
  BY <1>1 DEF KeysForeseen
<1>3. \A z \in KeyMaps : /\ KeyJudged(z, e) /\ KeyJudged(z, f)
                         /\ KeyAfter(z, e) = z /\ KeyAfter(z, f) = z
  BY DEF KeyJudged, KeyAfter
<1> DEFINE b == Append(buffer, e)
<1>4. b \in Seq(Logged) /\ buffer' = Append(b, f) BY <1>1, OneMore
<1>5. PICK q \in [1..Len(b) + 1 -> KeyMaps] :
        KeysForesee(b, q) /\ q[1] = s[1] /\ q[Len(b) + 1] = x
  <2>1. KeyJudged(s[Len(buffer) + 1], e) /\ KeyAfter(s[Len(buffer) + 1], e) = x BY <1>2, <1>3
  <2> QED BY <1>1, <1>2, <2>1, KeyExtend
<1> HIDE DEF b
<1>6. PICK r \in [1..Len(Append(b, f)) + 1 -> KeyMaps] :
        /\ KeysForesee(Append(b, f), r)
        /\ r[1] = q[1] /\ r[Len(Append(b, f)) + 1] = x
  <2>1. KeyJudged(q[Len(b) + 1], f) /\ KeyAfter(q[Len(b) + 1], f) = x BY <1>3, <1>5
  <2>2. KeysForesee(b, q) BY <1>5
  <2> QED BY <1>4, <2>1, <2>2, KeyExtend
<1>7. KeysAgree(x)' BY <1>2
<1> QED BY <1>1, <1>2, <1>4, <1>5, <1>6, <1>7

LEMMA MachineKeys ==
  ASSUME Typed, Unnamed, KeysForeseen, MachineNext \/ CreateTarget
  PROVE  Unnamed' /\ KeysForeseen'
<1>1. MachineTyped /\ StreamTyped BY DEF Typed
<1>2. Machine \/ CreateTarget => UNCHANGED consumerVars BY DEF Machine, CreateTarget, Idle
<1>3. ASSUME NEW e \in Logged, Log(<<e>>), UNCHANGED consumerVars, e.kind # "REGISTRY",
             \A x \in KeyMaps : KeysAgree(x) => KeysAgree(x)'
      PROVE  KeysForeseen'
  <2>1. \A x \in KeyMaps : KeyJudged(x, e) /\ KeyAfter(x, e) = x
    BY <1>3 DEF KeyJudged, KeyAfter
  <2>2. ASSUME NEW x \in KeyMaps, KeysAgree(x), NEW y \in KeyMaps, y = KeyAfter(x, e)
        PROVE  KeysAgree(y)'
    <3>1. y = x BY <2>1, <2>2
    <3>2. KeysAgree(x)' BY <1>3, <2>2
    <3> QED BY <3>1, <3>2 DEF KeysAgree
  <2> QED BY <1>3, <2>1, <2>2, KeysOne
<1>4. ASSUME UNCHANGED <<named, usedTids>>, NEW x \in KeyMaps, KeysAgree(x) PROVE KeysAgree(x)'
  BY <1>4 DEF KeysAgree
<1>5. ASSUME NEW t \in Tids, proc[t] = NoPid, NEW p \in Pids, proc' = [proc EXCEPT ![t] = p],
             named' = [named EXCEPT ![t] = NoKey], usedTids' = usedTids
      PROVE  Unnamed' /\ \A x \in KeyMaps : KeysAgree(x) => KeysAgree(x)'
  <2>1. \A u \in Tids \ usedTids : named'[u] = named[u]
    BY <1>1, <1>5 DEF Unnamed, MachineTyped
  <2>2. \A u \in Tids : proc'[u] = NoPid => proc[u] = NoPid
    BY <1>1, <1>5, EtwAssumption DEF MachineTyped
  <2> QED BY <1>5, <2>1, <2>2 DEF Unnamed, KeysAgree
<1>6. ASSUME NEW c \in Cpus, NEW t \in Tids, ContextSwitch(c, t) PROVE Unnamed' /\ KeysForeseen'
  <2>1. PICK e \in Logged : Log(<<e>>) /\ e.kind = "CSWITCH" BY <1>1, <1>6, ContextSwitchLogs
  <2>2. Machine /\ UNCHANGED <<proc, named, usedTids>> BY <1>6 DEF ContextSwitch
  <2> QED BY <1>2, <1>3, <1>4, <2>1, <2>2 DEF Unnamed
<1>7. ASSUME NEW c \in Cpus, SystemCall(c) PROVE Unnamed' /\ KeysForeseen'
  <2>1. PICK e \in Logged : Log(<<e>>) /\ e.kind = "SYSCALL"
    <3>1. PICK e \in Logged : Log(<<e>>) /\ e =
           [kind |-> "SYSCALL", pid |-> NoPid, tid |-> NoTid, cpu |-> c, parent |-> NoPid,
            key |-> NoKey, owner |-> proc[running[c]], thread |-> running[c],
            tree |-> proc[running[c]] \in family, named |-> NoKey,
            fresh |-> running[c] \notin usedTids]
      BY <1>1, <1>7, SystemCallLogs
    <3>2. e.kind = "SYSCALL" BY <3>1
    <3> QED BY <3>1, <3>2
  <2>2. Machine /\ UNCHANGED <<proc, named, usedTids>> BY <1>7 DEF SystemCall, Operates
  <2> QED BY <1>2, <1>3, <1>4, <2>1, <2>2 DEF Unnamed
<1>8. ASSUME NEW c \in Cpus, NEW kind \in {"IMAGE", "IO"}, NEW known \in BOOLEAN,
             Input(c, kind, known)
      PROVE  Unnamed' /\ KeysForeseen'
  <2>1. PICK e \in Logged : Log(<<e>>) /\ e.kind = kind BY <1>1, <1>8, InputLogs
  <2>2. Machine /\ UNCHANGED <<proc, named, usedTids>> BY <1>8 DEF Input, Operates
  <2> QED BY <1>2, <1>3, <1>4, <2>1, <2>2 DEF Unnamed
<1>9. ASSUME NEW c \in Cpus, NEW key \in Keys \cup {NoKey}, Registry(c, key)
      PROVE  Unnamed' /\ KeysForeseen'
  <2> DEFINE t == running[c]
  <2>1. /\ Machine /\ UNCHANGED <<proc, usedTids>>
        /\ named' = [named EXCEPT ![t] = IF key = NoKey THEN @ ELSE key]
        /\ t \in Tids /\ proc[t] # NoPid
    BY <1>1, <1>9, RunningThread, EtwAssumption DEF Registry, Operates
  <2>2. PICK e \in Logged : /\ Log(<<e>>) /\ e.kind = "REGISTRY" /\ e.tid = t /\ e.key = key
                            /\ e.named = named'[t] /\ (e.fresh <=> t \notin usedTids)
    <3>1. PICK e \in Logged : Log(<<e>>) /\ e =
           [kind |-> "REGISTRY", pid |-> proc[running[c]], tid |-> running[c], cpu |-> NoCpu,
            parent |-> NoPid, key |-> key, owner |-> proc[running[c]], thread |-> running[c],
            tree |-> proc[running[c]] \in family,
            named |-> named'[running[c]], fresh |-> running[c] \notin usedTids]
      BY <1>1, <1>9, RegistryLogs
    <3>2. /\ e.kind = "REGISTRY" /\ e.tid = t /\ e.key = key
          /\ e.named = named'[t] /\ (e.fresh <=> t \notin usedTids)
      BY <3>1
    <3> QED BY <3>1, <3>2
  <2> HIDE DEF t
  <2>3. named'[t] = (IF key = NoKey THEN named[t] ELSE key)
        /\ \A u \in Tids : u # t => named'[u] = named[u]
    BY <1>1, <2>1 DEF MachineTyped
  <2>4. ASSUME NEW x \in KeyMaps, KeysAgree(x)
        PROVE  KeyJudged(x, e) /\ \A y \in KeyMaps : y = KeyAfter(x, e) => KeysAgree(y)'
    <3>1. KeyJudged(x, e) BY <2>1, <2>2, <2>3, <2>4 DEF KeyJudged, KeysAgree
    <3>2. ASSUME NEW y \in KeyMaps, y = KeyAfter(x, e) PROVE KeysAgree(y)'
      <4>1. y = IF key # NoKey THEN [x EXCEPT ![t] = key] ELSE x BY <2>2, <3>2 DEF KeyAfter
      <4>2. \A u \in Tids \ usedTids : y[u] = named'[u]
        BY <2>1, <2>3, <2>4, <4>1 DEF KeysAgree, KeyMaps
      <4> QED BY <2>1, <4>2 DEF KeysAgree
    <3> QED BY <3>1, <3>2
  <2>5. KeysForeseen' BY <1>2, <2>1, <2>2, <2>4, KeysOne
  <2>6. Unnamed' BY <2>1, <2>3 DEF Unnamed
  <2> QED BY <2>5, <2>6
<1>10. ASSUME NEW p \in Pids, NEW t \in Tids, NEW parent \in Pids \cup {NoPid},
              NEW inTree \in BOOLEAN, Begins(p, t, parent, inTree), UNCHANGED consumerVars,
              proc[t] = NoPid, usedTids' = usedTids
       PROVE  Unnamed' /\ KeysForeseen'
  <2>1. PICK e \in Logged, f \in Logged :
          /\ e = Start("PROCESS_START", p, t, parent, inTree)
          /\ f = Start("THREAD_START", p, t, parent, inTree)
    BY <1>1, <1>10, BeginsLogs
  <2>2. Log(<<e, f>>) BY <1>1, <1>10, <2>1, BeginsLogs
  <2>3. e.kind # "REGISTRY" /\ f.kind # "REGISTRY" BY <2>1 DEF Start
  <2>4. proc' = [proc EXCEPT ![t] = p] /\ named' = [named EXCEPT ![t] = NoKey]
    BY <1>10 DEF Begins
  <2>5. Unnamed' /\ \A x \in KeyMaps : KeysAgree(x) => KeysAgree(x)'
    BY <1>5, <1>10, <2>4
  <2> QED BY <1>10, <2>2, <2>3, <2>5, KeysTwo
<1>11. ASSUME NEW c \in Cpus, NEW p \in Pids, NEW t \in Tids, StartProcess(c, p, t)
       PROVE  Unnamed' /\ KeysForeseen'
  <2> DEFINE parent == proc[running[c]]
             inTree == follow /\ parent \in family
  <2>1. /\ Machine /\ Runs(c) /\ proc[t] = NoPid /\ usedTids' = usedTids
        /\ Begins(p, t, parent, inTree)
    BY <1>11 DEF StartProcess, FreeTid
  <2>2. parent \in Pids \cup {NoPid} /\ inTree \in BOOLEAN
    BY <1>1, <2>1, RunningThread DEF MachineTyped
  <2> HIDE DEF parent, inTree
  <2> QED BY <1>2, <1>10, <2>1, <2>2
<1>12. ASSUME NEW p \in Pids, NEW t \in Tids, Outsider(p, t) PROVE Unnamed' /\ KeysForeseen'
  <2>1. Machine /\ proc[t] = NoPid /\ usedTids' = usedTids /\ Begins(p, t, NoPid, FALSE)
    BY <1>12 DEF Outsider, FreeTid
  <2> QED BY <1>2, <1>10, <2>1
<1>13. ASSUME NEW c \in Cpus, NEW t \in Tids, StartThread(c, t) PROVE Unnamed' /\ KeysForeseen'
  <2>1. /\ Machine /\ proc[t] = NoPid /\ usedTids' = usedTids
        /\ proc[running[c]] \in Pids /\ proc' = [proc EXCEPT ![t] = proc[running[c]]]
        /\ named' = [named EXCEPT ![t] = NoKey]
    BY <1>1, <1>13, RunningThread DEF StartThread, FreeTid
  <2>2. Unnamed' /\ \A x \in KeyMaps : KeysAgree(x) => KeysAgree(x)' BY <1>5, <2>1
  <2>3. PICK e \in Logged : Log(<<e>>) /\ e.kind = "THREAD_START"
    <3>1. PICK e \in Logged : Log(<<e>>) /\ e =
           [kind |-> "THREAD_START", pid |-> proc[running[c]], tid |-> t, cpu |-> NoCpu,
            parent |-> NoPid, key |-> NoKey, owner |-> proc[running[c]], thread |-> t,
            tree |-> proc[running[c]] \in family, named |-> NoKey, fresh |-> t \notin usedTids]
      BY <1>1, <1>13, StartThreadLogs
    <3>2. e.kind = "THREAD_START" BY <3>1
    <3> QED BY <3>1, <3>2
  <2> QED BY <1>2, <1>3, <2>1, <2>2, <2>3
<1>14. ASSUME NEW p \in Pids, EndProcess(p) PROVE Unnamed' /\ KeysForeseen'
  <2> DEFINE gone == {t \in Tids : proc[t] = p}
  <2>1. /\ Machine /\ named' = named /\ usedTids' = usedTids \cup gone
        /\ proc' = [t \in Tids |-> IF t \in gone THEN NoPid ELSE proc[t]]
    BY <1>14 DEF EndProcess
  <2>2. PICK e \in Logged : Log(<<e>>) /\ e.kind = "PROCESS_STOP"
    <3>1. PICK e \in Logged : Log(<<e>>) /\ e =
           [kind |-> "PROCESS_STOP", pid |-> p, tid |-> NoTid, cpu |-> NoCpu, parent |-> NoPid,
            key |-> NoKey, owner |-> p, thread |-> NoTid, tree |-> p \in family,
            named |-> NoKey, fresh |-> NoTid \notin usedTids]
      BY <1>1, <1>14, EndProcessLogs
    <3>2. e.kind = "PROCESS_STOP" BY <3>1
    <3> QED BY <3>1, <3>2
  <2>3. Unnamed' BY <2>1 DEF Unnamed
  <2>4. \A x \in KeyMaps : KeysAgree(x) => KeysAgree(x)' BY <2>1 DEF KeysAgree
  <2> QED BY <1>2, <1>3, <2>1, <2>2, <2>3, <2>4
<1>15. CASE CreateTarget
  <2>1. /\ Begins(Target, Main, NoPid, TRUE) /\ proc[Main] = NoPid /\ usedTids' = usedTids
        /\ UNCHANGED consumerVars
    BY <1>2, <1>15 DEF CreateTarget
  <2> QED BY <1>10, <2>1, EtwAssumption
<1>16. CASE MachineNext
  BY <1>6, <1>7, <1>8, <1>9, <1>11, <1>12, <1>13, <1>14, <1>16 DEF MachineNext
<1> QED BY <1>15, <1>16

(* What the consumer makes of the keys, and reports.                       *)
LEMMA HandlerKeys ==
  ASSUME Typed, ConsumerNext
  PROVE  /\ threadRegKey' = KeyAfter(threadRegKey, Head(buffer))
         /\ KeyJudged(threadRegKey, Head(buffer)) =>
              \A r \in Events : r \in Reports' =>
                r \in Reports \/ (r.kind = "REGISTRY" /\ r.fresh => r.key = r.named)
<1> DEFINE e == Head(buffer)
<1>1. ASSUME NEW kind, Handles(kind)
      PROVE  /\ e \in Logged /\ e.kind = kind
             /\ e.pid \in Pids \cup {NoPid} /\ e.tid \in Tids \cup {NoTid}
             /\ e.key \in Keys \cup {NoKey} /\ e.owner \in Pids
             /\ WellFormed(e)
  BY <1>1, HandlesTypes DEF Logged, Events
<1>2. SinkTyped /\ MapsTyped /\ traced \subseteq Pids BY DEF Typed, MapsTyped
<1>3. Silent \/ Ignore(e) => Reports' = Reports BY DEF Silent, Ignore, Reports
<1> HIDE DEF e
<1>4. ASSUME NEW pid \in Pids \cup {NoPid}, NEW tid \in Tids \cup {NoTid}, e \in Logged,
             NEW key \in Keys \cup {NoKey}, EmitIfTraced(e, pid, tid, key),
             e.kind = "REGISTRY" /\ e.fresh => key = e.named
      PROVE  \A r \in Events : r \in Reports' =>
                r \in Reports \/ (r.kind = "REGISTRY" /\ r.fresh => r.key = r.named)
  <2>1. \A r \in Events : r \in Reports' => r \in Reports \/ r = Reported(e, pid, tid, key)
    BY <1>2, <1>4, EmitOrNot
  <2> DEFINE q == Reported(e, pid, tid, key)
  <2>2. q.kind = e.kind /\ q.key = key /\ q.named = e.named /\ q.fresh = e.fresh
    BY DEF Reported
  <2> HIDE DEF q
  <2>3. q.kind = "REGISTRY" /\ q.fresh => q.key = q.named BY <1>4, <2>2
  <2> QED BY <2>1, <2>3 DEF q
<1>5. ASSUME e.kind # "REGISTRY", threadRegKey' = threadRegKey
      PROVE  threadRegKey' = KeyAfter(threadRegKey, e)
  BY <1>5 DEF KeyAfter
<1>6. CASE OnThreadStart \/ OnContextSwitch
  <2>1. PICK kind \in {"THREAD_START", "CSWITCH"} : Handles(kind)
    BY <1>6 DEF OnThreadStart, OnContextSwitch
  <2>2. Silent /\ threadRegKey' = threadRegKey BY <1>6 DEF OnThreadStart, OnContextSwitch
  <2> QED BY <1>1, <1>3, <1>5, <2>1, <2>2 DEF e
<1>7. CASE OnSystemCall
  <2>1. Handles("SYSCALL") /\ threadRegKey' = threadRegKey BY <1>7 DEF OnSystemCall
  <2>2. e.kind = "SYSCALL" /\ e.cpu \in Cpus BY <1>1, <2>1 DEF WellFormed
  <2>3. PICK tid \in Tids \cup {NoTid}, pid \in Pids \cup {NoPid} : EmitIfTraced(e, pid, tid, NoKey)
    <3>2. cpuToTid[e.cpu] \in Tids \cup {NoTid} BY <1>2, <2>2 DEF MapsTyped
    <3>3. (IF cpuToTid[e.cpu] = NoTid THEN NoPid ELSE threadToPid[cpuToTid[e.cpu]])
             \in Pids \cup {NoPid}
      BY <1>2, <3>2 DEF MapsTyped
    <3> QED BY <1>7, <3>2, <3>3 DEF OnSystemCall, e
  <2> QED BY <1>1, <1>4, <1>5, <2>1, <2>2, <2>3 DEF e
<1>8. CASE OnProcessStart
  <2>1. Handles("PROCESS_START") /\ threadRegKey' = threadRegKey BY <1>8 DEF OnProcessStart
  <2>2. /\ e.kind = "PROCESS_START" /\ e.pid \in Pids /\ e \in Logged
        /\ NoTid \in Tids \cup {NoTid} /\ NoKey \in Keys \cup {NoKey}
    BY <1>1, <2>1 DEF WellFormed
  <2>3. Emit(e, e.pid, NoTid, NoKey) \/ Ignore(e) BY <1>8 DEF OnProcessStart, e
  <2>4. \A r \in Events : r \in Reports' => r \in Reports \/ r.kind = "PROCESS_START"
    <3>1. CASE Emit(e, e.pid, NoTid, NoKey)
      <4>1. \A r \in Events : r \in Reports' =>
              r \in Reports \/ r = Reported(e, e.pid, NoTid, NoKey)
        BY <1>2, <2>2, <3>1, EmitReports
      <4>2. Reported(e, e.pid, NoTid, NoKey).kind = "PROCESS_START" BY <2>2 DEF Reported
      <4> QED BY <4>1, <4>2
    <3>2. CASE Ignore(e) BY <1>3, <3>2
    <3> QED BY <2>3, <3>1, <3>2
  <2> QED BY <1>5, <2>1, <2>2, <2>4 DEF e
<1>9. CASE OnProcessStop \/ OnImageLoad
  <2>1. PICK kind \in {"PROCESS_STOP", "IMAGE"} : Handles(kind)
    BY <1>9 DEF OnProcessStop, OnImageLoad
  <2>2. EmitIfTraced(e, e.pid, NoTid, NoKey) /\ threadRegKey' = threadRegKey
    BY <1>9 DEF OnProcessStop, OnImageLoad, e
  <2> QED BY <1>1, <1>4, <1>5, <2>1, <2>2 DEF e
<1>10. ASSUME Handles("IO") \/ Handles("REGISTRY")
       PROVE  PidFor(e) \in Pids \cup {NoPid} /\ e.tid \in Tids
  <2>1. e.tid \in Tids /\ e.pid \in Pids \cup {NoPid} BY <1>1, <1>10 DEF WellFormed
  <2>2. threadToPid[e.tid] \in Pids \cup {NoPid} BY <1>2, <2>1 DEF MapsTyped
  <2> QED BY <2>1, <2>2 DEF PidFor
<1>11. CASE OnFileOrNet
  <2>1. Handles("IO") /\ EmitIfTraced(e, PidFor(e), e.tid, NoKey) /\ threadRegKey' = threadRegKey
    BY <1>11 DEF OnFileOrNet, e
  <2>2. PICK pid \in Pids \cup {NoPid} : EmitIfTraced(e, pid, e.tid, NoKey) BY <1>10, <2>1
  <2>3. e.kind = "IO" /\ e.tid \in Tids BY <1>1, <1>10, <2>1
  <2> QED BY <1>1, <1>4, <1>5, <2>1, <2>2, <2>3 DEF e
<1>12. CASE OnRegistry
  <2> DEFINE key == IF e.key # NoKey THEN e.key ELSE threadRegKey[e.tid]
  <2>1. /\ Handles("REGISTRY") /\ EmitIfTraced(e, PidFor(e), e.tid, key)
        /\ threadRegKey' = IF e.key # NoKey THEN [threadRegKey EXCEPT ![e.tid] = e.key]
                                            ELSE threadRegKey
    BY <1>12 DEF OnRegistry, Recall, e
  <2>2. e.kind = "REGISTRY" /\ key \in Keys \cup {NoKey}
    BY <1>1, <1>2, <1>10, <2>1 DEF MapsTyped
  <2>3. threadRegKey' = KeyAfter(threadRegKey, e) BY <2>1, <2>2 DEF KeyAfter
  <2>4. KeyJudged(threadRegKey, e) => (e.fresh => key = e.named) BY <2>2 DEF KeyJudged
  <2> HIDE DEF key
  <2> QED BY <1>1, <1>4, <1>10, <2>1, <2>2, <2>3, <2>4 DEF e
<1> QED BY <1>6, <1>7, <1>8, <1>9, <1>11, <1>12 DEF ConsumerNext

KeysFaithful ==
  lost = 0 => \A e \in Events : e \in Reports => (e.kind = "REGISTRY" /\ e.fresh => e.key = e.named)

LEMMA KeysNext ==
  ASSUME Typed, Unnamed, KeysForeseen, KeysFaithful, [Next]_vars
  PROVE  Unnamed' /\ KeysForeseen' /\ KeysFaithful'
<1>1. lost' = 0 => lost = 0 BY LossesStay
<1>2. CASE MachineNext \/ CreateTarget
  <2>1. UNCHANGED consumerVars BY <1>2, MachineLogs DEF Machine, CreateTarget, Idle
  <2>2. Reports' = Reports BY <2>1 DEF consumerVars, Reports
  <2> QED BY <1>1, <1>2, <2>2, MachineKeys DEF KeysFaithful
<1>3. CASE ConsumerNext
  <2>1. PICK kind \in Kinds : Handles(kind)
    BY <1>3 DEF ConsumerNext, OnThreadStart, OnContextSwitch, OnSystemCall, OnProcessStart,
         OnProcessStop, OnImageLoad, OnFileOrNet, OnRegistry, Kinds
  <2>2. /\ lost' = lost /\ UNCHANGED <<proc, named, usedTids>> /\ consumer = "running"
        /\ buffer' = Tail(buffer) /\ buffer # << >> /\ buffer \in Seq(Logged)
    BY <2>1 DEF Handles, machineVars, Typed, StreamTyped
  <2>3. threadRegKey' = KeyAfter(threadRegKey, Head(buffer)) BY <1>3, HandlerKeys
  <2>4. ASSUME lost = 0
        PROVE  /\ KeyJudged(threadRegKey, Head(buffer))
               /\ \E r \in [1..Len(Tail(buffer)) + 1 -> KeyMaps], x \in KeyMaps :
                    /\ KeysForesee(Tail(buffer), r)
                    /\ r[1] = threadRegKey' /\ r[Len(Tail(buffer)) + 1] = x /\ KeysAgree(x)
    <3>1. PICK s \in [1..Len(buffer) + 1 -> KeyMaps], x \in KeyMaps :
            /\ KeysForesee(buffer, s)
            /\ s[1] = threadRegKey /\ s[Len(buffer) + 1] = x /\ KeysAgree(x)
      BY <2>2, <2>4 DEF KeysForeseen, Sees
    <3> QED BY <2>2, <2>3, <3>1, KeyDrop
  <2>5. \A x \in KeyMaps : KeysAgree(x) => KeysAgree(x)' BY <2>2 DEF KeysAgree
  <2>6. KeysForeseen'
    <3> SUFFICES ASSUME Sees'
                 PROVE  \E r \in [1..Len(buffer') + 1 -> KeyMaps], y \in KeyMaps :
                      /\ KeysForesee(buffer', r)
                      /\ r[1] = threadRegKey' /\ r[Len(buffer') + 1] = y /\ KeysAgree(y)'
      BY DEF KeysForeseen
    <3>1. lost = 0 BY <2>2 DEF Sees
    <3> QED BY <2>2, <2>4, <2>5, <3>1
  <2>7. Unnamed' BY <2>2 DEF Unnamed
  <2>8. KeysFaithful' BY <1>3, <2>2, <2>4, HandlerKeys DEF KeysFaithful
  <2> QED BY <2>6, <2>7, <2>8
<1>4. CASE (RunNext /\ ~CreateTarget) \/ UNCHANGED vars
  <2>1. UNCHANGED <<proc, named, usedTids, buffer, lost, consumerVars>>
    BY <1>4 DEF RunNext, SpawnFails, SetTargetPid, SeedTraced, SeedThread, ResumeTarget,
         WaitSeesExit, TerminateTarget, WaitTerminated, StopSession, Join, EndSink, Idle,
         machineVars, streamVars, vars
  <2>2. Unnamed' BY <2>1 DEF Unnamed
  <2>3. KeysForeseen' BY <2>1 DEF KeysForeseen, KeysAgree, Sees, consumerVars
  <2>4. KeysFaithful' BY <2>1 DEF KeysFaithful, Reports, consumerVars
  <2> QED BY <2>2, <2>3, <2>4
<1> QED BY <1>2, <1>3, <1>4 DEF Next

LEMMA KeysInit == Init => Unnamed /\ KeysForeseen /\ KeysFaithful
<1> SUFFICES ASSUME Init PROVE Unnamed /\ KeysForeseen /\ KeysFaithful OBVIOUS
<1>1. Unnamed /\ KeysFaithful BY DEF Init, Unnamed, KeysFaithful, Reports
<1>2. threadRegKey \in KeyMaps /\ KeysAgree(threadRegKey) BY DEF Init, KeyMaps, KeysAgree
<1>3. CASE buffer = << >>
  <2> DEFINE s == [k \in 1..1 |-> threadRegKey]
  <2>1. s \in [1..1 -> KeyMaps] /\ s[1] = threadRegKey BY <1>2
  <2> HIDE DEF s
  <2>2. Len(buffer) = 0 BY <1>3
  <2>3. KeysForesee(buffer, s) BY <2>1, <2>2 DEF KeysForesee
  <2> QED BY <1>1, <1>2, <2>1, <2>2, <2>3 DEF KeysForeseen
<1>4. ASSUME NEW e, buffer = <<e>>, e.kind = "THREAD_START" PROVE KeysForeseen
  <2> DEFINE s == [k \in 1..2 |-> threadRegKey]
  <2>1. s \in [1..2 -> KeyMaps] /\ s[1] = threadRegKey /\ s[2] = threadRegKey BY <1>2
  <2> HIDE DEF s
  <2>2. Len(buffer) = 1 /\ buffer[1] = e BY <1>4
  <2>3. KeysForesee(buffer, s) BY <1>4, <2>1, <2>2 DEF KeysForesee, KeyAfter, KeyJudged
  <2> QED BY <1>2, <2>1, <2>2, <2>3 DEF KeysForeseen
<1>5. buffer = << >> \/ \E e : buffer = <<e>> /\ e.kind = "THREAD_START" BY DEF Init
<1> QED BY <1>1, <1>3, <1>4, <1>5

(* KeyFromSameThread: unless an event was lost, the key that is reported   *)
(* for a registry operation is the one its thread named last, for every    *)
(* thread whose id was never another's (EtwEngine.cs:32-36, 267-275).      *)
THEOREM KeysRemembered == Spec => []KeyFromSameThread
<1>1. Typed /\ KeysFaithful => KeyFromSameThread
  BY ReportsTyped DEF KeysFaithful, KeyFromSameThread
<1>2. Typed /\ Unnamed /\ KeysForeseen /\ KeysFaithful /\ [Next]_vars
        => Unnamed' /\ KeysForeseen' /\ KeysFaithful'
  BY KeysNext
<1> QED BY <1>1, <1>2, KeysInit, TypedAlways, PTL DEF Spec

(***************************************************************************)
(* The end of the sink.                                                    *)
(***************************************************************************)
Calls(s) == {i \in DOMAIN s : s[i].kind = "SYSCALL"}

\* The counters are those of what was handed to the sink.
Sums ==
  consumer = "running" =>
    /\ total = Len(out) /\ syscalls = Cardinality(Calls(out))
    /\ pids = {e.pid : e \in Reports}

\* Once the session is stopped and the consumer joined nothing comes after.
Quiet ==
  /\ phase \in {"join", "end", "done", "failed"} => ~session
  /\ phase \in {"end", "done"} /\ ~timedOut /\ consumer = "running" => buffer = << >>
  /\ phase = "done" /\ ~timedOut /\ consumer = "running" =>
       summary = [total |-> total, syscalls |-> syscalls, processes |-> Cardinality(pids),
                  lost |-> lost]

(* One report more is one system call more, if it is one.                  *)
LEMMA CallsMore ==
  ASSUME NEW s \in Seq(Events), NEW r \in Events
  PROVE  Cardinality(Calls(Append(s, r))) =
           IF r.kind = "SYSCALL" THEN Cardinality(Calls(s)) + 1 ELSE Cardinality(Calls(s))
<1> DEFINE n == Len(s)
           longer == Append(s, r)
<1>1. /\ n \in Nat /\ DOMAIN s = 1..n /\ DOMAIN longer = DOMAIN s \cup {n + 1}
      /\ longer[n + 1] = r /\ \A k \in DOMAIN s : longer[k] = s[k]
  BY OneMore
<1> HIDE DEF n, longer
<1>2. IsFiniteSet(1..n) BY <1>1, FS_Interval
<1>3. IsFiniteSet(Calls(s)) BY <1>1, <1>2, FS_Subset DEF Calls
<1>4. n + 1 \notin Calls(s) BY <1>1 DEF Calls
<1>5. Calls(longer) = IF r.kind = "SYSCALL" THEN Calls(s) \cup {n + 1} ELSE Calls(s)
  BY <1>1 DEF Calls
<1>6. Cardinality(Calls(s) \cup {n + 1}) = Cardinality(Calls(s)) + 1
  BY <1>3, <1>4, FS_AddElement
<1> QED BY <1>5, <1>6 DEF longer

(* A report is counted, and its process is.                                *)
LEMMA EmitCounts ==
  ASSUME SinkTyped, NEW e \in Logged, NEW pid \in Pids, NEW tid \in Tids \cup {NoTid},
         NEW key \in Keys \cup {NoKey}, Emit(e, pid, tid, key), consumer = "running", Sums
  PROVE  Sums'
<1> DEFINE r == Reported(e, pid, tid, key)
<1>1. e \in Events BY DEF Logged
<1>2. r \in Events /\ r.kind = e.kind /\ r.pid = pid BY <1>1 DEF Events, Reported
<1>3. \/ out' = Append(out, r) /\ consumer' = consumer
      \/ out' = out /\ consumer' = "failed"
  BY EmitReports
<1> HIDE DEF r
<1>4. SUFFICES ASSUME out' = Append(out, r) PROVE Sums'
  BY <1>3 DEF Sums
<1>5. out \in Seq(Events) BY DEF SinkTyped
<1>6. /\ Len(out') = Len(out) + 1
      /\ Cardinality(Calls(out')) =
           IF r.kind = "SYSCALL" THEN Cardinality(Calls(out)) + 1 ELSE Cardinality(Calls(out))
      /\ DOMAIN out' = DOMAIN out \cup {Len(out) + 1} /\ out'[Len(out) + 1] = r
      /\ \A k \in DOMAIN out : out'[k] = out[k]
  BY <1>2, <1>4, <1>5, OneMore, CallsMore
<1>7. Reports' = Reports \cup {r} BY <1>6 DEF Reports
<1>8. {q.pid : q \in Reports'} = {q.pid : q \in Reports} \cup {pid} BY <1>2, <1>7
<1>9. /\ total' = total + 1 /\ pids' = pids \cup {pid}
      /\ syscalls' = IF e.kind = "SYSCALL" THEN syscalls + 1 ELSE syscalls
  BY DEF Emit
<1> QED BY <1>2, <1>6, <1>8, <1>9 DEF Sums

(* Every handler reports, or leaves what was reported alone.               *)
LEMMA ConsumerCounts ==
  ASSUME Typed, ConsumerNext, Sums
  PROVE  Sums'
<1> DEFINE e == Head(buffer)
<1>1. PICK kind \in Kinds : Handles(kind)
  BY DEF ConsumerNext, OnThreadStart, OnContextSwitch, OnSystemCall, OnProcessStart,
         OnProcessStop, OnImageLoad, OnFileOrNet, OnRegistry, Kinds
<1>2. e \in Logged /\ consumer = "running" /\ SinkTyped /\ MapsTyped
  BY <1>1, HandlesTypes DEF Typed, Handles
<1>3. Ignore(e) \/ Silent => Sums' BY DEF Ignore, Silent, Sums, Reports
<1>4. ASSUME NEW pid, NEW tid \in Tids \cup {NoTid}, NEW key \in Keys \cup {NoKey},
             EmitIfTraced(e, pid, tid, key)
      PROVE  Sums'
  <2>1. CASE pid \in traced /\ Emit(e, pid, tid, key)
    <3>1. pid \in Pids BY <1>2, <2>1 DEF MapsTyped
    <3> HIDE DEF e
    <3> QED BY <1>2, <2>1, <3>1, EmitCounts
  <2> QED BY <1>3, <1>4, <2>1 DEF EmitIfTraced
<1>5. e \in Events /\ WellFormed(e) BY <1>2 DEF Logged
<1>6. e.tid \in Tids \cup {NoTid} /\ e.pid \in Pids \cup {NoPid} /\ e.key \in Keys \cup {NoKey}
  BY <1>5 DEF Events
<1>7. CASE OnThreadStart \/ OnContextSwitch BY <1>3, <1>7 DEF OnThreadStart, OnContextSwitch
<1>8. CASE OnSystemCall
  <2>1. \E tid \in Tids \cup {NoTid} : \E pid : EmitIfTraced(e, pid, tid, NoKey)
    <3>1. Handles("SYSCALL") BY <1>8 DEF OnSystemCall
    <3>2. e.kind = "SYSCALL" BY <3>1, HandlesTypes
    <3>3. e.cpu \in Cpus BY <1>5, <3>2 DEF WellFormed
    <3>4. cpuToTid[e.cpu] \in Tids \cup {NoTid} BY <1>2, <3>3 DEF MapsTyped
    <3> QED BY <1>8, <3>4 DEF OnSystemCall
  <2> QED BY <1>4, <2>1
<1>9. CASE OnProcessStart
  <2>1. Handles("PROCESS_START") /\ (Emit(e, e.pid, NoTid, NoKey) \/ Ignore(e))
    BY <1>9 DEF OnProcessStart
  <2>2. e.kind = "PROCESS_START" BY <2>1, HandlesTypes
  <2>3. e.pid \in Pids BY <1>5, <2>2 DEF WellFormed, Events
  <2> HIDE DEF e
  <2> QED BY <1>2, <1>3, <2>1, <2>3, EmitCounts
<1>10. CASE OnProcessStop \/ OnImageLoad
  BY <1>4, <1>10 DEF OnProcessStop, OnImageLoad
<1>11. CASE OnFileOrNet BY <1>4, <1>6, <1>11 DEF OnFileOrNet
<1>12. CASE OnRegistry
  <2> DEFINE key == IF e.key # NoKey THEN e.key ELSE Recall(e.tid)
  <2>1. Handles("REGISTRY") /\ EmitIfTraced(e, PidFor(e), e.tid, key) BY <1>12 DEF OnRegistry
  <2>2. e.kind = "REGISTRY" BY <2>1, HandlesTypes
  <2>3. e.tid \in Tids BY <1>5, <2>2 DEF WellFormed
  <2>4. key \in Keys \cup {NoKey} BY <1>2, <1>6, <2>3 DEF Recall, MapsTyped
  <2> HIDE DEF key, e
  <2> QED BY <1>4, <1>6, <2>1, <2>4
<1> QED BY <1>7, <1>8, <1>9, <1>10, <1>11, <1>12 DEF ConsumerNext

LEMMA SumsKept == Typed /\ Sums /\ [Next]_vars => Sums'
<1> SUFFICES ASSUME Typed, Sums, [Next]_vars PROVE Sums' OBVIOUS
<1>1. CASE UNCHANGED consumerVars BY <1>1 DEF consumerVars, Sums, Reports
<1>2. CASE ConsumerNext BY <1>2, ConsumerCounts
<1>3. MachineNext => UNCHANGED consumerVars BY MachineLogs DEF Machine
<1>4. RunNext => UNCHANGED consumerVars
  BY DEF RunNext, CreateTarget, SpawnFails, SetTargetPid, SeedTraced, SeedThread, ResumeTarget,
         WaitSeesExit, TerminateTarget, WaitTerminated, StopSession, Join, EndSink, Idle
<1> QED BY <1>1, <1>2, <1>3, <1>4 DEF Next, vars

(* The machine logs while the session is active, the consumer handles what *)
(* is there, and Run() looks at the buffers before it ends the sink.       *)
LEMMA QuietKept == Typed /\ Quiet /\ [Next]_vars => Quiet'
<1> SUFFICES ASSUME Typed, Quiet, [Next]_vars PROVE Quiet' OBVIOUS
<1>1. CASE MachineNext
  <2>1. Machine BY <1>1, MachineLogs
  <2> QED BY <2>1 DEF Machine, Quiet, runVars, consumerVars
<1>2. CASE ConsumerNext
  <2>1. PICK kind : Handles(kind)
    BY <1>2 DEF ConsumerNext, OnThreadStart, OnContextSwitch, OnSystemCall, OnProcessStart,
         OnProcessStop, OnImageLoad, OnFileOrNet, OnRegistry
  <2>2. consumer = "running" /\ buffer # << >> /\ UNCHANGED <<session, runVars>>
    BY <2>1 DEF Handles
  <2>3. phase \in {"end", "done"} => timedOut BY <2>2 DEF Quiet
  <2> QED BY <2>2, <2>3 DEF Quiet, runVars
<1>3. CASE RunNext
  <2>1. CASE Join BY <2>1 DEF Join, Joined, Run, Quiet, streamVars, consumerVars
  <2>2. CASE EndSink BY <2>2 DEF EndSink, Idle, Run, Quiet, streamVars, consumerVars
  <2>3. CASE StopSession \/ SpawnFails
    BY <2>3 DEF StopSession, SpawnFails, Run, Quiet
  <2> QED BY <1>3, <2>1, <2>2, <2>3
      DEF RunNext, CreateTarget, SetTargetPid, SeedTraced, SeedThread, ResumeTarget,
          WaitSeesExit, TerminateTarget, WaitTerminated, Run, Quiet
<1>4. CASE UNCHANGED vars BY <1>4 DEF vars, Quiet, streamVars, consumerVars, runVars
<1> QED BY <1>1, <1>2, <1>3, <1>4 DEF Next

(* EndSeesAll: when the consumer was joined in time and did not fail, the  *)
(* sink is ended after every event that was logged and not lost, with the  *)
(* number of events, of system calls and of processes that it was given    *)
(* (EtwEngine.cs:117-124).                                                 *)
THEOREM EndedWithAll == Spec => []EndSeesAll
<1>1. Init => Sums /\ Quiet
  <2> SUFFICES ASSUME Init PROVE Sums /\ Quiet OBVIOUS
  <2>1. out = << >> /\ total = 0 /\ syscalls = 0 /\ pids = {} /\ phase = "spawn" BY DEF Init
  <2>2. Calls(out) = {} /\ Reports = {} /\ Len(out) = 0 BY <2>1 DEF Calls, Reports
  <2>3. Cardinality(Calls(out)) = 0 BY <2>2, FS_EmptySet
  <2> QED BY <2>1, <2>2, <2>3 DEF Sums, Quiet
<1>2. Sums /\ Quiet => EndSeesAll
  BY DEF Sums, Quiet, EndSeesAll, Calls
<1> QED BY <1>1, <1>2, SumsKept, QuietKept, TypedAlways, PTL DEF Spec
=============================================================================
