----------------------------- MODULE TmonKernel -----------------------------
(***************************************************************************)
(* The kernel half of tmon-linux: the tasks of the machine, as far as the  *)
(* five tracepoints see them, and the BPF programs of bpf/tmon.bpf.c that  *)
(* run on them and share the `traced` and `decoding` maps, the `events`    *)
(* ring and the `dropped_events` counter.                                  *)
(*                                                                         *)
(* A task is named by its thread id.  Thread and process ids are one name  *)
(* space, as in the kernel: a process is named by the id of its leader.    *)
(* A record of the ring keeps the fields the pump tells apart, and three   *)
(* history fields the program does not have (owner, of, tree).             *)
(***************************************************************************)
EXTENDS Naturals, Sequences, FiniteSets

CONSTANTS
  Ids,             \* thread/process ids of the machine
  Target,          \* the process tmon spawns
  NoTask,          \* group of an id that no task has
  Configs,         \* the configurations tmon may be started with
  RingCap,         \* records the ring holds (64 MiB in the default build)
  MapCap,          \* max_entries of `traced` and of `decoding` (8192)
  Threads,         \* may programs create threads?
  ReuseIds,        \* may the kernel give a freed id to a new task?
  Outsiders,       \* may processes that tmon did not spawn start?
  MaxClock         \* bound: no new system call, fork or exec after this time

ASSUME KernelAssumption ==
  /\ Target \in Ids
  /\ NoTask \notin Ids
  /\ IsFiniteSet(Ids)
  /\ Configs \subseteq [follow : BOOLEAN, returns : BOOLEAN, decode : BOOLEAN,
                        max : Nat]
  /\ {Threads, ReuseIds, Outsiders} \subseteq BOOLEAN
  /\ RingCap \in Nat \ {0} /\ MapCap \in Nat \ {0} /\ MaxClock \in Nat

VARIABLES
  config,    \* follow_children, capture_returns, decode_args and max_events
  mode,      \* what each id's task is doing
  group,     \* tgid of each task
  killed,    \* has tmon sent SIGKILL to the target?
  traced,    \* BPF hash `traced`: the keys it holds
  decoding,  \* BPF hash `decoding`: the call whose pointers are stashed, or 0
  ring,      \* BPF ring buffer `events`
  dropped,   \* BPF counter `dropped_events`
  clock,     \* history: tracepoints of traced or followed tasks hit so far
  call,      \* history: the recorded enter of each task's current call, or 0
  family,    \* history: the target, its threads and the followed descendants
  used,      \* history: ids the kernel will not give again
  lost,      \* history: times of the records the full ring refused
  missed,    \* history: times the family passed a tracepoint unrecorded
  alien      \* history: times a task outside the family was recorded

taskVars   == <<mode, group, killed, family, used>>
recordVars == <<ring, dropped, clock, lost, missed, alien>>
kernelVars == <<config, taskVars, traced, decoding, call, recordVars>>

Running == {"user", "kernel", "leaving"}
Modes   == Running \cup {"free", "stopped", "zombie"}

Live(g) == {t \in Ids : group[t] = g /\ mode[t] \in Running \cup {"stopped"}}

Now == clock + 1

-----------------------------------------------------------------------------
(* A record as emit() copies it: `pid` and `tid` are what the program      *)
(* writes.  `owner` is the thread group that really passed the tracepoint, *)
(* `of` the call a SYS_EXIT belongs to, `tree` whether it is the family's. *)
Record(kind, pid, tid, t, of, arg) ==
  [kind |-> kind, ts |-> Now, pid |-> pid, tid |-> tid,
   owner |-> group[t], of |-> of, arg |-> arg, tree |-> t \in family]

RingFull_Late == Len(ring) > RingCap   \* mutation: one record too many
RingFull      == Len(ring) >= RingCap

CountDrop_Not == UNCHANGED dropped     \* mutation: a refusal is not counted
CountDrop     == dropped' = dropped + 1

(* emit(): the record goes into the ring, or the ring is full and only the *)
(* counter moves.                                                          *)
Observe(rec) ==
  /\ clock' = Now
  /\ \/ /\ ~RingFull
        /\ ring' = Append(ring, rec)
        /\ UNCHANGED <<dropped, lost>>
     \/ /\ RingFull
        /\ CountDrop
        /\ lost' = lost \cup {Now}
        /\ UNCHANGED ring
  /\ alien' = IF rec.tree THEN alien ELSE alien \cup {Now}
  /\ UNCHANGED missed

(* The early return of a program whose is_traced() lookup fails.           *)
Overlook(t) ==
  /\ \/ /\ t \in family
        /\ clock' = Now
        /\ missed' = missed \cup {Now}
     \/ /\ t \notin family
        /\ UNCHANGED <<clock, missed>>
  /\ UNCHANGED <<ring, dropped, lost, alien>>

IsTraced(key) == key \in traced

Insert_OneShort(map, key) ==  \* mutation: the last slot is never used
  IF Cardinality(map) + 1 < MapCap THEN map \cup {key} ELSE map

(* bpf_map_update_elem on a full hash fails, and nobody looks at the       *)
(* result.                                                                 *)
Insert(map, key) ==
  IF Cardinality(map) < MapCap THEN map \cup {key} ELSE map

(* The two deletions.  A process leaves `traced` with its leader.          *)
Unstash_Not(t) == UNCHANGED decoding   \* mutation: a stash is never deleted
Unstash(t)     == decoding' = [decoding EXCEPT ![t] = 0]

Untrace_Not(t) == UNCHANGED traced     \* mutation: a dead process stays traced
Untrace(t)     == traced' = IF t = group[t] THEN traced \ {t} ELSE traced

Stashed == {t \in Ids : decoding[t] # 0}

-----------------------------------------------------------------------------
(* tmon_sys_enter.  `ptr` says whether the call has a path or sockaddr     *)
(* argument that is not NULL.                                              *)
SysEnter(t, ptr) ==
  LET stash == ptr /\ config.decode /\ config.returns
      now   == ptr /\ config.decode /\ ~config.returns
      rec   == Record("SYS_ENTER", group[t], t, t, Now, IF now THEN Now ELSE 0)
  IN
  /\ mode[t] = "user" /\ clock < MaxClock
  /\ ~(killed /\ group[t] = Target)
  /\ mode' = [mode EXCEPT ![t] = "kernel"]
  /\ \/ /\ IsTraced(group[t])
        /\ call' = [call EXCEPT ![t] = Now]
        /\ decoding' = IF stash /\ t \in Insert(Stashed, t)
                       THEN [decoding EXCEPT ![t] = Now]
                       ELSE decoding
        /\ Observe(rec)
     \/ /\ ~IsTraced(group[t])
        /\ call' = [call EXCEPT ![t] = 0]
        /\ Overlook(t)
        /\ UNCHANGED decoding
  /\ UNCHANGED <<config, group, killed, family, used, traced>>

(* tmon_sys_exit.  Without capture_returns the program returns at once.    *)
(* A program that is not traced any more leaves its stash behind.          *)
SysExit(t) ==
  LET rec == Record("SYS_EXIT", group[t], t, t, call[t],
                    IF config.decode THEN decoding[t] ELSE 0)
  IN
  /\ mode[t] \in {"kernel", "leaving"}
  /\ mode' = [mode EXCEPT ![t] = "user"]
  /\ call' = [call EXCEPT ![t] = 0]
  /\ \/ /\ config.returns /\ IsTraced(group[t])
        /\ IF config.decode THEN Unstash(t) ELSE UNCHANGED decoding
        /\ Observe(rec)
     \/ /\ config.returns /\ ~IsTraced(group[t])
        /\ Overlook(t)
        /\ UNCHANGED decoding
     \/ /\ ~config.returns
        /\ UNCHANGED <<decoding, recordVars>>
  /\ UNCHANGED <<config, group, killed, family, used, traced>>

(* tmon_fork.  The tracepoint's parent_pid and child_pid are thread ids:   *)
(* the program looks up, and reports, the forking thread as if it were the *)
(* process, and a new thread's id enters `traced` like a process's.        *)
Fork(t, c, thread) ==
  LET followed == t \in family /\ (config.follow \/ thread) IN
  /\ mode[t] = "kernel" /\ clock < MaxClock
  /\ ~(killed /\ group[t] = Target)
  /\ mode[c] = "free" /\ (ReuseIds \/ c \notin used)
  /\ thread => Threads
  /\ mode' = [mode EXCEPT ![t] = "leaving", ![c] = "leaving"]
  /\ group' = [group EXCEPT ![c] = IF thread THEN group[t] ELSE c]
  /\ call' = [call EXCEPT ![c] = 0]
  /\ family' = IF followed THEN family \cup {c} ELSE family
  /\ used' = IF ReuseIds THEN used ELSE used \cup {c}
  /\ \/ /\ IsTraced(t)
        /\ traced' = IF config.follow THEN Insert(traced, c) ELSE traced
        /\ Observe(Record("FORK", t, t, t, 0, 0))
     \/ /\ ~IsTraced(t)
        /\ Overlook(t)
        /\ UNCHANGED traced
  /\ UNCHANGED <<config, killed, decoding>>

(* tmon_exec.  de_thread() waits for the other threads to die and gives    *)
(* the leader's id to the calling thread before the tracepoint.            *)
Exec(t) ==
  LET g == group[t] IN
  /\ mode[t] = "kernel" /\ clock < MaxClock
  /\ ~(killed /\ g = Target)
  /\ Live(g) = {t}
  /\ mode' = [[mode EXCEPT ![t] = "free"] EXCEPT ![g] = "leaving"]
  /\ group' = [[group EXCEPT ![t] = NoTask] EXCEPT ![g] = g]
  /\ call' = [[call EXCEPT ![t] = 0] EXCEPT ![g] = call[t]]
  /\ family' = (family \ {t}) \cup (IF t \in family THEN {g} ELSE {})
  /\ \/ IsTraced(g) /\ Observe(Record("EXEC", g, g, t, 0, 0))
     \/ ~IsTraced(g) /\ Overlook(t)
  /\ UNCHANGED <<config, killed, used, traced, decoding>>

(* tmon_exit: a task dies, of itself or by a signal, in user mode or in    *)
(* the middle of a call.  The leader's death ends the tracing of the       *)
(* process, even while other threads of it live.                           *)
Exit(t) ==
  LET g == group[t] IN
  /\ mode[t] \in Running
  /\ mode' = [mode EXCEPT ![t] = IF t = g THEN "zombie" ELSE "free"]
  /\ group' = [group EXCEPT ![t] = IF t = g THEN g ELSE NoTask]
  /\ family' = IF t = g THEN family ELSE family \ {t}
  /\ call' = [call EXCEPT ![t] = 0]
  /\ \/ /\ IsTraced(g)
        /\ Unstash(t)
        /\ Untrace(t)
        /\ Observe(Record("EXIT", g, t, t, 0, 0))
     \/ /\ ~IsTraced(g)
        /\ Overlook(t)
        /\ UNCHANGED <<decoding, traced>>
  /\ UNCHANGED <<config, killed, used>>

-----------------------------------------------------------------------------
(* A dead process's id is freed when its parent waits for it.              *)
Release(p) ==
  /\ mode[p] = "zombie" /\ Live(p) = {}
  /\ mode' = [mode EXCEPT ![p] = "free"]
  /\ group' = [group EXCEPT ![p] = NoTask]
  /\ family' = family \ {p}

Reap(p) ==
  /\ p # Target
  /\ Release(p)
  /\ UNCHANGED <<config, killed, used, traced, decoding, call, recordVars>>

(* A process tmon knows nothing of starts (one at a time in this model).   *)
Spawn(c) ==
  /\ Outsiders
  /\ \A t \in Ids : mode[t] # "free" => t \in family
  /\ mode[c] = "free" /\ (ReuseIds \/ c \notin used)
  /\ mode' = [mode EXCEPT ![c] = "user"]
  /\ group' = [group EXCEPT ![c] = c]
  /\ used' = IF ReuseIds THEN used ELSE used \cup {c}
  /\ UNCHANGED <<config, killed, family, traced, decoding, call, recordVars>>

KernelInit ==
  /\ config \in Configs
  /\ mode = [t \in Ids |-> IF t = Target THEN "stopped" ELSE "free"]
  /\ group = [t \in Ids |-> IF t = Target THEN Target ELSE NoTask]
  /\ killed = FALSE
  /\ traced = {}
  /\ decoding = [t \in Ids |-> 0]
  /\ ring = << >>
  /\ dropped = 0
  /\ clock = 0
  /\ call = [t \in Ids |-> 0]
  /\ family = {Target}
  /\ used = {Target}
  /\ lost = {}
  /\ missed = {}
  /\ alien = {}

KernelNext ==
  \/ \E t \in Ids, ptr \in BOOLEAN : SysEnter(t, ptr)
  \/ \E t \in Ids : SysExit(t)
  \/ \E t, c \in Ids, thread \in BOOLEAN : Fork(t, c, thread)
  \/ \E t \in Ids : Exec(t)
  \/ \E t \in Ids : Exit(t)
  \/ \E p \in Ids : Reap(p)
  \/ \E c \in Ids : Spawn(c)

-----------------------------------------------------------------------------
RecordKinds == {"SYS_ENTER", "SYS_EXIT", "FORK", "EXEC", "EXIT"}

Records ==
  [kind : RecordKinds, ts : Nat \ {0}, pid : Ids, tid : Ids, owner : Ids,
   of : Nat, arg : Nat, tree : BOOLEAN]

(* Types of the kernel side.                                               *)
KernelTypeOK ==
  /\ config \in Configs
  /\ mode \in [Ids -> Modes]
  /\ group \in [Ids -> Ids \cup {NoTask}]
  /\ \A t \in Ids : group[t] = NoTask <=> mode[t] = "free"
  /\ killed \in BOOLEAN
  /\ traced \subseteq Ids
  /\ decoding \in [Ids -> Nat]
  /\ ring \in Seq(Records)
  /\ Len(ring) <= RingCap
  /\ dropped \in Nat
  /\ clock \in Nat
  /\ call \in [Ids -> Nat]
  /\ family \subseteq Ids
  /\ used \subseteq Ids
  /\ lost \subseteq 1..clock
  /\ missed \subseteq 1..clock
  /\ alien \subseteq 1..clock
=============================================================================
