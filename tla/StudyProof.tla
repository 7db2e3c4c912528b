----------------------------- MODULE StudyProof -----------------------------
(***************************************************************************)
(* What a study does to its hosts and keeps of its evidence (Fleet), for   *)
(* every fleet, any number of failures and any number of restarts: the     *)
(* driver sends a phase to a host once (SentOnce), hosts are given up only *)
(* when the evidence has been kept (KeptBeforeGone), and a receipt of a    *)
(* host whose commands all have their ids on disk names a complete archive *)
(* (VerifiedIsComplete).                                                   *)
(*                                                                         *)
(* None is inductive.  SentOnce says nothing of where the thread is: a     *)
(* phase about to be sent has been sent as often as an id was lost, no     *)
(* more.  For the second, "whole" has to be followed from the verification *)
(* file back to the collectors, and the watcher's and the finalizer's      *)
(* progress to what they saw; for the third, the evidence has to be tied   *)
(* to the place of the only script that makes it, and the archive's script *)
(* to that one's success.                                                  *)
(*                                                                         *)
(* The other parts of a study are proved in modules of their own; at the   *)
(* end, what they show is carried over to the behaviours of MCStudy, in    *)
(* which the parts stand side by side.                                     *)
(***************************************************************************)
EXTENDS MCStudy, FiniteSetTheorems, TLAPS

(***************************************************************************)
(* What was sent.                                                          *)
(***************************************************************************)
Places == {"ready", "phase", "record", "tar", "sum", "verified", "error", "off"}
Stages == {"staging", "primitives", "collecting", "composites", "measuring",
           "tar", "put-tar", "put-sum", "Success", "Failed"}
Commanded == [phase : Phases, at : Stages]

SendTypes ==
    /\ pc \in [Hosts -> Places]
    /\ phase \in [Hosts -> Phases]
    /\ meta \in [Hosts -> [Phases -> Nat]]
    /\ lost \in [Hosts -> [Phases -> Nat]]
    /\ cmds \in [Hosts -> Seq(Commanded)]

\* The id of a command is on disk, or on its way there.
Known(h, p) == meta[h][p] # 0 \/ (pc[h] = "record" /\ phase[h] = p)

Budget(h, p) == lost[h][p] + IF Known(h, p) THEN 1 ELSE 0

SendInv ==
    /\ SendTypes
    /\ \A h \in Hosts : pc[h] = "record" => up /\ cmds[h] # << >>
    /\ \A h \in Hosts, p \in Phases : Sent(h, p) <= Budget(h, p)

(***************************************************************************)
(* Counting the commands of a phase.                                       *)
(***************************************************************************)
Count(s, p) == Cardinality({i \in DOMAIN s : s[i].phase = p})

(* The count is a number.                                                  *)
LEMMA CountType ==
  ASSUME NEW s \in Seq(Commanded), NEW p PROVE Count(s, p) \in Nat
<1>1. IsFiniteSet(1 .. Len(s)) BY FS_Interval
<1>2. {i \in DOMAIN s : s[i].phase = p} \subseteq 1 .. Len(s) OBVIOUS
<1> QED BY <1>1, <1>2, FS_Subset, FS_CardinalityType DEF Count

(* So is the number of commands sent to a host for a phase.                *)
LEMMA SentType ==
  ASSUME SendTypes, NEW h \in Hosts, NEW p \in Phases
  PROVE  Sent(h, p) \in Nat
<1>1. cmds[h] \in Seq(Commanded) BY DEF SendTypes
<1>2. Sent(h, p) = Count(cmds[h], p) BY DEF Sent, Count
<1> QED BY <1>1, <1>2, CountType

(* One more command is counted at most once, and under its own phase only. *)
LEMMA CountAppend ==
  ASSUME NEW s \in Seq(Commanded), NEW c \in Commanded, NEW p
  PROVE  Count(Append(s, c), p) = Count(s, p) + IF c.phase = p THEN 1 ELSE 0
<1> DEFINE A == {i \in DOMAIN s : s[i].phase = p}
           B == {i \in DOMAIN Append(s, c) : Append(s, c)[i].phase = p}
           n == Len(s) + 1
<1>1. IsFiniteSet(A)
  <2>1. IsFiniteSet(1 .. Len(s)) BY FS_Interval
  <2> QED BY <2>1, FS_Subset
<1>2. n \notin A OBVIOUS
<1>3. B = IF c.phase = p THEN A \cup {n} ELSE A
  <2>1. DOMAIN Append(s, c) = DOMAIN s \cup {n} OBVIOUS
  <2>2. \A i \in DOMAIN s : Append(s, c)[i] = s[i] OBVIOUS
  <2>3. Append(s, c)[n] = c OBVIOUS
  <2> QED BY <2>1, <2>2, <2>3
<1>4. Cardinality(A) \in Nat BY <1>1, FS_CardinalityType
<1>5. Count(s, p) = Cardinality(A) /\ Count(Append(s, c), p) = Cardinality(B)
  BY DEF Count
<1>6. Cardinality(A \cup {n}) = Cardinality(A) + 1
  <2> HIDE DEF A
  <2> QED BY <1>1, <1>2, FS_AddElement
<1> HIDE DEF A, B
<1>7. CASE c.phase = p BY <1>3, <1>5, <1>6, <1>7
<1>8. CASE c.phase # p BY <1>3, <1>4, <1>5, <1>8
<1> QED BY <1>7, <1>8

(* A command's progress leaves the sequence a sequence and the phases alone. *)
LEMMA Progress ==
  ASSUME NEW s \in Seq(Commanded), NEW i \in DOMAIN s, NEW to \in Stages
  PROVE  LET t == [s EXCEPT ![i].at = to]
         IN  /\ t \in Seq(Commanded)
             /\ DOMAIN t = DOMAIN s
             /\ Len(t) = Len(s)
             /\ \A j \in DOMAIN s : t[j].phase = s[j].phase
<1> DEFINE c == [s[i] EXCEPT !.at = to]  t == [s EXCEPT ![i] = c]
<1>1. s[i] \in Commanded OBVIOUS
<1>2. c \in Commanded /\ c.phase = s[i].phase BY <1>1 DEF Commanded
<1> HIDE DEF c
<1>3. t \in Seq(Commanded) /\ DOMAIN t = DOMAIN s /\ Len(t) = Len(s) BY <1>2
<1>4. \A j \in DOMAIN s : t[j] = IF j = i THEN c ELSE s[j] OBVIOUS
<1>5. \A j \in DOMAIN s : t[j].phase = s[j].phase BY <1>2, <1>4
<1>6. t = [s EXCEPT ![i].at = to] BY DEF c
<1> QED BY <1>3, <1>5, <1>6

(* The progress of a command does not change its phase.                    *)
LEMMA MoveKeeps ==
  ASSUME SendTypes, NEW h \in Hosts, NEW i \in DOMAIN cmds[h], NEW to \in Stages,
         Move(h, i, to), UNCHANGED fleet
  PROVE  /\ cmds' \in [Hosts -> Seq(Commanded)]
         /\ \A k \in Hosts : cmds[k] # << >> => cmds'[k] # << >>
         /\ \A k \in Hosts, p \in Phases : Sent(k, p)' = Sent(k, p)
<1> USE DEF SendTypes
<1> DEFINE s == cmds[h]  t == [s EXCEPT ![i].at = to]
<1>1. s \in Seq(Commanded) OBVIOUS
<1>2. /\ t \in Seq(Commanded) /\ DOMAIN t = DOMAIN s /\ Len(t) = Len(s)
      /\ \A j \in DOMAIN s : t[j].phase = s[j].phase
  BY <1>1, Progress
<1> HIDE DEF t
<1>3. cmds' = [cmds EXCEPT ![h] = t] BY DEF Move, t
<1>4. \A k \in Hosts : cmds'[k] = IF k = h THEN t ELSE cmds[k] BY <1>3
<1>5. ASSUME NEW k \in Hosts, NEW p \in Phases PROVE Sent(k, p)' = Sent(k, p)
  <2>1. CASE k = h
    <3>1. DOMAIN t = DOMAIN s BY <1>1, <1>2
    <3>2. {j \in DOMAIN t : t[j].phase = p} = {j \in DOMAIN s : s[j].phase = p}
      BY <1>2, <3>1
    <3> QED BY <1>4, <2>1, <3>2 DEF Sent
  <2>2. CASE k # h BY <1>4, <2>2 DEF Sent
  <2> QED BY <2>1, <2>2
<1>6. s # << >> => t # << >> BY <1>1, <1>2
<1>7. cmds' \in [Hosts -> Seq(Commanded)] BY <1>2, <1>3
<1>8. \A k \in Hosts : cmds[k] # << >> => cmds'[k] # << >> BY <1>4, <1>6
<1> QED BY <1>5, <1>7, <1>8

(***************************************************************************)
(* Steps that send nothing and note nothing.                               *)
(***************************************************************************)

(* The commands are the same as far as they are counted, no thread comes   *)
(* to note an id or leaves without, and none of those changes its phase.   *)
LEMMA Quiet ==
  ASSUME SendInv, UNCHANGED <<fleet, meta, lost>>,
         pc' \in [Hosts -> Places], phase' \in [Hosts -> Phases],
         \A k \in Hosts : pc'[k] = "record" <=> pc[k] = "record",
         \A k \in Hosts : pc[k] = "record" => up' /\ phase'[k] = phase[k],
         cmds' \in [Hosts -> Seq(Commanded)],
         \A k \in Hosts : cmds[k] # << >> => cmds'[k] # << >>,
         \A k \in Hosts, p \in Phases : Sent(k, p)' = Sent(k, p)
  PROVE  SendInv'
<1>0. Hosts' = Hosts BY DEF Hosts
<1>1. SendTypes' BY <1>0 DEF SendInv, SendTypes
<1>2. \A k \in Hosts' : pc'[k] = "record" => up' /\ cmds'[k] # << >>
  BY <1>0 DEF SendInv
<1>3. \A k \in Hosts, p \in Phases : Budget(k, p)' = Budget(k, p)
  BY DEF Budget, Known
<1>4. \A k \in Hosts', p \in Phases : Sent(k, p)' <= Budget(k, p)'
  BY <1>0, <1>3 DEF SendInv
<1> QED BY <1>1, <1>2, <1>4 DEF SendInv

(* A thread goes from a place other than "record" to another such place.   *)
LEMMA Goes1 ==
  ASSUME SendInv, NEW h \in Hosts, NEW to \in Places \ {"record"},
         up, pc[h] # "record", Go(h, to), UNCHANGED <<fleet, up, phase, meta, lost, cmds>>
  PROVE  SendInv'
<1>1. pc' \in [Hosts -> Places] BY DEF Go, SendInv, SendTypes
<1>2. \A k \in Hosts : pc'[k] = IF k = h THEN to ELSE pc[k]
  BY DEF Go, SendInv, SendTypes
<1>3. \A k \in Hosts, p \in Phases : Sent(k, p)' = Sent(k, p) BY DEF Sent
<1>4. phase' \in [Hosts -> Phases] /\ cmds' \in [Hosts -> Seq(Commanded)]
  BY DEF SendInv, SendTypes
<1>5. \A k \in Hosts : pc'[k] = "record" <=> pc[k] = "record" BY <1>2
<1>6. \A k \in Hosts : pc[k] = "record" => up' /\ phase'[k] = phase[k] OBVIOUS
<1>7. \A k \in Hosts : cmds[k] # << >> => cmds'[k] # << >> OBVIOUS
<1> QED BY <1>1, <1>3, <1>4, <1>5, <1>6, <1>7, Quiet

(* Nothing of the driver or of the commands changes.                       *)
LEMMA Elsewhere ==
  ASSUME SendInv, UNCHANGED <<fleet, up, pc, phase, meta, lost, cmds>>
  PROVE  SendInv'
<1>1. pc' \in [Hosts -> Places] /\ phase' \in [Hosts -> Phases]
      /\ cmds' \in [Hosts -> Seq(Commanded)]
  BY DEF SendInv, SendTypes
<1>2. \A k \in Hosts, p \in Phases : Sent(k, p)' = Sent(k, p) BY DEF Sent
<1>3. \A k \in Hosts : pc[k] = "record" => up' BY DEF SendInv
<1> QED BY <1>1, <1>2, <1>3, Quiet

(***************************************************************************)
(* One lemma per step that concerns what was sent.                         *)
(***************************************************************************)

(* A command is sent only while no id of the phase is known; then the id   *)
(* is on its way to the disk, or counted as lost.                          *)
LEMMA SendKeeps == ASSUME SendInv, NEW h \in Hosts, Send(h) PROVE SendInv'
<1> DEFINE q == phase[h]
           c == [phase |-> q, at |-> FirstStep[q]]
<1>0. Hosts' = Hosts /\ q \in Phases /\ up /\ pc[h] = "phase" /\ meta[h][q] = 0
  BY DEF Hosts, Send, Thread, SendInv, SendTypes
<1>1. CASE UNCHANGED <<cmds, lost>> /\ Go(h, "error")
  BY <1>0, <1>1, Goes1 DEF Send, Places
<1>2. ASSUME cmds' = [cmds EXCEPT ![h] = Append(@, c)],
             \/ Go(h, "record") /\ UNCHANGED lost
             \/ Go(h, "error") /\ lost' = [lost EXCEPT ![h][q] = @ + 1]
      PROVE  SendInv'
  <2>1. c \in Commanded BY <1>0 DEF Commanded, Stages, FirstStep, Phases
  <2>2. cmds' \in [Hosts -> Seq(Commanded)]
        /\ \A k \in Hosts : cmds'[k] = IF k = h THEN Append(cmds[h], c) ELSE cmds[k]
    BY <1>2, <2>1 DEF SendInv, SendTypes
  <2>3. pc' \in [Hosts -> Places]
        /\ \A k \in Hosts : k # h => pc'[k] = pc[k]
    BY <1>2 DEF Go, SendInv, SendTypes, Places
  <2>4. lost' \in [Hosts -> [Phases -> Nat]]
        /\ \A k \in Hosts, p \in Phases :
             k # h \/ p # q => lost'[k][p] = lost[k][p]
    <3>1. CASE UNCHANGED lost BY <3>1 DEF SendInv, SendTypes
    <3>2. CASE lost' = [lost EXCEPT ![h][q] = @ + 1]
      <4> HIDE DEF q
      <4> QED BY <1>0, <3>2 DEF SendInv, SendTypes
    <3> QED BY <1>2, <3>1, <3>2
  <2>5. up' /\ phase' = phase /\ meta' = meta BY <1>0 DEF Send
  <2>6. SendTypes' BY <1>0, <2>2, <2>3, <2>4, <2>5 DEF SendInv, SendTypes
  <2>7. \A k \in Hosts' : pc'[k] = "record" => up' /\ cmds'[k] # << >>
    <3>1. Append(cmds[h], c) # << >>
      <4>1. cmds[h] \in Seq(Commanded) BY DEF SendInv, SendTypes
      <4> HIDE DEF c
      <4>2. Len(Append(cmds[h], c)) = Len(cmds[h]) + 1 /\ Len(cmds[h]) \in Nat
        BY <2>1, <4>1
      <4> QED BY <4>2
    <3> QED BY <1>0, <2>2, <2>3, <2>5, <3>1 DEF SendInv
  <2>8. ASSUME NEW k \in Hosts, NEW p \in Phases PROVE Sent(k, p)' <= Budget(k, p)'
    <3>1. Sent(k, p) <= Budget(k, p) BY DEF SendInv
    <3>2. CASE k # h
      <4>1. Sent(k, p)' = Sent(k, p) BY <2>2, <3>2 DEF Sent
      <4>2. Budget(k, p)' = Budget(k, p)
        BY <2>3, <2>4, <2>5, <3>2 DEF Budget, Known, SendInv, SendTypes
      <4> QED BY <3>1, <4>1, <4>2
    <3>3. CASE k = h /\ p # q
      <4>1. Sent(k, p)' = Sent(k, p)
        <5>1. Count(Append(cmds[h], c), p) = Count(cmds[h], p) + 0
          BY <2>1, <3>3, CountAppend DEF SendInv, SendTypes
        <5>2. Count(cmds[h], p) \in Nat BY CountType DEF SendInv, SendTypes
        <5>3. Sent(k, p) = Count(cmds[h], p) /\ Sent(k, p)' = Count(Append(cmds[h], c), p)
          BY <2>2, <3>3 DEF Sent, Count
        <5> HIDE DEF c
        <5> QED BY <5>1, <5>2, <5>3
      <4>2. Known(k, p)' = Known(k, p) BY <1>0, <2>5, <3>3 DEF Known
      <4>3. lost'[k][p] = lost[k][p] BY <2>4, <3>3 DEF SendInv, SendTypes
      <4> QED BY <3>1, <4>1, <4>2, <4>3 DEF Budget
    <3>4. CASE k = h /\ p = q
      <4>1. Sent(k, p)' = Sent(k, p) + 1
        <5>1. Count(Append(cmds[h], c), p) = Count(cmds[h], p) + 1
          BY <2>1, <3>4, CountAppend DEF SendInv, SendTypes
        <5> QED BY <2>2, <3>4, <5>1 DEF Sent, Count
      <4>2. Sent(k, p) <= lost[k][p] BY <1>0, <3>1, <3>4 DEF Budget, Known, SendInv, SendTypes
      <4>3. Sent(k, p) \in Nat BY SentType DEF SendInv
      <4>4. lost[k][p] \in Nat BY DEF SendInv, SendTypes
      <4>5. CASE Go(h, "record") /\ UNCHANGED lost
        <5>1. pc'[k] = "record" /\ phase'[k] = p
          BY <2>5, <3>4, <4>5 DEF Go, SendInv, SendTypes
        <5>2. Budget(k, p)' = lost[k][p] + 1 BY <4>5, <5>1 DEF Budget, Known
        <5> QED BY <4>1, <4>2, <4>3, <4>4, <5>2
      <4>6. CASE lost' = [lost EXCEPT ![h][q] = @ + 1]
        <5>1. lost'[k][p] = lost[k][p] + 1 BY <3>4, <4>6 DEF SendInv, SendTypes
        <5>2. Budget(k, p)' \in Nat /\ Budget(k, p)' >= lost[k][p] + 1
          BY <4>4, <5>1 DEF Budget
        <5> QED BY <4>1, <4>2, <4>3, <4>4, <5>2
      <4> QED BY <1>2, <4>5, <4>6
    <3> QED BY <3>2, <3>3, <3>4
  <2> QED BY <1>0, <2>6, <2>7, <2>8 DEF SendInv
<1> QED BY <1>1, <1>2 DEF Send

(* The id reaches the disk.                                                *)
LEMMA RecordKeeps == ASSUME SendInv, NEW h \in Hosts, Record(h) PROVE SendInv'
<1> DEFINE q == phase[h]  n == Len(cmds[h])
<1>0. Hosts' = Hosts /\ q \in Phases /\ pc[h] = "record"
      /\ UNCHANGED <<up, phase, lost, cmds>>
  BY DEF Hosts, Record, Thread, SendInv, SendTypes, remote
<1>1. n \in Nat /\ n # 0 BY <1>0 DEF SendInv, SendTypes
<1>2. meta' \in [Hosts -> [Phases -> Nat]]
      /\ \A k \in Hosts, p \in Phases :
           meta'[k][p] = IF k = h /\ p = q THEN n ELSE meta[k][p]
  <2>1. meta' = [meta EXCEPT ![h][q] = n] BY DEF Record
  <2> HIDE DEF n, q
  <2> QED BY <1>0, <1>1, <2>1 DEF SendInv, SendTypes
<1>3. pc' \in [Hosts -> Places]
      /\ \A k \in Hosts : pc'[k] = IF k = h THEN "phase" ELSE pc[k]
  BY DEF Record, Go, SendInv, SendTypes, Places
<1>4. SendTypes' BY <1>0, <1>2, <1>3 DEF SendInv, SendTypes
<1>5. \A k \in Hosts' : pc'[k] = "record" => up' /\ cmds'[k] # << >>
  BY <1>0, <1>3 DEF SendInv
<1>6. \A k \in Hosts, p \in Phases : Known(k, p)' <=> Known(k, p)
  BY <1>0, <1>1, <1>2, <1>3 DEF Known
<1>7. \A k \in Hosts, p \in Phases : Sent(k, p)' = Sent(k, p) /\ Budget(k, p)' = Budget(k, p)
  BY <1>0, <1>6 DEF Sent, Budget
<1> QED BY <1>0, <1>4, <1>5, <1>7 DEF SendInv

(* Wherever the driver is stopped: an id not yet on disk is counted lost.  *)
LEMMA StopKeeps == ASSUME SendInv, Stop PROVE SendInv'
<1> DEFINE on(k, p) == pc[k] = "record" /\ phase[k] = p
<1>0. Hosts' = Hosts /\ UNCHANGED <<phase, meta, cmds>>
  BY DEF Stop, Hosts, remote
<1>1. lost' \in [Hosts -> [Phases -> Nat]]
      /\ \A k \in Hosts, p \in Phases :
           lost'[k][p] = lost[k][p] + IF on(k, p) THEN 1 ELSE 0
  BY DEF Stop, SendInv, SendTypes
<1>2. pc' \in [Hosts -> Places] /\ \A k \in Hosts : pc'[k] = "off"
  BY DEF Stop, Places
<1>3. SendTypes' BY <1>0, <1>1, <1>2 DEF SendInv, SendTypes
<1>4. \A k \in Hosts' : pc'[k] = "record" => up' /\ cmds'[k] # << >>
  BY <1>0, <1>2
<1>5. ASSUME NEW k \in Hosts, NEW p \in Phases PROVE Sent(k, p)' <= Budget(k, p)'
  <2>1. Sent(k, p) <= Budget(k, p) BY DEF SendInv
  <2>2. Sent(k, p)' = Sent(k, p) BY <1>0 DEF Sent
  <2>3. Sent(k, p) \in Nat BY SentType DEF SendInv
  <2>4. lost[k][p] \in Nat BY DEF SendInv, SendTypes
  <2>5. Known(k, p)' <=> meta[k][p] # 0 BY <1>0, <1>2 DEF Known
  <2>6. Known(k, p) <=> meta[k][p] # 0 \/ on(k, p) BY DEF Known
  <2>7. Budget(k, p) = lost[k][p] + IF Known(k, p) THEN 1 ELSE 0 BY DEF Budget
  <2>8. Budget(k, p)' = lost[k][p] + (IF on(k, p) THEN 1 ELSE 0)
                          + IF meta[k][p] # 0 THEN 1 ELSE 0
    BY <1>1, <2>4, <2>5 DEF Budget
  <2> HIDE DEF on
  <2> QED BY <2>1, <2>2, <2>3, <2>4, <2>6, <2>7, <2>8
<1> QED BY <1>0, <1>3, <1>4, <1>5 DEF SendInv

(***************************************************************************)
(* The other steps.                                                        *)
(***************************************************************************)

(* A script on a host makes progress.                                      *)
LEMMA Moved ==
  ASSUME SendInv, NEW h \in Hosts, NEW i \in DOMAIN cmds[h], NEW to \in Stages,
         Move(h, i, to), UNCHANGED driver
  PROVE  SendInv'
<1>1. UNCHANGED <<fleet, up, pc, phase, meta, lost>> BY DEF driver
<1>2. /\ cmds' \in [Hosts -> Seq(Commanded)]
      /\ \A k \in Hosts : cmds[k] # << >> => cmds'[k] # << >>
      /\ \A k \in Hosts, p \in Phases : Sent(k, p)' = Sent(k, p)
  BY <1>1, MoveKeeps DEF SendInv
<1>3. pc' \in [Hosts -> Places] /\ phase' \in [Hosts -> Phases]
  BY <1>1 DEF SendInv, SendTypes
<1>4. \A k \in Hosts : pc[k] = "record" => up' BY <1>1 DEF SendInv
<1> QED BY <1>1, <1>2, <1>3, <1>4, Quiet

LEMMA HostKeeps ==
  ASSUME SendInv, NEW h \in Hosts, NEW i \in Commands(h), HostStep(h, i)
  PROVE  SendInv'
<1>0. i \in DOMAIN cmds[h] BY DEF Commands, SendInv, SendTypes
<1>1. CASE Stage(h, i) BY <1>0, <1>1, Moved DEF Stage, Goes, Fails, Stages
<1>2. CASE Prologue(h, i) BY <1>0, <1>2, Moved DEF Prologue, Fails, Stages
<1>3. CASE Tar(h, i) BY <1>0, <1>3, Moved DEF Tar, Goes, Fails, Stages
<1>4. CASE Expire(h, i) BY <1>0, <1>4, Moved DEF Expire, Stages
<1>5. CASE Put(h, i, "put-tar", "tar", "put-sum")
  BY <1>0, <1>5, Moved DEF Put, Goes, Fails, Stages
<1>6. CASE Put(h, i, "put-sum", "sum", "Success")
  BY <1>0, <1>6, Moved DEF Put, Goes, Fails, Stages
<1>7. ASSUME NEW c \in Cohorts, Collect(h, i, c) \/ Collected(h, i, c)
      PROVE  SendInv'
  <2>1. Busy[c] \in Stages /\ Following(c) \in Stages
    BY DEF Cohorts, Busy, Following, Stages
  <2> QED BY <1>0, <1>7, <2>1, Moved DEF Collect, Collected
<1> QED BY <1>1, <1>2, <1>3, <1>4, <1>5, <1>6, <1>7 DEF HostStep

(* A finished phase is followed by the next; nobody is at "record".        *)
LEMMA PollKeeps == ASSUME SendInv, NEW h \in Hosts, Poll(h) PROVE SendInv'
<1>0. up /\ pc[h] = "phase" /\ UNCHANGED <<fleet, up, meta, lost, cmds>>
  BY DEF Poll, Thread, remote
<1>1. CASE UNCHANGED phase /\ \E to \in {"error", "tar"} : Go(h, to)
  BY <1>0, <1>1, Goes1 DEF Places
<1>2. ASSUME UNCHANGED pc, phase[h] # "archive", phase' = [phase EXCEPT ![h] = After[@]]
      PROVE  SendInv'
  <2>1. phase[h] \in Phases BY DEF SendInv, SendTypes
  <2>2. After[phase[h]] \in Phases BY <1>2, <2>1 DEF After, Phases
  <2>3. phase' \in [Hosts -> Phases]
        /\ \A k \in Hosts : k # h => phase'[k] = phase[k]
    BY <1>2, <2>2 DEF SendInv, SendTypes
  <2>4. pc' \in [Hosts -> Places] /\ cmds' \in [Hosts -> Seq(Commanded)]
    BY <1>0, <1>2 DEF SendInv, SendTypes
  <2>5. \A k \in Hosts, p \in Phases : Sent(k, p)' = Sent(k, p) BY <1>0 DEF Sent
  <2>6. \A k \in Hosts : pc[k] = "record" => up' /\ phase'[k] = phase[k]
    BY <1>0, <2>3
  <2>7. \A k \in Hosts : pc'[k] = "record" <=> pc[k] = "record" BY <1>2
  <2> QED BY <1>0, <2>3, <2>4, <2>5, <2>6, <2>7, Quiet
<1> QED BY <1>1, <1>2 DEF Poll

LEMMA ThreadKeeps == ASSUME SendInv, NEW h \in Hosts, ThreadStep(h) PROVE SendInv'
<1>1. CASE Ready(h)
  <2>1. up /\ pc[h] # "record" /\ UNCHANGED <<fleet, up, phase, meta, lost, cmds>>
    BY <1>1 DEF Ready, Thread, remote
  <2>2. Go(h, "phase") \/ Go(h, "error") BY <1>1 DEF Ready
  <2> QED BY <2>1, <2>2, Goes1 DEF Places
<1>2. CASE FetchTar(h)
  <2>1. up /\ pc[h] # "record" /\ UNCHANGED <<fleet, up, phase, meta, lost, cmds>>
    BY <1>2 DEF FetchTar, Thread, remote
  <2>2. Go(h, "sum") \/ Go(h, "error") BY <1>2 DEF FetchTar, NotFetched
  <2> QED BY <2>1, <2>2, Goes1 DEF Places
<1>3. CASE FetchSum(h)
  <2>1. up /\ pc[h] # "record" /\ UNCHANGED <<fleet, up, phase, meta, lost, cmds>>
    BY <1>3 DEF FetchSum, Thread, remote
  <2>2. Go(h, "verified") \/ Go(h, "error") BY <1>3 DEF FetchSum, NotFetched
  <2> QED BY <2>1, <2>2, Goes1 DEF Places
<1> QED BY <1>1, <1>2, <1>3, SendKeeps, RecordKeeps, PollKeeps DEF ThreadStep

(* The driver ends, or starts once more: no thread is at "record".         *)
LEMMA TurnKeeps == ASSUME SendInv, Joined \/ Start PROVE SendInv'
<1>1. \A k \in Hosts : pc[k] # "record"
  BY DEF Joined, Start, SendInv
<1>2. UNCHANGED <<fleet, meta, lost, cmds>> BY DEF Joined, Start, remote
<1>3. pc' \in [Hosts -> Places] /\ \A k \in Hosts : pc'[k] # "record"
  BY <1>1 DEF Joined, Start, Places, SendInv, SendTypes
<1>4. phase' \in [Hosts -> Phases] BY DEF Joined, Start, Phases, SendInv, SendTypes
<1>5. cmds' \in [Hosts -> Seq(Commanded)] BY <1>2 DEF SendInv, SendTypes
<1>6. \A k \in Hosts, p \in Phases : Sent(k, p)' = Sent(k, p) BY <1>2 DEF Sent
<1> QED BY <1>1, <1>2, <1>3, <1>4, <1>5, <1>6, Quiet

LEMMA NextKeeps == ASSUME SendInv, [Next]_vars PROVE SendInv'
<1>1. ASSUME NEW h \in Hosts, ThreadStep(h) PROVE SendInv' BY <1>1, ThreadKeeps
<1>2. ASSUME NEW h \in Hosts, NEW i \in Commands(h), HostStep(h, i) PROVE SendInv'
  BY <1>2, HostKeeps
<1>3. CASE Joined \/ Start BY <1>3, TurnKeeps
<1>4. CASE Stop BY <1>4, StopKeeps
<1>5. CASE WatchStep
  <2>1. UNCHANGED <<driver, remote>>
    BY <1>5 DEF WatchStep, Scan, Assure, Normalize, Noted
  <2> QED BY <2>1, Elsewhere DEF driver, remote
<1>6. CASE StopLast \/ Confirm \/ Destroy \/ Terminated \/ UNCHANGED vars
  <2>1. UNCHANGED <<driver, remote>>
    BY <1>6 DEF StopLast, Confirm, Destroy, Terminated, vars
  <2> QED BY <2>1, Elsewhere DEF driver, remote
<1> QED BY <1>1, <1>2, <1>3, <1>4, <1>5, <1>6 DEF Next

LEMMA InitSends == ASSUME Init PROVE SendInv
<1>1. SendTypes BY DEF Init, SendTypes, Places, Phases
<1>2. \A h \in Hosts : pc[h] # "record" BY DEF Init
<1>3. ASSUME NEW h \in Hosts, NEW p \in Phases PROVE Sent(h, p) <= Budget(h, p)
  <2>1. cmds[h] = << >> /\ lost[h][p] = 0 /\ meta[h][p] = 0 BY DEF Init
  <2>2. {i \in DOMAIN cmds[h] : cmds[h][i].phase = p} = {} BY <2>1
  <2>3. Sent(h, p) = 0 BY <2>2, FS_EmptySet DEF Sent
  <2> QED BY <1>2, <2>1, <2>3 DEF Budget, Known
<1> QED BY <1>1, <1>2, <1>3 DEF SendInv

LEMMA SendInvImplies == ASSUME SendInv PROVE SentOnce
<1> SUFFICES ASSUME NEW h \in Hosts, NEW p \in Phases PROVE Sent(h, p) <= 1 + lost[h][p]
  BY DEF SentOnce
<1>1. Sent(h, p) <= Budget(h, p) BY DEF SendInv
<1>2. lost[h][p] \in Nat BY DEF SendInv, SendTypes
<1>3. Sent(h, p) \in Nat BY SentType DEF SendInv
<1>4. Budget(h, p) = lost[h][p] \/ Budget(h, p) = lost[h][p] + 1 BY <1>2 DEF Budget
<1> QED BY <1>1, <1>2, <1>3, <1>4

(* However often the driver is stopped, restarted or failed by a call, it  *)
(* sends a phase to a host a second time only where the id of an earlier   *)
(* command never reached the disk (orchestrate.py:18-26), for every fleet. *)
THEOREM NeverSentTwice == Spec => []SentOnce
<1>1. Init => SendInv BY InitSends
<1>2. SendInv /\ [Next]_vars => SendInv' BY NextKeeps
<1>3. SendInv => SentOnce BY SendInvImplies
<1> QED BY <1>1, <1>2, <1>3, PTL DEF Spec

(***************************************************************************)
(* What is kept.                                                           *)
(***************************************************************************)
Contents == {none, "part", "ahead", "cut", "composites", "whole"}
Ends == {"whole", "cut"}

KeepTypes ==
    /\ fleet \in Fleets
    /\ evid \in [Hosts -> [Cohorts -> {none, "running"} \cup Ends]]
    /\ power \in [Hosts -> {"on", "stopped", "gone"}]
    /\ disk \in [Hosts -> Contents]
    /\ bucket \in [Hosts -> [{"tar", "sum"} -> Contents]]
    /\ local \in [Hosts -> [{"tar", "receipt"} -> Contents]]
    /\ norm \in [Hosts -> Contents]
    /\ watch \in [at : {"scan", "normalize", "read", "analysed", "failed"},
                  new : SUBSET Hosts, todo : SUBSET Hosts, cur : Hosts \cup {none}]
    /\ final \in {"wait", "checked", "destroying", "destroyed", "failed"}

\* A collector that works has made its folder, and is alone in it.
OwnFolder ==
    \A h \in Hosts, c \in Cohorts : \A i \in DOMAIN cmds[h] :
        cmds[h][i].at = Busy[c] =>
            /\ evid[h][c] = "running"
            /\ \A j \in DOMAIN cmds[h] : cmds[h][j].at = Busy[c] => j = i

\* What is whole somewhere was whole wherever it came from, and still is.
WholeAllAlong ==
    \A h \in Hosts :
        /\ norm[h] = "whole" => local[h].tar = "whole"
        /\ local[h].tar = "whole" => bucket[h].tar = "whole"
        /\ bucket[h].tar = "whole" => disk[h] = "whole"
        /\ disk[h] = "whole" => \A c \in Cohorts : evid[h][c] = "whole"

\* What the watcher and the program that finishes know is still so.
Learned ==
    /\ watch.at = "read" => watch.cur \in Hosts /\ norm[watch.cur] = none
    /\ watch.at = "analysed" => \A h \in Hosts : norm[h] = "whole"
    /\ \A h \in Hosts : power[h] # "on" => norm[h] \in {"whole", "composites", "ahead"}
    /\ final \in {"checked", "destroying", "destroyed"} =>
         /\ watch.at = "analysed"
         /\ \A h \in Hosts : local[h].receipt = "whole"

KeepInv == SendInv /\ KeepTypes /\ OwnFolder /\ WholeAllAlong /\ Learned

StagesOf == [stage   |-> {"staging", "Success", "Failed"},
             run     |-> {"primitives", "collecting", "composites", "measuring",
                          "Success", "Failed"},
             archive |-> {"tar", "put-tar", "put-sum", "Success", "Failed"}]

\* Nothing sent to the host is without its id on disk, but what is on its way.
Alone(h) == \A p \in Phases : lost[h][p] = 0

Ended(h) == \A c \in Cohorts : evid[h][c] \in Ends

HasRun(h) == \E i \in DOMAIN cmds[h] : cmds[h][i].phase = "run"
RunDone(h) ==
    \E i \in DOMAIN cmds[h] : cmds[h][i].phase = "run" /\ cmds[h][i].at = "Success"

\* command.json names a command of its phase; the archive follows the run.
InOrder ==
    \A h \in Hosts :
        /\ \A p \in Phases : meta[h][p] # 0 =>
              meta[h][p] \in DOMAIN cmds[h] /\ cmds[h][meta[h][p]].phase = p
        /\ pc[h] = "record" => cmds[h][Len(cmds[h])].phase = phase[h]
        /\ \A i \in DOMAIN cmds[h] :
              /\ cmds[h][i].at \in StagesOf[cmds[h][i].phase]
              /\ cmds[h][i].phase = "archive" => RunDone(h)
        /\ phase[h] = "archive" => RunDone(h)

\* How far the only script that collects has come, the evidence tells.
Tells(e, at) ==
    /\ at = "primitives" => e.primitives = none /\ e.composites = none
    /\ at = "collecting" => e.primitives = "running" /\ e.composites = none
    /\ at = "composites" => e.primitives \in Ends /\ e.composites = none
    /\ at = "measuring"  => e.primitives \in Ends /\ e.composites = "running"
    /\ at = "Success"    => e.primitives \in Ends /\ e.composites \in Ends

\* One command of a phase, and its id known.
OneEach(h) ==
    \A i \in DOMAIN cmds[h] :
        /\ Known(h, cmds[h][i].phase)
        /\ \A j \in DOMAIN cmds[h] : cmds[h][i].phase = cmds[h][j].phase => i = j

Told(h) ==
    /\ \A i \in DOMAIN cmds[h] :
          cmds[h][i].phase = "run" => Tells(evid[h], cmds[h][i].at)
    /\ ~HasRun(h) => \A c \in Cohorts : evid[h][c] = none

\* Whatever file there is was made of the evidence as it is now.
Genuine(h) ==
    \A x \in {disk[h], bucket[h].tar, bucket[h].sum, local[h].tar, local[h].receipt} :
        x # none => Ended(h) /\ x = Content(evid[h])

Undisturbed(h) == OneEach(h) /\ Told(h) /\ Genuine(h)

VerifyInv == KeepInv /\ InOrder /\ \A h \in Hosts : Alone(h) => Undisturbed(h)

(***************************************************************************)
(* What the steps do to the commands.                                      *)
(***************************************************************************)

(* A move changes the place of one command and nothing else of any.        *)
LEMMA MoveAt ==
  ASSUME SendTypes, NEW h \in Hosts, NEW i \in DOMAIN cmds[h], NEW to \in Stages,
         Move(h, i, to)
  PROVE  \A k \in Hosts :
           /\ DOMAIN cmds'[k] = DOMAIN cmds[k]
           /\ Len(cmds'[k]) = Len(cmds[k])
           /\ \A j \in DOMAIN cmds[k] :
                /\ cmds'[k][j].phase = cmds[k][j].phase
                /\ cmds'[k][j].at = IF k = h /\ j = i THEN to ELSE cmds[k][j].at
<1> DEFINE s == cmds[h]  t == [s EXCEPT ![i].at = to]
<1>1. s \in Seq(Commanded) BY DEF SendTypes
<1>2. /\ DOMAIN t = DOMAIN s /\ Len(t) = Len(s)
      /\ \A j \in DOMAIN s : t[j].phase = s[j].phase
  BY <1>1, Progress
<1>3. \A j \in DOMAIN s : t[j].at = IF j = i THEN to ELSE s[j].at
  <2>1. s[i] \in Commanded BY <1>1
  <2>2. [s[i] EXCEPT !.at = to].at = to BY <2>1 DEF Commanded
  <2>3. \A j \in DOMAIN s : t[j] = IF j = i THEN [s[i] EXCEPT !.at = to] ELSE s[j]
    OBVIOUS
  <2> QED BY <2>2, <2>3
<1> HIDE DEF t
<1>4. \A k \in Hosts : cmds'[k] = IF k = h THEN t ELSE cmds[k]
  BY DEF Move, SendTypes, t
<1> QED BY <1>2, <1>3, <1>4

(* A sent command comes last.                                              *)
LEMMA SendAt ==
  ASSUME SendTypes, NEW h \in Hosts, NEW c \in Commanded,
         cmds' = [cmds EXCEPT ![h] = Append(@, c)]
  PROVE  /\ \A k \in Hosts : k # h => cmds'[k] = cmds[k]
         /\ DOMAIN cmds'[h] = DOMAIN cmds[h] \cup {Len(cmds'[h])}
         /\ Len(cmds'[h]) \notin DOMAIN cmds[h]
         /\ cmds'[h][Len(cmds'[h])] = c
         /\ \A j \in DOMAIN cmds[h] : cmds'[h][j] = cmds[h][j]
<1> DEFINE s == cmds[h]  t == Append(s, c)
<1>1. s \in Seq(Commanded) BY DEF SendTypes
<1>2. /\ DOMAIN t = DOMAIN s \cup {Len(t)} /\ Len(t) \notin DOMAIN s
      /\ t[Len(t)] = c /\ \A j \in DOMAIN s : t[j] = s[j]
  BY <1>1
<1> HIDE DEF t
<1>3. \A k \in Hosts : cmds'[k] = IF k = h THEN t ELSE cmds[k]
  BY DEF SendTypes, t
<1> QED BY <1>2, <1>3

(* What the scripts of a host do, whichever they are.                      *)
LEMMA HostFrame ==
  ASSUME SendInv, NEW h \in Hosts, NEW i \in Commands(h), HostStep(h, i)
  PROVE  /\ i \in DOMAIN cmds[h]
         /\ UNCHANGED <<driver, power, local, desk, finish, final>>
         /\ \E to \in Stages : Move(h, i, to)
<1>0. i \in DOMAIN cmds[h] BY DEF Commands, SendInv, SendTypes
<1>1. CASE Stage(h, i) BY <1>0, <1>1 DEF Stage, Goes, Fails, Stages
<1>2. CASE Prologue(h, i) BY <1>0, <1>2 DEF Prologue, Fails, Stages
<1>3. CASE Tar(h, i) BY <1>0, <1>3 DEF Tar, Goes, Fails, Stages
<1>4. CASE Expire(h, i) BY <1>0, <1>4 DEF Expire, Stages
<1>5. CASE Put(h, i, "put-tar", "tar", "put-sum")
  BY <1>0, <1>5 DEF Put, Goes, Fails, Stages
<1>6. CASE Put(h, i, "put-sum", "sum", "Success")
  BY <1>0, <1>6 DEF Put, Goes, Fails, Stages
<1>7. ASSUME NEW c \in Cohorts, Collect(h, i, c) \/ Collected(h, i, c)
      PROVE  /\ UNCHANGED <<driver, power, local, desk, finish, final>>
             /\ \E to \in Stages : Move(h, i, to)
  <2>1. Busy[c] \in Stages /\ Following(c) \in Stages
    BY DEF Cohorts, Busy, Following, Stages
  <2> QED BY <1>7, <2>1 DEF Collect, Collected
<1> QED BY <1>0, <1>1, <1>2, <1>3, <1>4, <1>5, <1>6, <1>7 DEF HostStep

(***************************************************************************)
(* A collector alone in its folder.                                        *)
(***************************************************************************)

(* A command moved to a place where no collector works.                    *)
LEMMA OwnFolderLeft ==
  ASSUME KeepInv, NEW h \in Hosts, NEW i \in DOMAIN cmds[h], NEW to \in Stages,
         Move(h, i, to), UNCHANGED fleet, \A c \in Cohorts : to # Busy[c],
         \A k \in Hosts, c \in Cohorts :
           evid'[k][c] = evid[k][c] \/ (k = h /\ cmds[h][i].at = Busy[c])
  PROVE  OwnFolder'
<1>1. SendTypes BY DEF KeepInv, SendInv
<1>2. \A k \in Hosts :
        /\ DOMAIN cmds'[k] = DOMAIN cmds[k]
        /\ \A j \in DOMAIN cmds[k] :
             cmds'[k][j].at = IF k = h /\ j = i THEN to ELSE cmds[k][j].at
  BY <1>1, MoveAt
<1>3. OwnFolder BY DEF KeepInv
<1>4. SUFFICES ASSUME NEW k \in Hosts, NEW c \in Cohorts, NEW j \in DOMAIN cmds[k],
                      cmds'[k][j].at = Busy[c]
               PROVE  /\ evid'[k][c] = "running"
                      /\ \A l \in DOMAIN cmds[k] : cmds'[k][l].at = Busy[c] => l = j
  BY <1>2 DEF OwnFolder, Hosts
<1>5. cmds[k][j].at = Busy[c] /\ ~(k = h /\ j = i) BY <1>2, <1>4
<1>6. evid[k][c] = "running" /\ \A l \in DOMAIN cmds[k] : cmds[k][l].at = Busy[c] => l = j
  BY <1>3, <1>5 DEF OwnFolder
<1>7. ~(k = h /\ cmds[h][i].at = Busy[c]) BY <1>5, <1>6
<1> QED BY <1>2, <1>5, <1>6, <1>7

(* The step that makes the folder; and the one that ends the collection.   *)
LEMMA OwnFolderCollect ==
  ASSUME KeepInv, NEW h \in Hosts, NEW i \in DOMAIN cmds[h], NEW c \in Cohorts,
         Collect(h, i, c) \/ Collected(h, i, c)
  PROVE  OwnFolder'
<1>0. /\ SendTypes /\ fleet' = fleet /\ OwnFolder
      /\ evid \in [Hosts -> [Cohorts -> {none, "running"} \cup Ends]]
  BY DEF KeepInv, SendInv, KeepTypes, Collect, Collected, driver
<1>1. Following(c) \in Stages /\ Busy[c] \in Stages /\ \A d \in Cohorts : Following(c) # Busy[d]
  BY DEF Following, Busy, Cohorts, Stages
<1>2. CASE Collected(h, i, c)
  <2>1. Move(h, i, Following(c)) /\ cmds[h][i].at = Busy[c]
    BY <1>2 DEF Collected, Runs
  <2>2. \A k \in Hosts, d \in Cohorts : evid'[k][d] = evid[k][d] \/ (k = h /\ d = c)
    BY <1>0, <1>2 DEF Collected
  <2> QED BY <1>0, <1>1, <2>1, <2>2, OwnFolderLeft
<1>3. CASE Collect(h, i, c) /\ UNCHANGED evid /\ Move(h, i, Following(c))
  BY <1>0, <1>1, <1>3, OwnFolderLeft
<1>4. ASSUME evid[h][c] = none, Move(h, i, Busy[c]),
             evid' = [evid EXCEPT ![h][c] = "running"]
      PROVE  OwnFolder'
  <2>1. \A k \in Hosts :
          /\ DOMAIN cmds'[k] = DOMAIN cmds[k]
          /\ \A j \in DOMAIN cmds[k] :
               cmds'[k][j].at = IF k = h /\ j = i THEN Busy[c] ELSE cmds[k][j].at
    BY <1>0, <1>1, <1>4, MoveAt
  <2>2. \A k \in Hosts, d \in Cohorts :
          evid'[k][d] = IF k = h /\ d = c THEN "running" ELSE evid[k][d]
    BY <1>0, <1>4
  <2>3. SUFFICES ASSUME NEW k \in Hosts, NEW d \in Cohorts, NEW j \in DOMAIN cmds[k],
                        cmds'[k][j].at = Busy[d]
                 PROVE  /\ evid'[k][d] = "running"
                        /\ \A l \in DOMAIN cmds[k] : cmds'[k][l].at = Busy[d] => l = j
    BY <1>0, <2>1 DEF OwnFolder, Hosts
  <2>4. Busy[d] = Busy[c] <=> d = c BY DEF Busy, Cohorts
  <2>5. \A l \in DOMAIN cmds[h] : cmds[h][l].at # Busy[c]
    BY <1>0, <1>4 DEF OwnFolder, none
  <2>6. CASE k = h /\ d = c BY <2>1, <2>2, <2>3, <2>5, <2>6
  <2>7. CASE ~(k = h /\ d = c)
    <3>1. cmds[k][j].at = Busy[d] /\ ~(k = h /\ j = i) BY <2>1, <2>3, <2>4, <2>7
    <3>2. \A l \in DOMAIN cmds[k] : cmds'[k][l].at = Busy[d] => cmds[k][l].at = Busy[d]
      BY <2>1, <2>4, <2>7
    <3> QED BY <1>0, <2>2, <2>7, <3>1, <3>2 DEF OwnFolder
  <2> QED BY <2>6, <2>7
<1>5. CASE Collect(h, i, c) BY <1>3, <1>4, <1>5 DEF Collect
<1> QED BY <1>2, <1>5

(* A new command begins where no collector works yet.                      *)
LEMMA OwnFolderSend ==
  ASSUME KeepInv, NEW h \in Hosts, Send(h) PROVE OwnFolder'
<1> DEFINE c == [phase |-> phase[h], at |-> FirstStep[phase[h]]]
<1>0. SendTypes /\ fleet' = fleet /\ OwnFolder /\ evid' = evid /\ phase[h] \in Phases
  BY DEF KeepInv, SendInv, SendTypes, Send
<1>1. CASE cmds' = cmds BY <1>0, <1>1 DEF OwnFolder, Hosts
<1>2. CASE cmds' = [cmds EXCEPT ![h] = Append(@, c)]
  <2>1. c \in Commanded /\ \A d \in Cohorts : c.at # Busy[d]
    BY <1>0 DEF Commanded, Stages, FirstStep, Phases, Busy, Cohorts
  <2> HIDE DEF c
  <2>2. /\ \A k \in Hosts : k # h => cmds'[k] = cmds[k]
        /\ DOMAIN cmds'[h] = DOMAIN cmds[h] \cup {Len(cmds'[h])}
        /\ cmds'[h][Len(cmds'[h])] = c
        /\ \A j \in DOMAIN cmds[h] : cmds'[h][j] = cmds[h][j]
    BY <1>0, <1>2, <2>1, SendAt
  <2>3. \A k \in Hosts, d \in Cohorts : \A j \in DOMAIN cmds'[k] :
          cmds'[k][j].at = Busy[d] => j \in DOMAIN cmds[k] /\ cmds[k][j].at = Busy[d]
    BY <2>1, <2>2
  <2>4. Hosts' = Hosts BY <1>0 DEF Hosts
  <2> QED BY <1>0, <2>3, <2>4 DEF OwnFolder
<1> QED BY <1>1, <1>2 DEF Send

LEMMA OwnFolderHost ==
  ASSUME KeepInv, NEW h \in Hosts, NEW i \in Commands(h), HostStep(h, i)
  PROVE  OwnFolder'
<1>0. SendInv /\ i \in DOMAIN cmds[h] /\ UNCHANGED fleet
  BY HostFrame DEF KeepInv, driver
<1>1. ASSUME NEW to \in {"put-tar", "put-sum", "Success", "Failed"}, Move(h, i, to),
             UNCHANGED evid
      PROVE  OwnFolder'
  <2>1. to \in Stages /\ \A c \in Cohorts : to # Busy[c] BY DEF Stages, Busy, Cohorts
  <2> QED BY <1>0, <1>1, <2>1, OwnFolderLeft
<1>2. CASE Stage(h, i) BY <1>1, <1>2 DEF Stage, Goes, Fails
<1>3. CASE Prologue(h, i) BY <1>1, <1>3 DEF Prologue, Fails
<1>4. CASE Tar(h, i) BY <1>1, <1>4 DEF Tar, Goes, Fails
<1>5. CASE Expire(h, i) BY <1>1, <1>5 DEF Expire
<1>6. CASE Put(h, i, "put-tar", "tar", "put-sum") BY <1>1, <1>6 DEF Put, Goes, Fails
<1>7. CASE Put(h, i, "put-sum", "sum", "Success") BY <1>1, <1>7 DEF Put, Goes, Fails
<1>8. ASSUME NEW c \in Cohorts, Collect(h, i, c) \/ Collected(h, i, c)
      PROVE  OwnFolder'
  BY <1>0, <1>8, OwnFolderCollect
<1> QED BY <1>2, <1>3, <1>4, <1>5, <1>6, <1>7, <1>8 DEF HostStep

(***************************************************************************)
(* Types.                                                                  *)
(***************************************************************************)

(* What archives are said to hold is one of the six contents.              *)
LEMMA ContentType == \A e : Content(e) \in Contents /\ Content(e) # none
  BY DEF Content, Contents, none

LEMMA TypesHost ==
  ASSUME KeepInv, NEW h \in Hosts, NEW i \in Commands(h), HostStep(h, i)
  PROVE  KeepTypes'
<1>0. KeepTypes /\ UNCHANGED <<fleet, power, local, norm, watch, final>>
  BY HostFrame DEF KeepInv, driver, desk
<1>1. Hosts' = Hosts BY <1>0 DEF Hosts
<1>2. evid' \in [Hosts -> [Cohorts -> {none, "running"} \cup Ends]]
  <2>1. ASSUME NEW c \in Cohorts, Collect(h, i, c) \/ Collected(h, i, c)
        PROVE  evid' \in [Hosts -> [Cohorts -> {none, "running"} \cup Ends]]
    <3>1. \/ UNCHANGED evid
          \/ \E x \in {"running", "whole", "cut"} : evid' = [evid EXCEPT ![h][c] = x]
      BY <2>1 DEF Collect, Collected
    <3>2. ASSUME NEW x \in {"running", "whole", "cut"}, evid' = [evid EXCEPT ![h][c] = x]
          PROVE  evid' \in [Hosts -> [Cohorts -> {none, "running"} \cup Ends]]
      <4>1. x \in {none, "running"} \cup Ends BY DEF Ends
      <4> HIDE DEF Ends
      <4> QED BY <1>0, <3>2, <4>1 DEF KeepTypes
    <3> QED BY <1>0, <3>1, <3>2 DEF KeepTypes
  <2>2. CASE UNCHANGED evid BY <1>0, <2>2 DEF KeepTypes
  <2> QED BY <2>1, <2>2 DEF HostStep, Stage, Prologue, Tar, Expire, Put
<1>3. disk' \in [Hosts -> Contents]
  <2>1. CASE UNCHANGED disk BY <1>0, <2>1 DEF KeepTypes
  <2>2. CASE disk' = [disk EXCEPT ![h] = Content(evid[h])]
    BY <1>0, <2>2, ContentType DEF KeepTypes
  <2>3. UNCHANGED disk \/ Tar(h, i)
    BY DEF HostStep, Stage, Prologue, Expire, Put, Collect, Collected
  <2> QED BY <2>1, <2>2, <2>3 DEF Tar
<1>4. bucket' \in [Hosts -> [{"tar", "sum"} -> Contents]]
  <2>1. CASE UNCHANGED bucket BY <1>0, <2>1 DEF KeepTypes
  <2>2. ASSUME NEW f \in {"tar", "sum"}, bucket' = [bucket EXCEPT ![h][f] = disk[h]]
        PROVE  bucket' \in [Hosts -> [{"tar", "sum"} -> Contents]]
    <3>1. disk[h] \in Contents /\ bucket \in [Hosts -> [{"tar", "sum"} -> Contents]]
      BY <1>0 DEF KeepTypes
    <3> QED BY <2>2, <3>1
  <2>3. UNCHANGED bucket \/ Put(h, i, "put-tar", "tar", "put-sum")
                         \/ Put(h, i, "put-sum", "sum", "Success")
    BY DEF HostStep, Stage, Prologue, Expire, Tar, Collect, Collected
  <2> QED BY <2>1, <2>2, <2>3 DEF Put
<1> QED BY <1>0, <1>1, <1>2, <1>3, <1>4 DEF KeepTypes

LEMMA TypesThread ==
  ASSUME KeepInv, NEW h \in Hosts, ThreadStep(h) PROVE KeepTypes'
<1>0. KeepTypes /\ UNCHANGED <<fleet, evid, disk, bucket, power, norm, watch, final>>
  BY DEF KeepInv, ThreadStep, Ready, Send, Record, Poll, FetchTar, FetchSum, remote, desk
<1>1. local' \in [Hosts -> [{"tar", "receipt"} -> Contents]]
  <2>1. CASE UNCHANGED local BY <1>0, <2>1 DEF KeepTypes
  <2>2. CASE local' = [local EXCEPT ![h].tar = bucket[h].tar]
    <3>1. bucket[h].tar \in Contents BY <1>0 DEF KeepTypes
    <3>2. local \in [Hosts -> [{"tar", "receipt"} -> Contents]] BY <1>0 DEF KeepTypes
    <3> QED BY <2>2, <3>1, <3>2
  <2>3. CASE local' = [local EXCEPT ![h].receipt = local[h].tar]
    BY <1>0, <2>3 DEF KeepTypes
  <2>4. UNCHANGED local \/ FetchTar(h) \/ FetchSum(h)
    BY DEF ThreadStep, Ready, Send, Record, Poll
  <2> QED BY <2>1, <2>2, <2>3, <2>4 DEF FetchTar, FetchSum, NotFetched
<1>2. Hosts' = Hosts BY <1>0 DEF Hosts
<1> QED BY <1>0, <1>1, <1>2 DEF KeepTypes

LEMMA TypesWatch ==
  ASSUME KeepInv, WatchStep PROVE KeepTypes'
<1>0. KeepTypes /\ UNCHANGED <<fleet, evid, disk, bucket, power, local, final>>
  BY DEF KeepInv, WatchStep, Scan, Assure, Normalize, Noted, driver, remote
<1> DEFINE Watching == [at : {"scan", "normalize", "read", "analysed", "failed"},
                        new : SUBSET Hosts, todo : SUBSET Hosts, cur : Hosts \cup {none}]
<1>1. watch' \in Watching
  <2>0. watch \in Watching BY <1>0 DEF KeepTypes
  <2>1. CASE Scan
    <3>1. \A x : Gates(x) \subseteq {"scan", "analysed", "failed"} BY DEF Gates
    <3>2. CASE watch' = [watch EXCEPT !.at = "normalize", !.new = New,
                                      !.todo = {h \in Hosts : local[h].tar # none}]
      <4>1. New \subseteq Hosts BY DEF New, Receipts
      <4> QED BY <2>0, <3>2, <4>1
    <3>3. CASE \E at \in Gates(seen) : watch' = [watch EXCEPT !.at = at]
      BY <2>0, <3>1, <3>3
    <3> QED BY <2>1, <3>2, <3>3 DEF Scan
  <2>2. CASE Noted
    <3>1. Gates(seen') \subseteq {"scan", "analysed", "failed"} BY DEF Gates
    <3> QED BY <2>0, <2>2, <3>1 DEF Noted
  <2>3. CASE Normalize BY <2>0, <2>3 DEF Normalize
  <2>4. ASSUME NEW h \in Hosts, Assure(h) PROVE watch' \in Watching
    BY <2>0, <2>4 DEF Assure
  <2> QED BY <2>1, <2>2, <2>3, <2>4 DEF WatchStep
<1>2. norm' \in [Hosts -> Contents]
  <2>1. CASE Normalize
    <3>1. norm' = norm \/ norm' = [norm EXCEPT ![watch.cur] = local[watch.cur].tar]
      BY <2>1 DEF Normalize
    <3>2. watch.cur \in Hosts => local[watch.cur].tar \in Contents
      BY <1>0 DEF KeepTypes
    <3> QED BY <1>0, <3>1, <3>2 DEF KeepTypes
  <2>2. norm' = norm \/ Normalize BY DEF WatchStep, Scan, Assure, Noted
  <2> QED BY <1>0, <2>1, <2>2 DEF KeepTypes
<1>3. Hosts' = Hosts BY <1>0 DEF Hosts
<1> HIDE DEF Watching
<1> QED BY <1>0, <1>1, <1>2, <1>3 DEF KeepTypes, Watching

(* What the watcher has no part in.                                        *)
LEMMA TypesOther ==
  ASSUME KeepInv,
         Joined \/ Stop \/ Start \/ StopLast \/ Confirm \/ Destroy \/ Terminated \/ UNCHANGED vars
  PROVE  KeepTypes'
<1>0. KeepTypes /\ UNCHANGED <<fleet, evid, disk, bucket, local, norm, watch>>
  BY DEF KeepInv, Joined, Stop, Start, StopLast, Confirm, Destroy, Terminated, vars,
         driver, remote, desk
<1>1. power' \in [Hosts -> {"on", "stopped", "gone"}]
  <2>1. CASE StopLast BY <1>0, <2>1 DEF StopLast, KeepTypes
  <2>2. CASE Destroy BY <1>0, <2>2 DEF Destroy
  <2>3. power' = power \/ StopLast \/ Destroy
    BY DEF Joined, Stop, Start, Confirm, Terminated, vars
  <2> QED BY <1>0, <2>1, <2>2, <2>3 DEF KeepTypes
<1>2. final' \in {"wait", "checked", "destroying", "destroyed", "failed"}
  <2>1. final' = final \/ Confirm \/ Destroy \/ Terminated
    BY DEF Joined, Stop, Start, StopLast, vars
  <2> QED BY <1>0, <2>1 DEF KeepTypes, Confirm, Destroy, Terminated
<1>3. Hosts' = Hosts BY <1>0 DEF Hosts
<1> QED BY <1>0, <1>1, <1>2, <1>3 DEF KeepTypes

(***************************************************************************)
(* Whole all along.                                                        *)
(***************************************************************************)

(* An archive is whole when both collections are.                          *)
LEMMA WholeContent ==
  ASSUME NEW e \in [Cohorts -> {none, "running"} \cup Ends], Content(e) = "whole"
  PROVE  \A c \in Cohorts : e[c] = "whole"
BY DEF Content, Cohorts, Ends, none

LEMMA ChainHost ==
  ASSUME KeepInv, NEW h \in Hosts, NEW i \in Commands(h), HostStep(h, i)
  PROVE  WholeAllAlong'
<1>0. /\ WholeAllAlong /\ OwnFolder /\ KeepTypes /\ i \in DOMAIN cmds[h]
      /\ UNCHANGED <<fleet, local, norm>>
  BY HostFrame DEF KeepInv, driver, desk
<1>1. Hosts' = Hosts BY <1>0 DEF Hosts
<1>2. CASE UNCHANGED <<evid, disk, bucket>>
  BY <1>0, <1>1, <1>2 DEF WholeAllAlong
<1>3. ASSUME NEW c \in Cohorts, Collect(h, i, c) \/ Collected(h, i, c)
      PROVE  WholeAllAlong'
  <2>1. UNCHANGED <<disk, bucket>> BY <1>3 DEF Collect, Collected
  <2>2. \A k \in Hosts, d \in Cohorts :
          evid'[k][d] = evid[k][d] \/ (k = h /\ evid[k][d] # "whole")
    <3>1. CASE Collect(h, i, c) BY <1>0, <3>1 DEF Collect, KeepTypes, none
    <3>2. CASE Collected(h, i, c)
      <4>1. cmds[h][i].at = Busy[c] BY <3>2 DEF Collected, Runs
      <4>2. evid[h][c] = "running" BY <1>0, <4>1 DEF OwnFolder
      <4> QED BY <1>0, <3>2, <4>2 DEF Collected, KeepTypes
    <3> QED BY <1>3, <3>1, <3>2
  <2> QED BY <1>0, <1>1, <2>1, <2>2 DEF WholeAllAlong
<1>4. CASE disk' = [disk EXCEPT ![h] = Content(evid[h])] /\ UNCHANGED <<evid, bucket>>
  <2>1. \A k \in Hosts : disk'[k] = IF k = h THEN Content(evid[h]) ELSE disk[k]
    BY <1>0, <1>4 DEF KeepTypes
  <2>2. evid[h] \in [Cohorts -> {none, "running"} \cup Ends] BY <1>0 DEF KeepTypes
  <2>3. Content(evid[h]) = "whole" <=> \A c \in Cohorts : evid[h][c] = "whole"
    BY <2>2, WholeContent DEF Content, Cohorts, none
  <2> QED BY <1>0, <1>1, <1>4, <2>1, <2>3 DEF WholeAllAlong
<1>5. ASSUME NEW f \in {"tar", "sum"}, bucket' = [bucket EXCEPT ![h][f] = disk[h]],
             UNCHANGED <<evid, disk>>
      PROVE  WholeAllAlong'
  <2>1. \A k \in Hosts : bucket'[k].tar = bucket[k].tar
                         \/ (k = h /\ bucket'[k].tar = disk[k])
    BY <1>0, <1>5 DEF KeepTypes
  <2> QED BY <1>0, <1>1, <1>5, <2>1 DEF WholeAllAlong
<1> QED BY <1>2, <1>3, <1>4, <1>5 DEF HostStep, Stage, Prologue, Tar, Expire, Put

(* What a thread fetches, it fetches for its own host.                     *)
LEMMA Fetches ==
  ASSUME KeepTypes, NEW h \in Hosts, ThreadStep(h)
  PROVE  \A k \in Hosts :
           /\ local'[k].tar \in {local[k].tar, bucket[k].tar}
           /\ local'[k].receipt \in {local[k].receipt, local[k].tar}
<1>0. local \in [Hosts -> [{"tar", "receipt"} -> Contents]] BY DEF KeepTypes
<1>1. CASE UNCHANGED local BY <1>1
<1>2. CASE local' = [local EXCEPT ![h].tar = bucket[h].tar] BY <1>0, <1>2
<1>3. CASE local' = [local EXCEPT ![h].receipt = local[h].tar] BY <1>0, <1>3
<1>4. UNCHANGED local \/ FetchTar(h) \/ FetchSum(h)
  BY DEF ThreadStep, Ready, Send, Record, Poll
<1> QED BY <1>1, <1>2, <1>3, <1>4 DEF FetchTar, FetchSum, NotFetched

LEMMA ChainThread ==
  ASSUME KeepInv, NEW h \in Hosts, ThreadStep(h) PROVE WholeAllAlong'
<1>0. /\ WholeAllAlong /\ KeepTypes
      /\ UNCHANGED <<fleet, evid, disk, bucket, norm>>
  BY DEF KeepInv, ThreadStep, Ready, Send, Record, Poll, FetchTar, FetchSum, remote, desk
<1>1. Hosts' = Hosts BY <1>0 DEF Hosts
<1>2. \A k \in Hosts : local'[k].tar \in {local[k].tar, bucket[k].tar}
  BY <1>0, Fetches
<1> QED BY <1>0, <1>1, <1>2 DEF WholeAllAlong

LEMMA ChainWatch ==
  ASSUME KeepInv, WatchStep PROVE WholeAllAlong'
<1>0. /\ WholeAllAlong /\ KeepTypes
      /\ UNCHANGED <<fleet, evid, disk, bucket, local>>
  BY DEF KeepInv, WatchStep, Scan, Assure, Normalize, Noted, driver, remote
<1>1. Hosts' = Hosts BY <1>0 DEF Hosts
<1>2. \A k \in Hosts : norm'[k] \in {norm[k], local[k].tar}
  <2>1. CASE UNCHANGED norm BY <2>1
  <2>2. CASE norm' = [norm EXCEPT ![watch.cur] = local[watch.cur].tar]
    BY <1>0, <2>2 DEF KeepTypes
  <2> QED BY <2>1, <2>2 DEF WatchStep, Scan, Assure, Normalize, Noted
<1> QED BY <1>0, <1>1, <1>2 DEF WholeAllAlong

(***************************************************************************)
(* What is known stays so.                                                 *)
(***************************************************************************)

LEMMA LearnedWatch ==
  ASSUME KeepInv, WatchStep PROVE Learned'
<1>0. /\ Learned /\ KeepTypes /\ UNCHANGED <<fleet, power, local, final>>
  BY DEF KeepInv, WatchStep, Scan, Assure, Normalize, Noted, driver
<1>1. Hosts' = Hosts BY <1>0 DEF Hosts
<1>2. watch.at # "analysed" BY DEF WatchStep, Scan, Assure, Normalize, Noted
<1>3. \A k \in Hosts : norm'[k] = norm[k] \/ norm[k] = none
  BY <1>0 DEF WatchStep, Scan, Assure, Normalize, Noted, Learned, KeepTypes
<1>4. watch'.at = "read" => watch'.cur \in Hosts /\ norm'[watch'.cur] = none
  <2>1. CASE Scan
    BY <1>0, <2>1 DEF Scan, Gates, KeepTypes
  <2>2. CASE Noted
    <3>1. Gates(seen') \subseteq {"scan", "analysed", "failed"} BY DEF Gates
    <3> QED BY <1>0, <2>2, <3>1 DEF Noted, KeepTypes
  <2>3. CASE Normalize BY <1>0, <2>3 DEF Normalize, KeepTypes
  <2>4. ASSUME NEW h \in Hosts, Assure(h)
        PROVE  watch'.at = "read" => watch'.cur \in Hosts /\ norm'[watch'.cur] = none
    BY <1>0, <2>4 DEF Assure, KeepTypes, Skipped
  <2> QED BY <2>1, <2>2, <2>3, <2>4 DEF WatchStep
<1>5. watch'.at = "analysed" => \A k \in Hosts : norm'[k] = "whole"
  <2>1. CASE Scan BY <1>0, <2>1 DEF Scan, Gates, KeepTypes, Exact
  <2>2. CASE Noted BY <1>0, <2>2 DEF Noted, Gates, KeepTypes, Exact
  <2>3. CASE Normalize BY <1>0, <2>3 DEF Normalize, KeepTypes
  <2>4. ASSUME NEW h \in Hosts, Assure(h) PROVE watch'.at # "analysed"
    BY <1>0, <2>4 DEF Assure, KeepTypes
  <2> QED BY <2>1, <2>2, <2>3, <2>4 DEF WatchStep
<1> QED BY <1>0, <1>1, <1>2, <1>3, <1>4, <1>5 DEF Learned, none

LEMMA LearnedThread ==
  ASSUME KeepInv, NEW h \in Hosts, ThreadStep(h) PROVE Learned'
<1>0. /\ Learned /\ WholeAllAlong /\ KeepTypes
      /\ UNCHANGED <<fleet, power, norm, watch, final>>
  BY DEF KeepInv, ThreadStep, Ready, Send, Record, Poll, FetchTar, FetchSum, desk
<1>1. Hosts' = Hosts BY <1>0 DEF Hosts
<1>2. \A k \in Hosts : local'[k].receipt \in {local[k].receipt, local[k].tar}
  BY <1>0, Fetches
<1> QED BY <1>0, <1>1, <1>2 DEF Learned, WholeAllAlong

LEMMA LearnedOther ==
  ASSUME KeepInv,
         Joined \/ Stop \/ Start \/ StopLast \/ Confirm \/ Destroy \/ Terminated \/ UNCHANGED vars
  PROVE  Learned'
<1>0. Learned /\ WholeAllAlong /\ KeepTypes /\ UNCHANGED <<fleet, local, norm, watch>>
  BY DEF KeepInv, Joined, Stop, Start, StopLast, Confirm, Destroy, Terminated, vars,
         driver, desk
<1>1. Hosts' = Hosts BY <1>0 DEF Hosts
<1>2. CASE UNCHANGED <<power, final>> BY <1>0, <1>1, <1>2 DEF Learned
<1>3. CASE StopLast
  <2>1. fleet.last \in fleet.linux BY <1>0, FleetAssumption DEF KeepTypes
  <2>2. norm[fleet.last] \in {"whole", "composites", "ahead"}
    BY <1>3, <2>1 DEF StopLast, LinuxDone, CompositesExact
  <2>3. \A k \in Hosts : power'[k] = power[k] \/ k = fleet.last
    BY <1>0, <1>3 DEF StopLast, KeepTypes
  <2>4. final' = final BY <1>3 DEF StopLast
  <2> QED BY <1>0, <1>1, <2>2, <2>3, <2>4 DEF Learned
<1>4. CASE Confirm
  <2>1. power' = power /\ watch.at = "analysed" BY <1>4 DEF Confirm
  <2>2. final' = "checked" => \A k \in Hosts : local[k].receipt = "whole"
    BY <1>0, <1>4, <2>1 DEF Confirm, Accounted, Learned, WholeAllAlong
  <2>3. final' \in {"checked", "failed"} BY <1>4 DEF Confirm
  <2> QED BY <1>0, <1>1, <2>1, <2>2, <2>3 DEF Learned
<1>5. CASE Destroy
  <2>1. \A k \in Hosts : norm[k] = "whole" BY <1>0, <1>5 DEF Destroy, Learned
  <2> QED BY <1>0, <1>1, <1>5, <2>1 DEF Destroy, Learned
<1>6. CASE Terminated BY <1>0, <1>1, <1>6 DEF Terminated, Learned
<1> QED BY <1>2, <1>3, <1>4, <1>5, <1>6 DEF Joined, Stop, Start, vars, desk

(***************************************************************************)
(* The invariant, and what follows from it.                                *)
(***************************************************************************)

LEMMA NextKeep == ASSUME KeepInv, [Next]_vars PROVE KeepInv'
<1>0. SendInv' BY NextKeeps DEF KeepInv
<1>1. ASSUME NEW h \in Hosts, ThreadStep(h) PROVE KeepInv'
  <2>1. OwnFolder'
    <3>1. CASE Send(h) BY <3>1, OwnFolderSend
    <3>2. CASE ~Send(h)
      <4>1. UNCHANGED <<fleet, cmds, evid>>
        BY <1>1, <3>2 DEF ThreadStep, Ready, Record, Poll, FetchTar, FetchSum, remote
      <4> QED BY <4>1 DEF KeepInv, OwnFolder, Hosts
    <3> QED BY <3>1, <3>2
  <2> QED BY <1>0, <1>1, <2>1, TypesThread, ChainThread, LearnedThread DEF KeepInv
<1>2. ASSUME NEW h \in Hosts, NEW i \in Commands(h), HostStep(h, i) PROVE KeepInv'
  <2>1. Learned'
    <3>1. UNCHANGED <<fleet, power, local, norm, watch, final>>
      BY <1>2, HostFrame DEF KeepInv, driver, desk
    <3> QED BY <3>1 DEF KeepInv, Learned, Hosts
  <2> QED BY <1>0, <1>2, <2>1, OwnFolderHost, TypesHost, ChainHost DEF KeepInv
<1>3. CASE WatchStep
  <2>1. UNCHANGED <<fleet, cmds, evid>>
    BY <1>3 DEF WatchStep, Scan, Assure, Normalize, Noted, driver, remote
  <2>2. OwnFolder' BY <2>1 DEF KeepInv, OwnFolder, Hosts
  <2> QED BY <1>0, <1>3, <2>2, TypesWatch, ChainWatch, LearnedWatch DEF KeepInv
<1>4. CASE Joined \/ Stop \/ Start \/ StopLast \/ Confirm \/ Destroy \/ Terminated
           \/ UNCHANGED vars
  <2>1. UNCHANGED <<fleet, cmds, evid, disk, bucket, local, norm>>
    BY <1>4 DEF Joined, Stop, Start, StopLast, Confirm, Destroy, Terminated, vars,
                driver, remote, desk
  <2>2. OwnFolder' /\ WholeAllAlong'
    BY <2>1 DEF KeepInv, OwnFolder, WholeAllAlong, Hosts
  <2> QED BY <1>0, <1>4, <2>2, TypesOther, LearnedOther DEF KeepInv
<1> QED BY <1>1, <1>2, <1>3, <1>4 DEF Next

LEMMA InitKeep == ASSUME Init PROVE KeepInv
<1>1. SendInv BY InitSends
<1>2. KeepTypes BY DEF Init, KeepTypes, Contents
<1>3. OwnFolder /\ WholeAllAlong /\ Learned BY DEF Init, OwnFolder, WholeAllAlong, Learned, none
<1> QED BY <1>1, <1>2, <1>3 DEF KeepInv

(* Whatever was sent twice, archived too early or downloaded again, and    *)
(* wherever watcher, driver and finishing programs are when another acts:  *)
(* a host is stopped only with its composites normalized                   *)
(* (finish_linux.py), the analysis made and the stack destroyed only with  *)
(* the whole evidence of every host kept (watch.py, finalize.py).          *)
THEOREM GoneOnlyWhenKept == Spec => []KeptBeforeGone
<1>1. Init => KeepInv BY InitKeep
<1>2. KeepInv /\ [Next]_vars => KeepInv' BY NextKeep
<1>3. KeepInv => KeptBeforeGone BY DEF KeepInv, Learned, WholeAllAlong, KeptBeforeGone
<1> QED BY <1>1, <1>2, <1>3, PTL DEF Spec

(***************************************************************************)
(* The order of a host's commands.                                         *)
(***************************************************************************)

(* A script that has succeeded does not move again.                        *)
LEMMA Finished ==
  ASSUME SendInv, NEW h \in Hosts, NEW i \in Commands(h), HostStep(h, i)
  PROVE  cmds[h][i].at # "Success"
<1>1. \A c \in Cohorts : Busy[c] # "Success" /\ c # "Success" BY DEF Cohorts, Busy
<1> QED BY <1>1 DEF HostStep, Stage, Prologue, Tar, Put, Expire, InProgress, Collect,
               Collected, Runs

(* Each script keeps to the stages of its phase.                           *)
LEMMA StagesKept ==
  ASSUME SendInv, InOrder, NEW h \in Hosts, NEW i \in Commands(h), HostStep(h, i)
  PROVE  \E to \in StagesOf[cmds[h][i].phase] : Move(h, i, to)
<1> DEFINE p == cmds[h][i].phase
<1>0. i \in DOMAIN cmds[h] /\ cmds[h][i] \in Commanded
  BY DEF Commands, SendInv, SendTypes
<1>1. p \in Phases /\ cmds[h][i].at \in StagesOf[p] /\ "Failed" \in StagesOf[p]
      /\ "Success" \in StagesOf[p]
  BY <1>0 DEF InOrder, Commanded, Phases, StagesOf
<1>2. cmds[h][i].at \in {"primitives", "composites", "collecting", "measuring"} => p = "run"
  BY <1>1 DEF Phases, StagesOf
<1>3. cmds[h][i].at \in {"tar", "put-tar", "put-sum"} => p = "archive"
  BY <1>1 DEF Phases, StagesOf
<1> SUFFICES \E to \in StagesOf[p] : Move(h, i, to) OBVIOUS
<1> HIDE DEF p
<1>4. CASE Stage(h, i) BY <1>1, <1>4 DEF Stage, Goes, Fails
<1>5. CASE Prologue(h, i) BY <1>1, <1>5 DEF Prologue, Fails
<1>6. CASE Tar(h, i)
  BY <1>1, <1>3, <1>6 DEF Tar, Goes, Fails, Runs, StagesOf
<1>7. CASE Expire(h, i) BY <1>1, <1>7 DEF Expire
<1>8. CASE Put(h, i, "put-tar", "tar", "put-sum")
  BY <1>1, <1>3, <1>8 DEF Put, Goes, Fails, Runs, StagesOf
<1>9. CASE Put(h, i, "put-sum", "sum", "Success")
  BY <1>1, <1>9 DEF Put, Goes, Fails
<1>10. ASSUME NEW c \in Cohorts, Collect(h, i, c) \/ Collected(h, i, c)
       PROVE  \E to \in StagesOf[p] : Move(h, i, to)
  <2>1. cmds[h][i].at \in {"primitives", "composites", "collecting", "measuring"}
    BY <1>10 DEF Collect, Collected, Runs, Cohorts, Busy
  <2>2. Following(c) \in StagesOf["run"] /\ Busy[c] \in StagesOf["run"]
    BY DEF Following, Busy, Cohorts, StagesOf
  <2> QED BY <1>2, <1>10, <2>1, <2>2 DEF Collect, Collected
<1> QED BY <1>4, <1>5, <1>6, <1>7, <1>8, <1>9, <1>10 DEF HostStep

(* Commands, ids and phases as they were, on every host.                   *)
LEMMA OrderSame ==
  ASSUME InOrder, UNCHANGED <<fleet, cmds, meta>>,
         \A k \in Hosts : /\ pc'[k] = "record" => pc[k] = "record" /\ phase'[k] = phase[k]
                          /\ phase'[k] = "archive" => RunDone(k)
  PROVE  InOrder'
<1>1. Hosts' = Hosts BY DEF Hosts
<1>2. \A k \in Hosts : RunDone(k)' <=> RunDone(k) BY DEF RunDone
<1> QED BY <1>1, <1>2 DEF InOrder

LEMMA OrderSend ==
  ASSUME SendInv, InOrder, NEW h \in Hosts, Send(h) PROVE InOrder'
<1> DEFINE q == phase[h]
           c == [phase |-> q, at |-> FirstStep[q]]
<1>0. /\ SendTypes /\ pc[h] = "phase" /\ UNCHANGED <<fleet, meta, phase>>
      /\ q \in Phases
  BY DEF SendInv, SendTypes, Send, Thread
<1>1. CASE UNCHANGED cmds /\ Go(h, "error")
  <2>1. \A k \in Hosts : pc'[k] = "record" => pc[k] = "record"
    BY <1>0, <1>1 DEF Go, SendTypes
  <2> QED BY <1>0, <1>1, <2>1, OrderSame DEF InOrder
<1>2. CASE /\ cmds' = [cmds EXCEPT ![h] = Append(@, c)]
           /\ Go(h, "record") \/ Go(h, "error")
  <2>1. c \in Commanded /\ c.phase = q /\ c.at \in StagesOf[q]
    BY <1>0 DEF Commanded, Stages, FirstStep, Phases, StagesOf
  <2> HIDE DEF c
  <2>2. /\ \A k \in Hosts : k # h => cmds'[k] = cmds[k]
        /\ DOMAIN cmds'[h] = DOMAIN cmds[h] \cup {Len(cmds'[h])}
        /\ cmds'[h][Len(cmds'[h])] = c
        /\ \A j \in DOMAIN cmds[h] : cmds'[h][j] = cmds[h][j]
    BY <1>0, <1>2, <2>1, SendAt
  <2>3. \A k \in Hosts : k # h => pc'[k] = pc[k]
    BY <1>0, <1>2 DEF Go, SendTypes
  <2>4. \A k \in Hosts : RunDone(k) => RunDone(k)' BY <2>2 DEF RunDone
  <2>5. q = "archive" => RunDone(h) BY DEF InOrder
  <2>6. Hosts' = Hosts BY <1>0 DEF Hosts
  <2>7. \A k \in Hosts, p \in Phases : meta'[k][p] # 0 =>
           meta'[k][p] \in DOMAIN cmds'[k] /\ cmds'[k][meta'[k][p]].phase = p
    BY <1>0, <2>2 DEF InOrder
  <2>8. \A k \in Hosts : pc'[k] = "record" => cmds'[k][Len(cmds'[k])].phase = phase'[k]
    BY <1>0, <2>1, <2>2, <2>3 DEF InOrder
  <2>9. \A k \in Hosts : \A i \in DOMAIN cmds'[k] :
           /\ cmds'[k][i].at \in StagesOf[cmds'[k][i].phase]
           /\ cmds'[k][i].phase = "archive" => RunDone(k)'
    BY <2>1, <2>2, <2>4, <2>5 DEF InOrder
  <2>10. \A k \in Hosts : phase'[k] = "archive" => RunDone(k)'
    BY <1>0, <2>4 DEF InOrder
  <2> QED BY <2>6, <2>7, <2>8, <2>9, <2>10 DEF InOrder
<1> QED BY <1>1, <1>2 DEF Send

LEMMA OrderRecord ==
  ASSUME SendInv, InOrder, NEW h \in Hosts, Record(h) PROVE InOrder'
<1> DEFINE q == phase[h]  n == Len(cmds[h])
<1>0. /\ SendTypes /\ pc[h] = "record" /\ UNCHANGED <<fleet, cmds, phase>>
      /\ q \in Phases /\ meta' = [meta EXCEPT ![h][q] = n] /\ Go(h, "phase")
      /\ cmds[h] \in Seq(Commanded) /\ cmds[h] # << >>
  BY DEF SendInv, SendTypes, Record, Thread, remote
<1>1. n \in DOMAIN cmds[h] BY <1>0
<1>2. cmds[h][n].phase = q BY <1>0 DEF InOrder
<1> HIDE DEF n, q
<1>3. \A k \in Hosts, p \in Phases :
         meta'[k][p] = IF k = h /\ p = q THEN n ELSE meta[k][p]
  BY <1>0 DEF SendTypes
<1>4. \A k \in Hosts : pc'[k] = "record" => pc[k] = "record"
  BY <1>0 DEF SendTypes, Go
<1>5. Hosts' = Hosts BY <1>0 DEF Hosts
<1>6. \A k \in Hosts : RunDone(k)' <=> RunDone(k) BY <1>0 DEF RunDone
<1>7. \A k \in Hosts, p \in Phases : meta'[k][p] # 0 =>
         meta'[k][p] \in DOMAIN cmds'[k] /\ cmds'[k][meta'[k][p]].phase = p
  BY <1>0, <1>1, <1>2, <1>3 DEF InOrder
<1>8. \A k \in Hosts : pc'[k] = "record" => cmds'[k][Len(cmds'[k])].phase = phase'[k]
  BY <1>0, <1>4 DEF InOrder
<1> QED BY <1>0, <1>5, <1>6, <1>7, <1>8 DEF InOrder

LEMMA OrderThread ==
  ASSUME SendInv, InOrder, NEW h \in Hosts, ThreadStep(h) PROVE InOrder'
<1>1. CASE Send(h) BY <1>1, OrderSend
<1>2. CASE Record(h) BY <1>2, OrderRecord
<1>3. CASE Ready(h) \/ FetchTar(h) \/ FetchSum(h)
  <2>1. /\ UNCHANGED <<fleet, cmds, meta, phase>>
        /\ \E to \in {"phase", "error", "sum", "verified"} : Go(h, to)
    BY <1>3 DEF Ready, FetchTar, FetchSum, NotFetched, remote
  <2>2. \A k \in Hosts : pc'[k] = "record" => pc[k] = "record"
    BY <2>1 DEF Go, SendInv, SendTypes
  <2> QED BY <2>1, <2>2, OrderSame DEF InOrder
<1>4. CASE Poll(h)
  <2>0. /\ SendTypes /\ UNCHANGED <<fleet, cmds, meta>> /\ phase[h] \in Phases
    BY <1>4 DEF Poll, remote, SendInv, SendTypes
  <2>1. CASE UNCHANGED phase /\ \E to \in {"error", "tar"} : Go(h, to)
    <3>1. \A k \in Hosts : pc'[k] = "record" => pc[k] = "record"
      BY <2>0, <2>1 DEF Go, SendTypes
    <3> QED BY <2>0, <2>1, <3>1, OrderSame DEF InOrder
  <2>2. ASSUME Succeeded(h), UNCHANGED pc, phase[h] # "archive",
               phase' = [phase EXCEPT ![h] = After[@]]
        PROVE  InOrder'
    <3>1. \A k \in Hosts : phase'[k] = IF k = h THEN After[phase[h]] ELSE phase[k]
      BY <2>0, <2>2 DEF SendTypes
    <3>2. pc[h] = "phase" /\ meta[h][phase[h]] # 0 BY <1>4 DEF Poll, Thread, Settled
    <3>3. After[phase[h]] = "archive" => phase[h] = "run"
      BY <2>0, <2>2 DEF After, Phases
    <3>4. phase'[h] = "archive" => RunDone(h)
      BY <2>0, <2>2, <3>1, <3>2, <3>3 DEF InOrder, RunDone, Succeeded
    <3>5. \A k \in Hosts : pc'[k] = "record" => pc[k] = "record" /\ phase'[k] = phase[k]
      BY <2>2, <3>1, <3>2
    <3>6. \A k \in Hosts : phase'[k] = "archive" => RunDone(k)
      BY <3>1, <3>4 DEF InOrder
    <3> QED BY <2>0, <3>5, <3>6, OrderSame
  <2> QED BY <1>4, <2>1, <2>2 DEF Poll
<1> QED BY <1>1, <1>2, <1>3, <1>4 DEF ThreadStep

LEMMA OrderHost ==
  ASSUME SendInv, InOrder, NEW h \in Hosts, NEW i \in Commands(h), HostStep(h, i)
  PROVE  InOrder'
<1>0. /\ SendTypes /\ i \in DOMAIN cmds[h] /\ UNCHANGED <<fleet, pc, meta, phase>>
      /\ cmds[h][i].at # "Success"
  BY HostFrame, Finished DEF driver, SendInv
<1>1. PICK to \in StagesOf[cmds[h][i].phase] : Move(h, i, to) BY StagesKept
<1>2. to \in Stages
  <2>0. cmds[h][i] \in Commanded BY <1>0 DEF SendTypes
  <2>1. cmds[h][i].phase \in Phases BY <2>0 DEF Commanded
  <2> QED BY <2>1 DEF StagesOf, Phases, Stages
<1>3. \A k \in Hosts :
        /\ DOMAIN cmds'[k] = DOMAIN cmds[k]
        /\ Len(cmds'[k]) = Len(cmds[k])
        /\ \A j \in DOMAIN cmds[k] :
             /\ cmds'[k][j].phase = cmds[k][j].phase
             /\ cmds'[k][j].at = IF k = h /\ j = i THEN to ELSE cmds[k][j].at
  BY <1>0, <1>1, <1>2, MoveAt
<1>4. \A k \in Hosts : RunDone(k) => RunDone(k)' BY <1>0, <1>3 DEF RunDone
<1>5. Hosts' = Hosts BY <1>0 DEF Hosts
<1>6. \A k \in Hosts, p \in Phases : meta'[k][p] # 0 =>
         meta'[k][p] \in DOMAIN cmds'[k] /\ cmds'[k][meta'[k][p]].phase = p
  BY <1>0, <1>3 DEF InOrder
<1>7. \A k \in Hosts : pc'[k] = "record" => cmds'[k][Len(cmds'[k])].phase = phase'[k]
  <2> SUFFICES ASSUME NEW k \in Hosts, pc[k] = "record"
               PROVE  cmds'[k][Len(cmds'[k])].phase = phase[k]
    BY <1>0
  <2>1. cmds[k] \in Seq(Commanded) /\ cmds[k] # << >> BY DEF SendInv, SendTypes
  <2>2. Len(cmds[k]) \in DOMAIN cmds[k] BY <2>1
  <2> QED BY <1>3, <2>2 DEF InOrder
<1>8. \A k \in Hosts : \A j \in DOMAIN cmds'[k] :
         /\ cmds'[k][j].at \in StagesOf[cmds'[k][j].phase]
         /\ cmds'[k][j].phase = "archive" => RunDone(k)'
  BY <1>1, <1>3, <1>4 DEF InOrder
<1>9. \A k \in Hosts : phase'[k] = "archive" => RunDone(k)'
  BY <1>0, <1>4 DEF InOrder
<1> QED BY <1>5, <1>6, <1>7, <1>8, <1>9 DEF InOrder

LEMMA OrderNext == ASSUME SendInv, InOrder, [Next]_vars PROVE InOrder'
<1>1. ASSUME NEW h \in Hosts, ThreadStep(h) PROVE InOrder' BY <1>1, OrderThread
<1>2. ASSUME NEW h \in Hosts, NEW i \in Commands(h), HostStep(h, i) PROVE InOrder'
  BY <1>2, OrderHost
<1>3. CASE Joined \/ Stop \/ WatchStep \/ StopLast \/ Confirm \/ Destroy \/ Terminated
           \/ UNCHANGED vars
  <2>1. UNCHANGED <<fleet, cmds, meta, phase>>
    BY <1>3 DEF Joined, Stop, WatchStep, Scan, Assure, Normalize, Noted, StopLast,
                Confirm, Destroy, Terminated, vars, driver, remote
  <2>2. \A k \in Hosts : pc'[k] = "record" => pc[k] = "record"
    BY <1>3 DEF Joined, Stop, WatchStep, Scan, Assure, Normalize, Noted, StopLast,
                Confirm, Destroy, Terminated, vars, driver
  <2> QED BY <2>1, <2>2, OrderSame DEF InOrder
<1>4. CASE Start
  <2>1. /\ UNCHANGED <<fleet, cmds, meta>>
        /\ \A k \in Hosts : pc'[k] = "ready" /\ phase'[k] = "stage"
    BY <1>4 DEF Start, remote
  <2> QED BY <2>1, OrderSame
<1> QED BY <1>1, <1>2, <1>3, <1>4 DEF Next

(***************************************************************************)
(* A host no id of which was lost.                                         *)
(***************************************************************************)

(* The phase of a command.                                                 *)
LEMMA PhaseOf ==
  ASSUME SendTypes, NEW h \in Hosts, NEW i \in DOMAIN cmds[h]
  PROVE  cmds[h][i].phase \in Phases
<1>1. cmds[h][i] \in Commanded BY DEF SendTypes
<1> QED BY <1>1 DEF Commanded

(* Ids stay lost, and where none is lost the known ones stay known.        *)
LEMMA KnownStays ==
  ASSUME SendInv, [Next]_vars, NEW h \in Hosts, Alone(h)'
  PROVE  Alone(h) /\ \A p \in Phases : Known(h, p) => Known(h, p)'
<1>0. SendTypes BY DEF SendInv
<1>1. ASSUME UNCHANGED <<lost, meta>>,
             pc[h] = "record" => pc'[h] = "record" /\ phase'[h] = phase[h]
      PROVE  Alone(h) /\ \A p \in Phases : Known(h, p) => Known(h, p)'
  BY <1>1 DEF Alone, Known
<1>2. ASSUME NEW k \in Hosts, Ready(k) \/ FetchTar(k) \/ FetchSum(k)
      PROVE  Alone(h) /\ \A p \in Phases : Known(h, p) => Known(h, p)'
  <2>1. /\ UNCHANGED <<lost, meta, phase>> /\ pc[k] # "record"
        /\ \E to \in {"phase", "error", "sum", "verified"} : Go(k, to)
    BY <1>2 DEF Ready, FetchTar, FetchSum, NotFetched, Thread, remote
  <2>2. h # k => pc'[h] = pc[h] BY <1>0, <2>1 DEF Go, SendTypes
  <2> QED BY <1>1, <2>1, <2>2
<1>3. ASSUME NEW k \in Hosts, Poll(k)
      PROVE  Alone(h) /\ \A p \in Phases : Known(h, p) => Known(h, p)'
  <2>1. /\ UNCHANGED <<lost, meta>> /\ pc[k] # "record"
        /\ h # k => pc'[h] = pc[h] /\ phase'[h] = phase[h]
    BY <1>0, <1>3 DEF Poll, Thread, Go, SendTypes
  <2> QED BY <1>1, <2>1
<1>4. ASSUME NEW k \in Hosts, Send(k)
      PROVE  Alone(h) /\ \A p \in Phases : Known(h, p) => Known(h, p)'
  <2>1. /\ UNCHANGED <<meta, phase>> /\ pc[k] # "record"
        /\ h # k => pc'[h] = pc[h]
    BY <1>0, <1>4 DEF Send, Thread, Go, SendTypes
  <2>2. Alone(h)
    <3>1. CASE UNCHANGED lost BY <3>1 DEF Alone
    <3>2. CASE lost' = [lost EXCEPT ![k][phase[k]] = @ + 1]
      <4> DEFINE q == phase[k]
      <4>1. q \in Phases BY <1>0 DEF SendTypes
      <4> HIDE DEF q
      <4>2. \A p \in Phases : lost'[h][p] = IF h = k /\ p = q THEN lost[k][q] + 1 ELSE lost[h][p]
        BY <1>0, <3>2, <4>1 DEF SendTypes, q
      <4>3. lost[k][q] \in Nat BY <1>0, <4>1 DEF SendTypes
      <4> QED BY <4>1, <4>2, <4>3 DEF Alone
    <3> QED BY <1>4, <3>1, <3>2 DEF Send
  <2>3. \A p \in Phases : Known(h, p) => Known(h, p)' BY <2>1 DEF Known
  <2> QED BY <2>2, <2>3
<1>5. ASSUME NEW k \in Hosts, Record(k)
      PROVE  Alone(h) /\ \A p \in Phases : Known(h, p) => Known(h, p)'
  <2> DEFINE q == phase[k]  n == Len(cmds[k])
  <2>1. /\ UNCHANGED <<lost, phase>> /\ q \in Phases
        /\ meta' = [meta EXCEPT ![k][q] = n] /\ Go(k, "phase")
        /\ cmds[k] \in Seq(Commanded) /\ cmds[k] # << >>
    BY <1>0, <1>5 DEF Record, Thread, SendInv, SendTypes
  <2>2. n # 0 BY <2>1
  <2> HIDE DEF n, q
  <2>3. \A p \in Phases : meta'[h][p] = IF h = k /\ p = q THEN n ELSE meta[h][p]
    BY <1>0, <2>1 DEF SendTypes
  <2>4. pc'[h] = IF h = k THEN "phase" ELSE pc[h] BY <1>0, <2>1 DEF Go, SendTypes
  <2> QED BY <2>1, <2>2, <2>3, <2>4 DEF Alone, Known, q
<1>6. CASE Stop
  <2>1. \A p \in Phases : lost'[h][p] = lost[h][p] +
                            IF pc[h] = "record" /\ phase[h] = p THEN 1 ELSE 0
    BY <1>6 DEF Stop
  <2>2. \A p \in Phases : lost[h][p] \in Nat BY <1>0 DEF SendTypes
  <2>3. Alone(h) /\ \A p \in Phases : ~(pc[h] = "record" /\ phase[h] = p)
    BY <2>1, <2>2 DEF Alone
  <2> QED BY <1>6, <2>3 DEF Known, Stop
<1>7. CASE Joined \/ Start
  <2>1. pc[h] # "record" BY <1>7 DEF Joined, Start, SendInv
  <2> QED BY <1>1, <1>7, <2>1 DEF Joined, Start
<1>8. ASSUME NEW k \in Hosts, NEW i \in Commands(k), HostStep(k, i)
      PROVE  Alone(h) /\ \A p \in Phases : Known(h, p) => Known(h, p)'
  BY <1>1, <1>8, HostFrame DEF driver
<1>9. CASE WatchStep \/ StopLast \/ Confirm \/ Destroy \/ Terminated \/ UNCHANGED vars
  BY <1>1, <1>9 DEF WatchStep, Scan, Assure, Normalize, Noted, StopLast, Confirm,
     Destroy, Terminated, vars, driver
<1> QED BY <1>2, <1>3, <1>4, <1>5, <1>6, <1>7, <1>8, <1>9 DEF Next, ThreadStep

(* Where the host's files, evidence and commands are as they were.         *)
LEMMA UndisturbedSame ==
  ASSUME SendInv, [Next]_vars, NEW h \in Hosts, Undisturbed(h), Alone(h)',
         cmds'[h] = cmds[h], evid'[h] = evid[h], disk'[h] = disk[h],
         bucket'[h] = bucket[h],
         local'[h].tar \in {local[h].tar, bucket[h].tar},
         local'[h].receipt \in {local[h].receipt, local[h].tar}
  PROVE  Undisturbed(h)'
<1>1. \A i \in DOMAIN cmds[h] : cmds[h][i].phase \in Phases
  BY PhaseOf DEF SendInv
<1>2. OneEach(h)' BY <1>1, KnownStays DEF Undisturbed, OneEach
<1>3. Told(h)' BY DEF Undisturbed, Told, HasRun
<1>4. Genuine(h)' BY DEF Undisturbed, Genuine, Ended
<1> QED BY <1>2, <1>3, <1>4 DEF Undisturbed

(* A phase sent while no id of it is known is sent for the first time.     *)
LEMMA UndisturbedSend ==
  ASSUME VerifyInv, NEW h \in Hosts, Undisturbed(h), Send(h), Alone(h)'
  PROVE  Undisturbed(h)'
<1> DEFINE q == phase[h]
           c == [phase |-> q, at |-> FirstStep[q]]
<1>0. /\ SendInv /\ SendTypes /\ pc[h] = "phase" /\ meta[h][q] = 0
      /\ UNCHANGED <<meta, phase, evid, disk, bucket, local>> /\ q \in Phases
  BY DEF VerifyInv, KeepInv, SendInv, SendTypes, Send, Thread
<1>1. Next BY DEF Next, ThreadStep
<1>2. CASE UNCHANGED cmds
  BY <1>0, <1>1, <1>2, UndisturbedSame
<1>3. CASE cmds' = [cmds EXCEPT ![h] = Append(@, c)] /\ ~UNCHANGED cmds
  <2>1. c \in Commanded /\ c.phase = q /\ (q = "run" => c.at = "primitives")
    BY <1>0 DEF Commanded, Stages, FirstStep, Phases
  <2> HIDE DEF c
  <2> DEFINE n == Len(cmds'[h])
  <2>2. /\ DOMAIN cmds'[h] = DOMAIN cmds[h] \cup {n}
        /\ n \notin DOMAIN cmds[h]
        /\ cmds'[h][n] = c
        /\ \A j \in DOMAIN cmds[h] : cmds'[h][j] = cmds[h][j]
    BY <1>0, <1>3, <2>1, SendAt
  <2> HIDE DEF n
  <2>3. \A j \in DOMAIN cmds[h] : cmds[h][j].phase # q
    <3>1. ~Known(h, q) BY <1>0 DEF Known
    <3> QED BY <3>1 DEF Undisturbed, OneEach
  <2>4. Go(h, "record")
    <3>1. CASE Go(h, "error") /\ lost' = [lost EXCEPT ![h][q] = @ + 1]
      <4> HIDE DEF q
      <4>1. lost[h][q] \in Nat /\ lost'[h][q] = lost[h][q] + 1
        BY <1>0, <3>1 DEF SendTypes
      <4>2. lost'[h][q] = 0 BY <1>0 DEF Alone
      <4> QED BY <4>1, <4>2
    <3> QED BY <1>3, <3>1 DEF Send
  <2>5. Known(h, q)' BY <1>0, <2>4 DEF Known, Go, SendTypes
  <2>6. \A j \in DOMAIN cmds[h] : cmds[h][j].phase \in Phases
    BY <1>0, PhaseOf
  <2>7. OneEach(h)'
    <3>1. \A p \in Phases : Known(h, p) => Known(h, p)'
      BY <1>0, <1>1, KnownStays
    <3>2. \A j \in DOMAIN cmds[h] : Known(h, cmds[h][j].phase)
      BY DEF Undisturbed, OneEach
    <3> HIDE DEF q
    <3>4. ASSUME NEW j \in DOMAIN cmds'[h] PROVE Known(h, cmds[h][j].phase)'
      <4>0. PICK p : p = cmds'[h][j].phase OBVIOUS
      <4>1. p = q \/ (p \in Phases /\ Known(h, p)) BY <2>1, <2>2, <2>6, <3>2, <4>0
      <4>2. Known(h, p)'
        <5>1. CASE p = q BY <1>0, <2>5, <5>1 DEF Known, q
        <5>2. CASE p \in Phases /\ Known(h, p) BY <3>1, <5>2
        <5> QED BY <4>1, <5>1, <5>2
      <4> QED BY <4>0, <4>2 DEF Known
    <3>3. \A i, j \in DOMAIN cmds'[h] : cmds'[h][i].phase = cmds'[h][j].phase => i = j
      BY <2>1, <2>2, <2>3 DEF Undisturbed, OneEach
    <3> QED BY <3>3, <3>4 DEF OneEach
  <2>8. Told(h)'
    <3>1. CASE q # "run"
      <4>1. HasRun(h)' <=> HasRun(h) BY <2>1, <2>2, <3>1 DEF HasRun
      <4> QED BY <1>0, <2>1, <2>2, <3>1, <4>1 DEF Undisturbed, Told
    <3>2. CASE q = "run"
      <4>1. ~HasRun(h) BY <2>3, <3>2 DEF HasRun
      <4>2. \A d \in Cohorts : evid[h][d] = none BY <4>1 DEF Undisturbed, Told
      <4>3. Tells(evid[h], "primitives") BY <4>2 DEF Tells, Cohorts
      <4>4. HasRun(h)' BY <2>1, <2>2, <3>2 DEF HasRun
      <4> QED BY <1>0, <2>1, <2>2, <2>3, <3>2, <4>3, <4>4 DEF Told
    <3> QED BY <3>1, <3>2
  <2>9. Genuine(h)' BY <1>0 DEF Undisturbed, Genuine, Ended
  <2> QED BY <2>7, <2>8, <2>9 DEF Undisturbed
<1> QED BY <1>2, <1>3 DEF Send

(* A script that collects is the only one, and nothing was archived yet.   *)
LEMMA UndisturbedCollect ==
  ASSUME VerifyInv, NEW h \in Hosts, NEW i \in Commands(h), Undisturbed(h), Alone(h)',
         NEW c \in Cohorts, Collect(h, i, c) \/ Collected(h, i, c)
  PROVE  Undisturbed(h)'
<1>0. /\ SendInv /\ SendTypes /\ i \in DOMAIN cmds[h] /\ OwnFolder /\ InOrder /\ KeepTypes
      /\ cmds[h][i] \in Commanded /\ UNCHANGED <<disk, bucket, local>>
  BY DEF VerifyInv, KeepInv, SendInv, SendTypes, Commands, Collect, Collected
<1>1. HostStep(h, i) BY DEF HostStep
<1>2. Next BY <1>1 DEF Next
<1>3. cmds[h][i].at \in {c, Busy[c]} BY DEF Collect, Collected, Runs
<1>4. cmds[h][i].phase = "run"
  BY <1>0, <1>3 DEF InOrder, StagesOf, Cohorts, Busy, Commanded, Phases
<1>5. Tells(evid[h], cmds[h][i].at) BY <1>0, <1>4 DEF Undisturbed, Told
<1>6. evid[h][c] \in {none, "running"}
  BY <1>3, <1>5 DEF Tells, Cohorts, Busy
<1>7. ~Ended(h) BY <1>6 DEF Ended, Ends, none
<1>8. \E to \in Stages, x \in {"running"} \cup Ends :
        /\ Move(h, i, to) /\ evid' = [evid EXCEPT ![h][c] = x]
        /\ Tells([evid[h] EXCEPT ![c] = x], to)
  <2>0. evid[h] \in [Cohorts -> {none, "running"} \cup Ends] BY <1>0 DEF KeepTypes
  <2>1. CASE Collect(h, i, c)
    <3>1. evid[h][c] = none BY <1>5, <2>1 DEF Collect, Runs, Tells, Cohorts
    <3>2. Move(h, i, Busy[c]) /\ evid' = [evid EXCEPT ![h][c] = "running"]
      BY <2>1, <3>1 DEF Collect
    <3>3. Tells([evid[h] EXCEPT ![c] = "running"], Busy[c])
      BY <1>5, <2>0, <2>1 DEF Collect, Runs, Tells, Cohorts, Busy
    <3>4. Busy[c] \in Stages BY DEF Busy, Cohorts, Stages
    <3> QED BY <3>2, <3>3, <3>4
  <2>2. CASE Collected(h, i, c)
    <3>1. PICK x \in Ends : evid' = [evid EXCEPT ![h][c] = x]
      BY <2>2 DEF Collected, Ends
    <3>2. Move(h, i, Following(c)) BY <2>2 DEF Collected
    <3>3. Tells([evid[h] EXCEPT ![c] = x], Following(c))
      BY <1>5, <2>0, <2>2 DEF Collected, Runs, Tells, Cohorts, Busy, Following
    <3>4. Following(c) \in Stages BY DEF Following, Stages
    <3> QED BY <3>1, <3>2, <3>3, <3>4
  <2> QED BY <2>1, <2>2
<1>9. PICK to \in Stages, x \in {"running"} \cup Ends :
        /\ Move(h, i, to) /\ evid' = [evid EXCEPT ![h][c] = x]
        /\ Tells([evid[h] EXCEPT ![c] = x], to)
  BY <1>8
<1>10. /\ DOMAIN cmds'[h] = DOMAIN cmds[h]
       /\ \A j \in DOMAIN cmds[h] :
             /\ cmds'[h][j].phase = cmds[h][j].phase
             /\ j # i => cmds'[h][j].at = cmds[h][j].at
       /\ cmds'[h][i].at = to
  BY <1>0, <1>9, MoveAt
<1>11. evid'[h] = [evid[h] EXCEPT ![c] = x] BY <1>0, <1>9 DEF KeepTypes
<1>12. \A j \in DOMAIN cmds[h] : cmds[h][j].phase \in Phases
  BY <1>0, PhaseOf
<1>13. OneEach(h)' BY <1>0, <1>2, <1>10, <1>12, KnownStays DEF Undisturbed, OneEach
<1>14. Told(h)'
  <2>1. \A j \in DOMAIN cmds[h] : cmds[h][j].phase = "run" => j = i
    BY <1>0, <1>4 DEF Undisturbed, OneEach
  <2>2. HasRun(h)' BY <1>0, <1>4, <1>10 DEF HasRun
  <2> QED BY <1>9, <1>10, <1>11, <2>1, <2>2 DEF Told
<1>15. Genuine(h)' BY <1>0, <1>7 DEF Undisturbed, Genuine
<1> QED BY <1>13, <1>14, <1>15 DEF Undisturbed

(* The archive's script runs after a successful collection, and what it    *)
(* makes and puts is of the evidence as it will stay.                      *)
LEMMA UndisturbedScript ==
  ASSUME VerifyInv, NEW h \in Hosts, NEW i \in Commands(h), Undisturbed(h), Alone(h)',
         HostStep(h, i), UNCHANGED evid, NEW to \in Stages, Move(h, i, to),
         cmds[h][i].phase = "run" => to = "Failed"
  PROVE  Undisturbed(h)'
<1>0. /\ SendInv /\ SendTypes /\ i \in DOMAIN cmds[h] /\ InOrder /\ KeepTypes
      /\ cmds[h][i] \in Commanded /\ UNCHANGED local
  BY HostFrame DEF VerifyInv, KeepInv, SendInv, SendTypes, Commands
<1>1. Next BY DEF Next
<1>2. /\ DOMAIN cmds'[h] = DOMAIN cmds[h]
      /\ \A j \in DOMAIN cmds[h] :
            /\ cmds'[h][j].phase = cmds[h][j].phase
            /\ j # i => cmds'[h][j].at = cmds[h][j].at
      /\ cmds'[h][i].at = to
  BY <1>0, MoveAt
<1>3. \A j \in DOMAIN cmds[h] : cmds[h][j].phase \in Phases
  BY <1>0, PhaseOf
<1>4. OneEach(h)' BY <1>0, <1>1, <1>2, <1>3, KnownStays DEF Undisturbed, OneEach
<1>5. Told(h)'
  <2>1. HasRun(h)' <=> HasRun(h) BY <1>2 DEF HasRun
  <2>2. \A e : Tells(e, "Failed") BY DEF Tells
  <2> QED BY <1>0, <1>2, <2>1, <2>2 DEF Undisturbed, Told
<1>6. Genuine(h)'
  <2>1. CASE disk' = [disk EXCEPT ![h] = Content(evid[h])] /\ cmds[h][i].at = "tar"
             /\ UNCHANGED bucket
    <3>1. cmds[h][i].phase = "archive"
      BY <1>0, <2>1 DEF InOrder, StagesOf, Commanded, Phases
    <3>2. PICK j \in DOMAIN cmds[h] : cmds[h][j].phase = "run" /\ cmds[h][j].at = "Success"
      BY <1>0, <3>1 DEF InOrder, RunDone
    <3>3. Ended(h) BY <3>2 DEF Undisturbed, Told, Tells, Ended, Cohorts
    <3>4. disk'[h] = Content(evid[h]) BY <1>0, <2>1 DEF KeepTypes
    <3> QED BY <1>0, <2>1, <3>3, <3>4 DEF Undisturbed, Genuine, Ended
  <2>2. ASSUME NEW f \in {"tar", "sum"}, bucket' = [bucket EXCEPT ![h][f] = disk[h]],
               UNCHANGED disk
        PROVE  Genuine(h)'
    <3>1. bucket'[h].tar \in {bucket[h].tar, disk[h]} /\ bucket'[h].sum \in {bucket[h].sum, disk[h]}
      <4>1. bucket \in [Hosts -> [{"tar", "sum"} -> Contents]] BY <1>0 DEF KeepTypes
      <4> QED BY <2>2, <4>1
    <3> QED BY <1>0, <2>2, <3>1 DEF Undisturbed, Genuine, Ended
  <2>3. CASE UNCHANGED <<disk, bucket>> BY <1>0, <2>3 DEF Undisturbed, Genuine, Ended
  <2>4. \/ UNCHANGED <<disk, bucket>>
        \/ Tar(h, i) \/ Put(h, i, "put-tar", "tar", "put-sum")
        \/ Put(h, i, "put-sum", "sum", "Success")
    BY DEF HostStep, Stage, Prologue, Expire, Collect, Collected
  <2> QED BY <2>1, <2>2, <2>3, <2>4 DEF Tar, Put, Runs
<1> QED BY <1>4, <1>5, <1>6 DEF Undisturbed

LEMMA UndisturbedHost ==
  ASSUME VerifyInv, NEW h \in Hosts, NEW i \in Commands(h), HostStep(h, i),
         Undisturbed(h), Alone(h)'
  PROVE  Undisturbed(h)'
<1>0. /\ InOrder /\ cmds[h][i] \in Commanded
  BY DEF VerifyInv, KeepInv, SendInv, SendTypes, Commands
<1>1. ASSUME NEW c \in Cohorts, Collect(h, i, c) \/ Collected(h, i, c)
      PROVE  Undisturbed(h)'
  BY <1>1, UndisturbedCollect
<1>2. \A to \in {"put-tar", "put-sum", "Success", "Failed"} : to \in Stages BY DEF Stages
<1>3. i \in DOMAIN cmds[h] BY DEF VerifyInv, KeepInv, SendInv, SendTypes, Commands
<1>4. cmds[h][i].at \in {"staging", "tar", "put-tar", "put-sum"} => cmds[h][i].phase # "run"
  BY <1>0, <1>3 DEF InOrder, StagesOf, Commanded, Phases
<1>5. CASE Stage(h, i)
  BY <1>2, <1>4, <1>5, UndisturbedScript DEF Stage, Goes, Fails, Runs
<1>6. CASE Prologue(h, i)
  BY <1>2, <1>6, UndisturbedScript DEF Prologue, Fails
<1>7. CASE Tar(h, i)
  BY <1>2, <1>4, <1>7, UndisturbedScript DEF Tar, Goes, Fails, Runs
<1>8. CASE Expire(h, i)
  BY <1>2, <1>8, UndisturbedScript DEF Expire
<1>9. CASE Put(h, i, "put-tar", "tar", "put-sum")
  BY <1>2, <1>4, <1>9, UndisturbedScript DEF Put, Goes, Fails, Runs
<1>10. CASE Put(h, i, "put-sum", "sum", "Success")
  BY <1>2, <1>4, <1>10, UndisturbedScript DEF Put, Goes, Fails, Runs
<1> QED BY <1>1, <1>5, <1>6, <1>7, <1>8, <1>9, <1>10 DEF HostStep

(* A step at one host leaves the others' files, evidence and commands.     *)
LEMMA OtherHost ==
  ASSUME SendInv, KeepTypes, NEW h \in Hosts, NEW k \in Hosts \ {h},
         Send(h) \/ \E i \in Commands(h) : HostStep(h, i)
  PROVE  /\ cmds'[k] = cmds[k] /\ evid'[k] = evid[k] /\ disk'[k] = disk[k]
         /\ bucket'[k] = bucket[k] /\ local'[k] = local[k]
<1>0. SendTypes BY DEF SendInv
<1>1. CASE Send(h) BY <1>0, <1>1 DEF Send, SendTypes
<1>2. ASSUME NEW i \in Commands(h), HostStep(h, i)
      PROVE  /\ cmds'[k] = cmds[k] /\ evid'[k] = evid[k] /\ disk'[k] = disk[k]
             /\ bucket'[k] = bucket[k] /\ local'[k] = local[k]
  <2>1. UNCHANGED local /\ \E to \in Stages : Move(h, i, to) BY <1>2, HostFrame
  <2>2. cmds'[k] = cmds[k] BY <1>0, <2>1 DEF Move, SendTypes
  <2>3. evid'[k] = evid[k]
    BY <1>2 DEF HostStep, Stage, Prologue, Tar, Expire, Put, Collect, Collected, KeepTypes
  <2>4. disk'[k] = disk[k]
    BY <1>2 DEF HostStep, Stage, Prologue, Tar, Expire, Put, Collect, Collected, KeepTypes
  <2>5. bucket'[k] = bucket[k]
    BY <1>2 DEF HostStep, Stage, Prologue, Tar, Expire, Put, Collect, Collected, KeepTypes
  <2> QED BY <2>1, <2>2, <2>3, <2>4, <2>5
<1> QED BY <1>1, <1>2

LEMMA UndisturbedNext ==
  ASSUME VerifyInv, [Next]_vars, NEW h \in Hosts, Undisturbed(h), Alone(h)'
  PROVE  Undisturbed(h)'
<1>0. SendInv /\ KeepTypes BY DEF VerifyInv, KeepInv
<1>1. ASSUME NEW k \in Hosts, ThreadStep(k), ~Send(k) PROVE Undisturbed(h)'
  <2>1. UNCHANGED <<cmds, evid, disk, bucket>>
    BY <1>1 DEF ThreadStep, Ready, Record, Poll, FetchTar, FetchSum, remote
  <2>2. /\ local'[h].tar \in {local[h].tar, bucket[h].tar}
        /\ local'[h].receipt \in {local[h].receipt, local[h].tar}
    BY <1>0, <1>1, Fetches
  <2> QED BY <1>0, <2>1, <2>2, UndisturbedSame
<1>2. ASSUME NEW k \in Hosts, Send(k) PROVE Undisturbed(h)'
  <2>1. CASE k = h BY <1>2, <2>1, UndisturbedSend
  <2>2. CASE k # h BY <1>0, <1>2, <2>2, OtherHost, UndisturbedSame
  <2> QED BY <2>1, <2>2
<1>3. ASSUME NEW k \in Hosts, NEW i \in Commands(k), HostStep(k, i)
      PROVE  Undisturbed(h)'
  <2>1. CASE k = h BY <1>3, <2>1, UndisturbedHost
  <2>2. CASE k # h BY <1>0, <1>3, <2>2, OtherHost, UndisturbedSame
  <2> QED BY <2>1, <2>2
<1>4. CASE Joined \/ Stop \/ Start \/ WatchStep \/ StopLast \/ Confirm \/ Destroy
           \/ Terminated \/ UNCHANGED vars
  <2>1. UNCHANGED <<cmds, evid, disk, bucket, local>>
    BY <1>4 DEF Joined, Stop, Start, WatchStep, Scan, Assure, Normalize, Noted, StopLast,
                Confirm, Destroy, Terminated, vars, remote
  <2> QED BY <1>0, <2>1, UndisturbedSame
<1> QED BY <1>1, <1>2, <1>3, <1>4 DEF Next

LEMMA NextVerify == ASSUME VerifyInv, [Next]_vars PROVE VerifyInv'
<1>1. KeepInv' /\ InOrder' BY NextKeep, OrderNext DEF VerifyInv, KeepInv
<1>2. Hosts' = Hosts
  <2>1. UNCHANGED fleet
    <3>1. ASSUME NEW h \in Hosts, ThreadStep(h) PROVE UNCHANGED fleet
      BY <3>1 DEF ThreadStep, Ready, Send, Record, Poll, FetchTar, FetchSum
    <3>2. ASSUME NEW h \in Hosts, NEW i \in Commands(h), HostStep(h, i)
          PROVE  UNCHANGED fleet
      BY <3>2, HostFrame DEF VerifyInv, KeepInv, driver
    <3> QED BY <3>1, <3>2 DEF Next, Joined, Stop, Start, WatchStep, Scan, Assure, Normalize,
                Noted, StopLast, Confirm, Destroy, Terminated, vars, driver
  <2> QED BY <2>1 DEF Hosts
<1>3. ASSUME NEW h \in Hosts, Alone(h)' PROVE Undisturbed(h)'
  <2>1. Alone(h) BY <1>3, KnownStays DEF VerifyInv, KeepInv
  <2>2. Undisturbed(h) BY <2>1 DEF VerifyInv
  <2> QED BY <1>3, <2>2, UndisturbedNext
<1> QED BY <1>1, <1>2, <1>3 DEF VerifyInv

LEMMA InitVerify == ASSUME Init PROVE VerifyInv
<1>1. KeepInv BY InitKeep
<1>2. InOrder BY DEF Init, InOrder, Phases
<1>3. ASSUME NEW h \in Hosts PROVE Undisturbed(h)
  <2>1. cmds[h] = << >> BY DEF Init
  <2>2. OneEach(h) /\ Told(h) BY <2>1 DEF Init, OneEach, Told, HasRun
  <2>3. Genuine(h) BY DEF Init, Genuine
  <2> QED BY <2>2, <2>3 DEF Undisturbed
<1> QED BY <1>1, <1>2, <1>3 DEF VerifyInv

(* Where every command's id reached the disk, a receipt is of an archive   *)
(* taken when both collectors had ended, and of what they left, however    *)
(* often calls fail and the driver is stopped (orchestrate.py,             *)
(* orchestrate300.py): for every fleet.                                    *)
THEOREM ReceiptsAreComplete == Spec => []VerifiedIsComplete
<1>1. Init => VerifyInv BY InitVerify
<1>2. VerifyInv /\ [Next]_vars => VerifyInv' BY NextVerify
<1>3. VerifyInv => VerifiedIsComplete
  <2> SUFFICES ASSUME VerifyInv, NEW h \in Hosts, local[h].receipt # none, Alone(h)
               PROVE  local[h].receipt = Content(evid[h]) /\ local[h].receipt \notin Unsettled
    BY DEF VerifiedIsComplete, Alone
  <2>1. Ended(h) /\ local[h].receipt = Content(evid[h])
    BY DEF VerifyInv, Undisturbed, Genuine
  <2>2. Content(evid[h]) \notin Unsettled BY <2>1 DEF Content, Unsettled, Ended, Ends, none
  <2> QED BY <2>1, <2>2
<1> QED BY <1>1, <1>2, <1>3, PTL DEF Spec

(***************************************************************************)
(* The parts side by side.                                                 *)
(***************************************************************************)

(* Each part moves as its own specification says, or not at all.           *)
LEMMA PartsMove ==
  StudySpec => Spec /\ W!Spec /\ E!Spec /\ F!Spec
<1>1. StudyInit => Init /\ W!Init /\ E!Init /\ F!Init BY DEF StudyInit
<1>2. [StudyNext]_studyVars => [Next]_vars
  BY DEF StudyNext, studyVars
<1>3. [StudyNext]_studyVars => [W!Next]_(W!vars)
  BY DEF StudyNext, studyVars, windows, W!vars
<1>4. [StudyNext]_studyVars => [E!Next]_(E!vars)
  BY DEF StudyNext, studyVars, evidence, E!vars
<1>5. [StudyNext]_studyVars => [F!Next]_(F!vars)
  <2>1. UNCHANGED fixtures => UNCHANGED F!vars
    BY DEF fixtures, F!vars, F!fixture, F!session, F!wires, F!native
  <2> QED BY <2>1 DEF StudyNext, studyVars
<1> QED BY <1>1, <1>2, <1>3, <1>4, <1>5, PTL DEF StudySpec, Spec, W!Spec, E!Spec, F!Spec

(* In every study a valid Windows row misses nothing that its program did  *)
(* (windows/harness/analyze.py:60-102).                                    *)
THEOREM StudyRowsAreTrue == StudySpec => []ValidIsTrue
<1>1. W!PlansAssumption
  <2>1. SUFFICES ASSUME NEW p \in Plans, p.kind = "single" PROVE Len(p.modes) = 1
    BY DEF W!PlansAssumption
  <2>2. p = [kind |-> "single", modes |-> <<"active">>] BY <2>1 DEF Plans
  <2>3. p.modes = <<"active">> BY <2>2
  <2> QED BY <2>3
<1>2. W!Spec => []W!ValidIsTrue BY <1>1, W!ValidRowsAreTrue
<1> QED BY <1>2, PartsMove, PTL DEF ValidIsTrue

(* In every study what is counted comes from whole files (normalize.py,    *)
(* pilot/verify-evidence.py, pilot/analyze.py:100).                        *)
THEOREM StudyCountsWhole == StudySpec => []CountsAreWhole
BY E!CountedIsWhole, PartsMove, PTL DEF CountsAreWhole

(* In every study a slot has one row, and a later capture counts only      *)
(* where the first failed as a whole (pilot/analyze.py:166-200).           *)
THEOREM StudyCountsOnce ==
  ASSUME IsFiniteSet(Slots) PROVE StudySpec => []NoSecondChance
<1>1. E!IsFiniteSet(Slots) BY DEF IsFiniteSet, E!IsFiniteSet
<1>2. E!Spec => []E!NoSecondChance BY <1>1, E!NoneHasASecondChance
<1> QED BY <1>2, PartsMove, PTL DEF NoSecondChance

(* In every study the harness is told of success only where the operation  *)
(* was carried out and received (fixtures/services.py, invoke.py).         *)
THEOREM StudyToldTheTruth == StudySpec => []VerdictIsTrue
<1>1. SmallCases \subseteq F!Kinds BY DEF SmallCases, F!Kinds
<1>2. F!Spec => []F!VerdictIsTrue BY <1>1, F!HarnessIsToldTheTruth
<1> QED BY <1>2, PartsMove, PTL DEF VerdictIsTrue
=============================================================================
