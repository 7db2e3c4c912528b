--------------------------- MODULE WindowsProof -----------------------------
(***************************************************************************)
(* What the attribution of a Windows capture makes of its records, for     *)
(* every set of plans, of process numbers and all bounds.                  *)
(*                                                                         *)
(* The analysis knows the log only, where starts stand in the order in     *)
(* which they happened but operations come late, under the GUID of their   *)
(* process, of none, or of an earlier process with the same number. The    *)
(* invariant says of every record what is true of it (Created, Operated,   *)
(* Ordered) and of every attempt where its window lies among them (Fits).  *)
(* Then a row whose records are not doubtful tells the truth: an operation *)
(* of the program under a GUID that is not its own would have been found   *)
(* in conflict, and one credited to it by a GUID that was somebody's       *)
(* before would have a reused owner. That the descendants the analysis     *)
(* finds are descendants is an induction over the generations (Descended). *)
(***************************************************************************)
EXTENDS WindowsCapture, WellFoundedInduction, SequenceTheorems, FiniteSetTheorems,
        TLAPS

Images == {"probe", "other"}
Proc == [pid : Pids, parent : Nat, image : Images, seen : BOOLEAN, alive : BOOLEAN]
Event == [kind : {"create"} \cup OpKinds, pid : Pids, guid : Nat, parent : Nat,
          image : Images \cup {"none"}, who : Nat, hit : Hits \cup {"none"}]
Attempt == [main : Nat, pid : Pids, start : Nat, end : Int, ok : BOOLEAN]

\* A program measured alone has a capture of its own.
PlansAssumption ==
  \A p \in Plans : p.kind = "single" => Len(p.modes) = 1

Typed ==
  /\ plan \in Plans
  /\ procs \in Seq(Proc) /\ events \in Seq(Event) /\ attempts \in Seq(Attempt)
  /\ backlog \subseteq [op : Nat, who : DOMAIN procs, hit : Hits, kind : OpKinds]
  /\ ops \in Nat

\* The record of a start says what was started.
Created ==
  \A j \in Creates :
    /\ events[j].guid \in DOMAIN procs /\ events[j].hit = "none"
    /\ procs[events[j].guid].pid = events[j].pid
    /\ procs[events[j].guid].parent = events[j].parent
    /\ procs[events[j].guid].image = events[j].image

Recorded == \A n \in DOMAIN procs : procs[n].seen => \E j \in Creates : events[j].guid = n

\* Starts are written when they happen, operations at any time afterwards.
Ordered == \A i, j \in Creates : events[i].guid < events[j].guid => i < j

Operated ==
  \A i \in Ops :
    /\ events[i].who \in DOMAIN procs /\ procs[events[i].who].pid = events[i].pid
    /\ \/ events[i].guid = Zero
       \/ events[i].guid = events[i].who
       \/ /\ events[i].guid \in DOMAIN procs /\ events[i].guid < events[i].who
          /\ procs[events[i].guid].pid = events[i].pid
    /\ \A j \in Creates : events[j].guid = events[i].who => j < i

\* The window of an attempt holds the start of its program, and no operation
\* of the program is written before it.
Fits(a) ==
  /\ a.main \in DOMAIN procs /\ procs[a.main].pid = a.pid
  /\ procs[a.main].image = "probe"
  /\ a.start <= Len(events)
  /\ a.end # -1 => a.start <= a.end /\ a.end <= Len(events)
  /\ a.ok => a.end # -1
  /\ \A j \in Creates :
       /\ events[j].guid < a.main => j <= a.start
       /\ events[j].guid = a.main => a.start < j /\ (a.end # -1 => j <= a.end)
       /\ events[j].pid = a.pid /\ a.start < j =>
            events[j].guid = a.main \/ (a.end # -1 /\ a.end < j)
  /\ \A i \in Ops : events[i].who = a.main => a.start < i

Attempted == \A k \in DOMAIN attempts : Fits(attempts[k])

\* The program that runs is the last one, and keeps its number.
Alone ==
  \A k \in DOMAIN attempts :
    attempts[k].end = -1 => k = Len(attempts) /\ procs[attempts[k].main].alive

Log == Created /\ Recorded /\ Ordered /\ Operated

\* What a valid row was judged by.
Clear(a) == a.ok /\ Cardinality(Starts(a)) = 1 /\ Ambiguous(a) = {}
Judged ==
  \A k \in DOMAIN attempts :
    Complete /\ results # << >> /\ results[1] # "integrity" /\ results[k] = "valid" =>
      Clear(attempts[k])

IInv == Typed /\ Log /\ Attempted /\ Alone /\ Judged

(***************************************************************************)
(* Numbers, sequences and repeated steps.                                  *)
(***************************************************************************)

(* A set of natural numbers that is not empty has a least one.             *)
LEMMA Least ==
  ASSUME NEW S \in SUBSET Nat, S # {}
  PROVE  \E m \in S : \A n \in S : m <= n
<1> DEFINE R == OpToRel(<, Nat)
<1>1. IsWellFoundedOn(R, Nat) BY NatLessThanWellFounded, Zenon
<1>2. \A x, y \in Nat : x < y => <<x, y>> \in R BY DEF OpToRel
<1> HIDE DEF R
<1>3. PICK m \in S : \A n \in S : <<n, m>> \notin R BY <1>1, WFMin
<1>4. \A n \in S : ~(n < m) BY <1>2, <1>3
<1> QED BY <1>4

(* A set with 0 and every successor holds every natural number.            *)
LEMMA Everywhere ==
  ASSUME NEW S \in SUBSET Nat, 0 \in S, \A n \in S : n + 1 \in S
  PROVE  S = Nat
<1> SUFFICES ASSUME Nat \ S # {} PROVE FALSE OBVIOUS
<1>1. PICK m \in Nat \ S : \A n \in Nat \ S : m <= n BY Least
<1>2. m # 0 /\ m - 1 \in Nat /\ (m - 1) + 1 = m /\ ~(m <= m - 1) BY <1>1
<1>3. m - 1 \in S BY <1>1, <1>2
<1>4. (m - 1) + 1 \in S BY <1>3
<1> QED BY <1>1, <1>2, <1>4

Repeatable(U, A, F) ==
  \E g \in [Nat -> SUBSET U] :
    \A n \in Nat : g[n] = IF n = 0 THEN A ELSE F[g[n - 1]]

(* A step on sets can be repeated as often as one likes.                   *)
LEMMA Repeated ==
  ASSUME NEW U, NEW A \in SUBSET U, NEW F \in [SUBSET U -> SUBSET U]
  PROVE  Repeatable(U, A, F)
<1> DEFINE Part(n, u) == /\ u \in [0 .. n -> SUBSET U]
                         /\ u[0] = A
                         /\ \A k \in 1 .. n : u[k] = F[u[k - 1]]
           S == {n \in Nat : \E u : Part(n, u)}
<1>1. 0 \in S
  <2>1. Part(0, [k \in 0 .. 0 |-> A]) OBVIOUS
  <2> HIDE DEF Part
  <2> QED BY <2>1
<1>2. ASSUME NEW n \in S PROVE n + 1 \in S
  <2>1. n \in Nat /\ \E u : Part(n, u) OBVIOUS
  <2> HIDE DEF Part
  <2>2. PICK u : Part(n, u) BY <2>1
  <2> DEFINE w == [k \in 0 .. (n + 1) |-> IF k = n + 1 THEN F[u[n]] ELSE u[k]]
  <2> USE DEF Part
  <2>3. u[n] \in SUBSET U BY <2>1, <2>2
  <2>4. w \in [0 .. (n + 1) -> SUBSET U] BY <2>1, <2>2, <2>3
  <2>5. \A k \in 1 .. (n + 1) : w[k] = F[w[k - 1]]
    <3> SUFFICES ASSUME NEW k \in 1 .. (n + 1) PROVE w[k] = F[w[k - 1]] OBVIOUS
    <3>1. k - 1 \in 0 .. n /\ w[k - 1] = u[k - 1] BY <2>1
    <3>2. CASE k = n + 1 BY <3>1, <3>2
    <3>3. CASE k # n + 1
      <4>1. k \in 1 .. n /\ w[k] = u[k] BY <2>1, <3>3
      <4> QED BY <2>2, <3>1, <4>1
    <3> QED BY <3>2, <3>3
  <2>6. w[0] = A BY <2>1, <2>2
  <2> HIDE DEF w
  <2>7. Part(n + 1, w) BY <2>4, <2>5, <2>6
  <2> HIDE DEF Part
  <2> QED BY <2>1, <2>7
<1> HIDE DEF Part
<1>3. S = Nat BY <1>1, <1>2, Everywhere
<1> DEFINE u(n) == CHOOSE v : Part(n, v)
<1>4. \A n \in Nat : Part(n, u(n)) BY <1>3
<1> HIDE DEF u, S
\* All parts agree.
<1>5. ASSUME NEW m \in Nat PROVE u(m + 1)[m] = u(m)[m]
  <2> DEFINE Q == {k \in Nat : k <= m => u(m + 1)[k] = u(m)[k]}
  <2>1. Part(m, u(m)) /\ Part(m + 1, u(m + 1)) BY <1>4
  <2> USE DEF Part
  <2>2. 0 \in Q BY <2>1
  <2>3. ASSUME NEW k \in Q PROVE k + 1 \in Q
    <3> SUFFICES ASSUME k + 1 <= m PROVE u(m + 1)[k + 1] = u(m)[k + 1] OBVIOUS
    <3>1. u(m + 1)[k] = u(m)[k] OBVIOUS
    <3>2. k + 1 \in 1 .. m /\ k + 1 \in 1 .. (m + 1) /\ (k + 1) - 1 = k OBVIOUS
    <3>3. u(m + 1)[k + 1] = F[u(m + 1)[k]] BY <2>1, <3>2
    <3>4. u(m)[k + 1] = F[u(m)[k]] BY <2>1, <3>2
    <3> QED BY <3>1, <3>3, <3>4
  <2>4. Q = Nat
    <3> HIDE DEF Part
    <3>1. Q \in SUBSET Nat OBVIOUS
    <3> HIDE DEF Q
    <3> QED BY <2>2, <2>3, <3>1, Everywhere
  <2> QED BY <2>4
<1> DEFINE g == [n \in Nat |-> u(n)[n]]
<1>6. g \in [Nat -> SUBSET U]
  <2>1. ASSUME NEW n \in Nat PROVE u(n)[n] \in SUBSET U
    <3>1. u(n) \in [0 .. n -> SUBSET U] BY <1>4 DEF Part
    <3> QED BY <3>1
  <2> QED BY <2>1
<1>7. ASSUME NEW n \in Nat PROVE g[n] = IF n = 0 THEN A ELSE F[g[n - 1]]
  <2>1. CASE n = 0 BY <1>4, <2>1 DEF Part
  <2>2. CASE n # 0
    <3>1. n - 1 \in Nat /\ (n - 1) + 1 = n /\ n \in 1 .. n BY <2>2
    <3>2. u(n)[n] = F[u(n)[n - 1]] BY <1>4, <3>1 DEF Part
    <3>3. u(n)[n - 1] = u(n - 1)[n - 1] BY <1>5, <3>1
    <3> QED BY <2>2, <3>1, <3>2, <3>3
  <2> QED BY <2>1, <2>2
<1> HIDE DEF g
<1> QED BY <1>6, <1>7 DEF Repeatable

(* What is appended comes last, and nothing before it moves.               *)
LEMMA Appended ==
  ASSUME NEW S, NEW q \in Seq(S), NEW e \in S
  PROVE  /\ Len(q) \in Nat /\ Append(q, e) \in Seq(S) /\ Len(Append(q, e)) = Len(q) + 1
         /\ DOMAIN q = 1 .. Len(q) /\ DOMAIN Append(q, e) = DOMAIN q \cup {Len(q) + 1}
         /\ Len(q) + 1 \notin DOMAIN q
         /\ \A k \in DOMAIN q : Append(q, e)[k] = q[k]
         /\ Append(q, e)[Len(q) + 1] = e
<1>1. Len(q) \in Nat /\ DOMAIN q = 1 .. Len(q) OBVIOUS
<1>2. /\ Append(q, e) \in Seq(S) /\ Len(Append(q, e)) = Len(q) + 1
      /\ \A k \in 1 .. Len(q) : Append(q, e)[k] = q[k]
      /\ Append(q, e)[Len(q) + 1] = e
  BY AppendProperties
<1>3. DOMAIN Append(q, e) = 1 .. Len(q) + 1 BY <1>2
<1> QED BY <1>1, <1>2, <1>3

(***************************************************************************)
(* The log.                                                                *)
(***************************************************************************)

(* A record is of a start or of an operation.                              *)
LEMMA Kinds ==
  ASSUME Typed
  PROVE  /\ Records = 1 .. Len(events) /\ Len(events) \in Nat
         /\ DOMAIN procs = 1 .. Len(procs) /\ Len(procs) \in Nat
         /\ \A i \in Records : events[i] \in Event
         /\ \A n \in DOMAIN procs : procs[n] \in Proc
         /\ Records = Creates \cup Ops
         /\ \A i \in Creates : i \in Records /\ events[i].kind = "create"
         /\ \A i \in Ops : i \in Records /\ events[i].kind # "create"
<1>1. events \in Seq(Event) /\ procs \in Seq(Proc) BY DEF Typed
<1>2. Records = 1 .. Len(events) /\ Len(events) \in Nat BY <1>1 DEF Records
<1>3. DOMAIN procs = 1 .. Len(procs) /\ Len(procs) \in Nat BY <1>1
<1>4. \A i \in Records : events[i] \in Event BY <1>1, <1>2
<1>5. \A n \in DOMAIN procs : procs[n] \in Proc BY <1>1, <1>3
<1> QED BY <1>2, <1>3, <1>4, <1>5 DEF Creates, Ops

(* A record is written at the end of the log.                              *)
LEMMA Logged ==
  ASSUME Typed, NEW e \in Event, events' = Append(events, e)
  PROVE  LET r == Len(events) + 1 IN
         /\ r \in Nat /\ r \notin Records /\ events'[r] = e
         /\ events' \in Seq(Event) /\ Len(events') = r
         /\ \A i \in Records : i < r /\ events'[i] = events[i]
         /\ Creates' = Creates \cup {i \in {r} : e.kind = "create"}
         /\ Ops' = Ops \cup {i \in {r} : e.kind # "create"}
<1>1. events \in Seq(Event) BY DEF Typed
<1>2. /\ Len(events) \in Nat /\ events' \in Seq(Event) /\ Len(events') = Len(events) + 1
      /\ DOMAIN events = 1 .. Len(events)
      /\ DOMAIN events' = DOMAIN events \cup {Len(events) + 1}
      /\ Len(events) + 1 \notin DOMAIN events
      /\ \A k \in DOMAIN events : events'[k] = events[k]
      /\ events'[Len(events) + 1] = e
  BY <1>1, Appended
<1>3. Records' = Records \cup {Len(events) + 1} BY <1>2 DEF Records
<1>4. \A i \in Records : i < Len(events) + 1 BY <1>2 DEF Records
<1>5. Creates' = Creates \cup {i \in {Len(events) + 1} : e.kind = "create"}
  BY <1>2, <1>3 DEF Creates, Records
<1>6. Ops' = Ops \cup {i \in {Len(events) + 1} : e.kind # "create"}
  BY <1>2, <1>3 DEF Ops, Creates, Records
<1> QED BY <1>2, <1>4, <1>5, <1>6 DEF Records

(* What a start does: a process has the next number, and its record, if    *)
(* there is one, is the last.                                              *)
Process(pid, parent, image, seen) ==
  [pid |-> pid, parent |-> parent, image |-> image, seen |-> seen, alive |-> TRUE]
Birth(pid, parent, image) ==
  [kind |-> "create", pid |-> pid, guid |-> Len(procs) + 1, parent |-> parent,
   image |-> image, who |-> Len(procs) + 1, hit |-> "none"]

(* The parts of Start.                                                     *)
LEMMA Started ==
  ASSUME Typed, NEW pid \in Pids, NEW parent \in Nat, NEW image \in Images,
         Start(pid, parent, image)
  PROVE  LET m == Len(procs) + 1  r == Len(events) + 1 IN
         /\ m \in Nat /\ m \notin DOMAIN procs /\ procs' \in Seq(Proc)
         /\ DOMAIN procs' = DOMAIN procs \cup {m}
         /\ \A n \in DOMAIN procs : n < m /\ procs'[n] = procs[n]
         /\ procs'[m].pid = pid /\ procs'[m].parent = parent /\ procs'[m].image = image
         /\ \/ /\ UNCHANGED events /\ procs'[m].seen = FALSE
            \/ /\ Birth(pid, parent, image) \in Event
               /\ events' = Append(events, Birth(pid, parent, image))
<1>0. procs \in Seq(Proc) BY DEF Typed
<1>1. PICK seen \in BOOLEAN :
        /\ procs' = Append(procs, Process(pid, parent, image, seen))
        /\ IF seen THEN events' = Append(events, Birth(pid, parent, image))
           ELSE UNCHANGED events
  BY DEF Start, Process, Birth
<1>2. Process(pid, parent, image, seen) \in Proc BY DEF Process, Proc
<1>3. /\ Len(procs) \in Nat /\ procs' \in Seq(Proc)
      /\ DOMAIN procs = 1 .. Len(procs)
      /\ DOMAIN procs' = DOMAIN procs \cup {Len(procs) + 1}
      /\ Len(procs) + 1 \notin DOMAIN procs
      /\ \A k \in DOMAIN procs : procs'[k] = procs[k]
      /\ procs'[Len(procs) + 1] = Process(pid, parent, image, seen)
  BY <1>0, <1>1, <1>2, Appended
<1>4. \A n \in DOMAIN procs : n < Len(procs) + 1 BY <1>3
<1>5. Birth(pid, parent, image) \in Event BY <1>3 DEF Birth, Event
<1>6. /\ procs'[Len(procs) + 1].pid = pid /\ procs'[Len(procs) + 1].parent = parent
      /\ procs'[Len(procs) + 1].image = image /\ procs'[Len(procs) + 1].seen = seen
  BY <1>3 DEF Process
<1>7. \/ UNCHANGED events /\ procs'[Len(procs) + 1].seen = FALSE
      \/ events' = Append(events, Birth(pid, parent, image))
  BY <1>1, <1>6
<1> QED BY <1>3, <1>4, <1>5, <1>6, <1>7

(* A start keeps the log true.                                             *)
LEMMA StartKeepsLog ==
  ASSUME Typed, Log, NEW pid \in Pids, NEW parent \in Nat, NEW image \in Images,
         Start(pid, parent, image)
  PROVE  Log'
<1> DEFINE m == Len(procs) + 1
           r == Len(events) + 1
           e == Birth(pid, parent, image)
<1>1. /\ m \in Nat /\ m \notin DOMAIN procs
      /\ DOMAIN procs' = DOMAIN procs \cup {m}
      /\ \A n \in DOMAIN procs : n < m /\ procs'[n] = procs[n]
      /\ procs'[m].pid = pid /\ procs'[m].parent = parent /\ procs'[m].image = image
      /\ \/ UNCHANGED events /\ procs'[m].seen = FALSE
         \/ e \in Event /\ events' = Append(events, e)
  BY Started
<1>2. CASE UNCHANGED events /\ procs'[m].seen = FALSE
  <2>0. Creates' = Creates /\ Ops' = Ops BY <1>2 DEF Creates, Ops, Records
  <2> HIDE DEF m
  <2>1. Created' BY <1>1, <1>2, <2>0 DEF Log, Created
  <2>2. Recorded' BY <1>1, <1>2, <2>0 DEF Log, Recorded
  <2>3. Ordered' BY <1>1, <1>2, <2>0 DEF Log, Ordered
  <2>4. Operated' BY <1>1, <1>2, <2>0 DEF Log, Operated
  <2> QED BY <2>1, <2>2, <2>3, <2>4 DEF Log
<1>3. CASE e \in Event /\ events' = Append(events, e)
  <2>0. /\ e.kind = "create" /\ e.guid = m /\ e.pid = pid /\ e.parent = parent
        /\ e.image = image /\ e.hit = "none"
    BY DEF Birth
  <2> HIDE DEF m, e
  <2>1. /\ r \in Nat /\ r \notin Records /\ events'[r] = e
        /\ \A i \in Records : i < r /\ events'[i] = events[i]
        /\ Creates' = Creates \cup {r} /\ Ops' = Ops
    BY <1>3, <2>0, Logged
  <2>2. \A i \in Creates \cup Ops : i \in Records BY Kinds
  <2> HIDE DEF r
  <2>3. \A j \in Creates : events[j].guid \in DOMAIN procs BY DEF Log, Created
  <2>4. Created'
    <3>1. \A j \in Creates : events'[j] = events[j] BY <2>1, <2>2
    <3> QED BY <1>1, <2>0, <2>1, <3>1 DEF Log, Created
  <2>5. Recorded'
    <3> SUFFICES ASSUME NEW n \in DOMAIN procs', procs'[n].seen
                 PROVE  \E j \in Creates' : events'[j].guid = n
      BY DEF Recorded
    <3>1. CASE n = m BY <2>0, <2>1, <3>1
    <3>2. CASE n \in DOMAIN procs
      <4>1. PICK j \in Creates : events[j].guid = n BY <1>1, <3>2 DEF Log, Recorded
      <4> QED BY <2>1, <2>2, <4>1
    <3> QED BY <1>1, <3>1, <3>2
  <2>6. Ordered'
    <3> SUFFICES ASSUME NEW i \in Creates', NEW j \in Creates',
                        events'[i].guid < events'[j].guid
                 PROVE  i < j
      BY DEF Ordered
    <3>1. CASE i = r
      <4>1. j \in Creates \cup {r} BY <2>1
      <4>2. j # r
        <5> SUFFICES ASSUME j = r PROVE FALSE OBVIOUS
        <5>1. events'[r].guid = m BY <2>0, <2>1
        <5> QED BY <1>1, <3>1, <5>1
      <4>3. events'[j] = events[j] BY <2>1, <2>2, <4>1, <4>2
      <4>4. events[j].guid < m BY <1>1, <2>3, <4>1, <4>2
      <4>5. m < events[j].guid BY <2>0, <2>1, <3>1, <4>3
      <4>6. events[j].guid \in Nat BY <2>2, <4>1, <4>2, Kinds DEF Event
      <4> QED BY <1>1, <4>4, <4>5, <4>6
    <3>2. CASE i \in Creates /\ j = r BY <2>1, <2>2, <3>2
    <3>3. CASE i \in Creates /\ j \in Creates
      <4>1. events'[i] = events[i] /\ events'[j] = events[j] BY <2>1, <2>2, <3>3
      <4> QED BY <3>3, <4>1 DEF Log, Ordered
    <3> QED BY <2>1, <3>1, <3>2, <3>3
  <2>7. Operated'
    <3> SUFFICES ASSUME NEW i \in Ops
                 PROVE  (/\ events[i].who \in DOMAIN procs
                         /\ procs[events[i].who].pid = events[i].pid
                         /\ \/ events[i].guid = Zero
                            \/ events[i].guid = events[i].who
                            \/ /\ events[i].guid \in DOMAIN procs
                               /\ events[i].guid < events[i].who
                               /\ procs[events[i].guid].pid = events[i].pid
                         /\ \A j \in Creates : events[j].guid = events[i].who => j < i)'
      BY <2>1 DEF Operated
    <3>1. events'[i] = events[i] BY <2>1, <2>2
    <3>2. /\ events[i].who \in DOMAIN procs /\ procs[events[i].who].pid = events[i].pid
          /\ \/ events[i].guid = Zero
             \/ events[i].guid = events[i].who
             \/ /\ events[i].guid \in DOMAIN procs /\ events[i].guid < events[i].who
                /\ procs[events[i].guid].pid = events[i].pid
          /\ \A j \in Creates : events[j].guid = events[i].who => j < i
      BY DEF Log, Operated
    <3>3. events[i].who # m BY <1>1, <3>2
    <3>4. ASSUME NEW j \in Creates', events'[j].guid = events[i].who PROVE j < i
      <4>1. j # r BY <2>0, <2>1, <3>3, <3>4
      <4>2. j \in Creates /\ events'[j] = events[j] BY <2>1, <2>2, <4>1
      <4> QED BY <3>2, <3>4, <4>2
    <3> QED BY <1>1, <3>1, <3>2, <3>4
  <2> QED BY <2>4, <2>5, <2>6, <2>7 DEF Log
<1> QED BY <1>1, <1>2, <1>3

(* A start keeps what is said of an attempt whose program has started.     *)
LEMMA StartKeepsAttempts ==
  ASSUME Typed, Log, NEW pid \in Pids, NEW parent \in Nat, NEW image \in Images,
         Start(pid, parent, image), NEW a \in Attempt, Fits(a),
         a.end = -1 => procs[a.main].alive
  PROVE  Fits(a)'
<1> DEFINE m == Len(procs) + 1
           r == Len(events) + 1
           e == Birth(pid, parent, image)
<1>1. /\ m \in Nat /\ m \notin DOMAIN procs
      /\ DOMAIN procs' = DOMAIN procs \cup {m}
      /\ \A n \in DOMAIN procs : n < m /\ procs'[n] = procs[n]
      /\ \/ UNCHANGED events
         \/ e \in Event /\ events' = Append(events, e)
  BY Started
<1>2. CASE UNCHANGED events
  <2>0. Creates' = Creates /\ Ops' = Ops BY <1>2 DEF Creates, Ops, Records
  <2> HIDE DEF m
  <2> QED BY <1>1, <1>2, <2>0 DEF Fits
<1>3. CASE e \in Event /\ events' = Append(events, e)
  <2>0. e.kind = "create" /\ e.guid = m /\ e.pid = pid BY DEF Birth
  <2>8. a.end = -1 => pid # a.pid BY DEF Start, Live, Fits
  <2> HIDE DEF m, e
  <2>1. /\ r \in Nat /\ events'[r] = e /\ Len(events') = r
        /\ \A i \in Records : i < r /\ events'[i] = events[i]
        /\ Creates' = Creates \cup {r} /\ Ops' = Ops
    BY <1>3, <2>0, Logged
  <2>2. \A i \in Creates \cup Ops : i \in Records BY Kinds
  <2>3. Len(events) \in Nat /\ r = Len(events) + 1 BY Kinds
  <2> HIDE DEF r
  <2>4. a.main < m /\ a.main \in Nat /\ a.start \in Nat BY <1>1 DEF Fits, Attempt
  <2>9. a.end # -1 => a.end <= Len(events) /\ a.end \in Int BY DEF Fits, Attempt
  <2>5. (/\ a.main \in DOMAIN procs /\ procs[a.main].pid = a.pid
         /\ procs[a.main].image = "probe"
         /\ a.start <= Len(events))'
    BY <1>1, <2>1, <2>3, <2>4 DEF Fits
  <2>10. a.end # -1 => a.end <= Len(events') BY <2>1, <2>3, <2>9
  <2>6. ASSUME NEW j \in Creates'
        PROVE  /\ events'[j].guid < a.main => j <= a.start
               /\ events'[j].guid = a.main => a.start < j /\ (a.end # -1 => j <= a.end)
               /\ events'[j].pid = a.pid /\ a.start < j =>
                    events'[j].guid = a.main \/ (a.end # -1 /\ a.end < j)
    <3>1. CASE j = r
      <4>1. events'[j].guid = m /\ events'[j].pid = pid BY <2>0, <2>1, <3>1
      <4>2. a.end # -1 => a.end < j BY <2>3, <2>9, <3>1
      <4> QED BY <2>4, <2>8, <4>1, <4>2, <1>1
    <3>2. CASE j \in Creates
      <4>1. events'[j] = events[j] BY <2>1, <2>2, <3>2
      <4> QED BY <3>2, <4>1 DEF Fits
    <3> QED BY <2>1, <3>1, <3>2
  <2>7. \A i \in Ops' : events'[i].who = a.main => a.start < i
    BY <2>1, <2>2 DEF Fits
  <2> QED BY <2>5, <2>6, <2>7, <2>10 DEF Fits
<1> QED BY <1>1, <1>2, <1>3

(* The window of an attempt that begins with a start.                      *)
LEMMA LaunchFits ==
  ASSUME Typed, Log, NEW pid \in Pids, Start(pid, Zero, "probe"), NEW a \in Attempt,
         a.main = Len(procs) + 1, a.pid = pid, a.start = Len(events), a.end = -1,
         a.ok = FALSE
  PROVE  Fits(a)'
<1> DEFINE m == Len(procs) + 1
           r == Len(events) + 1
           e == Birth(pid, Zero, "probe")
<1>1. /\ m \in Nat /\ m \notin DOMAIN procs
      /\ DOMAIN procs' = DOMAIN procs \cup {m}
      /\ \A n \in DOMAIN procs : n < m /\ procs'[n] = procs[n]
      /\ procs'[m].pid = pid /\ procs'[m].image = "probe"
      /\ \/ UNCHANGED events
         \/ e \in Event /\ events' = Append(events, e)
  BY Started DEF Zero, Images
<1>2. Len(events) \in Nat /\ Records = 1 .. Len(events) BY Kinds
<1>3. \A j \in Creates : j \in Records /\ events[j].guid \in DOMAIN procs
  BY Kinds DEF Log, Created
<1>4. \A i \in Ops : i \in Records /\ events[i].who \in DOMAIN procs
  BY Kinds DEF Log, Operated
<1>5. CASE UNCHANGED events
  <2>0. Creates' = Creates /\ Ops' = Ops BY <1>5 DEF Creates, Ops, Records
  <2>1. ASSUME NEW j \in Creates'
        PROVE  /\ events'[j].guid < a.main => j <= a.start
               /\ events'[j].guid = a.main => a.start < j /\ (a.end # -1 => j <= a.end)
               /\ a.start < j => events'[j].guid = a.main
    <3>1. events'[j].guid # m BY <1>1, <1>3, <1>5, <2>0
    <3>2. j <= Len(events) /\ j \in Int BY <1>2, <1>3, <2>0
    <3>3. ~(a.start < j) BY <1>2, <3>2
    <3> QED BY <3>1, <3>2, <3>3
  <2>2. \A i \in Ops' : events'[i].who # m BY <1>1, <1>4, <1>5, <2>0
  <2>3. a.start <= Len(events') BY <1>2, <1>5
  <2> QED BY <1>1, <2>1, <2>2, <2>3 DEF Fits
<1>6. CASE e \in Event /\ events' = Append(events, e)
  <2>0. e.kind = "create" /\ e.guid = m BY DEF Birth
  <2> HIDE DEF m, e
  <2>1. /\ r \in Nat /\ events'[r] = e /\ Len(events') = r
        /\ \A i \in Records : i < r /\ events'[i] = events[i]
        /\ Creates' = Creates \cup {r} /\ Ops' = Ops
    BY <1>6, <2>0, Logged
  <2>2. a.main = m BY DEF m
  <2>3. ASSUME NEW j \in Creates'
        PROVE  /\ events'[j].guid < a.main => j <= a.start
               /\ events'[j].guid = a.main => a.start < j /\ (a.end # -1 => j <= a.end)
               /\ a.start < j => events'[j].guid = a.main
    <3>1. CASE j = r BY <1>1, <1>2, <2>0, <2>1, <2>2, <3>1
    <3>2. CASE j \in Creates
      <4>1. events'[j] = events[j] /\ j <= Len(events) BY <1>2, <1>3, <2>1, <3>2
      <4>2. events'[j].guid # m BY <1>1, <1>3, <3>2, <4>1
      <4>3. ~(a.start < j) BY <1>2, <1>3, <3>2, <4>1
      <4> QED BY <2>2, <4>1, <4>2, <4>3
    <3> QED BY <2>1, <3>1, <3>2
  <2>4. \A i \in Ops' : events'[i].who # m BY <1>1, <1>4, <2>1
  <2>5. a.start <= Len(events') BY <1>2, <2>1
  <2> QED BY <1>1, <2>2, <2>3, <2>4, <2>5 DEF Fits
<1> QED BY <1>1, <1>5, <1>6

(* An operation that Sysmon writes is of a process that has started, under *)
(* its GUID, none, or that of an earlier process with its number.          *)
Operation(q, guid) ==
  [kind |-> q.kind, pid |-> procs[q.who].pid, guid |-> guid, parent |-> Zero,
   image |-> "none", who |-> q.who, hit |-> q.hit]

(* Whose the operation is that is written.                                 *)
LEMMA Written ==
  ASSUME Typed, NEW q \in backlog, Write(q)
  PROVE  \E guid \in Nat :
           /\ q.who \in DOMAIN procs
           /\ Operation(q, guid) \in Event
           /\ events' = Append(events, Operation(q, guid))
           /\ \/ guid = Zero
              \/ guid = q.who
              \/ /\ guid \in DOMAIN procs /\ guid < q.who
                 /\ procs[guid].pid = procs[q.who].pid
<1>1. q.who \in DOMAIN procs /\ q.hit \in Hits /\ q.kind \in OpKinds BY DEF Typed
<1>2. /\ DOMAIN procs = 1 .. Len(procs) /\ Len(procs) \in Nat
      /\ \A n \in DOMAIN procs : procs[n] \in Proc
  BY Kinds
<1>3. q.who \in Nat /\ \A n \in 1 .. q.who - 1 : n \in DOMAIN procs /\ n < q.who
  BY <1>1, <1>2
<1> DEFINE stale == {n \in 1 .. q.who - 1 : procs[n].pid = procs[q.who].pid}
<1>4. PICK guid \in {q.who, Zero} \cup stale : events' = Append(events, Operation(q, guid))
  BY DEF Write, Operation
<1>5. /\ \/ guid = Zero
         \/ guid = q.who
         \/ /\ guid \in DOMAIN procs /\ guid < q.who
            /\ procs[guid].pid = procs[q.who].pid
  BY <1>3, <1>4
<1>6. guid \in Nat BY <1>2, <1>3, <1>5 DEF Zero
<1>7. procs[q.who].pid \in Pids BY <1>1, <1>2 DEF Proc
<1>8. Operation(q, guid) \in Event BY <1>1, <1>3, <1>6, <1>7 DEF Operation, Event, Zero
<1> QED BY <1>1, <1>4, <1>5, <1>6, <1>8

(* Writing an operation keeps the log true and the attempts theirs.        *)
LEMMA WriteKeeps ==
  ASSUME Typed, Log, Attempted, NEW q \in backlog, Write(q)
  PROVE  Log' /\ Attempted'
<1>0. UNCHANGED <<procs, attempts>> BY DEF Write
<1>1. PICK guid \in Nat :
        /\ q.who \in DOMAIN procs
        /\ Operation(q, guid) \in Event
        /\ events' = Append(events, Operation(q, guid))
        /\ \/ guid = Zero
           \/ guid = q.who
           \/ /\ guid \in DOMAIN procs /\ guid < q.who
              /\ procs[guid].pid = procs[q.who].pid
  BY Written
<1> DEFINE r == Len(events) + 1
           e == Operation(q, guid)
<1>2. /\ e.kind # "create" /\ e.guid = guid /\ e.who = q.who /\ e.pid = procs[q.who].pid
      /\ e.hit = q.hit
  <2>1. q.kind \in OpKinds BY DEF Typed
  <2> QED BY <2>1 DEF Operation, OpKinds
<1> HIDE DEF e
<1>3. /\ r \in Nat /\ events'[r] = e /\ Len(events') = r
      /\ \A i \in Records : i < r /\ events'[i] = events[i]
      /\ Creates' = Creates /\ Ops' = Ops \cup {r}
  BY <1>1, <1>2, Logged DEF e
<1>4. Len(events) \in Nat /\ r = Len(events) + 1 BY Kinds
<1> HIDE DEF r
<1>5. \A i \in Creates \cup Ops : i < r /\ events'[i] = events[i] BY <1>3, Kinds
<1>6. Created' BY <1>0, <1>3, <1>5 DEF Log, Created
<1>7. Recorded' BY <1>0, <1>3, <1>5 DEF Log, Recorded
<1>8. Ordered' BY <1>0, <1>3, <1>5 DEF Log, Ordered
<1>9. Operated'
  <2> SUFFICES ASSUME NEW i \in Ops'
               PROVE  (/\ events[i].who \in DOMAIN procs
                       /\ procs[events[i].who].pid = events[i].pid
                       /\ \/ events[i].guid = Zero
                          \/ events[i].guid = events[i].who
                          \/ /\ events[i].guid \in DOMAIN procs
                             /\ events[i].guid < events[i].who
                             /\ procs[events[i].guid].pid = events[i].pid
                       /\ \A j \in Creates : events[j].guid = events[i].who => j < i)'
    BY DEF Operated
  <2>1. CASE i = r BY <1>0, <1>1, <1>2, <1>3, <1>5, <2>1
  <2>2. CASE i \in Ops
    <3>1. events'[i] = events[i] BY <1>5, <2>2
    <3> QED BY <1>0, <1>3, <1>5, <2>2, <3>1 DEF Log, Operated
  <2> QED BY <1>3, <2>1, <2>2
<1>10. Attempted'
  <2> SUFFICES ASSUME NEW k \in DOMAIN attempts PROVE Fits(attempts[k])'
    BY <1>0 DEF Attempted
  <2> DEFINE a == attempts[k]
  <2>1. Fits(a) BY DEF Attempted
  <2>2. a' = a BY <1>0
  <2>3. a \in Attempt BY DEF Typed
  <2> HIDE DEF a
  <2>4. a.start <= r /\ a.start < r /\ (a.end # -1 => a.end <= r)
    BY <1>3, <1>4, <2>1, <2>3 DEF Fits, Attempt
  <2>5. \A j \in Creates' :
          /\ events'[j].guid < a.main => j <= a.start
          /\ events'[j].guid = a.main => a.start < j /\ (a.end # -1 => j <= a.end)
          /\ events'[j].pid = a.pid /\ a.start < j =>
               events'[j].guid = a.main \/ (a.end # -1 /\ a.end < j)
    BY <1>3, <1>5, <2>1 DEF Fits
  <2>6. \A i \in Ops' : events'[i].who = a.main => a.start < i
    BY <1>3, <1>5, <2>1, <2>4 DEF Fits
  <2>7. Fits(a)' BY <1>0, <1>3, <2>1, <2>2, <2>4, <2>5, <2>6 DEF Fits
  <2> QED BY <2>7 DEF a
<1> QED BY <1>6, <1>7, <1>8, <1>9, <1>10 DEF Log

(* The end of a process changes nothing the log says, and ends at most the *)
(* window of the program that runs.                                        *)
LEMMA ExitKeeps ==
  ASSUME Typed, Log, Attempted, NEW n \in Live, Exit(n)
  PROVE  /\ Log' /\ Attempted'
         /\ procs' \in Seq(Proc) /\ DOMAIN procs' = DOMAIN procs
         /\ attempts' \in Seq(Attempt)
<1>0. /\ UNCHANGED events /\ Creates' = Creates /\ Ops' = Ops
  BY DEF Exit, Creates, Ops, Records
<1>1. procs \in Seq(Proc) /\ n \in DOMAIN procs BY DEF Typed, Live
<1>2. procs' = [procs EXCEPT ![n].alive = FALSE] BY DEF Exit
<1>3. DOMAIN procs' = DOMAIN procs BY <1>2
<1>4. \A x \in DOMAIN procs :
        /\ procs'[x].pid = procs[x].pid /\ procs'[x].parent = procs[x].parent
        /\ procs'[x].image = procs[x].image /\ procs'[x].seen = procs[x].seen
        /\ procs'[x] \in Proc
  <2>1. ASSUME NEW x \in DOMAIN procs
        PROVE  /\ procs'[x].pid = procs[x].pid /\ procs'[x].parent = procs[x].parent
               /\ procs'[x].image = procs[x].image /\ procs'[x].seen = procs[x].seen
               /\ procs'[x] \in Proc
    <3>1. procs[x] \in Proc BY <1>1
    <3>2. CASE x # n BY <1>2, <3>1, <3>2
    <3>3. CASE x = n
      <4>1. procs'[x] = [procs[x] EXCEPT !.alive = FALSE] BY <1>2, <3>3
      <4> QED BY <3>1, <4>1 DEF Proc
    <3> QED BY <3>2, <3>3
  <2> QED BY <2>1
<1>5. procs' \in Seq(Proc)
  <2>1. DOMAIN procs = 1 .. Len(procs) /\ Len(procs) \in Nat BY <1>1
  <2>2. procs' \in [1 .. Len(procs) -> Proc] BY <1>2, <1>4, <2>1
  <2> QED BY <2>1, <2>2, SeqDef
<1>6. Created' BY <1>0, <1>3, <1>4 DEF Log, Created
<1>7. Recorded' BY <1>0, <1>3, <1>4 DEF Log, Recorded
<1>8. Ordered' BY <1>0 DEF Log, Ordered
<1>9. Operated' BY <1>0, <1>3, <1>4 DEF Log, Operated
<1>10. \A a \in Attempt : Fits(a) => (Fits(a))' BY <1>0, <1>3, <1>4 DEF Fits
<1>11. CASE Running /\ Current.main = n
  <2>0. attempts \in Seq(Attempt) /\ Len(attempts) \in DOMAIN attempts
    <3>1. attempts \in Seq(Attempt) BY DEF Typed
    <3>2. attempts # << >> BY <1>11 DEF Running
    <3> QED BY <3>1, <3>2, EmptySeq
  <2>1. PICK l \in DOMAIN attempts : l = Len(attempts) BY <2>0
  <2>2. PICK ok \in BOOLEAN :
          attempts' = [attempts EXCEPT ![l].end = Len(events), ![l].ok = ok]
    BY <1>11, <2>1 DEF Exit
  <2>3. PICK b \in Attempt : b = attempts[l] /\ Fits(b) BY <2>0 DEF Attempted
  <2>4. /\ DOMAIN attempts' = DOMAIN attempts
        /\ \A k \in DOMAIN attempts : k # l => attempts'[k] = attempts[k]
    BY <2>2
  <2>5. PICK c : c = attempts'[l] OBVIOUS
  <2>6. Len(events) \in Nat /\ \A j \in Creates : j <= Len(events) BY Kinds
  <2>13. b.end = -1 BY <1>11, <2>1, <2>3 DEF Running
  <2>7. c = [b EXCEPT !.end = Len(events), !.ok = ok] BY <2>2, <2>3, <2>5
  <2>8. /\ c.main = b.main /\ c.pid = b.pid /\ c.start = b.start
        /\ c.end = Len(events)
    BY <2>7 DEF Attempt
  <2>9. c \in Attempt
    <3>1. Len(events) \in Int BY <2>6
    <3> QED BY <2>7, <3>1 DEF Attempt
  <2>10. Fits(c)'
    <3>1. c.end # -1 BY <2>6, <2>8
    <3>2. c.main \in DOMAIN procs' /\ procs'[c.main].pid = c.pid
      BY <1>3, <1>4, <2>3, <2>8 DEF Fits
    <3>3. procs'[c.main].image = "probe" /\ c.start <= Len(events')
          /\ c.start <= c.end /\ c.end <= Len(events')
      BY <1>0, <1>3, <1>4, <2>3, <2>6, <2>8 DEF Fits
    <3>4. \A j \in Creates' :
            /\ events'[j].guid < c.main => j <= c.start
            /\ events'[j].guid = c.main => c.start < j /\ j <= c.end
            /\ events'[j].pid = c.pid /\ c.start < j => events'[j].guid = c.main
      BY <1>0, <2>3, <2>6, <2>8, <2>13 DEF Fits
    <3>5. \A i \in Ops' : events'[i].who = c.main => c.start < i
      BY <1>0, <2>3, <2>8 DEF Fits
    <3> QED BY <3>1, <3>2, <3>3, <3>4, <3>5 DEF Fits
  <2>11. Attempted'
    <3> SUFFICES ASSUME NEW k \in DOMAIN attempts' PROVE Fits(attempts[k])'
      BY DEF Attempted
    <3>1. CASE k = l BY <2>5, <2>10, <3>1 DEF Fits
    <3>2. CASE k # l
      <4>1. attempts'[k] = attempts[k] /\ attempts[k] \in Attempt /\ Fits(attempts[k])
        BY <2>0, <2>4, <3>2 DEF Attempted
      <4> QED BY <1>10, <4>1 DEF Fits
    <3> QED BY <3>1, <3>2
  <2>12. attempts' \in Seq(Attempt)
    <3>1. DOMAIN attempts = 1 .. Len(attempts) /\ Len(attempts) \in Nat BY <2>0
    <3>2. \A k \in DOMAIN attempts : attempts'[k] \in Attempt BY <2>0, <2>4, <2>5, <2>9
    <3>3. attempts' \in [1 .. Len(attempts) -> Attempt] BY <2>2, <2>4, <3>1, <3>2
    <3> QED BY <3>1, <3>3, SeqDef
  <2> QED BY <1>3, <1>5, <1>6, <1>7, <1>8, <1>9, <2>11, <2>12 DEF Log
<1>12. CASE ~(Running /\ Current.main = n)
  <2>1. UNCHANGED attempts BY <1>12 DEF Exit
  <2>2. Attempted'
    <3> SUFFICES ASSUME NEW k \in DOMAIN attempts PROVE Fits(attempts[k])'
      BY <2>1 DEF Attempted
    <3>1. attempts'[k] = attempts[k] /\ attempts[k] \in Attempt /\ Fits(attempts[k])
      BY <2>1 DEF Attempted, Typed
    <3> QED BY <1>10, <3>1 DEF Fits
  <2> QED BY <1>3, <1>5, <1>6, <1>7, <1>8, <1>9, <2>1, <2>2 DEF Log, Typed
<1> QED BY <1>11, <1>12

(***************************************************************************)
(* The judgement.                                                          *)
(***************************************************************************)

(* A row is valid only of a program that did what it should, whose start   *)
(* was found and of which no record is doubtful.                           *)
LEMMA ValidIsClear ==
  ASSUME NEW a, NEW mode, NEW healthy, Outcome(a, mode, healthy) \in ValidOutcomes
  PROVE  Clear(a)
BY DEF Outcome, ValidOutcomes, Clear

(* What the adapters make of a capture.                                    *)
LEMMA JudgeClears ==
  ASSUME PlansAssumption, Typed, Judge, NEW k \in DOMAIN attempts,
         Complete, results' # << >>, results'[1] # "integrity", results'[k] = "valid"
  PROVE  Clear(attempts[k])
<1>1. PICK end : results' = Statuses(end) BY DEF Judge
<1>2. attempts \in Seq(Attempt) /\ DOMAIN attempts = 1 .. Len(attempts)
      /\ Len(attempts) \in Nat
  BY DEF Typed
<1>3. CASE plan.kind = "single"
  <2>1. Len(attempts) = 1 BY <1>3 DEF PlansAssumption, Typed, Complete
  <2>2. k = 1 BY <1>2, <2>1
  <2>3. results' = Single(end) BY <1>1, <1>3 DEF Statuses
  <2>4. Row(1, end) \in ValidOutcomes BY <2>2, <2>3 DEF Single
  <2> QED BY <2>2, <2>4, ValidIsClear DEF Row
<1>4. CASE plan.kind # "single"
  <2>1. results' = Batch(end) BY <1>1, <1>4 DEF Statuses
  <2>2. ~(end = "unsafe" \/ ~Complete)
    <3> SUFFICES ASSUME end = "unsafe" \/ ~Complete PROVE FALSE OBVIOUS
    <3>1. results' = <<"integrity">> BY <2>1 DEF Batch
    <3> QED BY <3>1
  <2>3. Row(k, end) \in ValidOutcomes BY <2>1, <2>2 DEF Batch
  <2> QED BY <2>3, ValidIsClear DEF Row
<1> QED BY <1>3, <1>4

(* Nothing is judged twice, for nothing moves after the judgement.         *)
LEMMA ClearStays ==
  ASSUME UNCHANGED <<procs, events>>, NEW a, Clear(a)
  PROVE  Clear(a)'
<1>1. Guids(a)' = Guids(a) BY DEF Guids, Children, Creates, Records, Starts
<1>2. Starts(a)' = Starts(a) BY DEF Starts, Creates, Records
<1>3. Ambiguous(a)' = Ambiguous(a)
  <2>1. Near(a)' = Near(a) /\ Late' = Late /\ Creates' = Creates
    BY DEF Near, Late, Creates, Records
  <2>2. Unattributed(a)' = Unattributed(a) BY <2>1 DEF Unattributed
  <2>3. \A i : LaterPidReuse(a, i)' <=> LaterPidReuse(a, i) BY <2>1 DEF LaterPidReuse
  <2>4. Conflicting(a)' = Conflicting(a) BY <1>1, <2>1, <2>3 DEF Conflicting
  <2>5. \A i : OwnerPidReused(i)' <=> OwnerPidReused(i) BY <2>1 DEF OwnerPidReused
  <2>6. Attributable(a)' = Attributable(a) BY <1>1 DEF Attributable, Records
  <2>7. ReusedOwner(a)' = ReusedOwner(a) BY <2>1, <2>5, <2>6 DEF ReusedOwner
  <2> QED BY <2>2, <2>4, <2>7 DEF Ambiguous
<1> QED BY <1>2, <1>3 DEF Clear

(***************************************************************************)
(* The truth.                                                              *)
(***************************************************************************)

(* A set of one.                                                           *)
LEMMA OnlyOne ==
  ASSUME Typed, NEW a, Cardinality(Starts(a)) = 1, NEW j \in Starts(a)
  PROVE  Starts(a) = {j}
<1>1. Starts(a) \subseteq 1 .. Len(events) /\ Len(events) \in Nat BY Kinds DEF Starts
<1>2. IsFiniteSet(Starts(a))
  <2>1. IsFiniteSet(1 .. Len(events)) BY <1>1, FS_Interval
  <2> QED BY <1>1, <2>1, FS_Subset
<1>3. PICK x : Starts(a) = {x} BY <1>2, FS_Singleton
<1> QED BY <1>3

(* Where the one start found is the program's, the analysis finds it and   *)
(* only descendants of it that it or they really started.                  *)
LEMMA Descended ==
  ASSUME Typed, Log, NEW a, NEW n \in DOMAIN procs,
         {events[i].guid : i \in Starts(a)} = {n}
  PROVE  Guids(a) \subseteq Tree(n) \cap DOMAIN procs /\ n \in Guids(a)
<1> DEFINE U == DOMAIN procs
           Born(X) == {m \in U : procs[m].parent \in X}
           FG == [X \in SUBSET U |-> X \cup Children(X)]
           FT == [X \in SUBSET U |-> X \cup Born(X)]
           own == {events[i].guid : i \in Starts(a)}
           IsG(h) == h = [k \in Nat |-> IF k = 0 THEN own
                                        ELSE h[k - 1] \cup Children(h[k - 1])]
           IsT(h) == h = [k \in Nat |-> IF k = 0 THEN {n} ELSE h[k - 1] \cup Born(h[k - 1])]
           G == CHOOSE h : IsG(h)
           T == CHOOSE h : IsT(h)
<1>1. ASSUME NEW X PROVE Children(X) \subseteq Born(X)
  <2>1. \A j \in Creates : /\ events[j].guid \in DOMAIN procs
                           /\ procs[events[j].guid].parent = events[j].parent
    BY DEF Log, Created
  <2> QED BY <2>1 DEF Children
<1>2. FG \in [SUBSET U -> SUBSET U] /\ FT \in [SUBSET U -> SUBSET U] BY <1>1
<1>3. {n} \in SUBSET U OBVIOUS
<1>4. IsG(G)
  <2> HIDE DEF FG, U
  <2>1. PICK g \in [Nat -> SUBSET U] :
          \A k \in Nat : g[k] = IF k = 0 THEN {n} ELSE FG[g[k - 1]]
    <3>1. Repeatable(U, {n}, FG) BY <1>2, <1>3, Repeated
    <3> QED BY <3>1 DEF Repeatable
  <2>2. \A k \in Nat : g[k] = IF k = 0 THEN own ELSE g[k - 1] \cup Children(g[k - 1])
    <3> SUFFICES ASSUME NEW k \in Nat
                 PROVE  g[k] = IF k = 0 THEN own ELSE g[k - 1] \cup Children(g[k - 1])
      OBVIOUS
    <3>1. CASE k = 0
      <4>1. g[k] = {n} BY <2>1, <3>1
      <4> QED BY <3>1, <4>1
    <3>2. CASE k # 0
      <4>1. k - 1 \in Nat BY <3>2
      <4>2. g[k - 1] \in SUBSET U BY <2>1, <4>1
      <4>3. g[k] = FG[g[k - 1]] BY <2>1, <3>2
      <4>4. FG[g[k - 1]] = g[k - 1] \cup Children(g[k - 1]) BY <4>2 DEF FG
      <4> QED BY <3>2, <4>3, <4>4
    <3> QED BY <3>1, <3>2
  <2>3. IsG(g)
    <3> HIDE DEF own
    <3>1. g \in [Nat -> SUBSET U] OBVIOUS
    <3> QED BY <2>2, <3>1
  <2> HIDE DEF IsG
  <2> QED BY <2>3
<1>5. IsT(T)
  <2> HIDE DEF FT, U, Born
  <2>1. PICK g \in [Nat -> SUBSET U] :
          \A k \in Nat : g[k] = IF k = 0 THEN {n} ELSE FT[g[k - 1]]
    <3>1. Repeatable(U, {n}, FT) BY <1>2, <1>3, Repeated
    <3> QED BY <3>1 DEF Repeatable
  <2>2. \A k \in Nat : g[k] = IF k = 0 THEN {n} ELSE g[k - 1] \cup Born(g[k - 1])
    <3> SUFFICES ASSUME NEW k \in Nat
                 PROVE  g[k] = IF k = 0 THEN {n} ELSE g[k - 1] \cup Born(g[k - 1])
      OBVIOUS
    <3>1. CASE k = 0 BY <2>1, <3>1
    <3>2. CASE k # 0
      <4>1. k - 1 \in Nat BY <3>2
      <4>2. g[k - 1] \in SUBSET U BY <2>1, <4>1
      <4>3. g[k] = FT[g[k - 1]] BY <2>1, <3>2
      <4>4. FT[g[k - 1]] = g[k - 1] \cup Born(g[k - 1]) BY <4>2 DEF FT
      <4> QED BY <3>2, <4>3, <4>4
    <3> QED BY <3>1, <3>2
  <2>3. g \in [Nat -> SUBSET U] OBVIOUS
  <2>4. IsT(g) BY <2>2, <2>3
  <2> HIDE DEF IsT
  <2> QED BY <2>4
<1> HIDE DEF G, T
<1>6. /\ G[0] = {n}
      /\ \A k \in Nat : G[k + 1] = G[k] \cup Children(G[k])
  <2>1. \A k \in Nat : G[k] = IF k = 0 THEN own ELSE G[k - 1] \cup Children(G[k - 1])
    <3> HIDE DEF own
    <3> QED BY <1>4
  <2>2. G[0] = {n} BY <2>1
  <2>3. ASSUME NEW k \in Nat PROVE G[k + 1] = G[k] \cup Children(G[k])
    <3>1. k + 1 \in Nat /\ k + 1 # 0 /\ (k + 1) - 1 = k OBVIOUS
    <3> HIDE DEF own
    <3> QED BY <2>1, <3>1
  <2> QED BY <2>2, <2>3
<1>7. /\ T[0] = {n}
      /\ \A k \in Nat : T[k + 1] = T[k] \cup Born(T[k])
  <2> HIDE DEF Born
  <2>1. \A k \in Nat : T[k] = IF k = 0 THEN {n} ELSE T[k - 1] \cup Born(T[k - 1])
    BY <1>5
  <2>2. T[0] = {n} BY <2>1
  <2>3. ASSUME NEW k \in Nat PROVE T[k + 1] = T[k] \cup Born(T[k])
    <3>1. k + 1 \in Nat /\ k + 1 # 0 /\ (k + 1) - 1 = k OBVIOUS
    <3> QED BY <2>1, <3>1
  <2> QED BY <2>2, <2>3
<1> DEFINE S == {k \in Nat : G[k] \subseteq T[k] /\ G[k] \subseteq U /\ n \in G[k]}
<1>8. S = Nat
  <2>1. 0 \in S BY <1>6, <1>7
  <2>2. ASSUME NEW k \in S PROVE k + 1 \in S
    <3>1. G[k] \subseteq T[k] /\ G[k] \subseteq U /\ n \in G[k] /\ k \in Nat OBVIOUS
    <3>2. Children(G[k]) \subseteq Born(G[k]) BY <1>1
    <3>3. Born(G[k]) \subseteq Born(T[k]) /\ Born(G[k]) \subseteq U BY <3>1
    <3> HIDE DEF Born
    <3>4. G[k + 1] = G[k] \cup Children(G[k]) /\ T[k + 1] = T[k] \cup Born(T[k])
      BY <1>6, <1>7, <3>1
    <3>5. G[k + 1] \subseteq T[k + 1] /\ G[k + 1] \subseteq U /\ n \in G[k + 1]
      BY <3>1, <3>2, <3>3, <3>4
    <3> QED BY <3>1, <3>5
  <2>3. S \in SUBSET Nat OBVIOUS
  <2> HIDE DEF S
  <2> QED BY <2>1, <2>2, <2>3, Everywhere
<1>9. Len(procs) \in Nat BY Kinds
<1>10. Guids(a) = G[Len(procs)]
  <2>1. Cardinality(own) = 1 BY FS_Singleton
  <2> QED BY <2>1 DEF Guids, G
<1>11. Tree(n) = T[Len(procs)] BY DEF Tree, T
<1>12. Len(procs) \in S BY <1>8, <1>9
<1> QED BY <1>10, <1>11, <1>12

(* A process of the image and the number of a program measured, started in *)
(* its window, is that program's: it keeps the number until it ends.       *)
LEMMA StartIsOwn ==
  ASSUME Typed, NEW a \in Attempt, Fits(a), NEW s \in Starts(a)
  PROVE  s \in Creates /\ events[s].guid = a.main
<1>1. s \in Creates /\ events[s].pid = a.pid /\ a.start < s /\ s <= a.end
  BY DEF Starts
<1>2. s \in Int /\ a.end \in Int BY <1>1, Kinds DEF Attempt
<1> QED BY <1>1, <1>2 DEF Fits

(* Where one start was found, the GUID of the program is among those that  *)
(* are its own.                                                            *)
LEMMA Identified ==
  ASSUME Typed, Log, NEW a \in Attempt, Fits(a), Clear(a)
  PROVE  {events[j].guid : j \in Starts(a)} = {a.main} /\ a.main \in Guids(a)
<1>1. PICK s \in Starts(a) : Starts(a) = {s}
  <2>1. PICK s : s \in Starts(a)
    <3> SUFFICES ASSUME Starts(a) = {} PROVE FALSE OBVIOUS
    <3> QED BY FS_EmptySet DEF Clear
  <2> QED BY <2>1, OnlyOne DEF Clear
<1>2. {events[j].guid : j \in Starts(a)} = {a.main} BY <1>1, StartIsOwn
<1>3. a.main \in Guids(a) BY <1>2, Descended DEF Fits
<1> QED BY <1>2, <1>3

(* An operation of the program's own process is attributed to it, or it is *)
(* doubtful: a GUID that is not the program's is older than the program.   *)
LEMMA OwnIsAttributed ==
  ASSUME Typed, Log, NEW a \in Attempt, Fits(a), Clear(a),
         NEW i \in Ops, Checked(i), events[i].who = a.main
  PROVE  i \in Attributable(a)
<1>1. i \in Records /\ events[i].pid = a.pid /\ a.start < i
  BY Kinds DEF Log, Operated, Fits
<1>2. i \in Near(a) BY <1>1 DEF Near
<1>3. events[i].guid # Zero BY <1>2 DEF Clear, Ambiguous, Unattributed
<1>4. ~LaterPidReuse(a, i)
  <2> SUFFICES ASSUME NEW j \in Creates, events[j].guid = events[i].guid, a.end < j
               PROVE  FALSE
    BY DEF LaterPidReuse
  <2>1. a.end # -1 /\ a.start <= a.end BY DEF Fits, Clear
  <2>2. events[i].guid = a.main \/ events[i].guid < a.main
    BY <1>3 DEF Log, Operated
  <2>3. j <= a.start \/ j <= a.end BY <2>1, <2>2 DEF Fits
  <2>4. j \in Int /\ a.start \in Int /\ a.end \in Int BY Kinds DEF Attempt
  <2> QED BY <2>1, <2>3, <2>4
<1>5. CASE i \in Late
  <2>1. events[i].guid \in Guids(a)
    <3> SUFFICES ASSUME events[i].guid \notin Guids(a) PROVE FALSE OBVIOUS
    <3>1. i \in Conflicting(a) BY <1>2, <1>3, <1>4, <1>5 DEF Conflicting
    <3> QED BY <3>1 DEF Clear, Ambiguous
  <2> QED BY <1>1, <2>1 DEF Attributable
<1>6. CASE i \notin Late
  <2>1. events[i].guid = a.main BY <1>3, <1>6 DEF Checked
  <2> QED BY <1>1, <2>1, Identified DEF Attributable
<1> QED BY <1>5, <1>6

(* Where every start was recorded, what is attributed to a program was     *)
(* done by a process of its tree: a GUID given wrongly is of a process     *)
(* whose number another one has had since.                                 *)
LEMMA AttributedIsOwn ==
  ASSUME Typed, Log, NEW a \in Attempt, Fits(a), Clear(a),
         \A n \in DOMAIN procs : procs[n].seen,
         NEW i \in Ops \cap Attributable(a), Checked(i)
  PROVE  events[i].who \in Tree(a.main)
<1>4. {events[j].guid : j \in Starts(a)} = {a.main} BY Identified
<1>5. events[i].guid \in Tree(a.main) \cap DOMAIN procs
  BY <1>4, Descended DEF Fits, Attributable
<1>6. events[i].guid # Zero BY <1>5, Kinds DEF Zero
<1>7. events[i].who \in DOMAIN procs /\ procs[events[i].who].pid = events[i].pid
  BY DEF Log, Operated
<1>8. ASSUME events[i].guid # events[i].who PROVE FALSE
  <2>1. /\ events[i].guid < events[i].who
        /\ procs[events[i].guid].pid = events[i].pid
    BY <1>6, <1>8 DEF Log, Operated
  <2>2. PICK o \in Creates : events[o].guid = events[i].guid BY <1>5 DEF Log, Recorded
  <2>3. PICK j \in Creates : events[j].guid = events[i].who BY <1>7 DEF Log, Recorded
  <2>4. o < j BY <2>1, <2>2, <2>3 DEF Log, Ordered
  <2>5. j < i BY <2>3 DEF Log, Operated
  <2>6. events[o].pid = events[j].pid BY <1>7, <2>1, <2>2, <2>3 DEF Log, Created
  <2>7. j <= i BY <2>5, Kinds
  <2>8. OwnerPidReused(i)
    BY <1>8, <2>2, <2>3, <2>4, <2>6, <2>7 DEF OwnerPidReused
  <2>9. i \in ReusedOwner(a) BY <1>6, <1>8, <2>8 DEF ReusedOwner, Checked
  <2> QED BY <2>9 DEF Clear, Ambiguous
<1> QED BY <1>5, <1>8

(***************************************************************************)
(* The invariant.                                                          *)
(***************************************************************************)

(* The types after every step.                                             *)
LEMMA TypedStep ==
  ASSUME Typed, Log, Attempted, [Next]_vars PROVE Typed'
<1>1. ASSUME NEW pid \in Pids, Launch(pid) PROVE Typed'
  <2>1. Start(pid, Zero, "probe") BY <1>1 DEF Launch
  <2>2. procs' \in Seq(Proc) /\ DOMAIN procs \subseteq DOMAIN procs'
    BY <2>1, Started DEF Zero, Images
  <2>3. events' \in Seq(Event)
    <3>1. \/ UNCHANGED events
          \/ /\ Birth(pid, Zero, "probe") \in Event
             /\ events' = Append(events, Birth(pid, Zero, "probe"))
      BY <2>1, Started DEF Zero, Images
    <3> QED BY <3>1, Logged DEF Typed
  <2>4. attempts' \in Seq(Attempt)
    <3> DEFINE b == [main |-> Len(procs) + 1, pid |-> pid, start |-> Len(events),
                     end |-> -1, ok |-> FALSE]
    <3>1. b \in Attempt BY Kinds DEF Attempt
    <3>2. attempts' = Append(attempts, b) BY <1>1 DEF Launch
    <3> HIDE DEF b
    <3> QED BY <3>1, <3>2, Appended DEF Typed
  <2>5. UNCHANGED <<plan, backlog, ops>> BY <1>1 DEF Launch
  <2> QED BY <2>2, <2>3, <2>4, <2>5 DEF Typed
<1>2. ASSUME NEW pid \in Pids, NEW n \in Live \cup {Zero}, Spawn(pid, n) PROVE Typed'
  <2>0. n \in Nat BY Kinds DEF Live, Zero
  <2>1. Start(pid, n, "other") BY <1>2 DEF Spawn
  <2>2. procs' \in Seq(Proc) /\ DOMAIN procs \subseteq DOMAIN procs'
    BY <2>0, <2>1, Started DEF Images
  <2>3. events' \in Seq(Event)
    <3>1. \/ UNCHANGED events
          \/ /\ Birth(pid, n, "other") \in Event
             /\ events' = Append(events, Birth(pid, n, "other"))
      BY <2>0, <2>1, Started DEF Images
    <3> QED BY <3>1, Logged DEF Typed
  <2>4. UNCHANGED <<plan, backlog, ops, attempts>> BY <1>2 DEF Spawn
  <2> QED BY <2>2, <2>3, <2>4 DEF Typed
<1>3. ASSUME NEW n \in Live, Exit(n) PROVE Typed'
  <2>1. UNCHANGED <<plan, backlog, ops, events>> BY <1>3 DEF Exit
  <2> QED BY <1>3, <2>1, ExitKeeps DEF Typed
<1>4. ASSUME NEW n \in Live, NEW hit \in Hits, NEW kind \in OpKinds,
             Act(n, hit, kind)
      PROVE  Typed'
  <2>1. n \in DOMAIN procs BY DEF Live
  <2>2. /\ backlog' \subseteq [op : Nat, who : DOMAIN procs, hit : Hits, kind : OpKinds]
        /\ ops' \in Nat
    BY <1>4, <2>1 DEF Act, Typed
  <2>3. UNCHANGED <<plan, procs, events, attempts>> BY <1>4 DEF Act
  <2> QED BY <2>2, <2>3 DEF Typed
<1>5. ASSUME NEW q \in backlog, Write(q) PROVE Typed'
  <2>1. \E guid \in Nat : /\ Operation(q, guid) \in Event
                          /\ events' = Append(events, Operation(q, guid))
    BY <1>5, Written
  <2>2. events' \in Seq(Event) BY <2>1, Logged
  <2>3. backlog' \subseteq backlog /\ UNCHANGED <<plan, procs, ops, attempts>>
    BY <1>5 DEF Write
  <2> QED BY <2>2, <2>3 DEF Typed
<1>6. CASE Judge BY <1>6 DEF Judge, Typed
<1>7. CASE UNCHANGED vars BY <1>7 DEF vars, Typed
<1> QED BY <1>1, <1>2, <1>3, <1>4, <1>5, <1>6, <1>7 DEF Next

(* The log after every step.                                               *)
LEMMA LogStep ==
  ASSUME Typed, Log, Attempted, [Next]_vars PROVE Log'
<1>1. ASSUME NEW pid \in Pids, Launch(pid) PROVE Log'
  BY <1>1, StartKeepsLog DEF Launch, Zero, Images
<1>2. ASSUME NEW pid \in Pids, NEW n \in Live \cup {Zero}, Spawn(pid, n) PROVE Log'
  <2>1. n \in Nat BY Kinds DEF Live, Zero
  <2> QED BY <1>2, <2>1, StartKeepsLog DEF Spawn, Images
<1>3. ASSUME NEW n \in Live, Exit(n) PROVE Log' BY <1>3, ExitKeeps
<1>4. ASSUME NEW q \in backlog, Write(q) PROVE Log' BY <1>4, WriteKeeps
<1>5. ASSUME UNCHANGED <<procs, events>> PROVE Log'
  <2>1. Creates' = Creates /\ Ops' = Ops BY <1>5 DEF Creates, Ops, Records
  <2> QED BY <1>5, <2>1 DEF Log, Created, Recorded, Ordered, Operated
<1>6. \/ \E pid \in Pids : Launch(pid) \/ \E n \in Live \cup {Zero} : Spawn(pid, n)
      \/ \E n \in Live : Exit(n)
      \/ \E q \in backlog : Write(q)
      \/ UNCHANGED <<procs, events>>
  BY DEF Next, Act, Judge, vars
<1> QED BY <1>1, <1>2, <1>3, <1>4, <1>5, <1>6

(* The attempts after every step.                                          *)
LEMMA AttemptedStep ==
  ASSUME Typed, Log, Attempted, Alone, [Next]_vars PROVE Attempted'
<1>0. attempts \in Seq(Attempt) BY DEF Typed
<1>1. \A k \in DOMAIN attempts : attempts[k] \in Attempt /\ Fits(attempts[k])
  BY <1>0 DEF Attempted
<1>2. ASSUME NEW pid \in Pids, Launch(pid) PROVE Attempted'
  <2>0. Zero \in Nat /\ "probe" \in Images BY DEF Zero, Images
  <2>1. Start(pid, Zero, "probe") BY <1>2 DEF Launch
  <2>2. PICK b : b = [main |-> Len(procs) + 1, pid |-> pid, start |-> Len(events),
                      end |-> -1, ok |-> FALSE]
    OBVIOUS
  <2>3. b \in Attempt BY <2>2, Kinds DEF Attempt
  <2>4. Fits(b)' BY <2>1, <2>2, <2>3, LaunchFits
  <2>5. attempts' = Append(attempts, b) BY <1>2, <2>2 DEF Launch
  <2>6. /\ DOMAIN attempts' = DOMAIN attempts \cup {Len(attempts) + 1}
        /\ \A k \in DOMAIN attempts : attempts'[k] = attempts[k]
        /\ attempts'[Len(attempts) + 1] = b
    BY <1>0, <2>3, <2>5, Appended
  <2> SUFFICES ASSUME NEW k \in DOMAIN attempts' PROVE Fits(attempts[k])'
    BY DEF Attempted
  <2>7. CASE k = Len(attempts) + 1 BY <2>4, <2>6, <2>7 DEF Fits
  <2>8. CASE k \in DOMAIN attempts
    <3>1. PICK c \in Attempt : c = attempts[k] /\ Fits(c) BY <1>1, <2>8
    <3>2. Fits(c)' BY <2>0, <2>1, <2>8, <3>1, StartKeepsAttempts DEF Alone
    <3> QED BY <2>6, <2>8, <3>1, <3>2 DEF Fits
  <2> QED BY <2>6, <2>7, <2>8
<1>3. ASSUME NEW pid \in Pids, NEW n \in Live \cup {Zero}, Spawn(pid, n) PROVE Attempted'
  <2>0. n \in Nat /\ "other" \in Images BY Kinds DEF Live, Zero, Images
  <2>1. Start(pid, n, "other") /\ UNCHANGED attempts BY <1>3 DEF Spawn
  <2> SUFFICES ASSUME NEW k \in DOMAIN attempts PROVE Fits(attempts[k])'
    BY <2>1 DEF Attempted
  <2>2. PICK c \in Attempt : c = attempts[k] /\ Fits(c) BY <1>1
  <2>3. Fits(c)' BY <2>0, <2>1, <2>2, StartKeepsAttempts DEF Alone
  <2> QED BY <2>1, <2>2, <2>3 DEF Fits
<1>4. ASSUME NEW n \in Live, Exit(n) PROVE Attempted' BY <1>4, ExitKeeps
<1>5. ASSUME NEW q \in backlog, Write(q) PROVE Attempted' BY <1>5, WriteKeeps
<1>6. ASSUME UNCHANGED <<procs, events, attempts>> PROVE Attempted'
  <2>1. Creates' = Creates /\ Ops' = Ops BY <1>6 DEF Creates, Ops, Records
  <2> QED BY <1>6, <2>1 DEF Attempted, Fits
<1>7. \/ \E pid \in Pids : Launch(pid) \/ \E n \in Live \cup {Zero} : Spawn(pid, n)
      \/ \E n \in Live : Exit(n)
      \/ \E q \in backlog : Write(q)
      \/ UNCHANGED <<procs, events, attempts>>
  BY DEF Next, Act, Judge, vars
<1> QED BY <1>2, <1>3, <1>4, <1>5, <1>6, <1>7

(* The program that runs after every step.                                 *)
LEMMA AloneStep ==
  ASSUME Typed, Log, Attempted, Alone, [Next]_vars PROVE Alone'
<1>0. /\ attempts \in Seq(Attempt) /\ procs \in Seq(Proc)
      /\ \A k \in DOMAIN attempts : attempts[k] \in Attempt
      /\ \A k \in DOMAIN attempts : attempts[k].main \in DOMAIN procs
  BY DEF Typed, Attempted, Fits
<1>1. ASSUME NEW pid \in Pids, Launch(pid) PROVE Alone'
  <2>0. Zero \in Nat /\ "probe" \in Images BY DEF Zero, Images
  <2>1. Start(pid, Zero, "probe") /\ ~Running BY <1>1 DEF Launch
  <2> DEFINE b == [main |-> Len(procs) + 1, pid |-> pid, start |-> Len(events),
                   end |-> -1, ok |-> FALSE]
  <2>2. b \in Attempt /\ b.main = Len(procs) + 1 BY Kinds DEF Attempt
  <2>3. attempts' = Append(attempts, b) BY <1>1 DEF Launch
  <2> HIDE DEF b
  <2>4. /\ DOMAIN attempts' = DOMAIN attempts \cup {Len(attempts) + 1}
        /\ \A k \in DOMAIN attempts : attempts'[k] = attempts[k]
        /\ attempts'[Len(attempts) + 1] = b /\ Len(attempts') = Len(attempts) + 1
    BY <1>0, <2>2, <2>3, Appended
  <2>5. procs'[Len(procs) + 1].alive
    <3>1. PICK seen \in BOOLEAN :
            procs' = Append(procs, Process(pid, Zero, "probe", seen))
      BY <2>1 DEF Start, Process
    <3>2. procs'[Len(procs) + 1] = Process(pid, Zero, "probe", seen) BY <1>0, <3>1
    <3> QED BY <3>2 DEF Process
  <2>6. \A k \in DOMAIN attempts : attempts[k].end # -1
    BY <1>0, <2>1, EmptySeq DEF Alone, Running
  <2> QED BY <2>2, <2>4, <2>5, <2>6 DEF Alone
<1>2. ASSUME NEW pid \in Pids, NEW n \in Live \cup {Zero}, Spawn(pid, n) PROVE Alone'
  <2>0. n \in Nat /\ "other" \in Images BY Kinds DEF Live, Zero, Images
  <2>1. Start(pid, n, "other") /\ UNCHANGED attempts BY <1>2 DEF Spawn
  <2>2. \A x \in DOMAIN procs : procs'[x] = procs[x] BY <2>0, <2>1, Started
  <2> QED BY <1>0, <2>1, <2>2 DEF Alone
<1>3. ASSUME NEW n \in Live, Exit(n) PROVE Alone'
  <2>1. procs' = [procs EXCEPT ![n].alive = FALSE] BY <1>3 DEF Exit
  <2>2. \A x \in DOMAIN procs : x # n => procs'[x] = procs[x] BY <2>1
  <2>3. CASE Running /\ Current.main = n
    <3>1. PICK ok \in BOOLEAN :
            attempts' = [attempts EXCEPT ![Len(attempts)].end = Len(events),
                                         ![Len(attempts)].ok = ok]
      BY <1>3, <2>3 DEF Exit
    <3>2. /\ DOMAIN attempts' = DOMAIN attempts
          /\ \A k \in DOMAIN attempts : k # Len(attempts) => attempts'[k] = attempts[k]
      BY <3>1
    <3>3. Len(attempts) \in DOMAIN attempts => attempts'[Len(attempts)].end = Len(events)
      BY <1>0, <3>1 DEF Attempt
    <3>4. Len(events) # -1 BY Kinds
    <3> QED BY <3>2, <3>3, <3>4 DEF Alone
  <2>4. CASE ~(Running /\ Current.main = n)
    <3>1. UNCHANGED attempts BY <1>3, <2>4 DEF Exit
    <3>2. ASSUME NEW k \in DOMAIN attempts, attempts[k].end = -1
          PROVE  attempts[k].main # n
      <4>1. k = Len(attempts) BY <3>2 DEF Alone
      <4>2. attempts # << >> BY <3>2
      <4> QED BY <2>4, <3>2, <4>1, <4>2 DEF Running, Current
    <3> QED BY <1>0, <2>2, <3>1, <3>2 DEF Alone
  <2> QED BY <2>3, <2>4
<1>4. ASSUME UNCHANGED <<procs, attempts>> PROVE Alone' BY <1>4 DEF Alone
<1>5. \/ \E pid \in Pids : Launch(pid) \/ \E n \in Live \cup {Zero} : Spawn(pid, n)
      \/ \E n \in Live : Exit(n)
      \/ UNCHANGED <<procs, attempts>>
  BY DEF Next, Act, Write, Judge, vars
<1> QED BY <1>1, <1>2, <1>3, <1>4, <1>5

(* The rows after every step.                                              *)
LEMMA JudgedStep ==
  ASSUME PlansAssumption, Typed, Judged, [Next]_vars PROVE Judged'
<1>1. CASE Judge
  <2>1. UNCHANGED <<plan, procs, events, attempts>> BY <1>1 DEF Judge
  <2> SUFFICES ASSUME NEW k \in DOMAIN attempts, Complete, results' # << >>,
                      results'[1] # "integrity", results'[k] = "valid"
               PROVE  Clear(attempts[k])'
    BY <2>1 DEF Judged, Complete
  <2>2. PICK c : c = attempts[k] /\ Clear(c) BY <1>1, JudgeClears
  <2>3. Clear(c)' BY <2>1, <2>2, ClearStays
  <2>4. attempts'[k] = c BY <2>1, <2>2
  <2> QED BY <2>3, <2>4
<1>2. CASE UNCHANGED vars
  <2>1. UNCHANGED <<plan, procs, events, attempts, results>> BY <1>2 DEF vars
  <2> SUFFICES ASSUME NEW k \in DOMAIN attempts, Complete, results # << >>,
                      results[1] # "integrity", results[k] = "valid"
               PROVE  Clear(attempts[k])'
    BY <2>1 DEF Judged, Complete
  <2>2. PICK c : c = attempts[k] /\ Clear(c) BY DEF Judged
  <2>3. Clear(c)' BY <2>1, <2>2, ClearStays
  <2>4. attempts'[k] = c BY <2>1, <2>2
  <2> QED BY <2>3, <2>4
<1>3. CASE ~Judge /\ ~UNCHANGED vars
  <2>1. results' = << >> BY <1>3 DEF Next, Launch, Spawn, Exit, Act, Write
  <2> QED BY <2>1 DEF Judged
<1> QED BY <1>1, <1>2, <1>3

(* The invariant holds of every state.                                     *)
LEMMA Invariant ==
  ASSUME PlansAssumption PROVE Spec => []IInv
<1>1. Init => IInv
  <2> SUFFICES ASSUME Init PROVE IInv OBVIOUS
  <2>1. procs = << >> /\ events = << >> /\ attempts = << >> /\ results = << >>
        /\ plan \in Plans /\ backlog = {} /\ ops = 0
    BY DEF Init
  <2>2. procs \in Seq(Proc) /\ events \in Seq(Event) /\ attempts \in Seq(Attempt)
    BY <2>1
  <2>3. Typed BY <2>1, <2>2 DEF Typed
  <2>4. Creates = {} /\ Ops = {} BY <2>1 DEF Creates, Ops, Records
  <2>5. Log BY <2>1, <2>4 DEF Log, Created, Recorded, Ordered, Operated
  <2>6. Attempted /\ Alone /\ Judged BY <2>1 DEF Attempted, Alone, Judged
  <2> QED BY <2>3, <2>5, <2>6 DEF IInv
<1>2. IInv /\ [Next]_vars => IInv'
  BY TypedStep, LogStep, AttemptedStep, AloneStep, JudgedStep DEF IInv
<1> QED BY <1>1, <1>2, PTL DEF Spec

(* A valid row is true: it misses nothing that the program's own process   *)
(* did, and where every start was recorded it counts nothing of another's  *)
(* (windows/harness/analyze.py:60-102).                                    *)
THEOREM ValidRowsAreTrue ==
  ASSUME PlansAssumption PROVE Spec => []ValidIsTrue
<1>1. IInv => ValidIsTrue
  <2> SUFFICES ASSUME IInv, NEW k \in DOMAIN attempts, Complete, results # << >>,
                      results[1] # "integrity", results[k] = "valid",
                      NEW i \in Ops, Checked(i)
               PROVE  /\ events[i].who = attempts[k].main => i \in Attributable(attempts[k])
                      /\ (\A n \in DOMAIN procs : procs[n].seen)
                           /\ i \in Attributable(attempts[k]) =>
                           events[i].who \in Tree(attempts[k].main)
    BY DEF ValidIsTrue
  <2>1. attempts[k] \in Attempt BY DEF IInv, Typed
  <2>2. Fits(attempts[k]) /\ Clear(attempts[k]) BY DEF IInv, Attempted, Judged
  <2> QED BY <2>1, <2>2, OwnIsAttributed, AttributedIsOwn DEF IInv
<1> QED BY <1>1, Invariant, PTL
=============================================================================
