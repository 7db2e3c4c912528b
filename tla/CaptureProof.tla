---------------------------- MODULE CaptureProof ----------------------------
(***************************************************************************)
(* The Linux capture of the composite programs, for every plan, batch      *)
(* size, number of tries and bound, and for each of its four drivers.      *)
(*                                                                         *)
(* A row is made at the end of a capture from what was read of it, so what *)
(* a row says is true only if every state before it was: the container at  *)
(* hand is the program's (Tidy), an alert on its way comes from a program  *)
(* of the group (Caught, NoEcho), and from the snapshot before the         *)
(* programs until the journal is read, what is on its way and what is      *)
(* written are together just what the programs caused (Live, Written,      *)
(* Read), as long as no drop was counted. The pilot starts no program      *)
(* twice because its folders are its memory: Batches says which slots a    *)
(* folder stands for, for a batch that is about to be cut, at work, or     *)
(* filed.                                                                  *)
(***************************************************************************)
EXTENDS LinuxCapture, WellFoundedInduction, SequenceTheorems, TLAPS

Quiet  == {"check", "setup", "settling", "before", "cursor"}
Active == {"box", "native", "wait", "drain", "log", "score"}
Inside == Quiet \cup Active \cup {"cleanup", "file"}
Members == {group[k] : k \in DOMAIN group}
Multiple(n) == \E q \in Nat : n = q * BatchSize

Program(x) == x.cause = "program"
Heard(a, W) == \E x \in W : x.cid = a /\ Program(x)

\* Where the loop over the group stands.
Placed ==
  /\ group # << >> => i \in DOMAIN group
  /\ pc \in Inside => group # << >>
  /\ pc \in Quiet => i = 1
  /\ pc \in Quiet \cup Active => raised = "none"
  /\ pc = "down" => driver = "pilot"
  /\ pc \in {"check", "setup", "settling"} => driver # "qualify"
  /\ Len(group) > 1 =>
       driver \in {"batch", "pilot"} /\ \A k \in DOMAIN group : group[k][2] = 1

\* What has happened of a capture.
Unrun == outcome = [a \in Attempts |-> "none"] /\ hit = {} /\ started = {} /\ impure = {}

Progress ==
  /\ pc \in Quiet => Unrun
  /\ ~Shared /\ pc \in {"box", "native"} => Unrun
  /\ \A a \in Attempts : outcome[a] # "none" => a \in started
  /\ pc = "wait" => Here \in started
  /\ rows # << >> =>
       pc \notin Inside \/ (driver = "pilot" /\ pc \in {"score", "cleanup", "file"})
  /\ Shared /\ raised = "measurement" /\ pc \in {"cleanup", "file"} => Unrun
  /\ driver # "pilot" /\ raised = "none" =>
       \A a \in Attempts : outcome[a] \in {"bad", "timeout"} => a \in noted

Purity ==
  /\ frozen => impure = {}
  /\ Campaign /\ Shared /\ raised = "none" /\ pc \in {"cleanup", "file"} => impure = {}

Tidy ==
  Campaign =>
    /\ alive \subseteq boxes
    /\ pc \in Inside => boxes \subseteq Members \cup unsaid
    /\ pc \in {"native", "wait"} \/ (~Shared /\ pc \in {"before", "cursor"}) => Here \in boxes
    /\ pc \in {"pick", "done"} \cup {"check", "setup", "settling"} => boxes \subseteq unsaid
    /\ pc = "file" /\ raised # "fatal" => boxes \subseteq unsaid

\* The pilot's batches: a folder for each, and a program starts in the batch of its slot.
RanOnce ==
  /\ \A f \in folders : Multiple(f)
  /\ \A a \in ran : a[2] = 1 /\ \E f \in folders : f < a[1] /\ a[1] <= f + BatchSize
  /\ ~reran
FiledOnce == filed = SubSeq(Plan, 1, Len(filed)) /\ Len(filed) <= Planned
NextBatch ==
  pc = "pick" => /\ todo = SubSeq(Plan, Len(filed) + 1, Planned)
                 /\ todo # << >> => Multiple(Len(filed))

Base == Len(filed) - Len(rows)
Cut  == /\ Base \in folders
        /\ Len(group) = IF BatchSize <= Planned - Base THEN BatchSize ELSE Planned - Base
        /\ \A k \in DOMAIN group : group[k] = <<Base + k, 1>>
        /\ todo = SubSeq(Plan, Base + Len(group) + 1, Planned)
Unheard ==
  \A k \in DOMAIN group :
    (pc \in Quiet \cup {"box", "native"} /\ k >= i) \/ (pc = "wait" /\ k > i)
    => group[k] \notin ran
Counted ==
  /\ pc \notin {"score", "cleanup", "file"} => rows = << >>
  /\ pc \in {"drain", "log"} => i = 1
  /\ pc = "score" => Len(rows) = i - 1
  /\ pc \in {"cleanup", "file"} /\ raised = "none" => Len(rows) = Len(group)
ThisBatch == pc \in Inside => Cut /\ Unheard /\ Counted

Batches == driver = "pilot" => RanOnce /\ FiledOnce /\ NextBatch /\ ThisBatch

\* A first attempt is in the queue once, and nothing was heard of it before.
Untried ==
  Campaign => \A j \in DOMAIN todo : todo[j][2] = 1 =>
    /\ \A k \in DOMAIN todo : todo[k] = todo[j] => k = j
    /\ todo[j] \notin Members
    /\ \A x \in wire : x.cid # todo[j]

\* The pilot hears of programs it started only.
Sources == driver = "pilot" => \A x \in wire : Program(x) => x.cid \in ran

Capturing == pc \in {"native", "wait", "drain"} \/ (Shared /\ pc = "box")

\* The alerts in W tell which of the group's programs caused one.
Tells(W) ==
  /\ \A a \in Members : a \in hit <=> Heard(a, W)
  /\ ~Shared => \A x \in W : Program(x)

Counting == before.drops <= falco.drops
Caught   == hit \subseteq Members
NoEcho   == Shared /\ pc \in Quiet => \A x \in wire : Program(x) => x.cid \notin Members
Still    == (~Shared /\ pc = "cursor") \/ pc = "log" => wire = {}
Live     == Capturing /\ HealthOk(before, falco) => Tells(wire \cup journal)
Written  == pc = "log" /\ healthy => Tells(journal)
Read     == pc \in {"score", "cleanup", "file"} /\ raised = "none" /\ healthy => Tells(log)

Listening == Counting /\ Caught /\ NoEcho /\ Still /\ Live /\ Written /\ Read

IInv == /\ TypeOK /\ Placed /\ Progress /\ Purity /\ Tidy /\ Batches
        /\ Untried /\ Sources /\ Listening
        /\ ValidIsWitnessed /\ NativeOutcomeKept /\ FrozenWhenRun

(***************************************************************************)
(* Numbers and sequences.                                                  *)
(***************************************************************************)

(* A set of natural numbers that is not empty has a least one.             *)
LEMMA Least ==
  ASSUME NEW S \in SUBSET Nat, S # {}
  PROVE  \E m \in S : \A n \in S : m <= n
<1> DEFINE R == OpToRel(<, Nat)
<1>1. IsWellFoundedOn(R, Nat) BY NatLessThanWellFounded, Zenon
<1>2. \A x, y \in Nat : x < y => <<x, y>> \in R BY DEF OpToRel
<1> HIDE DEF R
<1>3. PICK m \in S : \A n \in S : <<n, m>> \notin R BY <1>1, WFMin
<1>4. \A n \in S : ~(n < m) BY <1>2, <1>3
<1> QED BY <1>4

(* A set with 0 and every successor holds every natural number.            *)
LEMMA Everywhere ==
  ASSUME NEW S \in SUBSET Nat, 0 \in S, \A n \in S : n + 1 \in S
  PROVE  S = Nat
<1> SUFFICES ASSUME Nat \ S # {} PROVE FALSE OBVIOUS
<1>1. PICK m \in Nat \ S : \A n \in Nat \ S : m <= n BY Least
<1>2. m # 0 /\ m - 1 \in Nat /\ (m - 1) + 1 = m /\ ~(m <= m - 1) BY <1>1
<1>3. m - 1 \in S BY <1>1, <1>2
<1>4. (m - 1) + 1 \in S BY <1>3
<1> QED BY <1>1, <1>2, <1>4

(* What the group takes from the queue, and what it leaves.                *)
LEMMA Split ==
  ASSUME NEW T, NEW s \in Seq(T), NEW n \in 1..Len(s)
  PROVE  /\ SubSeq(s, 1, n) \in Seq(T)
         /\ Len(SubSeq(s, 1, n)) = n
         /\ DOMAIN SubSeq(s, 1, n) = 1..n
         /\ \A k \in 1..n : k \in DOMAIN s /\ SubSeq(s, 1, n)[k] = s[k]
         /\ SubSeq(s, n + 1, Len(s)) \in Seq(T)
         /\ Len(SubSeq(s, n + 1, Len(s))) = Len(s) - n
         /\ DOMAIN SubSeq(s, n + 1, Len(s)) = 1..Len(s) - n
         /\ \A k \in 1..Len(s) - n :
              k + n \in DOMAIN s /\ SubSeq(s, n + 1, Len(s))[k] = s[k + n]
OBVIOUS

(* One sequence behind another.                                            *)
LEMMA Behindhand ==
  ASSUME NEW T, NEW s \in Seq(T), NEW t \in Seq(T)
  PROVE  /\ s \o t \in Seq(T)
         /\ Len(s \o t) = Len(s) + Len(t)
         /\ DOMAIN (s \o t) = 1..Len(s) + Len(t)
         /\ \A k \in DOMAIN (s \o t) :
              \/ k \in DOMAIN s /\ (s \o t)[k] = s[k]
              \/ k \notin DOMAIN s /\ k - Len(s) \in DOMAIN t /\ (s \o t)[k] = t[k - Len(s)]
OBVIOUS

(***************************************************************************)
(* The model's operators.                                                  *)
(***************************************************************************)

(* A group is a part of the queue; a shared one is of first attempts, and  *)
(* a pilot's is as long as the queue and the size of a batch allow.        *)
LEMMA SizeOfGroup ==
  ASSUME todo \in Seq(Attempts), todo # << >>
  PROVE  /\ GroupLen \in 1..Len(todo)
         /\ MayShare(GroupLen)
         /\ \A m \in (GroupLen + 1)..Len(todo) : ~MayShare(m)
<1> DEFINE L == Len(todo)
           Good(n) == MayShare(n)
           S == {L - n : n \in {n \in 1..L : Good(n)}}
<1>1. L \in Nat /\ L >= 1 OBVIOUS
<1>2. Good(1) BY DEF MayShare
<1> HIDE DEF L, Good
<1>3. S \in SUBSET Nat /\ S # {} BY <1>1, <1>2
<1>4. PICK m \in S : \A x \in S : m <= x BY <1>3, Least
<1>5. PICK n \in 1..L : Good(n) /\ m = L - n BY <1>4
<1>6. \A k \in 1..L : Good(k) => m <= L - k BY <1>4
<1> HIDE DEF S
<1>7. \A k \in (n + 1)..L : ~Good(k)
  <2> SUFFICES ASSUME NEW k \in (n + 1)..L, Good(k) PROVE FALSE OBVIOUS
  <2>1. k \in 1..L /\ L - k < m BY <1>1, <1>5
  <2> QED BY <1>1, <1>5, <1>6, <2>1
<1>8. \E x \in 1..L : MayShare(x) /\ \A k \in (x + 1)..L : ~MayShare(k)
  BY <1>5, <1>7 DEF Good
<1> QED BY <1>8 DEF GroupLen, L

Rows == [aid : Attempts, status : Statuses, fired : BOOLEAN]
Later == {a \in Attempts : a[2] > 1}

(* What is put in front of the queue are second and later attempts.        *)
LEMMA ReplacementsType ==
  ASSUME CaptureAssumption, NEW rs \in Seq(Rows)
  PROVE  Replacements(rs) \in Seq(Later)
<1> DEFINE L == Len(rs)
           next(k) == <<rs[k].aid[1], rs[k].aid[2] + 1>>
           one(k, s) == IF ~Again(rs[k]) THEN s ELSE Append(s, next(k))
           Part(n, u) == /\ u \in [0..n -> Seq(Later)]
                         /\ u[0] = << >>
                         /\ \A k \in 1..n : u[k] = one(k, u[k - 1])
           S == {n \in Nat : n <= L => \E u : Part(n, u)}
<1>1. L \in Nat OBVIOUS
<1>2. ASSUME NEW k \in 1..L, NEW s \in Seq(Later) PROVE one(k, s) \in Seq(Later)
  <2>1. rs[k] \in Rows OBVIOUS
  <2>2. ASSUME Again(rs[k]) PROVE next(k) \in Later
    <3>1. rs[k].aid \in Attempts /\ rs[k].aid[2] < MaxTries
      BY <2>1, <2>2 DEF Rows, Again
    <3>2. MaxTries \in Nat /\ Planned \in Nat BY DEF CaptureAssumption
    <3> QED BY <3>1, <3>2 DEF Later, Attempts
  <2> QED BY <2>2
<1> HIDE DEF L, one
<1>3. 0 \in S
  <2>1. Part(0, [k \in 0..0 |-> << >>]) OBVIOUS
  <2> HIDE DEF Part
  <2> QED BY <2>1
<1>4. ASSUME NEW n \in S PROVE n + 1 \in S
  <2>1. n \in Nat /\ (n <= L => \E u : Part(n, u)) OBVIOUS
  <2>2. ASSUME n + 1 <= L PROVE \E u : Part(n + 1, u)
    <3> HIDE DEF Part
    <3>1. PICK u : Part(n, u) BY <1>1, <2>1, <2>2
    <3> USE DEF Part
    <3> DEFINE w == [k \in 0..(n + 1) |-> IF k = n + 1 THEN one(k, u[n]) ELSE u[k]]
    <3>2. one(n + 1, u[n]) \in Seq(Later) BY <1>1, <1>2, <2>1, <2>2, <3>1
    <3>3. w \in [0..(n + 1) -> Seq(Later)] BY <2>1, <3>1, <3>2
    <3>4. \A k \in 1..(n + 1) : w[k] = one(k, w[k - 1])
      <4> SUFFICES ASSUME NEW k \in 1..(n + 1) PROVE w[k] = one(k, w[k - 1]) OBVIOUS
      <4>1. k - 1 \in 0..n /\ w[k - 1] = u[k - 1] BY <2>1
      <4>2. CASE k = n + 1 BY <4>1, <4>2
      <4>3. CASE k # n + 1
        <5>1. k \in 1..n /\ w[k] = u[k] BY <2>1, <4>3
        <5> QED BY <3>1, <4>1, <5>1
      <4> QED BY <4>2, <4>3
    <3>5. w[0] = << >> BY <2>1, <3>1
    <3> HIDE DEF w
    <3>6. Part(n + 1, w) BY <3>3, <3>4, <3>5
    <3> HIDE DEF Part
    <3> QED BY <3>6
  <2> HIDE DEF Part
  <2> QED BY <2>1, <2>2
<1>5. L \in S BY <1>1, <1>3, <1>4, Everywhere
<1> HIDE DEF Part
<1>6. PICK u : Part(L, u) BY <1>1, <1>5
<1> USE DEF Part
<1> HIDE DEF S
<1> DEFINE Fits(h) == h = [k \in 0..L |-> IF k = 0 THEN << >> ELSE one(k, h[k - 1])]
           g == CHOOSE h : Fits(h)
<1>7. Fits(g)
  <2>1. \A k \in 0..L : u[k] = IF k = 0 THEN << >> ELSE one(k, u[k - 1]) BY <1>1, <1>6
  <2>2. Fits(u) BY <1>6, <2>1
  <2> QED BY <2>2
<1> HIDE DEF g
<1>8. \A k \in 0..L : g[k] = IF k = 0 THEN << >> ELSE one(k, g[k - 1]) BY <1>7
<1> DEFINE R == {n \in Nat : n <= L => g[n] \in Seq(Later)}
<1>9. R = Nat
  <2>1. 0 \in R
    <3>1. g[0] = << >> BY <1>1, <1>8
    <3>2. << >> \in Seq(Later) OBVIOUS
    <3> QED BY <3>1, <3>2
  <2>2. ASSUME NEW n \in R PROVE n + 1 \in R
    <3> SUFFICES ASSUME n + 1 <= L PROVE g[n + 1] \in Seq(Later) OBVIOUS
    <3>1. g[n] \in Seq(Later) BY <1>1
    <3>2. g[n + 1] = one(n + 1, g[n]) BY <1>1, <1>8
    <3> QED BY <1>1, <1>2, <3>1, <3>2
  <2> QED BY <2>1, <2>2, Everywhere
<1>10. Replacements(rs) = g[L] BY DEF Replacements, g, L, one, next
<1> QED BY <1>1, <1>9, <1>10

(* What a step files is typed, and so is the plan.                         *)
LEMMA PlanType ==
  ASSUME CaptureAssumption
  PROVE  /\ Planned \in Nat \ {0} /\ BatchSize \in Nat \ {0} /\ MaxTries \in Nat \ {0}
         /\ Plan \in Seq(Attempts) /\ Len(Plan) = Planned
         /\ \A s \in 1..Planned : Plan[s] = <<s, 1>> /\ <<s, 1>> \in Attempts
         /\ Attempts # {}
<1>1. Planned \in Nat \ {0} /\ BatchSize \in Nat \ {0} /\ MaxTries \in Nat \ {0}
  BY DEF CaptureAssumption
<1>2. \A s \in 1..Planned : <<s, 1>> \in Attempts BY <1>1 DEF Attempts
<1>3. Plan \in Seq(Attempts) /\ Len(Plan) = Planned BY <1>1, <1>2 DEF Plan
<1>4. \A s \in 1..Planned : Plan[s] = <<s, 1>> BY DEF Plan
<1>5. <<1, 1>> \in Attempts BY <1>1, <1>2
<1> QED BY <1>1, <1>2, <1>3, <1>4, <1>5

(* What is filed is typed as the list it joins.                            *)
LEMMA FileType ==
  ASSUME TypeOK, NEW new \in Seq(Rows), File(new)
  PROVE  /\ filed' \in Seq(Attempts) /\ rows' \in Seq(Rows)
         /\ suite' \in [valid : BOOLEAN, fired : BOOLEAN]
<1>1. [k \in DOMAIN new |-> new[k].aid] \in Seq(Attempts)
  <2>1. \A k \in 1..Len(new) : new[k] \in Rows OBVIOUS
  <2>2. \A k \in 1..Len(new) : new[k].aid \in Attempts BY <2>1 DEF Rows
  <2>3. DOMAIN new = 1..Len(new) /\ Len(new) \in Nat OBVIOUS
  <2> QED BY <2>2, <2>3
<1>2. filed' \in Seq(Attempts) /\ rows' \in Seq(Rows)
  BY <1>1 DEF TypeOK, File, Rows
<1>3. suite' \in [valid : BOOLEAN, fired : BOOLEAN]
  BY Zenon DEF TypeOK, File
<1> QED BY <1>2, <1>3

(* A program gets a status that there is, and its row is a row.            *)
LEMMA RowType ==
  ASSUME TypeOK, NEW a \in Attempts
  PROVE  /\ Class(a) \in Statuses /\ StatusOf(a) \in Statuses
         /\ \A s \in Statuses : Row(a, s) \in Rows
<1>1. Class(a) \in Statuses BY DEF Class, Statuses
<1>2. StatusOf(a) \in Statuses
  <2>1. CASE raised = "measurement" BY <2>1 DEF StatusOf, Statuses
  <2>2. CASE raised = "timeout" BY <2>2 DEF StatusOf, Statuses
  <2>3. CASE raised = "fatal" BY <2>3 DEF StatusOf, Statuses
  <2>4. CASE raised = "none" BY <1>1, <2>4 DEF StatusOf
  <2> QED BY <2>1, <2>2, <2>3, <2>4 DEF TypeOK
<1>3. \A s \in Statuses : Row(a, s) \in Rows BY DEF Row, Rows
<1> QED BY <1>1, <1>2, <1>3

(* What Pick takes.                                                        *)
LEMMA Picked ==
  ASSUME TypeOK, Pick, group' = SubSeq(todo, 1, GroupLen),
         todo' = SubSeq(todo, GroupLen + 1, Len(todo))
  PROVE  /\ GroupLen \in 1..Len(todo)
         /\ group' \in Seq(Attempts) /\ group' # << >>
         /\ Len(group') = GroupLen /\ DOMAIN group' = 1..GroupLen
         /\ \A k \in 1..GroupLen : k \in DOMAIN todo /\ group'[k] = todo[k]
         /\ todo' \in Seq(Attempts) /\ Len(todo') = Len(todo) - GroupLen
         /\ DOMAIN todo' = 1..Len(todo) - GroupLen
         /\ \A k \in 1..Len(todo) - GroupLen :
              k + GroupLen \in DOMAIN todo /\ todo'[k] = todo[k + GroupLen]
<1>0. todo # << >> BY DEF Pick
<1>1. todo \in Seq(Attempts) BY DEF TypeOK
<1>2. GroupLen \in 1..Len(todo) BY <1>0, <1>1, SizeOfGroup
<1>4. /\ group' \in Seq(Attempts) /\ Len(group') = GroupLen /\ DOMAIN group' = 1..GroupLen
      /\ \A k \in 1..GroupLen : k \in DOMAIN todo /\ group'[k] = todo[k]
  <2>1. group' \in Seq(Attempts) BY <1>1, <1>2
  <2>2. Len(group') = GroupLen BY <1>1, <1>2
  <2>3. \A k \in 1..GroupLen : k \in DOMAIN todo /\ group'[k] = todo[k] BY <1>1, <1>2
  <2> QED BY <2>1, <2>2, <2>3
<1>5. /\ todo' \in Seq(Attempts) /\ Len(todo') = Len(todo) - GroupLen
      /\ DOMAIN todo' = 1..Len(todo) - GroupLen
      /\ \A k \in 1..Len(todo) - GroupLen :
           k + GroupLen \in DOMAIN todo /\ todo'[k] = todo[k + GroupLen]
  <2>1. todo' \in Seq(Attempts) BY <1>1, <1>2
  <2>2. Len(todo') = Len(todo) - GroupLen BY <1>1, <1>2
  <2>3. \A k \in 1..Len(todo) - GroupLen :
          k + GroupLen \in DOMAIN todo /\ todo'[k] = todo[k + GroupLen]
    BY <1>1, <1>2
  <2> QED BY <2>1, <2>2, <2>3
<1>6. group' # << >>
  <2>1. GroupLen >= 1 BY <1>1, <1>2
  <2>2. Len(group') # 0 BY <1>1, <1>2, <1>4, <2>1
  <2> QED BY <1>4, <2>2
<1> QED BY <1>2, <1>4, <1>5, <1>6

(***************************************************************************)
(* Types.                                                                  *)
(***************************************************************************)
Health == [up : BOOLEAN, pid : Nat, drops : Nat]
Told   == /\ falco \in Health /\ before \in Health
          /\ wire \subseteq Alerts /\ journal \subseteq Alerts /\ log \subseteq Alerts
Done   == /\ boxes \subseteq Attempts /\ alive \subseteq Attempts /\ hit \subseteq Attempts
          /\ impure \subseteq Attempts /\ started \subseteq Attempts /\ ran \subseteq Attempts
          /\ stray \subseteq Attempts /\ unsaid \subseteq Attempts /\ noted \subseteq Attempts
          /\ outcome \in [Attempts -> {"none", "running", "ok", "bad", "timeout"}]
Flags  == /\ frozen \in BOOLEAN /\ healthy \in BOOLEAN /\ reran \in BOOLEAN
          /\ faults \in 0..MaxFaults
          /\ driver \in Drivers /\ pc \in Pcs
          /\ raised \in {"none", "measurement", "timeout", "fatal"}
Lists  == /\ todo \in Seq(Attempts) /\ group \in Seq(Attempts) /\ i \in Nat \ {0}
          /\ filed \in Seq(Attempts) /\ rows \in Seq(Rows)
          /\ suite \in [valid : BOOLEAN, fired : BOOLEAN] /\ folders \subseteq Nat

(* The types, in four parts.                                               *)
LEMMA TypesMean == TypeOK <=> Told /\ Done /\ Flags /\ Lists
BY DEF TypeOK, Told, Done, Flags, Lists, Health, Rows

(* The member at hand is an attempt.                                       *)
LEMMA HereType ==
  ASSUME Lists, Placed, pc \in Inside
  PROVE  Here \in Attempts /\ Here \in Members /\ i \in 1..Len(group) /\ Len(group) \in Nat
BY DEF Lists, Placed, Here, Members

(* What the collector tells keeps its types.                               *)
LEMMA ToldStep ==
  ASSUME TypeOK, Placed, [Next]_vars PROVE Told'
<1>0. Told /\ (pc \in Inside => Here \in Attempts) /\ NoState \in Health
  BY HereType, TypesMean DEF NoState, Health
<1>1. CASE Pick
  BY <1>0, <1>1 DEF Told, Health, Alerts, Inside, Quiet, Active, Caused, Pick,
     collector, programs, containers, capture, queue, disk
<1>2. CASE Finish
  BY <1>0, <1>2 DEF Told, Health, Alerts, Inside, Quiet, Active, Caused, Finish,
     collector, programs, containers, capture, queue, disk
<1>3. CASE Check
  BY <1>0, <1>3 DEF Told, Health, Alerts, Inside, Quiet, Active, Caused, Check, Throw,
     Step, collector, programs, containers, capture, queue, disk
<1>4. CASE Setup
  <2>1. Restarted \in Health BY <1>0 DEF Restarted, Told, Health
  <2> QED
    BY <1>0, <1>4, <2>1 DEF Told, Setup, Throw, Abandon, Step, collector, programs, containers,
       capture, queue, disk
<1>5. CASE Settled
  BY <1>0, <1>5 DEF Told, Health, Alerts, Inside, Quiet, Active, Caused, Settled, Throw,
     Abandon, Step, collector, programs, containers, capture, queue, disk
<1>6. CASE Before
  BY <1>0, <1>6 DEF Told, Health, Alerts, Inside, Quiet, Active, Caused, Before, Throw,
     Abandon, Step, collector, programs, containers, capture, queue, disk
<1>7. CASE Cursor
  BY <1>0, <1>7 DEF Told, Health, Alerts, Inside, Quiet, Active, Caused, Cursor, Throw,
     Abandon, Step, collector, programs, containers, capture, queue, disk
<1>8. CASE Box
  BY <1>0, <1>8 DEF Told, Health, Alerts, Inside, Quiet, Active, Caused, Box, Throw,
     Step, collector, programs, containers, capture, queue, disk
<1>9. CASE BoxFails
  BY <1>0, <1>9 DEF Told, Health, Alerts, Inside, Quiet, Active, Caused, BoxFails,
     Throw, Step, NextMember, AfterMember, collector, programs, containers, capture, queue, disk
<1>10. CASE Native
  BY <1>0, <1>10 DEF Told, Health, Alerts, Inside, Quiet, Active, Caused, Native, Step,
     collector, programs, containers, capture, queue, disk
<1>11. CASE Return
  BY <1>0, <1>11 DEF Told, Health, Alerts, Inside, Quiet, Active, Caused, Return, Step,
     NextMember, AfterMember, collector, programs, containers, capture, queue, disk
<1>12. CASE Timeout
  BY <1>0, <1>12 DEF Told, Health, Alerts, Inside, Quiet, Active, Caused, Timeout,
     Throw, Step, NextMember, AfterMember, collector, programs, containers, capture, queue, disk
<1>13. CASE After
  BY <1>0, <1>13 DEF Told, Health, Alerts, Inside, Quiet, Active, Caused, After, Step,
     collector, programs, containers, capture, queue, disk
<1>14. CASE ReadLog
  BY <1>0, <1>14 DEF Told, Health, Alerts, Inside, Quiet, Active, Caused, ReadLog, Step,
     collector, programs, containers, capture, queue, disk
<1>15. CASE WriteFails
  BY <1>0, <1>15 DEF Told, Health, Alerts, Inside, Quiet, Active, Caused, WriteFails,
     Throw, collector, programs, containers, capture, queue, disk
<1>16. CASE Score
  BY <1>0, <1>16 DEF Told, Health, Alerts, Inside, Quiet, Active, Caused, Score, Throw,
     Step, NextMember, collector, programs, containers, capture, queue, disk
<1>17. CASE Cleanup
  BY <1>0, <1>17 DEF Told, Health, Alerts, Inside, Quiet, Active, Caused, Cleanup,
     collector, programs, containers, capture, queue, disk
<1>18. CASE FileCampaign
  BY <1>0, <1>18 DEF Told, Health, Alerts, Inside, Quiet, Active, Caused, FileCampaign,
     collector, programs, containers, capture, queue, disk
<1>19. CASE FileOther
  BY <1>0, <1>19 DEF Told, Health, Alerts, Inside, Quiet, Active, Caused, FileOther,
     collector, programs, containers, capture, queue, disk
<1>20. CASE Resume
  BY <1>0, <1>20 DEF Told, Health, Alerts, Inside, Quiet, Active, Caused, Resume,
     collector, programs, containers, capture, queue, disk
<1>21. CASE Fault
  <2>0. falco \in Health BY <1>0 DEF Told
  <2>1. [falco EXCEPT !.drops = falco.drops + 1] \in Health BY <2>0 DEF Health
  <2>3. [falco EXCEPT !.up = FALSE] \in Health BY <2>0 DEF Health
  <2>4. falco' \in Health BY <1>21, <2>0, <2>1, <2>3 DEF Fault
  <2>2. wire' \subseteq Alerts BY <1>0, <1>21 DEF Told, Fault
  <2> QED
    BY <1>0, <1>21, <2>2, <2>4 DEF Told, Fault, OneMoreFault, collector, programs,
       containers, capture, queue, disk
<1>22. CASE \E x \in wire : Deliver(x)
  BY <1>0, <1>22 DEF Told, Health, Alerts, Inside, Quiet, Active, Caused, Deliver,
     collector, programs, containers, capture, queue, disk
<1>23. CASE UNCHANGED vars
  BY <1>0, <1>23 DEF Told, Health, Alerts, Inside, Quiet, Active, Caused, vars,
     collector, programs, containers, capture, queue, disk
<1>24. CASE NotNoted
  BY <1>0, <1>24 DEF Told, Health, Alerts, Inside, Quiet, Active, Caused, NotNoted, OneMoreFault,
     Throw, Step, NextMember, AfterMember, collector, programs, containers, capture, queue, disk
<1> QED
  BY <1>1, <1>2, <1>3, <1>4, <1>5, <1>6, <1>7, <1>8, <1>9, <1>10, <1>11, <1>12,
     <1>13, <1>14, <1>15, <1>16, <1>17, <1>18, <1>19, <1>20, <1>21, <1>22, <1>23, <1>24 DEF
        Next, Drive

(* So does what was done with the programs.                                *)
LEMMA DoneStep ==
  ASSUME TypeOK, Placed, [Next]_vars PROVE Done'
<1>0. Done /\ (pc \in Inside => Here \in Attempts)
  BY HereType, TypesMean
<1>1. CASE Pick
  BY <1>0, <1>1 DEF Done, Inside, Quiet, Active, Pick, collector, programs, containers, capture,
     queue, disk
<1>2. CASE Finish
  BY <1>0, <1>2 DEF Done, Inside, Quiet, Active, Finish, collector, programs, containers, capture,
     queue, disk
<1>3. CASE Check
  BY <1>0, <1>3 DEF Done, Inside, Quiet, Active, Check, Throw, Step, collector,
     programs, containers, capture, queue, disk
<1>4. CASE Setup
  BY <1>0, <1>4 DEF Done, Inside, Quiet, Active, Setup, Throw, Abandon, Step, collector,
     programs, containers, capture, queue, disk
<1>5. CASE Settled
  BY <1>0, <1>5 DEF Done, Inside, Quiet, Active, Settled, Throw, Abandon, Step,
     collector, programs, containers, capture, queue, disk
<1>6. CASE Before
  BY <1>0, <1>6 DEF Done, Inside, Quiet, Active, Before, Throw, Abandon, Step,
     collector, programs, containers, capture, queue, disk
<1>7. CASE Cursor
  BY <1>0, <1>7 DEF Done, Inside, Quiet, Active, Cursor, Throw, Abandon, Step,
     collector, programs, containers, capture, queue, disk
<1>8. CASE Box
  BY <1>0, <1>8 DEF Done, Inside, Quiet, Active, Box, Throw, Step, collector, programs,
     containers, capture, queue, disk
<1>9. CASE BoxFails
  BY <1>0, <1>9 DEF Done, Inside, Quiet, Active, BoxFails, OneMoreFault, Throw, Step, NextMember,
     AfterMember, collector, programs, containers, capture, queue, disk
<1>10. CASE Native
  BY <1>0, <1>10 DEF Done, Inside, Quiet, Active, Native, Step, collector, programs, containers,
     capture, queue, disk
<1>11. CASE Return
  BY <1>0, <1>11 DEF Done, Inside, Quiet, Active, Return, Step, NextMember, AfterMember,
     collector, programs, containers, capture, queue, disk
<1>12. CASE Timeout
  BY <1>0, <1>12 DEF Done, Inside, Quiet, Active, Timeout, Throw, Step, NextMember,
     AfterMember, collector, programs, containers, capture, queue, disk
<1>13. CASE After
  BY <1>0, <1>13 DEF Done, Inside, Quiet, Active, After, Step, collector, programs, containers,
     capture, queue, disk
<1>14. CASE ReadLog
  BY <1>0, <1>14 DEF Done, Inside, Quiet, Active, ReadLog, Step, collector, programs, containers,
     capture, queue, disk
<1>15. CASE WriteFails
  BY <1>0, <1>15 DEF Done, Inside, Quiet, Active, WriteFails, Throw, collector,
     programs, containers, capture, queue, disk
<1>16. CASE Score
  BY <1>0, <1>16 DEF Done, Inside, Quiet, Active, Score, Throw, Step, NextMember,
     collector, programs, containers, capture, queue, disk
<1>17. CASE Cleanup
  <2>1. PICK left \in SUBSET Boxes :
          /\ boxes' = boxes \ (Boxes \ left) /\ alive' = alive \ (Boxes \ left)
          /\ unsaid' = unsaid \/ unsaid' = unsaid \cup left
    BY <1>17 DEF Cleanup, NoteFails
  <2>2. Boxes \subseteq boxes BY DEF Boxes
  <2>3. UNCHANGED <<outcome, stray, hit, impure, ran, started, noted>>
    BY <1>17 DEF Cleanup, capture
  <2> QED BY <1>0, <2>1, <2>2, <2>3 DEF Done
<1>18. CASE FileCampaign
  BY <1>0, <1>18 DEF Done, Inside, Quiet, Active, FileCampaign, collector, programs, containers,
     capture, queue, disk
<1>19. CASE FileOther
  BY <1>0, <1>19 DEF Done, Inside, Quiet, Active, FileOther, collector, programs, containers,
     capture, queue, disk
<1>20. CASE Resume
  BY <1>0, <1>20 DEF Done, Inside, Quiet, Active, Resume, collector, programs, containers,
     capture, queue, disk
<1>21. CASE Fault
  BY <1>0, <1>21 DEF Done, Inside, Quiet, Active, Fault, OneMoreFault, collector, programs,
     containers, capture, queue, disk
<1>22. CASE \E x \in wire : Deliver(x)
  BY <1>0, <1>22 DEF Done, Inside, Quiet, Active, Deliver, collector, programs, containers,
     capture, queue, disk
<1>23. CASE UNCHANGED vars
  BY <1>0, <1>23 DEF Done, Inside, Quiet, Active, vars, collector, programs, containers, capture,
     queue, disk
<1>24. CASE NotNoted
  BY <1>0, <1>24 DEF Done, Inside, Quiet, Active, NotNoted, OneMoreFault, Throw, Step, NextMember,
     AfterMember, collector, programs, containers, capture, queue, disk
<1> QED
  BY <1>1, <1>2, <1>3, <1>4, <1>5, <1>6, <1>7, <1>8, <1>9, <1>10, <1>11, <1>12,
     <1>13, <1>14, <1>15, <1>16, <1>17, <1>18, <1>19, <1>20, <1>21, <1>22, <1>23, <1>24 DEF
        Next, Drive

(* So do the switches, the counter and the place in the code.              *)
LEMMA FlagsStep ==
  ASSUME CaptureAssumption, TypeOK, [Next]_vars PROVE Flags'
<1>0. Flags /\ MaxFaults \in Nat
  BY TypesMean DEF CaptureAssumption
<1>1. CASE Pick
  BY <1>0, <1>1 DEF Flags, Pcs, Pick, collector, programs, containers, capture, queue, disk
<1>2. CASE Finish
  BY <1>0, <1>2 DEF Flags, Pcs, Finish, collector, programs, containers, capture, queue, disk
<1>3. CASE Check
  BY <1>0, <1>3 DEF Flags, Pcs, Check, Throw, Step, collector, programs, containers, capture,
     queue, disk
<1>4. CASE Setup
  BY <1>0, <1>4 DEF Flags, Pcs, Setup, Throw, Abandon, Step, collector, programs, containers,
     capture, queue, disk
<1>5. CASE Settled
  BY <1>0, <1>5 DEF Flags, Pcs, Settled, Throw, Abandon, Step, collector, programs, containers,
     capture, queue, disk
<1>6. CASE Before
  BY <1>0, <1>6 DEF Flags, Pcs, Before, Throw, Abandon, Step, collector, programs, containers,
     capture, queue, disk
<1>7. CASE Cursor
  BY <1>0, <1>7 DEF Flags, Pcs, Cursor, Throw, Abandon, Step, collector, programs, containers,
     capture, queue, disk
<1>8. CASE Box
  BY <1>0, <1>8 DEF Flags, Pcs, Box, Throw, Step, collector, programs, containers, capture, queue,
     disk
<1>9. CASE BoxFails
  BY <1>0, <1>9 DEF Flags, Pcs, BoxFails, OneMoreFault, Throw, Step, NextMember, AfterMember,
     collector, programs, containers, capture, queue, disk
<1>10. CASE Native
  BY <1>0, <1>10 DEF Flags, Pcs, Native, Step, collector, programs, containers, capture,
     queue, disk
<1>11. CASE Return
  BY <1>0, <1>11 DEF Flags, Pcs, Return, Step, NextMember, AfterMember, collector,
     programs, containers, capture, queue, disk
<1>12. CASE Timeout
  BY <1>0, <1>12 DEF Flags, Pcs, Timeout, Throw, Step, NextMember, AfterMember,
     collector, programs, containers, capture, queue, disk
<1>13. CASE After
  BY <1>0, <1>13 DEF Flags, Pcs, After, Step, HealthOk, collector, programs, containers, capture,
     queue, disk
<1>14. CASE ReadLog
  BY <1>0, <1>14 DEF Flags, Pcs, ReadLog, Step, collector, programs, containers, capture, queue,
     disk
<1>15. CASE WriteFails
  BY <1>0, <1>15 DEF Flags, Pcs, WriteFails, Throw, collector, programs, containers, capture,
     queue, disk
<1>16. CASE Score
  BY <1>0, <1>16 DEF Flags, Pcs, Score, Throw, Step, NextMember, collector, programs, containers,
     capture, queue, disk
<1>17. CASE Cleanup
  BY <1>0, <1>17 DEF Flags, Pcs, Cleanup, NoteFails, OneMoreFault, CleanupFailed, collector,
     programs, containers, capture, queue, disk
<1>18. CASE FileCampaign
  BY <1>0, <1>18 DEF Flags, Pcs, FileCampaign, collector, programs, containers, capture,
     queue, disk
<1>19. CASE FileOther
  BY <1>0, <1>19 DEF Flags, Pcs, FileOther, collector, programs, containers, capture, queue, disk
<1>20. CASE Resume
  BY <1>0, <1>20 DEF Flags, Pcs, Resume, collector, programs, containers, capture, queue, disk
<1>21. CASE Fault
  <2>1. faults' \in 0..MaxFaults BY <1>0, <1>21 DEF Flags, Fault, OneMoreFault
  <2>2. frozen' \in BOOLEAN /\ pc' \in Pcs BY <1>0, <1>21 DEF Flags, Fault, OneMoreFault, Pcs
  <2> QED
    BY <1>0, <1>21, <2>1, <2>2 DEF Flags, Fault, OneMoreFault, collector, programs,
       containers, capture, queue, disk
<1>22. CASE \E x \in wire : Deliver(x)
  BY <1>0, <1>22 DEF Flags, Pcs, Deliver, collector, programs, containers, capture, queue, disk
<1>23. CASE UNCHANGED vars
  BY <1>0, <1>23 DEF Flags, Pcs, vars, collector, programs, containers, capture, queue, disk
<1>24. CASE NotNoted
  BY <1>0, <1>24 DEF Flags, Pcs, NotNoted, OneMoreFault, Throw, Step, NextMember, AfterMember,
     collector, programs, containers, capture, queue, disk
<1> QED
  BY <1>1, <1>2, <1>3, <1>4, <1>5, <1>6, <1>7, <1>8, <1>9, <1>10, <1>11, <1>12,
     <1>13, <1>14, <1>15, <1>16, <1>17, <1>18, <1>19, <1>20, <1>21, <1>22, <1>23, <1>24 DEF
        Next, Drive

(* What a campaign files.                                                  *)
LEMMA VerdictsType ==
  ASSUME TypeOK PROVE Verdicts \in Seq(Rows)
<1>1. group \in Seq(Attempts) BY DEF TypeOK
<1>2. \A k \in 1..Len(group) : Row(group[k], StatusOf(group[k])) \in Rows
  <2>1. \A k \in 1..Len(group) : group[k] \in Attempts BY <1>1
  <2> QED BY <2>1, RowType
<1>3. DOMAIN group = 1..Len(group) /\ Len(group) \in Nat BY <1>1
<1> QED BY <1>2, <1>3 DEF Verdicts

(* So do the queue, the group and the rows.                                *)
LEMMA ListsStep ==
  ASSUME CaptureAssumption, TypeOK, Placed, [Next]_vars PROVE Lists'
<1>0. Lists /\ (pc \in Inside => Here \in Attempts)
  BY HereType, TypesMean
<1>1. CASE Pick
  <2>1. CASE UNCHANGED <<queue, folders>>
    BY <1>0, <1>1, <2>1 DEF Lists, Pick, queue
  <2>2. CASE /\ group' = SubSeq(todo, 1, GroupLen)
             /\ todo' = SubSeq(todo, GroupLen + 1, Len(todo))
             /\ folders' = IF driver = "pilot" THEN folders \cup {Offset} ELSE folders
    <3>1. group' \in Seq(Attempts) /\ todo' \in Seq(Attempts) BY <1>1, <2>2, Picked
    <3>2. folders' \subseteq Nat
      <4>1. Offset \in Nat BY <1>0 DEF Lists, Offset
      <4> QED BY <1>0, <2>2, <4>1 DEF Lists
    <3> QED BY <1>0, <1>1, <3>1, <3>2 DEF Lists, Pick
  <2> QED BY <1>1, <2>1, <2>2 DEF Pick
<1>2. CASE Finish
  BY <1>0, <1>2 DEF Lists, Finish, collector, programs, containers, capture, queue, disk
<1>3. CASE Check
  BY <1>0, <1>3 DEF Lists, Check, Throw, Step, collector, programs, containers, capture,
     queue, disk
<1>4. CASE Setup
  BY <1>0, <1>4 DEF Lists, Setup, Throw, Abandon, Step, collector, programs, containers, capture,
     queue, disk
<1>5. CASE Settled
  BY <1>0, <1>5 DEF Lists, Settled, Throw, Abandon, Step, collector, programs, containers,
     capture, queue, disk
<1>6. CASE Before
  BY <1>0, <1>6 DEF Lists, Before, Throw, Abandon, Step, collector, programs, containers, capture,
     queue, disk
<1>7. CASE Cursor
  BY <1>0, <1>7 DEF Lists, Cursor, Throw, Abandon, Step, collector, programs, containers, capture,
     queue, disk
<1>8. CASE Box
  BY <1>0, <1>8 DEF Lists, Box, Throw, Step, collector, programs, containers, capture, queue, disk
<1>9. CASE BoxFails
  <2>1. i' \in Nat \ {0} BY <1>0, <1>9 DEF Lists, BoxFails, OneMoreFault, Throw, Step, NextMember
  <2>2. UNCHANGED <<queue, disk>> BY <1>9 DEF BoxFails, OneMoreFault, Throw, Step
  <2> QED BY <1>0, <2>1, <2>2 DEF Lists, queue, disk
<1>10. CASE Native
  BY <1>0, <1>10 DEF Lists, Native, Step, collector, programs, containers, capture, queue, disk
<1>11. CASE Return
  BY <1>0, <1>11 DEF Lists, Return, Step, NextMember, AfterMember, collector, programs,
     containers, capture, queue, disk
<1>12. CASE Timeout
  <2>1. i' \in Nat \ {0} BY <1>0, <1>12 DEF Lists, Timeout, Throw, Step, NextMember
  <2>2. UNCHANGED <<queue, disk>> BY <1>12 DEF Timeout, Throw, Step
  <2> QED BY <1>0, <2>1, <2>2 DEF Lists, queue, disk
<1>13. CASE After
  BY <1>0, <1>13 DEF Lists, After, Step, collector, programs, containers, capture, queue, disk
<1>14. CASE ReadLog
  BY <1>0, <1>14 DEF Lists, ReadLog, Step, collector, programs, containers, capture, queue, disk
<1>15. CASE WriteFails
  BY <1>0, <1>15 DEF Lists, WriteFails, Throw, collector, programs, containers, capture,
     queue, disk
<1>16. CASE Score
  <2>1. i' \in Nat \ {0} BY <1>0, <1>16 DEF Lists, Score, Throw, Step, NextMember
  <2>2. CASE UNCHANGED disk
    BY <1>0, <1>16, <2>1, <2>2 DEF Lists, Score, Throw, Step, queue, disk
  <2>3. CASE File(<<Row(Here, Class(Here))>>) /\ UNCHANGED queue
    <3>0. pc \in Inside BY <1>16 DEF Score, Inside, Active
    <3>1. <<Row(Here, Class(Here))>> \in Seq(Rows) BY <1>0, <3>0, RowType
    <3>2. folders' = folders BY <2>3 DEF File
    <3> QED BY <1>0, <2>1, <2>3, <3>1, <3>2, FileType DEF Lists, queue
  <2> QED BY <1>16, <2>2, <2>3 DEF Score, Throw, Step
<1>17. CASE Cleanup
  BY <1>0, <1>17 DEF Lists, Cleanup, NoteFails, OneMoreFault, collector, programs,
     containers, capture, queue, disk
<1>18. CASE FileCampaign
  <2>0. pc \in Inside BY <1>18 DEF FileCampaign, Inside
  <2> DEFINE new == IF ChangedSince THEN <<Row(Here, "fatal")>> ELSE Verdicts
  <2>1. new \in Seq(Rows)
    <3>1. <<Row(Here, "fatal")>> \in Seq(Rows) BY <1>0, <2>0, RowType DEF Statuses
    <3> QED BY <3>1, VerdictsType
  <2> HIDE DEF new
  <2>2. /\ File(new) /\ UNCHANGED <<group, i>>
        /\ todo' = todo \/ todo' = Replacements(new) \o todo
    BY <1>18 DEF FileCampaign, new
  <2>3. todo' \in Seq(Attempts)
    <3>1. Replacements(new) \in Seq(Later) BY <2>1, ReplacementsType
    <3>2. Replacements(new) \in Seq(Attempts) BY <3>1, SeqMonotonic DEF Later
    <3>3. Replacements(new) \o todo \in Seq(Attempts) BY <1>0, <3>2 DEF Lists
    <3> QED BY <1>0, <2>2, <3>3 DEF Lists
  <2>4. folders' = folders BY <2>2 DEF File
  <2> QED BY <1>0, <2>1, <2>2, <2>3, <2>4, FileType DEF Lists
<1>19. CASE FileOther
  <2>0. pc \in Inside BY <1>19 DEF FileOther, Inside
  <2>1. CASE UNCHANGED disk BY <1>0, <1>19, <2>1 DEF Lists, FileOther, queue, disk
  <2>2. CASE ~UNCHANGED disk
    <3> DEFINE row == Row(Here, IF raised = "none" THEN Class(Here) ELSE
       "behavior-failure")
    <3>1. <<row>> \in Seq(Rows)
      <4>1. row \in Rows BY <1>0, <2>0, RowType DEF Statuses
      <4> QED BY <4>1
    <3> HIDE DEF row
    <3>2. File(<<row>>) BY <1>19, <2>2 DEF FileOther, row
    <3>3. folders' = folders BY <3>2 DEF File
    <3> QED BY <1>0, <1>19, <3>1, <3>2, <3>3, FileType DEF Lists, FileOther, queue
  <2> QED BY <2>1, <2>2
<1>20. CASE Resume
  <2>1. todo' \in Seq(Attempts)
    <3>1. CASE UNCHANGED todo BY <1>0, <3>1 DEF Lists
    <3>2. CASE Resumable /\ todo' = SubSeq(Plan, Offset + 1, Planned)
      <4>1. Offset \in Nat BY <1>0 DEF Offset, Lists
      <4> QED BY <3>2, <4>1, PlanType DEF Resumable
    <3> QED BY <1>20, <3>1, <3>2 DEF Resume
  <2> QED BY <1>0, <1>20, <2>1 DEF Lists, Resume, disk
<1>21. CASE Fault
  BY <1>0, <1>21 DEF Lists, Fault, OneMoreFault, collector, programs, containers, capture,
     queue, disk
<1>22. CASE \E x \in wire : Deliver(x)
  BY <1>0, <1>22 DEF Lists, Deliver, collector, programs, containers, capture, queue, disk
<1>23. CASE UNCHANGED vars
  BY <1>0, <1>23 DEF Lists, vars, collector, programs, containers, capture, queue, disk
<1>24. CASE NotNoted
  <2>1. i' \in Nat \ {0} BY <1>0, <1>24 DEF Lists, NotNoted, OneMoreFault, Throw, Step, NextMember
  <2>2. UNCHANGED <<queue, disk>> BY <1>24 DEF NotNoted, OneMoreFault, Throw, Step
  <2> QED BY <1>0, <2>1, <2>2 DEF Lists, queue, disk
<1> QED
  BY <1>1, <1>2, <1>3, <1>4, <1>5, <1>6, <1>7, <1>8, <1>9, <1>10, <1>11, <1>12,
     <1>13, <1>14, <1>15, <1>16, <1>17, <1>18, <1>19, <1>20, <1>21, <1>22, <1>23, <1>24 DEF
        Next, Drive

(* Types hold after every step.                                            *)
LEMMA TypesStep ==
  ASSUME CaptureAssumption, TypeOK, Placed, [Next]_vars PROVE TypeOK'
<1>1. Told' /\ Done' /\ Flags' /\ Lists' BY ToldStep, DoneStep, FlagsStep, ListsStep
<1>2. {wire', journal', log'} \subseteq SUBSET Alerts BY <1>1 DEF Told
<1>3. {boxes', stray', unsaid', alive', hit', impure', started', noted', ran'}
        \subseteq SUBSET Attempts
  BY <1>1 DEF Done
<1>4. {frozen', healthy', reran'} \subseteq BOOLEAN BY <1>1 DEF Flags
<1> QED BY <1>1, <1>2, <1>3, <1>4 DEF TypeOK, Told, Done, Flags, Lists, Health, Rows

(* Where the loop over the group stands after every step.                  *)
LEMMA PlacedStep ==
  ASSUME CaptureAssumption, TypeOK, Placed, [Next]_vars PROVE Placed'
<1>0. /\ Placed /\ group \in Seq(Attempts) /\ i \in Nat \ {0}
      /\ Len(group) \in Nat /\ DOMAIN group = 1..Len(group)
  BY DEF TypeOK
<1>1. CASE Pick
  <2>1. CASE UNCHANGED <<queue, folders>> /\ pc' = "refused"
    <3>1. group' # << >> => 1 \in DOMAIN group' BY <1>0, <2>1 DEF queue
    <3> QED BY <1>0, <1>1, <2>1, <3>1 DEF Pick, queue, Placed, Quiet, Active, Inside
  <2>2. CASE /\ group' = SubSeq(todo, 1, GroupLen)
             /\ todo' = SubSeq(todo, GroupLen + 1, Len(todo))
             /\ pc' = IF driver = "qualify" THEN "box" ELSE "check"
    <3>0. GroupLen \in 1..Len(todo) /\ Len(todo) \in Nat BY <1>1, <2>2, Picked DEF TypeOK
    <3>1. /\ group' # << >> /\ 1 \in DOMAIN group' /\ Len(group') = GroupLen
          /\ DOMAIN group' = 1..GroupLen
          /\ \A k \in 1..GroupLen : group'[k] = todo[k]
      <4>1. DOMAIN group' = 1..GroupLen /\ Len(group') = GroupLen /\ group' # << >>
        BY <1>1, <2>2, Picked
      <4>2. \A k \in 1..GroupLen : group'[k] = todo[k] BY <1>1, <2>2, Picked
      <4>3. 1 \in 1..GroupLen BY <3>0
      <4> QED BY <4>1, <4>2, <4>3
    <3>2. MayShare(GroupLen) BY <1>1, SizeOfGroup DEF Pick, TypeOK
    <3>3. driver' = driver /\ raised' = "none" /\ i' = 1 BY <1>1 DEF Pick
    <3>4. GroupLen > 1 => driver \in {"batch", "pilot"} /\ \A k \in DOMAIN group' : group'[k][2] = 1
      BY <3>1, <3>2 DEF MayShare
    <3> QED BY <2>2, <3>1, <3>3, <3>4 DEF Placed, Quiet, Active, Inside
  <2> QED BY <1>1, <2>1, <2>2 DEF Pick
<1>2. CASE Finish
  BY <1>0, <1>2 DEF Placed, Quiet, Active, Inside, Finish, collector, programs, containers,
     capture, queue, disk
<1>3. CASE Check
  BY <1>0, <1>3 DEF Placed, Quiet, Active, Inside, Check, Throw, Step, collector, programs,
     containers, capture, queue, disk
<1>4. CASE Setup
  BY <1>0, <1>4 DEF Placed, Quiet, Active, Inside, Setup, Throw, Abandon, Step, collector,
     programs, containers, capture, queue, disk
<1>5. CASE Settled
  BY <1>0, <1>5 DEF Placed, Quiet, Active, Inside, Settled, Throw, Abandon, Step, collector,
     programs, containers, capture, queue, disk
<1>6. CASE Before
  BY <1>0, <1>6 DEF Placed, Quiet, Active, Inside, Before, Throw, Abandon, Step, collector,
     programs, containers, capture, queue, disk
<1>7. CASE Cursor
  BY <1>0, <1>7 DEF Placed, Quiet, Active, Inside, Cursor, Throw, Abandon, Step, Shared,
     collector, programs, containers, capture, queue, disk
<1>8. CASE Box
  BY <1>0, <1>8 DEF Placed, Quiet, Active, Inside, Box, Throw, Step, Shared, collector,
     programs, containers, capture, queue, disk
<1>9. CASE BoxFails
  BY <1>0, <1>9 DEF Placed, Quiet, Active, Inside, BoxFails, OneMoreFault, Throw, Step,
     NextMember, AfterMember, collector, programs, containers, capture, queue, disk
<1>10. CASE Native
  BY <1>0, <1>10 DEF Placed, Quiet, Active, Inside, Native, Step, collector, programs,
     containers, capture, queue, disk
<1>11. CASE Return
  BY <1>0, <1>11 DEF Placed, Quiet, Active, Inside, Return, Step, NextMember, AfterMember,
     collector, programs, containers, capture, queue, disk
<1>12. CASE Timeout
  BY <1>0, <1>12 DEF Placed, Quiet, Active, Inside, Timeout, Throw, Step, NextMember,
     AfterMember, collector, programs, containers, capture, queue, disk
<1>13. CASE After
  BY <1>0, <1>13 DEF Placed, Quiet, Active, Inside, After, Step, collector, programs,
     containers, capture, queue, disk
<1>14. CASE ReadLog
  BY <1>0, <1>14 DEF Placed, Quiet, Active, Inside, ReadLog, Step, collector, programs,
     containers, capture, queue, disk
<1>15. CASE WriteFails
  BY <1>0, <1>15 DEF Placed, Quiet, Active, Inside, WriteFails, Throw, collector, programs,
     containers, capture, queue, disk
<1>16. CASE Score
  BY <1>0, <1>16 DEF Placed, Quiet, Active, Inside, Score, Throw, Step, NextMember, collector,
     programs, containers, capture, queue, disk
<1>17. CASE Cleanup
  BY <1>0, <1>17 DEF Placed, Quiet, Active, Inside, Cleanup, NoteFails, OneMoreFault,
     collector, programs, containers, capture, queue, disk
<1>18. CASE FileCampaign
  BY <1>0, <1>18 DEF Placed, Quiet, Active, Inside, FileCampaign, collector, programs,
     containers, capture, queue, disk
<1>19. CASE FileOther
  BY <1>0, <1>19 DEF Placed, Quiet, Active, Inside, FileOther, collector, programs,
     containers, capture, queue, disk
<1>20. CASE Resume
  BY <1>0, <1>20 DEF Placed, Quiet, Active, Inside, Resume, collector, programs, containers,
     capture, queue, disk
<1>21. CASE Fault
  BY <1>0, <1>21 DEF Placed, Quiet, Active, Inside, Fault, OneMoreFault, collector, programs,
     containers, capture, queue, disk
<1>22. CASE \E x \in wire : Deliver(x)
  BY <1>0, <1>22 DEF Placed, Quiet, Active, Inside, Deliver, collector, programs, containers,
     capture, queue, disk
<1>23. CASE UNCHANGED vars
  BY <1>0, <1>23 DEF Placed, Quiet, Active, Inside, vars, collector, programs, containers,
     capture, queue, disk
<1>24. CASE NotNoted
  BY <1>0, <1>24 DEF Placed, Quiet, Active, Inside, NotNoted, OneMoreFault, Throw, Step,
     NextMember, AfterMember, collector, programs, containers, capture, queue, disk
<1> QED
  BY <1>1, <1>2, <1>3, <1>4, <1>5, <1>6, <1>7, <1>8, <1>9, <1>10, <1>11, <1>12,
     <1>13, <1>14, <1>15, <1>16, <1>17, <1>18, <1>19, <1>20, <1>21, <1>22, <1>23, <1>24
  DEF Next, Drive

(* How far a capture is, after every step.                                 *)
LEMMA ProgressStep ==
  ASSUME TypeOK, Placed, Placed', Progress, [Next]_vars PROVE Progress'
<1>0. /\ Progress /\ (pc \in Quiet \cup Active => raised = "none")
      /\ outcome \in [Attempts -> {"none", "running", "ok", "bad", "timeout"}]
      /\ (pc \in Inside => i \in 1..Len(group) /\ Here \in Attempts) /\ Len(group) \in Nat
  BY HereType, TypesMean DEF Placed, Done, Lists
<1>1. CASE Pick
  BY <1>0, <1>1 DEF Progress, Unrun, Shared, Quiet, Active, Inside, Pick, queue, collector,
     programs, containers, capture, queue, disk
<1>2. CASE Finish
  BY <1>0, <1>2 DEF Progress, Unrun, Shared, Quiet, Active, Inside, Finish, Here, collector,
     programs, containers, capture, queue, disk
<1>3. CASE Check
  BY <1>0, <1>3 DEF Progress, Unrun, Shared, Quiet, Active, Inside, Check, Throw, Step,
     collector, programs, containers, capture, queue, disk
<1>4. CASE Setup
  BY <1>0, <1>4 DEF Progress, Unrun, Shared, Quiet, Active, Inside, Setup, Throw, Abandon, Step,
     Campaign, collector, programs, containers, capture, queue, disk
<1>5. CASE Settled
  BY <1>0, <1>5 DEF Progress, Unrun, Shared, Quiet, Active, Inside, Settled, Throw, Abandon,
     Step, collector, programs, containers, capture, queue, disk
<1>6. CASE Before
  BY <1>0, <1>6 DEF Progress, Unrun, Shared, Quiet, Active, Inside, Before, Throw, Abandon,
     Step, collector, programs, containers, capture, queue, disk
<1>7. CASE Cursor
  BY <1>0, <1>7 DEF Progress, Unrun, Shared, Quiet, Active, Inside, Cursor, Throw, Abandon,
     Step, collector, programs, containers, capture, queue, disk
<1>8. CASE Box
  BY <1>0, <1>8 DEF Progress, Unrun, Shared, Quiet, Active, Inside, Box, Throw, Step, collector,
     programs, containers, capture, queue, disk
<1>9. CASE BoxFails
  BY <1>0, <1>9 DEF Progress, Unrun, Shared, Quiet, Active, Inside, BoxFails, OneMoreFault,
     Throw, Step, NextMember, AfterMember, collector, programs, containers, capture, queue,
     disk
<1>10. CASE Native
  BY <1>0, <1>10 DEF Progress, Unrun, Shared, Quiet, Active, Inside, Native, Step, Here,
     collector, programs, containers, capture, queue, disk
<1>11. CASE Return
  <2>1. PICK o \in {"ok", "bad", "timeout"} : outcome' = [outcome EXCEPT ![Here] = o]
    BY <1>11 DEF Return
  <2>2. \A a \in Attempts : outcome'[a] = IF a = Here THEN o ELSE outcome[a]
    BY <1>0, <2>1
  <2>3. pc = "wait" /\ pc \in Inside /\ rows' = rows
    BY <1>11 DEF Return, Throw, Step, disk, Inside, Active
  <2>4. /\ pc' \in {"box", "drain", "cleanup"}
        /\ pc' = "box" => Shared
        /\ pc' = "drain" => o # "timeout" \/ Shared
        /\ (pc' = "cleanup" => raised' = "timeout")
    BY <1>0, <1>11, <2>1, <2>3 DEF Return, Throw, Step, AfterMember, Shared
  <2>5. started' = started /\ noted' = noted \cup {Here} /\ UNCHANGED <<driver, group>>
    BY <1>11 DEF Return, Throw, capture, queue
  <2> QED BY <1>0, <2>1, <2>2, <2>3, <2>4, <2>5 DEF Progress, Shared, Quiet, Active, Inside
<1>12. CASE Timeout
  <2>1. PICK o \in {"ok", "bad", "timeout"} : outcome' = [outcome EXCEPT ![Here] = o]
    BY <1>12 DEF Timeout
  <2>2. \A a \in Attempts : outcome'[a] = IF a = Here THEN o ELSE outcome[a]
    BY <1>0, <2>1
  <2>3. pc = "wait" /\ pc \in Inside /\ rows' = rows
    BY <1>12 DEF Timeout, Throw, Step, disk, Inside, Active
  <2>4. /\ pc' \in {"box", "drain", "cleanup"}
        /\ pc' = "box" => Shared
        /\ pc' = "drain" => o # "timeout" \/ Shared
        /\ (pc' = "cleanup" => raised' = "timeout")
    BY <1>0, <1>12, <2>1, <2>3 DEF Timeout, Throw, Step, AfterMember, Shared
  <2>5. started' = started /\ noted' = noted \cup {Here} /\ UNCHANGED <<driver, group>>
    BY <1>12 DEF Timeout, Throw, capture, queue
  <2> QED BY <1>0, <2>1, <2>2, <2>3, <2>4, <2>5 DEF Progress, Shared, Quiet, Active, Inside
<1>13. CASE After
  BY <1>0, <1>13 DEF Progress, Unrun, Shared, Quiet, Active, Inside, After, Step, collector,
     programs, containers, capture, queue, disk
<1>14. CASE ReadLog
  BY <1>0, <1>14 DEF Progress, Unrun, Shared, Quiet, Active, Inside, ReadLog, Step, collector,
     programs, containers, capture, queue, disk
<1>15. CASE WriteFails
  BY <1>0, <1>15 DEF Progress, Unrun, Shared, Quiet, Active, Inside, WriteFails, Throw,
     collector, programs, containers, capture, queue, disk
<1>16. CASE Score
  BY <1>0, <1>16 DEF Progress, Unrun, Shared, Quiet, Active, Inside, Score, Throw, Step,
     NextMember, File, collector, programs, containers, capture, queue, disk
<1>17. CASE Cleanup
  BY <1>0, <1>17 DEF Progress, Unrun, Shared, Quiet, Active, Inside, Cleanup, NoteFails,
     OneMoreFault, CleanupFailed, collector, programs, containers, capture, queue, disk
<1>18. CASE FileCampaign
  BY <1>0, <1>18 DEF Progress, Unrun, Shared, Quiet, Active, Inside, FileCampaign, File,
     collector, programs, containers, capture, queue, disk
<1>19. CASE FileOther
  BY <1>0, <1>19 DEF Progress, Unrun, Shared, Quiet, Active, Inside, FileOther, File, collector,
     programs, containers, capture, queue, disk
<1>20. CASE Resume
  BY <1>0, <1>20 DEF Progress, Unrun, Shared, Quiet, Active, Inside, Resume, collector,
     programs, containers, capture, queue, disk
<1>21. CASE Fault
  BY <1>0, <1>21 DEF Progress, Unrun, Shared, Quiet, Active, Inside, Fault, OneMoreFault,
     Here, collector, programs, containers, capture, queue, disk
<1>22. CASE \E x \in wire : Deliver(x)
  BY <1>0, <1>22 DEF Progress, Unrun, Shared, Quiet, Active, Inside, Deliver, Here, collector,
     programs, containers, capture, queue, disk
<1>23. CASE UNCHANGED vars
  BY <1>0, <1>23 DEF Progress, Unrun, Shared, Quiet, Active, Inside, vars, Here, collector,
     programs, containers, capture, queue, disk
<1>24. CASE NotNoted
  <2>1. PICK o \in {"ok", "bad", "timeout"} : outcome' = [outcome EXCEPT ![Here] = o]
    BY <1>24 DEF NotNoted
  <2>2. \A a \in Attempts : outcome'[a] = IF a = Here THEN o ELSE outcome[a]
    BY <1>0, <2>1
  <2>3. pc = "wait" /\ pc \in Inside /\ rows' = rows
    BY <1>24 DEF NotNoted, OneMoreFault, Throw, Step, disk, Inside, Active
  <2>4. /\ pc' \in {"box", "drain", "cleanup"}
        /\ pc' = "box" => Shared
        /\ pc' = "cleanup" => raised' # "none" /\ (Shared => raised' = "fatal")
        /\ driver # "pilot" => raised' # "none"
    BY <1>0, <1>24, <2>3 DEF NotNoted, Throw, Step, AfterMember, Shared
  <2>5. started' = started /\ UNCHANGED <<driver, group>>
    BY <1>24 DEF NotNoted, OneMoreFault, Throw, capture, queue
  <2> QED BY <1>0, <2>1, <2>2, <2>3, <2>4, <2>5 DEF Progress, Shared, Quiet, Active, Inside
<1> QED
  BY <1>1, <1>2, <1>3, <1>4, <1>5, <1>6, <1>7, <1>8, <1>9, <1>10, <1>11, <1>12,
     <1>13, <1>14, <1>15, <1>16, <1>17, <1>18, <1>19, <1>20, <1>21, <1>22, <1>23, <1>24
  DEF Next, Drive

(* When a changed file has been run, after every step.                     *)
LEMMA PurityStep ==
  ASSUME Purity, Placed, Placed', [Next]_vars PROVE Purity'
<1>0. Purity /\ (pc \in Quiet \cup Active => raised = "none")
  BY DEF Placed
<1>1. CASE Pick
  BY <1>0, <1>1 DEF Purity, Shared, Campaign, Pick, collector, programs, containers, capture,
     queue, disk
<1>2. CASE Finish
  BY <1>0, <1>2 DEF Purity, Shared, Campaign, Finish, collector, programs, containers,
     capture, queue, disk
<1>3. CASE Check
  BY <1>0, <1>3 DEF Purity, Shared, Campaign, Check, Throw, Step, collector, programs,
     containers, capture, queue, disk
<1>4. CASE Setup
  BY <1>0, <1>4 DEF Purity, Shared, Campaign, Setup, Throw, Abandon, Step, collector,
     programs, containers, capture, queue, disk
<1>5. CASE Settled
  BY <1>0, <1>5 DEF Purity, Shared, Campaign, Settled, Throw, Abandon, Step, collector,
     programs, containers, capture, queue, disk
<1>6. CASE Before
  BY <1>0, <1>6 DEF Purity, Shared, Campaign, Before, Throw, Abandon, Step, collector,
     programs, containers, capture, queue, disk
<1>7. CASE Cursor
  BY <1>0, <1>7 DEF Purity, Shared, Campaign, Cursor, Throw, Abandon, Step, collector,
     programs, containers, capture, queue, disk
<1>8. CASE Box
  BY <1>0, <1>8 DEF Purity, Shared, Campaign, Box, Throw, Step, Verified, collector,
     programs, containers, capture, queue, disk
<1>9. CASE BoxFails
  BY <1>0, <1>9 DEF Purity, Shared, Campaign, BoxFails, OneMoreFault, Throw, Step,
     NextMember, AfterMember, Verified, collector, programs, containers, capture, queue, disk
<1>10. CASE Native
  BY <1>0, <1>10 DEF Purity, Shared, Campaign, Native, Step, collector, programs, containers,
     capture, queue, disk
<1>11. CASE Return
  BY <1>0, <1>11 DEF Purity, Shared, Campaign, Return, Step, NextMember, AfterMember, Return,
     collector, programs, containers, capture, queue, disk
<1>12. CASE Timeout
  BY <1>0, <1>12 DEF Purity, Shared, Campaign, Timeout, Throw, Step, NextMember, AfterMember,
     collector, programs, containers, capture, queue, disk
<1>13. CASE After
  BY <1>0, <1>13 DEF Purity, Shared, Campaign, After, Step, collector, programs, containers,
     capture, queue, disk
<1>14. CASE ReadLog
  BY <1>0, <1>14 DEF Purity, Shared, Campaign, ReadLog, Step, collector, programs,
     containers, capture, queue, disk
<1>15. CASE WriteFails
  BY <1>0, <1>15 DEF Purity, Shared, Campaign, WriteFails, Throw, collector, programs,
     containers, capture, queue, disk
<1>16. CASE Score
  BY <1>0, <1>16 DEF Purity, Shared, Campaign, Score, Throw, Step, NextMember, Verified,
     collector, programs, containers, capture, queue, disk
<1>17. CASE Cleanup
  BY <1>0, <1>17 DEF Purity, Shared, Campaign, Cleanup, NoteFails, OneMoreFault,
     CleanupFailed, collector, programs, containers, capture, queue, disk
<1>18. CASE FileCampaign
  BY <1>0, <1>18 DEF Purity, Shared, Campaign, FileCampaign, collector, programs, containers,
     capture, queue, disk
<1>19. CASE FileOther
  BY <1>0, <1>19 DEF Purity, Shared, Campaign, FileOther, collector, programs, containers,
     capture, queue, disk
<1>20. CASE Resume
  BY <1>0, <1>20 DEF Purity, Shared, Campaign, Resume, collector, programs, containers,
     capture, queue, disk
<1>21. CASE Fault
  BY <1>0, <1>21 DEF Purity, Shared, Campaign, Fault, OneMoreFault, collector, programs,
     containers, capture, queue, disk
<1>22. CASE \E x \in wire : Deliver(x)
  BY <1>0, <1>22 DEF Purity, Shared, Campaign, Deliver, collector, programs, containers,
     capture, queue, disk
<1>23. CASE UNCHANGED vars
  BY <1>0, <1>23 DEF Purity, Shared, Campaign, vars, collector, programs, containers,
     capture, queue, disk
<1>24. CASE NotNoted
  BY <1>0, <1>24 DEF Purity, Shared, Campaign, NotNoted, OneMoreFault, Throw, Step,
     NextMember, AfterMember, collector, programs, containers, capture, queue, disk
<1> QED
  BY <1>1, <1>2, <1>3, <1>4, <1>5, <1>6, <1>7, <1>8, <1>9, <1>10, <1>11, <1>12,
     <1>13, <1>14, <1>15, <1>16, <1>17, <1>18, <1>19, <1>20, <1>21, <1>22, <1>23, <1>24
  DEF Next, Drive

(* Which containers and programs there are, after every step.              *)
LEMMA TidyStep ==
  ASSUME TypeOK, Placed, Placed', Tidy, [Next]_vars PROVE Tidy'
<1>0. /\ Tidy /\ (pc \in Quiet \cup Active => raised = "none")
      /\ (pc = "down" => driver = "pilot")
      /\ (pc \in Inside => Here \in Members /\ i \in 1..Len(group) /\ Len(group) \in Nat)
  BY HereType, TypesMean DEF Placed
<1>1. CASE Pick
  BY <1>0, <1>1 DEF Tidy, Shared, Campaign, Quiet, Active, Inside, Pick, collector, programs,
     containers, capture, queue, disk
<1>2. CASE Finish
  BY <1>0, <1>2 DEF Tidy, Shared, Campaign, Quiet, Active, Inside, Finish, collector,
     programs, containers, capture, queue, disk
<1>3. CASE Check
  BY <1>0, <1>3 DEF Tidy, Shared, Campaign, Quiet, Active, Inside, Check, Throw, Step, Members,
     Here, collector, programs, containers, capture, queue, disk
<1>4. CASE Setup
  BY <1>0, <1>4 DEF Tidy, Shared, Campaign, Quiet, Active, Inside, Setup, Throw, Abandon, Step,
     Members, Here, collector, programs, containers, capture, queue, disk
<1>5. CASE Settled
  BY <1>0, <1>5 DEF Tidy, Shared, Campaign, Quiet, Active, Inside, Settled, Throw, Abandon,
     Step, Members, Here, collector, programs, containers, capture, queue, disk
<1>6. CASE Before
  BY <1>0, <1>6 DEF Tidy, Shared, Campaign, Quiet, Active, Inside, Before, Throw, Abandon, Step,
     Members, Here, collector, programs, containers, capture, queue, disk
<1>7. CASE Cursor
  BY <1>0, <1>7 DEF Tidy, Shared, Campaign, Quiet, Active, Inside, Cursor, Throw, Abandon, Step,
     Members, Here, collector, programs, containers, capture, queue, disk
<1>8. CASE Box
  BY <1>0, <1>8 DEF Tidy, Shared, Campaign, Quiet, Active, Inside, Box, Throw, Step, Members,
     Here, collector, programs, containers, capture, queue, disk
<1>9. CASE BoxFails
  BY <1>0, <1>9 DEF Tidy, Shared, Campaign, Quiet, Active, Inside, BoxFails, OneMoreFault,
     Throw, Step, NextMember, AfterMember, Members, Here, collector, programs, containers,
     capture, queue, disk
<1>10. CASE Native
  BY <1>0, <1>10 DEF Tidy, Shared, Campaign, Quiet, Active, Inside, Native, Step, Members, Here,
     collector, programs, containers, capture, queue, disk
<1>11. CASE Return
  BY <1>0, <1>11 DEF Tidy, Shared, Campaign, Quiet, Active, Inside, Return, Step, NextMember,
     AfterMember, Members, Here, collector, programs, containers, capture, queue, disk
<1>12. CASE Timeout
  BY <1>0, <1>12 DEF Tidy, Shared, Campaign, Quiet, Active, Inside, Timeout, Throw, Step,
     NextMember, AfterMember, Members, Here, collector, programs, containers, capture, queue, disk
<1>13. CASE After
  BY <1>0, <1>13 DEF Tidy, Shared, Campaign, Quiet, Active, Inside, After, Step, Members, Here,
     collector, programs, containers, capture, queue, disk
<1>14. CASE ReadLog
  BY <1>0, <1>14 DEF Tidy, Shared, Campaign, Quiet, Active, Inside, ReadLog, Step, Members,
     Here, collector, programs, containers, capture, queue, disk
<1>15. CASE WriteFails
  BY <1>0, <1>15 DEF Tidy, Shared, Campaign, Quiet, Active, Inside, WriteFails, Throw, Members,
     Here, collector, programs, containers, capture, queue, disk
<1>16. CASE Score
  BY <1>0, <1>16 DEF Tidy, Shared, Campaign, Quiet, Active, Inside, Score, Throw, Step,
     NextMember, Members, Here, collector, programs, containers, capture, queue, disk
<1>17. CASE Cleanup
  <2>1. PICK left \in SUBSET Boxes :
          /\ boxes' = boxes \ (Boxes \ left) /\ alive' = alive \ (Boxes \ left)
          /\ \/ raised' \in CleanupFailed(left) /\ unsaid' = unsaid
             \/ unsaid' = unsaid \cup left
    BY <1>17 DEF Cleanup, NoteFails
  <2>2. pc = "cleanup" /\ pc' = "file" /\ UNCHANGED <<driver, group, i>>
    BY <1>17 DEF Cleanup, queue
  <2>3. ASSUME Campaign PROVE boxes' \subseteq unsaid \cup left /\ alive' \subseteq boxes'
    <3>1. alive \subseteq boxes /\ boxes \subseteq Members \cup unsaid
      BY <1>0, <2>2, <2>3 DEF Tidy, Inside
    <3>2. Boxes = boxes \cap Members BY DEF Boxes, Members
    <3> QED BY <2>1, <3>1, <3>2
  <2>4. ASSUME Campaign PROVE boxes' \subseteq Members' \cup unsaid'
    <3>1. left \subseteq Members' BY <2>1, <2>2 DEF Boxes, Members
    <3> QED BY <2>1, <2>3, <2>4, <3>1
  <2>5. ASSUME Campaign, raised' # "fatal" PROVE boxes' \subseteq unsaid'
    <3>1. left = {} \/ left \subseteq unsaid'
      BY <2>1, <2>5 DEF CleanupFailed, Campaign
    <3> QED BY <2>1, <2>3, <2>5, <3>1
  <2>6. Campaign' = Campaign BY <2>2 DEF Campaign
  <2> QED BY <2>2, <2>3, <2>4, <2>5, <2>6 DEF Tidy, Quiet, Active
<1>18. CASE FileCampaign
  BY <1>0, <1>18 DEF Tidy, Shared, Campaign, Quiet, Active, Inside, FileCampaign, Members, Here,
     collector, programs, containers, capture, queue, disk
<1>19. CASE FileOther
  BY <1>0, <1>19 DEF Tidy, Shared, Campaign, Quiet, Active, Inside, FileOther, Members, Here,
     collector, programs, containers, capture, queue, disk
<1>20. CASE Resume
  BY <1>0, <1>20 DEF Tidy, Shared, Campaign, Quiet, Active, Inside, Resume, Members, Here,
     collector, programs, containers, capture, queue, disk
<1>21. CASE Fault
  BY <1>0, <1>21 DEF Tidy, Shared, Campaign, Quiet, Active, Inside, Fault, OneMoreFault,
     Members, Here, collector, programs, containers, capture, queue, disk
<1>22. CASE \E x \in wire : Deliver(x)
  BY <1>0, <1>22 DEF Tidy, Shared, Campaign, Quiet, Active, Inside, Deliver, Members, Here,
     collector, programs, containers, capture, queue, disk
<1>23. CASE UNCHANGED vars
  BY <1>0, <1>23 DEF Tidy, Shared, Campaign, Quiet, Active, Inside, vars, Members, Here,
     collector, programs, containers, capture, queue, disk
<1>24. CASE NotNoted
  BY <1>0, <1>24 DEF Tidy, Shared, Campaign, Quiet, Active, Inside, NotNoted, OneMoreFault,
     Throw, Step, NextMember, AfterMember, Members, Here, collector, programs, containers,
     capture, queue, disk
<1> QED
  BY <1>1, <1>2, <1>3, <1>4, <1>5, <1>6, <1>7, <1>8, <1>9, <1>10, <1>11, <1>12,
     <1>13, <1>14, <1>15, <1>16, <1>17, <1>18, <1>19, <1>20, <1>21, <1>22, <1>23, <1>24
  DEF Next, Drive

(* Two batches have no slot in common.                                     *)
LEMMA Apart ==
  ASSUME CaptureAssumption, NEW f \in Nat, NEW g \in Nat, Multiple(f), Multiple(g), NEW s \in Nat,
         f < s, s <= f + BatchSize, g < s, s <= g + BatchSize
  PROVE  f = g
<1>0. BatchSize \in Nat /\ BatchSize > 0 BY DEF CaptureAssumption
<1>1. PICK q \in Nat : f = q * BatchSize BY DEF Multiple
<1>2. PICK r \in Nat : g = r * BatchSize BY DEF Multiple
<1>3. CASE q < r
  <2>1. PICK d \in Nat : r = q + 1 + d
    <3>1. r - q - 1 \in Nat /\ r = q + 1 + (r - q - 1) BY <1>3
    <3> QED BY <3>1
  <2>2. r * BatchSize = q * BatchSize + BatchSize + d * BatchSize BY <1>0, <2>1
  <2>3. d * BatchSize >= 0 BY <1>0
  <2>4. d * BatchSize \in Nat BY <1>0
  <2> QED BY <1>0, <1>1, <1>2, <2>2, <2>3, <2>4
<1>4. CASE r < q
  <2>1. PICK d \in Nat : q = r + 1 + d
    <3>1. q - r - 1 \in Nat /\ q = r + 1 + (q - r - 1) BY <1>4
    <3> QED BY <3>1
  <2>2. q * BatchSize = r * BatchSize + BatchSize + d * BatchSize BY <1>0, <2>1
  <2>4. d * BatchSize \in Nat BY <1>0
  <2> QED BY <1>0, <1>1, <1>2, <2>2, <2>4
<1> QED BY <1>1, <1>2, <1>3, <1>4

(* The next batch begins where this one ends.                              *)
LEMMA Onward ==
  ASSUME CaptureAssumption, NEW f \in Nat, Multiple(f)
  PROVE  Multiple(f + BatchSize)
<1>0. BatchSize \in Nat BY DEF CaptureAssumption
<1>1. PICK q \in Nat : f = q * BatchSize BY DEF Multiple
<1>2. f + BatchSize = (q + 1) * BatchSize /\ q + 1 \in Nat BY <1>0, <1>1
<1> QED BY <1>2 DEF Multiple

(* A number of rows that the pilot can be resumed at.                      *)
LEMMA Divided ==
  ASSUME CaptureAssumption, NEW n \in Nat, n % BatchSize = 0 PROVE Multiple(n)
<1>1. BatchSize \in Nat /\ BatchSize > 0 BY DEF CaptureAssumption
<1>2. \E q \in Nat : n = q * BatchSize BY <1>1
<1> QED BY <1>2 DEF Multiple

(* A part of the plan, and a part of a part.                               *)
LEMMA PartOfPlan ==
  ASSUME CaptureAssumption, NEW n \in 0..Planned
  PROVE  /\ SubSeq(Plan, n + 1, Planned) \in Seq(Attempts)
         /\ Len(SubSeq(Plan, n + 1, Planned)) = Planned - n
         /\ \A k \in 1..Planned - n : SubSeq(Plan, n + 1, Planned)[k] = <<n + k, 1>>
         /\ \A m \in 0..Planned - n :
              SubSeq(SubSeq(Plan, n + 1, Planned), m + 1, Planned - n)
                = SubSeq(Plan, n + m + 1, Planned)
<1>1. Planned \in Nat /\ Plan \in Seq(Attempts) /\ Len(Plan) = Planned BY PlanType
<1>2. \A s \in 1..Planned : Plan[s] = <<s, 1>> BY PlanType
<1>3. SubSeq(Plan, n + 1, Planned) \in Seq(Attempts) BY <1>1
<1>4. Len(SubSeq(Plan, n + 1, Planned)) = Planned - n BY <1>1
<1>5. \A k \in 1..Planned - n : SubSeq(Plan, n + 1, Planned)[k] = <<n + k, 1>>
  <2> SUFFICES ASSUME NEW k \in 1..Planned - n
               PROVE  SubSeq(Plan, n + 1, Planned)[k] = <<n + k, 1>> OBVIOUS
  <2>1. SubSeq(Plan, n + 1, Planned)[k] = Plan[n + k] BY <1>1
  <2> QED BY <1>1, <1>2, <2>1
<1>6. ASSUME NEW m \in 0..Planned - n
      PROVE  SubSeq(SubSeq(Plan, n + 1, Planned), m + 1, Planned - n)
               = SubSeq(Plan, n + m + 1, Planned)
  <2>1. \A k \in 1..Planned - n - m :
          SubSeq(Plan, n + 1, Planned)[m + k] = Plan[n + m + k] BY <1>1
  <2>2. SubSeq(Plan, n + m + 1, Planned) = [k \in 1..Planned - n - m |-> Plan[n + m + k]]
    BY <1>1
  <2>3. SubSeq(SubSeq(Plan, n + 1, Planned), m + 1, Planned - n)
          = [k \in 1..Planned - n - m |-> SubSeq(Plan, n + 1, Planned)[m + k]]
    BY <1>1, <1>3, <1>4
  <2> QED BY <2>1, <2>2, <2>3
<1> QED BY <1>3, <1>4, <1>5, <1>6

(* One more row of the plan.                                               *)
LEMMA OneMore ==
  ASSUME CaptureAssumption, NEW n \in 0..Planned, n < Planned
  PROVE  SubSeq(Plan, 1, n) \o <<<<n + 1, 1>>>> = SubSeq(Plan, 1, n + 1)
<1>1. Planned \in Nat /\ Plan \in Seq(Attempts) /\ Len(Plan) = Planned BY PlanType
<1>2. Plan[n + 1] = <<n + 1, 1>>
  <2>1. n + 1 \in 1..Planned BY <1>1
  <2> QED BY <2>1, PlanType
<1>3. SubSeq(Plan, 1, n) \o <<Plan[n + 1]>> = SubSeq(Plan, 1, n + 1) BY <1>1
<1> QED BY <1>2, <1>3

(* A capture has one driver from its start to its end.                     *)
LEMMA DriverStays == ASSUME [Next]_vars PROVE driver' = driver
BY DEF Next, Drive, Pick, Finish, Check, Setup, Settled, Before, Cursor, Box, BoxFails,
   Native, Return, Timeout, NotNoted, OneMoreFault, NoteFails, After, ReadLog, WriteFails,
   Score, Cleanup, FileCampaign, FileOther, Resume, Fault, Deliver, vars

(* A batch of the pilot is as long as its size, or what is left of it.     *)
LEMMA PilotGroup ==
  ASSUME CaptureAssumption, driver = "pilot", NEW n \in 0..Planned, n < Planned,
         todo = SubSeq(Plan, n + 1, Planned)
  PROVE  GroupLen = IF BatchSize <= Planned - n THEN BatchSize ELSE Planned - n
<1>0. BatchSize \in Nat /\ BatchSize > 0 /\ Planned \in Nat BY DEF CaptureAssumption
<1>1. /\ todo \in Seq(Attempts) /\ Len(todo) = Planned - n
      /\ \A k \in 1..Planned - n : todo[k] = <<n + k, 1>>
  BY PartOfPlan
<1>2. todo # << >>
  <2>1. Len(todo) # 0 BY <1>0, <1>1
  <2> QED BY <1>1, <2>1
<1>3. GroupLen \in 1..Planned - n /\ MayShare(GroupLen)
  BY <1>1, <1>2, SizeOfGroup
<1>4. \A m \in (GroupLen + 1)..Planned - n : ~MayShare(m)
  BY <1>1, <1>2, SizeOfGroup
<1>5. \A m \in 1..Planned - n : MayShare(m) <=> m <= BatchSize
  <2> SUFFICES ASSUME NEW m \in 1..Planned - n PROVE MayShare(m) <=> m <= BatchSize OBVIOUS
  <2>1. \A k \in 1..m : todo[k][2] = 1
    <3> SUFFICES ASSUME NEW k \in 1..m PROVE todo[k][2] = 1 OBVIOUS
    <3>1. k \in 1..Planned - n BY <1>0
    <3>2. todo[k] = <<n + k, 1>> BY <1>1, <3>1
    <3> QED BY <3>2
  <2>2. m = 1 => m <= BatchSize BY <1>0
  <2> QED BY <2>1, <2>2 DEF MayShare
<1>6. GroupLen <= BatchSize BY <1>3, <1>5
<1>7. \A m \in 1..Planned - n : m <= BatchSize => m <= GroupLen BY <1>0, <1>3, <1>4, <1>5
<1> QED BY <1>0, <1>3, <1>6, <1>7

(* A step inside a capture that touches neither the folders nor the rows.  *)
LEMMA BatchKept ==
  ASSUME TypeOK, RanOnce, FiledOnce, ThisBatch,
         UNCHANGED <<queue, ran, reran, filed, rows, folders>>,
         i \in Nat, i' \in Nat, pc \in Inside, pc' # "pick",
         pc' \in Quiet \cup {"box", "native"} =>
           (pc \in Quiet \cup {"box", "native"} /\ i' >= i) \/ (pc = "wait" /\ i' > i),
         pc' \in {"drain", "log"} => pc \notin {"score", "cleanup", "file"} /\ i' = 1,
         pc' = "score" => pc = "log" /\ i' = i,
         pc' = "cleanup" => raised' # "none",
         pc' \notin {"wait", "file"}
  PROVE  (RanOnce /\ FiledOnce /\ NextBatch /\ ThisBatch)'
<1>1. Cut /\ Unheard /\ Counted BY DEF ThisBatch
<1>2. RanOnce' /\ FiledOnce' /\ NextBatch' BY DEF RanOnce, FiledOnce, NextBatch
<1>3. Cut' BY <1>1 DEF Cut, Base, queue
<1>4. ASSUME pc' \in Inside PROVE Unheard'
  <2> SUFFICES ASSUME NEW k \in DOMAIN group, k >= i', pc' \in Quiet \cup {"box", "native"}
               PROVE  group[k] \notin ran
    BY DEF Unheard, queue
  <2>1. k \in Nat
    <3>1. group \in Seq(Attempts) BY DEF TypeOK
    <3> QED BY <3>1
  <2> QED BY <1>1, <2>1 DEF Unheard
<1>5. ASSUME pc' \in Inside PROVE Counted'
  <2>1. rows' = rows /\ group' = group BY DEF queue
  <2>2. pc' \notin {"score", "cleanup", "file"} => rows' = << >>
    BY <1>1, <1>5, <2>1 DEF Counted, Inside, Quiet, Active
  <2>3. pc' = "score" => Len(rows') = i' - 1
    <3> SUFFICES ASSUME pc' = "score" PROVE Len(rows') = i' - 1 OBVIOUS
    <3>1. rows' = << >> /\ i' = 1 BY <1>1, <2>1 DEF Counted
    <3>2. Len(rows') = 0 BY <3>1
    <3> QED BY <3>1, <3>2
  <2>4. /\ pc' \in {"drain", "log"} => i' = 1
        /\ pc' \in {"cleanup", "file"} => raised' # "none"
    OBVIOUS
  <2> QED BY <2>2, <2>3, <2>4 DEF Counted
<1> QED BY <1>2, <1>3, <1>4, <1>5 DEF ThisBatch

(* The pilot's batches after every step.                                   *)
LEMMA BatchesStep ==
  ASSUME CaptureAssumption, TypeOK, TypeOK', Placed, Placed', Batches, [Next]_vars
  PROVE  Batches'
<1> SUFFICES ASSUME driver = "pilot" PROVE (RanOnce /\ FiledOnce /\ NextBatch /\ ThisBatch)'
  BY DriverStays DEF Batches
<1> USE DEF collector, programs, containers, capture, queue, disk
<1>0. /\ RanOnce /\ FiledOnce /\ NextBatch /\ ThisBatch
      /\ (pc \in Inside => i \in 1..Len(group) /\ Here \in Attempts)
      /\ Len(group) \in Nat /\ DOMAIN group = 1..Len(group)
      /\ Len(filed) \in Nat /\ Len(rows) \in Nat
  BY HereType, TypesMean DEF Batches, Lists
<1>q. i \in Nat /\ i' \in Nat BY DEF TypeOK
<1>p. BatchSize \in Nat /\ BatchSize > 0 /\ Planned \in Nat /\ ~Campaign /\ Shared
  BY DEF CaptureAssumption, Campaign, Shared
<1>1. CASE Pick
  <2>1. CASE UNCHANGED <<queue, folders>> /\ pc' = "refused"
    BY <1>0, <1>1, <2>1 DEF Pick, RanOnce, FiledOnce, NextBatch, ThisBatch, Inside, Quiet,
       Active
  <2>2. CASE /\ group' = SubSeq(todo, 1, GroupLen)
             /\ todo' = SubSeq(todo, GroupLen + 1, Len(todo))
             /\ folders' = folders \cup {Offset} /\ pc' = "check" /\ Offset \notin folders
    <3> DEFINE n == Len(filed)
    <3>1. /\ todo = SubSeq(Plan, n + 1, Planned) /\ todo # << >> /\ Multiple(n)
          /\ n \in 0..Planned
      BY <1>0, <1>p, <1>1 DEF Pick, NextBatch, FiledOnce
    <3>2. n < Planned
      <4>1. Len(todo) = Planned - n BY <3>1, PartOfPlan
      <4>2. todo \in Seq(Attempts) BY DEF TypeOK
      <4> QED BY <1>p, <3>1, <4>1, <4>2
    <3>3. GroupLen = IF BatchSize <= Planned - n THEN BatchSize ELSE Planned - n
      BY <3>1, <3>2, PilotGroup
    <3>4. /\ Len(group') = GroupLen /\ DOMAIN group' = 1..GroupLen
          /\ GroupLen \in 1..Planned - n /\ Len(todo) = Planned - n
      <4>1. Len(group') = GroupLen /\ DOMAIN group' = 1..GroupLen BY <1>1, <2>2, Picked
      <4>2. Len(todo) = Planned - n BY <3>1, PartOfPlan
      <4> QED BY <1>p, <3>1, <3>2, <3>3, <4>1, <4>2
    <3>5. \A k \in 1..GroupLen : group'[k] = <<n + k, 1>>
      <4>1. \A k \in 1..GroupLen : group'[k] = todo[k] BY <1>1, <2>2, Picked
      <4>2. \A k \in 1..Planned - n : todo[k] = <<n + k, 1>> BY <3>1, PartOfPlan
      <4>3. \A k \in 1..GroupLen : k \in 1..Planned - n BY <1>p, <3>1, <3>4
      <4> QED BY <4>1, <4>2, <4>3
    <3>6. todo' = SubSeq(Plan, n + GroupLen + 1, Planned)
      <4>1. GroupLen \in 0..Planned - n BY <3>4
      <4> QED BY <2>2, <3>1, <3>4, <4>1, PartOfPlan
    <3>7. rows' = << >> /\ filed' = filed /\ i' = 1 /\ ran' = ran /\ reran' = reran
      BY <1>1 DEF Pick
    <3>8. Offset = n BY DEF Offset
    <3>9. \A k \in 1..GroupLen : <<n + k, 1>> \notin ran
      <4> SUFFICES ASSUME NEW k \in 1..GroupLen, <<n + k, 1>> \in ran PROVE FALSE OBVIOUS
      <4>1. PICK f \in folders : f < n + k /\ n + k <= f + BatchSize BY <1>0 DEF RanOnce
      <4>2. f \in Nat /\ Multiple(f) BY <1>0 DEF RanOnce, TypeOK
      <4>3. n + k \in Nat /\ n < n + k /\ n + k <= n + BatchSize
        BY <1>p, <3>1, <3>3, <3>4
      <4>4. n \in Nat BY <3>1
      <4>5. f = n BY <3>1, <4>1, <4>2, <4>3, <4>4, Apart
      <4> QED BY <2>2, <3>8, <4>5
    <3>10. RanOnce' BY <1>0, <2>2, <3>1, <3>7, <3>8 DEF RanOnce
    <3>11. FiledOnce' /\ NextBatch' BY <1>0, <2>2, <3>7 DEF FiledOnce, NextBatch
    <3>12. Base' = n BY <3>1, <3>7 DEF Base
    <3>13. Cut'
      BY <2>2, <3>3, <3>4, <3>5, <3>6, <3>8, <3>12 DEF Cut
    <3>14. Unheard' /\ Counted' BY <2>2, <3>4, <3>5, <3>7, <3>9 DEF Unheard, Counted, Quiet
    <3> QED BY <3>10, <3>11, <3>13, <3>14 DEF ThisBatch
  <2> QED BY <1>p, <1>1, <2>1, <2>2 DEF Pick
<1>2. CASE Finish
  BY <1>0, <1>p, <1>2 DEF RanOnce, FiledOnce, NextBatch, ThisBatch, Cut, Unheard, Counted, Base,
     Quiet, Active, Inside, Finish
<1>3. CASE Check
  <2>1. /\ pc \in Inside /\ pc' # "pick" /\ pc' \notin {"wait", "file"}
        /\ UNCHANGED <<queue, ran, reran, filed, rows, folders>>
    BY <1>0, <1>3 DEF Check, Throw, Step, Verified, Inside, Quiet, Active
  <2>2. /\ pc' \in Quiet \cup {"box", "native"} =>
             (pc \in Quiet \cup {"box", "native"} /\ i' >= i) \/ (pc = "wait" /\ i' > i)
        /\ pc' = "score" => pc = "log" /\ i' = i
        /\ pc' = "cleanup" => raised' # "none"
    BY <1>0, <1>p, <2>1, <1>3 DEF Check, Throw, Step, Verified, Quiet, ThisBatch, Counted
  <2>3. pc' \in {"drain", "log"} => pc \notin {"score", "cleanup", "file"} /\ i' = 1
    BY <1>0, <1>p, <2>1, <1>3 DEF Check, Throw, Step, Verified, Quiet, ThisBatch, Counted
  <2> QED BY <1>0, <1>q, <2>1, <2>2, <2>3, BatchKept
<1>4. CASE Setup
  <2>1. /\ pc \in Inside /\ pc' # "pick" /\ pc' \notin {"wait", "file"}
        /\ UNCHANGED <<queue, ran, reran, filed, rows, folders>>
    BY <1>0, <1>4 DEF Setup, Throw, Abandon, Step, Inside, Quiet, Active
  <2>2. /\ pc' \in Quiet \cup {"box", "native"} =>
             (pc \in Quiet \cup {"box", "native"} /\ i' >= i) \/ (pc = "wait" /\ i' > i)
        /\ pc' = "score" => pc = "log" /\ i' = i
        /\ pc' = "cleanup" => raised' # "none"
    BY <1>0, <1>p, <2>1, <1>4 DEF Setup, Throw, Abandon, Step, Quiet, ThisBatch, Counted
  <2>3. pc' \in {"drain", "log"} => pc \notin {"score", "cleanup", "file"} /\ i' = 1
    BY <1>0, <1>p, <2>1, <1>4 DEF Setup, Throw, Abandon, Step, Quiet, ThisBatch, Counted
  <2> QED BY <1>0, <1>q, <2>1, <2>2, <2>3, BatchKept
<1>5. CASE Settled
  <2>1. /\ pc \in Inside /\ pc' # "pick" /\ pc' \notin {"wait", "file"}
        /\ UNCHANGED <<queue, ran, reran, filed, rows, folders>>
    BY <1>0, <1>5 DEF Settled, Throw, Abandon, Step, Inside, Quiet, Active
  <2>2. /\ pc' \in Quiet \cup {"box", "native"} =>
             (pc \in Quiet \cup {"box", "native"} /\ i' >= i) \/ (pc = "wait" /\ i' > i)
        /\ pc' = "score" => pc = "log" /\ i' = i
        /\ pc' = "cleanup" => raised' # "none"
    BY <1>0, <1>p, <2>1, <1>5 DEF Settled, Throw, Abandon, Step, Quiet, ThisBatch, Counted
  <2>3. pc' \in {"drain", "log"} => pc \notin {"score", "cleanup", "file"} /\ i' = 1
    BY <1>0, <1>p, <2>1, <1>5 DEF Settled, Throw, Abandon, Step, Quiet, ThisBatch, Counted
  <2> QED BY <1>0, <1>q, <2>1, <2>2, <2>3, BatchKept
<1>6. CASE Before
  <2>1. /\ pc \in Inside /\ pc' # "pick" /\ pc' \notin {"wait", "file"}
        /\ UNCHANGED <<queue, ran, reran, filed, rows, folders>>
    BY <1>0, <1>6 DEF Before, Throw, Abandon, Step, Inside, Quiet, Active
  <2>2. /\ pc' \in Quiet \cup {"box", "native"} =>
             (pc \in Quiet \cup {"box", "native"} /\ i' >= i) \/ (pc = "wait" /\ i' > i)
        /\ pc' = "score" => pc = "log" /\ i' = i
        /\ pc' = "cleanup" => raised' # "none"
    BY <1>0, <1>p, <2>1, <1>6 DEF Before, Throw, Abandon, Step, Quiet, ThisBatch, Counted
  <2>3. pc' \in {"drain", "log"} => pc \notin {"score", "cleanup", "file"} /\ i' = 1
    BY <1>0, <1>p, <2>1, <1>6 DEF Before, Throw, Abandon, Step, Quiet, ThisBatch, Counted
  <2> QED BY <1>0, <1>q, <2>1, <2>2, <2>3, BatchKept
<1>7. CASE Cursor
  <2>1. /\ pc \in Inside /\ pc' # "pick" /\ pc' \notin {"wait", "file"}
        /\ UNCHANGED <<queue, ran, reran, filed, rows, folders>>
    BY <1>0, <1>7 DEF Cursor, Throw, Abandon, Step, Inside, Quiet, Active
  <2>2. /\ pc' \in Quiet \cup {"box", "native"} =>
             (pc \in Quiet \cup {"box", "native"} /\ i' >= i) \/ (pc = "wait" /\ i' > i)
        /\ pc' = "score" => pc = "log" /\ i' = i
        /\ pc' = "cleanup" => raised' # "none"
    BY <1>0, <1>p, <2>1, <1>7 DEF Cursor, Throw, Abandon, Step, Quiet, ThisBatch, Counted
  <2>3. pc' \in {"drain", "log"} => pc \notin {"score", "cleanup", "file"} /\ i' = 1
    BY <1>0, <1>p, <2>1, <1>7 DEF Cursor, Throw, Abandon, Step, Quiet, ThisBatch, Counted
  <2> QED BY <1>0, <1>q, <2>1, <2>2, <2>3, BatchKept
<1>8. CASE Box
  <2>1. /\ pc \in Inside /\ pc' # "pick" /\ pc' \notin {"wait", "file"}
        /\ UNCHANGED <<queue, ran, reran, filed, rows, folders>>
    BY <1>0, <1>8 DEF Box, Throw, Step, Verified, Inside, Quiet, Active
  <2>2. /\ pc' \in Quiet \cup {"box", "native"} =>
             (pc \in Quiet \cup {"box", "native"} /\ i' >= i) \/ (pc = "wait" /\ i' > i)
        /\ pc' = "score" => pc = "log" /\ i' = i
        /\ pc' = "cleanup" => raised' # "none"
    BY <1>0, <1>p, <2>1, <1>8 DEF Box, Throw, Step, Verified, Quiet, ThisBatch, Counted
  <2>3. pc' \in {"drain", "log"} => pc \notin {"score", "cleanup", "file"} /\ i' = 1
    BY <1>0, <1>p, <2>1, <1>8 DEF Box, Throw, Step, Verified, Quiet, ThisBatch, Counted
  <2> QED BY <1>0, <1>q, <2>1, <2>2, <2>3, BatchKept
<1>9. CASE BoxFails
  <2>1. /\ pc \in Inside /\ pc' # "pick" /\ pc' \notin {"wait", "file"}
        /\ UNCHANGED <<queue, ran, reran, filed, rows, folders>>
    BY <1>0, <1>9 DEF BoxFails, OneMoreFault, Throw, Step, NextMember, AfterMember, Verified,
       Inside, Quiet, Active
  <2>2. /\ pc' \in Quiet \cup {"box", "native"} =>
             (pc \in Quiet \cup {"box", "native"} /\ i' >= i) \/ (pc = "wait" /\ i' > i)
        /\ pc' = "score" => pc = "log" /\ i' = i
        /\ pc' = "cleanup" => raised' # "none"
    BY <1>0, <1>p, <2>1, <1>9 DEF BoxFails, OneMoreFault, Throw, Step, NextMember,
       AfterMember, Verified, Quiet, ThisBatch, Counted
  <2>3. pc' \in {"drain", "log"} => pc \notin {"score", "cleanup", "file"} /\ i' = 1
    BY <1>0, <1>p, <2>1, <1>9 DEF BoxFails, OneMoreFault, Throw, Step, NextMember,
       AfterMember, Verified, Quiet, ThisBatch, Counted
  <2> QED BY <1>0, <1>q, <2>1, <2>2, <2>3, BatchKept
<1>10. CASE Native
  <2>0. /\ pc = "native" /\ pc \in Inside /\ pc' = "wait"
        /\ UNCHANGED <<queue, i, filed, rows, folders>>
        /\ ran' = ran \cup {Here} /\ reran' = (reran \/ Here \in ran)
    BY <1>10 DEF Native, Step, Inside, Active
  <2>1. Cut /\ Unheard /\ Counted BY <1>0, <2>0 DEF ThisBatch
  <2>2. Here = <<Base + i, 1>> /\ Here \notin ran /\ i <= BatchSize
    <3>1. i \in DOMAIN group /\ i \in Nat BY <1>0, <1>q, <2>0
    <3>2. Here = <<Base + i, 1>> BY <2>1, <3>1 DEF Cut, Here
    <3>3. Here \notin ran BY <2>0, <2>1, <3>1 DEF Unheard, Here
    <3>4. Len(group) <= BatchSize BY <1>0, <1>p, <2>1 DEF Cut, Base
    <3> QED BY <1>0, <1>p, <3>1, <3>2, <3>3, <3>4
  <2>3. RanOnce'
    <3>1. Base \in folders /\ Base < Base + i /\ Base + i <= Base + BatchSize
      BY <1>0, <1>p, <2>0, <2>1, <2>2 DEF Cut, Base
    <3>2. \A a \in ran' : a[2] = 1 /\ \E f \in folders : f < a[1] /\ a[1] <= f + BatchSize
      BY <1>0, <2>0, <2>2, <3>1 DEF RanOnce
    <3> QED BY <1>0, <2>0, <2>2, <3>2 DEF RanOnce
  <2>4. FiledOnce' /\ NextBatch' BY <1>0, <2>0 DEF FiledOnce, NextBatch
  <2>5. Cut' BY <2>0, <2>1 DEF Cut, Base
  <2>6. \A k \in DOMAIN group : k > i => group[k] # Here
    <3> SUFFICES ASSUME NEW k \in DOMAIN group, k > i PROVE group[k] # Here OBVIOUS
    <3>1. group[k] = <<Base + k, 1>> BY <2>1 DEF Cut
    <3> QED BY <1>0, <2>2, <2>0, <3>1 DEF Base
  <2>7. Unheard'
    BY <1>0, <2>0, <2>1, <2>6 DEF Unheard, Quiet
  <2>8. Counted' BY <2>0, <2>1 DEF Counted
  <2> QED BY <2>3, <2>4, <2>5, <2>7, <2>8 DEF ThisBatch
<1>11. CASE Return
  <2>1. /\ pc \in Inside /\ pc' # "pick" /\ pc' \notin {"wait", "file"}
        /\ UNCHANGED <<queue, ran, reran, filed, rows, folders>>
    BY <1>0, <1>11 DEF Return, Step, NextMember, AfterMember, Inside, Quiet, Active
  <2>2. /\ pc' \in Quiet \cup {"box", "native"} =>
             (pc \in Quiet \cup {"box", "native"} /\ i' >= i) \/ (pc = "wait" /\ i' > i)
        /\ pc' = "score" => pc = "log" /\ i' = i
        /\ pc' = "cleanup" => raised' # "none"
    BY <1>0, <1>p, <2>1, <1>11 DEF Return, Step, NextMember, AfterMember, Quiet, ThisBatch,
       Counted
  <2>3. pc' \in {"drain", "log"} => pc \notin {"score", "cleanup", "file"} /\ i' = 1
    BY <1>0, <1>p, <2>1, <1>11 DEF Return, Step, NextMember, AfterMember, Quiet, ThisBatch,
       Counted
  <2> QED BY <1>0, <1>q, <2>1, <2>2, <2>3, BatchKept
<1>12. CASE Timeout
  <2>1. /\ pc \in Inside /\ pc' # "pick" /\ pc' \notin {"wait", "file"}
        /\ UNCHANGED <<queue, ran, reran, filed, rows, folders>>
    BY <1>0, <1>12 DEF Timeout, Throw, Step, NextMember, AfterMember, Inside, Quiet, Active
  <2>2. /\ pc' \in Quiet \cup {"box", "native"} =>
             (pc \in Quiet \cup {"box", "native"} /\ i' >= i) \/ (pc = "wait" /\ i' > i)
        /\ pc' = "score" => pc = "log" /\ i' = i
        /\ pc' = "cleanup" => raised' # "none"
    BY <1>0, <1>p, <2>1, <1>12 DEF Timeout, Throw, Step, NextMember, AfterMember, Quiet,
       ThisBatch, Counted
  <2>3. pc' \in {"drain", "log"} => pc \notin {"score", "cleanup", "file"} /\ i' = 1
    BY <1>0, <1>p, <2>1, <1>12 DEF Timeout, Throw, Step, NextMember, AfterMember, Quiet,
       ThisBatch, Counted
  <2> QED BY <1>0, <1>q, <2>1, <2>2, <2>3, BatchKept
<1>13. CASE After
  <2>1. /\ pc \in Inside /\ pc' # "pick" /\ pc' \notin {"wait", "file"}
        /\ UNCHANGED <<queue, ran, reran, filed, rows, folders>>
    BY <1>0, <1>13 DEF After, Step, Inside, Quiet, Active
  <2>2. /\ pc' \in Quiet \cup {"box", "native"} =>
             (pc \in Quiet \cup {"box", "native"} /\ i' >= i) \/ (pc = "wait" /\ i' > i)
        /\ pc' = "score" => pc = "log" /\ i' = i
        /\ pc' = "cleanup" => raised' # "none"
    BY <1>0, <1>p, <2>1, <1>13 DEF After, Step, Quiet, ThisBatch, Counted
  <2>3. pc' \in {"drain", "log"} => pc \notin {"score", "cleanup", "file"} /\ i' = 1
    BY <1>0, <1>p, <2>1, <1>13 DEF After, Step, Quiet, ThisBatch, Counted
  <2> QED BY <1>0, <1>q, <2>1, <2>2, <2>3, BatchKept
<1>14. CASE ReadLog
  <2>1. /\ pc \in Inside /\ pc' # "pick" /\ pc' \notin {"wait", "file"}
        /\ UNCHANGED <<queue, ran, reran, filed, rows, folders>>
    BY <1>0, <1>14 DEF ReadLog, Step, Inside, Quiet, Active
  <2>2. /\ pc' \in Quiet \cup {"box", "native"} =>
             (pc \in Quiet \cup {"box", "native"} /\ i' >= i) \/ (pc = "wait" /\ i' > i)
        /\ pc' = "score" => pc = "log" /\ i' = i
        /\ pc' = "cleanup" => raised' # "none"
    BY <1>0, <1>p, <2>1, <1>14 DEF ReadLog, Step, Quiet, ThisBatch, Counted
  <2>3. pc' \in {"drain", "log"} => pc \notin {"score", "cleanup", "file"} /\ i' = 1
    BY <1>0, <1>p, <2>1, <1>14 DEF ReadLog, Step, Quiet, ThisBatch, Counted
  <2> QED BY <1>0, <1>q, <2>1, <2>2, <2>3, BatchKept
<1>15. CASE WriteFails
  <2>1. /\ pc \in Inside /\ pc' # "pick" /\ pc' \notin {"wait", "file"}
        /\ UNCHANGED <<queue, ran, reran, filed, rows, folders>>
    BY <1>0, <1>15 DEF WriteFails, Throw, Inside, Quiet, Active
  <2>2. /\ pc' \in Quiet \cup {"box", "native"} =>
             (pc \in Quiet \cup {"box", "native"} /\ i' >= i) \/ (pc = "wait" /\ i' > i)
        /\ pc' = "score" => pc = "log" /\ i' = i
        /\ pc' = "cleanup" => raised' # "none"
    BY <1>0, <1>p, <2>1, <1>15 DEF WriteFails, Throw, Quiet, ThisBatch, Counted
  <2>3. pc' \in {"drain", "log"} => pc \notin {"score", "cleanup", "file"} /\ i' = 1
    BY <1>0, <1>p, <2>1, <1>15 DEF WriteFails, Throw, Quiet, ThisBatch, Counted
  <2> QED BY <1>0, <1>q, <2>1, <2>2, <2>3, BatchKept
<1>16. CASE Score
  <2>0. /\ pc = "score" /\ pc \in Inside /\ File(<<Row(Here, Class(Here))>>)
        /\ pc' = (IF i < Len(group) THEN "score" ELSE "cleanup") /\ raised' = raised /\ NextMember
        /\ UNCHANGED <<queue, ran, reran, folders>>
    BY <1>p, <1>16 DEF Score, Step, Verified, Inside, Active, File
  <2>1. Cut /\ Counted BY <1>0, <2>0 DEF ThisBatch
  <2>2. Here = <<Base + i, 1>> /\ Base + i = Len(filed) + 1
    BY <1>0, <2>0, <2>1 DEF Cut, Here, Base, Counted
  <2>3. filed' = filed \o <<Here>> /\ Len(rows') = Len(rows) + 1 /\ Len(filed') = Len(filed) + 1
    <3>1. Row(Here, Class(Here)).aid = Here BY DEF Row
    <3>2. rows' = rows \o <<Row(Here, Class(Here))>> BY <2>0 DEF File
    <3>3. filed' = filed \o <<Here>>
      <4> DEFINE new == <<Row(Here, Class(Here))>>
      <4>1. DOMAIN new = {1} /\ new[1].aid = Here BY <3>1
      <4>2. [k \in DOMAIN new |-> new[k].aid] = <<Here>> BY <4>1
      <4>3. filed' = filed \o [k \in DOMAIN new |-> new[k].aid] BY <2>0 DEF File
      <4> QED BY <4>2, <4>3
    <3>4. Len(filed') = Len(filed) + 1 BY <1>0, <2>0, <3>3 DEF TypeOK
    <3>5. rows \in Seq(Rows) /\ Row(Here, Class(Here)) \in Rows
      BY <1>0, <2>0, RowType, TypesMean DEF Lists
    <3>6. Len(rows') = Len(rows) + 1 BY <3>2, <3>5
    <3> QED BY <3>3, <3>4, <3>6
  <2>4. Base' = Base BY <1>0, <2>3 DEF Base
  <2>5. FiledOnce'
    <3>1. Len(filed) < Planned BY <1>0, <1>p, <2>0, <2>1, <2>2 DEF Cut, Base
    <3>2. filed = SubSeq(Plan, 1, Len(filed)) BY <1>0 DEF FiledOnce
    <3>3. Len(filed) \in 0..Planned BY <1>0, <1>p, <3>1
    <3>4. filed' = SubSeq(Plan, 1, Len(filed) + 1) BY <2>2, <2>3, <3>1, <3>2, <3>3, OneMore
    <3> QED BY <1>0, <1>p, <2>3, <3>1, <3>4 DEF FiledOnce
  <2>6. RanOnce' /\ NextBatch' BY <1>0, <2>0 DEF RanOnce, NextBatch
  <2>7. Cut' BY <2>0, <2>1, <2>4 DEF Cut
  <2>8. Unheard' BY <2>0 DEF Unheard, Quiet
  <2>9. Counted'
    <3>1. Len(rows) = i - 1 /\ i \in 1..Len(group) BY <1>0, <2>0, <2>1 DEF Counted
    <3>2. group' = group /\ i' = IF i < Len(group) THEN i + 1 ELSE 1
      BY <2>0 DEF NextMember
    <3>3. pc' = "score" => Len(rows') = i' - 1 BY <1>0, <2>0, <2>3, <3>1, <3>2
    <3>4. pc' = "cleanup" => Len(rows') = Len(group')
      <4> SUFFICES ASSUME pc' = "cleanup" PROVE Len(rows') = Len(group') OBVIOUS
      <4>1. ~(i < Len(group)) BY <2>0
      <4>2. i = Len(group)
        <5>1. Len(group) \in Nat BY <1>0
        <5>2. i \in 1..Len(group) BY <3>1
        <5>3. i \in Nat /\ i <= Len(group) BY <5>1, <5>2
        <5> QED BY <4>1, <5>1, <5>3
      <4>3. Len(rows') = Len(group) BY <1>0, <2>3, <3>1, <4>2
      <4> QED BY <3>2, <4>3
    <3>5. pc' \in {"score", "cleanup"} BY <2>0
    <3> QED BY <3>3, <3>4, <3>5 DEF Counted
  <2> QED BY <2>5, <2>6, <2>7, <2>8, <2>9 DEF ThisBatch
<1>17. CASE Cleanup
  <2>0. /\ pc = "cleanup" /\ pc \in Inside /\ pc' = "file" /\ raised' \in {raised, "fatal"}
        /\ UNCHANGED <<queue, i, ran, reran, filed, rows, folders>>
    BY <1>p, <1>17 DEF Cleanup, NoteFails, CleanupFailed, Inside
  <2> QED
    BY <1>0, <2>0 DEF RanOnce, FiledOnce, NextBatch, ThisBatch, Cut, Unheard, Counted, Base,
       Quiet, Active, Inside
<1>18. CASE FileCampaign
  BY <1>0, <1>p, <1>18 DEF RanOnce, FiledOnce, NextBatch, ThisBatch, Cut, Unheard, Counted,
     Base, Quiet, Active, Inside, FileCampaign
<1>19. CASE FileOther
  <2>0. /\ pc = "file" /\ pc \in Inside /\ UNCHANGED <<queue, ran, reran, filed, rows, folders>>
        /\ pc' = IF raised = "none" THEN "pick" ELSE "down"
    BY <1>19 DEF FileOther, Inside
  <2>1. Cut /\ Counted BY <1>0, <2>0 DEF ThisBatch
  <2>2. ASSUME raised = "none" PROVE NextBatch'
    <3>1. Base + Len(group) = Len(filed) BY <1>0, <2>0, <2>1, <2>2 DEF Counted, Base
    <3>2. todo = SubSeq(Plan, Len(filed) + 1, Planned) BY <2>1, <3>1 DEF Cut
    <3>3. ASSUME todo # << >> PROVE Multiple(Len(filed))
      <4>1. Len(filed) \in 0..Planned BY <1>0, <1>p DEF FiledOnce
      <4>2. Len(todo) = Planned - Len(filed) BY <3>2, <4>1, PartOfPlan
      <4>3. Len(filed) < Planned
        <5>1. todo \in Seq(Attempts) BY DEF TypeOK
        <5> QED BY <1>p, <3>3, <4>1, <4>2, <5>1
      <4>4. Len(group) = BatchSize BY <1>0, <1>p, <2>1, <3>1, <4>1, <4>3 DEF Cut, Base
      <4>5. Base \in Nat /\ Multiple(Base) BY <1>0, <2>1 DEF Cut, RanOnce, TypeOK
      <4>6. Multiple(Base + BatchSize) BY <4>5, Onward
      <4> QED BY <3>1, <4>4, <4>6
    <3> QED BY <2>0, <3>2, <3>3 DEF NextBatch
  <2>3. NextBatch' BY <2>0, <2>2 DEF NextBatch
  <2> QED BY <1>0, <2>0, <2>3 DEF RanOnce, FiledOnce, ThisBatch, Inside, Quiet, Active
<1>20. CASE Resume
  <2>0. UNCHANGED <<ran, reran, disk>> /\ pc' \in {"pick", "refused"} BY <1>20 DEF Resume
  <2>1. CASE pc' = "pick"
    <3>1. Len(filed) % BatchSize = 0 /\ todo' = SubSeq(Plan, Len(filed) + 1, Planned)
      BY <1>20, <2>1 DEF Resume, Resumable, Offset
    <3>2. Multiple(Len(filed)) BY <1>0, <3>1, Divided
    <3> QED
      BY <1>0, <2>0, <2>1, <3>1, <3>2 DEF RanOnce, FiledOnce, NextBatch, ThisBatch, Inside,
           Quiet, Active
  <2> QED
    BY <1>0, <2>0, <2>1 DEF RanOnce, FiledOnce, NextBatch, ThisBatch, Inside, Quiet, Active
<1>21. CASE Fault
  BY <1>0, <1>p, <1>21 DEF RanOnce, FiledOnce, NextBatch, ThisBatch, Cut, Unheard, Counted,
     Base, Quiet, Active, Inside, Fault
<1>22. CASE \E x \in wire : Deliver(x)
  <2>1. UNCHANGED <<queue, i, ran, reran, filed, rows, folders, pc, raised>>
    BY <1>22 DEF Deliver
  <2> QED
    BY <1>0, <2>1 DEF RanOnce, FiledOnce, NextBatch, ThisBatch, Cut, Unheard, Counted, Base,
       Quiet, Active, Inside
<1>23. CASE UNCHANGED vars
  <2>1. UNCHANGED <<queue, i, ran, reran, filed, rows, folders, pc, raised>>
    BY <1>23 DEF vars
  <2> QED
    BY <1>0, <2>1 DEF RanOnce, FiledOnce, NextBatch, ThisBatch, Cut, Unheard, Counted, Base,
       Quiet, Active, Inside
<1>24. CASE NotNoted
  <2>1. /\ pc \in Inside /\ pc' # "pick" /\ pc' \notin {"wait", "file"}
        /\ UNCHANGED <<queue, ran, reran, filed, rows, folders>>
    BY <1>0, <1>24 DEF NotNoted, OneMoreFault, Throw, Step, NextMember, AfterMember, Inside,
       Quiet, Active
  <2>2. /\ pc' \in Quiet \cup {"box", "native"} =>
             (pc \in Quiet \cup {"box", "native"} /\ i' >= i) \/ (pc = "wait" /\ i' > i)
        /\ pc' = "score" => pc = "log" /\ i' = i
        /\ pc' = "cleanup" => raised' # "none"
    BY <1>0, <1>p, <2>1, <1>24 DEF NotNoted, OneMoreFault, Throw, Step, NextMember,
       AfterMember, Quiet, ThisBatch, Counted
  <2>3. pc' \in {"drain", "log"} => pc \notin {"score", "cleanup", "file"} /\ i' = 1
    BY <1>0, <1>p, <2>1, <1>24 DEF NotNoted, OneMoreFault, Throw, Step, NextMember,
       AfterMember, Quiet, ThisBatch, Counted
  <2> QED BY <1>0, <1>q, <2>1, <2>2, <2>3, BatchKept
<1> QED
  BY <1>1, <1>2, <1>3, <1>4, <1>5, <1>6, <1>7, <1>8, <1>9, <1>10, <1>11, <1>12,
     <1>13, <1>14, <1>15, <1>16, <1>17, <1>18, <1>19, <1>20, <1>21, <1>22, <1>23, <1>24
  DEF Next, Drive

(* Only the container at hand causes an alert.                             *)
LEMMA WireGrows ==
  ASSUME [Next]_vars
  PROVE  \A x \in wire' : \/ x \in wire
                          \/ /\ pc \in {"box", "native"} /\ x.cid = Here
                             /\ Program(x) => pc = "native"
<1>1. CASE Pick
  BY <1>1 DEF Caused, Program, Pick, collector, programs, containers, capture, queue, disk
<1>2. CASE Finish
  BY <1>2 DEF Caused, Program, Finish, collector, programs, containers, capture, queue, disk
<1>3. CASE Check
  BY <1>3 DEF Caused, Program, Check, Throw, Step, collector, programs, containers, capture,
     queue, disk
<1>4. CASE Setup
  BY <1>4 DEF Caused, Program, Setup, Throw, Abandon, Step, collector, programs, containers,
     capture, queue, disk
<1>5. CASE Settled
  BY <1>5 DEF Caused, Program, Settled, Throw, Abandon, Step, collector, programs,
     containers, capture, queue, disk
<1>6. CASE Before
  BY <1>6 DEF Caused, Program, Before, Throw, Abandon, Step, collector, programs, containers,
     capture, queue, disk
<1>7. CASE Cursor
  BY <1>7 DEF Caused, Program, Cursor, Throw, Abandon, Step, collector, programs, containers,
     capture, queue, disk
<1>8. CASE Box
  BY <1>8 DEF Caused, Program, Box, Throw, Step, collector, programs, containers, capture,
     queue, disk
<1>9. CASE BoxFails
  BY <1>9 DEF Caused, Program, BoxFails, OneMoreFault, Throw, Step, NextMember, AfterMember,
     collector, programs, containers, capture, queue, disk
<1>10. CASE Native
  BY <1>10 DEF Caused, Program, Native, Step, collector, programs, containers, capture,
     queue, disk
<1>11. CASE Return
  BY <1>11 DEF Caused, Program, Return, Step, NextMember, AfterMember, collector, programs,
     containers, capture, queue, disk
<1>12. CASE Timeout
  BY <1>12 DEF Caused, Program, Timeout, Throw, Step, NextMember, AfterMember, collector,
     programs, containers, capture, queue, disk
<1>13. CASE After
  BY <1>13 DEF Caused, Program, After, Step, collector, programs, containers, capture, queue, disk
<1>14. CASE ReadLog
  BY <1>14 DEF Caused, Program, ReadLog, Step, collector, programs, containers, capture,
     queue, disk
<1>15. CASE WriteFails
  BY <1>15 DEF Caused, Program, WriteFails, Throw, collector, programs, containers, capture,
     queue, disk
<1>16. CASE Score
  BY <1>16 DEF Caused, Program, Score, Throw, Step, NextMember, collector, programs,
     containers, capture, queue, disk
<1>17. CASE Cleanup
  BY <1>17 DEF Caused, Program, Cleanup, NoteFails, OneMoreFault, collector, programs,
     containers, capture, queue, disk
<1>18. CASE FileCampaign
  BY <1>18 DEF Caused, Program, FileCampaign, collector, programs, containers, capture,
     queue, disk
<1>19. CASE FileOther
  BY <1>19 DEF Caused, Program, FileOther, collector, programs, containers, capture, queue, disk
<1>20. CASE Resume
  BY <1>20 DEF Caused, Program, Resume, collector, programs, containers, capture, queue, disk
<1>21. CASE Fault
  BY <1>21 DEF Caused, Program, Fault, OneMoreFault, collector, programs, containers,
     capture, queue, disk
<1>22. CASE \E x \in wire : Deliver(x)
  BY <1>22 DEF Caused, Program, Deliver, collector, programs, containers, capture, queue, disk
<1>23. CASE UNCHANGED vars
  BY <1>23 DEF Caused, Program, vars, collector, programs, containers, capture, queue, disk
<1>24. CASE NotNoted
  BY <1>24 DEF Caused, Program, NotNoted, OneMoreFault, Throw, Step, NextMember, AfterMember,
     collector, programs, containers, capture, queue, disk
<1> QED
  BY <1>1, <1>2, <1>3, <1>4, <1>5, <1>6, <1>7, <1>8, <1>9, <1>10, <1>11, <1>12,
     <1>13, <1>14, <1>15, <1>16, <1>17, <1>18, <1>19, <1>20, <1>21, <1>22, <1>23, <1>24
  DEF Next, Drive

(* Attempts are only ever added to those that the pilot started.           *)
LEMMA RanGrows ==
  ASSUME [Next]_vars
  PROVE  ran \subseteq ran' /\ (pc = "native" /\ driver = "pilot" /\ pc' = "wait" => Here \in ran')
BY DEF Next, Drive, Pick, Finish, Check, Setup, Settled, Before, Cursor, Box, BoxFails,
   Native, Return, Timeout, NotNoted, OneMoreFault, NoteFails, After, ReadLog, WriteFails,
   Score, Cleanup, FileCampaign, FileOther, Resume, Fault, Deliver, vars, programs,
   containers

(* A program's alert is there when it was started.                         *)
LEMMA SourcesStep ==
  ASSUME Sources, [Next]_vars PROVE Sources'
<1> SUFFICES ASSUME driver = "pilot", NEW x \in wire', Program(x) PROVE x.cid \in ran'
  BY DriverStays DEF Sources
<1>1. CASE x \in wire BY <1>1, RanGrows DEF Sources
<1>2. CASE x \notin wire
  <2>1. pc = "native" /\ x.cid = Here BY <1>2, WireGrows
  <2>2. Native
    BY <1>2, <2>1 DEF Next, Drive, Pick, Finish, Check, Setup, Settled, Before, Cursor, Box,
       BoxFails, Return, Timeout, NotNoted, OneMoreFault, NoteFails, After, ReadLog,
       WriteFails, Score, Cleanup, FileCampaign, FileOther, Resume, Fault, Deliver, vars,
       collector
  <2> QED BY <2>1, <2>2 DEF Native
<1> QED BY <1>1, <1>2

(* The queue and the group, in every step but three.                       *)
LEMMA QueueStays ==
  ASSUME [Next]_vars
  PROVE  Pick \/ FileCampaign \/ Resume \/ UNCHANGED queue
BY DEF Next, Drive, Finish, Check, Setup, Settled, Before, Cursor, Box, BoxFails, Native,
   Return, Timeout, NotNoted, OneMoreFault, NoteFails, After, ReadLog, WriteFails, Score,
   Cleanup, FileOther, Fault, Deliver, vars, queue, Throw, Abandon, Step

(* The first attempts in the queue after every step.                       *)
LEMMA UntriedStep ==
  ASSUME CaptureAssumption, TypeOK, Placed, Untried, [Next]_vars PROVE Untried'
<1> SUFFICES ASSUME Campaign,
                    NEW j \in DOMAIN todo', todo'[j][2] = 1
             PROVE  /\ \A k \in DOMAIN todo' : todo'[k] = todo'[j] => k = j
                    /\ todo'[j] \notin Members'
                    /\ \A x \in wire' : x.cid # todo'[j]
  BY DriverStays DEF Untried, Campaign
<1>0. todo \in Seq(Attempts) /\ group \in Seq(Attempts) BY DEF TypeOK
<1>1. ASSUME NEW a \in Attempts, a \notin Members, \A x \in wire : x.cid # a
      PROVE  \A x \in wire' : x.cid # a
  <2> SUFFICES ASSUME NEW x \in wire', x.cid = a PROVE FALSE OBVIOUS
  <2>1. pc \in Inside /\ x.cid = Here BY <1>1, WireGrows DEF Inside, Active
  <2>2. Here \in Members BY <2>1, HereType, TypesMean
  <2> QED BY <1>1, <2>1, <2>2
<1>2. CASE UNCHANGED queue
  <2>1. todo' = todo /\ Members' = Members BY <1>2 DEF queue, Members
  <2>2. /\ \A k \in DOMAIN todo : todo[k] = todo[j] => k = j
        /\ todo[j] \notin Members /\ \A x \in wire : x.cid # todo[j]
    BY <2>1 DEF Untried
  <2>3. todo[j] \in Attempts BY <1>0, <2>1
  <2>4. \A x \in wire' : x.cid # todo[j] BY <1>1, <2>2, <2>3
  <2> QED BY <2>1, <2>2, <2>4
<1>3. CASE Pick /\ ~UNCHANGED queue
  <2>1. /\ group' = SubSeq(todo, 1, GroupLen)
        /\ todo' = SubSeq(todo, GroupLen + 1, Len(todo)) /\ wire' = wire
    BY <1>3 DEF Pick, collector
  <2>2. /\ GroupLen \in 1..Len(todo) /\ DOMAIN group' = 1..GroupLen
        /\ DOMAIN todo' = 1..Len(todo) - GroupLen
    BY <1>3, <2>1, Picked
  <2>3. \A k \in 1..GroupLen : k \in DOMAIN todo /\ group'[k] = todo[k] BY <1>3, <2>1, Picked
  <2>4. \A k \in 1..Len(todo) - GroupLen :
          k + GroupLen \in DOMAIN todo /\ todo'[k] = todo[k + GroupLen]
    BY <1>3, <2>1, Picked
  <2>5. j + GroupLen \in DOMAIN todo /\ todo'[j] = todo[j + GroupLen] BY <2>2, <2>4
  <2>6. /\ \A k \in DOMAIN todo : todo[k] = todo'[j] => k = j + GroupLen
        /\ \A x \in wire : x.cid # todo'[j]
    BY <2>5 DEF Untried
  <2>7. Len(todo) \in Nat /\ j \in Nat /\ j >= 1 BY <1>0, <2>2
  <2>8. \A k \in DOMAIN todo' : todo'[k] = todo'[j] => k = j
    <3> SUFFICES ASSUME NEW k \in DOMAIN todo', todo'[k] = todo'[j] PROVE k = j OBVIOUS
    <3>1. k + GroupLen = j + GroupLen BY <2>2, <2>4, <2>6
    <3> QED BY <2>2, <2>7, <3>1
  <2>9. todo'[j] \notin Members'
    <3> SUFFICES ASSUME NEW k \in DOMAIN group', group'[k] = todo'[j] PROVE FALSE
      BY DEF Members
    <3>1. k = j + GroupLen BY <2>2, <2>3, <2>6
    <3> QED BY <2>2, <2>7, <3>1
  <2> QED BY <2>1, <2>6, <2>8, <2>9
<1>4. CASE FileCampaign /\ ~UNCHANGED queue
  <2> DEFINE new == IF ChangedSince THEN <<Row(Here, "fatal")>> ELSE Verdicts
  <2>1. new \in Seq(Rows)
    <3>0. pc \in Inside BY <1>4 DEF FileCampaign, Inside
    <3>1. Here \in Attempts BY <3>0, HereType, TypesMean
    <3>2. Row(Here, "fatal") \in Rows BY <3>1, RowType DEF Statuses
    <3>3. <<Row(Here, "fatal")>> \in Seq(Rows) BY <3>2
    <3> QED BY <3>3, VerdictsType
  <2> HIDE DEF new
  <2>2. todo' = Replacements(new) \o todo /\ group' = group /\ wire' = wire
    BY <1>4 DEF FileCampaign, queue, new, collector
  <2> DEFINE again == Replacements(new)
  <2>3. again \in Seq(Later) BY <2>1, ReplacementsType
  <2> HIDE DEF again
  <2>4. /\ \A k \in DOMAIN again : again[k] \in Later
        /\ Later \subseteq Attempts
    BY <2>3 DEF Later
  <2>5. again \in Seq(Attempts) BY <2>3, <2>4, SeqMonotonic
  <2>6. todo' = again \o todo BY <2>2 DEF again
  <2>7. \A k \in DOMAIN todo' :
          \/ k \in DOMAIN again /\ todo'[k] = again[k]
          \/ k \notin DOMAIN again /\ k - Len(again) \in DOMAIN todo
             /\ todo'[k] = todo[k - Len(again)]
    BY <1>0, <2>5, <2>6, Behindhand
  <2>8. \A k \in DOMAIN again : again[k][2] # 1
    BY <2>4 DEF Later, Attempts
  <2>9. j - Len(again) \in DOMAIN todo /\ todo'[j] = todo[j - Len(again)] BY <2>7, <2>8
  <2>10. /\ \A k \in DOMAIN todo : todo[k] = todo'[j] => k = j - Len(again)
         /\ todo'[j] \notin Members /\ \A x \in wire : x.cid # todo'[j]
    BY <2>9 DEF Untried
  <2>11. \A k \in DOMAIN todo' : todo'[k] = todo'[j] => k = j
    <3> SUFFICES ASSUME NEW k \in DOMAIN todo', todo'[k] = todo'[j] PROVE k = j OBVIOUS
    <3>1. k - Len(again) = j - Len(again) BY <2>7, <2>8, <2>10
    <3>2. Len(again) \in Nat BY <2>5
    <3>3. k \in Nat /\ j \in Nat
      <4>1. todo' \in Seq(Attempts) BY <1>0, <2>5, <2>6
      <4> QED BY <4>1
    <3> QED BY <3>1, <3>2, <3>3
  <2>12. Members' = Members BY <2>2 DEF Members
  <2> QED BY <2>2, <2>10, <2>11, <2>12
<1>5. CASE Resume BY <1>5 DEF Resume, Placed, Campaign
<1> QED BY <1>2, <1>3, <1>4, <1>5, QueueStays

(* The drops that were counted.                                            *)
LEMMA CountingStep ==
  ASSUME TypeOK, Counting, [Next]_vars PROVE Counting'
<1>0. falco \in Health /\ before \in Health BY TypesMean DEF Told
<1>1. CASE Pick
  BY <1>0, <1>1 DEF Counting, Health, NoState, Restarted, Pick, collector, programs,
     containers, capture, queue, disk
<1>2. CASE Finish
  BY <1>0, <1>2 DEF Counting, Health, NoState, Restarted, Finish, collector, programs,
     containers, capture, queue, disk
<1>3. CASE Check
  BY <1>0, <1>3 DEF Counting, Health, NoState, Restarted, Check, Throw, Step, collector,
     programs, containers, capture, queue, disk
<1>4. CASE Setup
  BY <1>0, <1>4 DEF Counting, Health, NoState, Restarted, Setup, Throw, Abandon, Step,
     collector, programs, containers, capture, queue, disk
<1>5. CASE Settled
  BY <1>0, <1>5 DEF Counting, Health, NoState, Restarted, Settled, Throw, Abandon, Step,
     collector, programs, containers, capture, queue, disk
<1>6. CASE Before
  BY <1>0, <1>6 DEF Counting, Health, NoState, Restarted, Before, Throw, Abandon, Step,
     collector, programs, containers, capture, queue, disk
<1>7. CASE Cursor
  BY <1>0, <1>7 DEF Counting, Health, NoState, Restarted, Cursor, Throw, Abandon, Step,
     collector, programs, containers, capture, queue, disk
<1>8. CASE Box
  BY <1>0, <1>8 DEF Counting, Health, NoState, Restarted, Box, Throw, Step, collector,
     programs, containers, capture, queue, disk
<1>9. CASE BoxFails
  BY <1>0, <1>9 DEF Counting, Health, NoState, Restarted, BoxFails, OneMoreFault, Throw,
     Step, NextMember, AfterMember, collector, programs, containers, capture, queue, disk
<1>10. CASE Native
  BY <1>0, <1>10 DEF Counting, Health, NoState, Restarted, Native, Step, collector, programs,
     containers, capture, queue, disk
<1>11. CASE Return
  BY <1>0, <1>11 DEF Counting, Health, NoState, Restarted, Return, Step, NextMember,
     AfterMember, collector, programs, containers, capture, queue, disk
<1>12. CASE Timeout
  BY <1>0, <1>12 DEF Counting, Health, NoState, Restarted, Timeout, Throw, Step, NextMember,
     AfterMember, collector, programs, containers, capture, queue, disk
<1>13. CASE After
  BY <1>0, <1>13 DEF Counting, Health, NoState, Restarted, After, Step, collector, programs,
     containers, capture, queue, disk
<1>14. CASE ReadLog
  BY <1>0, <1>14 DEF Counting, Health, NoState, Restarted, ReadLog, Step, collector,
     programs, containers, capture, queue, disk
<1>15. CASE WriteFails
  BY <1>0, <1>15 DEF Counting, Health, NoState, Restarted, WriteFails, Throw, collector,
     programs, containers, capture, queue, disk
<1>16. CASE Score
  BY <1>0, <1>16 DEF Counting, Health, NoState, Restarted, Score, Throw, Step, NextMember,
     collector, programs, containers, capture, queue, disk
<1>17. CASE Cleanup
  BY <1>0, <1>17 DEF Counting, Health, NoState, Restarted, Cleanup, NoteFails, OneMoreFault,
     collector, programs, containers, capture, queue, disk
<1>18. CASE FileCampaign
  BY <1>0, <1>18 DEF Counting, Health, NoState, Restarted, FileCampaign, collector, programs,
     containers, capture, queue, disk
<1>19. CASE FileOther
  BY <1>0, <1>19 DEF Counting, Health, NoState, Restarted, FileOther, collector, programs,
     containers, capture, queue, disk
<1>20. CASE Resume
  BY <1>0, <1>20 DEF Counting, Health, NoState, Restarted, Resume, collector, programs,
     containers, capture, queue, disk
<1>21. CASE Fault
  BY <1>0, <1>21 DEF Counting, Health, NoState, Restarted, Fault, OneMoreFault, collector,
     programs, containers, capture, queue, disk
<1>22. CASE \E x \in wire : Deliver(x)
  BY <1>0, <1>22 DEF Counting, Health, NoState, Restarted, Deliver, collector, programs,
     containers, capture, queue, disk
<1>23. CASE UNCHANGED vars
  BY <1>0, <1>23 DEF Counting, Health, NoState, Restarted, vars, collector, programs,
     containers, capture, queue, disk
<1>24. CASE NotNoted
  BY <1>0, <1>24 DEF Counting, Health, NoState, Restarted, NotNoted, OneMoreFault, Throw,
     Step, NextMember, AfterMember, collector, programs, containers, capture, queue, disk
<1> QED
  BY <1>1, <1>2, <1>3, <1>4, <1>5, <1>6, <1>7, <1>8, <1>9, <1>10, <1>11, <1>12,
     <1>13, <1>14, <1>15, <1>16, <1>17, <1>18, <1>19, <1>20, <1>21, <1>22, <1>23, <1>24
  DEF Next, Drive

(* The programs that caused an alert are of the group.                     *)
LEMMA CaughtStep ==
  ASSUME TypeOK, Placed, Caught, [Next]_vars PROVE Caught'
<1>0. Caught /\ (pc \in Inside => Here \in Members) BY HereType, TypesMean
<1>1. CASE Pick
  BY <1>0, <1>1 DEF Caught, Members, Inside, Active, Pick, collector, programs, containers,
     capture, queue, disk
<1>2. CASE Finish
  BY <1>0, <1>2 DEF Caught, Members, Inside, Active, Finish, collector, programs, containers,
     capture, queue, disk
<1>3. CASE Check
  BY <1>0, <1>3 DEF Caught, Members, Inside, Active, Check, Throw, Step, collector, programs,
     containers, capture, queue, disk
<1>4. CASE Setup
  BY <1>0, <1>4 DEF Caught, Members, Inside, Active, Setup, Throw, Abandon, Step, collector,
     programs, containers, capture, queue, disk
<1>5. CASE Settled
  BY <1>0, <1>5 DEF Caught, Members, Inside, Active, Settled, Throw, Abandon, Step, collector,
     programs, containers, capture, queue, disk
<1>6. CASE Before
  BY <1>0, <1>6 DEF Caught, Members, Inside, Active, Before, Throw, Abandon, Step, collector,
     programs, containers, capture, queue, disk
<1>7. CASE Cursor
  BY <1>0, <1>7 DEF Caught, Members, Inside, Active, Cursor, Throw, Abandon, Step, collector,
     programs, containers, capture, queue, disk
<1>8. CASE Box
  BY <1>0, <1>8 DEF Caught, Members, Inside, Active, Box, Throw, Step, collector, programs,
     containers, capture, queue, disk
<1>9. CASE BoxFails
  BY <1>0, <1>9 DEF Caught, Members, Inside, Active, BoxFails, OneMoreFault, Throw, Step,
     NextMember, AfterMember, collector, programs, containers, capture, queue, disk
<1>10. CASE Native
  BY <1>0, <1>10 DEF Caught, Members, Inside, Active, Native, Step, collector, programs,
     containers, capture, queue, disk
<1>11. CASE Return
  BY <1>0, <1>11 DEF Caught, Members, Inside, Active, Return, Step, NextMember, AfterMember,
     collector, programs, containers, capture, queue, disk
<1>12. CASE Timeout
  BY <1>0, <1>12 DEF Caught, Members, Inside, Active, Timeout, Throw, Step, NextMember,
     AfterMember, collector, programs, containers, capture, queue, disk
<1>13. CASE After
  BY <1>0, <1>13 DEF Caught, Members, Inside, Active, After, Step, collector, programs,
     containers, capture, queue, disk
<1>14. CASE ReadLog
  BY <1>0, <1>14 DEF Caught, Members, Inside, Active, ReadLog, Step, collector, programs,
     containers, capture, queue, disk
<1>15. CASE WriteFails
  BY <1>0, <1>15 DEF Caught, Members, Inside, Active, WriteFails, Throw, collector, programs,
     containers, capture, queue, disk
<1>16. CASE Score
  BY <1>0, <1>16 DEF Caught, Members, Inside, Active, Score, Throw, Step, NextMember, collector,
     programs, containers, capture, queue, disk
<1>17. CASE Cleanup
  BY <1>0, <1>17 DEF Caught, Members, Inside, Active, Cleanup, NoteFails, OneMoreFault,
     collector, programs, containers, capture, queue, disk
<1>18. CASE FileCampaign
  BY <1>0, <1>18 DEF Caught, Members, Inside, Active, FileCampaign, collector, programs,
     containers, capture, queue, disk
<1>19. CASE FileOther
  BY <1>0, <1>19 DEF Caught, Members, Inside, Active, FileOther, collector, programs,
     containers, capture, queue, disk
<1>20. CASE Resume
  BY <1>0, <1>20 DEF Caught, Members, Inside, Active, Resume, collector, programs,
     containers, capture, queue, disk
<1>21. CASE Fault
  BY <1>0, <1>21 DEF Caught, Members, Inside, Active, Fault, OneMoreFault, collector,
     programs, containers, capture, queue, disk
<1>22. CASE \E x \in wire : Deliver(x)
  BY <1>0, <1>22 DEF Caught, Members, Inside, Active, Deliver, collector, programs,
     containers, capture, queue, disk
<1>23. CASE UNCHANGED vars
  BY <1>0, <1>23 DEF Caught, Members, Inside, Active, vars, collector, programs, containers,
     capture, queue, disk
<1>24. CASE NotNoted
  BY <1>0, <1>24 DEF Caught, Members, Inside, Active, NotNoted, OneMoreFault, Throw, Step,
     NextMember, AfterMember, collector, programs, containers, capture, queue, disk
<1> QED
  BY <1>1, <1>2, <1>3, <1>4, <1>5, <1>6, <1>7, <1>8, <1>9, <1>10, <1>11, <1>12,
     <1>13, <1>14, <1>15, <1>16, <1>17, <1>18, <1>19, <1>20, <1>21, <1>22, <1>23, <1>24
  DEF Next, Drive

(* Nothing is heard of a shared group before it is run.                    *)
LEMMA NoEchoStep ==
  ASSUME TypeOK, Placed, Placed', Untried, Sources, Batches', NoEcho, [Next]_vars PROVE NoEcho'
<1> SUFFICES ASSUME Shared', pc' \in Quiet, NEW x \in wire', Program(x)
             PROVE  x.cid \notin Members'
  BY DEF NoEcho
<1>1. CASE Pick
  <2>1. /\ group' = SubSeq(todo, 1, GroupLen)
        /\ todo' = SubSeq(todo, GroupLen + 1, Len(todo))
        /\ wire' = wire /\ driver' = driver /\ pc' = "check" /\ i' = 1 /\ ran' = ran
    BY <1>1 DEF Pick, Quiet, collector
  <2>2. DOMAIN group' = 1..GroupLen BY <1>1, <2>1, Picked
  <2>3. \A k \in 1..GroupLen : k \in DOMAIN todo /\ group'[k] = todo[k] BY <1>1, <2>1, Picked
  <2> SUFFICES ASSUME NEW k \in 1..GroupLen, x.cid = todo[k] PROVE FALSE
    BY <2>2, <2>3 DEF Members
  <2>4. CASE driver = "pilot"
    <3>1. x.cid \in ran BY <2>1, <2>4 DEF Sources
    <3>2. Unheard' /\ 1 \in Nat BY <2>1, <2>4 DEF Batches, ThisBatch, Inside, Quiet
    <3>3. k >= i' BY <2>1
    <3>4. group'[k] \notin ran' BY <2>1, <2>2, <3>2, <3>3 DEF Unheard, Quiet
    <3> QED BY <2>1, <2>3, <3>1, <3>4
  <2>5. CASE driver # "pilot"
    <3>1. Len(group') > 1 BY <2>1, <2>5 DEF Shared
    <3>2. driver = "batch" /\ group'[k][2] = 1 BY <2>1, <2>2, <2>5, <3>1 DEF Placed
    <3>3. Campaign BY <3>2 DEF Campaign
    <3>4. \A z \in wire : z.cid # todo[k] BY <2>3, <3>2, <3>3 DEF Untried
    <3> QED BY <2>1, <3>4
  <2> QED BY <2>4, <2>5
<1>2. CASE ~Pick
  <2>1. pc \in Quiet /\ UNCHANGED <<group, driver>>
    BY <1>2 DEF Next, Drive, Finish, Check, Setup, Settled, Before, Cursor, Box, BoxFails,
       Native, Return, Timeout, NotNoted, OneMoreFault, NoteFails, After, ReadLog,
       WriteFails, Score, Cleanup, FileCampaign, FileOther, Resume, Fault, Deliver, vars,
       queue, Throw, Abandon, Step, Quiet, Shared, NextMember, AfterMember
  <2>2. x \in wire BY <2>1, WireGrows DEF Quiet
  <2>3. Members' = Members /\ Shared BY <2>1 DEF Members, Shared
  <2> QED BY <2>1, <2>2, <2>3 DEF NoEcho
<1> QED BY <1>1, <1>2

(* No alert is under way when the journal is read.                         *)
LEMMA StillStep ==
  ASSUME CaptureAssumption, TypeOK, Placed, Still, [Next]_vars PROVE Still'
<1>0. driver \in {"single", "batch", "pilot", "qualify"} BY DEF TypeOK, CaptureAssumption
<1>1. CASE Pick
  BY <1>0, <1>1 DEF Still, Placed, Shared, Campaign, Pick, collector, programs, containers,
     capture, queue, disk
<1>2. CASE Finish
  BY <1>0, <1>2 DEF Still, Placed, Shared, Campaign, Finish, collector, programs, containers,
     capture, queue, disk
<1>3. CASE Check
  BY <1>0, <1>3 DEF Still, Placed, Shared, Campaign, Check, Throw, Step, collector, programs,
     containers, capture, queue, disk
<1>4. CASE Setup
  BY <1>0, <1>4 DEF Still, Placed, Shared, Campaign, Setup, Throw, Abandon, Step, collector,
     programs, containers, capture, queue, disk
<1>5. CASE Settled
  BY <1>0, <1>5 DEF Still, Placed, Shared, Campaign, Settled, Throw, Abandon, Step, collector,
     programs, containers, capture, queue, disk
<1>6. CASE Before
  BY <1>0, <1>6 DEF Still, Placed, Shared, Campaign, Before, Throw, Abandon, Step, Flushed,
     collector, programs, containers, capture, queue, disk
<1>7. CASE Cursor
  BY <1>0, <1>7 DEF Still, Placed, Shared, Campaign, Cursor, Throw, Abandon, Step, collector,
     programs, containers, capture, queue, disk
<1>8. CASE Box
  BY <1>0, <1>8 DEF Still, Placed, Shared, Campaign, Box, Throw, Step, collector, programs,
     containers, capture, queue, disk
<1>9. CASE BoxFails
  BY <1>0, <1>9 DEF Still, Placed, Shared, Campaign, BoxFails, OneMoreFault, Throw, Step,
     NextMember, AfterMember, collector, programs, containers, capture, queue, disk
<1>10. CASE Native
  BY <1>0, <1>10 DEF Still, Placed, Shared, Campaign, Native, Step, collector, programs,
     containers, capture, queue, disk
<1>11. CASE Return
  BY <1>0, <1>11 DEF Still, Placed, Shared, Campaign, Return, Step, NextMember, AfterMember,
     collector, programs, containers, capture, queue, disk
<1>12. CASE Timeout
  BY <1>0, <1>12 DEF Still, Placed, Shared, Campaign, Timeout, Throw, Step, NextMember,
     AfterMember, collector, programs, containers, capture, queue, disk
<1>13. CASE After
  BY <1>0, <1>13 DEF Still, Placed, Shared, Campaign, After, Step, Drained, collector,
     programs, containers, capture, queue, disk
<1>14. CASE ReadLog
  BY <1>0, <1>14 DEF Still, Placed, Shared, Campaign, ReadLog, Step, collector, programs,
     containers, capture, queue, disk
<1>15. CASE WriteFails
  BY <1>0, <1>15 DEF Still, Placed, Shared, Campaign, WriteFails, Throw, collector, programs,
     containers, capture, queue, disk
<1>16. CASE Score
  BY <1>0, <1>16 DEF Still, Placed, Shared, Campaign, Score, Throw, Step, NextMember, collector,
     programs, containers, capture, queue, disk
<1>17. CASE Cleanup
  BY <1>0, <1>17 DEF Still, Placed, Shared, Campaign, Cleanup, NoteFails, OneMoreFault,
     collector, programs, containers, capture, queue, disk
<1>18. CASE FileCampaign
  BY <1>0, <1>18 DEF Still, Placed, Shared, Campaign, FileCampaign, collector, programs,
     containers, capture, queue, disk
<1>19. CASE FileOther
  BY <1>0, <1>19 DEF Still, Placed, Shared, Campaign, FileOther, collector, programs,
     containers, capture, queue, disk
<1>20. CASE Resume
  BY <1>0, <1>20 DEF Still, Placed, Shared, Campaign, Resume, collector, programs,
     containers, capture, queue, disk
<1>21. CASE Fault
  BY <1>0, <1>21 DEF Still, Placed, Shared, Campaign, Fault, OneMoreFault, Quiet, collector,
     programs, containers, capture, queue, disk
<1>22. CASE \E x \in wire : Deliver(x)
  BY <1>0, <1>22 DEF Still, Placed, Shared, Campaign, Deliver, collector, programs,
     containers, capture, queue, disk
<1>23. CASE UNCHANGED vars
  BY <1>0, <1>23 DEF Still, Placed, Shared, Campaign, vars, collector, programs, containers,
     capture, queue, disk
<1>24. CASE NotNoted
  BY <1>0, <1>24 DEF Still, Placed, Shared, Campaign, NotNoted, OneMoreFault, Throw, Step,
     NextMember, AfterMember, collector, programs, containers, capture, queue, disk
<1> QED
  BY <1>1, <1>2, <1>3, <1>4, <1>5, <1>6, <1>7, <1>8, <1>9, <1>10, <1>11, <1>12,
     <1>13, <1>14, <1>15, <1>16, <1>17, <1>18, <1>19, <1>20, <1>21, <1>22, <1>23, <1>24
  DEF Next, Drive

(* What is under way and written tells what the programs did.              *)
LEMMA LiveStep ==
  ASSUME CaptureAssumption, TypeOK, TypeOK', Placed, Placed', Progress, Counting, NoEcho, Still,
         Live, [Next]_vars
  PROVE  Live'
<1> SUFFICES ASSUME Capturing', HealthOk(before, falco)' PROVE Tells(wire \cup journal)'
  BY DEF Live
<1>0. falco \in Health /\ before \in Health /\ (pc \in Inside => Here \in Members)
  BY HereType, TypesMean DEF Told
<1>1. ASSUME Capturing, HealthOk(before, falco), UNCHANGED <<hit, group, driver>>,
             {x \in wire' \cup journal' : Program(x)} = {x \in wire \cup journal : Program(x)},
             Shared \/ wire' \cup journal' \subseteq wire \cup journal
      PROVE  Tells(wire \cup journal)'
  <2>1. Tells(wire \cup journal) BY <1>1 DEF Live
  <2>2. Members' = Members /\ Shared' = Shared BY <1>1 DEF Members, Shared
  <2>3. \A a : Heard(a, wire' \cup journal') <=> Heard(a, wire \cup journal) BY <1>1 DEF Heard
  <2> QED BY <1>1, <2>1, <2>2, <2>3 DEF Tells
<1>2. CASE Cursor
  <2>1. /\ pc = "cursor" /\ pc \in Quiet /\ journal' = {}
        /\ UNCHANGED <<wire, hit, group, driver>>
    BY <1>2 DEF Cursor, Throw, Abandon, Step, Capturing, Quiet, programs, containers, queue, disk
  <2>2. hit' = {} /\ Members' = Members /\ Shared' = Shared
    BY <2>1 DEF Progress, Unrun, Members, Shared
  <2>3. CASE Shared
    <3>1. \A x \in wire : Program(x) => x.cid \notin Members BY <2>1, <2>3 DEF NoEcho
    <3> QED BY <2>1, <2>2, <2>3, <3>1 DEF Tells, Heard
  <2>4. CASE ~Shared
    <3>1. wire = {} BY <2>1, <2>4 DEF Still
    <3> QED BY <2>1, <2>2, <3>1 DEF Tells, Heard
  <2> QED BY <2>3, <2>4
<1>3. CASE Box
  <2>1. /\ Shared /\ pc = "box" /\ Capturing
        /\ UNCHANGED <<falco, before, journal, hit, group, driver>>
        /\ wire' \in {wire, wire \cup {[cid |-> Here, cause |-> "fixture"]}}
    BY <1>3 DEF Box, Throw, Step, Capturing, Caused, queue, capture, Shared
  <2>2. {x \in wire' \cup journal' : Program(x)} = {x \in wire \cup journal : Program(x)}
    BY <2>1 DEF Program
  <2> QED BY <1>1, <2>1, <2>2 DEF HealthOk
<1>4. CASE Native
  <2>1. /\ pc = "native" /\ pc \in Inside /\ Capturing
        /\ UNCHANGED <<falco, before, journal, group, driver>>
    BY <1>4 DEF Native, Capturing, queue, capture, Inside, Active
  <2>2. CASE UNCHANGED <<hit, wire>> BY <1>1, <2>1, <2>2 DEF HealthOk
  <2>3. CASE hit' = hit \cup {Here} /\ wire' = Caused([cid |-> Here, cause |-> "program"])
    <3> DEFINE new == [cid |-> Here, cause |-> "program"]
    <3>1. wire' = wire \cup {new} BY <2>1, <2>3 DEF HealthOk, Caused
    <3>2. new.cid = Here /\ Program(new) BY DEF Program
    <3> HIDE DEF new
    <3>3. Tells(wire \cup journal) BY <2>1 DEF Live, HealthOk
    <3>4. Members' = Members /\ Shared' = Shared BY <2>1 DEF Members, Shared
    <3>5. \A a : Heard(a, wire' \cup journal') <=> a = Here \/ Heard(a, wire \cup journal)
      BY <2>1, <3>1, <3>2 DEF Heard
    <3>6. ~Shared => \A x \in wire' \cup journal' : Program(x)
      BY <2>1, <3>1, <3>2, <3>3 DEF Tells
    <3> QED BY <2>3, <3>3, <3>4, <3>5, <3>6 DEF Tells
  <2> QED BY <1>4, <2>2, <2>3 DEF Native
<1>5. CASE \E x \in wire : Deliver(x)
  <2>1. /\ Capturing /\ UNCHANGED <<falco, before, hit, group, driver>>
        /\ wire' \cup journal' = wire \cup journal
    BY <1>5 DEF Deliver, Capturing, programs, containers, queue, capture, Shared
  <2> QED BY <1>1, <2>1 DEF HealthOk
<1>6. CASE Fault
  <2>1. /\ UNCHANGED <<before, journal, hit, group, driver>>
        /\ pc' = pc \/ pc' = "down"
    BY <1>6 DEF Fault, OneMoreFault, programs, containers, queue, capture
  <2>2. Capturing BY <2>1 DEF Capturing, Shared
  <2>3. UNCHANGED <<falco, wire>>
    <3>1. falco' # [falco EXCEPT !.drops = falco.drops + 1]
      BY <1>0, <2>1 DEF HealthOk, Counting, Health
    <3>2. falco' # [falco EXCEPT !.up = FALSE] BY <1>0 DEF HealthOk, Health
    <3> QED BY <1>6, <3>1, <3>2 DEF Fault
  <2> QED BY <1>1, <2>1, <2>2, <2>3 DEF HealthOk
<1>7. CASE BoxFails \/ Return \/ Timeout \/ NotNoted
  <2>1. /\ UNCHANGED <<falco, wire, journal, before, hit, group, driver>>
        /\ pc \in {"box", "wait"} /\ (pc = "box" => Shared)
    BY <1>7 DEF BoxFails, Return, Timeout, NotNoted, Throw, Step, collector, queue, capture,
       Capturing, Shared
  <2> QED BY <1>1, <2>1 DEF Capturing, HealthOk
<1>8. CASE UNCHANGED vars
  <2>1. UNCHANGED <<falco, wire, journal, before, hit, group, driver, pc>>
    BY <1>8 DEF vars, collector, programs, containers, queue, capture
  <2> QED BY <1>1, <2>1 DEF Capturing, Shared, HealthOk
<1>9. CASE Pick
  <2>1. pc' \in {"refused", "check", "box"} /\ (pc' = "box" => driver' = "qualify")
    BY <1>9 DEF Pick
  <2> QED BY <2>1, <1>9 DEF Capturing, Shared, Placed
<1>10. CASE Finish \/ Check \/ Setup \/ Settled \/ Before
  <2>1. pc' \in {"done", "failed", "cleanup", "setup", "settling", "cursor", "before", "box"}
    BY <1>10 DEF Finish, Check, Setup, Settled, Before, Throw, Abandon, Step
  <2>2. pc' = "box" => ~Shared /\ UNCHANGED queue /\ driver' = driver
    BY <1>10 DEF Finish, Check, Setup, Settled, Before, Throw, Abandon, Step
  <2> QED BY <2>1, <2>2 DEF Capturing, Shared, queue
<1>11. CASE \/ After \/ ReadLog \/ WriteFails \/ Score
            \/ Cleanup \/ FileCampaign \/ FileOther \/ Resume
  <2>1. pc' \in {"log", "score", "cleanup", "file", "stopped", "pick", "down", "refused"}
    BY <1>11 DEF After, ReadLog, WriteFails, Score, Cleanup, FileCampaign, FileOther,
       Resume, Throw, Step
  <2> QED BY <2>1 DEF Capturing
<1> QED
  BY <1>2, <1>3, <1>4, <1>5, <1>6, <1>7, <1>8, <1>9, <1>10, <1>11 DEF Next, Drive

(* Between the last snapshot and the reading of the journal.               *)
LEMMA WrittenStep ==
  ASSUME TypeOK, Live, Still, Written, [Next]_vars
  PROVE  Written'
<1> SUFFICES ASSUME pc' = "log", healthy' PROVE Tells(journal)'
  BY DEF Written
<1>1. CASE After
  <2>1. /\ pc = "drain" /\ wire = {} /\ HealthOk(before, falco)
        /\ UNCHANGED <<journal, hit, group, driver>>
    BY <1>1 DEF After, Drained, collector, programs, containers, queue
  <2>2. Tells(journal)
    <3>1. Tells(wire \cup journal) BY <2>1 DEF Live, Capturing
    <3>2. wire \cup journal = journal BY <2>1
    <3> QED BY <3>1, <3>2
  <2> QED BY <2>1, <2>2 DEF Tells, Members, Shared
<1>2. CASE ~After
  <2>1. pc = "log" /\ UNCHANGED <<healthy, hit, group, driver>>
    BY <1>2 DEF Next, Drive, Pick, Finish, Check, Setup, Settled, Before, Cursor, Box,
       BoxFails, Native, Return, Timeout, NotNoted, OneMoreFault, NoteFails, ReadLog,
       WriteFails, Score, Cleanup, FileCampaign, FileOther, Resume, Fault, Deliver, Throw,
       Abandon, Step, AfterMember, vars, programs, containers, queue, capture
  <2>2. wire = {} BY <2>1 DEF Still
  <2>3. journal' = journal
    BY <2>1, <2>2 DEF Next, Drive, Pick, Finish, Check, Setup, Settled, Before, Cursor, Box,
       BoxFails, Native, Return, Timeout, NotNoted, OneMoreFault, NoteFails, After, ReadLog,
       WriteFails, Score, Cleanup, FileCampaign, FileOther, Resume, Fault, Deliver, vars,
       collector
  <2>4. Tells(journal) BY <2>1 DEF Written
  <2> QED BY <2>1, <2>3, <2>4 DEF Tells, Members, Shared
<1> QED BY <1>1, <1>2

(* The alerts that the rows are made from.                                 *)
LEMMA ReadStep ==
  ASSUME Written, Read, [Next]_vars
  PROVE  Read'
<1> SUFFICES ASSUME pc' \in {"score", "cleanup", "file"}, raised' = "none", healthy'
             PROVE  Tells(log)'
  BY DEF Read
<1>1. CASE ReadLog
  <2>1. pc = "log" /\ healthy /\ log' = journal /\ UNCHANGED <<hit, group, driver>>
    BY <1>1 DEF ReadLog, programs, containers, queue
  <2> QED BY <2>1 DEF Written, Tells, Members, Shared
<1>2. CASE ~ReadLog
  <2>1. /\ pc \in {"score", "cleanup", "file"} /\ raised = "none"
        /\ UNCHANGED <<log, healthy, hit, group, driver>>
    BY <1>2 DEF Next, Drive, Pick, Finish, Check, Setup, Settled, Before, Cursor, Box,
       BoxFails, Native, Return, Timeout, NotNoted, OneMoreFault, NoteFails, After,
       WriteFails, Score, Cleanup, FileCampaign, FileOther, Resume, Fault, Deliver, Throw,
       Abandon, Step, AfterMember, CleanupFailed, vars, programs, containers, queue, capture
  <2> QED BY <2>1 DEF Read, Tells, Members, Shared
<1> QED BY <1>1, <1>2

(* What a row says is what happened.                                       *)
RowRight(r) ==
  /\ r.status = "valid" => outcome[r.aid] = "ok" /\ (r.fired <=> r.aid \in hit)
  /\ outcome[r.aid] \in {"bad", "timeout"} /\ (Campaign /\ ~Shared => r.aid \in noted) =>
       r.status \in {"behavior-failure", "fatal"}
  /\ Campaign /\ r.status = "valid" => r.aid \notin impure
RowsRight == \A k \in DOMAIN rows : RowRight(rows[k])

(* Each row being right is what the three properties of rows say.          *)
LEMMA RowsMean == RowsRight <=> ValidIsWitnessed /\ NativeOutcomeKept /\ FrozenWhenRun
BY DEF RowsRight, RowRight, ValidIsWitnessed, NativeOutcomeKept, FrozenWhenRun

(* A member that is classified gets the row it should.                     *)
LEMMA ClassRight ==
  ASSUME TypeOK, Progress, Read, pc \in {"score", "file"}, raised = "none",
         NEW a \in Attempts, a \in Members, Campaign => impure = {}
  PROVE  RowRight(Row(a, Class(a)))
<1>1. ASSUME Class(a) = "valid"
      PROVE  outcome[a] = "ok" /\ (RowAlerts(a) # {} <=> a \in hit)
  <2>1. outcome[a] = "ok" /\ healthy BY <1>1 DEF Class
  <2>2. a \in started BY <2>1 DEF Progress
  <2>3. (a \in hit <=> Heard(a, log)) /\ (~Shared => \A x \in log : Program(x))
    BY <2>1 DEF Read, Tells
  <2>4. RowAlerts(a) # {} <=> Heard(a, log)
    BY <2>2, <2>3 DEF RowAlerts, AttributedAlerts, Heard, Program
  <2> QED BY <2>1, <2>3, <2>4
<1>2. outcome[a] \in {"bad", "timeout"} => Class(a) = "behavior-failure"
  BY DEF Class, Progress
<1>3. Row(a, Class(a)).aid = a /\ Row(a, Class(a)).status = Class(a)
      /\ (Row(a, Class(a)).fired <=> RowAlerts(a) # {})
  BY DEF Row
<1> QED BY <1>1, <1>2, <1>3 DEF RowRight

(* So does one whose capture was cut short.                                *)
LEMMA StatusRight ==
  ASSUME TypeOK, Progress, Read, pc = "file", Campaign,
         NEW a \in Attempts, a \in Members, Campaign /\ raised = "none" => impure = {}
  PROVE  RowRight(Row(a, StatusOf(a)))
<1>1. CASE raised = "none"
  <2>1. StatusOf(a) = Class(a) BY <1>1 DEF StatusOf
  <2> QED BY <1>1, <2>1, ClassRight
<1>2. CASE raised = "measurement"
  <2>1. StatusOf(a) = IF a \in noted /\ outcome[a] # "ok"
                      THEN "behavior-failure" ELSE "measurement-failure"
    BY <1>2 DEF StatusOf
  <2>2. Shared => outcome[a] = "none" BY <1>2 DEF Progress, Unrun
  <2> QED BY <2>1, <2>2 DEF RowRight, Row
<1>3. CASE raised = "timeout"
  <2>1. StatusOf(a) = "behavior-failure" BY <1>3 DEF StatusOf
  <2> QED BY <2>1 DEF RowRight, Row
<1>4. CASE raised = "fatal"
  <2>1. StatusOf(a) = "fatal" BY <1>4 DEF StatusOf
  <2> QED BY <2>1 DEF RowRight, Row
<1> QED BY <1>1, <1>2, <1>3, <1>4 DEF TypeOK

(* Rows that are right and rows that are added are all right.              *)
LEMMA FiledRight ==
  ASSUME TypeOK, RowsRight, NEW new \in Seq(Rows), File(new),
         \A k \in DOMAIN new : RowRight(new[k]),
         UNCHANGED <<outcome, hit, impure, noted, driver, group>>
  PROVE  RowsRight'
<1>1. rows \in Seq(Rows) /\ rows' = rows \o new BY DEF TypeOK, Rows, File
<1>2. ASSUME NEW k \in DOMAIN rows' PROVE RowRight(rows'[k])
  <2>1. \/ k \in DOMAIN rows /\ rows'[k] = rows[k]
        \/ k - Len(rows) \in DOMAIN new /\ rows'[k] = new[k - Len(rows)]
    BY <1>1, Behindhand
  <2> QED BY <2>1 DEF RowsRight
<1> QED BY <1>2 DEF RowsRight, RowRight, Campaign, Shared

(* The rows after every step.                                              *)
LEMMA RowsStep ==
  ASSUME TypeOK, Placed, Progress, Purity, Read, RowsRight, [Next]_vars PROVE RowsRight'
<1>0. /\ pc \in Inside => Here \in Attempts /\ Here \in Members /\ i \in 1..Len(group)
      /\ group \in Seq(Attempts)
      /\ \A k \in DOMAIN group : group[k] \in Attempts /\ group[k] \in Members
  BY HereType, TypesMean DEF Lists, Members
<1>1. CASE Pick
  <2>1. rows' = << >> BY <1>1 DEF Pick
  <2> QED BY <2>1 DEF RowsRight
<1>2. CASE Native \/ Return \/ Timeout \/ NotNoted
  <2>1. pc \in {"native", "wait"} /\ rows' = rows
    BY <1>2 DEF Native, Return, Timeout, NotNoted, Throw, Step, disk
  <2>2. rows = << >> BY <2>1 DEF Progress, Inside, Active
  <2> QED BY <2>1, <2>2 DEF RowsRight
<1>3. CASE UNCHANGED <<rows, outcome, hit, impure, noted, driver, group>>
  BY <1>3 DEF RowsRight, RowRight, Campaign, Shared
<1>4. CASE Score /\ ~UNCHANGED rows
  <2>1. /\ pc = "score" /\ driver = "pilot" /\ File(<<Row(Here, Class(Here))>>)
        /\ UNCHANGED <<outcome, hit, impure, noted, driver, group>>
    BY <1>4 DEF Score, Throw, Step, disk, programs, containers, queue
  <2>2. raised = "none" /\ Here \in Attempts /\ Here \in Members
    BY <1>0, <2>1 DEF Placed, Inside, Active
  <2>3. RowRight(Row(Here, Class(Here))) BY <2>1, <2>2, ClassRight DEF Campaign
  <2> DEFINE new == <<Row(Here, Class(Here))>>
  <2>4. new \in Seq(Rows)
    <3>1. Row(Here, Class(Here)) \in Rows BY <2>2, RowType
    <3> QED BY <3>1
  <2>5. \A k \in DOMAIN new : RowRight(new[k]) BY <2>3
  <2>6. File(new) BY <2>1
  <2> HIDE DEF new
  <2> QED BY <2>1, <2>4, <2>5, <2>6, FiledRight
<1>5. CASE FileCampaign
  <2>0. /\ pc = "file" /\ pc \in Inside /\ Campaign /\ UNCHANGED <<outcome, hit, impure, noted, driver, group>>
    BY <1>5 DEF FileCampaign, programs, containers, queue, Inside
  <2> DEFINE new == IF ChangedSince THEN <<Row(Here, "fatal")>> ELSE Verdicts
  <2>1. new \in Seq(Rows)
    <3>1. Row(Here, "fatal") \in Rows BY <1>0, <2>0, RowType DEF Statuses
    <3>2. <<Row(Here, "fatal")>> \in Seq(Rows) BY <3>1
    <3> QED BY <3>2, VerdictsType
  <2>2. \A k \in DOMAIN new : RowRight(new[k])
    <3>1. CASE ChangedSince
      <4>1. RowRight(Row(Here, "fatal")) BY DEF RowRight, Row
      <4> QED BY <3>1, <4>1
    <3>2. CASE ~ChangedSince
      <4>1. Campaign /\ raised = "none" => impure = {}
        <5> SUFFICES ASSUME raised = "none" PROVE impure = {} OBVIOUS
        <5>1. CASE Shared BY <2>0, <5>1 DEF Purity
        <5>2. CASE ~Shared
          <6>1. frozen BY <2>0, <3>2, <5>2 DEF ChangedSince, Verified
          <6> QED BY <6>1 DEF Purity
        <5> QED BY <5>1, <5>2
      <4>2. \A k \in DOMAIN group : RowRight(Row(group[k], StatusOf(group[k])))
        BY <1>0, <2>0, <4>1, StatusRight
      <4>3. \A k \in DOMAIN Verdicts : RowRight(Verdicts[k]) BY <4>2 DEF Verdicts
      <4> QED BY <3>2, <4>3
    <3> QED BY <3>1, <3>2
  <2>3. File(new) BY <1>5 DEF FileCampaign
  <2> HIDE DEF new
  <2> QED BY <2>0, <2>1, <2>2, <2>3, FiledRight
<1>6. CASE FileOther /\ ~UNCHANGED rows
  <2> DEFINE status == IF raised = "none" THEN Class(Here) ELSE "behavior-failure"
             new == <<Row(Here, status)>>
  <2>0. /\ pc = "file" /\ pc \in Inside /\ ~Campaign /\ UNCHANGED <<outcome, hit, impure, noted, driver, group>>
        /\ File(new)
    BY <1>6 DEF FileOther, programs, containers, disk, queue, Inside
  <2>1. Here \in Attempts /\ Here \in Members BY <1>0, <2>0
  <2>2. RowRight(Row(Here, status))
    <3>1. CASE raised = "none" BY <2>0, <2>1, <3>1, ClassRight
    <3>2. CASE raised # "none" BY <2>0, <3>2 DEF RowRight, Row
    <3> QED BY <3>1, <3>2
  <2>3. new \in Seq(Rows)
    <3>1. status \in Statuses BY <2>1, RowType DEF Statuses
    <3>2. Row(Here, status) \in Rows BY <2>1, <3>1, RowType
    <3> QED BY <3>2
  <2>4. \A k \in DOMAIN new : RowRight(new[k]) BY <2>2
  <2> HIDE DEF new
  <2> QED BY <2>0, <2>3, <2>4, FiledRight
<1> QED
  BY <1>1, <1>2, <1>3, <1>4, <1>5, <1>6
  DEF Next, Drive, Finish, Check, Setup, Settled, Before, Cursor, Box, BoxFails, After, ReadLog,
      WriteFails, Score, Cleanup, FileOther, Resume, Fault, Deliver, Throw, Abandon, Step, vars,
      programs, containers, queue, disk

(***************************************************************************)
(* The theorems.                                                           *)
(***************************************************************************)

(* The invariant holds at the start and after every step.                  *)
LEMMA Invariant ==
  ASSUME CaptureAssumption PROVE Spec => []IInv
<1>1. Init => IInv
  <2> SUFFICES ASSUME Init PROVE IInv OBVIOUS
  <2>0. /\ pc = "pick" /\ group = << >> /\ rows = << >> /\ filed = << >> /\ todo = Plan
        /\ wire = {} /\ ran = {} /\ folders = {} /\ raised = "none"
    BY DEF Init
  <2>1. TypeOK
    <3>1. Told BY DEF Init, Told, Health, NoState
    <3>2. Done BY DEF Init, Done
    <3>3. Flags
      <4>1. faults = 0 /\ 0 \in 0..MaxFaults BY DEF Init, CaptureAssumption
      <4>2. pc \in Pcs /\ driver \in Drivers BY <2>0 DEF Init, Pcs
      <4>3. frozen \in BOOLEAN /\ healthy \in BOOLEAN /\ reran \in BOOLEAN BY DEF Init
      <4> QED BY <2>0, <4>1, <4>2, <4>3 DEF Flags
    <3>4. Lists
      <4>1. Plan \in Seq(Attempts) BY PlanType
      <4>2. << >> \in Seq(Attempts) /\ << >> \in Seq(Rows) OBVIOUS
      <4> QED BY <4>1, <4>2 DEF Init, Lists
    <3> QED BY <3>1, <3>2, <3>3, <3>4, TypesMean
  <2>2. Len(group) = 0 /\ Len(rows) = 0 /\ Len(filed) = 0 /\ Members = {}
    <3>1. DOMAIN group = {} /\ Len(<< >>) = 0 BY <2>0
    <3> QED BY <2>0, <3>1 DEF Members
  <2>3. Placed BY <2>0, <2>2 DEF Placed, Quiet, Active, Inside
  <2>4. Progress
    <3>1. \A a \in Attempts : outcome[a] = "none" BY DEF Init
    <3> QED BY <2>0, <3>1 DEF Progress, Quiet, Active, Inside
  <2>5. Purity /\ Sources BY DEF Init, Purity, Sources, Program
  <2>6. Tidy BY DEF Init, Tidy, Shared, Inside, Quiet, Active
  <2>7. Batches
    <3>1. RanOnce BY DEF Init, RanOnce
    <3>2. /\ Planned \in Nat \ {0} /\ BatchSize \in Nat
          /\ Plan \in Seq(Attempts) /\ Len(Plan) = Planned
      BY PlanType
    <3>3. FiledOnce
      <4>1. SubSeq(Plan, 1, 0) = << >> BY <3>2
      <4> QED BY <2>0, <2>2, <3>2, <4>1 DEF FiledOnce
    <3>4. NextBatch
      <4>1. SubSeq(Plan, 1, Planned) = Plan BY <3>2
      <4>2. Multiple(0)
        <5>1. 0 = 0 * BatchSize BY <3>2
        <5> QED BY <5>1 DEF Multiple
      <4> QED BY <2>0, <2>2, <4>1, <4>2 DEF NextBatch
    <3>5. ThisBatch BY <2>0 DEF ThisBatch, Inside, Quiet, Active
    <3> QED BY <3>1, <3>3, <3>4, <3>5 DEF Batches
  <2>8. Untried
    <3>1. \A s \in 1..Planned : Plan[s] = <<s, 1>> BY PlanType
    <3>2. DOMAIN Plan = 1..Planned BY DEF Plan
    <3>3. \A j, k \in DOMAIN Plan : Plan[k] = Plan[j] => k = j BY <3>1, <3>2
    <3> QED BY <2>0, <2>2, <3>3 DEF Untried
  <2>9. Listening
    <3>1. Counting BY DEF Init, Counting, NoState
    <3>2. Caught BY DEF Init, Caught
    <3>3. NoEcho /\ Still /\ Live /\ Written /\ Read
      BY <2>0 DEF NoEcho, Still, Live, Written, Read, Capturing, Quiet
    <3> QED BY <3>1, <3>2, <3>3 DEF Listening
  <2>10. RowsRight BY <2>0 DEF RowsRight
  <2> QED BY <2>1, <2>3, <2>4, <2>5, <2>6, <2>7, <2>8, <2>9, <2>10, RowsMean DEF IInv
<1>2. IInv /\ [Next]_vars => IInv'
  <2> SUFFICES ASSUME IInv, [Next]_vars PROVE IInv' OBVIOUS
  <2>0. /\ TypeOK /\ Placed /\ Progress /\ Purity /\ Tidy /\ Batches /\ Untried /\ Sources
        /\ Counting /\ Caught /\ NoEcho /\ Still /\ Live /\ Written /\ Read /\ RowsRight
    BY RowsMean DEF IInv, Listening
  <2>1. TypeOK' BY <2>0, TypesStep
  <2>2. Placed' BY <2>0, PlacedStep
  <2>3. Progress' BY <2>0, <2>2, ProgressStep
  <2>4. Purity' BY <2>0, <2>2, PurityStep
  <2>5. Tidy' BY <2>0, <2>2, TidyStep
  <2>6. Batches' BY <2>0, <2>1, <2>2, BatchesStep
  <2>7. Untried' /\ Sources' BY <2>0, UntriedStep, SourcesStep
  <2>8. Counting' /\ Caught' BY <2>0, CountingStep, CaughtStep
  <2>9. NoEcho' BY <2>0, <2>2, <2>6, NoEchoStep
  <2>10. Still' BY <2>0, StillStep
  <2>11. Live' BY <2>0, <2>1, <2>2, LiveStep
  <2>12. Written' /\ Read' BY <2>0, WrittenStep, ReadStep
  <2>13. RowsRight' BY <2>0, RowsStep
  <2>14. (ValidIsWitnessed /\ NativeOutcomeKept /\ FrozenWhenRun)'
    BY <2>13 DEF RowsRight, RowRight, ValidIsWitnessed, NativeOutcomeKept, FrozenWhenRun
  <2> QED
    BY <2>1, <2>2, <2>3, <2>4, <2>5, <2>6, <2>7, <2>8, <2>9, <2>10, <2>11, <2>12, <2>14
    DEF IInv, Listening
<1> QED BY <1>1, <1>2, PTL DEF Spec

(* Every state has the types that the model declares (LinuxCapture.tla).   *)
THEOREM CaptureTypes == Spec => []TypeOK
<1>1. IInv => TypeOK BY DEF IInv
<1> QED BY <1>1, Invariant, CaptureAssumption, PTL

(* A row filed as valid says an alert exactly when the measured program    *)
(* itself caused one and ran to its end, for every plan, batch size and    *)
(* number of faults (run.py:56-65, 144-202, batch_composites.py:75-95).    *)
THEOREM ValidRowsWitnessed == Spec => []ValidIsWitnessed
<1>1. IInv => ValidIsWitnessed BY DEF IInv
<1> QED BY <1>1, Invariant, CaptureAssumption, PTL

(* A program that failed or hung is never filed as a failure of the        *)
(* collector, except where a single capture of a campaign could not write  *)
(* its execution.json (run.py:168-176, composites.py:92-98,                *)
(* batch_composites.py:89-95).                                             *)
THEOREM NativeOutcomesKept == Spec => []NativeOutcomeKept
<1>1. IInv => NativeOutcomeKept BY DEF IInv
<1> QED BY <1>1, Invariant, CaptureAssumption, PTL

(* No valid measurement of a campaign ran a file that differs from the     *)
(* frozen one (run.py:96-121 of scripts/experiment).                       *)
THEOREM FrozenFilesRun == Spec => []FrozenWhenRun
<1>1. IInv => FrozenWhenRun BY DEF IInv
<1> QED BY <1>1, Invariant, CaptureAssumption, PTL

(* A campaign takes up further work when every container of an earlier     *)
(* attempt that it has the id of is gone and with it the program in it,    *)
(* but for single captures that could neither remove theirs nor note it    *)
(* (run.py:149, 203-211, batch_composites.py:51-53, 98-106).               *)
THEOREM NextStartsClean == Spec => []CleanBeforeNext
<1>1. IInv => CleanBeforeNext BY DEF IInv, Tidy, CleanBeforeNext
<1> QED BY <1>1, Invariant, CaptureAssumption, PTL

(* However often the pilot is killed and resumed, no slot's program is     *)
(* started twice and the rows are the plan's slots in order                *)
(* (composites-linux.py:16, 29-37, 43).                                    *)
THEOREM PilotStartsOnce == Spec => []PilotOnce
<1>1. IInv => PilotOnce BY DEF IInv, Batches, RanOnce, FiledOnce, PilotOnce
<1> QED BY <1>1, Invariant, CaptureAssumption, PTL
=============================================================================
