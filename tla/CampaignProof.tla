--------------------------- MODULE CampaignProof ---------------------------
(***************************************************************************)
(* The campaign engine's promises (Campaign), for every plan, retry limit, *)
(* batch size and batch key.                                               *)
(*                                                                         *)
(* None of them is inductive: they speak of what is on disk when the       *)
(* engine may be anywhere.  The invariant follows each entry of the plan   *)
(* from the deque through the group to the ledger: at every statement it   *)
(* says of the entries that are still open what the folders, the ledger    *)
(* and the resolved slots show of them, and that no two open entries are   *)
(* of one slot.                                                            *)
(***************************************************************************)
EXTENDS Campaign, FiniteSetTheorems, WellFoundedInduction, TLAPS

Over   == {"summary", "done", "crashed"}
Before == {"mkdir", "prepare", "mark", "execute"}
Filing == {"move", "ledger", "note", "settle", "index"}

Numbers == 1..MaxRetries + 1

\* The folders of a slot that were ever made are those up to `top`.
Tried(e, top) == \A n \in Numbers : folder[<<e.slot, n>>] # "none" <=> n <= top

\* Lines of the ledger of this slot are of attempts up to `top`.
Behind(e, top) ==
  \A k \in DOMAIN ledger : ledger[k].slot = e.slot => ledger[k].number <= top

Unaccepted(e) == \A n \in Numbers : folder[<<e.slot, n>>] # "accepted"

\* A replacement's predecessor is in the ledger, finished and invalid.
Linked(e) ==
  e.number > 1 =>
    \E j \in DOMAIN ledger :
      /\ ledger[j].slot = e.slot /\ ledger[j].number = e.prev
      /\ e.prev + 1 = e.number
      /\ ledger[j].status \in {"measurement-failure", "behavior-failure"}

Free(e) == e.slot \notin Resolved

\* Nothing done for this attempt yet; its folder is made; its folder is moved.
Fresh(e) ==
  /\ Tried(e, e.number - 1) /\ Behind(e, e.number - 1)
  /\ Unaccepted(e) /\ Linked(e) /\ Free(e)
Begun(e) ==
  /\ Tried(e, e.number) /\ Behind(e, e.number - 1) /\ folder[Aid(e)] = "in-progress"
  /\ Unaccepted(e) /\ Linked(e) /\ Free(e)
Moved(e) ==
  /\ Tried(e, e.number) /\ folder[Aid(e)] = Destination
  /\ \A n \in Numbers \ {e.number} : folder[<<e.slot, n>>] # "accepted"
Reported == \E k \in DOMAIN ledger : ledger[k] = Finished

----------------------------------------------------------------------------
\* Where the loops stand.
Counters ==
  /\ pc \in Before \cup Filing => i \in DOMAIN group
  /\ pc \in {"prepare", "mark", "execute"} => i = 1
  /\ pc \in Filing \cup {"regroup"} => DOMAIN results = DOMAIN group
  /\ pc \in {"pick", "sleep"} \cup Before => ~aborted
  /\ pc \in Filing \cup {"regroup"} /\ ~aborted => \A k \in DOMAIN results : results[k] # "fatal"
  /\ pc = "index" => Good
  /\ pc = "execute" => GroupAids \subseteq invoked

\* No two open entries are of one slot.
Apart ==
  /\ pc \notin Over =>
       \A j, k \in DOMAIN pending : pending[j].slot = pending[k].slot => j = k
  /\ pc \in Before \cup Filing =>
       /\ \A j, k \in DOMAIN group : group[j].slot = group[k].slot => j = k
       /\ \A j \in DOMAIN group, k \in DOMAIN pending : group[j].slot # pending[k].slot
  /\ pc \in Filing \cup {"regroup"} =>
       /\ \A j, k \in DOMAIN replacements : replacements[j].slot = replacements[k].slot => j = k
       /\ \A j \in DOMAIN replacements, k \in DOMAIN pending :
            replacements[j].slot # pending[k].slot
  /\ pc \in Filing =>
       \A j \in DOMAIN replacements, k \in DOMAIN group :
         k >= i => replacements[j].slot # group[k].slot

\* The open entries, wherever they are.
Waiting ==
  pc \notin Over => \A e \in Entries : e \in Members(pending) => Fresh(e)

Queued ==
  pc \in Filing \cup {"regroup"} =>
    \A e \in Entries : e \in Members(replacements) => Fresh(e) /\ e.number > 1

InHand ==
  \A e \in Entries, k \in DOMAIN group : e = group[k] =>
    /\ pc = "mkdir" => IF k < i THEN Begun(e) ELSE Fresh(e)
    /\ pc \in {"prepare", "mark", "execute"} => Begun(e)
    /\ pc \in Filing /\ k > i => Begun(e)

Current ==
  pc \in Filing => \A e \in Entries : e = group[i] =>
    /\ pc = "move" => Begun(e)
    /\ pc \in {"ledger", "note", "settle"} => Moved(e) /\ Free(e)
    /\ pc = "ledger" => Behind(e, e.number - 1) /\ Linked(e)
    /\ pc \in {"note", "settle", "index"} => Reported /\ Behind(e, e.number)

\* Folders in progress are those of open entries.
Opened ==
  \A a \in Attempts : folder[a] = "in-progress" =>
    /\ pc = "mkdir" => \E k \in DOMAIN group : k < i /\ a = Aid(group[k])
    /\ pc \in {"prepare", "mark", "execute"} => a \in GroupAids
    /\ pc = "move" => \E k \in DOMAIN group : k >= i /\ a = Aid(group[k])
    /\ pc \in {"ledger", "note", "settle", "index"} =>
         \E k \in DOMAIN group : k > i /\ a = Aid(group[k])
    /\ pc \notin {"pick", "sleep", "regroup"}
    /\ pc \in {"summary", "done"} => aborted

\* The accepted and the given up.
Counted ==
  /\ \A j, k \in DOMAIN accepted : accepted[j] = accepted[k] => j = k
  /\ \A j, k \in DOMAIN unresolved : unresolved[j] = unresolved[k] => j = k
  /\ Members(accepted) \cap Members(unresolved) = {}
  /\ Len(index) <= Len(accepted) /\ \A k \in DOMAIN index : index[k].slot = accepted[k]
  /\ pc = "index" => /\ Len(accepted) = Len(index) + 1
                     /\ accepted[Len(accepted)] = group[i].slot
  /\ pc \notin {"index", "crashed"} /\ ~aborted => Len(accepted) = Len(index)
  /\ pc \notin Over \cup {"index"} => Len(accepted) = Len(index)
  /\ Len(accepted) <= Len(attempts)
  /\ pc = "settle" => Len(accepted) < Len(attempts)
  /\ \A k \in DOMAIN attempts : folder[Aid(attempts[k])] # "none"

OpenInv == Counters /\ Apart /\ Waiting /\ Queued /\ InHand /\ Current /\ Opened

(***************************************************************************)
(* Numbers and sequences.                                                  *)
(***************************************************************************)

(* A set of natural numbers that is not empty has a least one.             *)
LEMMA Least ==
  ASSUME NEW S \in SUBSET Nat, S # {}
  PROVE  \E m \in S : \A n \in S : m <= n
<1> DEFINE R == OpToRel(<, Nat)
<1>1. IsWellFoundedOn(R, Nat) BY NatLessThanWellFounded, Zenon
<1>2. \A x, y \in Nat : x < y => <<x, y>> \in R BY DEF OpToRel
<1> HIDE DEF R
<1>3. PICK m \in S : \A n \in S : <<n, m>> \notin R BY <1>1, WFMin
<1>4. \A n \in S : ~(n < m) BY <1>2, <1>3
<1> QED BY <1>4

(* A set with 0 and every successor holds every natural number.            *)
LEMMA Everywhere ==
  ASSUME NEW S \in SUBSET Nat, 0 \in S, \A n \in S : n + 1 \in S
  PROVE  S = Nat
<1> SUFFICES ASSUME Nat \ S # {} PROVE FALSE OBVIOUS
<1>1. PICK m \in Nat \ S : \A n \in Nat \ S : m <= n BY Least
<1>2. m # 0 /\ m - 1 \in Nat /\ (m - 1) + 1 = m /\ ~(m <= m - 1) BY <1>1
<1>3. m - 1 \in S BY <1>1, <1>2
<1>4. (m - 1) + 1 \in S BY <1>3
<1> QED BY <1>1, <1>2, <1>4

(* What the group takes from the deque, and what it leaves.                *)
LEMMA FirstOnes ==
  ASSUME NEW T, NEW s \in Seq(T), NEW n \in 1..Len(s)
  PROVE  /\ SubSeq(s, 1, n) \in Seq(T) /\ Len(SubSeq(s, 1, n)) = n
         /\ DOMAIN SubSeq(s, 1, n) = 1..n
         /\ \A k \in 1..n : k \in DOMAIN s /\ SubSeq(s, 1, n)[k] = s[k]
OBVIOUS

LEMMA OtherOnes ==
  ASSUME NEW T, NEW s \in Seq(T), NEW n \in 1..Len(s)
  PROVE  /\ Rest(s, n) \in Seq(T) /\ Len(Rest(s, n)) = Len(s) - n
         /\ DOMAIN Rest(s, n) = 1..Len(s) - n
         /\ \A k \in 1..Len(s) - n : k + n \in DOMAIN s /\ Rest(s, n)[k] = s[k + n]
BY DEF Rest

(* One sequence behind another.                                            *)
LEMMA Behindhand ==
  ASSUME NEW T, NEW s \in Seq(T), NEW t \in Seq(T)
  PROVE  /\ s \o t \in Seq(T)
         /\ DOMAIN (s \o t) = 1..Len(s) + Len(t)
         /\ \A k \in DOMAIN (s \o t) :
              \/ k \in DOMAIN s /\ (s \o t)[k] = s[k]
              \/ k \notin DOMAIN s /\ k - Len(s) \in DOMAIN t /\ (s \o t)[k] = t[k - Len(s)]
OBVIOUS

(* One element more.                                                       *)
LEMMA OneMore ==
  ASSUME NEW T, NEW s \in Seq(T), NEW e \in T
  PROVE  /\ Append(s, e) \in Seq(T)
         /\ Len(Append(s, e)) = Len(s) + 1
         /\ DOMAIN Append(s, e) = DOMAIN s \cup {Len(s) + 1}
         /\ Len(s) + 1 \notin DOMAIN s
         /\ Append(s, e)[Len(s) + 1] = e
         /\ \A k \in DOMAIN s : Append(s, e)[k] = s[k]
OBVIOUS

(* A group is not empty, not longer than the deque, and if it has several  *)
(* entries they may share a capture.                                       *)
LEMMA SizeOfGroup ==
  ASSUME TypeOK, pending # << >>
  PROVE  /\ GroupSize \in 1..Len(pending)
         /\ GroupSize = 1 \/ Shares(GroupSize)
<1> DEFINE L == Len(pending)
           Ok(n) == n = 1 \/ Shares(n)
           S == {L - n : n \in {n \in 1..L : Ok(n)}}
<1>1. L \in Nat /\ L >= 1 BY DEF TypeOK
<1> HIDE DEF L, Ok
<1>2. 1 \in 1..L /\ Ok(1) BY <1>1 DEF Ok
<1>3. S \in SUBSET Nat /\ S # {} BY <1>1, <1>2
<1>4. PICK m \in S : \A x \in S : m <= x BY <1>3, Least
<1>5. PICK n \in 1..L : Ok(n) /\ m = L - n BY <1>4
<1>8. \A k \in 1..L : Ok(k) => m <= L - k BY <1>4
<1> HIDE DEF S
<1>6. \A k \in (n + 1)..L : ~Ok(k)
  <2> SUFFICES ASSUME NEW k \in (n + 1)..L, Ok(k) PROVE FALSE OBVIOUS
  <2>1. k \in 1..L /\ L - k < m BY <1>1, <1>5
  <2> QED BY <1>1, <1>5, <1>8, <2>1
<1>7. \E x \in 1..L : (x = 1 \/ Shares(x)) /\ \A k \in (x + 1)..L : ~Shares(k)
  BY <1>5, <1>6 DEF Ok
<1> QED BY <1>7 DEF GroupSize, L

(* Every set of slots can be listed in plan order.                         *)
LEMMA PlanOrderExists ==
  \A n \in Nat : \A D \in SUBSET (1..n) :
    \E q \in [1..Cardinality(D) -> D] : \A j, k \in DOMAIN q : j < k => q[j] < q[k]
<1> DEFINE Listed(D) == \E q \in [1..Cardinality(D) -> D] :
                            \A j, k \in DOMAIN q : j < k => q[j] < q[k]
           S == {n \in Nat : \A D \in SUBSET (1..n) : Listed(D)}
<1>1. 0 \in S
  <2>1. Listed({})
    <3>1. Cardinality({}) = 0 BY FS_EmptySet
    <3>2. [k \in 1..0 |-> 0] \in [1..0 -> {}] OBVIOUS
    <3>3. \A j, k \in DOMAIN [k \in 1..0 |-> 0] : FALSE OBVIOUS
    <3> QED BY <3>1, <3>2, <3>3
  <2>2. 1..0 = {} OBVIOUS
  <2> HIDE DEF Listed
  <2> QED BY <2>1, <2>2
<1>2. ASSUME NEW n \in S PROVE n + 1 \in S
  <2>1. n \in Nat /\ \A D \in SUBSET (1..n) : Listed(D) OBVIOUS
  <2>2. ASSUME NEW D \in SUBSET (1..n + 1) PROVE Listed(D)
    <3>1. CASE n + 1 \notin D
      <4>1. D \in SUBSET (1..n) BY <2>1, <3>1
      <4> QED BY <2>1, <4>1
    <3>2. CASE n + 1 \in D
      <4> DEFINE E == D \ {n + 1}
      <4>1. E \in SUBSET (1..n) BY <2>1
      <4>2. IsFiniteSet(E)
        <5>1. IsFiniteSet(1..n) BY <2>1, FS_Interval
        <5> HIDE DEF E
        <5> QED BY <4>1, <5>1, FS_Subset
      <4>3. Cardinality(D) = Cardinality(E) + 1 /\ Cardinality(E) \in Nat
        <5>1. n + 1 \notin E /\ D = E \cup {n + 1} BY <3>2
        <5> HIDE DEF E
        <5> QED BY <4>2, <5>1, FS_AddElement, FS_CardinalityType
      <4>4. Listed(E) BY <2>1, <4>1
      <4>5. PICK p \in [1..Cardinality(E) -> E] : \A j, k \in DOMAIN p : j < k => p[j] < p[k]
        BY <4>4
      <4> DEFINE c == Cardinality(E)
                 q == [k \in 1..c + 1 |-> IF k = c + 1 THEN n + 1 ELSE p[k]]
      <4>6. q \in [1..c + 1 -> D]
        <5>1. \A k \in 1..c : p[k] \in D BY <4>5
        <5>2. c \in Nat BY <4>3
        <5>3. n + 1 \in D BY <3>2
        <5> HIDE DEF c
        <5>4. \A k \in 1..c + 1 : k = c + 1 \/ k \in 1..c BY <5>2
        <5>5. \A k \in 1..c + 1 : (IF k = c + 1 THEN n + 1 ELSE p[k]) \in D
          BY <5>1, <5>3, <5>4, Zenon
        <5> QED BY <5>5, Zenon
      <4>7. \A k \in 1..c : p[k] \in Int /\ p[k] < n + 1
        <5>1. \A k \in 1..c : p[k] \in E BY <4>5
        <5>2. \A x \in E : x \in Int /\ x < n + 1 BY <2>1, <4>1
        <5> QED BY <5>1, <5>2
      <4>8. \A j, k \in DOMAIN q : j < k => q[j] < q[k]
        <5> SUFFICES ASSUME NEW j \in 1..c + 1, NEW k \in 1..c + 1, j < k
                     PROVE  q[j] < q[k]
          OBVIOUS
        <5>1. j \in 1..c BY <4>3
        <5>2. CASE k = c + 1 BY <4>7, <5>1, <5>2
        <5>3. CASE k # c + 1
          <6>1. k \in 1..c BY <4>3, <5>3
          <6>2. DOMAIN p = 1..c BY <4>5
          <6>3. p[j] < p[k] BY <4>5, <5>1, <6>1, <6>2
          <6>4. j # c + 1 BY <4>3, <5>1
          <6> QED BY <5>3, <6>3, <6>4
        <5> QED BY <5>2, <5>3
      <4> HIDE DEF q
      <4> QED BY <4>3, <4>6, <4>8
    <3> QED BY <3>1, <3>2
  <2> HIDE DEF Listed
  <2> QED BY <2>1, <2>2
<1>3. S = Nat
  <2> HIDE DEF S
  <2>1. S \in SUBSET Nat BY DEF S
  <2> QED BY <1>1, <1>2, <2>1, Everywhere
<1> QED BY <1>3

(* So the unresolved slots of an interrupted campaign are listed once each. *)
LEMMA InOrder ==
  ASSUME NEW D \in SUBSET Slots
  PROVE  /\ InPlanOrder(D) \in Seq(Slots)
         /\ Members(InPlanOrder(D)) \subseteq D
         /\ \A j, k \in DOMAIN InPlanOrder(D) :
              InPlanOrder(D)[j] = InPlanOrder(D)[k] => j = k
<1> DEFINE q == InPlanOrder(D)
<1>1. Planned \in Nat BY CampaignAssumption
<1>2. \E p \in [1..Cardinality(D) -> D] : \A j, k \in DOMAIN p : j < k => p[j] < p[k]
  BY <1>1, PlanOrderExists DEF Slots
<1>3. q \in [1..Cardinality(D) -> D] /\ \A j, k \in DOMAIN q : j < k => q[j] < q[k]
  BY <1>2 DEF InPlanOrder
<1> HIDE DEF q
<1>4. Cardinality(D) \in Nat
  <2>1. IsFiniteSet(Slots) BY <1>1, FS_Interval DEF Slots
  <2> QED BY <2>1, FS_Subset, FS_CardinalityType
<1>5. q \in Seq(Slots) BY <1>3, <1>4
<1>6. Members(q) \subseteq D BY <1>3 DEF Members
<1>7. ASSUME NEW j \in DOMAIN q, NEW k \in DOMAIN q, q[j] = q[k] PROVE j = k
  <2>0. DOMAIN q = 1..Cardinality(D) /\ q[j] \in D /\ q[k] \in D BY <1>3
  <2>1. j \in Nat /\ k \in Nat /\ q[j] \in Int /\ q[k] \in Int
    <3>1. j \in 1..Cardinality(D) /\ k \in 1..Cardinality(D) BY <2>0
    <3>2. q[j] \in Slots /\ q[k] \in Slots BY <2>0
    <3> QED BY <1>1, <1>4, <3>1, <3>2 DEF Slots
  <2>2. ~(q[j] < q[k]) /\ ~(q[k] < q[j]) BY <1>7, <2>1
  <2>3. ~(j < k) /\ ~(k < j) BY <1>3, <2>2
  <2> QED BY <2>1, <2>3
<1> QED BY <1>5, <1>6, <1>7 DEF q

(***************************************************************************)
(* Types.                                                                  *)
(***************************************************************************)

(* What is in hand, and what is said of it.                                *)
LEMMA InHandTypes ==
  ASSUME TypeOK, Counters, pc \in Before \cup Filing
  PROVE  /\ i \in DOMAIN group /\ i \in 1..Len(group)
         /\ group[i] \in Entries /\ Aid(group[i]) \in Attempts
         /\ pc \in Filing => results[i] \in Statuses /\ Finished \in Finishes
<1>1. i \in DOMAIN group /\ group \in Seq(Entries) BY DEF Counters, TypeOK
<1>2. group[i] \in Entries /\ i \in 1..Len(group) BY <1>1
<1>3. Aid(group[i]) \in Attempts BY <1>2 DEF Aid, Attempts, Entries
<1>4. pc \in Filing => results[i] \in Statuses
  BY <1>1 DEF Counters, TypeOK
<1>5. results[i] \in Statuses => Finished \in Finishes
  BY <1>2 DEF Finished, Finishes, Entries
<1> QED BY <1>1, <1>2, <1>3, <1>4, <1>5

LEMMA GroupTypes ==
  ASSUME TypeOK PROVE GroupAids \subseteq Attempts
<1>1. \A k \in DOMAIN group : group[k] \in Entries BY DEF TypeOK
<1> QED BY <1>1 DEF GroupAids, Aid, Attempts, Entries

LEMMA TypesPick ==
  ASSUME TypeOK, Pick PROVE TypeOK'
<1> DEFINE n == GroupSize
<1>1. n \in 1..Len(pending) BY SizeOfGroup DEF Pick
<1>2. pending \in Seq(Entries) BY DEF TypeOK
<1> HIDE DEF n
<1>3. SubSeq(pending, 1, n) \in Seq(Entries) /\ Rest(pending, n) \in Seq(Entries)
  BY <1>1, <1>2, FirstOnes, OtherOnes
<1>4. group' \in Seq(Entries) /\ pending' \in Seq(Entries) BY <1>3 DEF Pick, n
<1> QED BY <1>4 DEF TypeOK, Pick, disk, Outside

LEMMA TypesBefore ==
  ASSUME TypeOK, Counters,
         LoopEnds \/ MakeFolder \/ Prepare \/ MarkInvoked \/ Sleep \/ Crash
  PROVE  TypeOK'
<1>1. CASE LoopEnds \/ Prepare \/ Sleep \/ Crash
  BY <1>1 DEF TypeOK, LoopEnds, Prepare, Sleep, Crash, memory, disk, Outside
<1>2. CASE MakeFolder
  <2>1. Aid(group[i]) \in Attempts BY <1>2, InHandTypes DEF MakeFolder, Before
  <2>2. folder' \in [Attempts -> Places]
    BY <1>2, <2>1 DEF MakeFolder, TypeOK, Places
  <2>3. i' \in Nat \ {0} BY <1>2 DEF MakeFolder, TypeOK
  <2> QED BY <1>2, <2>2, <2>3 DEF TypeOK, MakeFolder, Outside
<1>3. CASE MarkInvoked
  BY <1>3, GroupTypes DEF MarkInvoked, TypeOK, memory, Marks
<1> QED BY <1>1, <1>2, <1>3

LEMMA TypesResults ==
  ASSUME TypeOK, Execute \/ \E status \in {"measurement-failure", "fatal"} : Raise(status)
  PROVE  TypeOK'
<1>1. Len(group) \in Nat BY DEF TypeOK
<1>2. results' \in [1..Len(group) -> Statuses] BY DEF Execute, Raise, Statuses, Classes
<1>3. results' \in Seq(Statuses) BY <1>1, <1>2
<1>4. ran' \subseteq Attempts BY GroupTypes DEF Execute, Raise, TypeOK
<1>5. replacements' = << >> BY DEF Execute, Raise
<1>6. aborted' \in BOOLEAN BY DEF Execute, Raise, TypeOK
<1> QED BY <1>3, <1>4, <1>5, <1>6 DEF TypeOK, Execute, Raise, disk, Outside

LEMMA NextItemType ==
  ASSUME TypeOK, NextItem PROVE i' \in Nat \ {0} /\ pc' \in {"move", "regroup"}
BY DEF TypeOK, NextItem

LEMMA TypesFiling ==
  ASSUME TypeOK, Counters,
         Move \/ Ledger \/ Note \/ Accept \/ Index \/ GiveUp \/ Replace
  PROVE  TypeOK'
<1>0. pc \in Filing
  BY DEF Move, Ledger, Note, Accept, Index, GiveUp, Replace, Filing
<1>1. /\ group[i] \in Entries /\ Aid(group[i]) \in Attempts /\ Finished \in Finishes
      /\ group[i].slot \in Slots
  BY <1>0, InHandTypes DEF Entries
<1>2. CASE Move
  <2>1. folder' \in [Attempts -> Places] BY <1>1, <1>2 DEF Move, TypeOK, Places, Destination
  <2> QED BY <1>2, <2>1 DEF TypeOK, Move, memory, Outside
<1>3. CASE Ledger
  <2>1. ledger' \in Seq(Finishes) BY <1>1, <1>3, OneMore DEF Ledger, TypeOK
  <2> QED BY <1>3, <2>1 DEF TypeOK, Ledger, memory, Outside
<1>4. CASE Note
  <2>1. attempts' \in Seq(Finishes) BY <1>1, <1>4, OneMore DEF Note, TypeOK
  <2> QED BY <1>4, <2>1 DEF TypeOK, Note, disk, Outside
<1>5. CASE Accept
  <2>1. accepted' \in Seq(Slots) BY <1>1, <1>5, OneMore DEF Accept, TypeOK
  <2> QED BY <1>5, <2>1 DEF TypeOK, Accept, disk, Outside
<1>6. CASE Index
  <2>1. index' \in Seq(Finishes) BY <1>1, <1>6, OneMore DEF Index, TypeOK
  <2>2. i' \in Nat \ {0} /\ pc' \in {"move", "regroup"} BY <1>6, NextItemType DEF Index
  <2> QED BY <1>6, <2>1, <2>2 DEF TypeOK, Index, Outside
<1>7. CASE GiveUp
  <2>1. unresolved' \in Seq(Slots) BY <1>1, <1>7, OneMore DEF GiveUp, TypeOK
  <2>2. i' \in Nat \ {0} /\ pc' \in {"move", "regroup"} BY <1>7, NextItemType DEF GiveUp
  <2> QED BY <1>7, <2>1, <2>2 DEF TypeOK, GiveUp, disk, Outside
<1>8. CASE Replace
  <2>1. Replacement \in Entries
    BY <1>1, <1>8, CampaignAssumption DEF Replace, Exhausted, Replacement, Entries
  <2>2. replacements' \in Seq(Entries) BY <1>8, <2>1, OneMore DEF Replace, TypeOK
  <2>3. i' \in Nat \ {0} /\ pc' \in {"move", "regroup"} BY <1>8, NextItemType DEF Replace
  <2> QED BY <1>8, <2>2, <2>3 DEF TypeOK, Replace, disk, Outside
<1> QED BY <1>2, <1>3, <1>4, <1>5, <1>6, <1>7, <1>8

(* The slots that have to be listed at the end.                            *)
LEMMA DanglingSlots ==
  ASSUME TypeOK
  PROVE  /\ Dangling \in Seq(Slots)
         /\ Members(Dangling) \subseteq SlotsOf(attempts) \ Resolved
         /\ \A j, k \in DOMAIN Dangling : Dangling[j] = Dangling[k] => j = k
         /\ Closing \in Seq(Slots)
<1>1. \A k \in DOMAIN attempts : attempts[k] \in Finishes BY DEF TypeOK
<1>2. SlotsOf(attempts) \ Resolved \in SUBSET Slots BY <1>1 DEF SlotsOf, Finishes
<1>3. /\ Dangling \in Seq(Slots)
      /\ Members(Dangling) \subseteq SlotsOf(attempts) \ Resolved
      /\ \A j, k \in DOMAIN Dangling : Dangling[j] = Dangling[k] => j = k
  BY <1>2, InOrder DEF Dangling
<1>4. Closing \in Seq(Slots) BY <1>3 DEF Closing, TypeOK
<1> QED BY <1>3, <1>4

LEMMA TypesEnd ==
  ASSUME TypeOK, Counted, Regroup \/ Interrupt \/ Summarize
  PROVE  TypeOK'
<1>1. CASE Regroup
  <2>1. pending' \in Seq(Entries)
    <3>1. pending' \in {pending, replacements \o pending} BY <1>1 DEF Regroup, Requeued
    <3>2. pending \in Seq(Entries) /\ replacements \in Seq(Entries) BY DEF TypeOK
    <3>3. replacements \o pending \in Seq(Entries) BY <3>2
    <3> QED BY <3>1, <3>2, <3>3
  <2> QED BY <1>1, <2>1 DEF TypeOK, Regroup, disk, Outside
<1>2. CASE Interrupt
  <2>1. unresolved' \in Seq(Slots) BY <1>2, DanglingSlots DEF Interrupt, Closing
  <2> QED BY <1>2, <2>1 DEF TypeOK, Interrupt, disk, Outside
<1>3. CASE Summarize
  <2>1. Closing \in Seq(Slots) /\ Len(Closing) \in Nat BY DanglingSlots
  <2>2. Planned \in Nat /\ Len(accepted) \in Nat /\ Len(attempts) \in Nat
        /\ Len(accepted) <= Len(attempts)
    BY CampaignAssumption DEF TypeOK, Counted
  <2>3. Complete \in BOOLEAN BY DEF Complete
  <2>4. summary' \in [written : BOOLEAN, accepted : Nat, suspect : Nat,
                      unresolved : Nat, unstarted : Int, complete : BOOLEAN]
    BY <1>3, <2>1, <2>2, <2>3 DEF Summarize
  <2> QED BY <1>3, <2>1, <2>4 DEF TypeOK, Summarize, Outside
<1> QED BY <1>1, <1>2, <1>3

LEMMA TypesNext ==
  ASSUME TypeOK, Counters, Counted, [Next]_vars PROVE TypeOK'
<1>1. CASE UNCHANGED vars BY <1>1 DEF vars, memory, disk, TypeOK
<1> QED BY <1>1, TypesPick, TypesBefore, TypesResults, TypesFiling, TypesEnd DEF Next, Advance

(***************************************************************************)
(* What happens to one slot leaves the entries of the others alone.        *)
(***************************************************************************)

Aside(s) ==
  /\ \A n \in Numbers : folder'[<<s, n>>] = folder[<<s, n>>]
  /\ \A k \in DOMAIN ledger : k \in DOMAIN ledger' /\ ledger'[k] = ledger[k]
  /\ \A k \in DOMAIN ledger' : k \in DOMAIN ledger \/ ledger'[k].slot # s
  /\ s \in Resolved' => s \in Resolved

(* Such a step changes nothing of an entry.                                *)
LEMMA AsideKeeps ==
  ASSUME NEW e \in Entries, Aside(e.slot)
  PROVE  /\ Fresh(e) => Fresh(e)'
         /\ Begun(e) => Begun(e)'
<1>0. e.slot \in Slots /\ e.number \in Numbers BY DEF Entries, Numbers
<1>1. \A top : Tried(e, top) => Tried(e, top)' BY DEF Aside, Tried
<1>2. \A top : Behind(e, top) => Behind(e, top)' BY DEF Aside, Behind
<1>3. Unaccepted(e) => Unaccepted(e)' BY DEF Aside, Unaccepted
<1>4. Linked(e) => Linked(e)' BY DEF Aside, Linked
<1>5. Free(e) => Free(e)' BY DEF Aside, Free
<1>6. folder'[Aid(e)] = folder[Aid(e)] BY <1>0 DEF Aside, Aid
<1> QED BY <1>1, <1>2, <1>3, <1>4, <1>5, <1>6 DEF Fresh, Begun

(* Where neither folders nor ledger nor the resolved slots change.         *)
LEMMA AsideAll ==
  ASSUME UNCHANGED <<folder, ledger, accepted, unresolved>>, NEW s
  PROVE  Aside(s)
BY DEF Aside, Resolved, Members

(* A folder is made or moved, for another slot.                            *)
LEMMA AsideFolder ==
  ASSUME TypeOK, UNCHANGED <<ledger, accepted, unresolved>>, NEW a \in Attempts,
         NEW place, folder' = [folder EXCEPT ![a] = place],
         NEW s \in Slots, s # a[1]
  PROVE  Aside(s)
<1>1. \A n \in Numbers : <<s, n>> # a BY DEF Attempts
<1>2. \A n \in Numbers : folder'[<<s, n>>] = folder[<<s, n>>]
  <2>1. DOMAIN folder = Attempts BY DEF TypeOK
  <2>2. \A n \in Numbers : <<s, n>> \in Attempts BY DEF Attempts, Numbers
  <2> QED BY <1>1, <2>1, <2>2
<1> QED BY <1>2 DEF Aside, Resolved, Members

(* A line of another slot.                                                 *)
LEMMA AsideLedger ==
  ASSUME TypeOK, UNCHANGED <<folder, accepted, unresolved>>, NEW line \in Finishes,
         ledger' = Append(ledger, line), NEW s \in Slots, s # line.slot
  PROVE  Aside(s)
<1>1. ledger \in Seq(Finishes) BY DEF TypeOK
<1> QED BY <1>1, OneMore DEF Aside, Resolved, Members

(* Another slot is resolved.                                               *)
LEMMA AsideResolved ==
  ASSUME TypeOK, UNCHANGED <<folder, ledger>>, NEW t \in Slots,
         \/ accepted' = Append(accepted, t) /\ UNCHANGED unresolved
         \/ unresolved' = Append(unresolved, t) /\ UNCHANGED accepted,
         NEW s \in Slots, s # t
  PROVE  Aside(s)
<1>1. accepted \in Seq(Slots) /\ unresolved \in Seq(Slots) BY DEF TypeOK
<1>2. CASE accepted' = Append(accepted, t) /\ UNCHANGED unresolved
  <2>1. Members(accepted') = Members(accepted) \cup {t} BY <1>1, <1>2, OneMore DEF Members
  <2>2. Resolved' = Resolved \cup {t} BY <1>2, <2>1 DEF Resolved, Members
  <2> QED BY <2>2 DEF Aside
<1>3. CASE unresolved' = Append(unresolved, t) /\ UNCHANGED accepted
  <2>1. Members(unresolved') = Members(unresolved) \cup {t} BY <1>1, <1>3, OneMore DEF Members
  <2>2. Resolved' = Resolved \cup {t} BY <1>3, <2>1 DEF Resolved, Members
  <2> QED BY <2>2 DEF Aside
<1> QED BY <1>2, <1>3

(***************************************************************************)
(* The open entries, statement by statement.                               *)
(***************************************************************************)

(* The deque and the replacements are left alone, and what is there is of  *)
(* slots that nothing happens to.                                          *)
LEMMA WaitingStays ==
  ASSUME TypeOK, OpenInv, pc \notin Over, UNCHANGED pending,
         \A k \in DOMAIN pending : Aside(pending[k].slot)
  PROVE  Waiting'
<1> SUFFICES ASSUME NEW e \in Entries, e \in Members(pending) PROVE Fresh(e)'
  BY DEF Waiting, Members
<1>1. Fresh(e) /\ Aside(e.slot) BY DEF OpenInv, Waiting, Members
<1> QED BY <1>1, AsideKeeps

LEMMA QueuedStays ==
  ASSUME TypeOK, OpenInv, pc \in Filing \cup {"regroup"}, UNCHANGED replacements,
         \A k \in DOMAIN replacements : Aside(replacements[k].slot)
  PROVE  Queued'
<1> SUFFICES ASSUME NEW e \in Entries, e \in Members(replacements)
             PROVE  Fresh(e)' /\ e.number > 1
  BY DEF Queued, Members
<1>1. Fresh(e) /\ e.number > 1 /\ Aside(e.slot) BY DEF OpenInv, Queued, Members
<1> QED BY <1>1, AsideKeeps

(* A group is taken from the deque.                                        *)
LEMMA OpenPick == ASSUME TypeOK, OpenInv, Pick PROVE OpenInv'
<1> DEFINE n == GroupSize
<1>0. /\ pc = "pick" /\ pc' = "mkdir" /\ i' = 1 /\ n \in 1..Len(pending)
      /\ pending \in Seq(Entries) /\ ~aborted' /\ ~aborted
      /\ UNCHANGED <<folder, ledger, accepted, unresolved, aborted>>
  BY SizeOfGroup DEF Pick, TypeOK, OpenInv, Counters, disk
<1>1. /\ DOMAIN group' = 1..n
      /\ \A k \in 1..n : k \in DOMAIN pending /\ group'[k] = pending[k]
      /\ DOMAIN pending' = 1..Len(pending) - n
      /\ \A k \in 1..Len(pending) - n : k + n \in DOMAIN pending /\ pending'[k] = pending[k + n]
  <2>1. group' = SubSeq(pending, 1, n) /\ pending' = Rest(pending, n) BY DEF Pick
  <2> HIDE DEF n
  <2> QED BY <1>0, <2>1, FirstOnes, OtherOnes
<1>2. n \in Nat /\ Len(pending) \in Nat BY <1>0
<1> HIDE DEF n
<1>3. \A j, k \in DOMAIN pending : pending[j].slot = pending[k].slot => j = k
  BY <1>0 DEF OpenInv, Apart, Over
<1>4. \A e \in Entries : e \in Members(pending) => Fresh(e)'
  BY <1>0, AsideAll, AsideKeeps DEF OpenInv, Waiting, Over
<1>5. Counters' BY <1>0, <1>1 DEF Counters, Before, Filing
<1>6. Apart'
  <2>1. \A j, k \in DOMAIN pending' : pending'[j].slot = pending'[k].slot => j = k
    BY <1>1, <1>2, <1>3
  <2>2. \A j, k \in DOMAIN group' : group'[j].slot = group'[k].slot => j = k
    BY <1>1, <1>3
  <2>3. \A j \in DOMAIN group', k \in DOMAIN pending' : group'[j].slot # pending'[k].slot
    BY <1>1, <1>2, <1>3
  <2> QED BY <1>0, <2>1, <2>2, <2>3 DEF Apart, Filing, Over
<1>7. Waiting'
  <2>1. \A k \in DOMAIN pending' : pending'[k] \in Members(pending) BY <1>1 DEF Members
  <2>2. \A e \in Entries : e \in Members(pending)' => Fresh(e)'
    BY <1>4, <2>1 DEF Members
  <2> QED BY <2>2 DEF Waiting
<1>8. InHand'
  <2>1. \A k \in DOMAIN group' : group'[k] \in Members(pending) BY <1>1 DEF Members
  <2>2. \A e \in Entries, k \in DOMAIN group' : e = group'[k] => Fresh(e)' /\ ~(k < i')
    BY <1>0, <1>1, <1>2, <1>4, <2>1
  <2> QED BY <1>0, <2>2 DEF InHand, Filing
<1>9. Queued' /\ Current' BY <1>0 DEF Queued, Current, Filing
<1>10. Opened' BY <1>0 DEF OpenInv, Opened
<1> QED BY <1>5, <1>6, <1>7, <1>8, <1>9, <1>10 DEF OpenInv

(* A folder is made for the next entry of the group.                       *)
LEMMA Begins ==
  ASSUME TypeOK, NEW e \in Entries, Fresh(e),
         folder' = [folder EXCEPT ![Aid(e)] = "in-progress"],
         UNCHANGED <<ledger, accepted, unresolved>>
  PROVE  Begun(e)'
<1>1. e.slot \in Slots /\ e.number \in Numbers /\ e.number \in Nat
      /\ \A n \in Numbers : n \in Nat
  BY CampaignAssumption DEF Entries, Numbers
<1>2. \A n \in Numbers : folder'[<<e.slot, n>>] =
                           IF n = e.number THEN "in-progress" ELSE folder[<<e.slot, n>>]
  <2>1. \A n \in Numbers : <<e.slot, n>> \in Attempts BY <1>1 DEF Attempts, Numbers
  <2> QED BY <2>1 DEF TypeOK, Aid
<1>3. \A n \in Numbers : n <= e.number <=> n <= e.number - 1 \/ n = e.number BY <1>1
<1>4. Tried(e, e.number)' BY <1>2, <1>3 DEF Fresh, Tried
<1>5. Unaccepted(e)' BY <1>2 DEF Fresh, Unaccepted
<1>6. folder'[Aid(e)] = "in-progress" BY <1>1, <1>2 DEF Aid
<1>7. Behind(e, e.number - 1)' /\ Linked(e)' /\ Free(e)'
  BY DEF Fresh, Behind, Linked, Free, Resolved, Members
<1> QED BY <1>4, <1>5, <1>6, <1>7 DEF Begun

LEMMA OpenMakeFolder == ASSUME TypeOK, OpenInv, MakeFolder PROVE OpenInv'
<1> DEFINE a == Aid(group[i])
<1>0. /\ pc = "mkdir" /\ i \in DOMAIN group /\ i \in 1..Len(group) /\ group[i] \in Entries
      /\ a \in Attempts /\ UNCHANGED <<pending, group, results, replacements, aborted,
                                       ledger, accepted, unresolved, invoked>>
      /\ group \in Seq(Entries) /\ pending \in Seq(Entries) /\ ~aborted
      /\ folder' = [folder EXCEPT ![a] = "in-progress"]
  BY InHandTypes DEF MakeFolder, Before, OpenInv, Counters, TypeOK
<1>1. \/ i < Len(group) /\ i' = i + 1 /\ pc' = "mkdir"
      \/ i = Len(group) /\ i' = 1 /\ pc' = "prepare"
  BY <1>0 DEF MakeFolder
<1>2. \A s \in Slots : s # group[i].slot => Aside(s)
  <2>1. a[1] = group[i].slot BY DEF Aid
  <2> HIDE DEF a
  <2> QED BY <1>0, <2>1, AsideFolder
<1>3. Apart BY DEF OpenInv
<1>4. \A k \in DOMAIN group : k # i => group[k].slot # group[i].slot
  BY <1>0, <1>3 DEF Apart, Before
<1>5. Counters'
  <2>1. i' \in DOMAIN group BY <1>0, <1>1
  <2> QED BY <1>0, <1>1, <2>1 DEF Counters, Before, Filing
<1>6. Apart' BY <1>0, <1>1, <1>3 DEF Apart, Before, Filing, Over
<1>7. Waiting'
  <2>1. \A k \in DOMAIN pending : pending[k] \in Entries BY <1>0
  <2>2. \A k \in DOMAIN pending : pending[k].slot \in Slots BY <2>1 DEF Entries
  <2>3. \A k \in DOMAIN pending : pending[k].slot # group[i].slot
    BY <1>0, <1>3 DEF Apart, Before
  <2> QED BY <1>0, <1>2, <2>2, <2>3, WaitingStays DEF Over
<1>8. ASSUME NEW e \in Entries, NEW k \in DOMAIN group, e = group[k]
      PROVE  IF k <= i THEN Begun(e)' ELSE Fresh(e)'
  <2>1. CASE k = i
    <3>1. Fresh(e) BY <1>0, <1>8, <2>1 DEF OpenInv, InHand
    <3>2. folder' = [folder EXCEPT ![Aid(e)] = "in-progress"] BY <1>0, <1>8, <2>1
    <3>3. Begun(e)' BY <1>0, <3>1, <3>2, Begins
    <3>4. k <= i BY <1>0, <2>1
    <3> QED BY <3>3, <3>4
  <2>2. CASE k # i
    <3>1. Aside(e.slot) BY <1>2, <1>4, <1>8, <2>2 DEF Entries
    <3>2. IF k < i THEN Begun(e) ELSE Fresh(e) BY <1>0, <1>8 DEF OpenInv, InHand
    <3>3. k < i <=> k <= i BY <1>0, <2>2
    <3> QED BY <3>1, <3>2, <3>3, AsideKeeps
  <2> QED BY <2>1, <2>2
<1>9. InHand'
  <2>1. \A k \in DOMAIN group : i' = i + 1 => (k < i' <=> k <= i) BY <1>0
  <2>2. \A k \in DOMAIN group : i = Len(group) => k <= i BY <1>0
  <2> QED BY <1>0, <1>1, <1>8, <2>1, <2>2 DEF InHand, Filing
<1>10. Queued' /\ Current' BY <1>1 DEF Queued, Current, Filing
<1>11. Opened'
  <2>1. ASSUME NEW b \in Attempts, folder'[b] = "in-progress"
        PROVE  \E k \in DOMAIN group : k <= i /\ b = Aid(group[k])
    <3>1. CASE b = a BY <1>0, <3>1
    <3>2. CASE b # a
      <4>1. folder[b] = "in-progress" BY <1>0, <2>1, <3>2 DEF TypeOK
      <4> QED BY <1>0, <4>1 DEF OpenInv, Opened
    <3> QED BY <3>1, <3>2
  <2>2. \A k \in DOMAIN group : i' = i + 1 => (k < i' <=> k <= i) BY <1>0
  <2>3. \A k \in DOMAIN group : Aid(group[k]) = Aid(group[k])'
    BY <1>0 DEF Aid
  <2>4. GroupAids' = GroupAids BY <1>0 DEF GroupAids, Aid
  <2> HIDE DEF a
  <2> QED BY <1>0, <1>1, <2>1, <2>2, <2>3, <2>4 DEF Opened, GroupAids
<1> QED BY <1>5, <1>6, <1>7, <1>9, <1>10, <1>11 DEF OpenInv

(* Up to the measurement nothing else happens to the group.                *)
LEMMA OpenHeld ==
  ASSUME TypeOK, OpenInv, Prepare \/ MarkInvoked PROVE OpenInv'
<1>0. /\ pc \in {"prepare", "mark"} /\ pc' \in {"mark", "execute"}
      /\ UNCHANGED <<memory, folder, ledger>>
      /\ pc' = "execute" => GroupAids \subseteq invoked'
  BY DEF Prepare, MarkInvoked, Marks, disk
<1>1. UNCHANGED <<pending, group, i, results, replacements, aborted, accepted, unresolved>>
  BY <1>0 DEF memory
<1>2. \A e \in Entries : (Fresh(e) => Fresh(e)') /\ (Begun(e) => Begun(e)')
  BY <1>0, <1>1, AsideAll, AsideKeeps
<1>3. Counters' BY <1>0, <1>1 DEF OpenInv, Counters, Before, Filing, GroupAids, Aid
<1>4. Apart' BY <1>0, <1>1 DEF OpenInv, Apart, Before, Filing, Over
<1>5. Waiting' BY <1>0, <1>1, <1>2 DEF OpenInv, Waiting, Members, Over
<1>6. InHand' BY <1>0, <1>1, <1>2 DEF OpenInv, InHand, Filing
<1>7. Queued' /\ Current' BY <1>0 DEF Queued, Current, Filing
<1>8. Opened' BY <1>0, <1>1 DEF OpenInv, Opened, GroupAids, Aid
<1> QED BY <1>3, <1>4, <1>5, <1>6, <1>7, <1>8 DEF OpenInv

(* The measurement ends, in one way or another.                            *)
LEMMA OpenResults ==
  ASSUME TypeOK, OpenInv,
         Execute \/ \E status \in {"measurement-failure", "fatal"} : Raise(status)
  PROVE  OpenInv'
<1>0. /\ pc \in {"prepare", "mark", "execute"} /\ pc' = "move"
      /\ UNCHANGED <<pending, group, i, accepted, unresolved, folder, ledger>>
      /\ replacements' = << >> /\ i = 1 /\ i \in DOMAIN group
      /\ group \in Seq(Entries)
  BY DEF Execute, Raise, disk, OpenInv, Counters, Before, TypeOK
<1>1. DOMAIN results' = 1..Len(group) BY DEF Execute, Raise
<1>2. ~aborted' => \A k \in DOMAIN results' : results'[k] # "fatal"
  <2>1. CASE Execute
    <3>1. \A k \in DOMAIN results' : results'[k] \in Classes BY <2>1 DEF Execute
    <3> QED BY <3>1 DEF Classes
  <2>2. ASSUME NEW status \in {"measurement-failure", "fatal"}, Raise(status)
        PROVE  ~aborted' => \A k \in DOMAIN results' : results'[k] # "fatal"
    BY <2>2 DEF Raise
  <2> QED BY <2>1, <2>2
<1>3. \A e \in Entries : (Fresh(e) => Fresh(e)') /\ (Begun(e) => Begun(e)')
  BY <1>0, AsideAll, AsideKeeps
<1>4. Counters' BY <1>0, <1>1, <1>2 DEF Counters, Before, Filing
<1>5. Apart' BY <1>0 DEF OpenInv, Apart, Before, Filing, Over
<1>6. Waiting' BY <1>0, <1>3 DEF OpenInv, Waiting, Members, Over
<1>7. \A e \in Entries, k \in DOMAIN group : e = group[k] => Begun(e)'
  BY <1>0, <1>3 DEF OpenInv, InHand
<1>8. InHand' /\ Current' BY <1>0, <1>7 DEF InHand, Current
<1>9. Queued' BY <1>0 DEF Queued, Members
<1>10. Opened'
  <2>1. \A b \in Attempts : folder[b] = "in-progress" => b \in GroupAids
    BY <1>0 DEF OpenInv, Opened
  <2>2. \A k \in DOMAIN group : k >= 1 BY <1>0
  <2>3. \A b \in Attempts : folder[b] = "in-progress" =>
          \E k \in DOMAIN group : k >= 1 /\ b = Aid(group[k])
    BY <2>1, <2>2 DEF GroupAids
  <2> QED BY <1>0, <2>3 DEF Opened, Aid
<1> QED BY <1>4, <1>5, <1>6, <1>8, <1>9, <1>10 DEF OpenInv

(* While an entry is filed, nothing happens to the slots of the others.    *)
LEMMA OthersInHand ==
  ASSUME TypeOK, OpenInv, pc \in Filing, UNCHANGED <<pending, group, i, replacements>>,
         pc' \in Filing, \A s \in Slots : s # group[i].slot => Aside(s)
  PROVE  Waiting' /\ Queued' /\ InHand' /\ Apart'
<1>0. /\ i \in DOMAIN group /\ pending \in Seq(Entries) /\ replacements \in Seq(Entries)
      /\ group \in Seq(Entries) /\ i \in Nat /\ Apart
  BY InHandTypes DEF OpenInv, Counters, TypeOK
<1>1. Waiting'
  <2>1. \A k \in DOMAIN pending : pending[k] \in Entries BY <1>0
  <2>2. \A k \in DOMAIN pending : pending[k].slot \in Slots BY <2>1 DEF Entries
  <2>3. \A k \in DOMAIN pending : pending[k].slot # group[i].slot BY <1>0 DEF Apart
  <2> QED BY <2>2, <2>3, WaitingStays DEF Over, Filing
<1>2. Queued'
  <2>1. \A k \in DOMAIN replacements : replacements[k] \in Entries BY <1>0
  <2>2. \A k \in DOMAIN replacements : replacements[k].slot \in Slots BY <2>1 DEF Entries
  <2>3. \A k \in DOMAIN replacements : replacements[k].slot # group[i].slot
    BY <1>0 DEF Apart
  <2> QED BY <2>2, <2>3, QueuedStays
<1>3. InHand'
  <2>1. ASSUME NEW e \in Entries, NEW k \in DOMAIN group, e = group[k], k > i
        PROVE  Begun(e)'
    <3>1. Begun(e) BY <2>1 DEF OpenInv, InHand
    <3>2. k # i BY <1>0, <2>1
    <3>3. e.slot # group[i].slot BY <1>0, <2>1, <3>2 DEF Apart
    <3>4. Aside(e.slot) BY <3>3 DEF Entries
    <3> QED BY <3>1, <3>4, AsideKeeps
  <2>2. pc' \notin {"mkdir", "prepare", "mark", "execute"} BY DEF Filing
  <2> QED BY <2>1, <2>2 DEF InHand
<1>4. Apart' BY <1>0 DEF Apart, Over, Filing
<1> QED BY <1>1, <1>2, <1>3, <1>4

(* The folder is moved to accepted/ or suspect/.                           *)
LEMMA OpenMove == ASSUME TypeOK, OpenInv, Move PROVE OpenInv'
<1> DEFINE a == Aid(group[i])
<1>0. /\ pc = "move" /\ pc' = "ledger" /\ group[i] \in Entries /\ a \in Attempts
      /\ UNCHANGED <<pending, group, i, results, replacements, aborted, accepted,
                     unresolved, ledger, invoked>>
      /\ folder' = [folder EXCEPT ![a] = Destination]
      /\ group \in Seq(Entries) /\ i \in DOMAIN group
  BY InHandTypes DEF Move, memory, OpenInv, Filing, TypeOK
<1>1. \A s \in Slots : s # group[i].slot => Aside(s)
  <2>1. a[1] = group[i].slot BY DEF Aid
  <2> HIDE DEF a
  <2> QED BY <1>0, <2>1, AsideFolder
<1>2. Waiting' /\ Queued' /\ InHand' /\ Apart'
  BY <1>0, <1>1, OthersInHand DEF Filing
<1>3. Counters' BY <1>0 DEF OpenInv, Counters, Before, Filing
<1>4. Current'
  <2> SUFFICES ASSUME NEW e \in Entries, e = group[i]
               PROVE  Moved(e)' /\ Free(e)' /\ Behind(e, e.number - 1)' /\ Linked(e)'
    BY <1>0 DEF Current
  <2>1. Begun(e) BY <1>0 DEF OpenInv, Current, Filing
  <2>2. Free(e)' /\ Behind(e, e.number - 1)' /\ Linked(e)'
    BY <1>0, <2>1 DEF Begun, Free, Behind, Linked, Resolved, Members
  <2>3. e.slot \in Slots /\ e.number \in Numbers BY DEF Entries, Numbers
  <2>4. \A n \in Numbers : folder'[<<e.slot, n>>] =
                             IF n = e.number THEN Destination ELSE folder[<<e.slot, n>>]
    <3>1. \A n \in Numbers : <<e.slot, n>> \in Attempts BY <2>3 DEF Attempts, Numbers
    <3> QED BY <1>0, <3>1 DEF TypeOK, Aid
  <2>5. Destination' = Destination /\ Destination # "none"
    BY <1>0 DEF Destination, Good
  <2>6. Tried(e, e.number)'
    <3>1. \A n \in Numbers : n = e.number => n <= e.number BY <2>3 DEF Numbers
    <3> QED BY <2>1, <2>4, <2>5, <3>1 DEF Begun, Tried
  <2>7. folder'[Aid(e)] = Destination' BY <2>3, <2>4, <2>5 DEF Aid
  <2>8. \A n \in Numbers \ {e.number} : folder'[<<e.slot, n>>] # "accepted"
    BY <2>1, <2>4 DEF Begun, Unaccepted
  <2> QED BY <2>2, <2>6, <2>7, <2>8 DEF Moved
<1>5. Opened'
  <2> SUFFICES ASSUME NEW b \in Attempts, folder'[b] = "in-progress"
               PROVE  \E k \in DOMAIN group : k > i /\ b = Aid(group[k])
    BY <1>0 DEF Opened, Aid
  <2>1. folder'[b] = IF b = a THEN Destination ELSE folder[b] BY <1>0 DEF TypeOK
  <2>2. b # a /\ folder[b] = "in-progress" BY <2>1 DEF Destination
  <2>3. PICK k \in DOMAIN group : k >= i /\ b = Aid(group[k])
    BY <1>0, <2>2 DEF OpenInv, Opened
  <2>4. k > i BY <1>0, <2>2, <2>3
  <2> QED BY <2>3, <2>4
<1> QED BY <1>2, <1>3, <1>4, <1>5 DEF OpenInv

(* Its line is written to attempts.jsonl.                                  *)
LEMMA OpenLedger == ASSUME TypeOK, OpenInv, Ledger PROVE OpenInv'
<1>0. /\ pc = "ledger" /\ pc' = "note" /\ group[i] \in Entries /\ Finished \in Finishes
      /\ UNCHANGED <<pending, group, i, results, replacements, aborted, accepted,
                     unresolved, folder, invoked>>
      /\ ledger' = Append(ledger, Finished) /\ ledger \in Seq(Finishes)
      /\ Finished.slot = group[i].slot /\ Finished.number = group[i].number
      /\ Finished' = Finished
  BY InHandTypes DEF Ledger, memory, OpenInv, Filing, Finished, TypeOK
<1>1. \A s \in Slots : s # group[i].slot => Aside(s)
  BY <1>0, AsideLedger
<1>2. Waiting' /\ Queued' /\ InHand' /\ Apart'
  BY <1>0, <1>1, OthersInHand DEF Filing
<1>3. Counters' BY <1>0 DEF OpenInv, Counters, Before, Filing
<1>4. Current'
  <2> SUFFICES ASSUME NEW e \in Entries, e = group[i]
               PROVE  Moved(e)' /\ Free(e)' /\ Behind(e, e.number)' /\ Reported'
    BY <1>0 DEF Current
  <2>1. Moved(e) /\ Free(e) /\ Behind(e, e.number - 1)
    BY <1>0 DEF OpenInv, Current, Filing
  <2>2. Destination' = Destination BY <1>0 DEF Destination, Good
  <2>3. Moved(e)' /\ Free(e)'
    BY <1>0, <2>1, <2>2 DEF Moved, Free, Tried, Resolved, Members
  <2> DEFINE f == Finished
  <2>4. /\ DOMAIN ledger' = DOMAIN ledger \cup {Len(ledger) + 1}
        /\ ledger'[Len(ledger) + 1] = f
        /\ \A k \in DOMAIN ledger : ledger'[k] = ledger[k]
    BY <1>0, OneMore
  <2>5. Reported' BY <1>0, <2>4 DEF Reported
  <2>6. \A k \in DOMAIN ledger : ledger[k].number \in Int
    <3>1. \A k \in DOMAIN ledger : ledger[k] \in Finishes BY <1>0
    <3> QED BY <3>1 DEF Finishes
  <2>7. e.number \in Int BY DEF Entries
  <2> HIDE DEF f
  <2>8. f.number <= e.number BY <1>0, <2>7 DEF f
  <2>9. Behind(e, e.number)' BY <2>1, <2>4, <2>6, <2>7, <2>8 DEF Behind
  <2> QED BY <2>3, <2>5, <2>9
<1>5. Opened' BY <1>0 DEF OpenInv, Opened, Aid
<1> QED BY <1>2, <1>3, <1>4, <1>5 DEF OpenInv

(* It is noted in memory.                                                  *)
LEMMA OpenNote == ASSUME TypeOK, OpenInv, Note PROVE OpenInv'
<1>0. /\ pc = "note" /\ pc' = "settle"
      /\ UNCHANGED <<pending, group, i, results, replacements, aborted, accepted,
                     unresolved, folder, ledger, invoked>>
  BY DEF Note, disk
<1>1. \A s : Aside(s) BY <1>0, AsideAll
<1>2. Waiting' /\ Queued' /\ InHand' /\ Apart'
  BY <1>0, <1>1, OthersInHand DEF Filing
<1>3. Counters' BY <1>0 DEF OpenInv, Counters, Before, Filing
<1>4. Current'
  BY <1>0 DEF OpenInv, Current, Filing, Moved, Free, Behind, Reported, Tried, Resolved,
              Members, Destination, Good, Finished
<1>5. Opened' BY <1>0 DEF OpenInv, Opened, Aid
<1> QED BY <1>2, <1>3, <1>4, <1>5 DEF OpenInv

(* A valid one is accepted.                                                *)
LEMMA OpenAccept == ASSUME TypeOK, OpenInv, Accept PROVE OpenInv'
<1>0. /\ pc = "settle" /\ pc' = "index" /\ Good /\ group[i] \in Entries
      /\ UNCHANGED <<pending, group, i, results, replacements, aborted,
                     unresolved, folder, ledger, invoked>>
      /\ accepted' = Append(accepted, group[i].slot)
  BY InHandTypes DEF Accept, disk, OpenInv, Filing
<1>1. group[i].slot \in Slots BY <1>0 DEF Entries
<1>2. \A s \in Slots : s # group[i].slot => Aside(s)
  BY <1>0, <1>1, AsideResolved
<1>3. Waiting' /\ Queued' /\ InHand' /\ Apart'
  BY <1>0, <1>2, OthersInHand DEF Filing
<1>4. Counters' BY <1>0 DEF OpenInv, Counters, Before, Filing, Good
<1>5. Current'
  BY <1>0 DEF OpenInv, Current, Filing, Behind, Reported, Finished
<1>6. Opened' BY <1>0 DEF OpenInv, Opened, Aid
<1> QED BY <1>3, <1>4, <1>5, <1>6 DEF OpenInv

(* The loop goes on to the next entry of the group, or ends.               *)
LEMMA ItemDone ==
  ASSUME TypeOK, OpenInv, pc \in {"settle", "index"}, NextItem,
         UNCHANGED <<pending, group, results, aborted, folder, ledger, invoked>>,
         \A s \in Slots : s # group[i].slot => Aside(s),
         \A j \in DOMAIN replacements' :
           \/ replacements'[j].slot = group[i].slot
           \/ j \in DOMAIN replacements /\ replacements'[j].slot = replacements[j].slot,
         \A j, k \in DOMAIN replacements' : replacements'[j].slot = replacements'[k].slot => j = k,
         Queued'
  PROVE  OpenInv'
<1>0. /\ i \in DOMAIN group /\ pending \in Seq(Entries) /\ group \in Seq(Entries)
      /\ i \in Nat /\ Apart /\ pc \in Filing /\ i \in 1..Len(group)
  BY InHandTypes DEF OpenInv, TypeOK, Filing
<1>1. \/ i < Len(group) /\ i' = i + 1 /\ pc' = "move"
      \/ i = Len(group) /\ i' = i /\ pc' = "regroup"
  BY <1>0 DEF NextItem
<1>2. Waiting'
  <2>1. \A k \in DOMAIN pending : pending[k] \in Entries BY <1>0
  <2>2. \A k \in DOMAIN pending : pending[k].slot \in Slots BY <2>1 DEF Entries
  <2>3. \A k \in DOMAIN pending : pending[k].slot # group[i].slot BY <1>0 DEF Apart
  <2> QED BY <1>0, <2>2, <2>3, WaitingStays DEF Over, Filing
<1>3. \A e \in Entries, k \in DOMAIN group : e = group[k] /\ k > i => Begun(e)'
  <2> SUFFICES ASSUME NEW e \in Entries, NEW k \in DOMAIN group, e = group[k], k > i
               PROVE  Begun(e)'
    OBVIOUS
  <2>1. Begun(e) BY <1>0 DEF OpenInv, InHand
  <2>2. k # i BY <1>0
  <2>3. e.slot # group[i].slot BY <1>0, <2>2 DEF Apart
  <2>4. Aside(e.slot) BY <2>3 DEF Entries
  <2> QED BY <2>1, <2>4, AsideKeeps
<1>4. InHand'
  <2>1. \A k \in DOMAIN group : i' = i + 1 /\ k > i' => k > i BY <1>0
  <2> QED BY <1>1, <1>3, <2>1 DEF InHand, Filing
<1>5. Current'
  <2>1. i' = i + 1 /\ pc' = "move" => i' \in DOMAIN group /\ i' > i
    BY <1>0, <1>1
  <2>2. pc' = "move" => \A e \in Entries : e = group[i'] => Begun(e)'
    BY <1>1, <1>3, <2>1
  <2> QED BY <1>1, <2>2 DEF Current, Filing
<1>6. Counters'
  <2>1. pc' = "move" => i' \in DOMAIN group BY <1>0, <1>1
  <2> QED BY <1>0, <1>1, <2>1 DEF OpenInv, Counters, Before, Filing
<1>7. Apart'
  <2>1. \A j \in DOMAIN replacements', k \in DOMAIN pending :
          replacements'[j].slot # pending[k].slot
    BY <1>0 DEF Apart
  <2>2. ASSUME i' = i + 1, NEW j \in DOMAIN replacements', NEW k \in DOMAIN group, k >= i'
        PROVE  replacements'[j].slot # group[k].slot
    <3>1. k > i /\ k >= i /\ k # i BY <1>0, <2>2
    <3> QED BY <1>0, <3>1 DEF Apart
  <2> QED BY <1>0, <1>1, <2>1, <2>2 DEF Apart, Before, Filing, Over
<1>8. Opened'
  <2> SUFFICES ASSUME NEW b \in Attempts, folder[b] = "in-progress"
               PROVE  pc' = "move" /\ \E k \in DOMAIN group : k >= i' /\ b = Aid(group[k])
    BY DEF Opened, Aid
  <2>1. PICK k \in DOMAIN group : k > i /\ b = Aid(group[k])
    BY <1>0 DEF OpenInv, Opened
  <2>2. k >= i + 1 /\ i < Len(group) BY <1>0, <2>1
  <2> QED BY <1>0, <1>1, <2>1, <2>2
<1> QED BY <1>2, <1>4, <1>5, <1>6, <1>7, <1>8 DEF OpenInv

(* Its line is written to accepted.jsonl.                                  *)
LEMMA OpenIndex == ASSUME TypeOK, OpenInv, Index PROVE OpenInv'
<1>0. /\ pc = "index" /\ NextItem
      /\ UNCHANGED <<pending, group, results, replacements, aborted, accepted,
                     unresolved, folder, ledger, invoked>>
  BY DEF Index
<1>1. \A s : Aside(s) BY <1>0, AsideAll
<1>2. Queued' BY <1>0, <1>1, QueuedStays DEF Filing
<1>3. \A j, k \in DOMAIN replacements' : replacements'[j].slot = replacements'[k].slot => j = k
  BY <1>0 DEF OpenInv, Apart, Filing
<1>4. \A j \in DOMAIN replacements' :
        j \in DOMAIN replacements /\ replacements'[j].slot = replacements[j].slot
  BY <1>0
<1> QED BY <1>0, <1>1, <1>2, <1>3, <1>4, ItemDone

(* The slot is given up.                                                   *)
LEMMA OpenGiveUp == ASSUME TypeOK, OpenInv, GiveUp PROVE OpenInv'
<1>0. /\ pc = "settle" /\ NextItem /\ group[i] \in Entries
      /\ UNCHANGED <<pending, group, results, replacements, aborted, accepted,
                     folder, ledger, invoked>>
      /\ unresolved' = Append(unresolved, group[i].slot)
      /\ replacements \in Seq(Entries) /\ i \in DOMAIN group /\ i \in Nat
  BY InHandTypes DEF GiveUp, disk, OpenInv, Filing, TypeOK
<1>1. group[i].slot \in Slots BY <1>0 DEF Entries
<1>2. \A s \in Slots : s # group[i].slot => Aside(s) BY <1>0, <1>1, AsideResolved
<1>3. Queued'
  <2>1. \A k \in DOMAIN replacements : replacements[k] \in Entries BY <1>0
  <2>2. \A k \in DOMAIN replacements : replacements[k].slot \in Slots BY <2>1 DEF Entries
  <2>3. \A k \in DOMAIN replacements : replacements[k].slot # group[i].slot
    BY <1>0 DEF OpenInv, Apart, Filing
  <2> QED BY <1>0, <1>2, <2>2, <2>3, QueuedStays DEF Filing
<1>4. \A j, k \in DOMAIN replacements' : replacements'[j].slot = replacements'[k].slot => j = k
  BY <1>0 DEF OpenInv, Apart, Filing
<1>5. \A j \in DOMAIN replacements' :
        j \in DOMAIN replacements /\ replacements'[j].slot = replacements[j].slot
  BY <1>0
<1> QED BY <1>0, <1>2, <1>3, <1>4, <1>5, ItemDone

(* An attempt that is filed as invalid may be tried again under the next   *)
(* number.                                                                 *)
LEMMA Retries ==
  ASSUME TypeOK, OpenInv, Replace
  PROVE  Replacement \in Entries /\ Fresh(Replacement) /\ Replacement.number > 1
<1>0. /\ pc = "settle" /\ ~Good /\ ~aborted /\ ~Exhausted /\ group[i] \in Entries
      /\ i \in DOMAIN group /\ DOMAIN results = DOMAIN group /\ results[i] \in Statuses
      /\ results[i] # "fatal" /\ Finished \in Finishes
  BY InHandTypes DEF Replace, OpenInv, Counters, Filing
<1>1. PICK e \in Entries : e = group[i] BY <1>0
<1>2. Moved(e) /\ Free(e) /\ Reported /\ Behind(e, e.number)
  BY <1>0, <1>1 DEF OpenInv, Current, Filing
<1> DEFINE r == Replacement
<1>3. /\ r = [slot |-> e.slot, number |-> e.number + 1, prev |-> e.number]
      /\ e.number \in Nat /\ e.number >= 1 /\ e.number < MaxRetries + 1 /\ e.slot \in Slots
      /\ e.number \in Numbers /\ MaxRetries \in Nat
  BY <1>0, <1>1, CampaignAssumption DEF Replacement, Exhausted, Entries, Numbers
<1> HIDE DEF r
<1>4. /\ r.slot = e.slot /\ r.number = e.number + 1 /\ r.prev = e.number
      /\ r.number - 1 = e.number /\ r.prev + 1 = r.number /\ r.number > 1
  BY <1>3
<1>5. r \in Entries BY <1>3 DEF Entries
<1>6. Tried(r, r.number - 1) /\ Behind(r, r.number - 1)
  BY <1>2, <1>4 DEF Moved, Tried, Behind
<1>7. Unaccepted(r)
  <2>1. folder[<<e.slot, e.number>>] # "accepted"
    BY <1>0, <1>2 DEF Moved, Aid, Destination
  <2> QED BY <1>2, <1>4, <2>1 DEF Moved, Unaccepted
<1>8. Linked(r)
  <2>1. PICK j \in DOMAIN ledger : ledger[j] = Finished BY <1>2 DEF Reported
  <2>2. ledger[j].slot = e.slot /\ ledger[j].number = e.number /\ ledger[j].status = results[i]
    BY <1>1, <2>1 DEF Finished
  <2>3. results[i] \in {"measurement-failure", "behavior-failure"}
    BY <1>0 DEF Good, Statuses, Classes
  <2> QED BY <1>4, <2>2, <2>3 DEF Linked
<1>9. Free(r) BY <1>2, <1>4 DEF Free
<1> QED BY <1>4, <1>5, <1>6, <1>7, <1>8, <1>9 DEF Fresh, r

(* A replacement is queued.                                                *)
LEMMA OpenReplace == ASSUME TypeOK, OpenInv, Replace PROVE OpenInv'
<1>0. /\ pc = "settle" /\ NextItem
      /\ UNCHANGED <<pending, group, results, aborted, accepted,
                     unresolved, folder, ledger, invoked>>
      /\ replacements' = Append(replacements, Replacement)
      /\ replacements \in Seq(Entries) /\ i \in DOMAIN group /\ i \in Nat
  BY InHandTypes DEF Replace, disk, OpenInv, Filing, TypeOK
<1>1. \A s : Aside(s) BY <1>0, AsideAll
<1> DEFINE r == Replacement
           new == replacements'
<1>2. r \in Entries /\ Fresh(r) /\ r.number > 1 BY Retries DEF Replace
<1>3. r.slot = group[i].slot BY DEF Replacement
<1>4. /\ DOMAIN new = DOMAIN replacements \cup {Len(replacements) + 1}
      /\ new[Len(replacements) + 1] = r
      /\ \A k \in DOMAIN replacements : new[k] = replacements[k]
  <2> HIDE DEF r
  <2> QED BY <1>0, <1>2, OneMore DEF r
<1>5. \A k \in DOMAIN replacements : replacements[k].slot # r.slot
  BY <1>0, <1>3 DEF OpenInv, Apart, Filing
<1>6. \A j, k \in DOMAIN replacements : replacements[j].slot = replacements[k].slot => j = k
  BY <1>0 DEF OpenInv, Apart, Filing
<1> HIDE DEF r, new
<1>7. Queued'
  <2>1. \A e \in Entries : Fresh(e) => Fresh(e)' BY <1>1, AsideKeeps
  <2>2. \A e \in Entries : e \in Members(replacements) => Fresh(e) /\ e.number > 1
    BY <1>0 DEF OpenInv, Queued, Filing
  <2>3. \A e \in Entries : e \in Members(new) => e = r \/ e \in Members(replacements)
    BY <1>4 DEF Members
  <2> QED BY <1>2, <2>1, <2>2, <2>3 DEF Queued, new, Members
<1>8. \A j, k \in DOMAIN new : new[j].slot = new[k].slot => j = k
  BY <1>4, <1>5, <1>6
<1>9. \A j \in DOMAIN new :
           \/ new[j].slot = group[i].slot
           \/ j \in DOMAIN replacements /\ new[j].slot = replacements[j].slot
  BY <1>3, <1>4
<1> QED BY <1>0, <1>1, <1>7, <1>8, <1>9, ItemDone DEF new

(* The group is done: the replacements go before what is left of the plan. *)
LEMMA OpenRegroup == ASSUME TypeOK, OpenInv, Regroup PROVE OpenInv'
<1>0. /\ pc = "regroup" /\ pc' \in {"summary", "sleep", "pick"}
      /\ UNCHANGED <<group, i, results, replacements, aborted, accepted, unresolved,
                     folder, ledger, invoked>>
      /\ pending \in Seq(Entries) /\ replacements \in Seq(Entries)
  BY DEF Regroup, disk, TypeOK
<1>1. \/ aborted /\ pc' = "summary" /\ UNCHANGED pending
      \/ ~aborted /\ pc' \in {"sleep", "pick"} /\ pending' = replacements \o pending
  BY DEF Regroup, Stops, Requeued
<1>2. \A e \in Entries : (Fresh(e) => Fresh(e)') /\ (Begun(e) => Begun(e)')
  BY <1>0, AsideAll, AsideKeeps
<1> DEFINE new == replacements \o pending
<1>3. /\ new \in Seq(Entries)
      /\ \A k \in DOMAIN new :
           \/ k \in DOMAIN replacements /\ new[k] = replacements[k]
           \/ k \notin DOMAIN replacements /\ k - Len(replacements) \in DOMAIN pending
              /\ new[k] = pending[k - Len(replacements)]
  BY <1>0, Behindhand
<1> HIDE DEF new
<1>4. pc' # "summary" => pending' = new /\ \A k \in DOMAIN new : k \in Int
  BY <1>1, <1>3 DEF new
<1>5. Len(replacements) \in Int BY <1>0
<1>6. Apart'
  <2>1. CASE pc' = "summary" BY <2>1 DEF Apart, Over, Before, Filing
  <2>2. CASE pc' # "summary"
    <3>1. \A j, k \in DOMAIN pending : pending[j].slot = pending[k].slot => j = k
      BY <1>0 DEF OpenInv, Apart, Over
    <3>2. \A j, k \in DOMAIN replacements : replacements[j].slot = replacements[k].slot => j = k
      BY <1>0 DEF OpenInv, Apart
    <3>3. \A j \in DOMAIN replacements, k \in DOMAIN pending :
            replacements[j].slot # pending[k].slot
      BY <1>0 DEF OpenInv, Apart
    <3>4. \A k \in DOMAIN pending' :
           \/ k \in DOMAIN replacements /\ pending'[k] = replacements[k]
           \/ k - Len(replacements) \in DOMAIN pending
              /\ pending'[k] = pending[k - Len(replacements)]
      BY <1>3, <1>4, <2>2
    <3>5. ASSUME NEW j \in DOMAIN pending', NEW k \in DOMAIN pending',
                 pending'[j].slot = pending'[k].slot
          PROVE  j = k
      <4>1. CASE j \in DOMAIN replacements /\ pending'[j] = replacements[j]
        BY <3>2, <3>3, <3>4, <3>5, <4>1
      <4>2. CASE j - Len(replacements) \in DOMAIN pending
                 /\ pending'[j] = pending[j - Len(replacements)]
        <5>1. k - Len(replacements) \in DOMAIN pending
              /\ pending'[k] = pending[k - Len(replacements)]
          BY <3>3, <3>4, <3>5, <4>2
        <5>2. j - Len(replacements) = k - Len(replacements) BY <3>1, <3>5, <4>2, <5>1
        <5>3. j \in Int /\ k \in Int BY <1>4, <2>2
        <5> QED BY <1>5, <5>2, <5>3
      <4> QED BY <3>4, <4>1, <4>2
    <3> QED BY <1>0, <2>2, <3>5 DEF Apart, Before, Filing
  <2> QED BY <2>1, <2>2
<1>7. Waiting'
  <2>1. CASE pc' = "summary" BY <2>1 DEF Waiting, Over
  <2>2. CASE pc' # "summary"
    <3>1. \A e \in Entries : e \in Members(pending') =>
            e \in Members(replacements) \/ e \in Members(pending)
      BY <1>3, <1>4, <2>2 DEF Members
    <3>2. \A e \in Entries : e \in Members(replacements) \/ e \in Members(pending) => Fresh(e)
      BY <1>0 DEF OpenInv, Waiting, Queued, Over
    <3>3. \A e \in Entries : e \in Members(pending)' => Fresh(e)'
      BY <1>2, <3>1, <3>2 DEF Members
    <3> QED BY <3>3 DEF Waiting
  <2> QED BY <2>1, <2>2
<1>8. Counters' BY <1>0, <1>1 DEF Counters, Before, Filing
<1>9. Queued' /\ InHand' /\ Current' BY <1>0 DEF Queued, InHand, Current, Filing
<1>10. Opened' BY <1>0 DEF OpenInv, Opened
<1> QED BY <1>6, <1>7, <1>8, <1>9, <1>10 DEF OpenInv

(* The loop ends, or goes on after a pause.                                *)
LEMMA OpenPause == ASSUME TypeOK, OpenInv, LoopEnds \/ Sleep PROVE OpenInv'
<1>0. /\ pc \in {"pick", "sleep"} /\ pc' \in {"summary", "pick"}
      /\ UNCHANGED <<pending, group, i, results, replacements, aborted, accepted, unresolved,
                     folder, ledger, invoked>>
  BY DEF LoopEnds, Sleep, memory, disk
<1>2. \A e \in Entries : Fresh(e) => Fresh(e)' BY <1>0, AsideAll, AsideKeeps
<1>3. Counters' BY <1>0 DEF OpenInv, Counters, Before, Filing
<1>4. Apart' BY <1>0 DEF OpenInv, Apart, Over, Before, Filing
<1>5. Waiting' BY <1>0, <1>2 DEF OpenInv, Waiting, Over, Members
<1>6. Queued' /\ InHand' /\ Current' BY <1>0 DEF Queued, InHand, Current, Filing
<1>7. Opened' BY <1>0 DEF OpenInv, Opened
<1> QED BY <1>3, <1>4, <1>5, <1>6, <1>7 DEF OpenInv

(* The campaign is over: nothing is open any more, but in an aborted one   *)
(* folders may have been left in progress.                                 *)
LEMMA OpenOver == ASSUME TypeOK, OpenInv, Interrupt \/ Summarize \/ Crash PROVE OpenInv'
<1>0. /\ pc' \in Over /\ UNCHANGED folder
      /\ pc' = "summary" => aborted'
      /\ pc' = "done" => pc = "summary" /\ UNCHANGED aborted
  BY DEF Interrupt, Summarize, Crash, Over, disk
<1>1. Counters' /\ Apart' /\ Waiting' /\ Queued' /\ InHand' /\ Current'
  BY <1>0 DEF Counters, Apart, Waiting, Queued, InHand, Current, Before, Filing, Over
<1>2. Opened'
  <2> SUFFICES ASSUME NEW a \in Attempts, folder[a] = "in-progress"
               PROVE  pc' \in {"summary", "done"} => aborted'
    BY <1>0 DEF Opened, Over
  <2> QED BY <1>0 DEF OpenInv, Opened
<1> QED BY <1>1, <1>2 DEF OpenInv

(* Every step keeps the open entries in order.                             *)
LEMMA OpenNext == ASSUME TypeOK, OpenInv, [Next]_vars PROVE OpenInv'
<1>1. CASE UNCHANGED vars
  <2>0. UNCHANGED <<pc, pending, group, i, results, replacements, aborted, accepted,
                    unresolved, folder, ledger, invoked>>
    BY <1>1 DEF vars, memory, disk
  <2>1. \A e \in Entries : (Fresh(e) => Fresh(e)') /\ (Begun(e) => Begun(e)')
    BY <2>0, AsideAll, AsideKeeps
  <2>2. Counters' BY <2>0 DEF OpenInv, Counters, GroupAids, Aid, Good
  <2>3. Apart' BY <2>0 DEF OpenInv, Apart
  <2>4. Waiting' /\ Queued' BY <2>0, <2>1 DEF OpenInv, Waiting, Queued, Members
  <2>5. InHand' BY <2>0, <2>1 DEF OpenInv, InHand
  <2>6. Current'
    BY <2>0 DEF OpenInv, Current, Begun, Moved, Free, Behind, Reported, Tried, Resolved, Linked,
                Unaccepted, Members, Destination, Good, Finished, Aid
  <2>7. Opened' BY <2>0 DEF OpenInv, Opened, GroupAids, Aid
  <2> QED BY <2>2, <2>3, <2>4, <2>5, <2>6, <2>7 DEF OpenInv
<1> QED BY <1>1, OpenPick, OpenMakeFolder, OpenHeld, OpenResults, OpenMove, OpenLedger,
           OpenNote, OpenAccept, OpenIndex, OpenGiveUp, OpenReplace, OpenRegroup, OpenPause,
           OpenOver DEF Next, Advance

(***************************************************************************)
(* The slots that are accepted or given up.                                *)
(***************************************************************************)

(* A folder that was made stays somewhere.                                 *)
LEMMA FoldersStay ==
  ASSUME TypeOK, OpenInv, [Next]_vars, NEW a \in Attempts, folder[a] # "none"
  PROVE  folder'[a] # "none"
<1>1. CASE MakeFolder BY <1>1 DEF MakeFolder, TypeOK
<1>2. CASE Move BY <1>2 DEF Move, TypeOK, Destination
<1>3. CASE UNCHANGED folder BY <1>3
<1> QED
  BY <1>1, <1>2, <1>3
  DEF Next, Advance, vars, disk, Pick, LoopEnds, Prepare, MarkInvoked, Execute, Raise, Ledger,
      Note, Accept, Index, GiveUp, Replace, Regroup, Sleep, Interrupt, Summarize, Crash

LEMMA AttemptsKnown ==
  ASSUME TypeOK PROVE \A k \in DOMAIN attempts : Aid(attempts[k]) \in Attempts
<1>1. \A k \in DOMAIN attempts : attempts[k] \in Finishes BY DEF TypeOK
<1> QED BY <1>1 DEF Finishes, Aid, Attempts

(* Steps that neither accept, nor give up, nor note an attempt.            *)
LEMMA CountedQuiet ==
  ASSUME TypeOK, OpenInv, Counted, [Next]_vars,
         UNCHANGED <<accepted, unresolved, index, attempts>>,
         \/ pc \notin Over \cup {"index"} /\ pc' \notin {"index", "settle"}
            /\ (aborted => aborted')
         \/ pc' = "crashed"
  PROVE  Counted'
<1>1. \A k \in DOMAIN attempts : folder'[Aid(attempts[k])] # "none"
  BY AttemptsKnown, FoldersStay DEF Counted
<1> QED BY <1>1 DEF Counted, Over, Members, Aid

(* A slot that was not there is added once.                                *)
LEMMA AddedOnce ==
  ASSUME NEW q \in Seq(Slots), NEW s \in Slots, s \notin Members(q),
         \A j, k \in DOMAIN q : q[j] = q[k] => j = k
  PROVE  /\ \A j, k \in DOMAIN Append(q, s) : Append(q, s)[j] = Append(q, s)[k] => j = k
         /\ Members(Append(q, s)) = Members(q) \cup {s}
<1> DEFINE a == Append(q, s)
<1>1. /\ DOMAIN a = DOMAIN q \cup {Len(q) + 1} /\ a[Len(q) + 1] = s
      /\ \A k \in DOMAIN q : a[k] = q[k] /\ q[k] # s
  BY OneMore DEF Members
<1> HIDE DEF a
<1>2. Members(a) = Members(q) \cup {s} BY <1>1 DEF Members
<1>3. \A j, k \in DOMAIN a : a[j] = a[k] => j = k BY <1>1
<1> QED BY <1>2, <1>3 DEF a

LEMMA CountedNote == ASSUME TypeOK, OpenInv, Counted, Note PROVE Counted'
<1>0. /\ pc = "note" /\ pc' = "settle" /\ attempts' = Append(attempts, Finished)
      /\ UNCHANGED <<accepted, unresolved, index, folder, aborted>>
      /\ Finished \in Finishes /\ group[i] \in Entries
      /\ attempts \in Seq(Finishes) /\ Len(accepted) \in Nat
  BY InHandTypes DEF Note, disk, Filing, TypeOK, OpenInv
<1> DEFINE f == Finished
<1>1. folder[Aid(f)] # "none"
  <2>1. Moved(group[i]) BY <1>0 DEF OpenInv, Current, Filing
  <2>2. Aid(f) = Aid(group[i]) BY DEF Finished, Aid
  <2> QED BY <2>1, <2>2 DEF Moved, Destination
<1>2. /\ Len(attempts') = Len(attempts) + 1 /\ Len(attempts) \in Nat
      /\ DOMAIN attempts' = DOMAIN attempts \cup {Len(attempts) + 1}
      /\ attempts'[Len(attempts) + 1] = f
      /\ \A k \in DOMAIN attempts : attempts'[k] = attempts[k]
  BY <1>0, OneMore
<1> HIDE DEF f
<1>3. \A k \in DOMAIN attempts' : folder[Aid(attempts'[k])] # "none"
  <2>1. \A k \in DOMAIN attempts : folder[Aid(attempts[k])] # "none" BY DEF Counted
  <2> QED BY <1>1, <1>2, <2>1
<1>4. Len(accepted) = Len(index) /\ Len(accepted) <= Len(attempts)
  BY <1>0 DEF Counted, Over
<1>6. Members(accepted') = Members(accepted) /\ Members(unresolved') = Members(unresolved)
  BY <1>0
<1>5. \A k \in DOMAIN attempts' : Aid(attempts[k])' = Aid(attempts'[k]) BY DEF Aid
<1> QED BY <1>0, <1>2, <1>3, <1>4, <1>5, <1>6 DEF Counted, Over

LEMMA CountedAccept == ASSUME TypeOK, OpenInv, Counted, Accept PROVE Counted'
<1> DEFINE s == group[i].slot
<1>0. /\ pc = "settle" /\ pc' = "index" /\ accepted' = Append(accepted, s)
      /\ UNCHANGED <<attempts, unresolved, index, folder, aborted, group, i>>
      /\ group[i] \in Entries /\ s \in Slots
  BY InHandTypes DEF Accept, disk, Filing, OpenInv, Entries
<1>8. accepted \in Seq(Slots) /\ Len(attempts) \in Nat /\ Len(index) \in Nat BY DEF TypeOK
<1>1. s \notin Members(accepted) /\ s \notin Members(unresolved)
  BY <1>0 DEF OpenInv, Current, Filing, Free, Resolved
<1>2. Len(accepted) = Len(index) /\ Len(accepted) < Len(attempts)
  BY <1>0 DEF Counted, Over
<1> HIDE DEF s
<1>3. /\ \A j, k \in DOMAIN accepted' : accepted'[j] = accepted'[k] => j = k
      /\ Members(accepted') = Members(accepted) \cup {s}
  BY <1>0, <1>1, <1>8, AddedOnce DEF Counted
<1>4. /\ Len(accepted') = Len(accepted) + 1 /\ Len(accepted) \in Nat
      /\ accepted'[Len(accepted) + 1] = s
      /\ \A k \in DOMAIN accepted : accepted'[k] = accepted[k]
  BY <1>0, <1>8, OneMore
<1>5. \A k \in DOMAIN index : k \in DOMAIN accepted
  <2>1. index \in Seq(Finishes) /\ accepted \in Seq(Slots) BY DEF TypeOK
  <2> QED BY <1>2, <2>1
<1>6. \A k \in DOMAIN index : index[k].slot = accepted'[k]
  BY <1>4, <1>5 DEF Counted
<1>7. group[i].slot = s BY DEF s
<1>9. Members(accepted') \cap Members(unresolved') = {}
  <2>1. Members(unresolved') = Members(unresolved) BY <1>0
  <2>2. Members(accepted) \cap Members(unresolved) = {} BY DEF Counted
  <2> QED BY <1>1, <1>3, <2>1, <2>2
<1>10. \A k \in DOMAIN attempts : Aid(attempts[k])' = Aid(attempts[k]) BY <1>0 DEF Aid
<1> QED BY <1>0, <1>2, <1>8, <1>3, <1>4, <1>6, <1>7, <1>9, <1>10 DEF Counted, Over

LEMMA CountedIndex == ASSUME TypeOK, OpenInv, Counted, Index PROVE Counted'
<1>0. /\ pc = "index" /\ pc' \in {"move", "regroup"} /\ index' = Append(index, Finished)
      /\ UNCHANGED <<attempts, accepted, unresolved, folder, aborted>>
      /\ Finished \in Finishes /\ index \in Seq(Finishes)
      /\ Len(accepted) \in Nat /\ Len(attempts) \in Nat
  BY InHandTypes DEF Index, NextItem, Filing, TypeOK, OpenInv
<1> DEFINE f == Finished
<1>1. /\ Len(accepted) = Len(index) + 1 /\ accepted[Len(index) + 1] = f.slot
  BY <1>0 DEF Counted, Finished
<1>2. /\ Len(index') = Len(index) + 1 /\ Len(index) \in Nat
      /\ DOMAIN index' = DOMAIN index \cup {Len(index) + 1}
      /\ index'[Len(index) + 1] = f
      /\ \A k \in DOMAIN index : index'[k] = index[k]
  BY <1>0, OneMore
<1> HIDE DEF f
<1>3. \A k \in DOMAIN index' : index'[k].slot = accepted[k]
  <2>1. \A k \in DOMAIN index : index[k].slot = accepted[k] BY DEF Counted
  <2> QED BY <1>1, <1>2, <2>1
<1>4. Members(accepted') = Members(accepted) /\ Members(unresolved') = Members(unresolved)
  BY <1>0
<1>5. \A k \in DOMAIN attempts : Aid(attempts[k])' = Aid(attempts[k]) BY <1>0 DEF Aid
<1>6. Len(accepted) = Len(index') BY <1>1, <1>2
<1> QED BY <1>0, <1>3, <1>4, <1>5, <1>6 DEF Counted, Over

LEMMA CountedGiveUp == ASSUME TypeOK, OpenInv, Counted, GiveUp PROVE Counted'
<1> DEFINE s == group[i].slot
<1>0. /\ pc = "settle" /\ pc' \in {"move", "regroup"} /\ unresolved' = Append(unresolved, s)
      /\ UNCHANGED <<attempts, accepted, index, folder, aborted>>
      /\ group[i] \in Entries /\ unresolved \in Seq(Slots) /\ s \in Slots
  BY InHandTypes DEF GiveUp, disk, NextItem, Filing, TypeOK, OpenInv, Entries
<1>1. s \notin Members(accepted) /\ s \notin Members(unresolved)
  BY <1>0 DEF OpenInv, Current, Filing, Free, Resolved
<1> HIDE DEF s
<1>2. /\ \A j, k \in DOMAIN unresolved' : unresolved'[j] = unresolved'[k] => j = k
      /\ Members(unresolved') = Members(unresolved) \cup {s}
  BY <1>0, <1>1, AddedOnce DEF Counted
<1>3. Members(accepted') \cap Members(unresolved') = {}
  <2>1. Members(accepted') = Members(accepted) BY <1>0
  <2>2. Members(accepted) \cap Members(unresolved) = {} BY DEF Counted
  <2> QED BY <1>1, <1>2, <2>1, <2>2
<1>4. Len(accepted) = Len(index) BY <1>0 DEF Counted, Over
<1> QED BY <1>0, <1>2, <1>3, <1>4 DEF Counted, Over, Aid

(* Two lists of different slots that share none.                           *)
LEMMA Together ==
  ASSUME NEW u \in Seq(Slots), NEW d \in Seq(Slots),
         \A j, k \in DOMAIN u : u[j] = u[k] => j = k,
         \A j, k \in DOMAIN d : d[j] = d[k] => j = k,
         Members(u) \cap Members(d) = {}
  PROVE  /\ \A j, k \in DOMAIN (u \o d) : (u \o d)[j] = (u \o d)[k] => j = k
         /\ Members(u \o d) \subseteq Members(u) \cup Members(d)
<1> DEFINE c == u \o d
<1>1. /\ c \in Seq(Slots)
      /\ \A k \in DOMAIN c : \/ k \in DOMAIN u /\ c[k] = u[k]
                             \/ k - Len(u) \in DOMAIN d /\ c[k] = d[k - Len(u)]
  BY Behindhand
<1> HIDE DEF c
<1>2. \A k \in DOMAIN c : k \in Int /\ Len(u) \in Int BY <1>1
<1>3. \A j \in DOMAIN u, k \in DOMAIN d : u[j] # d[k] BY DEF Members
<1>4. ASSUME NEW j \in DOMAIN c, NEW k \in DOMAIN c, c[j] = c[k] PROVE j = k
  <2>1. CASE j \in DOMAIN u /\ c[j] = u[j] BY <1>1, <1>3, <1>4, <2>1
  <2>2. CASE j - Len(u) \in DOMAIN d /\ c[j] = d[j - Len(u)]
    <3>1. k - Len(u) \in DOMAIN d /\ c[k] = d[k - Len(u)] BY <1>1, <1>3, <1>4, <2>2
    <3>2. j - Len(u) = k - Len(u) BY <1>4, <2>2, <3>1
    <3> QED BY <1>2, <3>2
  <2> QED BY <1>1, <2>1, <2>2
<1>5. Members(c) \subseteq Members(u) \cup Members(d) BY <1>1 DEF Members
<1> QED BY <1>4, <1>5 DEF c

(* What is listed at the end was not resolved before, and each slot once.  *)
LEMMA ClosingOnce ==
  ASSUME TypeOK, Counted
  PROVE  /\ \A j, k \in DOMAIN Closing : Closing[j] = Closing[k] => j = k
         /\ Members(accepted) \cap Members(Closing) = {}
<1>1. /\ unresolved \in Seq(Slots) /\ Dangling \in Seq(Slots)
      /\ Members(Dangling) \cap Resolved = {}
      /\ \A j, k \in DOMAIN Dangling : Dangling[j] = Dangling[k] => j = k
  BY DanglingSlots DEF TypeOK
<1>2. Members(unresolved) \cap Members(Dangling) = {} BY <1>1 DEF Resolved
<1>3. /\ \A j, k \in DOMAIN Closing : Closing[j] = Closing[k] => j = k
      /\ Members(Closing) \subseteq Members(unresolved) \cup Members(Dangling)
  BY <1>1, <1>2, Together DEF Closing, Counted
<1>4. Members(accepted) \cap Members(unresolved) = {} BY DEF Counted
<1> QED BY <1>1, <1>3, <1>4 DEF Resolved

LEMMA CountedEnd == ASSUME TypeOK, OpenInv, Counted, Interrupt \/ Summarize PROVE Counted'
<1>0. /\ unresolved' = Closing /\ pc' \in {"summary", "done"}
      /\ UNCHANGED <<attempts, accepted, index, folder>>
  BY DEF Interrupt, Summarize, Closing, disk
<1>1. /\ \A j, k \in DOMAIN unresolved' : unresolved'[j] = unresolved'[k] => j = k
      /\ Members(accepted) \cap Members(unresolved') = {}
  BY <1>0, ClosingOnce
<1>2. ~aborted' => Len(accepted) = Len(index)
  <2>1. CASE Interrupt
    <3>1. aborted' BY <2>1, Zenon DEF Interrupt
    <3> QED BY <3>1, Zenon
  <2>2. CASE Summarize BY <2>2 DEF Summarize, Counted
  <2> QED BY <2>1, <2>2
<1> QED BY <1>0, <1>1, <1>2 DEF Counted, Over, Members, Aid

LEMMA CountedNext == ASSUME TypeOK, OpenInv, Counted, [Next]_vars PROVE Counted'
<1>1. CASE UNCHANGED vars
  BY <1>1 DEF Counted, vars, memory, disk, Members, Over, Aid
<1>2. CASE \/ Pick \/ LoopEnds \/ MakeFolder \/ Prepare \/ MarkInvoked \/ Execute
           \/ \E status \in {"measurement-failure", "fatal"} : Raise(status)
           \/ Move \/ Ledger \/ Replace \/ Regroup \/ Sleep \/ Crash
  <2>1. UNCHANGED <<accepted, unresolved, index, attempts>>
    BY <1>2 DEF Pick, LoopEnds, MakeFolder, Prepare, MarkInvoked, Execute, Raise, Move, Ledger,
                Replace, Regroup, Sleep, Crash, memory, disk
  <2>2. \/ /\ pc \notin Over \cup {"index"} /\ pc' \notin {"index", "settle"}
           /\ aborted' = aborted \/ ~aborted
        \/ pc' = "crashed"
    BY <1>2 DEF Pick, LoopEnds, MakeFolder, Prepare, MarkInvoked, Execute, Raise, Move, Ledger,
                Replace, Regroup, Sleep, Crash, memory, disk, Over, NextItem, OpenInv, Counters, Before
  <2> QED BY <2>1, <2>2, CountedQuiet
<1> QED
  BY <1>1, <1>2, CountedNote, CountedAccept, CountedIndex, CountedGiveUp, CountedEnd
  DEF Next, Advance

(***************************************************************************)
(* The engine's state, and what follows for the disk.                      *)
(***************************************************************************)

Engine == TypeOK /\ OpenInv /\ Counted

LEMMA EngineInit == Init => Engine
<1> SUFFICES ASSUME Init PROVE Engine OBVIOUS
<1>0. Planned \in Nat /\ Planned >= 1 /\ MaxRetries \in Nat BY CampaignAssumption
<1>1. /\ DOMAIN pending = Slots /\ pending \in Seq(Entries)
      /\ \A k \in DOMAIN pending : pending[k] = [slot |-> k, number |-> 1, prev |-> 0]
  <2>1. \A s \in Slots : [slot |-> s, number |-> 1, prev |-> 0] \in Entries
    BY <1>0 DEF Entries, Slots
  <2>2. pending \in [1..Planned -> Entries] BY <2>1 DEF Init, Slots
  <2> QED BY <1>0, <2>2 DEF Init, Slots
<1>2. TypeOK
  <2>1. folder \in [Attempts -> Places] BY DEF Init, Places
  <2>2. summary \in [written : BOOLEAN, accepted : Nat, suspect : Nat,
                     unresolved : Nat, unstarted : Int, complete : BOOLEAN]
    BY DEF Init
  <2>3. \A T : << >> \in Seq(T) OBVIOUS
  <2>4. /\ group = << >> /\ results = << >> /\ replacements = << >> /\ attempts = << >>
        /\ accepted = << >> /\ unresolved = << >> /\ ledger = << >> /\ index = << >>
    BY DEF Init
  <2>5. pc \in Outside /\ i \in Nat \ {0} /\ invoked = {} /\ ran = {}
    BY DEF Init, Outside
  <2>6. aborted \in BOOLEAN BY Zenon DEF Init
  <2> QED BY <1>1, <2>1, <2>2, <2>3, <2>4, <2>5, <2>6 DEF TypeOK
<1>3. \A e \in Entries : e \in Members(pending) => Fresh(e)
  <2> SUFFICES ASSUME NEW e \in Entries, e \in Members(pending) PROVE Fresh(e) OBVIOUS
  <2>1. e.number = 1 /\ e.slot \in Slots BY <1>1 DEF Members, Entries
  <2>2. \A n \in Numbers : folder[<<e.slot, n>>] = "none" /\ n \in Nat /\ n >= 1
    BY <1>0, <2>1 DEF Init, Attempts, Numbers
  <2>3. ledger = << >> /\ Resolved = {} BY DEF Init, Resolved, Members
  <2>4. Tried(e, e.number - 1) BY <2>1, <2>2 DEF Tried
  <2> QED BY <2>1, <2>2, <2>3, <2>4 DEF Fresh, Behind, Unaccepted, Linked, Free
<1>4. Counters /\ Apart /\ Waiting /\ Queued /\ InHand /\ Current
  BY <1>1, <1>3 DEF Init, Counters, Apart, Waiting, Queued, InHand, Current, Before, Filing, Over
<1>5. Opened BY DEF Init, Opened
<1>6. Counted BY DEF Init, Counted, Members, Over
<1> QED BY <1>2, <1>4, <1>5, <1>6 DEF Engine, OpenInv

LEMMA EngineNext == Engine /\ [Next]_vars => Engine'
<1> SUFFICES ASSUME Engine, [Next]_vars PROVE Engine' OBVIOUS
<1>1. TypeOK /\ OpenInv /\ Counted /\ Counters BY DEF Engine, OpenInv
<1>2. TypeOK' BY <1>1, TypesNext
<1>3. OpenInv' BY <1>1, OpenNext
<1>4. Counted' BY <1>1, CountedNext
<1> QED BY <1>2, <1>3, <1>4 DEF Engine

LEMMA EngineAlways == Spec => []Engine
BY EngineInit, EngineNext, PTL DEF Spec

(* At every moment of every campaign the engine's variables have their     *)
(* types: no index runs off a group, no attempt number past the retry      *)
(* limit, whatever the plan, the batches and the moment of an exception.   *)
THEOREM TypesHold == Spec => []TypeOK
<1>1. Engine => TypeOK BY DEF Engine
<1> QED BY <1>1, EngineAlways, PTL

(* The group shares a key, and replacements go before the plan.            *)
LEMMA DisciplineNext ==
  ASSUME Engine, RetryDiscipline, [Next]_vars PROVE RetryDiscipline'
<1>0. /\ pending \in Seq(Entries) /\ replacements \in Seq(Entries) /\ group \in Seq(Entries)
  BY DEF Engine, TypeOK
<1>1. CASE Pick
  <2> DEFINE n == GroupSize
  <2>1. n \in 1..Len(pending) /\ (n = 1 \/ Shares(n)) BY <1>1, SizeOfGroup DEF Engine, Pick
  <2>2. /\ DOMAIN group' = 1..n
        /\ \A k \in 1..n : k \in DOMAIN pending /\ group'[k] = pending[k]
        /\ DOMAIN pending' = 1..Len(pending) - n
        /\ \A k \in 1..Len(pending) - n : k + n \in DOMAIN pending /\ pending'[k] = pending[k + n]
    <3>1. group' = SubSeq(pending, 1, n) /\ pending' = Rest(pending, n) BY <1>1 DEF Pick
    <3>2. n \in 1..Len(pending) /\ pending \in Seq(Entries) BY <1>0, <2>1
    <3> HIDE DEF n
    <3>3. /\ DOMAIN SubSeq(pending, 1, n) = 1..n
          /\ \A k \in 1..n : k \in DOMAIN pending /\ SubSeq(pending, 1, n)[k] = pending[k]
      BY <3>2, FirstOnes
    <3>4. /\ DOMAIN Rest(pending, n) = 1..Len(pending) - n
          /\ \A k \in 1..Len(pending) - n :
                k + n \in DOMAIN pending /\ Rest(pending, n)[k] = pending[k + n]
      BY <3>2, OtherOnes
    <3> QED BY <3>1, <3>3, <3>4
  <2> HIDE DEF n
  <2>3. Len(group') > 1 =>
          \A k \in DOMAIN group' :
             group'[k].number = 1 /\ BatchKey[group'[k].slot] = BatchKey[group'[1].slot]
    <3>0. group' \in Seq(Entries) => Len(group') = n BY <2>1, <2>2
    <3>1. group' \in Seq(Entries) BY EngineNext DEF Engine, TypeOK
    <3> SUFFICES ASSUME n > 1, NEW k \in 1..n
                 PROVE  pending[k].number = 1
                        /\ BatchKey[pending[k].slot] = BatchKey[pending[1].slot]
      BY <2>1, <2>2, <3>0, <3>1
    <3> QED BY <2>1 DEF Shares, MayShare
  <2>4. \A j, k \in DOMAIN pending' : j < k /\ pending'[j].number = 1 =>
           pending'[k].number = 1 /\ pending'[j].slot < pending'[k].slot
    <3>1. \A j, k \in DOMAIN pending' : j < k => j + n < k + n BY <2>1, <2>2
    <3> QED BY <2>2, <3>1 DEF RetryDiscipline
  <2> QED BY <2>3, <2>4 DEF RetryDiscipline
<1>2. CASE Regroup /\ pending' # pending
  <2> DEFINE new == replacements \o pending
             L == Len(replacements)
  <2>1. /\ new \in Seq(Entries)
        /\ \A k \in DOMAIN new :
             \/ k \in DOMAIN replacements /\ new[k] = replacements[k]
             \/ k \notin DOMAIN replacements /\ k - L \in DOMAIN pending
                /\ new[k] = pending[k - L]
    BY <1>0, Behindhand
  <2>2. DOMAIN replacements = 1..L /\ L \in Nat /\ \A k \in DOMAIN new : k \in Nat /\ k >= 1
    BY <1>0, <2>1
  <2>3. \A k \in DOMAIN replacements : replacements[k] \in Entries /\ replacements[k].number # 1
    <3>1. \A e \in Entries : e \in Members(replacements) => e.number > 1
      BY <1>2 DEF Engine, OpenInv, Queued, Regroup
    <3>2. \A e \in Entries : e \in Members(replacements) => e.number # 1
      BY <3>1
    <3> QED BY <1>0, <3>2 DEF Members
  <2>4. pending' = new /\ UNCHANGED group BY <1>2 DEF Regroup, Requeued
  <2> HIDE DEF new, L
  <2>5. \A j, k \in DOMAIN new : j < k /\ new[j].number = 1 =>
           new[k].number = 1 /\ new[j].slot < new[k].slot
    <3> SUFFICES ASSUME NEW j \in DOMAIN new, NEW k \in DOMAIN new, j < k, new[j].number = 1
                 PROVE  new[k].number = 1 /\ new[j].slot < new[k].slot
      OBVIOUS
    <3>1. j \notin DOMAIN replacements /\ j - L \in DOMAIN pending /\ new[j] = pending[j - L]
      BY <2>1, <2>3
    <3>2. k \notin DOMAIN replacements BY <2>2, <3>1
    <3>3. k - L \in DOMAIN pending /\ new[k] = pending[k - L] BY <2>1, <3>2
    <3>4. j - L < k - L BY <2>2
    <3> QED BY <3>1, <3>3, <3>4 DEF RetryDiscipline
  <2> QED BY <2>4, <2>5 DEF RetryDiscipline
<1>3. CASE UNCHANGED <<pending, group>>
  BY <1>3 DEF RetryDiscipline
<1> QED
  BY <1>1, <1>2, <1>3
  DEF Next, Advance, vars, memory, disk, LoopEnds, MakeFolder, Prepare, MarkInvoked, Execute,
      Raise, Move, Ledger, Note, Accept, Index, GiveUp, Replace, Regroup, Sleep, Interrupt,
      Summarize, Crash

(* Whatever the batch keys and the batch size: only first attempts of one  *)
(* key share a capture, a replacement runs alone, and before the plan goes *)
(* on (engine.py:52-63, 118).                                              *)
THEOREM RetriesDisciplined == Spec => []RetryDiscipline
<1>1. Init => RetryDiscipline
  <2> SUFFICES ASSUME Init PROVE RetryDiscipline OBVIOUS
  <2>1. /\ DOMAIN pending = 1..Planned /\ Planned \in Nat
        /\ \A k \in DOMAIN pending : pending[k] = [slot |-> k, number |-> 1, prev |-> 0]
    BY CampaignAssumption DEF Init, Slots
  <2>2. group = << >> BY DEF Init
  <2> QED BY <2>1, <2>2 DEF RetryDiscipline
<1>2. Engine /\ RetryDiscipline /\ [Next]_vars => RetryDiscipline' BY DisciplineNext
<1> QED BY <1>1, <1>2, EngineAlways, PTL DEF Spec

(* No measurement is ever executed whose attempt.json does not say on disk *)
(* that it may have been: after a crash an audit finds it                  *)
(* (engine.py:53-54).                                                      *)
THEOREM DurableFirst == Spec => []DurableBeforeExecution
<1>1. Init => DurableBeforeExecution BY DEF Init, DurableBeforeExecution
<1>2. ASSUME Engine, DurableBeforeExecution, [Next]_vars PROVE DurableBeforeExecution'
  <2>1. ran' \subseteq ran \cup invoked
    BY <1>2
    DEF Next, Advance, vars, memory, disk, Pick, LoopEnds, MakeFolder, Prepare, MarkInvoked,
        Execute, Raise, Move, Ledger, Note, Accept, Index, GiveUp, Replace, Regroup, Sleep,
        Interrupt, Summarize, Crash, Engine, OpenInv, Counters
  <2>2. invoked \subseteq invoked'
    BY <1>2
    DEF Next, Advance, vars, memory, disk, Pick, LoopEnds, MakeFolder, Prepare, MarkInvoked,
        Execute, Raise, Move, Ledger, Note, Accept, Index, GiveUp, Replace, Regroup, Sleep,
        Interrupt, Summarize, Crash
  <2> QED BY <1>2, <2>1, <2>2 DEF DurableBeforeExecution
<1> QED BY <1>1, <1>2, EngineAlways, PTL DEF Spec

(* What is in hand when a folder is made, moved or reported.               *)
LEMMA HandMakes ==
  ASSUME Engine, MakeFolder
  PROVE  \E e \in Entries :
           /\ e = group[i] /\ Fresh(e) /\ Aid(e) \in Attempts
           /\ folder' = [folder EXCEPT ![Aid(e)] = "in-progress"]
           /\ UNCHANGED <<ledger, index>>
<1>1. pc = "mkdir" /\ i \in DOMAIN group /\ group[i] \in Entries /\ Aid(group[i]) \in Attempts
  BY InHandTypes DEF MakeFolder, Before, Engine, OpenInv
<1>2. i \in Nat BY DEF Engine, TypeOK
<1>3. PICK e \in Entries : e = group[i] BY <1>1
<1>4. Fresh(e) BY <1>1, <1>2, <1>3 DEF Engine, OpenInv, InHand
<1> QED BY <1>1, <1>3, <1>4 DEF MakeFolder

LEMMA HandMoves ==
  ASSUME Engine, Move
  PROVE  \E e \in Entries :
           /\ e = group[i] /\ Begun(e) /\ Aid(e) \in Attempts
           /\ folder' = [folder EXCEPT ![Aid(e)] = Destination]
           /\ UNCHANGED <<ledger, index>>
<1>1. pc = "move" /\ group[i] \in Entries /\ Aid(group[i]) \in Attempts
  BY InHandTypes DEF Move, Filing, Engine, OpenInv
<1>2. PICK e \in Entries : e = group[i] BY <1>1
<1>3. Begun(e) BY <1>1, <1>2 DEF Engine, OpenInv, Current, Filing
<1> QED BY <1>1, <1>2, <1>3 DEF Move

LEMMA HandReports ==
  ASSUME Engine, Ledger
  PROVE  \E e \in Entries, f \in Finishes :
           /\ e = group[i] /\ Moved(e) /\ Linked(e) /\ f = Finished /\ f.slot = e.slot
           /\ f.number = e.number /\ f.prev = e.prev /\ f.status = results[i]
           /\ ledger' = Append(ledger, f) /\ UNCHANGED <<folder, index>>
<1>1. pc = "ledger" /\ group[i] \in Entries /\ Finished \in Finishes
  BY InHandTypes DEF Ledger, Filing, Engine, OpenInv
<1>2. PICK e \in Entries : e = group[i] BY <1>1
<1>3. Moved(e) /\ Linked(e) BY <1>1, <1>2 DEF Engine, OpenInv, Current, Filing
<1>4. PICK f \in Finishes : f = Finished BY <1>1
<1>5. f.slot = e.slot /\ f.number = e.number /\ f.prev = e.prev /\ f.status = results[i]
  BY <1>2, <1>4 DEF Finished
<1> QED BY <1>2, <1>3, <1>4, <1>5 DEF Ledger

(* The other steps leave the evidence alone.                               *)
LEMMA EvidenceAlone ==
  [Next]_vars => \/ MakeFolder \/ Move \/ Ledger \/ Index
                 \/ UNCHANGED <<folder, ledger, index>>
BY DEF Next, Advance, vars, memory, disk, Pick, LoopEnds, Prepare, MarkInvoked, Execute, Raise,
       Note, Accept, GiveUp, Replace, Regroup, Sleep, Interrupt, Summarize, Crash

(* A line of attempts.jsonl is of another attempt than the one in hand.    *)
LEMMA LinesOfOthers ==
  ASSUME Engine, NEW e \in Entries, Behind(e, e.number - 1), NEW k \in DOMAIN ledger
  PROVE  Aid(ledger[k]) \in Attempts /\ Aid(ledger[k]) # Aid(e)
<1>1. ledger[k] \in Finishes BY DEF Engine, TypeOK
<1>2. Aid(ledger[k]) \in Attempts /\ ledger[k].number \in Int
  BY <1>1 DEF Finishes, Aid, Attempts
<1>3. e.number \in Int BY DEF Entries
<1>4. ledger[k].slot = e.slot => ledger[k].number # e.number BY <1>2, <1>3 DEF Behind
<1> QED BY <1>2, <1>4 DEF Aid

LEMMA FiledNext ==
  ASSUME Engine, EvidenceFiled, [Next]_vars PROVE EvidenceFiled'
<1> DEFINE Shown(k) == folder[Aid(ledger[k])] =
                         IF ledger[k].status = "valid" THEN "accepted" ELSE "suspect"
           Named(k) == index[k] \in Members(ledger) /\ index[k].status = "valid"
<1>0. folder \in [Attempts -> Places] /\ ledger \in Seq(Finishes) /\ index \in Seq(Finishes)
  BY DEF Engine, TypeOK
<1>1. (\A k \in DOMAIN ledger : Shown(k)) /\ (\A k \in DOMAIN index : Named(k))
  BY DEF EvidenceFiled
<1>2. ASSUME NEW e \in Entries, NEW place, Behind(e, e.number - 1), Aid(e) \in Attempts,
             folder' = [folder EXCEPT ![Aid(e)] = place], UNCHANGED <<ledger, index>>
      PROVE  EvidenceFiled'
  <2>1. \A k \in DOMAIN ledger : folder'[Aid(ledger[k])] = folder[Aid(ledger[k])]
    <3> TAKE k \in DOMAIN ledger
    <3>1. Aid(ledger[k]) \in Attempts /\ Aid(ledger[k]) # Aid(e) BY <1>2, LinesOfOthers
    <3> QED BY <1>0, <1>2, <3>1
  <2>2. \A k \in DOMAIN ledger : Aid(ledger[k])' = Aid(ledger[k]) BY <1>2 DEF Aid
  <2>3. Members(ledger)' = Members(ledger) BY <1>2 DEF Members
  <2> QED BY <1>1, <1>2, <2>1, <2>2, <2>3 DEF EvidenceFiled
<1>3. CASE MakeFolder BY <1>2, <1>3, HandMakes DEF Fresh
<1>4. CASE Move BY <1>2, <1>4, HandMoves DEF Begun
<1>5. CASE Ledger
  <2>1. PICK e \in Entries, f \in Finishes :
           /\ Moved(e) /\ f.slot = e.slot /\ f.number = e.number /\ f.status = results[i]
           /\ ledger' = Append(ledger, f) /\ UNCHANGED <<folder, index>>
    BY <1>5, HandReports
  <2>2. /\ DOMAIN ledger' = DOMAIN ledger \cup {Len(ledger) + 1} /\ ledger'[Len(ledger) + 1] = f
        /\ \A k \in DOMAIN ledger : ledger'[k] = ledger[k]
    BY <1>0, <2>1, OneMore
  <2>3. folder[Aid(f)] = IF f.status = "valid" THEN "accepted" ELSE "suspect"
    BY <2>1 DEF Moved, Destination, Good, Aid
  <2>4. \A k \in DOMAIN ledger' : folder'[Aid(ledger'[k])] =
          IF ledger'[k].status = "valid" THEN "accepted" ELSE "suspect"
    BY <1>1, <2>1, <2>2, <2>3
  <2>5. \A k \in DOMAIN index : index[k] \in Members(ledger') /\ index[k].status = "valid"
    BY <1>1, <2>2 DEF Members
  <2>6. \A k \in DOMAIN ledger' : Aid(ledger[k])' = Aid(ledger'[k]) BY DEF Aid
  <2>7. Members(ledger)' = Members(ledger') BY DEF Members
  <2> QED BY <2>1, <2>4, <2>5, <2>6, <2>7 DEF EvidenceFiled
<1>6. CASE Index
  <2>1. /\ pc = "index" /\ index' = Append(index, Finished) /\ UNCHANGED <<folder, ledger>>
        /\ Finished \in Finishes /\ group[i] \in Entries
    BY <1>6, InHandTypes DEF Index, Engine, OpenInv, Filing
  <2>2. Reported /\ Good BY <2>1 DEF Engine, OpenInv, Current, Counters, Filing
  <2> DEFINE f == Finished
  <2>3. f \in Members(ledger) /\ f.status = "valid"
    BY <2>2 DEF Reported, Members, Finished, Good
  <2>4. /\ DOMAIN index' = DOMAIN index \cup {Len(index) + 1} /\ index'[Len(index) + 1] = f
        /\ \A k \in DOMAIN index : index'[k] = index[k]
    BY <1>0, <2>1, OneMore
  <2> HIDE DEF f
  <2>5. \A k \in DOMAIN index' : index'[k] \in Members(ledger) /\ index'[k].status = "valid"
    BY <1>1, <2>3, <2>4
  <2>6. \A k \in DOMAIN ledger : Aid(ledger[k])' = Aid(ledger[k]) BY <2>1 DEF Aid
  <2>7. Members(ledger)' = Members(ledger) BY <2>1 DEF Members
  <2> QED BY <1>1, <2>1, <2>5, <2>6, <2>7 DEF EvidenceFiled
<1>7. CASE UNCHANGED <<folder, ledger, index>>
  <2>1. \A k \in DOMAIN ledger : Aid(ledger[k])' = Aid(ledger[k]) BY <1>7 DEF Aid
  <2>2. Members(ledger)' = Members(ledger) BY <1>7 DEF Members
  <2> QED BY <1>1, <1>7, <2>1, <2>2 DEF EvidenceFiled
<1> QED BY <1>3, <1>4, <1>5, <1>6, <1>7, EvidenceAlone

(* Whatever stops a campaign, and after a crash at any statement: the      *)
(* folder of every attempt in attempts.jsonl is where its line says, and   *)
(* accepted.jsonl lists only valid attempts of attempts.jsonl              *)
(* (engine.py:105-111).                                                    *)
THEOREM EvidenceKept == Spec => []EvidenceFiled
<1>1. Init => EvidenceFiled BY DEF Init, EvidenceFiled
<1>2. Engine /\ EvidenceFiled /\ [Next]_vars => EvidenceFiled' BY FiledNext
<1> QED BY <1>1, <1>2, EngineAlways, PTL DEF Spec

(* Every attempt after the first is linked to the line of the attempt it   *)
(* replaces, which was finished, invalid and not fatal, and no slot has    *)
(* more than MaxRetries + 1 attempts (engine.py:112-115).                  *)
THEOREM RetriesLinked == Spec => []RetryChain
<1>1. Init => RetryChain BY DEF Init, RetryChain
<1>2. ASSUME Engine, RetryChain, [Next]_vars PROVE RetryChain'
  <2>1. CASE Ledger
    <3>1. PICK e \in Entries, f \in Finishes :
             /\ Linked(e) /\ f.slot = e.slot /\ f.number = e.number /\ f.prev = e.prev
             /\ ledger' = Append(ledger, f)
      BY <1>2, <2>1, HandReports
    <3>2. ledger \in Seq(Finishes) BY <1>2 DEF Engine, TypeOK
    <3>3. /\ DOMAIN ledger' = DOMAIN ledger \cup {Len(ledger) + 1} /\ ledger'[Len(ledger) + 1] = f
          /\ \A k \in DOMAIN ledger : ledger'[k] = ledger[k]
          /\ DOMAIN ledger = 1..Len(ledger) /\ Len(ledger) \in Nat
      BY <3>1, <3>2, OneMore
    <3>4. f.number <= MaxRetries + 1 BY CampaignAssumption DEF Finishes
    <3>5. f.number > 1 => \E j \in 1..Len(ledger) :
             /\ ledger'[j].slot = f.slot /\ ledger'[j].number = f.prev
             /\ ledger'[j].number + 1 = f.number
             /\ ledger'[j].status \in {"measurement-failure", "behavior-failure"}
      BY <3>1, <3>3 DEF Linked
    <3>6. ASSUME NEW k \in DOMAIN ledger, ledger'[k].number > 1
          PROVE  \E j \in 1..(k - 1) :
             /\ ledger'[j].slot = ledger'[k].slot /\ ledger'[j].number = ledger'[k].prev
             /\ ledger'[j].number + 1 = ledger'[k].number
             /\ ledger'[j].status \in {"measurement-failure", "behavior-failure"}
      <4>1. ledger[k].number > 1 BY <3>3, <3>6
      <4>2. \A j \in 1..(k - 1) : j \in DOMAIN ledger BY <3>3
      <4> QED BY <1>2, <3>3, <4>1, <4>2 DEF RetryChain
    <3>7. \A k \in DOMAIN ledger : ledger'[k].number <= MaxRetries + 1
      BY <1>2, <3>3 DEF RetryChain
    <3>8. (Len(ledger) + 1) - 1 = Len(ledger) BY <3>3
    <3> QED BY <3>3, <3>4, <3>5, <3>6, <3>7, <3>8 DEF RetryChain
  <2>2. CASE UNCHANGED ledger BY <1>2, <2>2 DEF RetryChain
  <2> QED BY <1>2, <2>1, <2>2, EvidenceAlone DEF MakeFolder, Move, Index
<1> QED BY <1>1, <1>2, EngineAlways, PTL DEF Spec

OneLine   == \A j, k \in DOMAIN index : index[j].slot = index[k].slot => j = k
OneFolder == \A a, b \in Attempts :
               folder[a] = "accepted" /\ folder[b] = "accepted" /\ a[1] = b[1] => a = b

(* A folder goes to accepted/ only when no other of its slot is there.     *)
LEMMA OneFolderNext ==
  ASSUME Engine, [Next]_vars, OneFolder,
         NEW a \in Attempts, NEW b \in Attempts,
         folder'[a] = "accepted", folder'[b] = "accepted", a[1] = b[1]
  PROVE  a = b
<1>0. /\ folder \in [Attempts -> Places]
      /\ a = <<a[1], a[2]>> /\ b = <<b[1], b[2]>> /\ a[2] \in Numbers /\ b[2] \in Numbers
  BY DEF Engine, TypeOK, Attempts, Numbers
<1>1. CASE MakeFolder
  <2>1. folder[a] = "accepted" /\ folder[b] = "accepted" BY <1>0, <1>1 DEF MakeFolder
  <2> QED BY <2>1 DEF OneFolder
<1>2. CASE Move
  <2>1. PICK e \in Entries : /\ Unaccepted(e) /\ Aid(e) \in Attempts
                             /\ folder' = [folder EXCEPT ![Aid(e)] = Destination]
    BY <1>2, HandMoves DEF Begun
  <2>2. \A c \in Attempts : folder'[c] = IF c = Aid(e) THEN Destination ELSE folder[c]
    BY <1>0, <2>1
  <2>3. CASE a = Aid(e) \/ b = Aid(e)
    <3>1. a[1] = e.slot /\ b[1] = e.slot BY <2>3 DEF Aid
    <3>2. folder[a] # "accepted" /\ folder[b] # "accepted"
      BY <1>0, <2>1, <3>1 DEF Unaccepted
    <3> QED BY <2>2, <3>2
  <2>4. CASE a # Aid(e) /\ b # Aid(e) BY <2>2, <2>4 DEF OneFolder
  <2> QED BY <2>3, <2>4
<1>3. CASE UNCHANGED folder BY <1>3 DEF OneFolder
<1> QED BY <1>1, <1>2, <1>3, EvidenceAlone DEF Ledger, Index

(* accepted.jsonl lists the accepted slots, each once.                     *)
LEMMA IndexOnce == Engine => OneLine
<1> SUFFICES ASSUME Engine PROVE OneLine OBVIOUS
<1>1. index \in Seq(Finishes) /\ accepted \in Seq(Slots) BY DEF Engine, TypeOK
<1>2. Len(index) <= Len(accepted) BY DEF Engine, Counted
<1>3. \A k \in DOMAIN index : k \in DOMAIN accepted BY <1>1, <1>2
<1> QED BY <1>3 DEF Engine, Counted, OneLine

(* At any moment, and on the disk a stopped campaign leaves: a slot has at *)
(* most one line in accepted.jsonl and at most one folder in accepted/, so *)
(* tap never measures one slot twice (engine.py:36).                       *)
THEOREM OneAccepted == Spec => []OneAcceptedPerSlot
<1>1. Init => OneFolder BY DEF Init, OneFolder
<1>2. Engine /\ OneFolder /\ [Next]_vars => OneFolder'
  <2> SUFFICES ASSUME Engine, OneFolder, [Next]_vars PROVE OneFolder' OBVIOUS
  <2>1. \A a, b \in Attempts :
          folder'[a] = "accepted" /\ folder'[b] = "accepted" /\ a[1] = b[1] => a = b
    BY OneFolderNext
  <2> QED BY <2>1 DEF OneFolder
<1>3. OneLine /\ OneFolder => OneAcceptedPerSlot BY DEF OneLine, OneFolder, OneAcceptedPerSlot
<1> QED BY <1>1, <1>2, <1>3, IndexOnce, EngineAlways, PTL DEF Spec

(***************************************************************************)
(* The summary.                                                            *)
(***************************************************************************)

(* A list of different slots is no longer than the plan.                   *)
LEMMA NoMoreThanPlanned ==
  ASSUME NEW q \in Seq(Slots), \A j, k \in DOMAIN q : q[j] = q[k] => j = k
  PROVE  /\ Len(q) <= Planned
         /\ Len(q) = Planned => Members(q) = Slots
<1>0. Planned \in Nat /\ Planned >= 1 /\ Len(q) \in Nat BY CampaignAssumption
<1> DEFINE D == 1..Len(q)
<1>1. IsFiniteSet(Slots) /\ Cardinality(Slots) = Planned BY <1>0, FS_Interval DEF Slots
<1>2. Cardinality(D) = Len(q) BY <1>0, FS_Interval
<1>3. q \in [D -> Slots] /\ DOMAIN q = D OBVIOUS
<1> HIDE DEF D
<1>4. q \in Injection(D, Slots) BY <1>3 DEF Injection, IsInjective
<1>5. /\ Cardinality(D) <= Cardinality(Slots)
      /\ Cardinality(D) = Cardinality(Slots) => q \in Surjection(D, Slots)
  BY <1>1, <1>4, FS_Injection
<1>6. q \in Surjection(D, Slots) => Members(q) = Slots
  BY <1>3 DEF Surjection, Members
<1> QED BY <1>1, <1>2, <1>5, <1>6

(* What the summary counts.                                                *)
LEMMA SumOfSlots ==
  ASSUME TypeOK, Counted
  PROVE  Len(accepted) + Len(Closing) <= Planned
<1> DEFINE q == accepted \o Closing
<1>1. accepted \in Seq(Slots) /\ Closing \in Seq(Slots) BY DanglingSlots DEF TypeOK
<1>2. \A j, k \in DOMAIN q : q[j] = q[k] => j = k
  BY <1>1, ClosingOnce, Together DEF Counted
<1>3. q \in Seq(Slots) /\ Len(q) = Len(accepted) + Len(Closing) BY <1>1
<1> HIDE DEF q
<1> QED BY <1>2, <1>3, NoMoreThanPlanned

Told ==
  summary.written =>
    /\ pc = "done"
    /\ summary.unstarted >= 0
    /\ summary.complete =>
         /\ SlotsOf(index) = Slots
         /\ \A a \in Attempts : folder[a] # "in-progress"

LEMMA ToldNext == ASSUME Engine, Told, [Next]_vars PROVE Told'
<1>0. TypeOK /\ Counted /\ Opened BY DEF Engine, OpenInv
<1>1. CASE Summarize
  <2>0. /\ pc = "summary" /\ pc' = "done" /\ UNCHANGED <<index, folder>>
        /\ summary'.unstarted = (Planned - Len(accepted)) - Len(Closing)
        /\ summary'.complete = Complete
    BY <1>1 DEF Summarize
  <2>1. summary'.unstarted >= 0
    <3>1. Len(accepted) \in Nat /\ Len(Closing) \in Nat /\ Planned \in Nat
      BY <1>0, DanglingSlots, CampaignAssumption DEF TypeOK
    <3>2. Len(accepted) + Len(Closing) <= Planned BY <1>0, SumOfSlots
    <3> QED BY <2>0, <3>1, <3>2
  <2>2. ASSUME Complete
        PROVE  SlotsOf(index) = Slots /\ \A a \in Attempts : folder[a] # "in-progress"
    <3>1. Len(accepted) = Planned /\ ~aborted BY <2>2 DEF Complete
    <3>2. Len(index) = Len(accepted) /\ \A k \in DOMAIN index : index[k].slot = accepted[k]
      BY <1>0, <2>0, <3>1 DEF Counted
    <3>3. accepted \in Seq(Slots) /\ index \in Seq(Finishes) BY <1>0 DEF TypeOK
    <3>4. DOMAIN index = DOMAIN accepted BY <3>2, <3>3
    <3>5. SlotsOf(index) = Members(accepted) BY <3>2, <3>4 DEF SlotsOf, Members
    <3>6. Members(accepted) = Slots BY <1>0, <3>1, <3>3, NoMoreThanPlanned DEF Counted
    <3>7. \A a \in Attempts : folder[a] # "in-progress" BY <1>0, <2>0, <3>1 DEF Opened
    <3> QED BY <3>5, <3>6, <3>7
  <2>3. SlotsOf(index)' = SlotsOf(index) BY <2>0 DEF SlotsOf
  <2> QED BY <2>0, <2>1, <2>2, <2>3 DEF Told
<1>2. CASE UNCHANGED summary
  <2>1. CASE ~summary.written BY <1>2, <2>1 DEF Told
  <2>2. CASE summary.written
    <3>1. pc = "done" BY <2>2 DEF Told
    <3>2. UNCHANGED <<pc, index, folder>>
      BY <3>1 DEF Next, Advance, vars, disk, Pick, LoopEnds, MakeFolder, Prepare, MarkInvoked,
        Execute, Raise, Move, Ledger, Note, Accept, Index, GiveUp, Replace, Regroup, Sleep,
        Interrupt, Summarize, Crash, Outside
    <3>3. SlotsOf(index)' = SlotsOf(index) BY <3>2 DEF SlotsOf
    <3> QED BY <1>2, <3>2, <3>3 DEF Told
  <2> QED BY <2>1, <2>2
<1>3. Summarize \/ UNCHANGED summary
  BY DEF Next, Advance, vars, disk, Pick, LoopEnds, MakeFolder, Prepare, MarkInvoked,
        Execute, Raise, Move, Ledger, Note, Accept, Index, GiveUp, Replace, Regroup, Sleep,
        Interrupt, Crash
<1> QED BY <1>1, <1>2, <1>3

(* The summary tells the truth, for every plan and however the campaign    *)
(* ended: no slot is unresolved twice or also accepted, no slot is counted *)
(* that does not exist, and `complete` means a line in accepted.jsonl for  *)
(* every slot and no folder left in progress (engine.py:129-144).          *)
THEOREM SummaryTold == Spec => []SummaryHonest
<1>1. Init => Told BY DEF Init, Told
<1>2. Engine /\ Told /\ [Next]_vars => Told' BY ToldNext
<1>3. Engine /\ Told => SummaryHonest
  <2>1. Members(unresolved) \cap Members(accepted) = Members(accepted) \cap Members(unresolved)
    OBVIOUS
  <2> QED BY <2>1 DEF Engine, Counted, Told, SummaryHonest
<1> QED BY <1>1, <1>2, <1>3, EngineAlways, PTL DEF Spec

(***************************************************************************)
(* The contract of each slot.                                              *)
(***************************************************************************)

\* The attempts of a slot whose folder was ever made.
Made(s) == {a \in Attempts : a[1] = s /\ folder[a] # "none"}

LEMMA MadeFinite ==
  ASSUME NEW s \in Slots
  PROVE  /\ IsFiniteSet(Made(s)) /\ Cardinality(Made(s)) \in Nat
         /\ Cardinality(Made(s)) <= MaxRetries + 1
<1>0. MaxRetries \in Nat BY CampaignAssumption
<1>1. IsFiniteSet(Numbers) /\ Cardinality(Numbers) = MaxRetries + 1
  BY <1>0, FS_Interval DEF Numbers
<1>2. IsFiniteSet({s}) /\ Cardinality({s}) = 1 BY FS_Singleton
<1> DEFINE S == {s} \X Numbers
<1>3. IsFiniteSet(S) /\ Cardinality(S) = MaxRetries + 1
  <2>1. IsFiniteSet(S) /\ Cardinality(S) = 1 * (MaxRetries + 1) BY <1>1, <1>2, FS_Product
  <2> QED BY <1>0, <2>1
<1>4. Made(s) \in SUBSET S BY DEF Made, Attempts, Numbers
<1> HIDE DEF S
<1>5. IsFiniteSet(Made(s)) /\ Cardinality(Made(s)) <= Cardinality(S)
  BY <1>3, <1>4, FS_Subset
<1>6. Cardinality(Made(s)) \in Nat BY <1>5, FS_CardinalityType
<1> QED BY <1>3, <1>5, <1>6

(* A slot one of whose attempts has a folder was tried.                    *)
LEMMA TriedOnce ==
  ASSUME NEW a \in Attempts, folder[a] # "none"
  PROVE  a[1] \in Slots /\ Cardinality(Made(a[1])) > 0
<1>1. a[1] \in Slots /\ a \in Made(a[1]) BY DEF Attempts, Made
<1>2. IsFiniteSet(Made(a[1])) /\ Cardinality(Made(a[1])) \in Nat BY <1>1, MadeFinite
<1>3. Cardinality(Made(a[1])) # 0 BY <1>1, <1>2, FS_EmptySet
<1> QED BY <1>1, <1>2, <1>3

\* The variables of the contract, as the refinement maps them.
Tries == [s \in Slots |-> Cardinality(Made(s))]

LEMMA ContractMaps ==
  /\ Contract!slotVars = <<Tries, Members(accepted), Members(unresolved)>>
  /\ \A s : Contract!Open(s) <=> s \notin Resolved
  /\ Contract!Plan = Slots
BY DEF Contract!slotVars, Tries, Made, Contract!Open, Resolved, Contract!Plan, Slots

LEMMA StepMakeFolder ==
  ASSUME Engine, MakeFolder PROVE [Contract!ContractNext]_(Contract!slotVars)
<1>1. PICK e \in Entries :
         /\ Fresh(e) /\ Aid(e) \in Attempts
         /\ folder' = [folder EXCEPT ![Aid(e)] = "in-progress"]
  BY HandMakes
<1>2. e.slot \in Slots /\ e.number \in Nat /\ e.number \in Numbers BY DEF Entries, Numbers
<1>3. folder[Aid(e)] = "none"
  <2>1. ~(e.number <= e.number - 1) BY <1>2
  <2> QED BY <1>1, <1>2, <2>1 DEF Fresh, Tried, Aid
<1>4. \A a \in Attempts : folder'[a] = IF a = Aid(e) THEN "in-progress" ELSE folder[a]
  BY <1>1 DEF Engine, TypeOK
<1>5. Aid(e) \notin Made(e.slot) BY <1>3 DEF Made
<1>6. Made(e.slot)' = Made(e.slot) \cup {Aid(e)}
  <2>1. Aid(e)[1] = e.slot BY DEF Aid
  <2> QED BY <1>1, <1>4, <2>1 DEF Made
<1>7. \A s \in Slots : s # e.slot => Made(s)' = Made(s)
  <2>1. Aid(e)[1] = e.slot BY DEF Aid
  <2> QED BY <1>4, <2>1 DEF Made
<1>8. Cardinality(Made(e.slot)') = Cardinality(Made(e.slot)) + 1
  <2>1. IsFiniteSet(Made(e.slot)) BY <1>2, MadeFinite
  <2> QED BY <1>5, <1>6, <2>1, FS_AddElement
<1>9. Cardinality(Made(e.slot)) <= MaxRetries
  <2> DEFINE m == Made(e.slot)
             new == m \cup {Aid(e)}
             S == {e.slot} \X Numbers
  <2>0. MaxRetries \in Nat BY CampaignAssumption
  <2>1. IsFiniteSet(S) /\ Cardinality(S) = MaxRetries + 1
    <3>1. IsFiniteSet(Numbers) /\ Cardinality(Numbers) = MaxRetries + 1
      BY <2>0, FS_Interval DEF Numbers
    <3>2. IsFiniteSet({e.slot}) /\ Cardinality({e.slot}) = 1 BY FS_Singleton
    <3>3. IsFiniteSet(S) /\ Cardinality(S) = 1 * (MaxRetries + 1) BY <3>1, <3>2, FS_Product
    <3> QED BY <2>0, <3>3
  <2>2. new \in SUBSET S BY <1>2 DEF Made, Attempts, Numbers, Aid
  <2>3. IsFiniteSet(m) /\ Cardinality(m) \in Nat BY <1>2, MadeFinite
  <2> HIDE DEF m, S
  <2>4. Cardinality(new) = Cardinality(m) + 1 BY <1>5, <2>3, FS_AddElement DEF m
  <2> HIDE DEF new
  <2>5. Cardinality(new) <= Cardinality(S) BY <2>1, <2>2, FS_Subset
  <2> QED BY <2>0, <2>1, <2>3, <2>4, <2>5 DEF m
<1>10. Tries' = [Tries EXCEPT ![e.slot] = @ + 1] BY <1>2, <1>7, <1>8 DEF Tries
<1>11. e.slot \notin Resolved BY <1>1 DEF Fresh, Free
<1>12. Members(accepted)' = Members(accepted) /\ Members(unresolved)' = Members(unresolved)
  BY DEF MakeFolder, Members
<1>13. Tries[e.slot] = Cardinality(Made(e.slot)) BY <1>2 DEF Tries
<1>14. Contract!Try(e.slot)
  BY <1>9, <1>10, <1>11, <1>12, <1>13, ContractMaps DEF Contract!Try, Tries, Made
<1> QED BY <1>2, <1>14, ContractMaps DEF Contract!ContractNext

LEMMA StepAccept ==
  ASSUME Engine, Accept PROVE [Contract!ContractNext]_(Contract!slotVars)
<1>1. /\ pc = "settle" /\ group[i] \in Entries /\ Aid(group[i]) \in Attempts
      /\ accepted' = Append(accepted, group[i].slot) /\ UNCHANGED <<folder, unresolved>>
  BY InHandTypes DEF Accept, Filing, Engine, OpenInv, disk
<1>2. PICK e \in Entries : e = group[i] BY <1>1
<1>3. Moved(e) /\ Free(e) BY <1>1, <1>2 DEF Engine, OpenInv, Current, Filing
<1>4. e.slot \in Slots /\ Aid(e)[1] = e.slot BY DEF Entries, Aid
<1>5. Cardinality(Made(e.slot)) > 0
  <2>1. folder[Aid(e)] # "none" BY <1>3 DEF Moved, Destination
  <2> QED BY <1>1, <1>2, <1>4, <2>1, TriedOnce
<1>6. Members(accepted)' = Members(accepted) \cup {e.slot}
  <2>1. accepted \in Seq(Slots) BY DEF Engine, TypeOK
  <2> QED BY <1>1, <1>2, <1>4, <2>1, OneMore DEF Members
<1>7. Tries' = Tries /\ Members(unresolved)' = Members(unresolved)
  BY <1>1 DEF Tries, Made, Members
<1>8. Tries[e.slot] = Cardinality(Made(e.slot)) BY <1>4 DEF Tries
<1>9. Contract!Take(e.slot)
  BY <1>3, <1>5, <1>6, <1>7, <1>8, ContractMaps DEF Contract!Take, Tries, Made, Free
<1> QED BY <1>4, <1>9, ContractMaps DEF Contract!ContractNext

LEMMA StepGiveUp ==
  ASSUME Engine, GiveUp PROVE [Contract!ContractNext]_(Contract!slotVars)
<1>1. /\ pc = "settle" /\ group[i] \in Entries /\ Aid(group[i]) \in Attempts
      /\ unresolved' = Append(unresolved, group[i].slot) /\ UNCHANGED <<folder, accepted>>
  BY InHandTypes DEF GiveUp, Filing, Engine, OpenInv, disk
<1>2. PICK e \in Entries : e = group[i] BY <1>1
<1>3. Moved(e) /\ Free(e) BY <1>1, <1>2 DEF Engine, OpenInv, Current, Filing
<1>4. e.slot \in Slots /\ Aid(e)[1] = e.slot BY DEF Entries, Aid
<1>5. Cardinality(Made(e.slot)) > 0
  <2>1. folder[Aid(e)] # "none" BY <1>3 DEF Moved, Destination
  <2> QED BY <1>1, <1>2, <1>4, <2>1, TriedOnce
<1>6. Members(unresolved)' = Members(unresolved) \cup {e.slot}
  <2>1. unresolved \in Seq(Slots) BY DEF Engine, TypeOK
  <2> QED BY <1>1, <1>2, <1>4, <2>1, OneMore DEF Members
<1>7. Tries' = Tries /\ Members(accepted)' = Members(accepted)
  BY <1>1 DEF Tries, Made, Members
<1>8. Tries[e.slot] = Cardinality(Made(e.slot)) BY <1>4 DEF Tries
<1>9. Contract!Drop({e.slot})
  BY <1>3, <1>5, <1>6, <1>7, <1>8, ContractMaps DEF Contract!Drop, Tries, Made, Free
<1>10. {e.slot} \in SUBSET Slots BY <1>4
<1> QED BY <1>9, <1>10, ContractMaps DEF Contract!ContractNext

LEMMA StepEnd ==
  ASSUME Engine, Interrupt \/ Summarize PROVE [Contract!ContractNext]_(Contract!slotVars)
<1> DEFINE D == Members(Dangling)
<1>1. unresolved' = unresolved \o Dangling /\ UNCHANGED <<folder, accepted>>
  BY DEF Interrupt, Summarize, Closing, disk
<1>2. /\ unresolved \in Seq(Slots) /\ Dangling \in Seq(Slots)
      /\ D \subseteq SlotsOf(attempts) \ Resolved
  BY DanglingSlots DEF Engine, TypeOK
<1>3. D \in SUBSET Slots BY <1>2 DEF Members
<1>4. ASSUME NEW s \in D PROVE s \notin Resolved /\ s \in Slots /\ Cardinality(Made(s)) > 0
  <2>1. PICK k \in DOMAIN attempts : s = attempts[k].slot BY <1>2 DEF SlotsOf
  <2>2. Aid(attempts[k]) \in Attempts /\ folder[Aid(attempts[k])] # "none"
    BY AttemptsKnown DEF Engine, Counted
  <2>3. Aid(attempts[k])[1] = s BY <2>1 DEF Aid
  <2> QED BY <1>2, <2>2, <2>3, TriedOnce
<1>5. Members(unresolved)' = Members(unresolved) \cup D
  <2> DEFINE d == Dangling
             u == unresolved
             c == u \o d
  <2>1. u \in Seq(Slots) /\ d \in Seq(Slots) BY <1>2
  <2> HIDE DEF d, u
  <2>2. \A k \in DOMAIN u : k \in DOMAIN c /\ c[k] = u[k] BY <2>1
  <2>3. \A k \in DOMAIN d : k + Len(u) \in DOMAIN c /\ c[k + Len(u)] = d[k] BY <2>1
  <2>4. \A k \in DOMAIN c : \/ k \in DOMAIN u /\ c[k] = u[k]
                            \/ k - Len(u) \in DOMAIN d /\ c[k] = d[k - Len(u)]
    BY <2>1, Behindhand
  <2> HIDE DEF c
  <2>7. Members(c) \subseteq Members(u) \cup Members(d) BY <2>4 DEF Members
  <2>8. Members(u) \subseteq Members(c) BY <2>2 DEF Members
  <2>9. Members(d) \subseteq Members(c)
    <3> SUFFICES ASSUME NEW k \in DOMAIN d PROVE d[k] \in Members(c) BY DEF Members
    <3>1. k + Len(u) \in DOMAIN c /\ c[k + Len(u)] = d[k] BY <2>3
    <3>2. PICK n \in DOMAIN c : c[n] = d[k] BY <3>1
    <3> QED BY <3>2 DEF Members
  <2>5. Members(c) = Members(u) \cup Members(d) BY <2>7, <2>8, <2>9
  <2>6. Members(unresolved)' = Members(c) BY <1>1 DEF u, d, c, Members
  <2> QED BY <2>5, <2>6 DEF u, d
<1>6. Tries' = Tries /\ Members(accepted)' = Members(accepted)
  BY <1>1 DEF Tries, Made, Members
<1> HIDE DEF D
<1>7. \A s \in D : Tries[s] > 0 BY <1>4 DEF Tries
<1>8. Contract!Drop(D)
  BY <1>4, <1>5, <1>6, <1>7, ContractMaps DEF Contract!Drop, Tries, Made
<1> QED BY <1>3, <1>8, ContractMaps DEF Contract!ContractNext

LEMMA StepMove == ASSUME Engine, Move PROVE UNCHANGED Contract!slotVars
<1>1. PICK e \in Entries : /\ Begun(e) /\ Aid(e) \in Attempts
                           /\ folder' = [folder EXCEPT ![Aid(e)] = Destination]
  BY HandMoves
<1>2. folder[Aid(e)] # "none" /\ Destination # "none" BY <1>1 DEF Begun, Destination
<1>3. \A a \in Attempts : folder'[a] # "none" <=> folder[a] # "none"
  BY <1>1, <1>2 DEF Engine, TypeOK
<1>4. \A s : Made(s)' = Made(s) BY <1>3 DEF Made
<1>5. Tries' = Tries BY <1>4 DEF Tries
<1>6. Members(accepted)' = Members(accepted) /\ Members(unresolved)' = Members(unresolved)
  BY DEF Move, memory, Members
<1> QED BY <1>5, <1>6, ContractMaps DEF Contract!slotVars, Tries, Made

LEMMA StepOther ==
  ASSUME UNCHANGED <<folder, accepted, unresolved>> PROVE UNCHANGED Contract!slotVars
BY DEF Contract!slotVars, Members

LEMMA StepSlots ==
  ASSUME Engine, [Next]_vars PROVE [Contract!ContractNext]_(Contract!slotVars)
<1>1. \/ MakeFolder \/ Accept \/ GiveUp \/ Interrupt \/ Summarize \/ Move
      \/ UNCHANGED <<folder, accepted, unresolved>>
  BY DEF Next, Advance, vars, memory, disk, Pick, LoopEnds, Prepare, MarkInvoked, Execute,
         Raise, Ledger, Note, Index, Replace, Regroup, Sleep, Crash
<1> QED BY <1>1, StepMakeFolder, StepAccept, StepGiveUp, StepEnd, StepMove, StepOther

(* The campaign implements the contract of each slot: a try while it is    *)
(* open and within the limit, at most one acceptance, given up only after  *)
(* a try, and nothing after it is settled - with any number of slots, and  *)
(* wherever an exception or a crash ends the campaign.                     *)
THEOREM ContractHonoured == Spec => HonoursContract
<1>1. Init => Contract!ContractInit
  <2> SUFFICES ASSUME Init PROVE Contract!ContractInit OBVIOUS
  <2>1. \A s \in Slots : Made(s) = {} BY DEF Init, Made
  <2>2. Tries = [s \in Slots |-> 0] BY <2>1, FS_EmptySet DEF Tries
  <2>3. Members(accepted) = {} /\ Members(unresolved) = {} BY DEF Init, Members
  <2> QED BY <2>2, <2>3, ContractMaps DEF Contract!ContractInit, Tries, Made
<1>2. Engine /\ [Next]_vars => [Contract!ContractNext]_(Contract!slotVars) BY StepSlots
<1> QED BY <1>1, <1>2, EngineAlways, PTL DEF Spec, HonoursContract, Contract!ContractSpec
=============================================================================
