------------------------------ MODULE Campaign ------------------------------
(***************************************************************************)
(* scripts/experiment/engine.py: one call of campaign().  The engine takes *)
(* groups of slots from a deque, makes an evidence folder per attempt,     *)
(* lets the adapter measure, files every attempt as accepted or suspect    *)
(* and queues bounded replacements.  An exception (a full disk, Ctrl-C)    *)
(* may come between any two statements, and the machine may stop.          *)
(*                                                                         *)
(* An attempt is named <<slot, number>>; slots are numbered in plan order. *)
(***************************************************************************)
EXTENDS Integers, Sequences, FiniteSets

CONSTANTS
  Planned,     \* number of slots of the plan
  MaxRetries,
  BatchSize,
  BatchKey     \* adapter.batch_key, by slot

ASSUME CampaignAssumption ==
  /\ Planned \in Nat \ {0}
  /\ MaxRetries \in Nat
  /\ BatchSize \in Nat \ {0}
  /\ DOMAIN BatchKey = 1..Planned

VARIABLES
  pc,
  pending,       \* the deque of (slot, number, previous)
  group,         \* the entries being measured
  i,             \* index into the group of the loop that runs over it
  results,       \* the adapter's classification of the group
  replacements,
  attempts,      \* finished attempts, in memory
  accepted,      \* slots accepted, in memory
  unresolved,    \* slots given up, in memory
  aborted,
  folder,        \* disk: where each attempt's evidence folder is
  invoked,       \* disk: attempts whose attempt.json says measurement_invoked
  ledger,        \* disk: attempts.jsonl
  index,         \* disk: accepted.jsonl
  summary,       \* disk: summary.json
  ran            \* history: attempts handed to the adapter's execute

memory == <<pending, group, i, results, replacements, attempts, accepted,
            unresolved, aborted>>
disk   == <<folder, invoked, ledger, index, summary>>
vars   == <<pc, memory, disk, ran>>

Slots    == 1..Planned
Attempts == Slots \X (1..MaxRetries + 1)
Classes  == {"valid", "measurement-failure", "behavior-failure"}
Statuses == Classes \cup {"fatal"}
Places   == {"none", "in-progress", "accepted", "suspect"}

Aid(entry) == <<entry.slot, entry.number>>
GroupAids  == {Aid(group[k]) : k \in DOMAIN group}

Rest(s, n) == SubSeq(s, n + 1, Len(s))
SlotsOf(s) == {s[k].slot : k \in DOMAIN s}
Members(s) == {s[k] : k \in DOMAIN s}

-----------------------------------------------------------------------------
(* A group is one entry, or up to BatchSize first attempts with one key.   *)
MayShare_Any(k) == TRUE                \* mutation: replacements are batched too
MayShare(k)     == pending[k].number = 1

Shares(n) ==
  /\ n <= BatchSize
  /\ \A k \in 1..n : MayShare(k)
  /\ \A k \in 1..n : BatchKey[pending[k].slot] = BatchKey[pending[1].slot]

GroupSize ==
  CHOOSE n \in 1..Len(pending) :
    /\ n = 1 \/ Shares(n)
    /\ \A m \in (n + 1)..Len(pending) : ~Shares(m)

Pick ==
  /\ pc = "pick" /\ pending # << >>
  /\ group' = SubSeq(pending, 1, GroupSize)
  /\ pending' = Rest(pending, GroupSize)
  /\ i' = 1
  /\ pc' = "mkdir"
  /\ UNCHANGED <<results, replacements, attempts, accepted, unresolved, aborted,
                 disk, ran>>

LoopEnds_Accepted ==  \* mutation: the loop goes on until all slots are accepted
  /\ pc = "pick" /\ pending = << >> /\ Len(accepted) = Planned
  /\ pc' = "summary"
  /\ UNCHANGED <<memory, disk, ran>>

LoopEnds ==
  /\ pc = "pick" /\ pending = << >>
  /\ pc' = "summary"
  /\ UNCHANGED <<memory, disk, ran>>

(* The attempt's folder and its first attempt.json.                        *)
MakeFolder ==
  /\ pc = "mkdir"
  /\ folder' = [folder EXCEPT ![Aid(group[i])] = "in-progress"]
  /\ IF i < Len(group)
     THEN i' = i + 1 /\ UNCHANGED pc
     ELSE i' = 1 /\ pc' = "prepare"
  /\ UNCHANGED <<pending, group, results, replacements, attempts, accepted,
                 unresolved, aborted, invoked, ledger, index, summary, ran>>

Prepare ==
  /\ pc = "prepare"
  /\ pc' = "mark"
  /\ UNCHANGED <<memory, disk, ran>>

(* measurement_invoked is on disk before anything is executed.             *)
Marks_First == {Aid(group[1])}         \* mutation: only the first of a batch
Marks       == GroupAids

MarkInvoked ==
  /\ pc = "mark"
  /\ invoked' = invoked \cup Marks
  /\ pc' = "execute"
  /\ UNCHANGED <<memory, folder, ledger, index, summary, ran>>

(* The adapter classifies every attempt of the group.                      *)
Execute ==
  /\ pc = "execute"
  /\ results' \in [1..Len(group) -> Classes]
  /\ ran' = ran \cup GroupAids
  /\ replacements' = << >>
  /\ pc' = "move"
  /\ UNCHANGED <<pending, group, i, attempts, accepted, unresolved, aborted, disk>>

(* MeasurementError from prepare or execute fails the whole group.  Any    *)
(* other exception there, an unclassified result or Ctrl-C included, also  *)
(* aborts the campaign.                                                    *)
Raise(status) ==
  /\ \/ pc \in {"prepare", "execute"}
     \/ pc = "mark" /\ status = "fatal"
  /\ results' = [k \in 1..Len(group) |-> status]
  /\ aborted' = (status = "fatal")
  /\ ran' = IF pc = "execute" THEN ran \cup GroupAids ELSE ran
  /\ replacements' = << >>
  /\ pc' = "move"
  /\ UNCHANGED <<pending, group, i, attempts, accepted, unresolved, disk>>

-----------------------------------------------------------------------------
(* The finalizing loop, statement by statement, for group[i].              *)
Good == results[i] = "valid"

Finished ==
  [slot |-> group[i].slot, number |-> group[i].number, prev |-> group[i].prev,
   status |-> results[i]]

Destination_Behavior ==  \* mutation: behaviour failures count as evidence
  IF results[i] \in {"valid", "behavior-failure"} THEN "accepted" ELSE "suspect"
Destination == IF Good THEN "accepted" ELSE "suspect"

Move ==
  /\ pc = "move"
  /\ folder' = [folder EXCEPT ![Aid(group[i])] = Destination]
  /\ pc' = "ledger"
  /\ UNCHANGED <<memory, invoked, ledger, index, summary, ran>>

Ledger ==
  /\ pc = "ledger"
  /\ ledger' = Append(ledger, Finished)
  /\ pc' = "note"
  /\ UNCHANGED <<memory, folder, invoked, index, summary, ran>>

Note ==
  /\ pc = "note"
  /\ attempts' = Append(attempts, Finished)
  /\ pc' = "settle"
  /\ UNCHANGED <<pending, group, i, results, replacements, accepted, unresolved,
                 aborted, disk, ran>>

NextItem ==
  IF i < Len(group) THEN i' = i + 1 /\ pc' = "move"
                    ELSE i' = i /\ pc' = "regroup"

Accept ==
  /\ pc = "settle" /\ Good
  /\ accepted' = Append(accepted, group[i].slot)
  /\ pc' = "index"
  /\ UNCHANGED <<pending, group, i, results, replacements, attempts, unresolved,
                 aborted, disk, ran>>

Index ==
  /\ pc = "index"
  /\ index' = Append(index, Finished)
  /\ NextItem
  /\ UNCHANGED <<pending, group, results, replacements, attempts, accepted,
                 unresolved, aborted, folder, invoked, ledger, summary, ran>>

Exhausted_Late == group[i].number = MaxRetries + 2   \* mutation: one retry more
Exhausted      == group[i].number = MaxRetries + 1

GiveUp ==
  /\ pc = "settle" /\ ~Good /\ (aborted \/ Exhausted)
  /\ unresolved' = Append(unresolved, group[i].slot)
  /\ NextItem
  /\ UNCHANGED <<pending, group, results, replacements, attempts, accepted,
                 aborted, disk, ran>>

Replacement_Unlinked ==  \* mutation: the replacement forgets what it replaces
  [slot |-> group[i].slot, number |-> group[i].number + 1, prev |-> group[i].prev]
Replacement ==
  [slot |-> group[i].slot, number |-> group[i].number + 1,
   prev |-> group[i].number]

Replace ==
  /\ pc = "settle" /\ ~Good /\ ~aborted /\ ~Exhausted
  /\ replacements' = Append(replacements, Replacement)
  /\ NextItem
  /\ UNCHANGED <<pending, group, results, attempts, accepted, unresolved,
                 aborted, disk, ran>>

Stops == aborted

(* Replacements run before the next slots of the plan.                     *)
Requeued_Last == pending \o replacements   \* mutation: queued behind the plan
Requeued      == replacements \o pending

Regroup ==
  /\ pc = "regroup"
  /\ IF Stops
     THEN pc' = "summary" /\ UNCHANGED pending
     ELSE /\ pending' = Requeued
          /\ pc' = IF replacements # << >> THEN "sleep" ELSE "pick"
  /\ UNCHANGED <<group, i, results, replacements, attempts, accepted, unresolved,
                 aborted, disk, ran>>

Sleep ==
  /\ pc = "sleep"
  /\ pc' = "pick"
  /\ UNCHANGED <<memory, disk, ran>>

-----------------------------------------------------------------------------
(* The slots with a finished attempt that are neither accepted nor given   *)
(* up, in plan order.                                                      *)
Resolved == Members(accepted) \cup Members(unresolved)

InPlanOrder(S) ==
  CHOOSE q \in [1..Cardinality(S) -> S] : \A j, k \in DOMAIN q : j < k => q[j] < q[k]

Dangling_All == InPlanOrder(SlotsOf(attempts))  \* mutation: resolved slots are counted again
Dangling     == InPlanOrder(SlotsOf(attempts) \ Resolved)

Outside == {"pick", "mkdir", "move", "ledger", "note", "settle", "index",
            "regroup", "sleep"}

(* An exception outside the inner try.                                     *)
Interrupt ==
  /\ pc \in Outside
  /\ aborted' = TRUE
  /\ unresolved' = unresolved \o Dangling
  /\ pc' = "summary"
  /\ UNCHANGED <<pending, group, i, results, replacements, attempts, accepted,
                 disk, ran>>

Closing == unresolved \o Dangling

Complete_Unaborted == ~aborted         \* mutation: not aborted is good enough
Complete           == Len(accepted) = Planned /\ ~aborted

Summarize ==
  /\ pc = "summary"
  /\ unresolved' = Closing
  /\ summary' = [written |-> TRUE,
                 accepted |-> Len(accepted),
                 suspect |-> Len(attempts) - Len(accepted),
                 unresolved |-> Len(Closing),
                 unstarted |-> (Planned - Len(accepted)) - Len(Closing),
                 complete |-> Complete]
  /\ pc' = "done"
  /\ UNCHANGED <<pending, group, i, results, replacements, attempts, accepted,
                 aborted, folder, invoked, ledger, index, ran>>

(* The process is killed or the machine stops: only the disk is left.      *)
Crash ==
  /\ pc \notin {"done", "crashed"}
  /\ pc' = "crashed"
  /\ UNCHANGED <<memory, disk, ran>>

Init ==
  /\ pc = "pick"
  /\ pending = [s \in Slots |-> [slot |-> s, number |-> 1, prev |-> 0]]
  /\ group = << >> /\ i = 1 /\ results = << >> /\ replacements = << >>
  /\ attempts = << >> /\ accepted = << >> /\ unresolved = << >>
  /\ aborted = FALSE
  /\ folder = [a \in Attempts |-> "none"]
  /\ invoked = {} /\ ledger = << >> /\ index = << >>
  /\ summary = [written |-> FALSE, accepted |-> 0, suspect |-> 0,
                unresolved |-> 0, unstarted |-> 0, complete |-> FALSE]
  /\ ran = {}

Advance ==
  \/ Pick \/ LoopEnds \/ MakeFolder \/ Prepare \/ MarkInvoked \/ Execute
  \/ Raise("measurement-failure") \/ Raise("fatal")
  \/ Move \/ Ledger \/ Note \/ Accept \/ Index \/ GiveUp \/ Replace
  \/ Regroup \/ Sleep \/ Summarize

Next == Advance \/ Interrupt \/ Crash

Spec     == Init /\ [][Next]_vars
FairSpec == Spec /\ WF_vars(Advance)

-----------------------------------------------------------------------------
Entries  == [slot : Slots, number : 1..MaxRetries + 1, prev : 0..MaxRetries]
Finishes == [slot : Slots, number : 1..MaxRetries + 1, prev : 0..MaxRetries,
             status : Statuses]

(* Types.                                                                  *)
TypeOK ==
  /\ pc \in Outside \cup {"prepare", "mark", "execute", "summary", "done", "crashed"}
  /\ pending \in Seq(Entries)
  /\ group \in Seq(Entries)
  /\ i \in Nat \ {0}
  /\ results \in Seq(Statuses)
  /\ replacements \in Seq(Entries)
  /\ attempts \in Seq(Finishes)
  /\ accepted \in Seq(Slots)
  /\ unresolved \in Seq(Slots)
  /\ aborted \in BOOLEAN
  /\ folder \in [Attempts -> Places]
  /\ invoked \subseteq Attempts
  /\ ledger \in Seq(Finishes)
  /\ index \in Seq(Finishes)
  /\ summary \in [written : BOOLEAN, accepted : Nat, suspect : Nat,
                  unresolved : Nat, unstarted : Int, complete : BOOLEAN]
  /\ ran \subseteq Attempts

-----------------------------------------------------------------------------
(* A slot has at most one accepted measurement: in accepted.jsonl, and in  *)
(* the folder tap is pointed at - also when the campaign was interrupted   *)
(* or the machine stopped (engine.py:36, README "one per resolved slot").  *)
OneAcceptedPerSlot ==
  /\ \A j, k \in DOMAIN index : index[j].slot = index[k].slot => j = k
  /\ \A a, b \in Attempts :
       folder[a] = "accepted" /\ folder[b] = "accepted" /\ a[1] = b[1] => a = b

(* Whatever stops the campaign, what the ledger says of an attempt is what *)
(* its folder shows, and accepted.jsonl holds only attempts of the ledger  *)
(* that are valid and whose evidence is in accepted/ (engine.py:105-111).  *)
EvidenceFiled ==
  /\ \A k \in DOMAIN ledger :
       folder[Aid(ledger[k])] =
         IF ledger[k].status = "valid" THEN "accepted" ELSE "suspect"
  /\ \A k \in DOMAIN index :
       index[k] \in Members(ledger) /\ index[k].status = "valid"

(* An attempt after the first replaces the attempt before it of the same   *)
(* slot, which was finished and invalid; nobody retries a valid or a fatal *)
(* measurement, and the limit is kept (engine.py:112-115).                 *)
RetryChain ==
  \A k \in DOMAIN ledger :
    /\ ledger[k].number <= MaxRetries + 1
    /\ ledger[k].number > 1 =>
         \E j \in 1..(k - 1) :
           /\ ledger[j].slot = ledger[k].slot
           /\ ledger[j].number = ledger[k].prev
           /\ ledger[j].number + 1 = ledger[k].number
           /\ ledger[j].status \in {"measurement-failure", "behavior-failure"}

(* Only first attempts of one key share a capture, replacements run alone, *)
(* and before the plan goes on (engine.py:52-53, 59-63, 118).              *)
RetryDiscipline ==
  /\ Len(group) > 1 =>
       \A k \in DOMAIN group :
         group[k].number = 1 /\ BatchKey[group[k].slot] = BatchKey[group[1].slot]
  /\ \A j, k \in DOMAIN pending :
       j < k /\ pending[j].number = 1 =>
         pending[k].number = 1 /\ pending[j].slot < pending[k].slot

(* Nothing is executed before its attempt.json says so on disk, so an      *)
(* audit after a crash finds every measurement that may have run           *)
(* (engine.py:53-54).                                                      *)
DurableBeforeExecution == ran \subseteq invoked

(* The summary: no slot is unresolved twice, or both unresolved and        *)
(* accepted, no count is negative, and `complete` means that every slot    *)
(* has its line in accepted.jsonl and no folder is left in progress        *)
(* (engine.py:129-144).                                                    *)
SummaryHonest ==
  summary.written =>
    /\ \A j, k \in DOMAIN unresolved : unresolved[j] = unresolved[k] => j = k
    /\ Members(unresolved) \cap Members(accepted) = {}
    /\ summary.unstarted >= 0
    /\ summary.complete =>
         /\ SlotsOf(index) = Slots
         /\ \A a \in Attempts : folder[a] # "in-progress"

(* A campaign that is not killed writes its summary.                       *)
Settles == <>(pc \in {"done", "crashed"})

(* Every slot gets what CampaignContract promises.                         *)
Contract == INSTANCE CampaignContract WITH
  tries <- [s \in Slots |->
             Cardinality({a \in Attempts : a[1] = s /\ folder[a] # "none"})],
  taken <- Members(accepted),
  dropped <- Members(unresolved)

HonoursContract == Contract!ContractSpec

-----------------------------------------------------------------------------
(* engine.py:127-128: slots that were attempted must not be labelled       *)
(* unstarted.                                                              *)
AttemptedNotUnstarted ==
  summary.written =>
    summary.unstarted <= Cardinality({s \in Slots : \A a \in ran : a[1] # s})
=============================================================================
