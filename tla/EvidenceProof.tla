--------------------------- MODULE EvidenceProof ----------------------------
(***************************************************************************)
(* What is counted of a host, for every set of slots and number of         *)
(* mishaps, and for each study.                                            *)
(*                                                                         *)
(* That a counted row has a whole file behind it is a matter of when       *)
(* things were looked at. A file may be altered between collection and     *)
(* count, so BatchRows says how rows and files agree while nothing was     *)
(* altered, Seen what a check or a verdict found and that it still is so,  *)
(* and Settled that what was checked or counted does not change any more.  *)
(* A capture of a cell tries slots that no earlier one has tried (Cells);  *)
(* with it goes that no program has a second chance.                       *)
(***************************************************************************)
EXTENDS Evidence, FiniteSetTheorems, TLAPS

Roles == {"initial", "second"}

(* What a capture of the cell holds.                                       *)
Cell(c) ==
  /\ DOMAIN c.tried \subseteq c.planned /\ c.planned \subseteq Slots
  /\ c # NoCapture /\ study = "iteration" => c.planned \cap c.prior = {}

Told ==
  /\ study \in {"pilot", "iteration", "campaign"}
  /\ cohort \in {"primitives", "linux", "windows"}
  /\ study = "campaign" => cohort = "primitives"
  /\ DOMAIN raw = Slots /\ DOMAIN rows \subseteq Slots
  /\ mishaps \in Nat
  /\ checked = "passed" => study = "pilot" /\ collector # "on"
  /\ verdict # "none" => collector # "on" \/ cohort = "windows"
  /\ captures["initial"] # NoCapture => cohort = "windows"

\* The row of a primitive is what its file was when it was written.
Primitive(s) ==
  rows[s].status = "valid" =>
    /\ Clean(rows[s].summary)
    /\ study = "campaign" => Clean(raw[s].summary) /\ raw[s].lines > 0

Primitives == cohort = "primitives" => \A s \in DOMAIN rows : Primitive(s)

\* The rows of a Linux batch.
Scored(r) == r \in Results /\ (r.collection <=> health = "good")
BatchRows ==
  cohort = "linux" =>
    /\ \A s \in DOMAIN rows : rows[s] \in Results
    /\ collector = "on" \/ mishaps = 0 =>
         /\ \A s \in DOMAIN rows : raw[s] = rows[s]
         /\ \A s \in Slots : raw[s] # NoFile => Scored(raw[s])
    /\ collector = "on" => mishaps = 0 /\ \A y, z \in Written \ DOMAIN rows : y = z
    /\ health = "none" => DOMAIN rows = {} /\ \A s \in Slots : raw[s] = NoFile

\* What a verdict and a check have seen.
Seen ==
  /\ checked = "passed" /\ cohort = "primitives" => \A s \in DOMAIN rows : Sound(s)
  /\ checked = "passed" /\ cohort = "linux" => SameRows
  /\ verdict = "done" /\ cohort # "windows" => counted = ValidSlots
  /\ verdict = "done" /\ study = "iteration" /\ cohort = "primitives" =>
       \A s \in DOMAIN rows : Sound(s)
  /\ verdict = "done" /\ study = "iteration" /\ cohort = "linux" =>
       SameRows /\ (ValidSlots # {} => health = "good")

Cells == DOMAIN captures = Roles /\ \A role \in Roles : Cell(captures[role])

IInv == /\ Told /\ BatchRows /\ Seen
        /\ Primitives
        /\ Cells

(***************************************************************************)
(* The model's operators.                                                  *)
(***************************************************************************)

(* A file holds a number of records.                                       *)
LEMMA FilesHold == \A f \in Files : f.lines \in Nat
BY DEF Files, File, Sum, NoFile, Whole, NoSummary

(* The result of a composite is not an absent file.                        *)
LEMMA ResultsAreFiles ==
  /\ \A r \in Results : r # NoFile
  /\ \A r \in Results : r.status = "valid" => r = Result(TRUE, TRUE) /\ r.collection
  /\ \A b, c \in BOOLEAN : Result(b, c) \in Results /\ Result(b, c).collection = c
<1>1. ASSUME NEW b \in BOOLEAN, NEW c \in BOOLEAN PROVE Result(b, c) # NoFile
  <2>1. "lines" \in DOMAIN NoFile BY DEF NoFile, File
  <2>2. "lines" \notin DOMAIN Result(b, c) BY DEF Result
  <2> QED BY <2>1, <2>2
<1>2. ASSUME NEW b \in BOOLEAN, NEW c \in BOOLEAN, Result(b, c).status = "valid"
      PROVE  b = TRUE /\ c = TRUE
  BY <1>2 DEF Result
<1>3. Result(TRUE, TRUE).collection BY DEF Result
<1>4. \A b, c \in BOOLEAN : Result(b, c) \in Results /\ Result(b, c).collection = c
  BY DEF Result, Results
<1>5. ASSUME NEW r \in Results
      PROVE  r # NoFile /\ (r.status = "valid" => r = Result(TRUE, TRUE) /\ r.collection)
  <2>1. PICK b \in BOOLEAN, c \in BOOLEAN : r = Result(b, c) BY DEF Results
  <2> QED BY <1>1, <1>2, <1>3, <2>1
<1> QED BY <1>4, <1>5

(* What a collector adds for a primitive.                                  *)
LEMMA Recorded ==
  ASSUME DOMAIN raw = Slots, DOMAIN rows \subseteq Slots, NEW s \in Slots, NEW f, NEW status,
         Record(s, f, status)
  PROVE  /\ DOMAIN raw' = Slots /\ DOMAIN rows' = DOMAIN rows \cup {s}
         /\ raw'[s] = f /\ rows'[s] = Row(f, status)
         /\ \A x \in DOMAIN rows : x # s => rows'[x] = rows[x] /\ raw'[x] = raw[x]
BY DEF Record

(***************************************************************************)
(* The invariant.                                                          *)
(***************************************************************************)
(* What is known of the study, of its files and rows.                      *)
LEMMA ToldStep ==
  ASSUME Told, [Next]_vars PROVE Told'
<1>1. ASSUME NEW s \in Slots, Execute(s) PROVE Told'
  BY <1>1, Recorded DEF Told, Execute
<1>2. ASSUME NEW s \in Slots, Collect(s) PROVE Told'
  BY <1>2, Recorded DEF Told, Collect
<1>3. ASSUME NEW s \in Slots, ScoreSlot(s) PROVE Told'
  BY <1>3 DEF Told, ScoreSlot, Batch
<1>4. ASSUME NEW s \in Slots, AppendRow(s) PROVE Told'
  BY <1>4 DEF Told, AppendRow, Written, Batch
<1>5. ASSUME NEW s \in Slots, Alter(s) PROVE Told'
  BY <1>5 DEF Told, Alter, Mishap
<1>6. CASE Drain \/ Die \/ EndCollection
  BY <1>6 DEF Told, Drain, Die, EndCollection, Batch
<1>7. CASE Verify BY <1>7 DEF Told, Verify
<1>8. CASE CountPrimitives \/ CountLinux \/ CountComposites
  BY <1>8 DEF Told, CountPrimitives, CountLinux, CountComposites, Conclude
<1>9. CASE First \/ Replace \/ Resume
  <2>1. cohort = "windows" BY <1>9 DEF First, Replace, Resume, Told
  <2>2. UNCHANGED <<study, cohort, raw, rows, collector, checked, verdict>>
    BY <1>9 DEF First, Replace, Resume
  <2>3. mishaps' = mishaps \/ mishaps' = mishaps + 1
    BY <1>9 DEF First, Replace, Resume, Mishap
  <2> QED BY <2>1, <2>2, <2>3 DEF Told
<1>10. CASE UNCHANGED vars BY <1>10 DEF Told, vars
<1> QED BY <1>1, <1>2, <1>3, <1>4, <1>5, <1>6, <1>7, <1>8, <1>9, <1>10 DEF Next

(* The rows of primitives after every step.                                *)
LEMMA PrimitivesStep ==
  ASSUME Told, Primitives, [Next]_vars PROVE Primitives'
<1> SUFFICES ASSUME cohort = "primitives", NEW x \in DOMAIN rows' PROVE Primitive(x)'
  <2>1. cohort' = cohort
    BY DEF Next, vars, Execute, Collect, ScoreSlot, AppendRow, Alter, Drain, Die, EndCollection,
           Verify, CountPrimitives, CountLinux, CountComposites, First, Replace, Resume
  <2> QED BY <2>1 DEF Primitives
<1>0. \A y \in DOMAIN rows : Primitive(y) BY DEF Primitives
<1>1. ASSUME NEW s \in Slots, NEW f \in Files, NEW status, Record(s, f, status), study' = study,
             status = "valid" => /\ Clean(f.summary)
                                 /\ study = "campaign" => f.lines > 0
      PROVE  Primitive(x)'
  <2>0. DOMAIN raw = Slots /\ DOMAIN rows \subseteq Slots BY DEF Told
  <2>1. /\ DOMAIN rows' = DOMAIN rows \cup {s} /\ raw'[s] = f /\ rows'[s] = Row(f, status)
        /\ \A y \in DOMAIN rows : y # s => rows'[y] = rows[y] /\ raw'[y] = raw[y]
    BY <1>1, <2>0 DEF Record
  <2>2. CASE x = s BY <1>1, <2>1, <2>2 DEF Primitive, Row
  <2>3. CASE x # s BY <1>0, <1>1, <2>1, <2>3 DEF Primitive
  <2> QED BY <2>2, <2>3
<1>2. ASSUME NEW s \in Slots, Execute(s) PROVE Primitive(x)'
  <2>1. study' = study BY <1>2 DEF Execute
  <2>2. ASSUME NEW f \in Files, NEW code \in {0, 1}, Record(s, f, Classify(f, code))
        PROVE  Primitive(x)'
    <3>1. Classify(f, code) = "valid" => Clean(f.summary) /\ f.lines # 0 BY DEF Classify
    <3>2. f.lines # 0 => f.lines > 0 BY FilesHold
    <3> QED BY <1>1, <2>1, <2>2, <3>1, <3>2
  <2>3. ASSUME NEW f \in Files, Record(s, f, "behavior-failure") PROVE Primitive(x)'
    BY <1>1, <2>1, <2>3
  <2> QED BY <1>2, <2>2, <2>3 DEF Execute
<1>3. ASSUME NEW s \in Slots, Collect(s) PROVE Primitive(x)'
  <2>1. study' = study /\ study # "campaign" BY <1>3 DEF Collect
  <2>2. CASE UNCHANGED rows
    BY <1>0, <2>1, <2>2 DEF Primitive
  <2>3. CASE ~UNCHANGED rows
    <3>1. PICK f \in Files, code \in {0, 1} :
            Record(s, f, IF Good(f, code) THEN "valid" ELSE "invalid")
      BY <1>3, <2>3 DEF Collect
    <3>2. Good(f, code) => Clean(f.summary) BY DEF Good
    <3> QED BY <1>1, <2>1, <3>1, <3>2
  <2> QED BY <2>2, <2>3
<1>4. ASSUME NEW s \in Slots, Alter(s) PROVE Primitive(x)'
  BY <1>0, <1>4 DEF Alter, Primitive
<1>5. CASE UNCHANGED <<study, raw, rows>> BY <1>0, <1>5 DEF Primitive
<1> QED
  BY <1>2, <1>3, <1>4, <1>5
  DEF Next, vars, ScoreSlot, AppendRow, Drain, Die, EndCollection, Batch,
      Verify, CountPrimitives, CountLinux, CountComposites, First, Replace, Resume

(* The rows of a Linux batch after every step.                             *)
LEMMA BatchStep ==
  ASSUME Told, BatchRows, [Next]_vars PROVE BatchRows'
<1>0. cohort' = cohort
  BY DEF Next, vars, Execute, Collect, ScoreSlot, AppendRow, Alter, Drain, Die, EndCollection,
         Verify, CountPrimitives, CountLinux, CountComposites, First, Replace, Resume
<1>1. ASSUME cohort = "linux", NEW s \in Slots, ScoreSlot(s) PROVE BatchRows'
  <2>1. PICK b \in BOOLEAN : raw' = [raw EXCEPT ![s] = Result(b, health = "good")]
    BY <1>1 DEF ScoreSlot
  <2>2. /\ health # "none" /\ raw[s] = NoFile /\ collector = "on"
        /\ UNCHANGED <<rows, health, mishaps, collector, cohort>>
    BY <1>1 DEF ScoreSlot, Batch, Written
  <2>3. raw'[s] = Result(b, health = "good") /\ \A y \in Slots : y # s => raw'[y] = raw[y]
    BY <2>1 DEF Told
  <2>4. Scored(Result(b, health = "good")) BY ResultsAreFiles DEF Scored
  <2>5. s \notin DOMAIN rows
    <3>1. \A y \in DOMAIN rows : raw[y] = rows[y] /\ rows[y] \in Results
      BY <1>1, <2>2 DEF BatchRows
    <3> QED BY <2>2, <3>1, ResultsAreFiles
  <2>6. \A y \in DOMAIN rows : y # s /\ y \in Slots BY <2>5 DEF Told
  <2>7. \A y \in DOMAIN rows : raw'[y] = rows[y] BY <1>1, <2>2, <2>3, <2>6 DEF BatchRows
  <2>8. \A y \in Slots : raw'[y] # NoFile => Scored(raw'[y])
    BY <1>1, <2>2, <2>3, <2>4 DEF BatchRows
  <2>9. \A y, z \in Written' \ DOMAIN rows : y = z
    <3>1. Written' \subseteq Written \cup {s} /\ Written = DOMAIN rows
      BY <1>1, <2>3 DEF Written, ScoreSlot
    <3> QED BY <3>1
  <2> QED BY <1>1, <2>2, <2>7, <2>8, <2>9 DEF BatchRows, Scored
<1>2. ASSUME cohort = "linux", NEW s \in Slots, AppendRow(s) PROVE BatchRows'
  <2>1. /\ s \in Written /\ rows' = [x \in Written |-> IF x = s THEN raw[s] ELSE rows[x]]
        /\ collector = "on" /\ UNCHANGED <<raw, health, mishaps, collector, cohort>>
        /\ Written \subseteq Slots
    BY <1>2 DEF AppendRow, Batch, Written
  <2>2. \A y \in Slots : raw[y] # NoFile => Scored(raw[y]) BY <1>2, <2>1 DEF BatchRows
  <2>3. \A y \in DOMAIN rows : raw[y] = rows[y] BY <1>2, <2>1 DEF BatchRows
  <2>4. \A y \in Written : y = s \/ y \in DOMAIN rows
    BY <1>2, <2>1 DEF BatchRows, AppendRow
  <2>5. DOMAIN rows' = Written /\ \A y \in Written : rows'[y] = raw[y]
    BY <2>1, <2>3, <2>4
  <2>6. \A y \in Written : raw[y] \in Results /\ Scored(raw[y])
    BY <2>2 DEF Written, Scored
  <2>7. Written' = Written BY <2>1 DEF Written
  <2>8. \A y \in DOMAIN rows' : rows'[y] \in Results /\ raw'[y] = rows'[y]
    BY <2>1, <2>5, <2>6
  <2>9. \A y \in Slots : (raw[y] # NoFile => Scored(raw[y]))' BY <2>1, <2>2 DEF Scored
  <2>10. health' # "none" BY <1>2, <2>1 DEF BatchRows, Written
  <2>11. mishaps' = 0 BY <1>2, <2>1 DEF BatchRows
  <2> QED BY <2>1, <2>5, <2>7, <2>8, <2>9, <2>10, <2>11 DEF BatchRows
<1>3. ASSUME cohort = "linux", NEW s \in Slots, Alter(s) PROVE BatchRows'
  <2>1. collector # "on" /\ mishaps' = mishaps + 1 /\ UNCHANGED <<rows, collector, cohort>>
    BY <1>3 DEF Alter, Mishap
  <2>2. health' # "none" \/ UNCHANGED health BY <1>3 DEF Alter
  <2>3. mishaps' # 0 BY <2>1 DEF Told
  <2>4. \A y \in DOMAIN rows : rows[y] \in Results BY <1>3 DEF BatchRows
  <2>5. health' # "none"
    <3> SUFFICES ASSUME health' = "none" PROVE FALSE OBVIOUS
    <3>1. health = "none" /\ s \in DOMAIN rows BY <1>3, <2>2 DEF Alter
    <3> QED BY <1>3, <3>1 DEF BatchRows
  <2> QED BY <1>3, <2>1, <2>3, <2>4, <2>5 DEF BatchRows
<1>4. CASE cohort = "linux" /\ (Drain \/ Die)
  <2>1. UNCHANGED <<raw, rows, mishaps, cohort>> /\ collector = "on" BY <1>4 DEF Drain, Die, Batch
  <2>2. health' = health \/ (health = "none" /\ \A s \in Slots : raw[s] = NoFile)
    BY <1>4 DEF Drain, Die, BatchRows
  <2>3. health' = "none" => health = "none" BY <1>4 DEF Drain, Die
  <2>4. \A y \in Slots : raw[y] # NoFile => Scored(raw[y])'
    BY <1>4, <2>1, <2>2 DEF BatchRows, Scored
  <2>5. Written' = Written BY <2>1 DEF Written
  <2> QED BY <1>4, <2>1, <2>3, <2>4, <2>5 DEF BatchRows
<1>5. CASE UNCHANGED <<raw, rows, health, cohort>> /\ (UNCHANGED mishaps \/ cohort = "windows")
           /\ (collector' = "on" => collector = "on")
  <2>1. Written' = Written BY <1>5 DEF Written
  <2>2. \A r : Scored(r)' <=> Scored(r) BY <1>5 DEF Scored
  <2> QED BY <1>5, <2>1, <2>2 DEF BatchRows
<1>6. CASE cohort # "linux" BY <1>0, <1>6 DEF BatchRows
<1>7. ASSUME NEW s \in Slots, Execute(s) \/ Collect(s) PROVE BatchRows'
  BY <1>6, <1>7 DEF Execute, Collect, Told
<1>8. CASE First \/ Replace \/ Resume BY <1>6, <1>8 DEF First, Replace, Resume, Told
<1>9. CASE \/ Verify \/ CountPrimitives \/ CountLinux \/ CountComposites
           \/ EndCollection \/ UNCHANGED vars
  BY <1>5, <1>9 DEF Verify, CountPrimitives, CountLinux, CountComposites, EndCollection, vars
<1> QED
  BY <1>1, <1>2, <1>3, <1>4, <1>6, <1>7, <1>8, <1>9 DEF Next, ScoreSlot, AppendRow

(* What has been checked or counted does not change any more.              *)
LEMMA Settled ==
  ASSUME Told, [Next]_vars
  PROVE  /\ study' = study /\ cohort' = cohort
         /\ checked = "passed" => UNCHANGED <<raw, rows, checked>>
         /\ verdict = "done" /\ cohort # "windows" =>
              UNCHANGED <<raw, rows, health, counted, verdict>>
         /\ verdict = "done" /\ cohort = "windows" =>
              UNCHANGED <<captures, logged, counted, verdict>>
<1>1. study' = study /\ cohort' = cohort
  BY DEF Next, vars, Execute, Collect, ScoreSlot, AppendRow, Alter, Drain, Die, EndCollection,
         Verify, CountPrimitives, CountLinux, CountComposites, First, Replace, Resume
<1>2. checked = "passed" => UNCHANGED <<raw, rows, checked>>
  BY DEF Next, vars, Execute, Collect, ScoreSlot, AppendRow, Alter, Drain, Die, EndCollection,
         Verify, CountPrimitives, CountLinux, CountComposites, First, Replace, Resume, Told, Batch
<1>3. verdict = "done" /\ cohort # "windows" => UNCHANGED <<raw, rows, health, counted, verdict>>
  BY DEF Next, vars, Execute, Collect, ScoreSlot, AppendRow, Alter, Drain, Die, EndCollection,
         Verify, CountPrimitives, CountLinux, CountComposites, First, Replace, Resume, Told, Batch
<1>4. verdict = "done" /\ cohort = "windows" => UNCHANGED <<captures, logged, counted, verdict>>
  BY DEF Next, vars, Execute, Collect, ScoreSlot, AppendRow, Alter, Drain, Die, EndCollection,
         Verify, CountPrimitives, CountLinux, CountComposites, First, Replace, Resume, Told, Batch
<1> QED BY <1>1, <1>2, <1>3, <1>4

(* What was checked and counted is as it was seen.                         *)
LEMMA SeenStep ==
  ASSUME Told, Seen, [Next]_vars PROVE Seen'
<1>0. study' = study /\ cohort' = cohort BY Settled
<1>1. CASE Verify
  <2>1. UNCHANGED <<raw, rows, health, verdict, counted>> BY <1>1 DEF Verify
  <2>2. ValidSlots' = ValidSlots /\ SameRows' = SameRows
    BY <2>1 DEF ValidSlots, SameRows
  <2>3. \A s : Sound(s)' <=> Sound(s) BY <2>1 DEF Sound
  <2>4. checked' = "passed" => \/ cohort = "primitives" /\ \A s \in DOMAIN rows : Sound(s)
                               \/ cohort = "linux" /\ SameRows
    BY <1>1 DEF Verify
  <2> QED BY <1>0, <2>1, <2>2, <2>3, <2>4 DEF Seen
<1>2. CASE CountPrimitives \/ CountLinux \/ CountComposites
  <2>1. UNCHANGED <<raw, rows, health, checked>>
    BY <1>2 DEF CountPrimitives, CountLinux, CountComposites
  <2>2. ValidSlots' = ValidSlots /\ SameRows' = SameRows
    BY <2>1 DEF ValidSlots, SameRows
  <2>3. \A s : Sound(s)' <=> Sound(s) BY <2>1 DEF Sound
  <2>4. CASE CountPrimitives
    <3>1. verdict' = "done" => counted' = ValidSlots BY <2>4 DEF CountPrimitives, Conclude
    <3>2. verdict' = "done" /\ study = "iteration" => \A s \in DOMAIN rows : Sound(s)
      BY <2>4 DEF CountPrimitives, Conclude
    <3>3. cohort = "primitives" BY <2>4 DEF CountPrimitives
    <3> QED BY <1>0, <2>1, <2>2, <2>3, <3>1, <3>2, <3>3 DEF Seen
  <2>5. CASE CountLinux
    <3>1. /\ verdict' = "done" => counted' = ValidSlots
          /\ verdict' = "done" /\ study = "iteration" =>
               SameRows /\ (ValidSlots # {} => health = "good")
          /\ cohort = "linux"
      BY <2>5 DEF CountLinux, Conclude
    <3> QED BY <1>0, <2>1, <2>2, <2>3, <3>1 DEF Seen
  <2>6. CASE CountComposites
    <3>1. cohort = "windows" BY <2>6 DEF CountComposites
    <3> QED BY <1>0, <3>1 DEF Seen
  <2> QED BY <1>2, <2>4, <2>5, <2>6
<1>3. CASE ~Verify /\ ~CountPrimitives /\ ~CountLinux /\ ~CountComposites
  <2>1. UNCHANGED <<checked, verdict, counted>>
    BY <1>3 DEF Next, vars, Execute, Collect, ScoreSlot, AppendRow, Alter, Drain, Die,
                EndCollection, First, Replace, Resume
  <2>2. checked = "passed" => UNCHANGED <<raw, rows>> BY Settled
  <2>3. verdict = "done" /\ cohort # "windows" => UNCHANGED <<raw, rows, health>> BY Settled
  <2>4. UNCHANGED <<raw, rows>> =>
          ValidSlots' = ValidSlots /\ SameRows' = SameRows /\ \A s : Sound(s)' <=> Sound(s)
    BY DEF ValidSlots, SameRows, Sound
  <2> QED BY <1>0, <2>1, <2>2, <2>3, <2>4 DEF Seen
<1> QED BY <1>1, <1>2, <1>3

(* The captures of the cell after every step.                              *)
LEMMA CellsStep ==
  ASSUME Told, Cells, [Next]_vars PROVE Cells'
<1>0. study' = study BY Settled
<1>1. ASSUME NEW role \in Roles, NEW prior, NEW planned \in SUBSET Slots,
             planned \cap prior = {} \/ study = "pilot",
             NEW c \in CapturesOf(planned, prior), captures' = [captures EXCEPT ![role] = c]
      PROVE  Cells'
  <2>1. c.planned = planned /\ c.prior = prior /\ DOMAIN c.tried \subseteq planned
    <3>1. c.tried \in UNION {[T -> {"ok", "bad", "unclear"}] : T \in SUBSET planned}
      BY DEF CapturesOf
    <3>2. PICK T \in SUBSET planned : c.tried \in [T -> {"ok", "bad", "unclear"}] BY <3>1
    <3> QED BY <3>2 DEF CapturesOf
  <2>2. Cell(c)' BY <1>0, <1>1, <2>1 DEF Cell
  <2>3. \A x \in Roles : Cell(captures[x])'
    <3> SUFFICES ASSUME NEW x \in Roles PROVE Cell(captures[x])' OBVIOUS
    <3>1. CASE x = role BY <1>0, <1>1, <2>1, <3>1 DEF Cells, Cell
    <3>2. CASE x # role BY <1>0, <1>1, <3>2 DEF Cells, Cell
    <3> QED BY <3>1, <3>2
  <2> QED BY <1>1, <2>3 DEF Cells
<1>2. CASE First
  <2>1. PICK c \in CapturesOf(Slots, {}) : captures' = [captures EXCEPT !["initial"] = c]
    BY <1>2 DEF First
  <2> QED BY <1>1, <2>1 DEF Roles
<1>3. CASE Replace
  <2>1. PICK c \in CapturesOf(Slots, {}) : captures' = [captures EXCEPT !["second"] = c]
    BY <1>3 DEF Replace
  <2> QED BY <1>1, <2>1 DEF Roles
<1>4. CASE Resume
  <2>0. PICK prior \in SUBSET Slots :
          \E c \in CapturesOf(Slots \ prior, prior) :
            captures' = [captures EXCEPT !["second"] = c]
    BY <1>4 DEF Resume
  <2>1. PICK c \in CapturesOf(Slots \ prior, prior) :
          captures' = [captures EXCEPT !["second"] = c]
    BY <2>0
  <2> QED BY <1>1, <2>1 DEF Roles
<1>5. CASE UNCHANGED captures BY <1>0, <1>5 DEF Cells, Cell
<1> QED
  BY <1>2, <1>3, <1>4, <1>5
  DEF Next, vars, Execute, Collect, ScoreSlot, AppendRow, Alter, Drain, Die, EndCollection,
      Verify, CountPrimitives, CountLinux, CountComposites

(***************************************************************************)
(* The rows of a cell.                                                     *)
(***************************************************************************)

(* A capture has a row for each program that it tried.                     *)
LEMMA CaptureRows ==
  ASSUME NEW role \in Roles
  PROVE  /\ \A r \in RowsOf(role) :
              /\ r.role = role /\ r.slot \in Tried(role) /\ captures[role].health # "none"
              /\ r.valid <=> Healthy(captures[role]) /\ captures[role].tried[r.slot] = "ok"
         /\ \A r, q \in RowsOf(role) : r.slot = q.slot => r = q
         /\ captures[role].health # "none" =>
              \A s \in Tried(role) : \E r \in RowsOf(role) : r.slot = s
<1> DEFINE row(s) == [slot |-> s, role |-> role,
                      valid |-> Healthy(captures[role]) /\ captures[role].tried[s] = "ok"]
<1>1. CASE captures[role].health = "none"
  <2>1. RowsOf(role) = {} BY <1>1 DEF RowsOf
  <2> QED BY <1>1, <2>1
<1>2. CASE captures[role].health # "none"
  <2>1. RowsOf(role) = {row(s) : s \in Tried(role)} BY <1>2 DEF RowsOf, Tried
  <2>2. \A s : row(s).slot = s /\ row(s).role = role
               /\ row(s).valid = (Healthy(captures[role]) /\ captures[role].tried[s] = "ok")
    OBVIOUS
  <2> HIDE DEF row
  <2>3. \A r \in RowsOf(role) : r = row(r.slot) /\ r.slot \in Tried(role) BY <2>1, <2>2
  <2>4. \A s \in Tried(role) : \E r \in RowsOf(role) : r.slot = s BY <2>1, <2>2
  <2>5. ASSUME NEW r \in RowsOf(role)
        PROVE  /\ r.role = role /\ r.slot \in Tried(role)
               /\ r.valid = (Healthy(captures[role]) /\ captures[role].tried[r.slot] = "ok")
    <3>1. r = row(r.slot) /\ r.slot \in Tried(role) BY <2>3
    <3>2. r.role = row(r.slot).role /\ r.valid = row(r.slot).valid BY <3>1
    <3> QED BY <2>2, <3>1, <3>2
  <2>6. \A r, q \in RowsOf(role) : r.slot = q.slot => r = q BY <2>3
  <2> QED BY <1>2, <2>4, <2>5, <2>6
<1> QED BY <1>1, <1>2

(* There are finitely many.                                                *)
LEMMA FiniteRows ==
  ASSUME IsFiniteSet(Slots), Cells PROVE IsFiniteSet(Both)
<1>1. ASSUME NEW role \in Roles PROVE IsFiniteSet(RowsOf(role))
  <2>1. IsFiniteSet({r.slot : r \in RowsOf(role)})
    <3>1. {r.slot : r \in RowsOf(role)} \subseteq Slots
      BY CaptureRows DEF Cells, Cell, Tried
    <3> QED BY <3>1, FS_Subset
  <2> DEFINE S == {r.slot : r \in RowsOf(role)}
             f == [s \in S |-> CHOOSE r \in RowsOf(role) : r.slot = s]
  <2>2. \A s \in S : f[s] \in RowsOf(role) /\ f[s].slot = s OBVIOUS
  <2>3. \A r \in RowsOf(role) : r.slot \in S /\ f[r.slot] = r BY <2>2, CaptureRows
  <2>4. f \in Surjection(S, RowsOf(role))
    <3>1. f \in [S -> RowsOf(role)] BY <2>2
    <3>2. \A r \in RowsOf(role) : \E s \in S : f[s] = r BY <2>3
    <3> HIDE DEF f, S
    <3> QED BY <3>1, <3>2 DEF Surjection
  <2> HIDE DEF f
  <2> QED BY <2>1, <2>4, FS_Surjection
<1> QED BY <1>1, FS_Union DEF Both, Roles

(* The rows that are counted give no second chance.                        *)
Fair(C) ==
  /\ \A r, q \in C : r.slot = q.slot => r = q
  /\ \A r \in Both : r.valid => r \in C
  /\ \A s \in Slots \ {r.slot : r \in C}, role \in DOMAIN captures :
       captures[role].health # "none" => s \notin Tried(role)
  /\ \A r \in C :
       r.role = "second" /\ r.valid /\ r.slot \in Tried("initial") =>
         /\ study = "pilot" /\ logged
         /\ \A q \in RowsOf("initial") : ~q.valid

(* The property, about a set of counted rows.                              *)
LEMMA FairMeans == NoSecondChance <=> (verdict = "done" /\ cohort = "windows" => Fair(counted))
BY DEF NoSecondChance, Fair, Missing

(* The pilot's replacement.                                                *)
LEMMA ReplacementFair ==
  ASSUME Cells, study = "pilot", Allowed, \A r \in Superseded : ~r.valid
  PROVE  Fair(Both \ Superseded)
<1> DEFINE C == Both \ Superseded
<1>0. "initial" \in Roles /\ "second" \in Roles /\ DOMAIN captures = Roles
      /\ \A role \in Roles : role = "initial" \/ role = "second"
  BY DEF Roles, Cells
<1>1. \A r \in RowsOf("initial") : r.role = "initial" BY <1>0, CaptureRows
<1>2. \A r \in RowsOf("second") : r.role = "second" BY <1>0, CaptureRows
<1>3. RowsOf("second") \subseteq C BY <1>1, <1>2 DEF Both, Superseded
<1>4. \A r \in RowsOf("initial") : r \in C \/ \E q \in RowsOf("second") : q.slot = r.slot
  BY DEF Both, Superseded
<1>5. \A r \in RowsOf("initial") : r \in C => ~\E q \in RowsOf("second") : q.slot = r.slot
  BY DEF Superseded
<1>6. C \subseteq RowsOf("initial") \cup RowsOf("second") BY DEF Both
<1> HIDE DEF C
<1>7. \A r, q \in C : r.slot = q.slot => r = q
  <2> SUFFICES ASSUME NEW r \in C, NEW q \in C, r.slot = q.slot PROVE r = q OBVIOUS
  <2>1. CASE r \in RowsOf("initial") /\ q \in RowsOf("initial") BY <1>0, <2>1, CaptureRows
  <2>2. CASE r \in RowsOf("second") /\ q \in RowsOf("second") BY <1>0, <2>2, CaptureRows
  <2>3. CASE r \in RowsOf("initial") /\ q \in RowsOf("second") BY <1>5, <2>3
  <2>4. CASE r \in RowsOf("second") /\ q \in RowsOf("initial") BY <1>5, <2>4
  <2> QED BY <1>6, <2>1, <2>2, <2>3, <2>4
<1>8. \A r \in Both : r.valid => r \in C BY DEF C
<1>9. ASSUME NEW s \in Slots \ {r.slot : r \in C}, NEW role \in DOMAIN captures,
             captures[role].health # "none"
      PROVE  s \notin Tried(role)
  <2> SUFFICES ASSUME s \in Tried(role) PROVE FALSE OBVIOUS
  <2>1. PICK r \in RowsOf(role) : r.slot = s BY <1>0, <1>9, CaptureRows
  <2>2. \E q \in C : q.slot = s BY <1>0, <1>3, <1>4, <2>1
  <2> QED BY <2>2
<1>10. ASSUME NEW r \in C, r.role = "second", r.valid, r.slot \in Tried("initial")
       PROVE  logged /\ \A q \in RowsOf("initial") : ~q.valid
  <2>1. r \in RowsOf("second") BY <1>1, <1>6, <1>10
  <2>2. captures["second"].health # "none" BY <1>0, <2>1, CaptureRows
  <2>3. /\ logged
        /\ captures["initial"].health # "none" => \A q \in RowsOf("initial") : ~q.valid
    BY <2>2 DEF Allowed
  <2>4. captures["initial"].health = "none" => RowsOf("initial") = {} BY DEF RowsOf
  <2> QED BY <2>3, <2>4
<1> QED BY <1>7, <1>8, <1>9, <1>10 DEF Fair, C

(* The iteration study's resumption.                                       *)
LEMMA ResumptionFair ==
  ASSUME IsFiniteSet(Slots), Cells, study = "iteration", PriorKept, NoneTwice
  PROVE  Fair(Both)
<1>0. "initial" \in Roles /\ "second" \in Roles /\ DOMAIN captures = Roles
      /\ \A role \in Roles : role = "initial" \/ role = "second"
  BY DEF Roles, Cells
<1>1. \A r, q \in Both : r.slot = q.slot => r = q
  <2> DEFINE S == {r.slot : r \in Both}
             f == [r \in Both |-> r.slot]
  <2>1. f \in Surjection(Both, S) BY DEF Surjection
  <2>2. IsFiniteSet(Both) /\ Cardinality(Both) = Cardinality(S) BY FiniteRows DEF NoneTwice
  <2> HIDE DEF f, S
  <2>3. f \in Injection(Both, S) BY <2>1, <2>2, FS_SurjSameCardinalityImpliesInj
  <2>4. \A r, q \in Both : f[r] = f[q] => r = q BY <2>3 DEF Injection, IsInjective
  <2> QED BY <2>4 DEF f
<1>2. ASSUME NEW s \in Slots \ {r.slot : r \in Both}, NEW role \in DOMAIN captures,
             captures[role].health # "none"
      PROVE  s \notin Tried(role)
  <2> SUFFICES ASSUME s \in Tried(role) PROVE FALSE OBVIOUS
  <2>1. PICK r \in RowsOf(role) : r.slot = s BY <1>0, <1>2, CaptureRows
  <2> QED BY <1>0, <2>1 DEF Both
<1>3. ASSUME NEW r \in Both, r.role = "second", r.slot \in Tried("initial") PROVE FALSE
  <2>1. r \in RowsOf("second") BY <1>0, <1>3, CaptureRows DEF Both
  <2>2. r.slot \in Tried("second") /\ captures["second"].health # "none"
    BY <1>0, <2>1, CaptureRows
  <2>3. captures["second"] # NoCapture BY <2>2 DEF NoCapture
  <2>4. Cell(captures["second"]) BY <1>0 DEF Cells
  <2>5. r.slot \in captures["second"].planned BY <2>2, <2>4 DEF Cell, Tried
  <2>6. r.slot \in captures["second"].prior BY <1>3, <2>3 DEF PriorKept
  <2> QED BY <2>3, <2>4, <2>5, <2>6 DEF Cell
<1> QED BY <1>1, <1>2, <1>3 DEF Fair

(* Fairness after every step.                                              *)
LEMMA FairStep ==
  ASSUME IsFiniteSet(Slots), Told, Cells, NoSecondChance, [Next]_vars PROVE NoSecondChance'
<1> SUFFICES ASSUME verdict' = "done", cohort' = "windows" PROVE Fair(counted)'
  BY DEF NoSecondChance, Fair, Missing
<1>0. study' = study /\ cohort' = cohort BY Settled
<1>1. ASSUME UNCHANGED <<captures, logged>>, Fair(counted')
      PROVE  Fair(counted)'
  <2>1. /\ Both' = Both /\ RowsOf("initial")' = RowsOf("initial")
        /\ \A role : Tried(role)' = Tried(role)
    BY <1>1 DEF Both, RowsOf, Tried
  <2> QED BY <1>0, <1>1, <2>1 DEF Fair
<1>2. CASE CountComposites
  <2>1. UNCHANGED <<captures, logged>> BY <1>2 DEF CountComposites
  <2>2. CASE study = "pilot"
    <3>1. Allowed /\ (\A r \in Superseded : ~r.valid) /\ counted' = Both \ Superseded
      BY <1>2, <2>2 DEF CountComposites, Conclude
    <3> QED BY <1>1, <2>1, <2>2, <3>1, ReplacementFair
  <2>3. CASE study = "iteration"
    <3>1. PriorKept /\ NoneTwice /\ counted' = Both
      BY <1>2, <2>3 DEF CountComposites, Conclude
    <3> QED BY <1>1, <2>1, <2>3, <3>1, ResumptionFair
  <2> QED BY <1>0, <2>2, <2>3 DEF Told
<1>3. CASE ~CountComposites
  <2>1. verdict = "done"
    BY <1>0, <1>3 DEF Next, vars, Execute, Collect, ScoreSlot, AppendRow, Alter, Drain, Die,
       EndCollection, Verify, CountPrimitives, CountLinux, First, Replace, Resume
  <2>2. UNCHANGED <<captures, logged, counted>> BY <1>0, <2>1, Settled
  <2>3. Fair(counted) BY <1>0, <2>1, FairMeans
  <2> QED BY <1>1, <2>2, <2>3
<1> QED BY <1>2, <1>3

(***************************************************************************)
(* The theorems.                                                           *)
(***************************************************************************)

(* The invariant holds at the start and after every step.                  *)
LEMMA Invariant == Spec => []IInv
<1>1. Init => IInv
  <2> SUFFICES ASSUME Init PROVE IInv OBVIOUS
  <2>1. Told BY DEF Init, Told
  <2>2. Primitives BY DEF Init, Primitives
  <2>3. BatchRows BY DEF Init, BatchRows, Written
  <2>4. Seen BY DEF Init, Seen
  <2>5. Cells
    <3>1. Cell(NoCapture) BY DEF Cell, NoCapture
    <3> QED BY <3>1 DEF Init, Cells, Roles
  <2> QED BY <2>1, <2>2, <2>3, <2>4, <2>5 DEF IInv
<1>2. IInv /\ [Next]_vars => IInv'
  BY ToldStep, PrimitivesStep, BatchStep, SeenStep, CellsStep DEF IInv
<1> QED BY <1>1, <1>2, PTL DEF Spec

(* A primitive that is counted has a whole file, and a Linux composite     *)
(* that is counted belongs to a healthy batch (normalize.py:29-38,         *)
(* pilot/verify-evidence.py, pilot/analyze.py:100).                        *)
THEOREM CountedIsWhole == Spec => []CountsAreWhole
<1>1. ASSUME IInv PROVE CountsAreWhole
  <2> SUFFICES ASSUME verdict = "done", cohort # "windows", NEW s \in counted
               PROVE
      /\ cohort = "primitives" =>
             /\ study = "campaign" => Clean(raw[s].summary) /\ raw[s].lines > 0
             /\ study = "iteration" \/ checked = "passed" =>
                  Clean(raw[s].summary) /\ raw[s].lines = raw[s].summary.total
      /\ cohort = "linux" =>
             /\ study = "iteration" \/ mishaps = 0 => health = "good"
             /\ study = "iteration" \/ checked = "passed" \/ mishaps = 0 =>
                  raw[s] = Result(TRUE, TRUE)
    BY DEF CountsAreWhole
  <2>1. counted = ValidSlots /\ s \in DOMAIN rows /\ rows[s].status = "valid" /\ ValidSlots # {}
    BY <1>1 DEF IInv, Seen, ValidSlots
  <2>2. CASE cohort = "primitives"
    <3>1. Primitive(s) BY <1>1, <2>1, <2>2 DEF IInv, Primitives
    <3>2. study = "iteration" \/ checked = "passed" => Sound(s)
      BY <1>1, <2>1, <2>2 DEF IInv, Seen
    <3> QED BY <2>1, <2>2, <3>1, <3>2 DEF Primitive, Sound
  <2>3. CASE cohort = "linux"
    <3>1. rows[s] = Result(TRUE, TRUE) /\ rows[s] # NoFile /\ rows[s].collection
      BY <1>1, <2>1, <2>3, ResultsAreFiles DEF IInv, BatchRows
    <3>2. study = "iteration" \/ checked = "passed" \/ mishaps = 0 => raw[s] = rows[s]
      BY <1>1, <2>1, <2>3 DEF IInv, Seen, SameRows, BatchRows
    <3>3. study = "iteration" => health = "good" BY <1>1, <2>1, <2>3 DEF IInv, Seen
    <3>4. mishaps = 0 => health = "good"
      <4>1. s \in Slots BY <1>1, <2>1 DEF IInv, Told
      <4>2. mishaps = 0 => Scored(raw[s]) BY <1>1, <2>3, <3>1, <3>2, <4>1 DEF IInv, BatchRows
      <4> QED BY <3>1, <3>2, <4>2 DEF Scored
    <3> QED BY <2>3, <3>1, <3>2, <3>3, <3>4
  <2> QED BY <2>2, <2>3
<1> QED BY <1>1, Invariant, PTL

(* No slot is counted twice, no valid row is left out for another and a    *)
(* program is not given a second chance (pilot/analyze.py:166-200).        *)
THEOREM NoneHasASecondChance ==
  ASSUME IsFiniteSet(Slots) PROVE Spec => []NoSecondChance
<1>1. Init => NoSecondChance BY DEF Init, NoSecondChance
<1>2. IInv /\ NoSecondChance /\ [Next]_vars => NoSecondChance' BY FairStep DEF IInv
<1> QED BY <1>1, <1>2, Invariant, PTL DEF Spec
=============================================================================
