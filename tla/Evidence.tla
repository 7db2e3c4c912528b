------------------------------ MODULE Evidence ------------------------------
(***************************************************************************)
(* From the files a host collected to the observations a study counts: the *)
(* row each primitive gets from its tmon file (pilot/primitives.py, and    *)
(* experiment/primitives.py for a campaign), the rows of one batch of      *)
(* Linux composites (pilot/composites-linux.py), the captures of one       *)
(* Windows cell that failed and were replaced or resumed                   *)
(* (composites-windows.ps1, run.ps1), and the programs that check all this *)
(* again and count it (verify-evidence.py and analyze.py of the pilot,     *)
(* normalize.py and audit.py of the iteration study).                      *)
(***************************************************************************)
EXTENDS Integers, FiniteSets

CONSTANTS
    Slots,      \* planned slots: primitives of a host, programs of a batch or cell
    MaxMishaps  \* bound: files changed later, captures repeated by hand, fixture errors

VARIABLES
    study,      \* "pilot", "iteration" or "campaign"
    cohort,     \* "primitives", "linux" or "windows" (composites)
    raw,        \* slot -> tmon's file, or result.json of a composite
    rows,       \* slot -> its row in results.jsonl, the rows written so far
    collector,  \* the Linux collector: "on", "ended", "died"
    health,     \* health.json of the Linux batch: "none", "good", "bad"
    captures,   \* role -> capture of the Windows cell
    logged,     \* campaigns.json has an error for the first capture
    checked,    \* verify-evidence.py: "none", "passed", "failed"
    verdict,    \* the analysis: "none", "raised", "done"
    counted,    \* the rows it counts
    mishaps

vars == <<study, cohort, raw, rows, collector, health, captures, logged, checked, verdict,
          counted, mishaps>>

----------------------------------------------------------------------------
(* Primitives.  A file holds event records, perhaps a line cut in the      *)
(* middle, perhaps a summary of what was seen, what was lost and how the   *)
(* target ended.                                                           *)

NoSummary == [total |-> 0, lost |-> 0, target |-> -1]

File(lines, torn, summary) == [lines |-> lines, torn |-> torn, summary |-> summary]
Sum(total, lost, target) == [total |-> total, lost |-> lost, target |-> target]

NoFile == File(0, FALSE, NoSummary)
Whole  == File(2, FALSE, Sum(2, 0, 0))

\* What tmon leaves when all goes well, when records are lost, the target
\* fails, nothing happens, the file cannot hold everything, it is killed or
\* cannot begin.
Files == {NoFile, Whole, File(1, FALSE, Sum(1, 1, 0)), File(2, FALSE, Sum(2, 0, 1)),
          File(1, FALSE, Sum(1, 1, 1)), File(0, FALSE, Sum(0, 0, 0)),
          File(1, FALSE, Sum(2, 0, 0)), File(1, FALSE, NoSummary),
          File(1, TRUE, NoSummary)}

Clean(s) == s.target = 0 /\ s.lost = 0 /\ s.total > 0

\* The collectors of the studies: exit status and summary decide.
Good(f, code) == code = 0 /\ f.summary # NoSummary /\ Clean(f.summary)

\* classify: what the target did comes before what the collector lost.
Classify(f, code) ==
    IF f.torn \/ f.summary = NoSummary THEN "measurement-failure"
    ELSE IF f.summary.target # 0 THEN "behavior-failure"
    ELSE IF ~Clean(f.summary) \/ code # 0 \/ f.lines = 0 THEN "measurement-failure"
    ELSE "valid"

Row(f, status) == [status |-> status, summary |-> f.summary, lines |-> f.lines]

Record(s, f, status) ==
    /\ raw' = [raw EXCEPT ![s] = f]
    /\ rows' = [x \in DOMAIN rows \cup {s} |-> IF x = s THEN Row(f, status) ELSE rows[x]]

\* One attempt of a campaign.  At a timeout tmon is killed and whatever it left
\* is not looked at.
Execute(s) ==
    /\ study = "campaign" /\ collector = "on" /\ s \notin DOMAIN rows
    /\ \E f \in Files :
         \/ \E code \in {0, 1} : Record(s, f, Classify(f, code))
         \/ f.summary = NoSummary /\ Record(s, f, "behavior-failure")
    /\ UNCHANGED <<study, cohort, collector, health, captures, logged, checked, verdict, counted, mishaps>>

\* One row of a study.  After a timeout there is no exit status; a line cut in
\* the middle ends the collector.
Collect(s) ==
    /\ study # "campaign" /\ cohort = "primitives"
    /\ collector = "on" /\ s \notin DOMAIN rows
    /\ \E f \in Files, code \in {0, 1} :
         IF f.torn
         THEN /\ collector' = "died" /\ raw' = [raw EXCEPT ![s] = f] /\ UNCHANGED rows
         ELSE /\ Record(s, f, IF Good(f, code) THEN "valid" ELSE "invalid")
              /\ UNCHANGED collector
    /\ UNCHANGED <<study, cohort, health, captures, logged, checked, verdict, counted, mishaps>>

EndCollection ==
    /\ cohort # "windows" /\ collector = "on" /\ DOMAIN rows = Slots
    /\ collector' = "ended"
    /\ UNCHANGED <<study, cohort, raw, rows, health, captures, logged, checked, verdict, counted, mishaps>>

----------------------------------------------------------------------------
(* The composites of one Linux batch: every program has run when the       *)
(* collector is drained and looked at again, and then the rows are written *)
(* one by one.                                                             *)

Batch == study # "campaign" /\ cohort = "linux" /\ collector = "on"

\* Both snapshots and the log of the batch.
Drain ==
    /\ Batch /\ health = "none"
    /\ health' \in {"good", "bad"}
    /\ UNCHANGED <<study, cohort, raw, rows, collector, captures, logged, checked, verdict, counted, mishaps>>

\* The program did what it was to do, and nothing of the batch was lost.
Result(behavior, collection) ==
    [behavior |-> behavior, collection |-> collection,
     status |-> IF behavior /\ collection THEN "valid" ELSE "invalid"]

Results == {Result(b, c) : b, c \in BOOLEAN}

Written == {s \in Slots : raw[s] # NoFile}

\* result.json, then its line in results.jsonl, then the next program's.
ScoreSlot(s) ==
    /\ Batch /\ health # "none" /\ s \notin Written /\ Written = DOMAIN rows
    /\ \E b \in BOOLEAN : raw' = [raw EXCEPT ![s] = Result(b, health = "good")]
    /\ UNCHANGED <<study, cohort, rows, collector, health, captures, logged, checked, verdict, counted, mishaps>>

AppendRow(s) ==
    /\ Batch /\ s \in Written \ DOMAIN rows
    /\ rows' = [x \in Written |-> IF x = s THEN raw[s] ELSE rows[x]]
    /\ UNCHANGED <<study, cohort, raw, collector, health, captures, logged, checked, verdict, counted, mishaps>>

\* The collector is killed, perhaps while it writes health.json.  A batch that
\* has begun is never resumed.
Die ==
    /\ Batch
    /\ collector' = "died"
    /\ health' \in {health} \cup (IF health = "none" THEN {"cut"} ELSE {})
    /\ UNCHANGED <<study, cohort, raw, rows, captures, logged, checked, verdict, counted, mishaps>>

SameRows == \A s \in DOMAIN rows : raw[s] = rows[s]

----------------------------------------------------------------------------
(* What is checked again, and counted.                                     *)

Mishap == mishaps < MaxMishaps /\ mishaps' = mishaps + 1

\* A file changes on its way to the analysis.
Alter(s) ==
    /\ study # "campaign" /\ collector # "on" /\ s \in DOMAIN rows
    /\ checked = "none" /\ verdict = "none"
    /\ \/ \E f \in (IF cohort = "linux" THEN Results ELSE Files) \ {raw[s]} :
              raw' = [raw EXCEPT ![s] = f] /\ UNCHANGED health
       \/ cohort = "linux" /\ health' \in {"good", "bad"} \ {health} /\ UNCHANGED raw
    /\ Mishap
    /\ UNCHANGED <<study, cohort, rows, collector, captures, logged, checked, verdict, counted>>

\* normalize: the row against the file, record by record, valid or not.
\* Mutation: events are not counted.
Sound_Summary(s) == raw[s].summary = rows[s].summary /\ raw[s].summary # NoSummary
Sound(s) ==
    /\ ~raw[s].torn /\ raw[s].summary # NoSummary
    /\ raw[s].summary = rows[s].summary
    /\ raw[s].lines = raw[s].summary.total /\ raw[s].lines = rows[s].lines

\* The pilot's verify-evidence.py, a program of its own, checks the same, and of
\* composites that their results are in their rows.
Verify ==
    /\ study = "pilot" /\ cohort # "windows" /\ collector # "on" /\ checked = "none"
    /\ checked' = IF \/ cohort = "primitives" /\ \A s \in DOMAIN rows : Sound(s)
                     \/ cohort = "linux" /\ health # "cut" /\ SameRows
                  THEN "passed" ELSE "failed"
    /\ UNCHANGED <<study, cohort, raw, rows, collector, health, captures, logged, verdict, counted, mishaps>>

\* The pilot's analysis: the events of a valid row are as many as it says.
Agrees(s) == rows[s].status = "valid" => rows[s].lines = rows[s].summary.total

Conclude(ok, data) ==
    /\ verdict' = IF ok THEN "done" ELSE "raised"
    /\ counted' = IF ok THEN data ELSE {}

ValidSlots == {s \in DOMAIN rows : rows[s].status = "valid"}

CountPrimitives ==
    /\ cohort = "primitives" /\ collector # "on" /\ verdict = "none"
    /\ Conclude(CASE study = "pilot"     -> \A s \in DOMAIN rows : Agrees(s)
                  [] study = "iteration" -> \A s \in DOMAIN rows : Sound(s)
                  [] study = "campaign"  -> TRUE,
                ValidSlots)
    /\ UNCHANGED <<study, cohort, raw, rows, collector, health, captures, logged, checked, mishaps>>

\* The pilot counts the rows as they are; normalize also asks that a valid one
\* has a healthy batch.
CountLinux ==
    /\ cohort = "linux" /\ collector # "on" /\ verdict = "none"
    /\ Conclude(study = "iteration" => health # "cut" /\ SameRows /\ (ValidSlots # {} => health = "good"),
                ValidSlots)
    /\ UNCHANGED <<study, cohort, raw, rows, collector, health, captures, logged, checked, mishaps>>

----------------------------------------------------------------------------
(* The captures of one Windows cell.                                       *)

NoCapture == [planned |-> {}, tried |-> << >>, health |-> "none", prior |-> {}]

\* A capture: programs tried, and whether its records were exported and healthy.
\* "unclear" is a program whose operations lost their attribution.
CapturesOf(planned, prior) ==
    [planned : {planned}, prior : {prior}, health : {"none", "bad", "good"},
     tried : UNION {[T -> {"ok", "bad", "unclear"}] : T \in SUBSET planned}]

Complete(c) == DOMAIN c.tried = c.planned

\* run.ps1 ends with an error.
Errs(c) == ~Complete(c) \/ c.health # "good" \/ \E s \in DOMAIN c.tried : c.tried[s] = "bad"

First ==
    /\ cohort = "windows" /\ captures["initial"] = NoCapture /\ verdict = "none"
    /\ \E c \in CapturesOf(Slots, {}) :
         /\ captures' = [captures EXCEPT !["initial"] = c]
         /\ \/ logged' = Errs(c) /\ UNCHANGED mishaps
            \/ ~Errs(c) /\ logged' = TRUE /\ Mishap
    /\ UNCHANGED <<study, cohort, raw, rows, collector, health, checked, verdict, counted>>

Tried(role) == DOMAIN captures[role].tried

\* The pilot replaces a capture with an error, all of it; by hand, any capture.
Replace ==
    /\ study = "pilot" /\ verdict = "none"
    /\ captures["initial"] # NoCapture /\ captures["second"] = NoCapture
    /\ IF logged THEN UNCHANGED mishaps ELSE Mishap
    /\ \E c \in CapturesOf(Slots, {}) : captures' = [captures EXCEPT !["second"] = c]
    /\ UNCHANGED <<study, cohort, raw, rows, collector, health, logged, checked, verdict, counted>>

\* The iteration study resumes it with the programs its attempts.json lacks; by
\* hand, with another list of attempts.
Resume ==
    /\ study = "iteration" /\ verdict = "none"
    /\ captures["initial"] # NoCapture /\ captures["second"] = NoCapture
    /\ \E prior \in SUBSET Slots :
         /\ IF prior = Tried("initial") THEN UNCHANGED mishaps ELSE Mishap
         /\ prior # Slots
         /\ \E c \in CapturesOf(Slots \ prior, prior) :
              captures' = [captures EXCEPT !["second"] = c]
    /\ UNCHANGED <<study, cohort, raw, rows, collector, health, logged, checked, verdict, counted>>

\* analyze: a capture with programs missing is as unhealthy as a sick collector.
Healthy(c) == Complete(c) /\ c.health = "good"

RowsOf(role) ==
    LET c == captures[role]
    IN  IF c.health = "none" THEN {}
        ELSE {[slot |-> s, role |-> role, valid |-> Healthy(c) /\ c.tried[s] = "ok"] : s \in DOMAIN c.tried}

Both == RowsOf("initial") \cup RowsOf("second")

\* The pilot refuses a replacement of a capture that failed in nothing or has
\* outcomes to interpret.
Allowed_Always == TRUE  \* mutation: replacements are not questioned
Allowed ==
    captures["second"].health # "none" =>
        logged /\ ~(captures["initial"].health # "none"
                    /\ (Healthy(captures["initial"]) \/ \E r \in RowsOf("initial") : r.valid))

\* effective_slots: a slot with a replacement has no other row.
Superseded == {r \in RowsOf("initial") : \E q \in RowsOf("second") : q.slot = r.slot}

\* normalize: the resumed capture left out what the first had tried, and a slot
\* has one row.
PriorKept == captures["second"] # NoCapture => captures["second"].prior = Tried("initial")
NoneTwice == Cardinality(Both) = Cardinality({r.slot : r \in Both})

CountComposites ==
    /\ cohort = "windows" /\ captures["initial"] # NoCapture /\ verdict = "none"
    /\ IF study = "pilot"
       THEN Conclude(Allowed /\ \A r \in Superseded : ~r.valid, Both \ Superseded)
       ELSE Conclude(PriorKept /\ NoneTwice, Both)
    /\ UNCHANGED <<study, cohort, raw, rows, collector, health, captures, logged, checked, mishaps>>

\* matrix_audit, audit.py: planned slots without a row.
Missing == Slots \ {r.slot : r \in counted}

----------------------------------------------------------------------------
Init ==
    /\ study \in {"pilot", "iteration", "campaign"}
    /\ cohort \in {"primitives", "linux", "windows"}
    /\ study = "campaign" => cohort = "primitives"
    /\ raw = [s \in Slots |-> NoFile]
    /\ rows = << >>
    /\ collector = "on" /\ health = "none"
    /\ captures = [role \in {"initial", "second"} |-> NoCapture]
    /\ logged = FALSE /\ checked = "none" /\ verdict = "none" /\ counted = {}
    /\ mishaps = 0

Next ==
    \/ \E s \in Slots : Execute(s) \/ Collect(s) \/ ScoreSlot(s) \/ AppendRow(s) \/ Alter(s)
    \/ Drain \/ Die \/ EndCollection \/ Verify \/ CountPrimitives \/ CountLinux
    \/ First \/ Replace \/ Resume \/ CountComposites

Spec == Init /\ [][Next]_vars

----------------------------------------------------------------------------
(* Properties.                                                             *)

\* A primitive that is counted has a whole file: nothing lost, the target ended
\* well and, where the file is checked against its summary, every event of the
\* summary is in it, also when the file changed after its row was written.  A
\* Linux composite that is counted belongs to a healthy batch and its result says
\* so too, in the iteration study also when one of these files has changed.
CountsAreWhole ==
    verdict = "done" =>
        /\ cohort = "primitives" => \A s \in counted :
             /\ study = "campaign" => Clean(raw[s].summary) /\ raw[s].lines > 0
             /\ study = "iteration" \/ checked = "passed" =>
                  Clean(raw[s].summary) /\ raw[s].lines = raw[s].summary.total
        /\ cohort = "linux" => \A s \in counted :
             /\ study = "iteration" \/ mishaps = 0 => health = "good"
             /\ study = "iteration" \/ checked = "passed" \/ mishaps = 0 =>
                  raw[s] = Result(TRUE, TRUE)

\* No second chance: a slot has one row at most, a valid row of a capture is
\* never left out for another, no slot is missing that a readable capture tried,
\* and a program that has been tried is counted from
\* a later capture only when the first failed as a whole.
NoSecondChance ==
    verdict = "done" /\ cohort = "windows" =>
        /\ \A r, q \in counted : r.slot = q.slot => r = q
        /\ \A r \in Both : r.valid => r \in counted
        /\ \A s \in Missing, role \in DOMAIN captures :
             captures[role].health # "none" => s \notin Tried(role)
        /\ \A r \in counted :
             r.role = "second" /\ r.valid /\ r.slot \in Tried("initial") =>
                 /\ study = "pilot" /\ logged
                 /\ \A q \in RowsOf("initial") : ~q.valid
=============================================================================
