------------------------------ MODULE MCStudy -------------------------------
(* Small instances of the four parts of a study that share no state and    *)
(* are explored side by side, one of them in each behaviour: the fleet, a  *)
(* Windows capture, the evidence of a host on its way to the counts, and   *)
(* the fixtures inside a Linux composite's container.                      *)
EXTENDS Fleet

CONSTANTS h1, h2, Pids, MaxProcs, MaxOps, MaxFailures, Slots, MaxMishaps

VARIABLES part,
          plan, procs, backlog, ops, events, attempts, results, failures,
          study, cohort, raw, rows, collector, health, captures, logged,
          checked, verdict, counted, mishaps,
          case, prep, peer, toPeer, toTool, conn, receipt, gate, code,
          tool, program, told, did, slow

\* Two hosts, one of them Linux, with one failure and one more start of the
\* driver; and one host with two failures and three more starts.
Two == [hosts |-> {h1, h2}, linux |-> {h1}, last |-> h1, starts |-> 2, faults |-> 1]
One == [hosts |-> {h1}, linux |-> {h1}, last |-> h1, starts |-> 4, faults |-> 2]
SmallFleets == {One, Two}

\* One program alone, and an active one with its control.
Plans == {[kind |-> "single", modes |-> <<"active">>],
          [kind |-> "batch", modes |-> <<"active", "control">>]}

\* What a program may talk to, directly, from Apache or from an installation.
SmallCases ==
  {[peer |-> p[1], entry |-> p[2]] :
     p \in {<<"send", "direct">>, <<"send", "web">>, <<"send", "npm">>,
           <<"netcat", "direct">>, <<"shell", "web">>}}

\* The parts, with the theorems about them.
W == INSTANCE WindowsProof
E == INSTANCE EvidenceProof
F == INSTANCE FixturesProof WITH Cases <- SmallCases, verdict <- told

windows  == <<plan, procs, backlog, ops, events, attempts, results, failures>>
evidence == <<study, cohort, raw, rows, collector, health, captures, logged,
              checked, verdict, counted, mishaps>>
fixtures == <<case, prep, peer, toPeer, toTool, conn, receipt, gate, code,
              tool, program, told, did, slow>>
studyVars == <<part, vars, windows, evidence, fixtures>>

StudyInit ==
  /\ part \in {"fleet", "windows", "evidence", "fixtures"}
  /\ Init /\ W!Init /\ E!Init /\ F!Init
  /\ part # "fleet" => fleet = One
  /\ part # "windows" => plan.kind = "single"
  /\ part # "evidence" => study = "campaign"
  /\ part # "fixtures" => case.peer = "netcat"

StudyNext ==
  \/ part = "fleet" /\ Next /\ UNCHANGED <<part, windows, evidence, fixtures>>
  \/ part = "windows" /\ W!Next /\ UNCHANGED <<part, vars, evidence, fixtures>>
  \/ part = "evidence" /\ E!Next /\ UNCHANGED <<part, vars, windows, fixtures>>
  \/ part = "fixtures" /\ F!Next /\ UNCHANGED <<part, vars, windows, evidence>>

\* The fairness of Fleet.FairSpec; the other parts need none.
StudySpec ==
  /\ StudyInit /\ [][StudyNext]_studyVars
  /\ WF_vars(part = "fleet" /\ FleetStep) /\ WF_vars(part = "fleet" /\ WatchStep)

(* Fleet.Settles, of the behaviours in which the fleet moves: every run of *)
(* the driver ends and the watcher concludes (orchestrate.py, watch.py).   *)
FleetSettles == part = "fleet" => Settles

(* WindowsCapture.ValidIsTrue: no valid row misses its program's own alert *)
(* or counts another's (windows/harness/analyze.py:60-102).                *)
ValidIsTrue == W!ValidIsTrue

(* Evidence.CountsAreWhole: what is counted comes from whole files         *)
(* (normalize.py:29-38, pilot/verify-evidence.py, pilot/analyze.py:100).   *)
CountsAreWhole == E!CountsAreWhole

(* Evidence.NoSecondChance: one row for a slot, and a later capture only   *)
(* where the first failed as a whole (pilot/analyze.py:166-200).           *)
NoSecondChance == E!NoSecondChance

(* Fixtures.VerdictIsTrue: success is told only of an operation that was   *)
(* carried out and received, failure of none that was in time              *)
(* (fixtures/services.py:11-32, fixtures/invoke.py).                       *)
VerdictIsTrue == F!VerdictIsTrue
=============================================================================
