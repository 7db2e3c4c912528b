---------------------------- MODULE CaptureLedger ----------------------------
(***************************************************************************)
(* What tmon-linux promises about the tracepoints it hits, whatever the    *)
(* ring, the maps and the pump look like: each hit is captured, refused    *)
(* because there was no room, or not seen at all, once and for ever; what  *)
(* was captured may be reported once; refusals are counted; and after the  *)
(* books are closed nothing is reported any more.                          *)
(***************************************************************************)
EXTENDS Naturals, FiniteSets

VARIABLES
  hits,      \* number of tracepoints hit; the n-th hit is named n
  inFlight,  \* captured, not yet reported
  reported,
  refused,
  unseen,
  counter,   \* what the user is told about refusals
  closed

ledger == <<hits, inFlight, reported, refused, unseen, counter, closed>>

LedgerInit ==
  /\ hits = 0
  /\ inFlight = {} /\ reported = {} /\ refused = {} /\ unseen = {}
  /\ counter = 0
  /\ closed = FALSE

Capture ==
  /\ hits' = hits + 1
  /\ inFlight' = inFlight \cup {hits'}
  /\ UNCHANGED <<reported, refused, unseen, counter, closed>>

Refuse ==
  /\ hits' = hits + 1
  /\ refused' = refused \cup {hits'}
  /\ counter' = counter + 1
  /\ UNCHANGED <<inFlight, reported, unseen, closed>>

Miss ==
  /\ hits' = hits + 1
  /\ unseen' = unseen \cup {hits'}
  /\ UNCHANGED <<inFlight, reported, refused, counter, closed>>

Report ==
  /\ ~closed
  /\ reported # reported'
  /\ reported \subseteq reported'
  /\ inFlight' = inFlight \ reported'
  /\ reported' \ reported \subseteq inFlight
  /\ UNCHANGED <<hits, refused, unseen, counter, closed>>

Close ==
  /\ ~closed /\ closed' = TRUE
  /\ UNCHANGED <<hits, inFlight, reported, refused, unseen, counter>>

LedgerNext == Capture \/ Refuse \/ Miss \/ Report \/ Close

LedgerSpec == LedgerInit /\ [][LedgerNext]_ledger
=============================================================================
