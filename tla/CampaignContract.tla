-------------------------- MODULE CampaignContract --------------------------
(***************************************************************************)
(* What a campaign promises about each slot of its plan: it is tried at    *)
(* most MaxRetries + 1 times, it is accepted or given up at most once and  *)
(* only after a try, and once it is settled nothing more happens to it.    *)
(***************************************************************************)
EXTENDS Naturals

CONSTANTS Planned, MaxRetries

VARIABLES tries, taken, dropped

slotVars == <<tries, taken, dropped>>
Plan     == 1..Planned
Open(s)  == s \notin taken \cup dropped

ContractInit ==
  /\ tries = [s \in Plan |-> 0]
  /\ taken = {} /\ dropped = {}

Try(s) ==
  /\ Open(s) /\ tries[s] <= MaxRetries
  /\ tries' = [tries EXCEPT ![s] = @ + 1]
  /\ UNCHANGED <<taken, dropped>>

Take(s) ==
  /\ Open(s) /\ tries[s] > 0
  /\ taken' = taken \cup {s}
  /\ UNCHANGED <<tries, dropped>>

(* An interruption may give up several slots at once.                      *)
Drop(S) ==
  /\ \A s \in S : Open(s) /\ tries[s] > 0
  /\ dropped' = dropped \cup S
  /\ UNCHANGED <<tries, taken>>

ContractNext ==
  \/ \E s \in Plan : Try(s) \/ Take(s)
  \/ \E S \in SUBSET Plan : Drop(S)

ContractSpec == ContractInit /\ [][ContractNext]_slotVars
=============================================================================
