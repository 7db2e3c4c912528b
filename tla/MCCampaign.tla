----------------------------- MODULE MCCampaign -----------------------------
(* Four slots, the first three of which may share a capture, one retry.     *)
EXTENDS Campaign

MCBatchKey == <<"a", "a", "a", "b">>
=============================================================================
