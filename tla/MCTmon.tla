------------------------------- MODULE MCTmon -------------------------------
(* Small instances of TmonEngine: three ids, a ring of two records.        *)
EXTENDS TmonEngine, TLC

CONSTANTS t1, t2, t3

Plain     == [follow |-> TRUE, returns |-> TRUE, decode |-> TRUE, max |-> 0]
NoReturns == [Plain EXCEPT !.returns = FALSE]
NoFollow  == [Plain EXCEPT !.follow = FALSE]
NoDecode  == [Plain EXCEPT !.decode = FALSE]
Capped    == [Plain EXCEPT !.max = 1]

OnlyPlain  == {Plain}
TreeConfigs == {Plain, NoReturns}
AllConfigs == {Plain, NoReturns, NoFollow, NoDecode, Capped}

Symmetry == Permutations(Ids \ {Target})
=============================================================================
