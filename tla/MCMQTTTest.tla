----------------------------- MODULE MCMQTTTest -----------------------------
(* A few rounds of the loop, with one library thread or with two.         *)
EXTENDS MQTTTest, TLC

CONSTANTS l1, l2

MCOne == {l1}
MCTwo == {l1, l2}

MCSymmetry == Permutations(MCTwo)
=============================================================================
