-------------------------------- MODULE MCVkd --------------------------------
(* Instance of Vkd for TLC. *)
EXTENDS Vkd

\* The four parts of 180 are the four numbers of two bits; 182 is its cousin, so
\* the genesis leaf is below the second node of the user's path.
Indices == [u \in {Genesis, User} |-> IF u = Genesis THEN 182 ELSE 180]

\* Up to seven updates; with four counters the last but one repeats a leaf.
MCSizes == {[logNum |-> 5, counterMod |-> 16], [logNum |-> 6, counterMod |-> 16],
            [logNum |-> 6, counterMod |-> 4]}
=============================================================================
