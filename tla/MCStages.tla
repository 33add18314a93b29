------------------------------- MODULE MCStages ------------------------------
(* Four batches that share keys, taken in every order of the workers.       *)
EXTENDS Stages

\* The key of an element is its last digit; those of 50 and above go to the
\* else-branch, which makes two of each.
Numbers == 1..99
LastDigit == [e \in Numbers |-> e % 10]
Twice == [e \in Numbers |-> <<e, e>>]
Low == 1..49
\* 49 has no key, 99 is poison, 48 is filtered out.
FourBatches == << <<11, 12, 49>>, <<21, 50>>, <<22, 99, 14>>, <<31, 41, 48, 24>> >>
=============================================================================
