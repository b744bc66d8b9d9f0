------------------------------ MODULE MCPlayout ------------------------------
(* Playout on a small instance: two streams for a short while, or one whose  *)
(* sender may restart and whose room may change its interval.                *)
EXTENDS Playout, TLC

CONSTANTS ShortSlot, ShortWall

Symmetry == Permutations(Stream)

Used == {s \in Stream : sent[s] > 0 \/ s \in published}

Bounded ==
  \/ /\ Cardinality(Used) <= 1
     /\ intent \in {None, Gone} \/ intent \subseteq Used
     /\ wall > ShortWall => restarts = 1 /\ changes = 0
  \/ /\ restarts = 0 /\ changes = 0 /\ wall <= ShortWall
     /\ \A s \in Stream : sent[s] <= ShortSlot + 1
=============================================================================
