----------------------------- MODULE MCAssembler -----------------------------
(* Assembler on small instances: stamps that are exact, drift or jump. *)
EXTENDS Assembler

Wild == {-8, -4, -2, -1, 0, 1, 2, 4, 8}
=============================================================================
