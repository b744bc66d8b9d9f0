----------------------------- MODULE MCSendPath -----------------------------
(* SendPath on a small instance: the buffers are their counts. *)
EXTENDS SendPath, TLC

MCBuffer == [count : 0..MaxBuffers, mapped : BOOLEAN]
=============================================================================
