------------------------------- MODULE MCSends -------------------------------
(* Sends on a small instance: channels are model values, streams numbers.    *)
EXTENDS Sends
=============================================================================
