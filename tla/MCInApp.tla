------------------------------ MODULE MCInApp ------------------------------
(* Instance of InApp: rounds of two or three frames, channels that overflow *)
(* early, and one kind of sender started and restarted.                     *)
EXTENDS InApp
MCFramesIn == [b \in Bpis |-> b + 1]
OneKind ==
  \A t, u \in Tasks :
    task[t].at # "unused" /\ task[u].at # "unused" => task[t].kind = task[u].kind
============================================================================
