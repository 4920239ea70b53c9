----------------------------- MODULE MCWorkers -----------------------------
(* Instances of Workers for TLC. *)
EXTENDS Workers

CONSTANTS slow1, slow2, fast

\* The workers may all be busy with slow peers while a prompt one waits.
TwoSlow == {slow1, slow2, fast}

=============================================================================
