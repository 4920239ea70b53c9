----------------------------- MODULE AtomicFile -----------------------------
(***************************************************************************)
(* What FileChainStorage promises of the chain file ("atomically persists  *)
(* confirmed blocks"): it always holds one whole version, a save replaces  *)
(* it by a later one in a single step, and a power loss may only take back *)
(* the saves made since the directory was last flushed.                    *)
(***************************************************************************)
EXTENDS Integers

CONSTANT Versions  \* what can be saved, a set of integers

Missing == -1      \* there is no file

VARIABLES
  file,  \* the version a reader finds
  kept   \* the versions a power loss may leave

vars == <<file, kept>>

Init == file = Missing /\ kept = {Missing}

Save(v) ==
  /\ v > file
  /\ file' = v
  /\ kept' = kept \cup {v}

Flush == kept' = {file} /\ UNCHANGED file

Lose(v) ==
  /\ file' = v
  /\ kept' = {v}

Next ==
  \/ \E v \in Versions : Save(v)
  \/ Flush
  \/ \E v \in kept : Lose(v)

Spec == Init /\ [][Next]_vars

=============================================================================
