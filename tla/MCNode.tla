------------------------------- MODULE MCNode -------------------------------
(* Instances of Node for TLC. *)
EXTENDS Node, TLC

Msg(n) == [id |-> n, data |-> CHOOSE p \in Payloads : TRUE]

\* One message, none at all, and one that is not valid.
PeerTxsOdd == {{Msg(1)}, {}, {[id |-> 2, data |-> Blank]}}

\* One message of its own kind.
PeerTxsOther == {{Msg(3)}}

\* The same id with either content.
PeerTxsConflict == {{[id |-> 1, data |-> p]} : p \in Payloads}

=============================================================================
