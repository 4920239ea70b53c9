----------------------------- MODULE MCStartup -----------------------------
(* An instance of Startup for TLC. *)
EXTENDS Startup

\* The lines "a", "a/", "b", the node's own URL, a comment and a bad line.
AFile == [a |-> "A", aSlash |-> "A", b |-> "B", me |-> "Me", note |-> "#", bad |-> "?"]

LineNames == DOMAIN AFile

=============================================================================
