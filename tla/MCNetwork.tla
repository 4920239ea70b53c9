----------------------------- MODULE MCNetwork -----------------------------
(* Instances of Network for TLC. *)
EXTENDS Network, FiniteSetsExt

CONSTANTS n1, n2

Msg(n) == [id |-> n, data |-> CHOOSE p \in Payloads : TRUE]

\* Four messages make at most four blocks.
MCHashes == 1 .. 16 ^ 4

\* Distinct headers get distinct hashes: a header is a parent and a set of ids
\* among 1 .. 4, and each block of the chain is a digit.  (What comes after four
\* blocks is never mined; it gets any hash.)
MCHashOf(prev, txs) ==
  LET h == 16 * prev + SumSet({2 ^ (tx.id - 1) : tx \in txs})
  IN  IF h \in MCHashes THEN h ELSE 1

\* Two messages, one of which reaches both nodes.
TwoMessages == {<<n1, Msg(1)>>, <<n2, Msg(1)>>, <<n2, Msg(2)>>}

\* Two messages for each node.
FourMessages == {<<n1, Msg(1)>>, <<n1, Msg(2)>>, <<n2, Msg(3)>>, <<n2, Msg(4)>>}

=============================================================================
