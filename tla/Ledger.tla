------------------------------- MODULE Ledger -------------------------------
(***************************************************************************)
(* What one node promises, as a single atomic object: a confirmed chain    *)
(* that is durable and only ever gets better, and pending messages that    *)
(* leave only by being confirmed or when the process dies.  Node.tla, with *)
(* its locks, its file and its crashes, implements this.                   *)
(***************************************************************************)
EXTENDS Mempool

VARIABLES
  confirmed,   \* the chain; <<>> until the node has first been started
  pending      \* the messages waiting for a block

Init == confirmed = <<>> /\ pending = {}

\* First start on an empty data directory.
Open ==
  /\ confirmed = <<>>
  /\ confirmed' = <<CreateGenesisBlock>>
  /\ UNCHANGED pending

\* A message is accepted: its id was unknown and there was room.
Accept(tx) ==
  /\ confirmed # <<>>
  /\ tx.id \notin Confirmed(confirmed)
  /\ CanAdd(pending, tx)
  /\ pending' = pending \cup {tx}
  /\ UNCHANGED confirmed

\* Every id occurs once in the chain.
NoReplay(chain) ==
  \A i, j \in DOMAIN chain :
    i # j => IDs(chain[i].txs) \cap IDs(chain[j].txs) = {}

\* The chain is replaced by a better one.  In the same instant the messages
\* it confirms stop pending and those it orphans become pending again; if
\* they do not all fit, the chain is not taken.
Advance ==
  /\ confirmed # <<>>
  /\ BetterChain(confirmed', confirmed)
  /\ confirmed'[1] = CreateGenesisBlock
  /\ \A i \in 2 .. Len(confirmed') : Follows(confirmed'[i], confirmed'[i-1])
  /\ NoReplay(confirmed')
  /\ pending' = Remove(pending \cup TxsOf(confirmed), Confirmed(confirmed'))
  /\ Cardinality(pending') <= MaxPending

\* The process dies: pending messages are only held in memory.
Die ==
  /\ pending' = {}
  /\ UNCHANGED confirmed

Next ==
  \/ Open
  \/ \E tx \in Transaction : Accept(tx)
  \/ Advance
  \/ Die

Spec == Init /\ [][Next]_<<confirmed, pending>>

=============================================================================
