------------------------------ MODULE Mempool ------------------------------
(***************************************************************************)
(* Package mempool: a bounded map from id to transaction, here the set of  *)
(* its values (no two with the same id).  The operators are the effects of *)
(* the methods on that set; the specifications that use them say when they *)
(* run.                                                                    *)
(***************************************************************************)
EXTENDS Blocks

CONSTANT MaxPending   \* mempool.MaxPending

ASSUME MempoolAssumption == MaxPending \in Nat \ {0}

\* Variant with a fault: one message too many.
CanAddOneMore(pool, tx) ==
  /\ ValidateTransaction(tx)
  /\ tx.id \notin IDs(pool)
  /\ Cardinality(pool) <= MaxPending

\* TryAdd accepts: the transaction is valid, its id is new, there is room.
CanAdd(pool, tx) ==
  /\ ValidateTransaction(tx)
  /\ tx.id \notin IDs(pool)
  /\ Cardinality(pool) < MaxPending

\* MiningWork cuts GetPending, which is sorted by id, to one block.
FirstPending(pool) ==
  {tx \in pool : Cardinality({s \in pool : s.id < tx.id}) < MaxBlockTransactions}

Remove(pool, ids) == {tx \in pool : tx.id \notin ids}

\* Variant with a fault: the orphans are forgotten.
PrepareReorgNoOrphans(pool, old, new) == Remove(pool, Confirmed(new))

\* What PrepareReorg returns: pending and orphaned transactions that the new
\* chain does not confirm.  For one id the orphan overwrites the pending one.
PrepareReorg(pool, old, new) ==
  LET orphans == Remove(TxsOf(old), Confirmed(new))
  IN  Remove(pool, Confirmed(new) \cup IDs(orphans)) \cup orphans

=============================================================================
