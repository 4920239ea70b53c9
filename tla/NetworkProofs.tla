--------------------------- MODULE NetworkProofs ---------------------------
(***************************************************************************)
(* Any number of nodes, over a network that loses, repeats and delays what *)
(* is sent: each of them stays sound and behaves as a ledger, whatever the *)
(* others do, and no queue of outgoing messages overflows.                 *)
(***************************************************************************)
EXTENDS Network, BlocksProofs

-----------------------------------------------------------------------------
(* The queues *)

From(queue, n) == {j \in queue : j.from = n}

QueuesOK(queue) ==
  /\ queue \subseteq Job /\ IsFiniteSet(queue)
  /\ \A n \in Nodes : Cardinality(From(queue, n)) <= MaxJobs

\* A queue from which messages are taken does not overflow.
LEMMA SmallerQueue ==
  ASSUME NEW queue, QueuesOK(queue), NEW some \in SUBSET queue
  PROVE  QueuesOK(some)
<1>1. some \subseteq Job /\ IsFiniteSet(some)
  BY FS_Subset DEF QueuesOK
<1>2. ASSUME NEW n \in Nodes
      PROVE  Cardinality(From(some, n)) <= MaxJobs
  <2>1. From(some, n) \subseteq From(queue, n) /\ From(queue, n) \subseteq queue
    BY DEF From
  <2>2. IsFiniteSet(From(queue, n))
    BY <2>1, FS_Subset DEF QueuesOK
  <2>3. /\ Cardinality(From(some, n)) <= Cardinality(From(queue, n))
        /\ Cardinality(From(some, n)) \in Nat /\ Cardinality(From(queue, n)) \in Nat
    BY <2>1, <2>2, FS_Subset, FS_CardinalityType
  <2> QED  BY <2>3, NetworkAssumption DEF QueuesOK
<1> QED  BY <1>1, <1>2 DEF QueuesOK

\* broadcast drops what does not fit: it never fills a queue beyond its capacity.
LEMMA BroadcastFits ==
  ASSUME NEW queue, QueuesOK(queue), NEW n \in Nodes,
         NEW path \in {"/gossip", "/block"}, NEW body,
         path = "/gossip" => body \in RawTransaction,
         path = "/block" => body \in Block,
         NEW more \in broadcast(queue, n, path, body)
  PROVE  QueuesOK(more)
<1> DEFINE J(p) == [from |-> n, to |-> p, path |-> path, body |-> body]
<1>1. PICK ps \in SUBSET (Nodes \ {n}) :
        /\ Cardinality(ps) + Cardinality(From(queue, n)) <= MaxJobs
        /\ more = queue \cup {J(p) : p \in ps}
  BY DEF broadcast, From
<1> DEFINE new == {J(p) : p \in ps}
<1>2. IsFiniteSet(ps) /\ Cardinality(ps) \in Nat
  BY NetworkAssumption, FS_Subset, FS_CardinalityType
<1>3. IsFiniteSet(new) /\ Cardinality(new) <= Cardinality(ps) /\ Cardinality(new) \in Nat
  <2> DEFINE f == [p \in ps |-> J(p)]
  <2>1. f \in Surjection(ps, new)
    <3>1. f \in [ps -> new]
      OBVIOUS
    <3>2. \A y \in new : \E p \in ps : f[p] = y
      OBVIOUS
    <3> QED  BY <3>1, <3>2 DEF Surjection
  <2> QED  BY <1>2, <2>1, FS_Surjection, FS_CardinalityType
<1>4. new \subseteq Job /\ \A j \in new : j.from = n
  BY DEF Job
<1> HIDE DEF new
<1>5. more = queue \cup new
  BY <1>1 DEF new
<1>6. more \subseteq Job /\ IsFiniteSet(more)
  BY <1>3, <1>4, <1>5, FS_Union DEF QueuesOK
<1>7. ASSUME NEW m \in Nodes
      PROVE  Cardinality(From(more, m)) <= MaxJobs
  <2>1. CASE m = n
    <3>1. From(more, m) = From(queue, m) \cup new
      BY <1>4, <1>5, <2>1 DEF From
    <3>2. IsFiniteSet(From(queue, m)) /\ Cardinality(From(queue, m)) \in Nat
      BY FS_Subset, FS_CardinalityType DEF QueuesOK, From
    <3>3. Cardinality(From(more, m)) <= Cardinality(From(queue, m)) + Cardinality(new)
      <4>1. IsFiniteSet(From(queue, m) \cap new)
        BY <3>2, FS_Subset
      <4>2. /\ Cardinality(From(queue, m) \cup new)
                 = Cardinality(From(queue, m)) + Cardinality(new)
                     - Cardinality(From(queue, m) \cap new)
            /\ Cardinality(From(queue, m) \cap new) \in Nat
        BY <1>3, <3>2, <4>1, FS_Union, FS_CardinalityType
      <4> QED  BY <1>3, <3>1, <3>2, <4>2
    <3>4. Cardinality(From(more, m)) \in Nat
      BY <1>6, FS_Subset, FS_CardinalityType DEF From
    <3> QED  BY <1>1, <1>2, <1>3, <2>1, <3>2, <3>3, <3>4, NetworkAssumption
  <2>2. CASE m # n
    <3>1. From(more, m) = From(queue, m)
      BY <1>4, <1>5, <2>2 DEF From
    <3> QED  BY <3>1 DEF QueuesOK
  <2> QED  BY <2>1, <2>2
<1> QED  BY <1>6, <1>7 DEF QueuesOK

-----------------------------------------------------------------------------
(* One node *)

\* The operators the ledger is written with are those of the node.
LEMMA SameForEveryNode ==
  ASSUME NEW n \in Nodes
  PROVE  /\ LN(n)!CreateGenesisBlock = CreateGenesisBlock
         /\ LN(n)!Transaction = Transaction
         /\ \A c : LN(n)!Confirmed(c) = Confirmed(c) /\ LN(n)!TxsOf(c) = TxsOf(c)
         /\ \A txs : LN(n)!IDs(txs) = IDs(txs) /\ LN(n)!Cardinality(txs) = Cardinality(txs)
         /\ \A txs, ids : LN(n)!Remove(txs, ids) = Remove(txs, ids)
         /\ \A txs, tx : LN(n)!CanAdd(txs, tx) <=> CanAdd(txs, tx)
         /\ \A c, d : LN(n)!BetterChain(c, d) <=> BetterChain(c, d)
         /\ \A b, p : LN(n)!Follows(b, p) <=> Follows(b, p)
<1>1. LN(n)!CreateGenesisBlock = CreateGenesisBlock
  BY DEF LN!CreateGenesisBlock, CreateGenesisBlock, LN!GenesisHash, GenesisHash,
         LN!NoHash, NoHash, LN!GenesisTime, GenesisTime
<1>2. LN(n)!Transaction = Transaction
  BY DEF LN!Transaction, Transaction, LN!RawTransaction, RawTransaction,
         LN!ValidateTransaction, ValidateTransaction
<1>3. \A txs : LN(n)!IDs(txs) = IDs(txs) /\ LN(n)!Cardinality(txs) = Cardinality(txs)
  BY DEF LN!IDs, IDs, LN!Cardinality, Cardinality
<1>4. \A c : LN(n)!TxsOf(c) = TxsOf(c)
  BY DEF LN!TxsOf, TxsOf
<1>5. \A c : LN(n)!Confirmed(c) = Confirmed(c)
  BY <1>3, <1>4 DEF LN!Confirmed, Confirmed
<1>6. \A txs, ids : LN(n)!Remove(txs, ids) = Remove(txs, ids)
  BY DEF LN!Remove, Remove
<1>7. \A txs, tx : LN(n)!CanAdd(txs, tx) <=> CanAdd(txs, tx)
  BY <1>3 DEF LN!CanAdd, CanAdd, LN!ValidateTransaction, ValidateTransaction
<1>8. \A c, d : LN(n)!BetterChain(c, d) <=> BetterChain(c, d)
  BY DEF LN!BetterChain, BetterChain, LN!Tip, Tip
<1>9. \A b, p : LN(n)!Follows(b, p) <=> Follows(b, p)
  BY DEF LN!Follows, Follows
<1> QED  BY <1>1, <1>2, <1>3, <1>4, <1>5, <1>6, <1>7, <1>8, <1>9

\* What is pending and confirmed at a node moves as the ledger does.
Moves(n) == LN(n)!Next \/ UNCHANGED <<chain[n], pool[n]>>

\* A node whose chain and mempool stay is as sound as it was.
LEMMA StillSound ==
  ASSUME NEW n, NodeSound(n), UNCHANGED <<chain[n], pool[n]>>
  PROVE  NodeSound(n)' /\ Moves(n)
BY DEF NodeSound, Moves, BlocksOf, Now

\* A node that goes to a better valid chain, and keeps what that does not confirm,
\* is sound, and the ledger advances.
LEMMA Advances ==
  ASSUME NEW n \in Nodes, NodeSound(n), NEW c \in Seq(Block), NEW txs \in SUBSET Transaction,
         ValidateChain(c, BlocksOf(c), Now), BetterChain(c, chain[n]),
         txs = Remove(pool[n] \cup TxsOf(chain[n]), Confirmed(c)),
         UniqueIDs(txs), Cardinality(txs) <= MaxPending,
         chain'[n] = c, pool'[n] = txs
  PROVE  NodeSound(n)' /\ Moves(n)
<1>1. IDs(txs) \cap Confirmed(c) = {}
  BY DEF Remove, IDs
<1>2. NodeSound(n)'
  BY <1>1 DEF NodeSound, BlocksOf, Now
<1>3. chain[n] # <<>>
  BY DEF NodeSound, ValidateChain
<1>4. LN(n)!NoReplay(c)
  <2>1. \A i, j \in DOMAIN c : i # j => IDs(c[i].txs) \cap IDs(c[j].txs) = {}
    BY ValidChainShape
  <2>2. ASSUME NEW i \in DOMAIN c, NEW j \in DOMAIN c, i # j
        PROVE  LN(n)!IDs(c[i].txs) \cap LN(n)!IDs(c[j].txs) = {}
    <3>1. LN(n)!IDs(c[i].txs) = IDs(c[i].txs) /\ LN(n)!IDs(c[j].txs) = IDs(c[j].txs)
      BY SameForEveryNode
    <3> QED  BY <2>1, <2>2, <3>1
  <2> QED  BY <2>2 DEF LN!NoReplay
<1>5. /\ c[1] = LN(n)!CreateGenesisBlock
      /\ \A i \in 2 .. Len(c) : LN(n)!Follows(c[i], c[i-1])
  BY ValidChainShape, SameForEveryNode
<1>6. txs = LN(n)!Remove(pool[n] \cup LN(n)!TxsOf(chain[n]), LN(n)!Confirmed(c))
  BY SameForEveryNode
<1>7. LN(n)!BetterChain(c, chain[n]) /\ LN(n)!Cardinality(txs) <= MaxPending
  BY SameForEveryNode
<1>8. LN(n)!Advance
  BY <1>3, <1>4, <1>5, <1>6, <1>7 DEF LN!Advance
<1> QED  BY <1>2, <1>8 DEF Moves, LN!Next

\* A crash loses what was pending, and the chain stays on disk.
LEMMA Dies ==
  ASSUME NEW n \in Nodes, NodeSound(n), chain'[n] = chain[n], pool'[n] = {}
  PROVE  NodeSound(n)' /\ Moves(n)
<1>1. IDs({}) = {} /\ UniqueIDs({}) /\ Cardinality({}) <= MaxPending
  BY FS_EmptySet, MempoolAssumption DEF IDs, UniqueIDs
<1>2. NodeSound(n)'
  BY <1>1 DEF NodeSound, BlocksOf, Now
<1>3. LN(n)!Die
  BY DEF LN!Die
<1> QED  BY <1>2, <1>3 DEF Moves, LN!Next

-----------------------------------------------------------------------------
(* Messages *)

\* Wherever a message comes from, a node accepts it once, and only if there is room.
LEMMA SubmitSound ==
  ASSUME NetInv, NEW n \in Nodes, NEW tx \in RawTransaction, NEW queue,
         QueuesOK(queue), SubmitTransaction(n, tx, queue), UNCHANGED chain
  PROVE  /\ QueuesOK(jobs')
         /\ pool' \in [Nodes -> SUBSET Transaction]
         /\ \A m \in Nodes : NodeSound(m)' /\ Moves(m)
         /\ \A m \in Nodes \ {n} : pool'[m] = pool[m]
<1>0. /\ pool \in [Nodes -> SUBSET Transaction] /\ chain \in [Nodes -> Seq(Block)]
      /\ \A m \in Nodes : NodeSound(m)
  BY DEF NetInv, NetTypeOK
<1>1. CASE tx.id \notin Confirmed(chain[n]) /\ CanAdd(pool[n], tx)
  <2>1. /\ pool' = [pool EXCEPT ![n] = pool[n] \cup {tx}]
        /\ jobs' \in broadcast(queue, n, "/gossip", tx)
    BY <1>1 DEF SubmitTransaction
  <2>2. QueuesOK(jobs')
    BY <2>1, BroadcastFits
  <2>3. /\ pool[n] \cup {tx} \in SUBSET Transaction
        /\ UniqueIDs(pool[n] \cup {tx})
        /\ Cardinality(pool[n] \cup {tx}) <= MaxPending
    BY <1>0, <1>1, AddKeepsPool DEF NodeSound
  <2>4. pool' \in [Nodes -> SUBSET Transaction] /\ pool'[n] = pool[n] \cup {tx}
        /\ \A m \in Nodes \ {n} : pool'[m] = pool[m]
    BY <1>0, <2>1, <2>3
  <2>5. NodeSound(n)'
    <3>1. IDs(pool[n] \cup {tx}) = IDs(pool[n]) \cup {tx.id}
      BY DEF IDs
    <3> QED  BY <1>0, <1>1, <2>3, <2>4, <3>1 DEF NodeSound, BlocksOf, Now
  <2>6. Moves(n)
    <3>1. tx \in Transaction /\ chain[n] # <<>>
      BY <1>0, <1>1 DEF CanAdd, Transaction, NodeSound, ValidateChain
    <3>2. LN(n)!Accept(tx)
      BY <1>1, <2>4, <3>1, SameForEveryNode DEF LN!Accept
    <3> QED  BY <3>1, <3>2, SameForEveryNode DEF Moves, LN!Next
  <2> QED  BY <1>0, <2>2, <2>4, <2>5, <2>6, StillSound
<1>2. CASE ~ (tx.id \notin Confirmed(chain[n]) /\ CanAdd(pool[n], tx))
  <2>1. jobs' = queue /\ pool' = pool
    BY <1>2 DEF SubmitTransaction
  <2> QED  BY <1>0, <2>1, StillSound
<1> QED  BY <1>1, <1>2

-----------------------------------------------------------------------------
(* Blocks *)

\* Wherever a block comes from, a node that appends it has a valid, better chain.
LEMMA BlockSound ==
  ASSUME NetInv, NEW n \in Nodes, NEW b \in Block, NEW queue,
         QueuesOK(queue), HandleIncomingBlock(n, b, queue)
  PROVE  /\ QueuesOK(jobs')
         /\ chain' \in [Nodes -> Seq(Block)] /\ pool' \in [Nodes -> SUBSET Transaction]
         /\ \A m \in Nodes : NodeSound(m)' /\ Moves(m)
         /\ \A m \in Nodes : pool'[m] \subseteq pool[m]
<1>0. /\ pool \in [Nodes -> SUBSET Transaction] /\ chain \in [Nodes -> Seq(Block)]
      /\ \A m \in Nodes : NodeSound(m)
  BY DEF NetInv, NetTypeOK
<1>1. CASE /\ ValidateBlock(b, {b}, Now)
           /\ Follows(b, Tip(chain[n]))
           /\ IDs(b.txs) \cap Confirmed(chain[n]) = {}
  <2> DEFINE c == Append(chain[n], b)
             txs == Remove(pool[n], IDs(b.txs))
  <2>1. /\ chain' = [chain EXCEPT ![n] = c] /\ pool' = [pool EXCEPT ![n] = txs]
        /\ jobs' \in broadcast(queue, n, "/block", b)
    BY <1>1 DEF HandleIncomingBlock
  <2>2. QueuesOK(jobs')
    BY <2>1, BroadcastFits
  <2>3. /\ c \in Seq(Block) /\ Len(c) = Len(chain[n]) + 1 /\ Len(chain[n]) \in Nat
        /\ Confirmed(c) = Confirmed(chain[n]) \cup IDs(b.txs)
        /\ BlocksOf(c) = BlocksOf(chain[n]) \cup {b}
    <3>1. /\ DOMAIN c = 1 .. Len(chain[n]) + 1 /\ DOMAIN chain[n] = 1 .. Len(chain[n])
          /\ Len(chain[n]) \in Nat
          /\ \A i \in 1 .. Len(chain[n]) : c[i] = chain[n][i]
          /\ c[Len(chain[n]) + 1] = b
      BY <1>0, AppendChain
    <3>2. \A i : i \in 1 .. Len(chain[n]) + 1 <=> i \in 1 .. Len(chain[n]) \/ i = Len(chain[n]) + 1
      BY <3>1
    <3>3. c \in Seq(Block) /\ Len(c) = Len(chain[n]) + 1
          /\ Confirmed(c) = Confirmed(chain[n]) \cup IDs(b.txs)
      BY <1>0, AppendChain, AppendConfirmed
    <3> HIDE DEF c
    <3>4. \A x : x \in BlocksOf(c) <=> \E i \in 1 .. Len(chain[n]) + 1 : x = c[i]
      BY <3>1 DEF BlocksOf
    <3>5. \A x : x \in BlocksOf(chain[n]) <=> \E i \in 1 .. Len(chain[n]) : x = chain[n][i]
      BY <3>1 DEF BlocksOf
    <3> QED  BY <3>1, <3>2, <3>3, <3>4, <3>5
  <2>4. ValidateChain(c, BlocksOf(c), Now)
    <3>1. Now \in Nat /\ Now <= Now
      BY DEF Now, GenesisTime
    <3>2. ValidateChain(chain[n], BlocksOf(c), Now)
      BY <1>0, <2>3, <3>1, ValidStaysValid DEF NodeSound
    <3>3. ValidateBlock(b, BlocksOf(c), Now)
      BY <1>1, <2>3 DEF ValidateBlock
    <3> QED  BY <1>0, <1>1, <3>1, <3>2, <3>3, AppendValid
  <2>5. BetterChain(c, chain[n])
    BY <2>3 DEF BetterChain
  <2>6. txs \in SUBSET Transaction /\ UniqueIDs(txs) /\ Cardinality(txs) <= MaxPending
    <3>1. /\ txs \in SUBSET Transaction /\ UniqueIDs(txs)
          /\ Cardinality(txs) <= Cardinality(pool[n])
      BY <1>0, RemoveKeepsPool DEF NodeSound
    <3>2. Cardinality(txs) \in Nat /\ Cardinality(pool[n]) \in Nat
      BY <1>0, <3>1, FiniteTransactions DEF Transaction
    <3> QED  BY <1>0, <3>1, <3>2, MempoolAssumption DEF NodeSound
  <2>7. txs = Remove(pool[n] \cup TxsOf(chain[n]), Confirmed(c))
    <3>1. \A tx \in pool[n] : tx.id \notin Confirmed(chain[n])
      BY <1>0 DEF NodeSound, IDs
    <3>2. \A tx \in TxsOf(chain[n]) : tx.id \in Confirmed(chain[n])
      BY DEF Confirmed, IDs
    <3> QED  BY <2>3, <3>1, <3>2 DEF Remove
  <2>8. /\ \A m \in Nodes \ {n} : chain'[m] = chain[m] /\ pool'[m] = pool[m]
        /\ chain'[n] = c /\ pool'[n] = txs
        /\ chain' \in [Nodes -> Seq(Block)] /\ pool' \in [Nodes -> SUBSET Transaction]
    BY <1>0, <2>1, <2>3, <2>6
  <2>9. txs \subseteq pool[n]
    BY DEF Remove
  <2> HIDE DEF c, txs
  <2>10. NodeSound(n)' /\ Moves(n)
    BY <1>0, <2>3, <2>4, <2>5, <2>6, <2>7, <2>8, Advances
  <2> QED  BY <1>0, <2>2, <2>8, <2>9, <2>10, StillSound
<1>2. CASE ~ ( /\ ValidateBlock(b, {b}, Now)
               /\ Follows(b, Tip(chain[n]))
               /\ IDs(b.txs) \cap Confirmed(chain[n]) = {} )
  <2>1. jobs' = queue /\ pool' = pool /\ chain' = chain
    BY <1>2 DEF HandleIncomingBlock
  <2> QED  BY <1>0, <2>1, StillSound
<1> QED  BY <1>1, <1>2

\* What a node mines is a block.
LEMMA MinedBlock ==
  ASSUME NetInv, NEW n \in Nodes
  PROVE  [hash |-> HashOf(Tip(chain[n]).hash, FirstPending(pool[n])),
          prev |-> Tip(chain[n]).hash, index |-> Tip(chain[n]).index + 1,
          timestamp |-> Tip(chain[n]).timestamp, txs |-> FirstPending(pool[n])] \in Block
<1>1. chain[n] \in Seq(Block) /\ pool[n] \in SUBSET Transaction
  BY DEF NetInv, NetTypeOK
<1>2. Len(chain[n]) > 0
  BY <1>1, BlocksAssumption DEF NetInv, NodeSound, ValidateChain
<1>3. Tip(chain[n]) \in Block
  BY <1>1, <1>2, TipType
<1>4. FirstPending(pool[n]) \in SUBSET Transaction
  BY <1>1 DEF FirstPending
<1>5. Tip(chain[n]).hash \in Hashes \cup {GenesisHash, NoHash}
  BY <1>3 DEF Block
<1>6. HashOf(Tip(chain[n]).hash, FirstPending(pool[n])) \in Hashes
  BY <1>4, <1>5, NetworkAssumption
<1> QED  BY <1>3, <1>4, <1>6 DEF Block, Transaction

\* adopt: an answer that is valid and better than the chain the node has by now.
LEMMA AdoptSound ==
  ASSUME NetInv, NEW n \in Nodes, SyncAdopt(n)
  PROVE  /\ chain' \in [Nodes -> Seq(Block)] /\ pool' \in [Nodes -> SUBSET Transaction]
         /\ \A m \in Nodes : NodeSound(m)' /\ Moves(m)
         /\ \A m \in Nodes \ {n} : pool'[m] = pool[m]
<1>0. /\ pool \in [Nodes -> SUBSET Transaction] /\ chain \in [Nodes -> Seq(Block)]
      /\ offer[n] \in Seq(Block)
      /\ \A m \in Nodes : NodeSound(m)
  BY DEF NetInv, NetTypeOK
<1> DEFINE next == PrepareReorg(pool[n], chain[n], offer[n])
<1>1. CASE UNCHANGED <<chain, pool>>
  BY <1>0, <1>1, StillSound
<1>2. CASE /\ ValidateChain(offer[n], BlocksOf(offer[n]), Now)
           /\ BetterChain(offer[n], chain[n])
           /\ Cardinality(next) <= MaxPending
           /\ chain' = [chain EXCEPT ![n] = offer[n]]
           /\ pool' = [pool EXCEPT ![n] = next]
  <2>1. /\ IDs(pool[n]) \cap Confirmed(chain[n]) = {} /\ UniqueIDs(pool[n])
        /\ TxsOf(chain[n]) \subseteq Transaction /\ UniqueIDs(TxsOf(chain[n]))
    BY <1>0, ValidChainTxs, ValidChainUnique DEF NodeSound
  <2>2. /\ next = Remove(pool[n] \cup TxsOf(chain[n]), Confirmed(offer[n]))
        /\ next \in SUBSET Transaction /\ UniqueIDs(next)
    BY <1>0, <2>1, ReorgKeepsPool
  <2> HIDE DEF next
  <2>3. /\ \A m \in Nodes \ {n} : chain'[m] = chain[m] /\ pool'[m] = pool[m]
        /\ chain'[n] = offer[n] /\ pool'[n] = next
        /\ chain' \in [Nodes -> Seq(Block)] /\ pool' \in [Nodes -> SUBSET Transaction]
    BY <1>0, <1>2, <2>2
  <2>4. NodeSound(n)' /\ Moves(n)
    BY <1>0, <1>2, <2>2, <2>3, Advances
  <2> QED  BY <1>0, <2>3, <2>4, StillSound
<1> QED  BY <1>1, <1>2 DEF SyncAdopt, BlocksOf

-----------------------------------------------------------------------------
(* The network *)

LEMMA NetInit == Init => NetInv
<1> SUFFICES ASSUME Init PROVE NetInv
  OBVIOUS
<1> USE DEF Init
<1>1. Genesis \in Seq(Block) /\ <<>> \in Seq(Block) /\ Confirmed(Genesis) = {}
  BY GenesisChain DEF Genesis
<1>2. IsFiniteSet({}) /\ Cardinality({}) = 0
  BY FS_EmptySet
<1>3. \A n \in Nodes : Cardinality({j \in jobs : j.from = n}) <= MaxJobs
  <2>1. \A n \in Nodes : {j \in jobs : j.from = n} = {}
    OBVIOUS
  <2> QED  BY <1>2, <2>1, NetworkAssumption
<1>4. NetTypeOK
  BY <1>1, <1>3, NetworkAssumption DEF NetTypeOK
<1>5. ValidateChain(Genesis, BlocksOf(Genesis), Now)
  BY BlocksAssumption DEF Genesis, ValidateChain
<1>6. \A n \in Nodes : NodeSound(n)
  <2>1. IDs({}) = {} /\ UniqueIDs({}) /\ Cardinality({}) <= MaxPending
    BY <1>2, MempoolAssumption DEF IDs, UniqueIDs
  <2> QED  BY <1>1, <1>5, <2>1 DEF NodeSound
<1> QED  BY <1>2, <1>4, <1>6 DEF NetInv

\* What a worker leaves of the queue, or sends again, fits.
LEMMA DeliveryFits ==
  ASSUME NetInv
  PROVE  QueuesOK(jobs) /\ \A some \in SUBSET jobs : QueuesOK(some)
<1>1. QueuesOK(jobs)
  BY DEF NetInv, NetTypeOK, QueuesOK, From
<1> QED  BY <1>1, SmallerQueue

\* Every step of the network keeps every node sound and is, at every node, a step of
\* its ledger or none.
LEMMA NetStep == NetInv /\ [Next]_vars => NetInv' /\ \A n \in Nodes : Moves(n)
<1> SUFFICES ASSUME NetInv, [Next]_vars PROVE NetInv' /\ \A n \in Nodes : Moves(n)
  OBVIOUS
<1>0. /\ up \subseteq Nodes
      /\ chain \in [Nodes -> Seq(Block)] /\ pool \in [Nodes -> SUBSET Transaction]
      /\ offer \in [Nodes -> Seq(Block)] /\ jobs \subseteq Job
      /\ \A n \in Nodes \ up : pool[n] = {} /\ offer[n] = <<>>
      /\ crashes \in 0 .. MaxCrashes /\ MaxCrashes \in Nat
      /\ \A n \in Nodes : NodeSound(n)
      /\ <<>> \in Seq(Block)
  BY NetworkAssumption DEF NetInv, NetTypeOK
<1>a. ASSUME QueuesOK(jobs'),
             chain' \in [Nodes -> Seq(Block)], pool' \in [Nodes -> SUBSET Transaction],
             offer' \in [Nodes -> Seq(Block)],
             up' \subseteq Nodes, \A n \in Nodes \ up' : pool'[n] = {} /\ offer'[n] = <<>>,
             crashes' \in 0 .. MaxCrashes,
             \A n \in Nodes : NodeSound(n)' /\ Moves(n)
      PROVE  NetInv' /\ \A n \in Nodes : Moves(n)
  BY <1>a DEF NetInv, NetTypeOK, QueuesOK, From
<1>1. ASSUME NEW n \in Nodes, NEW tx \in RawTransaction, n \in up,
             NEW queue \in SUBSET jobs, SubmitTransaction(n, tx, queue),
             UNCHANGED <<up, chain, offer, crashes>>
      PROVE  NetInv' /\ \A m \in Nodes : Moves(m)
  BY <1>0, <1>1, <1>a, DeliveryFits, SubmitSound
<1>2. ASSUME NEW n \in Nodes, NEW b \in Block, n \in up,
             NEW queue \in SUBSET jobs, HandleIncomingBlock(n, b, queue),
             UNCHANGED <<up, offer, crashes>>
      PROVE  NetInv' /\ \A m \in Nodes : Moves(m)
  <2>1. /\ QueuesOK(jobs')
        /\ chain' \in [Nodes -> Seq(Block)] /\ pool' \in [Nodes -> SUBSET Transaction]
        /\ \A m \in Nodes : NodeSound(m)' /\ Moves(m)
        /\ \A m \in Nodes : pool'[m] \subseteq pool[m]
    BY <1>2, DeliveryFits, BlockSound
  <2>2. \A m \in Nodes \ up' : pool'[m] = {} /\ offer'[m] = <<>>
    BY <1>0, <1>2, <2>1
  <2> QED  BY <1>0, <1>2, <1>a, <2>1, <2>2
<1>3. ASSUME NEW c \in Clients, ClientSubmit(c[1], c[2])
      PROVE  NetInv' /\ \A m \in Nodes : Moves(m)
  <2>1. c[1] \in Nodes /\ c[2] \in RawTransaction
    BY NetworkAssumption
  <2> QED  BY <1>1, <1>3, <2>1 DEF ClientSubmit
<1>4. ASSUME NEW j \in jobs, GossipReceive(j)
      PROVE  NetInv' /\ \A m \in Nodes : Moves(m)
  <2>1. j.to \in Nodes /\ j.body \in RawTransaction
    BY <1>0, <1>4 DEF GossipReceive, Job
  <2>2. \A queue \in AfterDelivery(j) : queue \in SUBSET jobs
    BY DEF AfterDelivery
  <2> QED  BY <1>1, <1>4, <2>1, <2>2 DEF GossipReceive
<1>5. ASSUME NEW j \in jobs, ReceiveBlock(j)
      PROVE  NetInv' /\ \A m \in Nodes : Moves(m)
  <2>1. j.to \in Nodes /\ j.body \in Block
    BY <1>0, <1>5 DEF ReceiveBlock, Job
  <2>2. \A queue \in AfterDelivery(j) : queue \in SUBSET jobs
    BY DEF AfterDelivery
  <2> QED  BY <1>2, <1>5, <2>1, <2>2 DEF ReceiveBlock
<1>6. ASSUME NEW j \in jobs, Lose(j)
      PROVE  NetInv' /\ \A m \in Nodes : Moves(m)
  <2>1. QueuesOK(jobs') /\ UNCHANGED <<up, chain, pool, offer, crashes>>
    BY <1>6, DeliveryFits DEF Lose
  <2>2. \A m \in Nodes : NodeSound(m)' /\ Moves(m)
    BY <1>0, <2>1, StillSound
  <2> QED  BY <1>0, <1>a, <2>1, <2>2
<1>7. ASSUME NEW n \in Nodes, MineOnce(n)
      PROVE  NetInv' /\ \A m \in Nodes : Moves(m)
  <2> DEFINE b == [hash |-> HashOf(Tip(chain[n]).hash, FirstPending(pool[n])),
                   prev |-> Tip(chain[n]).hash, index |-> Tip(chain[n]).index + 1,
                   timestamp |-> Tip(chain[n]).timestamp, txs |-> FirstPending(pool[n])]
  <2>1. n \in up /\ HandleIncomingBlock(n, b, jobs) /\ UNCHANGED <<up, offer, crashes>>
    BY <1>7 DEF MineOnce
  <2>2. b \in Block
    BY MinedBlock
  <2> HIDE DEF b
  <2> QED  BY <1>2, <2>1, <2>2
<1>8. ASSUME NEW n \in Nodes, SyncAdopt(n)
      PROVE  NetInv' /\ \A m \in Nodes : Moves(m)
  <2>1. /\ n \in up /\ offer' = [offer EXCEPT ![n] = <<>>]
        /\ UNCHANGED <<up, jobs, crashes>>
    BY <1>8 DEF SyncAdopt
  <2>2. /\ chain' \in [Nodes -> Seq(Block)] /\ pool' \in [Nodes -> SUBSET Transaction]
        /\ \A m \in Nodes : NodeSound(m)' /\ Moves(m)
        /\ \A m \in Nodes \ {n} : pool'[m] = pool[m]
    BY <1>8, AdoptSound
  <2>3. QueuesOK(jobs')
    BY <2>1, DeliveryFits
  <2>4. /\ offer' \in [Nodes -> Seq(Block)]
        /\ \A m \in Nodes \ up' : pool'[m] = {} /\ offer'[m] = <<>>
    BY <1>0, <2>1, <2>2
  <2> QED  BY <1>0, <1>a, <2>1, <2>2, <2>3, <2>4
<1>9. ASSUME NEW n \in Nodes, Crash(n)
      PROVE  NetInv' /\ \A m \in Nodes : Moves(m)
  <2>1. /\ crashes' = crashes + 1 /\ crashes < MaxCrashes /\ up' = up \ {n}
        /\ pool' = [pool EXCEPT ![n] = {}] /\ offer' = [offer EXCEPT ![n] = <<>>]
        /\ jobs' \in SUBSET jobs /\ UNCHANGED chain
    BY <1>9 DEF Crash
  <2>2. \A m \in Nodes : NodeSound(m)' /\ Moves(m)
    BY <1>0, <2>1, StillSound, Dies
  <2>3. QueuesOK(jobs')
    BY <2>1, DeliveryFits
  <2>4. /\ pool' \in [Nodes -> SUBSET Transaction] /\ offer' \in [Nodes -> Seq(Block)]
        /\ \A m \in Nodes \ up' : pool'[m] = {} /\ offer'[m] = <<>>
    BY <1>0, <2>1
  <2>5. crashes' \in 0 .. MaxCrashes /\ up' \subseteq Nodes
    BY <1>0, <2>1
  <2> QED  BY <1>0, <1>a, <2>1, <2>2, <2>3, <2>4, <2>5
<1>10. ASSUME NEW n \in Nodes, Restart(n)
       PROVE  NetInv' /\ \A m \in Nodes : Moves(m)
  <2>1. up' = up \cup {n} /\ UNCHANGED <<chain, pool, jobs, offer, crashes>>
    BY <1>10 DEF Restart
  <2>2. \A m \in Nodes : NodeSound(m)' /\ Moves(m)
    BY <1>0, <2>1, StillSound
  <2> QED  BY <1>0, <1>a, <2>1, <2>2, DeliveryFits
<1>11. ASSUME NEW n \in Nodes, NEW m \in Nodes, SyncGetChain(n, m)
       PROVE  NetInv' /\ \A k \in Nodes : Moves(k)
  <2>1. n \in up /\ offer' = [offer EXCEPT ![n] = chain[m]]
        /\ UNCHANGED <<up, chain, pool, jobs, crashes>>
    BY <1>11 DEF SyncGetChain
  <2>2. \A k \in Nodes : NodeSound(k)' /\ Moves(k)
    BY <1>0, <2>1, StillSound
  <2>3. /\ offer' \in [Nodes -> Seq(Block)]
        /\ \A k \in Nodes \ up' : pool'[k] = {} /\ offer'[k] = <<>>
    BY <1>0, <2>1
  <2> QED  BY <1>0, <1>a, <2>1, <2>2, <2>3, DeliveryFits
<1>12. ASSUME NEW n \in Nodes, NEW m \in Nodes, NEW tx \in pool[m], SyncMempool(n, m, tx)
       PROVE  NetInv' /\ \A k \in Nodes : Moves(k)
  <2>1. tx \in RawTransaction
    BY <1>0 DEF Transaction
  <2> QED  BY <1>1, <1>12, <2>1 DEF SyncMempool
<1>13. CASE UNCHANGED vars
  <2>1. UNCHANGED <<up, chain, pool, jobs, offer, crashes>>
    BY <1>13 DEF vars
  <2>2. \A m \in Nodes : NodeSound(m)' /\ Moves(m)
    BY <1>0, <2>1, StillSound
  <2> QED  BY <1>0, <1>a, <2>1, <2>2, DeliveryFits
<1> QED  BY <1>3, <1>4, <1>5, <1>6, <1>7, <1>8, <1>9, <1>10, <1>11, <1>12, <1>13 DEF Next

-----------------------------------------------------------------------------
(* The theorems *)

\* For any number of nodes, messages, crashes and lost or repeated deliveries, every
\* node keeps a valid chain and a sound mempool, and no queue overflows.
THEOREM NodesStaySound == Spec => []NetInv
<1> QED  BY NetInit, NetStep, PTL DEF Spec

\* Whatever the other nodes and the network do, each node is a ledger: it only moves to
\* better chains and loses messages only by crashing.
THEOREM NodesAreLedgers == Spec => EveryNodeIsALedger
<1>1. NetInv /\ [Next]_vars =>
        [\A n \in Nodes : LN(n)!Next \/ UNCHANGED <<chain[n], pool[n]>>]_vars
  BY NetStep DEF Moves
<1> QED  BY <1>1, NodesStaySound, PTL DEF Spec, EveryNodeIsALedger

=============================================================================
