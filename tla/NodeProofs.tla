----------------------------- MODULE NodeProofs -----------------------------
(***************************************************************************)
(* The safety properties of one node, for any number of handlers, any set  *)
(* of messages, any capacity and any chain length.                         *)
(*                                                                         *)
(* First, Inv (Node.tla) is an inductive invariant: there is one step per  *)
(* action and, under it, one per part of Inv that the action can disturb.  *)
(* Then, what others can rely on, whatever the goroutines, the disk and    *)
(* the crashes of a node do:                                               *)
(*   the durable chain and the messages waiting are an atomic object, the  *)
(*   ledger, and a commit takes effect at the rename;                      *)
(*   a block is broadcast once, and a block of the node's own is refused   *)
(*   only when another one came first;                                     *)
(*   a client is never told a thing that a later answer takes back.        *)
(***************************************************************************)
EXTENDS Api, BlocksProofs

USE DEF worldVars, memory, locals, history

\* Sealing adds to the world one chain of blocks, and no proof of work is lost.
LEMMA SealType ==
  ASSUME TypeOK, StorageInv, NEW c \in world, NEW txs \in SUBSET RawTransaction,
         NEW ts \in Nat, NEW d \in Seal(c, txs, ts), world' = world \cup {d}
  PROVE  /\ world' \subseteq Seq(Block) /\ \A e \in world' : e # <<>>
         /\ d \in Seq(Block) /\ Tip(d) \in Block
         /\ Tip(d) \in Sealed' /\ Sealed \subseteq Sealed'
<1>1. c \in Seq(Block) /\ c # <<>> /\ Tip(c) \in Block /\ Len(c) \in Nat
  BY TipType DEF TypeOK, StorageInv
<1>2. \A h \in Hashes :
        [hash |-> h, prev |-> Tip(c).hash, index |-> Len(c), timestamp |-> ts,
         txs |-> txs] \in Block
  BY <1>1 DEF Block
<1>3. d \in world \/ \E b \in Block : d = Append(c, b)
  BY <1>2 DEF Seal
<1>4. d \in Seq(Block) /\ d # <<>>
  BY <1>1, <1>3, AppendChain DEF TypeOK, StorageInv
<1>5. Tip(d) \in Block
  BY <1>4, TipType
<1>6. world' \subseteq Seq(Block) /\ \A e \in world' : e # <<>>
  BY <1>4 DEF TypeOK, StorageInv
<1>7. Tip(d) \in Sealed' /\ Sealed \subseteq Sealed'
  BY DEF Sealed
<1> QED  BY <1>4, <1>5, <1>6, <1>7

\* A new node has no file, no memory and no lock.
LEMMA InvInit == Init => Inv
<1> SUFFICES ASSUME Init PROVE Inv
  OBVIOUS
<1> USE DEF Init
<1>1. Genesis \in Seq(Block) /\ Genesis # <<>>
  BY GenesisChain DEF Genesis
<1>2. TypeOK
  <2>1. {} \subseteq Block /\ <<>> \in Seq(Block)
    OBVIOUS
  <2> QED  BY <1>1, <2>1 DEF TypeOK, GenesisTime
<1>3. LockInv
  BY NodeAssumption DEF LockInv, Threads
<1>4. StorageInv
  BY <1>1 DEF StorageInv
<1>5. HeldInv
  BY DEF HeldInv, Threads, Blockers
<1>6. PoolInv /\ FileReloads /\ WorkIsCurrent
  BY DEF PoolInv, FileReloads, WorkIsCurrent
<1> QED  BY <1>2, <1>3, <1>4, <1>5, <1>6 DEF Inv

\* Time and other nodes' blocks do not disturb the node.
LEMMA InvWorld == Inv /\ (PeerSeal \/ Tick) => Inv'
<1> SUFFICES ASSUME Inv, PeerSeal \/ Tick PROVE Inv'
  OBVIOUS
<1>1. /\ UNCHANGED <<up, file, chain, txIDs, pool, mu, phase, pc, blk, offer, reorg,
                     closed, syncNeeded, known, relayed>>
      /\ world' \subseteq Seq(Block) /\ \A c \in world' : c # <<>>
      /\ now' \in Nat /\ now <= now'
      /\ Sealed \subseteq Sealed'
  <2>1. CASE PeerSeal
    <3>1. PICK c \in world, txs \in PeerTxs, ts \in PeerTimes :
            \E d \in Seal(c, txs, ts) : world' = world \cup {d}
      BY <2>1 DEF PeerSeal
    <3>2. PICK d \in Seal(c, txs, ts) : world' = world \cup {d}
      BY <3>1
    <3>3. txs \in SUBSET RawTransaction /\ ts \in Nat
      BY NodeAssumption
    <3>4. /\ world' \subseteq Seq(Block) /\ \A e \in world' : e # <<>>
          /\ Sealed \subseteq Sealed'
      BY <3>2, <3>3, SealType DEF Inv
    <3> QED  BY <2>1, <3>4 DEF PeerSeal, Inv, TypeOK
  <2>2. CASE Tick
    BY <2>2 DEF Tick, Inv, TypeOK, StorageInv, Sealed
  <2> QED  BY <2>1, <2>2
<1>2. /\ \A b \in Block : ValidateBlock(b, Sealed, now) => ValidateBlock(b, Sealed', now')
      /\ \A c \in Seq(Block) : ValidateChain(c, Sealed, now) => ValidateChain(c, Sealed', now')
  BY <1>1, ValidStaysValid DEF Inv, TypeOK
<1>3. TypeOK' /\ LockInv' /\ StorageInv'
  BY <1>1 DEF Inv, TypeOK, LockInv, StorageInv
<1>4. HeldInv'
  BY <1>1, <1>2 DEF Inv, TypeOK, HeldInv
<1>5. FileReloads'
  BY <1>1, <1>2 DEF Inv, TypeOK, FileReloads
<1>6. PoolInv' /\ WorkIsCurrent'
  BY <1>1 DEF Inv, PoolInv, WorkIsCurrent, Pending
<1> QED  BY <1>3, <1>4, <1>5, <1>6 DEF Inv

\* A process starts from what is on disk and dies without a trace in memory.
LEMMA InvProcess == Inv /\ (Start \/ Crash) => Inv'
<1> SUFFICES ASSUME Inv, Start \/ Crash PROVE Inv'
  OBVIOUS
<1>0. Sealed' = Sealed
  BY DEF Start, Crash, Sealed
<1>1. CASE Start
  <2> USE <1>1 DEF Start
  <2>1. mu = Nobody /\ phase = "none" /\ pool = {} /\ \A t \in Threads : pc[t] = "idle"
    BY DEF Inv, LockInv
  <2>2. file' \in Seq(Block) /\ file' # <<>>
    <3>1. Genesis \in Seq(Block) /\ Genesis # <<>>
      BY GenesisChain DEF Genesis
    <3> QED  BY <3>1 DEF Inv, TypeOK
  <2>3. ValidateChain(file', Sealed, now)
    <3>1. ValidateChain(Genesis, Sealed, now)
      BY BlocksAssumption DEF Genesis, ValidateChain
    <3> QED  BY <3>1
  <2>4. TxsOf(file') \subseteq Transaction /\ Confirmed(file') \subseteq TxIDs
    BY <2>2, <2>3, ValidChainTxs, TxsOfType
  <2>5. TypeOK' /\ LockInv'
    BY <2>1, <2>2, <2>4 DEF Inv, TypeOK, LockInv
  <2>6. StorageInv' /\ HeldInv'
    BY <2>1, <2>2, NodeAssumption DEF Inv, StorageInv, HeldInv, Threads, Blockers
  <2>7. PoolInv'
    <3>1. Pending' = {}
      BY <2>1 DEF Pending
    <3>2. IDs({}) = {} /\ UniqueIDs({}) /\ Cardinality({}) <= MaxPending
      BY FS_EmptySet, MempoolAssumption DEF IDs, UniqueIDs
    <3> QED  BY <3>1, <3>2 DEF PoolInv, Confirmed
  <2>8. FileReloads' /\ WorkIsCurrent'
    BY <1>0, <2>1, <2>3 DEF FileReloads, WorkIsCurrent, Threads, Blockers
  <2> QED  BY <2>5, <2>6, <2>7, <2>8 DEF Inv
<1>2. CASE Crash
  <2> USE <1>2 DEF Crash, Fresh
  <2>1. TypeOK'
    <3>1. <<>> \in Seq(Block)
      OBVIOUS
    <3> QED  BY <3>1 DEF Inv, TypeOK
  <2>2. LockInv' /\ StorageInv' /\ HeldInv'
    BY NodeAssumption DEF Inv, LockInv, StorageInv, HeldInv, Threads, Blockers
  <2>3. PoolInv' /\ WorkIsCurrent' /\ FileReloads'
    BY <1>0 DEF Inv, PoolInv, WorkIsCurrent, FileReloads
  <2> QED  BY <2>1, <2>2, <2>3 DEF Inv
<1> QED  BY <1>1, <1>2

\* An accepted message was neither pending nor confirmed, and finds room.
LEMMA InvSubmit ==
  ASSUME Inv, NEW t \in Handlers \cup {Syncer}, NEW tx \in RawTransaction,
         SubmitTransaction(t, tx)
  PROVE  Inv'
<1> USE DEF SubmitTransaction
<1>1. phase = "none" /\ chain = file /\ txIDs = Confirmed(file) /\ Sealed' = Sealed
  BY DEF Inv, LockInv, StorageInv, Sealed
<1>2. pool \in SUBSET Transaction /\ UniqueIDs(pool)
  BY <1>1 DEF Inv, TypeOK, PoolInv, Pending
<1>3. /\ pool' \in SUBSET Transaction
      /\ UniqueIDs(pool')
      /\ Cardinality(pool') <= MaxPending
  BY <1>2, AddKeepsPool
<1>4. IDs(pool') = IDs(pool) \cup {tx.id} /\ IDs(known') = IDs(known) \cup {tx.id}
  BY DEF IDs
<1>5. TypeOK' /\ LockInv'
  BY <1>3 DEF Inv, TypeOK, LockInv, CanAdd, Transaction
<1>6. StorageInv' /\ HeldInv' /\ FileReloads'
  BY <1>1 DEF Inv, StorageInv, HeldInv, FileReloads
<1>7. PoolInv'
  BY <1>1, <1>3, <1>4 DEF Inv, PoolInv, Pending
<1>8. WorkIsCurrent'
  BY DEF Inv, WorkIsCurrent
<1> QED  BY <1>5, <1>6, <1>7, <1>8 DEF Inv

\* Steps that only move a thread: nothing that is shared changes.
LEMMA InvLocal ==
  ASSUME Inv,
         \/ \E t \in Handlers, b \in Sealed : ReceiveBlock(t, b)
         \/ \E t \in Blockers : AddBlockRefused(t) \/ AddBlockSaveFails(t)
         \/ SyncBegin \/ SyncChain \/ AdoptRefused \/ AdoptSaveFails \/ SyncNext
  PROVE  Inv'
<1> USE DEF Inv
<1>0. /\ Sealed' = Sealed
      /\ UNCHANGED <<world, now, up, file, chain, txIDs, pool, mu, phase, reorg,
                     closed, known, relayed>>
  BY DEF ReceiveBlock, AddBlockRefused, AddBlockSaveFails, SyncBegin, SyncChain,
         AdoptRefused, AdoptSaveFails, SyncNext, Sealed
<1>1. Syncer \in Threads /\ Syncer \notin Blockers /\ Miner \in Blockers
      /\ Handlers \subseteq Blockers /\ Blockers \subseteq Threads /\ Miner \notin Handlers
  BY NodeAssumption DEF Threads, Blockers
<1>2. ASSUME NEW t \in Handlers, NEW b \in Sealed, ReceiveBlock(t, b)
      PROVE  Inv'
  <2> USE <1>2 DEF ReceiveBlock
  <2>1. b \in Block
    BY TipType DEF Sealed, TypeOK, StorageInv
  <2>2. mu # t
    BY <1>1 DEF LockInv
  <2>3. TypeOK' /\ LockInv'
    BY <1>0, <1>1, <2>1, <2>2 DEF TypeOK, LockInv
  <2>4. StorageInv'
    BY <1>0, <1>1, <2>2 DEF StorageInv, TypeOK
  <2>5. HeldInv'
    BY <1>0, <1>1, <2>1, <2>2 DEF HeldInv, TypeOK
  <2>6. PoolInv'
    BY <1>0, <1>1, <2>2 DEF PoolInv, Pending, TypeOK, LockInv
  <2>7. FileReloads' /\ WorkIsCurrent'
    BY <1>0, <1>1 DEF FileReloads, WorkIsCurrent, TypeOK
  <2> QED  BY <2>3, <2>4, <2>5, <2>6, <2>7
<1>3. ASSUME NEW t \in Blockers, AddBlockRefused(t) \/ AddBlockSaveFails(t)
      PROVE  Inv'
  <2> USE <1>3 DEF AddBlockRefused, AddBlockSaveFails, Done
  <2>1. mu = Nobody /\ phase = "none" /\ pc[t] = "lock"
    BY DEF LockInv
  <2>2. TypeOK' /\ LockInv'
    BY <1>0, <1>1, <2>1, NodeAssumption DEF TypeOK, LockInv
  <2>3. StorageInv' /\ HeldInv'
    BY <1>0, <1>1, <2>1 DEF StorageInv, HeldInv, TypeOK
  <2>4. PoolInv' /\ FileReloads' /\ WorkIsCurrent'
    BY <1>0, <1>1, <2>1 DEF PoolInv, Pending, FileReloads, WorkIsCurrent, TypeOK
  <2> QED  BY <2>2, <2>3, <2>4
<1>4. ASSUME SyncBegin \/ SyncChain \/ AdoptRefused \/ AdoptSaveFails \/ SyncNext
      PROVE  Inv'
  <2> USE <1>4 DEF SyncBegin, SyncChain, AdoptRefused, AdoptSaveFails, SyncNext
  <2>1. /\ UNCHANGED blk
        /\ pc[Syncer] # "commit" /\ mu # Syncer
        /\ \E s \in {"idle", "fetch", "lock", "mempool"} :
             /\ pc' = [pc EXCEPT ![Syncer] = s]
             /\ s = "lock" => ValidateChain(offer', Sealed, now)
        /\ offer' \in Seq(Block) /\ syncNeeded' \in BOOLEAN
    <3>1. <<>> \in Seq(Block)
      OBVIOUS
    <3> QED  BY <1>1, <3>1 DEF TypeOK, LockInv
  <2>2. TypeOK' /\ LockInv'
    BY <1>0, <1>1, <2>1 DEF TypeOK, LockInv
  <2>3. StorageInv' /\ HeldInv'
    BY <1>0, <1>1, <2>1 DEF StorageInv, HeldInv, TypeOK
  <2>4. PoolInv' /\ FileReloads' /\ WorkIsCurrent'
    BY <1>0, <1>1, <2>1 DEF PoolInv, Pending, FileReloads, WorkIsCurrent, TypeOK
  <2> QED  BY <2>2, <2>3, <2>4
<1> QED  BY <1>2, <1>3, <1>4

\* The rename of AddBlock: the new file is valid, and with the new chain the pool
\* without the messages of the block is as good as the old pool was.
LEMMA InvAddBlockSave ==
  ASSUME Inv, NEW t \in Blockers, AddBlockSave(t)
  PROVE  Inv'
<1> USE DEF Inv, AddBlockSave
<1>0. /\ Sealed' = Sealed /\ phase = "none" /\ chain = file /\ chain # <<>>
      /\ txIDs = Confirmed(file) /\ Pending = pool
  BY DEF LockInv, StorageInv, Sealed, Pending
<1>1. /\ Syncer \in Threads /\ Syncer \notin Blockers /\ Miner \in Blockers
      /\ Blockers \subseteq Threads /\ t # Nobody /\ t # Syncer
  BY NodeAssumption DEF Threads, Blockers
<1>2. blk[t] \in Block /\ blk[t].txs \subseteq Transaction
  <2>1. blk[t] \in Block
    BY DEF HeldInv
  <2> QED  BY <2>1 DEF ValidateBlock, Block, Transaction
<1>3. /\ file' \in Seq(Block) /\ file' # <<>>
      /\ Confirmed(file') = Confirmed(file) \cup IDs(blk[t].txs)
  BY <1>0, <1>2, AppendChain, AppendConfirmed DEF TypeOK
<1>4. FileReloads'
  <2>1. Follows(blk[t], Tip(chain)) /\ IDs(blk[t].txs) \cap Confirmed(chain) = {}
    BY <1>0 DEF Appendable, Stale, Follows
  <2>2. ValidateChain(Append(chain, blk[t]), Sealed, now)
    BY <1>0, <1>2, <2>1, AppendValid DEF TypeOK, FileReloads
  <2> QED  BY <1>0, <2>2 DEF FileReloads
<1>5. TypeOK'
  BY <1>1, <1>2, <1>3 DEF TypeOK
<1>6. LockInv'
  <2>1. \A s \in Threads : pc[s] # "commit"
    BY NodeAssumption DEF LockInv
  <2>2. \A s \in Threads : pc'[s] = "commit" <=> s = t
    BY <1>1, <2>1 DEF TypeOK
  <2> QED  BY <1>1, <2>2 DEF LockInv
<1>7. StorageInv'
  BY <1>0, <1>1, <1>3 DEF StorageInv
<1>8. HeldInv'
  BY <1>0, <1>1 DEF HeldInv, TypeOK
<1>9. PoolInv'
  <2>1. Pending' = Remove(pool, IDs(blk[t].txs))
    BY <1>1 DEF Pending
  <2>2. pool \in SUBSET Transaction /\ Cardinality(pool) \in Nat
    BY FiniteTransactions DEF TypeOK, Transaction
  <2>3. /\ IDs(Pending') = IDs(pool) \ IDs(blk[t].txs)
        /\ UniqueIDs(pool) => UniqueIDs(Pending')
        /\ Cardinality(Pending') <= Cardinality(pool) /\ Cardinality(Pending') \in Nat
    <3>1. Pending' \in SUBSET RawTransaction
      BY <2>1, <2>2 DEF Remove, Transaction
    <3> QED  BY <2>1, <2>2, <3>1, RemoveKeepsPool, FiniteTransactions
  <2>4. IDs(known') = IDs(known) \cup IDs(blk[t].txs)
    BY DEF IDs
  <2>5. up /\ up' /\ PoolInv
    OBVIOUS
  <2>6. Cardinality(Pending') <= MaxPending
    BY <1>0, <2>2, <2>3, <2>5, MempoolAssumption DEF PoolInv
  <2>7. UniqueIDs(Pending')
    BY <1>0, <2>3, <2>5 DEF PoolInv
  <2>8. IDs(Pending') \cap Confirmed(file') = {}
    BY <1>0, <1>3, <2>3, <2>5 DEF PoolInv
  <2>9. IDs(known') \subseteq Confirmed(file') \cup IDs(Pending')
    BY <1>0, <1>3, <2>3, <2>4, <2>5 DEF PoolInv
  <2> QED  BY <2>6, <2>7, <2>8, <2>9 DEF PoolInv
<1>10. WorkIsCurrent'
  BY <1>1 DEF WorkIsCurrent
<1> QED  BY <1>4, <1>5, <1>6, <1>7, <1>8, <1>9, <1>10

\* The rename of adopt: the chain was validated, and PrepareReorg lost nothing.
LEMMA InvAdoptSave == Inv /\ AdoptSave => Inv'
<1> SUFFICES ASSUME Inv, AdoptSave PROVE Inv'
  OBVIOUS
<1> USE DEF Inv, AdoptSave
<1>0. /\ Sealed' = Sealed /\ phase = "none" /\ chain = file /\ chain # <<>>
      /\ txIDs = Confirmed(file) /\ Pending = pool
  BY DEF LockInv, StorageInv, Sealed, Pending
<1>1. /\ Syncer \in Threads /\ Syncer \notin Blockers /\ Miner \in Blockers
      /\ Blockers \subseteq Threads /\ Syncer # Nobody
  BY NodeAssumption DEF Threads, Blockers
<1>2. /\ offer \in Seq(Block) /\ offer # <<>>
      /\ TxsOf(offer) \subseteq Transaction
      /\ TxsOf(chain) \subseteq Transaction /\ UniqueIDs(TxsOf(chain))
  <2>1. ValidateChain(chain, Sealed, now)
    BY <1>0 DEF FileReloads
  <2>2. offer # <<>>
    BY DEF ValidateChain
  <2> QED  BY <2>1, <2>2, ValidChainTxs, ValidChainUnique DEF TypeOK
<1>3. /\ reorg' \in SUBSET Transaction
      /\ UniqueIDs(reorg')
      /\ IDs(reorg') = (IDs(pool) \cup Confirmed(chain)) \ Confirmed(offer)
  BY <1>0, <1>2, ReorgKeepsPool DEF TypeOK, PoolInv
<1>4. TypeOK'
  BY <1>1, <1>2, <1>3 DEF TypeOK
<1>5. LockInv'
  <2>1. \A s \in Threads : pc[s] # "commit"
    BY NodeAssumption DEF LockInv
  <2>2. \A s \in Threads : pc'[s] = "commit" <=> s = Syncer
    BY <1>1, <2>1 DEF TypeOK
  <2> QED  BY <1>1, <2>2 DEF LockInv
<1>6. StorageInv'
  BY <1>0, <1>1, <1>2 DEF StorageInv
<1>7. HeldInv' /\ FileReloads'
  BY <1>0, <1>1 DEF HeldInv, FileReloads, TypeOK
<1>8. PoolInv'
  <2>1. Pending' = reorg'
    BY DEF Pending
  <2>2. IDs(known') = IDs(known) \cup Confirmed(offer)
    BY DEF IDs, Confirmed
  <2>3. Cardinality(reorg') <= MaxPending
    BY DEF Adoptable
  <2> QED  BY <1>0, <1>3, <2>1, <2>2, <2>3 DEF PoolInv
<1>9. WorkIsCurrent'
  BY <1>1 DEF WorkIsCurrent
<1> QED  BY <1>4, <1>5, <1>6, <1>7, <1>8, <1>9

\* The other steps of a commit bring memory and mempool to where the file is.
LEMMA InvCommit ==
  ASSUME Inv,
         \/ \E t \in Blockers : AddBlockStore(t) \/ HandleIncomingBlockFinish(t)
         \/ ReplaceChainStore \/ AdoptFinish
  PROVE  Inv'
<1> USE DEF Inv
<1>0. Sealed' = Sealed
  BY DEF AddBlockStore, HandleIncomingBlockFinish, ReplaceChainStore, AdoptFinish, Sealed
<1>1. /\ Syncer \in Threads /\ Syncer \notin Blockers /\ Miner \in Blockers
      /\ Blockers \subseteq Threads /\ Nobody \notin Threads
  BY NodeAssumption DEF Threads, Blockers
<1>2. ASSUME NEW t \in Blockers, AddBlockStore(t)
      PROVE  Inv'
  <2> USE <1>2 DEF AddBlockStore
  <2>1. /\ blk[t] \in Block /\ file = Append(chain, blk[t])
        /\ chain \in Seq(Block) /\ txIDs = Confirmed(chain)
    BY <1>1 DEF LockInv, HeldInv, StorageInv, TypeOK
  <2>2. /\ chain' \in Seq(Block) /\ chain' # <<>>
        /\ txIDs' = Confirmed(chain') /\ txIDs' \subseteq TxIDs
    <3>1. chain' \in Seq(Block) /\ chain' # <<>> /\ txIDs' = Confirmed(chain')
      BY <2>1, AppendChain, AppendConfirmed
    <3> QED  BY <3>1, TxsOfType
  <2>3. TypeOK' /\ LockInv' /\ StorageInv'
    BY <1>1, <2>1, <2>2 DEF TypeOK, LockInv, StorageInv
  <2>4. HeldInv' /\ PoolInv' /\ FileReloads' /\ WorkIsCurrent'
    BY <1>0, <1>1 DEF HeldInv, PoolInv, Pending, FileReloads, WorkIsCurrent
  <2> QED  BY <2>3, <2>4
<1>3. ASSUME ReplaceChainStore
      PROVE  Inv'
  <2> USE <1>3 DEF ReplaceChainStore
  <2>1. file = offer /\ offer \in Seq(Block) /\ offer # <<>> /\ Confirmed(offer) \subseteq TxIDs
    BY TxsOfType DEF StorageInv, TypeOK
  <2>2. TypeOK' /\ LockInv' /\ StorageInv'
    BY <1>1, <2>1 DEF TypeOK, LockInv, StorageInv
  <2>3. HeldInv' /\ PoolInv' /\ FileReloads' /\ WorkIsCurrent'
    BY <1>0, <1>1 DEF HeldInv, PoolInv, Pending, FileReloads, WorkIsCurrent
  <2> QED  BY <2>2, <2>3
<1>4. ASSUME NEW t \in Blockers, HandleIncomingBlockFinish(t)
      PROVE  Inv'
  <2> USE <1>4 DEF HandleIncomingBlockFinish, Unlock, CloseChanged, Done
  <2>1. /\ blk[t] \in Block /\ pc[t] = "commit" /\ pool' = Pending /\ chain = file
        /\ t # Syncer /\ t # Nobody
    BY <1>1 DEF LockInv, HeldInv, Pending, StorageInv
  <2>2. pool' \subseteq Transaction
    BY DEF TypeOK, Remove
  <2>3. TypeOK'
    BY <1>1, <2>1, <2>2 DEF TypeOK
  <2>4. LockInv' /\ StorageInv'
    BY <1>1, <2>1 DEF TypeOK, LockInv, StorageInv
  <2>5. HeldInv' /\ FileReloads'
    BY <1>0, <1>1, <2>1 DEF HeldInv, FileReloads, TypeOK
  <2>6. PoolInv'
    BY <2>1 DEF PoolInv, Pending
  <2>7. WorkIsCurrent'
    BY <1>1, <2>1 DEF WorkIsCurrent, TypeOK
  <2> QED  BY <2>3, <2>4, <2>5, <2>6, <2>7
<1>5. ASSUME AdoptFinish
      PROVE  Inv'
  <2> USE <1>5 DEF AdoptFinish, Unlock, CloseChanged
  <2>1. pc[Syncer] = "commit" /\ pool' = Pending /\ chain = file /\ Syncer # Nobody
    BY <1>1 DEF LockInv, Pending, StorageInv
  <2>2. TypeOK'
    <3>1. <<>> \in Seq(Block)
      OBVIOUS
    <3> QED  BY <1>1, <3>1 DEF TypeOK
  <2>3. LockInv' /\ StorageInv'
    BY <1>1, <2>1 DEF TypeOK, LockInv, StorageInv
  <2>4. HeldInv' /\ FileReloads'
    BY <1>0, <1>1, <2>1 DEF HeldInv, FileReloads, TypeOK
  <2>5. PoolInv'
    BY <2>1 DEF PoolInv, Pending
  <2>6. WorkIsCurrent'
    BY <1>1, <2>1 DEF WorkIsCurrent, TypeOK
  <2> QED  BY <2>2, <2>3, <2>4, <2>5, <2>6
<1> QED  BY <1>2, <1>3, <1>4, <1>5

\* Mining: the work is taken from the current state, and a block that was found
\* is validated before it waits for mu.
LEMMA InvMining == Inv /\ (MiningWork \/ SolveFound \/ SolveCancelled) => Inv'
<1> SUFFICES ASSUME Inv, MiningWork \/ SolveFound \/ SolveCancelled PROVE Inv'
  OBVIOUS
<1> USE DEF Inv
<1>1. /\ Syncer \in Threads /\ Syncer \notin Blockers /\ Miner \in Blockers
      /\ Blockers \subseteq Threads /\ Nobody \notin Threads
  BY NodeAssumption DEF Threads, Blockers
<1>2. CASE MiningWork
  <2> USE <1>2 DEF MiningWork
  <2>0. Sealed' = Sealed /\ phase = "none" /\ chain \in Seq(Block) /\ chain # <<>>
    BY DEF LockInv, StorageInv, Sealed, TypeOK
  <2>1. Tip(chain) \in Block
    BY <2>0, TipType
  <2>2. FirstPending(pool) \subseteq pool /\ FirstPending(pool) \in SUBSET RawTransaction
    BY DEF FirstPending, TypeOK, Transaction
  <2>3. Larger(now, Tip(chain).timestamp) \in Nat
    BY <2>1 DEF Larger, TypeOK, Block
  <2> DEFINE b == [hash |-> NoHash, prev |-> Tip(chain).hash,
                   index |-> Tip(chain).index + 1,
                   timestamp |-> Larger(now, Tip(chain).timestamp),
                   txs |-> FirstPending(pool)]
  <2>4. b \in Block
    BY <2>1, <2>2, <2>3 DEF Block
  <2>5. b.prev = Tip(chain).hash /\ b.txs \subseteq pool
    BY <2>2
  <2>6. blk' = [blk EXCEPT ![Miner] = b]
    OBVIOUS
  <2> HIDE DEF b
  <2>7. TypeOK' /\ LockInv'
    BY <1>1, <2>4, <2>6 DEF TypeOK, LockInv
  <2>8. StorageInv' /\ HeldInv' /\ FileReloads'
    BY <1>1, <2>0, <2>4, <2>6 DEF StorageInv, HeldInv, FileReloads, TypeOK
  <2>9. PoolInv' /\ WorkIsCurrent'
    BY <1>1, <2>0, <2>5, <2>6 DEF PoolInv, Pending, WorkIsCurrent, TypeOK
  <2> QED  BY <2>7, <2>8, <2>9
<1>3. CASE SolveFound
  <2> USE <1>3 DEF SolveFound, Done
  <2>1. PICK c \in world : \E d \in Seal(c, blk[Miner].txs, blk[Miner].timestamp) :
          /\ world' = world \cup {d}
          /\ IF ValidateBlock(Tip(d), {Tip(d)}, now)
             THEN /\ pc' = [pc EXCEPT ![Miner] = "lock"]
                  /\ blk' = [blk EXCEPT ![Miner] = Tip(d)]
             ELSE Done(Miner)
    OBVIOUS
  <2>2. PICK d \in Seal(c, blk[Miner].txs, blk[Miner].timestamp) :
          /\ world' = world \cup {d}
          /\ IF ValidateBlock(Tip(d), {Tip(d)}, now)
             THEN /\ pc' = [pc EXCEPT ![Miner] = "lock"]
                  /\ blk' = [blk EXCEPT ![Miner] = Tip(d)]
             ELSE Done(Miner)
    BY <2>1
  <2>3. blk[Miner].txs \in SUBSET RawTransaction /\ blk[Miner].timestamp \in Nat
    BY DEF HeldInv, Block
  <2>4. /\ world' \subseteq Seq(Block) /\ \A e \in world' : e # <<>>
        /\ Tip(d) \in Block /\ Tip(d) \in Sealed' /\ Sealed \subseteq Sealed'
    BY <2>2, <2>3, SealType
  <2>5. /\ \A b \in Block : ValidateBlock(b, Sealed, now) => ValidateBlock(b, Sealed', now)
        /\ \A e \in Seq(Block) : ValidateChain(e, Sealed, now) => ValidateChain(e, Sealed', now)
    <3>1. now \in Nat /\ now <= now
      BY DEF TypeOK
    <3> HIDE <1>3 DEF SolveFound
    <3> QED  BY <2>4, <3>1, ValidStaysValid
  <2>6. ValidateBlock(Tip(d), {Tip(d)}, now) => ValidateBlock(Tip(d), Sealed', now)
    BY <2>4 DEF ValidateBlock
  <2>7. \E s \in {"idle", "lock"}, b \in Block \cup {NoBlock} :
          /\ pc' = [pc EXCEPT ![Miner] = s]
          /\ blk' = [blk EXCEPT ![Miner] = b]
          /\ s = "lock" => b \in Block /\ ValidateBlock(b, Sealed', now)
    BY <2>2, <2>4, <2>6
  <2>8. mu # Miner
    BY <1>1 DEF LockInv
  <2>9. TypeOK' /\ LockInv'
    <3>1. PICK s \in {"idle", "lock"}, b \in Block \cup {NoBlock} :
            pc' = [pc EXCEPT ![Miner] = s] /\ blk' = [blk EXCEPT ![Miner] = b]
      BY <2>7
    <3>2. /\ UNCHANGED <<now, up, file, chain, txIDs, pool, mu, phase, offer, reorg,
                         syncNeeded, known, relayed>>
          /\ closed' = FALSE /\ up
      OBVIOUS
    <3> HIDE <1>3 DEF SolveFound
    <3>3. TypeOK'
      BY <1>1, <2>4, <3>1, <3>2 DEF TypeOK
    <3>4. LockInv'
      BY <1>1, <2>8, <3>1, <3>2 DEF LockInv, TypeOK
    <3> QED  BY <3>3, <3>4
  <2>10. StorageInv' /\ PoolInv'
    BY <1>1, <2>4, <2>7, <2>8 DEF StorageInv, PoolInv, Pending, TypeOK, LockInv
  <2>11. HeldInv' /\ FileReloads'
    BY <1>1, <2>5, <2>7 DEF HeldInv, FileReloads, TypeOK
  <2>12. WorkIsCurrent'
    BY <1>1, <2>7 DEF WorkIsCurrent, TypeOK
  <2> QED  BY <2>9, <2>10, <2>11, <2>12
<1>4. CASE SolveCancelled
  <2> USE <1>4 DEF SolveCancelled, Done
  <2>1. Sealed' = Sealed /\ mu # Miner
    BY <1>1 DEF Sealed, LockInv
  <2>2. TypeOK' /\ LockInv'
    BY <1>1, <2>1 DEF TypeOK, LockInv
  <2>3. StorageInv' /\ HeldInv' /\ FileReloads'
    BY <1>1, <2>1 DEF StorageInv, HeldInv, FileReloads, TypeOK
  <2>4. PoolInv' /\ WorkIsCurrent'
    BY <1>1, <2>1 DEF PoolInv, Pending, WorkIsCurrent, TypeOK, LockInv
  <2> QED  BY <2>2, <2>3, <2>4
<1> QED  BY <1>2, <1>3, <1>4

-----------------------------------------------------------------------------
(* The theorems *)

\* Every step of the node preserves the invariant.
LEMMA InvNext == Inv /\ [Next]_vars => Inv'
<1> SUFFICES ASSUME Inv, [Next]_vars PROVE Inv'
  OBVIOUS
<1>1. CASE PeerSeal \/ Tick
  BY <1>1, InvWorld
<1>2. CASE Start \/ Crash
  BY <1>2, InvProcess
<1>3. CASE \E t \in Handlers \cup {Syncer}, tx \in RawTransaction : SubmitTransaction(t, tx)
  BY <1>3, InvSubmit
<1>4. CASE \/ \E t \in Handlers, b \in Sealed : ReceiveBlock(t, b)
           \/ \E t \in Blockers : AddBlockRefused(t) \/ AddBlockSaveFails(t)
           \/ SyncBegin \/ SyncChain \/ AdoptRefused \/ AdoptSaveFails \/ SyncNext
  BY <1>4, InvLocal
<1>5. CASE \E t \in Blockers : AddBlockSave(t)
  BY <1>5, InvAddBlockSave
<1>6. CASE AdoptSave
  BY <1>6, InvAdoptSave
<1>7. CASE \/ \E t \in Blockers : AddBlockStore(t) \/ HandleIncomingBlockFinish(t)
           \/ ReplaceChainStore \/ AdoptFinish
  BY <1>7, InvCommit
<1>8. CASE MiningWork \/ SolveFound \/ SolveCancelled
  BY <1>8, InvMining
<1>9. CASE UNCHANGED vars
  <2>1. Sealed' = Sealed
    BY <1>9 DEF vars, Sealed
  <2>2. TypeOK' /\ LockInv' /\ StorageInv' /\ HeldInv'
    BY <1>9, <2>1 DEF vars, Inv, TypeOK, LockInv, StorageInv, HeldInv
  <2>3. PoolInv' /\ FileReloads' /\ WorkIsCurrent'
    BY <1>9, <2>1 DEF vars, Inv, PoolInv, Pending, FileReloads, WorkIsCurrent
  <2> QED  BY <2>2, <2>3 DEF Inv
<1> QED  BY <1>1, <1>2, <1>3, <1>4, <1>5, <1>6, <1>7, <1>8, <1>9 DEF Next

\* The inductive invariant holds throughout: for any number of handlers, messages
\* and blocks, through every interleaving of appends, reorganisations, mining,
\* failed saves and crashes.
THEOREM NodeInvariant == Spec => []Inv
<1> QED  BY InvInit, InvNext, PTL DEF Spec

\* The variables of the node keep their types; in particular only validated
\* messages are ever pending.
THEOREM TypeCorrect == Spec => []TypeOK
<1>1. Inv => TypeOK
  BY DEF Inv
<1> QED  BY <1>1, NodeInvariant, PTL

\* A node can always be restarted from its file, wherever it was killed, if the clock is
\* not set back.
THEOREM AlwaysReloads == Spec => []FileReloads
<1>1. Inv => FileReloads
  BY DEF Inv
<1> QED  BY <1>1, NodeInvariant, PTL

\* Decisions under mu are taken on the durable chain and its exact index.
THEOREM MemoryIsFile == Spec => []MemoryMatchesFile
<1>1. Inv => MemoryMatchesFile
  BY DEF Inv, StorageInv, MemoryMatchesFile
<1> QED  BY <1>1, NodeInvariant, PTL

\* No id is pending and confirmed, or pending twice, and the mempool is bounded.
THEOREM PoolIsSound == Spec => []PendingUnconfirmed
<1>1. Inv => PendingUnconfirmed
  BY DEF Inv, LockInv, StorageInv, PoolInv, Pending, PendingUnconfirmed
<1> QED  BY <1>1, NodeInvariant, PTL

\* A lookup under mu never misses an id accepted or confirmed since the start.
THEOREM NothingLost == Spec => []NoSilentLoss
<1>1. Inv => NoSilentLoss
  BY DEF Inv, LockInv, StorageInv, PoolInv, Pending, NoSilentLoss
<1> QED  BY <1>1, NodeInvariant, PTL

\* A miner that was not told otherwise mines on the current tip.
THEOREM MinesOnTip == Spec => []WorkIsCurrent
<1>1. Inv => WorkIsCurrent
  BY DEF Inv
<1> QED  BY <1>1, NodeInvariant, PTL

-----------------------------------------------------------------------------
(* The node implements the ledger *)


\* The operators the abstract specification is written with are the node's.
LEMMA SameOperators ==
  /\ L!CreateGenesisBlock = CreateGenesisBlock
  /\ L!Transaction = Transaction
  /\ \A c : L!Confirmed(c) = Confirmed(c) /\ L!TxsOf(c) = TxsOf(c)
  /\ \A txs : L!IDs(txs) = IDs(txs) /\ L!Cardinality(txs) = Cardinality(txs)
  /\ \A txs, ids : L!Remove(txs, ids) = Remove(txs, ids)
  /\ \A txs, tx : L!CanAdd(txs, tx) <=> CanAdd(txs, tx)
  /\ \A c, d : L!BetterChain(c, d) <=> BetterChain(c, d)
  /\ \A b, p : L!Follows(b, p) <=> Follows(b, p)
<1>1. L!CreateGenesisBlock = CreateGenesisBlock
  BY DEF L!CreateGenesisBlock, CreateGenesisBlock, L!GenesisHash, GenesisHash,
         L!NoHash, NoHash, L!GenesisTime, GenesisTime
<1>2. L!Transaction = Transaction
  BY DEF L!Transaction, Transaction, L!RawTransaction, RawTransaction,
         L!ValidateTransaction, ValidateTransaction
<1>3. \A txs : L!IDs(txs) = IDs(txs)
  BY DEF L!IDs, IDs
<1>0. \A S : L!Cardinality(S) = Cardinality(S)
  BY DEF L!Cardinality, Cardinality
<1>4. \A c : L!TxsOf(c) = TxsOf(c)
  BY DEF L!TxsOf, TxsOf
<1>5. \A c : L!Confirmed(c) = Confirmed(c)
  BY <1>3, <1>4 DEF L!Confirmed, Confirmed
<1>6. \A txs, ids : L!Remove(txs, ids) = Remove(txs, ids)
  BY DEF L!Remove, Remove
<1>7. \A txs, tx : L!CanAdd(txs, tx) <=> CanAdd(txs, tx)
  BY <1>0, <1>3 DEF L!CanAdd, CanAdd, L!ValidateTransaction, ValidateTransaction
<1>8. \A c, d : L!BetterChain(c, d) <=> BetterChain(c, d)
  BY DEF L!BetterChain, BetterChain, L!Tip, Tip
<1>9. \A b, p : L!Follows(b, p) <=> Follows(b, p)
  BY DEF L!Follows, Follows
<1> QED  BY <1>0, <1>1, <1>2, <1>3, <1>4, <1>5, <1>6, <1>7, <1>8, <1>9

\* A commit's rename is one step of the ledger to a better valid chain.
LEMMA AdvanceStep ==
  ASSUME Inv, Inv', file # <<>>, file' # <<>>, BetterChain(file', file),
         Pending' = Remove(Pending \cup TxsOf(file), Confirmed(file')),
         Cardinality(Pending') <= MaxPending
  PROVE  L!Advance
<1>1. file' \in Seq(Block) /\ ValidateChain(file', Sealed', now')
  BY DEF Inv, TypeOK, FileReloads
<1>2. L!NoReplay(file')
  BY <1>1, ValidChainShape, SameOperators DEF L!NoReplay
<1>3. /\ file'[1] = L!CreateGenesisBlock
      /\ \A i \in 2 .. Len(file') : L!Follows(file'[i], file'[i-1])
  BY <1>1, ValidChainShape, SameOperators
<1>4. Pending' = L!Remove(Pending \cup L!TxsOf(file), L!Confirmed(file'))
  BY SameOperators
<1> QED  BY <1>2, <1>3, <1>4, SameOperators DEF L!Advance

\* AddBlock appends a block to the durable chain: the chain is better, and the
\* messages of the block are the only ones that stop pending.
LEMMA AddBlockAdvances ==
  ASSUME Inv, Inv', NEW t \in Blockers, AddBlockSave(t)
  PROVE  BetterChain(file', file) /\ L!Advance
<1> USE DEF AddBlockSave
<1>0. /\ phase = "none" /\ chain = file /\ file # <<>> /\ file \in Seq(Block)
      /\ txIDs = Confirmed(file) /\ Pending = pool /\ pool \in SUBSET Transaction
      /\ IDs(pool) \cap Confirmed(file) = {}
  BY DEF Inv, LockInv, StorageInv, PoolInv, Pending, TypeOK
<1>1. blk[t] \in Block /\ t # Syncer
  BY NodeAssumption DEF Inv, HeldInv, Blockers
<1>2. /\ Len(file') = Len(file) + 1 /\ file' # <<>>
      /\ Confirmed(file') = Confirmed(file) \cup IDs(blk[t].txs)
  BY <1>0, <1>1, AppendChain, AppendConfirmed
<1>3. BetterChain(file', file)
  BY <1>0, <1>2, TipType DEF BetterChain
<1>4. Pending' = Remove(pool, IDs(blk[t].txs))
  BY <1>1 DEF Pending
<1>5. Remove(pool, IDs(blk[t].txs)) = Remove(pool \cup TxsOf(file), Confirmed(file'))
  <2>1. \A tx \in pool : tx.id \notin Confirmed(file)
    BY <1>0 DEF IDs
  <2>2. \A tx \in TxsOf(file) : tx.id \in Confirmed(file)
    BY DEF Confirmed, IDs
  <2> QED  BY <1>2, <2>1, <2>2 DEF Remove
<1>6. Cardinality(Pending') <= MaxPending
  BY DEF Inv, PoolInv
<1> QED  BY <1>0, <1>2, <1>3, <1>4, <1>5, <1>6, AdvanceStep

\* adopt replaces the durable chain by a better one, and returns the messages of
\* the old chain that the new one does not confirm.
LEMMA AdoptAdvances ==
  ASSUME Inv, Inv', AdoptSave
  PROVE  BetterChain(file', file) /\ L!Advance
<1> USE DEF AdoptSave
<1>0. /\ phase = "none" /\ chain = file /\ file # <<>> /\ file \in Seq(Block)
      /\ Pending = pool /\ pool \in SUBSET Transaction /\ UniqueIDs(pool)
      /\ IDs(pool) \cap Confirmed(file) = {}
      /\ ValidateChain(file, Sealed, now) /\ offer \in Seq(Block)
  BY DEF Inv, LockInv, StorageInv, PoolInv, Pending, TypeOK, FileReloads
<1>1. BetterChain(file', file) /\ file' # <<>>
  BY <1>0 DEF Adoptable, ValidateChain
<1>2. TxsOf(file) \subseteq Transaction /\ UniqueIDs(TxsOf(file))
  BY <1>0, ValidChainTxs, ValidChainUnique
<1>3. Pending' = PrepareReorg(pool, file, offer)
  BY <1>0 DEF Pending
<1>4. Pending' = Remove(pool \cup TxsOf(file), Confirmed(file'))
  BY <1>0, <1>2, <1>3, ReorgKeepsPool
<1>5. Cardinality(Pending') <= MaxPending
  BY DEF Inv, PoolInv
<1> QED  BY <1>0, <1>1, <1>4, <1>5, AdvanceStep

\* The steps in which the ledger does not move: whatever a thread does before the
\* rename or after it.
LEMMA QuietSteps ==
  ASSUME Inv,
         \/ PeerSeal \/ Tick
         \/ \E t \in Handlers, b \in Sealed : ReceiveBlock(t, b)
         \/ \E t \in Blockers :
              \/ AddBlockRefused(t) \/ AddBlockSaveFails(t)
              \/ AddBlockStore(t) \/ HandleIncomingBlockFinish(t)
         \/ SyncBegin \/ SyncChain \/ AdoptRefused \/ AdoptSaveFails \/ SyncNext
         \/ ReplaceChainStore \/ AdoptFinish
         \/ MiningWork \/ SolveFound \/ SolveCancelled
         \/ UNCHANGED vars
  PROVE  file' = file /\ Pending' = Pending
<1> USE DEF Inv
<1>0. /\ Syncer \notin Blockers /\ Miner \in Blockers /\ Handlers \subseteq Blockers
      /\ Blockers \subseteq Threads /\ Nobody \notin Threads
  BY NodeAssumption DEF Threads, Blockers
<1>1. CASE PeerSeal \/ Tick \/ SyncBegin \/ SyncChain \/ AdoptRefused
           \/ AdoptSaveFails \/ SyncNext \/ UNCHANGED vars
  BY <1>1 DEF PeerSeal, Tick, SyncBegin, SyncChain, AdoptRefused, AdoptSaveFails,
              SyncNext, vars, Pending
<1>2. ASSUME NEW t \in Handlers, NEW b \in Sealed, ReceiveBlock(t, b)
      PROVE  file' = file /\ Pending' = Pending
  BY <1>0, <1>2 DEF ReceiveBlock, Pending, LockInv, TypeOK
<1>3. ASSUME NEW t \in Blockers, AddBlockRefused(t) \/ AddBlockSaveFails(t)
      PROVE  file' = file /\ Pending' = Pending
  BY <1>3 DEF AddBlockRefused, AddBlockSaveFails, Pending, LockInv
<1>4. ASSUME NEW t \in Blockers, AddBlockStore(t)
      PROVE  file' = file /\ Pending' = Pending
  BY <1>4 DEF AddBlockStore, Pending
<1>5. ASSUME NEW t \in Blockers, HandleIncomingBlockFinish(t)
      PROVE  file' = file /\ Pending' = Pending
  BY <1>0, <1>5 DEF HandleIncomingBlockFinish, Unlock, Pending
<1>6. CASE ReplaceChainStore \/ AdoptFinish
  BY <1>6 DEF ReplaceChainStore, AdoptFinish, Unlock, Pending
<1>7. CASE MiningWork \/ SolveFound \/ SolveCancelled
  <2>1. /\ UNCHANGED <<file, pool, mu, phase, reorg>>
        /\ mu # Miner
        /\ \A t \in Blockers \ {Miner} : blk'[t] = blk[t]
    BY <1>0, <1>7 DEF MiningWork, SolveFound, SolveCancelled, Done, LockInv, TypeOK
  <2> QED  BY <1>0, <2>1 DEF Pending, LockInv, TypeOK, Threads
<1> QED  BY <1>1, <1>2, <1>3, <1>4, <1>5, <1>6, <1>7

\* Every step of the node is a step of the ledger or invisible to it.
LEMMA LedgerStep == Inv /\ Inv' /\ [Next]_vars => [L!Next]_<<file, Pending>>
<1> SUFFICES ASSUME Inv, Inv', [Next]_vars PROVE [L!Next]_<<file, Pending>>
  OBVIOUS
<1>1. CASE Start
  <2>1. phase = "none" /\ pool = {}
    BY <1>1 DEF Start, Inv, LockInv
  <2>2. UNCHANGED Pending
    BY <1>1, <2>1 DEF Start, Pending
  <2> QED  BY <1>1, <2>2, SameOperators DEF Start, Genesis, L!Next, L!Open
<1>2. CASE Crash
  BY <1>2 DEF Crash, Fresh, Pending, L!Next, L!Die
<1>3. CASE \E t \in Handlers \cup {Syncer}, tx \in RawTransaction : SubmitTransaction(t, tx)
  <2>1. PICK t \in Handlers \cup {Syncer}, tx \in RawTransaction : SubmitTransaction(t, tx)
    BY <1>3
  <2>2. /\ phase = "none" /\ phase' = "none" /\ file # <<>> /\ txIDs = Confirmed(file)
    BY <2>1 DEF SubmitTransaction, Inv, LockInv, StorageInv
  <2>3. Pending = pool /\ Pending' = pool'
    BY <2>2 DEF Pending
  <2>4. tx \in Transaction
    BY <2>1 DEF SubmitTransaction, CanAdd, Transaction
  <2>5. L!Accept(tx)
    BY <2>1, <2>2, <2>3, SameOperators DEF SubmitTransaction, L!Accept
  <2> QED  BY <2>4, <2>5, SameOperators DEF L!Next
<1>4. CASE \E t \in Blockers : AddBlockSave(t)
  BY <1>4, AddBlockAdvances DEF L!Next
<1>5. CASE AdoptSave
  BY <1>5, AdoptAdvances DEF L!Next
<1>6. CASE \/ PeerSeal \/ Tick
           \/ \E t \in Handlers, b \in Sealed : ReceiveBlock(t, b)
           \/ \E t \in Blockers :
                \/ AddBlockRefused(t) \/ AddBlockSaveFails(t)
                \/ AddBlockStore(t) \/ HandleIncomingBlockFinish(t)
           \/ SyncBegin \/ SyncChain \/ AdoptRefused \/ AdoptSaveFails \/ SyncNext
           \/ ReplaceChainStore \/ AdoptFinish
           \/ MiningWork \/ SolveFound \/ SolveCancelled
           \/ UNCHANGED vars
  BY <1>6, QuietSteps
<1> QED  BY <1>1, <1>2, <1>3, <1>4, <1>5, <1>6 DEF Next

\* The durable chain is only ever replaced by a better one.
LEMMA FileStep ==
  ASSUME Inv, Inv', [Next]_vars, file # <<>>, file' # file
  PROVE  BetterChain(file', file)
<1>1. CASE \E t \in Blockers : AddBlockSave(t)
  BY <1>1, AddBlockAdvances
<1>2. CASE AdoptSave
  BY <1>2, AdoptAdvances
<1>3. CASE Start \/ Crash \/ \E t \in Handlers \cup {Syncer}, tx \in RawTransaction :
                                SubmitTransaction(t, tx)
  BY <1>3 DEF Start, Crash, SubmitTransaction
<1> QED  BY <1>1, <1>2, <1>3, QuietSteps DEF Next

\* The node implements the ledger.
THEOREM NodeImplementsLedger == Spec => ImplementsLedger
<1>1. Init => L!Init
  BY DEF Init, L!Init, Pending
<1> QED  BY <1>1, LedgerStep, NodeInvariant, PTL DEF Spec, ImplementsLedger, L!Spec

\* No delayed answer of a peer, no restart and no failed save takes a node back.
THEOREM NoRollback == Spec => FileProgress
<1>1. Inv /\ Inv' /\ [Next]_vars =>
        [file # <<>> /\ file' # file => BetterChain(file', file)]_vars
  BY FileStep
<1> QED  BY <1>1, NodeInvariant, PTL DEF Spec, FileProgress

-----------------------------------------------------------------------------
(* The world of sealed blocks *)

\* Proof of work on a chain gives a chain: the same header the same one, a new
\* header one with a hash nobody has seen.
LEMMA SealGrowsTree ==
  ASSUME TypeOK, StorageInv, WorldInv, NEW c \in world,
         NEW txs \in SUBSET RawTransaction, NEW ts \in Nat, NEW d \in Seal(c, txs, ts),
         world' = world \cup {d}
  PROVE  /\ WorldInv'
         /\ Tip(d).prev = Tip(c).hash /\ Tip(d).timestamp = ts /\ Tip(d).txs = txs
<1> DEFINE With(h) == [hash |-> h, prev |-> Tip(c).hash, index |-> Len(c),
                       timestamp |-> ts, txs |-> txs]
<1>1. CASE d \in world /\ With(Tip(d).hash) = Tip(d)
  <2>1. world' = world
    BY <1>1
  <2>2. WorldInv'
    BY <2>1 DEF WorldInv
  <2> QED  BY <1>1, <2>2
<1>2. ASSUME NEW h \in Hashes, h \notin {Tip(e).hash : e \in world}, d = Append(c, With(h))
      PROVE  /\ WorldInv'
             /\ Tip(d).prev = Tip(c).hash /\ Tip(d).timestamp = ts /\ Tip(d).txs = txs
  <2>1. c \in Seq(Block) /\ With(h) \in Block
    <3>1. c \in Seq(Block) /\ Len(c) \in Nat /\ Tip(c).hash \in Hashes \cup {GenesisHash, NoHash}
      BY TipType DEF TypeOK, StorageInv, Block
    <3> QED  BY <3>1 DEF Block
  <2>2. Tip(d) = With(h)
    BY <1>2, <2>1, AppendChain
  <2>3. \A e \in world : Tip(e).hash # Tip(d).hash
    BY <1>2, <2>2
  <2>4. \A e, f \in world' : Tip(e).hash = Tip(f).hash => e = f
    BY <2>3 DEF WorldInv
  <2>5. d = Append(c, Tip(d)) /\ Tip(d).prev = Tip(c).hash
    BY <1>2, <2>2
  <2> HIDE DEF With
  <2>6. WorldInv'
    BY <2>4, <2>5 DEF WorldInv
  <2> QED  BY <2>2, <2>6 DEF With
<1>3. \/ d \in world /\ With(Tip(d).hash) = Tip(d)
      \/ \E h \in Hashes \ {Tip(e).hash : e \in world} : d = Append(c, With(h))
  BY DEF Seal
<1> QED  BY <1>1, <1>2, <1>3

\* Every step leaves the world a tree that only grows.
LEMMA WorldNext ==
  ASSUME Inv, WorldInv, [Next]_vars
  PROVE  WorldInv' /\ world \subseteq world'
<1>1. CASE PeerSeal
  <2>1. PICK c \in world, txs \in PeerTxs, ts \in PeerTimes :
          \E d \in Seal(c, txs, ts) : world' = world \cup {d}
    BY <1>1 DEF PeerSeal
  <2>2. txs \in SUBSET RawTransaction /\ ts \in Nat
    BY NodeAssumption
  <2> QED  BY <2>1, <2>2, SealGrowsTree DEF Inv
<1>2. CASE SolveFound
  <2>1. PICK c \in world : \E d \in Seal(c, blk[Miner].txs, blk[Miner].timestamp) :
          world' = world \cup {d}
    BY <1>2 DEF SolveFound
  <2>2. blk[Miner].txs \in SUBSET RawTransaction /\ blk[Miner].timestamp \in Nat
    BY <1>2 DEF SolveFound, Inv, HeldInv, Block
  <2> QED  BY <2>1, <2>2, SealGrowsTree DEF Inv
<1>3. CASE UNCHANGED world
  BY <1>3 DEF WorldInv
<1>4. \/ PeerSeal \/ SolveFound \/ UNCHANGED world
  BY DEF Next, Tick, Start, Crash, SubmitTransaction, ReceiveBlock,
         AddBlockRefused, AddBlockSaveFails, AddBlockSave, AddBlockStore,
         HandleIncomingBlockFinish, SyncBegin, SyncChain, AdoptRefused, AdoptSaveFails,
         AdoptSave, ReplaceChainStore, AdoptFinish, SyncNext, MiningWork, SolveCancelled, vars
<1> QED  BY <1>1, <1>2, <1>3, <1>4

\* A sealed block that extends the tip of a chain of the world makes one with it.
LEMMA ExtendsToWorld ==
  ASSUME WorldInv, NEW c \in world, NEW b \in Sealed,
         b.prev = Tip(c).hash, b.prev # NoHash
  PROVE  Append(c, b) \in world
<1>1. PICK d \in world : Tip(d) = b
  BY DEF Sealed
<1>2. d # Genesis
  BY <1>1 DEF Genesis, Tip, CreateGenesisBlock
<1>3. PICK e \in world : d = Append(e, b) /\ b.prev = Tip(e).hash
  BY <1>1, <1>2 DEF WorldInv
<1>4. e = c
  BY <1>3 DEF WorldInv
<1> QED  BY <1>3, <1>4

\* Hashes do not collide: whoever holds a chain holds one the world knows.
LEMMA ChainsNext ==
  ASSUME Inv, Inv', WorldInv, WorldInv', ChainsInv, [Next]_vars, world \subseteq world'
  PROVE  ChainsInv'
<1>0. /\ Syncer \notin Blockers /\ Miner \in Blockers /\ Handlers \subseteq Blockers
      /\ Blockers \subseteq Threads /\ Nobody \notin Threads
  BY NodeAssumption DEF Threads, Blockers
<1>1. ASSUME NEW t \in Blockers, AddBlockSave(t)
      PROVE  ChainsInv'
  <2> USE <1>1 DEF AddBlockSave
  <2>1. chain = file /\ chain # <<>>
    BY DEF Inv, LockInv, StorageInv
  <2>2. chain \in world
    BY <2>1 DEF ChainsInv
  <2>3. blk[t] \in Sealed /\ blk[t].prev = Tip(chain).hash /\ blk[t].prev # NoHash
    BY DEF Appendable, Stale, ValidateBlock
  <2>4. file' \in world
    BY <2>2, <2>3, ExtendsToWorld
  <2> QED  BY <2>4 DEF ChainsInv
<1>2. ASSUME NEW t \in Blockers, AddBlockStore(t)
      PROVE  ChainsInv'
  <2>1. chain' = file
    BY <1>0, <1>2 DEF AddBlockStore, Inv, StorageInv
  <2> QED  BY <1>2, <2>1 DEF AddBlockStore, ChainsInv
<1>3. CASE SyncChain
  BY <1>3 DEF SyncChain, ChainsInv
<1>4. CASE Start
  BY <1>4 DEF Start, ChainsInv, WorldInv
<1>5. CASE Crash
  BY <1>5 DEF Crash, Fresh, ChainsInv
<1>6. CASE AdoptSave \/ AdoptRefused \/ AdoptSaveFails \/ ReplaceChainStore \/ AdoptFinish
  BY <1>6 DEF AdoptSave, AdoptRefused, AdoptSaveFails, ReplaceChainStore, AdoptFinish,
              ChainsInv
<1>7. CASE UNCHANGED <<file, chain, offer>>
  BY <1>7 DEF ChainsInv
<1>8. \/ \E t \in Blockers : AddBlockSave(t) \/ AddBlockStore(t)
      \/ SyncChain \/ Start \/ Crash
      \/ AdoptSave \/ AdoptRefused \/ AdoptSaveFails \/ ReplaceChainStore \/ AdoptFinish
      \/ UNCHANGED <<file, chain, offer>>
  BY DEF Next, PeerSeal, Tick, SubmitTransaction, ReceiveBlock, AddBlockRefused,
         AddBlockSaveFails, HandleIncomingBlockFinish, SyncBegin, SyncNext, MiningWork,
         SolveFound, SolveCancelled, vars
<1> QED  BY <1>1, <1>2, <1>3, <1>4, <1>5, <1>6, <1>7, <1>8

\* From the moment the miner takes its work until the block is appended or
\* refused, the block fits the tip it was made for.
LEMMA MinerNext ==
  ASSUME Inv, WorldInv, ChainsInv, MinerInv, [Next]_vars, world \subseteq world'
  PROVE  MinerInv'
<1>0. /\ Syncer \notin Blockers /\ Miner \in Blockers /\ Miner \notin Handlers
      /\ Handlers \subseteq Blockers /\ Blockers \subseteq Threads /\ Nobody \notin Threads
  BY NodeAssumption DEF Threads, Blockers
<1>a. pc \in [Threads -> {"idle", "solve", "lock", "commit", "fetch", "mempool"}]
      /\ blk \in [Blockers -> Block \cup {NoBlock}]
  BY DEF Inv, TypeOK
<1>1. CASE MiningWork
  <2> USE <1>1 DEF MiningWork
  <2>1. /\ phase = "none" /\ chain = file /\ chain # <<>> /\ chain \in Seq(Block)
        /\ IDs(pool) \cap Confirmed(chain) = {} /\ now \in Nat
    BY DEF Inv, LockInv, StorageInv, PoolInv, Pending, TypeOK
  <2>2. chain \in world
    BY <2>1 DEF ChainsInv
  <2>3. Tip(chain).timestamp \in Nat
    BY <2>1, TipType DEF Block
  <2>4. Larger(now, Tip(chain).timestamp) >= Tip(chain).timestamp
    BY <2>1, <2>3 DEF Larger
  <2>5. IDs(FirstPending(pool)) \cap Confirmed(chain) = {}
    BY <2>1 DEF FirstPending, IDs
  <2>6. /\ blk'[Miner].prev = Tip(chain).hash
        /\ blk'[Miner].timestamp = Larger(now, Tip(chain).timestamp)
        /\ blk'[Miner].txs = FirstPending(pool)
    BY <1>0, <1>a
  <2> QED  BY <2>2, <2>4, <2>5, <2>6 DEF MinerInv
<1>2. CASE SolveFound
  <2> USE <1>2 DEF SolveFound, Done
  <2>1. PICK c \in world : 
          /\ Tip(c).hash = blk[Miner].prev
          /\ \E d \in Seal(c, blk[Miner].txs, blk[Miner].timestamp) :
               /\ world' = world \cup {d}
               /\ \/ pc' = [pc EXCEPT ![Miner] = "lock"] /\ blk' = [blk EXCEPT ![Miner] = Tip(d)]
                  \/ pc' = [pc EXCEPT ![Miner] = "idle"]
    OBVIOUS
  <2>2. PICK d \in Seal(c, blk[Miner].txs, blk[Miner].timestamp) :
          /\ world' = world \cup {d}
          /\ \/ pc' = [pc EXCEPT ![Miner] = "lock"] /\ blk' = [blk EXCEPT ![Miner] = Tip(d)]
             \/ pc' = [pc EXCEPT ![Miner] = "idle"]
    BY <2>1
  <2>3. blk[Miner].txs \in SUBSET RawTransaction /\ blk[Miner].timestamp \in Nat
    BY DEF Inv, HeldInv, Block
  <2>4. /\ Tip(d).prev = Tip(c).hash /\ Tip(d).timestamp = blk[Miner].timestamp
        /\ Tip(d).txs = blk[Miner].txs
    BY <2>2, <2>3, SealGrowsTree DEF Inv
  <2>5. PICK e \in world :
          /\ Tip(e).hash = blk[Miner].prev
          /\ blk[Miner].timestamp >= Tip(e).timestamp
          /\ IDs(blk[Miner].txs) \cap Confirmed(e) = {}
    BY DEF MinerInv
  <2>6. e = c
    BY <2>1, <2>5 DEF WorldInv
  <2>7. CASE pc' = [pc EXCEPT ![Miner] = "lock"] /\ blk' = [blk EXCEPT ![Miner] = Tip(d)]
    <3>1. blk'[Miner] = Tip(d)
      BY <1>0, <1>a, <2>7
    <3> QED  BY <2>4, <2>5, <2>6, <3>1 DEF MinerInv
  <2>8. CASE pc' = [pc EXCEPT ![Miner] = "idle"]
    <3>1. pc'[Miner] = "idle"
      BY <1>0, <1>a, <2>8
    <3> QED  BY <3>1 DEF MinerInv
  <2> QED  BY <2>2, <2>7, <2>8
<1>3. CASE pc'[Miner] \notin {"solve", "lock"}
  BY <1>3 DEF MinerInv
<1>4. CASE pc'[Miner] = pc[Miner] /\ blk'[Miner] = blk[Miner]
  BY <1>4 DEF MinerInv
<1>5. ASSUME ~ MiningWork, ~ SolveFound
      PROVE  pc'[Miner] \notin {"solve", "lock"} \/ (pc'[Miner] = pc[Miner] /\ blk'[Miner] = blk[Miner])
  <2>1. CASE \E t \in Blockers : \/ AddBlockRefused(t) \/ AddBlockSaveFails(t) \/ AddBlockSave(t)
                                 \/ AddBlockStore(t) \/ HandleIncomingBlockFinish(t)
    BY <2>1, <1>0, <1>a DEF AddBlockRefused, AddBlockSaveFails, AddBlockSave, AddBlockStore,
           HandleIncomingBlockFinish, Done
  <2>2. CASE \E t \in Handlers, b \in Sealed : ReceiveBlock(t, b)
    BY <2>2, <1>0, <1>a DEF ReceiveBlock
  <2>3. CASE Crash \/ SolveCancelled
    BY <2>3, <1>0, <1>a DEF Crash, Fresh, SolveCancelled, Done
  <2>4. CASE \/ SyncBegin \/ SyncChain \/ AdoptRefused \/ AdoptSaveFails \/ AdoptSave
             \/ ReplaceChainStore \/ AdoptFinish \/ SyncNext
    BY <2>4, <1>0, <1>a DEF SyncBegin, SyncChain, AdoptRefused, AdoptSaveFails, AdoptSave,
           ReplaceChainStore, AdoptFinish, SyncNext
  <2>5. CASE \/ PeerSeal \/ Tick \/ Start \/ UNCHANGED vars
             \/ \E t \in Handlers \cup {Syncer}, tx \in RawTransaction : SubmitTransaction(t, tx)
    BY <2>5 DEF PeerSeal, Tick, Start, SubmitTransaction, vars
  <2> QED  BY <1>5, <2>1, <2>2, <2>3, <2>4, <2>5 DEF Next
<1> QED  BY <1>1, <1>2, <1>3, <1>4, <1>5

\* A block that is appended was not relayed before: the durable chain would have to
\* be better than itself.
LEMMA AppendIsNew ==
  ASSUME Inv, Inv', WorldInv, WorldInv', ChainsInv', RelayInv, world \subseteq world',
         NEW t \in Blockers, AddBlockSave(t)
  PROVE  Tip(file') = blk[t] /\ blk[t] \notin relayed
<1>1. BetterChain(file', file)
  BY AddBlockAdvances
<1>2. /\ file \in Seq(Block) /\ file' \in Seq(Block) /\ world' \subseteq Seq(Block)
      /\ chain \in Seq(Block)
  BY DEF Inv, TypeOK
<1>3. Tip(file') = blk[t] /\ file' # <<>>
  <2>1. blk[t] \in Block
    BY DEF AddBlockSave, Inv, HeldInv
  <2> QED  BY <1>2, <2>1, AppendChain DEF AddBlockSave
<1>4. ASSUME blk[t] \in relayed
      PROVE  FALSE
  <2>1. PICK c \in world : Tip(c) = blk[t] /\ (file = c \/ BetterChain(file, c))
    BY <1>4 DEF RelayInv
  <2>2. file' \in world'
    BY <1>3 DEF ChainsInv
  <2>3. c = file'
    BY <1>3, <2>1, <2>2 DEF WorldInv
  <2>4. ~ BetterChain(file', file')
    BY <1>2, BetterIrreflexive
  <2> QED  BY <1>1, <1>2, <2>1, <2>3, <2>4, BetterTransitive
<1> QED  BY <1>3, <1>4

\* What was relayed stays behind the durable chain.
LEMMA RelayNext ==
  ASSUME Inv, Inv', WorldInv, WorldInv', ChainsInv, ChainsInv', RelayInv, [Next]_vars,
         world \subseteq world'
  PROVE  RelayInv'
<1>0. /\ Syncer \notin Blockers /\ Miner \in Blockers /\ Nobody \notin Blockers
      /\ Handlers \subseteq Blockers /\ Blockers \subseteq Threads
      /\ pc \in [Threads -> {"idle", "solve", "lock", "commit", "fetch", "mempool"}]
      /\ blk \in [Blockers -> Block \cup {NoBlock}]
  BY NodeAssumption DEF Threads, Blockers, Inv, TypeOK
<1>1. /\ file \in Seq(Block) /\ file' \in Seq(Block) /\ world \subseteq Seq(Block)
      /\ \A c \in world : c # <<>>
  BY DEF Inv, TypeOK, StorageInv
<1>2. ASSUME NEW b \in relayed
      PROVE  \E c \in world' : Tip(c) = b /\ (file' = c \/ BetterChain(file', c))
  <2>1. PICK c \in world : Tip(c) = b /\ (file = c \/ BetterChain(file, c))
    BY <1>2 DEF RelayInv
  <2>2. file # <<>>
    BY <1>1, <2>1 DEF BetterChain
  <2>3. file' = file \/ BetterChain(file', file)
    BY <2>2, FileStep
  <2> QED  BY <1>1, <2>1, <2>3, BetterTransitive
<1>3. ASSUME NEW b \in relayed' \ relayed
      PROVE  \E c \in world' : Tip(c) = b /\ (file' = c \/ BetterChain(file', c))
  <2>1. PICK t \in Blockers : HandleIncomingBlockFinish(t) /\ b = blk[t]
    BY <1>3 DEF Next, PeerSeal, Tick, Start, Crash, SubmitTransaction, ReceiveBlock,
         AddBlockRefused, AddBlockSaveFails, AddBlockSave, AddBlockStore,
         HandleIncomingBlockFinish, SyncBegin, SyncChain, AdoptRefused, AdoptSaveFails,
         AdoptSave, ReplaceChainStore, AdoptFinish, SyncNext, MiningWork, SolveFound,
         SolveCancelled, vars
  <2>2. Tip(file) = b /\ file' = file /\ file # <<>>
    BY <2>1 DEF HandleIncomingBlockFinish, RelayInv, Inv, StorageInv
  <2> QED  BY <2>2 DEF ChainsInv
<1>4. ASSUME mu' \in Blockers
      PROVE  Tip(file') = blk'[mu'] /\ blk'[mu'] \notin relayed'
  <2>1. CASE \E t \in Blockers : AddBlockSave(t)
    <3>1. PICK t \in Blockers : AddBlockSave(t)
      BY <2>1
    <3> QED  BY <3>1, AppendIsNew DEF AddBlockSave
  <2>2. CASE \E t \in Handlers, b \in Sealed : ReceiveBlock(t, b)
    <3>1. PICK t \in Handlers, b \in Sealed : ReceiveBlock(t, b)
      BY <2>2
    <3>2. mu' = mu /\ mu # t /\ blk'[mu] = blk[mu]
      BY <1>0, <1>4, <3>1 DEF ReceiveBlock, Inv, LockInv
    <3> QED  BY <1>4, <3>1, <3>2 DEF ReceiveBlock, RelayInv
  <2>3. CASE MiningWork \/ SolveFound \/ SolveCancelled
    <3>1. mu' = mu /\ mu # Miner /\ file' = file /\ relayed' = relayed
      BY <1>0, <1>4, <2>3 DEF MiningWork, SolveFound, SolveCancelled, Inv, LockInv
    <3>2. blk'[mu] = blk[mu]
      BY <1>0, <1>4, <2>3, <3>1 DEF MiningWork, SolveFound, SolveCancelled, Done
    <3> QED  BY <1>4, <3>1, <3>2 DEF RelayInv
  <2>4. CASE Start \/ Crash \/ AdoptSave \/ AdoptFinish
    BY <1>0, <1>4, <2>4 DEF Start, Crash, Fresh, AdoptSave, AdoptFinish, Unlock, Inv, LockInv
  <2>5. CASE \E t \in Blockers : \/ AddBlockRefused(t) \/ AddBlockSaveFails(t)
                                 \/ HandleIncomingBlockFinish(t)
    BY <1>0, <1>4, <2>5 DEF AddBlockRefused, AddBlockSaveFails, HandleIncomingBlockFinish, Unlock
  <2>6. CASE UNCHANGED <<file, mu, blk, relayed>>
    BY <1>4, <2>6 DEF RelayInv
  <2>7. \/ \E t \in Blockers : AddBlockSave(t)
        \/ \E t \in Handlers, b \in Sealed : ReceiveBlock(t, b)
        \/ MiningWork \/ SolveFound \/ SolveCancelled
        \/ Start \/ Crash \/ AdoptSave \/ AdoptFinish
        \/ \E t \in Blockers : \/ AddBlockRefused(t) \/ AddBlockSaveFails(t)
                               \/ HandleIncomingBlockFinish(t)
        \/ UNCHANGED <<file, mu, blk, relayed>>
    BY DEF Next, PeerSeal, Tick, SubmitTransaction, AddBlockStore, SyncBegin, SyncChain,
           AdoptRefused, AdoptSaveFails, ReplaceChainStore, SyncNext, vars
  <2> QED  BY <2>1, <2>2, <2>3, <2>4, <2>5, <2>6, <2>7
<1> QED  BY <1>2, <1>3, <1>4 DEF RelayInv

\* A new network has one chain, and nothing was mined or relayed.
LEMMA NodeInvInit == Init => NodeInv
<1> SUFFICES ASSUME Init PROVE NodeInv
  OBVIOUS
<1>1. WorldInv
  BY DEF Init, WorldInv
<1>2. ChainsInv /\ MinerInv /\ RelayInv
  BY NodeAssumption DEF Init, ChainsInv, MinerInv, RelayInv, Threads, Blockers
<1> QED  BY <1>1, <1>2, InvInit DEF NodeInv

LEMMA NodeInvNext == NodeInv /\ [Next]_vars => NodeInv'
<1> SUFFICES ASSUME NodeInv, [Next]_vars PROVE NodeInv'
  OBVIOUS
<1>1. Inv'
  BY InvNext DEF NodeInv
<1>2. WorldInv' /\ world \subseteq world'
  BY WorldNext DEF NodeInv
<1>3. ChainsInv'
  BY <1>1, <1>2, ChainsNext DEF NodeInv
<1>4. MinerInv'
  BY <1>2, MinerNext DEF NodeInv
<1>5. RelayInv'
  BY <1>1, <1>2, <1>3, RelayNext DEF NodeInv
<1> QED  BY <1>1, <1>2, <1>3, <1>4, <1>5 DEF NodeInv

\* Hashes name chains, and the durable chain has gone past all that was relayed:
\* in every reachable state, for any number of handlers, messages and blocks.
THEOREM NodeHistory == Spec => []NodeInv
<1> QED  BY NodeInvInit, NodeInvNext, PTL DEF Spec

\* A block this node mined is refused for one reason only, that another block came
\* first: never because of its timestamp, unless the clock is set back, or of what it confirms.
THEOREM OwnBlocksAreGood == Spec => []OwnBlockOnlyStale
<1>1. NodeInv => OwnBlockOnlyStale
  <2> SUFFICES ASSUME NodeInv, up, mu = Nobody, pc[Miner] = "lock", ~ Stale(blk[Miner])
               PROVE  Appendable(blk[Miner])
    BY DEF OwnBlockOnlyStale
  <2>1. chain # <<>> /\ txIDs = Confirmed(chain)
    BY DEF NodeInv, Inv, StorageInv
  <2>2. PICK c \in world :
          /\ Tip(c).hash = blk[Miner].prev
          /\ blk[Miner].timestamp >= Tip(c).timestamp
          /\ IDs(blk[Miner].txs) \cap Confirmed(c) = {}
    BY DEF NodeInv, MinerInv
  <2>3. c = chain
    BY <2>1, <2>2 DEF NodeInv, WorldInv, ChainsInv, Stale
  <2> QED  BY <2>1, <2>2, <2>3 DEF Appendable
<1> QED  BY <1>1, NodeHistory, PTL

\* No block is broadcast twice, through duplicates, reorganisations and restarts.
THEOREM NoSecondBroadcast == Spec => RelayedOnce
<1>1. NodeInv /\ [Next]_vars =>
        [\A t \in Blockers : HandleIncomingBlockFinish(t) => blk[t] \notin relayed]_vars
  BY DEF NodeInv, RelayInv, HandleIncomingBlockFinish
<1> QED  BY <1>1, NodeHistory, PTL DEF Spec, RelayedOnce

-----------------------------------------------------------------------------
(* What clients see *)

\* Whatever is asked of the node, it takes its own steps.
LEMMA ApiStep == [ApiNext]_allVars => [Next]_vars
<1> SUFFICES ASSUME [ApiNext]_allVars PROVE [Next]_vars
  OBVIOUS
<1>1. CASE \E t \in Handlers, tx \in RawTransaction : AddTransaction(t, tx)
  BY <1>1 DEF AddTransaction, Next
<1>2. CASE NodeStep
  BY <1>2 DEF NodeStep
<1>3. CASE UNCHANGED vars
  BY <1>3
<1> QED  BY <1>1, <1>2, <1>3 DEF ApiNext, AddTransactionConflict, GetTransaction, GetChain,
            GetMempool, GetStatus, allVars

\* What the clients of a node rely on holds of the node they talk to.
LEMMA ApiImplementsNode == ApiSpec => Spec
<1>1. ApiInit => Init
  BY DEF ApiInit
<1> QED  BY <1>1, ApiStep, PTL DEF ApiSpec, Spec

\* What pends, what a reorganisation holds back and what the chain confirms was
\* accepted or confirmed by this process.
LEMMA KnownNext ==
  ASSUME Inv, Inv', KnownInv, [Next]_vars
  PROVE  /\ up' => /\ pool' \cup reorg' \cup TxsOf(file') \subseteq known'
                   /\ up => known \subseteq known'
         /\ ~up' => reorg' = {}
<1>1. CASE Start
  BY <1>1 DEF Start, KnownInv, Inv, LockInv
<1>2. CASE Crash
  BY <1>2 DEF Crash, Fresh
<1>3. CASE \E t \in Handlers \cup {Syncer}, tx \in RawTransaction : SubmitTransaction(t, tx)
  BY <1>3 DEF SubmitTransaction, KnownInv
<1>4. ASSUME NEW t \in Blockers, AddBlockSave(t)
      PROVE  /\ up' /\ pool' \cup reorg' \cup TxsOf(file') \subseteq known'
             /\ known \subseteq known'
  <2>1. chain = file /\ chain \in Seq(Block) /\ blk[t] \in Block
    BY <1>4 DEF AddBlockSave, Inv, LockInv, StorageInv, HeldInv, TypeOK
  <2>2. TxsOf(file') = TxsOf(file) \cup blk[t].txs
    BY <1>4, <2>1, AppendConfirmed DEF AddBlockSave
  <2> QED  BY <1>4, <2>2 DEF AddBlockSave, KnownInv
<1>5. CASE AdoptSave
  <2>1. chain = file
    BY <1>5 DEF AdoptSave, Inv, LockInv, StorageInv
  <2>2. reorg' \subseteq pool \cup TxsOf(file)
    BY <1>5, <2>1 DEF AdoptSave, PrepareReorg, Remove
  <2> QED  BY <1>5, <2>2 DEF AdoptSave, KnownInv
<1>6. CASE AdoptFinish
  BY <1>6 DEF AdoptFinish, KnownInv
<1>7. CASE \E t \in Blockers : HandleIncomingBlockFinish(t)
  BY <1>7 DEF HandleIncomingBlockFinish, Remove, KnownInv
<1>8. CASE UNCHANGED <<up, file, pool, reorg, known>>
  BY <1>8 DEF KnownInv
<1>9. \/ Start \/ Crash \/ AdoptSave \/ AdoptFinish
      \/ \E t \in Handlers \cup {Syncer}, tx \in RawTransaction : SubmitTransaction(t, tx)
      \/ \E t \in Blockers : AddBlockSave(t) \/ HandleIncomingBlockFinish(t)
      \/ UNCHANGED <<up, file, pool, reorg, known>>
  BY DEF Next, PeerSeal, Tick, ReceiveBlock, AddBlockRefused, AddBlockSaveFails,
         AddBlockStore, SyncBegin, SyncChain, AdoptRefused, AdoptSaveFails,
         ReplaceChainStore, SyncNext, MiningWork, SolveFound, SolveCancelled, vars
<1> QED  BY <1>1, <1>2, <1>3, <1>4, <1>5, <1>6, <1>7, <1>8, <1>9

\* No answer tells of an id that the process does not know, and "missing" is only
\* said of an id that nobody was told of.
LEMMA AnswerStep ==
  ASSUME Inv, Inv', ApiTypeOK, ToldInv, KnownInv, [ApiNext]_allVars
  PROVE  /\ answer' \in [TxIDs -> {"none", "known", "pending", "confirmed", "missing"}]
         /\ up' => \A id \in TxIDs : Told(id)' => id \in IDs(known')
         /\ ~up' => answer' = NoAnswer
         /\ \A id \in TxIDs : Told(id) => answer'[id] # "missing"
<1> USE DEF Told
<1>0. /\ up => /\ IDs(pool) \subseteq IDs(known) /\ Confirmed(file) \subseteq IDs(known)
               /\ \A id \in TxIDs : Told(id) => id \in IDs(known)
      /\ up /\ mu = Nobody => chain = file /\ txIDs = Confirmed(chain)
      /\ IDs(pool) \subseteq TxIDs
  BY DEF KnownInv, IDs, Confirmed, Inv, LockInv, StorageInv, TypeOK, Transaction, RawTransaction
<1>1. answer \in [TxIDs -> {"none", "known", "pending", "confirmed", "missing"}]
  BY DEF ApiTypeOK
<1>2. CASE NodeStep
  <2>1. up /\ up' => known \subseteq known'
    BY <1>2, KnownNext DEF NodeStep
  <2>2. up /\ up' => IDs(known) \subseteq IDs(known')
    BY <2>1 DEF IDs
  <2>3. ~up => answer = NoAnswer
    BY DEF KnownInv
  <2> QED  BY <1>0, <1>1, <1>2, <2>2, <2>3 DEF NodeStep, NoAnswer
<1>3. ASSUME NEW t \in Handlers, NEW tx \in RawTransaction, AddTransaction(t, tx)
      PROVE  /\ up /\ up' /\ tx.id \in TxIDs
             /\ answer' = [answer EXCEPT ![tx.id] = "pending"]
             /\ IDs(known') = IDs(known) \cup {tx.id}
  BY <1>3 DEF AddTransaction, SubmitTransaction, RawTransaction, IDs
<1>4. ASSUME NEW tx \in RawTransaction, AddTransactionConflict(tx)
      PROVE  /\ up /\ up' /\ tx.id \in TxIDs /\ known' = known
             /\ answer' = [answer EXCEPT ![tx.id] = "known"]
             /\ tx.id \in IDs(known)
  BY <1>0, <1>4 DEF AddTransactionConflict, vars, RawTransaction
<1>5. ASSUME NEW id \in TxIDs, GetTransaction(id)
      PROVE  /\ up /\ up' /\ known' = known
             /\ \E a \in {"confirmed", "pending", "missing"} :
                  /\ answer' = [answer EXCEPT ![id] = a]
                  /\ a # "missing" => id \in IDs(known)
                  /\ a = "missing" => ~ Told(id)
  <2> DEFINE a == IF id \in Confirmed(chain) THEN "confirmed"
                  ELSE IF id \in IDs(pool) THEN "pending"
                  ELSE "missing"
  <2>1. up /\ mu = Nobody /\ up' /\ known' = known /\ answer' = [answer EXCEPT ![id] = a]
    BY <1>5 DEF GetTransaction, ReadState, vars
  <2>2. a # "missing" => id \in IDs(known)
    BY <1>0, <2>1
  <2>3. a = "missing" => ~ Told(id)
    BY <1>0, <2>1 DEF ToldInv
  <2>4. a \in {"confirmed", "pending", "missing"}
    OBVIOUS
  <2> HIDE DEF a
  <2> QED  BY <2>1, <2>2, <2>3, <2>4
<1>6. CASE GetMempool
  BY <1>0, <1>1, <1>6 DEF GetMempool, vars
<1>7. CASE UNCHANGED <<vars, answer>>
  BY <1>0, <1>1, <1>7 DEF vars, KnownInv
<1>8. CASE \E t \in Handlers, tx \in RawTransaction : AddTransaction(t, tx)
  BY <1>0, <1>1, <1>3, <1>8
<1>9. CASE \E tx \in RawTransaction : AddTransactionConflict(tx)
  BY <1>0, <1>1, <1>4, <1>9
<1>10. CASE \E id \in TxIDs : GetTransaction(id)
  BY <1>0, <1>1, <1>5, <1>10
<1>11. CASE GetChain \/ GetStatus \/ UNCHANGED allVars
  BY <1>7, <1>11 DEF GetChain, GetStatus, allVars, apiVars
<1> QED  BY <1>2, <1>6, <1>8, <1>9, <1>10, <1>11 DEF ApiNext

\* What is shown is the durable chain, and that only gets better.
LEMMA ShownStep ==
  ASSUME Inv, Inv', ApiTypeOK, ShownInv, [ApiNext]_allVars
  PROVE  /\ view' \in Seq(Block) /\ ShownInv'
         /\ view # <<>> /\ view' # view => BetterChain(view', view)
<1>0. view \in Seq(Block) /\ file \in Seq(Block) /\ file' \in Seq(Block)
  BY DEF ApiTypeOK, Inv, TypeOK
<1>1. file # <<>> /\ file' # file => BetterChain(file', file)
  BY ApiStep, FileStep
<1>2. CASE view' = view
  <2>1. view # <<>> => file # <<>>
    BY <1>0 DEF ShownInv, BetterChain
  <2>2. ShownInv'
    BY <1>0, <1>1, <1>2, <2>1, BetterTransitive DEF ShownInv
  <2> QED  BY <1>0, <1>2, <2>2
<1>3. CASE view' = chain /\ up /\ phase # "renamed" /\ UNCHANGED vars
  <2>1. chain = file /\ file' = file
    BY <1>3 DEF Inv, StorageInv, vars
  <2> QED  BY <1>0, <1>3, <2>1 DEF ShownInv
<1>4. mu = Nobody => phase # "renamed"
  BY DEF Inv, LockInv
<1> QED  BY <1>2, <1>3, <1>4 DEF ApiNext, NodeStep, AddTransaction, AddTransactionConflict,
            GetTransaction, ReadState, GetChain, GetMempool, GetStatus, allVars, apiVars

LEMMA ApiInvInit == ApiInit => ApiInv
<1> SUFFICES ASSUME ApiInit PROVE ApiInv
  OBVIOUS
<1>1. ApiTypeOK /\ ToldInv /\ KnownInv /\ ShownInv
  BY DEF ApiInit, Init, ApiTypeOK, ToldInv, KnownInv, ShownInv, NoAnswer
<1> QED  BY <1>1 DEF ApiInv

LEMMA ApiInvNext == Inv /\ Inv' /\ ApiInv /\ [ApiNext]_allVars => ApiInv'
<1> SUFFICES ASSUME Inv, Inv', ApiInv, [ApiNext]_allVars PROVE ApiInv'
  OBVIOUS
<1>1. /\ answer' \in [TxIDs -> {"none", "known", "pending", "confirmed", "missing"}]
      /\ up' => \A id \in TxIDs : Told(id)' => id \in IDs(known')
      /\ ~up' => answer' = NoAnswer
  BY AnswerStep DEF ApiInv
<1>2. KnownInv'
  BY <1>1, ApiStep, KnownNext DEF ApiInv, KnownInv
<1>3. ToldInv'
  <2>1. NoSilentLoss'
    BY DEF Inv, LockInv, StorageInv, PoolInv, Pending, NoSilentLoss
  <2> QED  BY <1>1, <2>1 DEF NoSilentLoss, ToldInv
<1>4. ApiTypeOK' /\ ShownInv'
  BY <1>1, ShownStep DEF ApiInv, ApiTypeOK
<1> QED  BY <1>2, <1>3, <1>4 DEF ApiInv

\* Clients are told of nothing the node does not know, and shown nothing that is not
\* durable: for any number of clients' requests between any two steps of a commit.
THEOREM ClientsKnowledge == ApiSpec => []ApiInv
<1> QED  BY ApiInvInit, ApiInvNext, ApiImplementsNode, NodeInvariant, PTL DEF ApiSpec

\* Once a client was told of an id, no lookup of the same process answers 404: a
\* message is never missed as it moves between mempool and chain.
THEOREM NoLookupMisses == ApiSpec => NoAnswerTakenBack
<1>1. Inv /\ Inv' /\ ApiInv /\ [ApiNext]_allVars =>
        [\A id \in TxIDs :
           answer[id] \in {"known", "pending", "confirmed"} => answer'[id] # "missing"]_allVars
  BY AnswerStep DEF ApiInv, Told
<1> QED  BY <1>1, ClientsKnowledge, ApiImplementsNode, NodeInvariant, PTL
         DEF ApiSpec, NoAnswerTakenBack

\* What clients are shown of the chain never goes back, through reorganisations,
\* failed saves, crashes and restarts.
THEOREM ReadersGoForward == ApiSpec => ReadsGoForward
<1>1. Inv /\ Inv' /\ ApiInv /\ [ApiNext]_allVars =>
        [view # <<>> /\ view' # view => BetterChain(view', view)]_allVars
  BY ShownStep DEF ApiInv
<1> QED  BY <1>1, ClientsKnowledge, ApiImplementsNode, NodeInvariant, PTL
         DEF ApiSpec, ReadsGoForward

=============================================================================
