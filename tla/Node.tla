-------------------------------- MODULE Node --------------------------------
(***************************************************************************)
(* One node of the ledger at the grain of its goroutines: the HTTP         *)
(* handlers that receive messages and blocks, the synchroniser             *)
(* (GossipEngine.Run), and the miner, which share the chain storage, the   *)
(* mempool and GossipEngine.mu.  The rest of the network is open: other    *)
(* nodes seal blocks, deliver them in any order, late, twice or never, and *)
(* answer a sync request with any chain.                                   *)
(*                                                                         *)
(* A commit is not atomic.  It holds mu through four steps that others can *)
(* see or a crash can separate: the rename of the chain file, the update   *)
(* of the storage's memory, the update of the mempool, the closing of the  *)
(* channel "changed".  The last two and the unlock are one action here:    *)
(* between them only GET /mempool, which decides nothing, runs without mu. *)
(* FileChainStorage.mu and Mempool.mu need no variable for the same        *)
(* reason: every writer holds GossipEngine.mu.                             *)
(***************************************************************************)
EXTENDS Mempool

CONSTANTS
  Handlers,      \* goroutines serving POST /block and POST /transaction
  Syncer, Miner, \* the two background goroutines of node.Run
  Nobody,        \* mu is free
  NoBlock,       \* a thread that holds no block
  PeerTxs,       \* transaction sets of the blocks other nodes seal
  PeerTimes,     \* their timestamps
  MaxTime        \* bound on the clock

Blockers == Handlers \cup {Miner}   \* the threads that run HandleIncomingBlock
Threads  == Blockers \cup {Syncer}

ASSUME NodeAssumption ==
  /\ Syncer \notin Blockers /\ Miner \notin Handlers
  /\ Nobody \notin Threads
  /\ NoBlock \notin Block
  /\ PeerTxs \subseteq SUBSET RawTransaction
  /\ PeerTimes \subseteq Nat
  /\ MaxTime \in Nat

VARIABLES
  (* the rest of the world *)
  world,       \* every chain that ends in a block somebody sealed
  now,         \* the clock
  (* the node *)
  up,          \* the process runs
  file,        \* FilePath, the durable chain; <<>> when there is no file
  chain, txIDs,\* FileChainStorage: the chain in memory and its index
  pool,        \* Mempool.transactions
  mu,          \* the thread that holds GossipEngine.mu
  phase,       \* how far the commit of the holder of mu has come
  pc,          \* where each thread is
  blk,         \* the block a thread mines or handles
  offer,       \* the chain the synchroniser fetched
  reorg,       \* what PrepareReorg returned to it
  closed,      \* the channel "changed" the miner watches has been closed
  syncNeeded,  \* the channel of capacity one holds a request
  (* history, read by properties only *)
  known,       \* accepted or confirmed since the process started
  relayed      \* blocks broadcast

worldVars == <<world, now>>
memory    == <<chain, txIDs, pool>>
locals    == <<blk, offer, reorg>>
history   == <<known, relayed>>
vars == <<world, now, up, file, chain, txIDs, pool, mu, phase, pc, blk, offer,
          reorg, closed, syncNeeded, known, relayed>>

Genesis == <<CreateGenesisBlock>>

\* The blocks that carry a valid proof of work.
Sealed == {Tip(c) : c \in world}

TypeOK ==
  /\ world \subseteq Seq(Block) /\ now \in Nat
  /\ up \in BOOLEAN
  /\ file \in Seq(Block) /\ chain \in Seq(Block)
  /\ txIDs \subseteq TxIDs
  /\ pool \subseteq Transaction /\ reorg \subseteq Transaction
  /\ mu \in Threads \cup {Nobody}
  /\ phase \in {"none", "renamed", "stored"}
  /\ pc \in [Threads -> {"idle", "solve", "lock", "commit", "fetch", "mempool"}]
  /\ blk \in [Blockers -> Block \cup {NoBlock}]
  /\ offer \in Seq(Block)
  /\ closed \in BOOLEAN /\ syncNeeded \in BOOLEAN
  /\ known \subseteq Transaction
  /\ relayed \subseteq Block

\* All that a new process holds before NewFileChainStorage has read the file.
Fresh ==
  /\ chain' = <<>> /\ txIDs' = {} /\ pool' = {}
  /\ mu' = Nobody /\ phase' = "none"
  /\ pc' = [t \in Threads |-> "idle"]
  /\ blk' = [t \in Blockers |-> NoBlock]
  /\ offer' = <<>> /\ reorg' = {}
  /\ closed' = FALSE /\ syncNeeded' = FALSE
  /\ known' = {}

Init ==
  /\ world = {Genesis} /\ now = GenesisTime
  /\ up = FALSE /\ file = <<>>
  /\ chain = <<>> /\ txIDs = {} /\ pool = {}
  /\ mu = Nobody /\ phase = "none"
  /\ pc = [t \in Threads |-> "idle"]
  /\ blk = [t \in Blockers |-> NoBlock]
  /\ offer = <<>> /\ reorg = {}
  /\ closed = FALSE /\ syncNeeded = FALSE
  /\ known = {} /\ relayed = {}

-----------------------------------------------------------------------------
(* The rest of the world *)

\* Solve starts from nonce 0, so the same header gives the same block; a new
\* header gets a hash nobody has seen, smaller or larger than the others.
Seal(c, txs, ts) ==
  LET header == [prev |-> Tip(c).hash, index |-> Len(c), timestamp |-> ts, txs |-> txs]
      With(h) == [hash |-> h, prev |-> header.prev, index |-> header.index,
                  timestamp |-> header.timestamp, txs |-> header.txs]
      same   == {d \in world : With(Tip(d).hash) = Tip(d)}
      unused == Hashes \ {Tip(d).hash : d \in world}
  IN  IF same # {} THEN same ELSE {Append(c, With(h)) : h \in unused}

\* Another node seals a block on any block it knows.  What it puts in the block
\* is not trusted: it may repeat a confirmed id or predate its parent.
PeerSeal ==
  /\ \E c \in world, txs \in PeerTxs, ts \in PeerTimes :
       \E d \in Seal(c, txs, ts) : world' = world \cup {d}
  /\ UNCHANGED <<now, up, file, memory, mu, phase, pc, locals, closed,
                 syncNeeded, history>>

Tick ==
  /\ now < MaxTime
  /\ now' = now + 1
  /\ UNCHANGED <<world, up, file, memory, mu, phase, pc, locals, closed,
                 syncNeeded, history>>

-----------------------------------------------------------------------------
(* Start and death of the process *)

\* NewFileChainStorage: no file, so the genesis chain is saved; or a file that
\* passes validation.  Otherwise node.Run returns and the file is left alone.
Start ==
  /\ ~up
  /\ \/ file = <<>> /\ file' = Genesis
     \/ file # <<>> /\ ValidateChain(file, Sealed, now) /\ file' = file
  /\ up' = TRUE
  /\ chain' = file' /\ txIDs' = Confirmed(file')
  /\ known' = TxsOf(file')
  /\ UNCHANGED <<worldVars, pool, mu, phase, pc, locals, closed, syncNeeded, relayed>>

\* The process is killed between any two steps, or shut down.
Crash ==
  /\ up
  /\ up' = FALSE
  /\ Fresh
  /\ UNCHANGED <<worldVars, file, relayed>>

-----------------------------------------------------------------------------
(* Messages *)

\* Variant with a fault: the message is checked and added without mu.
SubmitUnlocked(t, tx) ==
  /\ up
  /\ \/ t \in Handlers /\ pc[t] = "idle"
     \/ t = Syncer /\ pc[t] = "mempool"
  /\ tx.id \notin txIDs
  /\ CanAdd(pool, tx)
  /\ pool' = pool \cup {tx}
  /\ known' = known \cup {tx}
  /\ UNCHANGED <<worldVars, up, file, chain, txIDs, mu, phase, pc, locals,
                 closed, syncNeeded, relayed>>

\* SubmitTransaction runs under mu from the check to the insertion.  A handler
\* calls it for POST /transaction and /gossip, the synchroniser for each message
\* of a peer's mempool.  A refusal changes nothing.
SubmitTransaction(t, tx) ==
  /\ up /\ mu = Nobody
  /\ \/ t \in Handlers /\ pc[t] = "idle"
     \/ t = Syncer /\ pc[t] = "mempool"
  /\ tx.id \notin txIDs
  /\ CanAdd(pool, tx)
  /\ pool' = pool \cup {tx}
  /\ known' = known \cup {tx}
  /\ UNCHANGED <<worldVars, up, file, chain, txIDs, mu, phase, pc, locals,
                 closed, syncNeeded, relayed>>

-----------------------------------------------------------------------------
(* Blocks: HandleIncomingBlock, called by a handler or by the miner *)

\* POST /block: the block is validated by itself, then waits for mu.
ReceiveBlock(t, b) ==
  /\ up /\ t \in Handlers /\ pc[t] = "idle"
  /\ ValidateBlock(b, Sealed, now)
  /\ pc' = [pc EXCEPT ![t] = "lock"]
  /\ blk' = [blk EXCEPT ![t] = b]
  /\ UNCHANGED <<worldVars, up, file, memory, mu, phase, offer, reorg, closed,
                 syncNeeded, history>>

Stale(b) == b.index # Tip(chain).index + 1 \/ b.prev # Tip(chain).hash

\* Variant with a fault: a confirmed id may come again.
AppendableReplay(b) == ~ Stale(b) /\ b.timestamp >= Tip(chain).timestamp

\* The checks of AddBlock against the tip.
Appendable(b) ==
  /\ ~ Stale(b)
  /\ b.timestamp >= Tip(chain).timestamp
  /\ IDs(b.txs) \cap txIDs = {}

Done(t) ==
  /\ pc' = [pc EXCEPT ![t] = "idle"]
  /\ blk' = [blk EXCEPT ![t] = NoBlock]

\* AddBlock refuses the block.  Only one that does not extend the tip asks for a
\* synchronisation.
AddBlockRefused(t) ==
  /\ up /\ mu = Nobody /\ pc[t] = "lock"
  /\ ~ Appendable(blk[t])
  /\ syncNeeded' = (syncNeeded \/ Stale(blk[t]))
  /\ Done(t)
  /\ UNCHANGED <<worldVars, up, file, memory, mu, phase, offer, reorg, closed, history>>

\* Variant with a fault: the error is returned before mu is unlocked.
AddBlockFailsLocked(t) ==
  /\ up /\ mu = Nobody /\ pc[t] = "lock"
  /\ Appendable(blk[t])
  /\ Done(t) /\ mu' = t
  /\ UNCHANGED <<worldVars, up, file, memory, phase, offer, reorg, closed,
                 syncNeeded, history>>

\* saveUnlocked fails before the rename; nothing has changed.
AddBlockSaveFails(t) ==
  /\ up /\ mu = Nobody /\ pc[t] = "lock"
  /\ Appendable(blk[t])
  /\ Done(t)
  /\ UNCHANGED <<worldVars, up, file, memory, mu, phase, offer, reorg, closed,
                 syncNeeded, history>>

\* Variant with a fault: memory is changed and the save is forgotten.
AddBlockUnsaved(t) ==
  /\ up /\ mu = Nobody /\ pc[t] = "lock"
  /\ Appendable(blk[t])
  /\ chain' = Append(chain, blk[t]) /\ txIDs' = txIDs \cup IDs(blk[t].txs)
  /\ mu' = t /\ phase' = "stored"
  /\ pc' = [pc EXCEPT ![t] = "commit"]
  /\ known' = known \cup blk[t].txs
  /\ UNCHANGED <<worldVars, up, file, pool, locals, closed, syncNeeded, relayed>>

\* AddBlock accepts: saveUnlocked renames the new file into place.
AddBlockSave(t) ==
  /\ up /\ mu = Nobody /\ pc[t] = "lock"
  /\ ValidateBlock(blk[t], Sealed, now)
  /\ Appendable(blk[t])
  /\ file' = Append(chain, blk[t])
  /\ mu' = t /\ phase' = "renamed"
  /\ pc' = [pc EXCEPT ![t] = "commit"]
  /\ known' = known \cup blk[t].txs
  /\ UNCHANGED <<worldVars, up, memory, locals, closed, syncNeeded, relayed>>

\* Variant with a fault: the index only knows the last block.
AddBlockStoreLast(t) ==
  /\ up /\ mu = t /\ phase = "renamed"
  /\ chain' = Append(chain, blk[t])
  /\ txIDs' = IDs(blk[t].txs)
  /\ phase' = "stored"
  /\ UNCHANGED <<worldVars, up, file, pool, mu, pc, locals, closed, syncNeeded, history>>

\* fs.chain and fs.txIDs follow the file.
AddBlockStore(t) ==
  /\ up /\ mu = t /\ phase = "renamed"
  /\ chain' = Append(chain, blk[t])
  /\ txIDs' = txIDs \cup IDs(blk[t].txs)
  /\ phase' = "stored"
  /\ UNCHANGED <<worldVars, up, file, pool, mu, pc, locals, closed, syncNeeded, history>>

Unlock == mu' = Nobody /\ phase' = "none"

\* Variant with a fault: the channel stays open.
LeaveOpen == closed' = FALSE

\* The miner watches the channel only while it solves.
CloseChanged == closed' = (pc[Miner] = "solve")

\* The rest of HandleIncomingBlock: clear the mempool, stop the miner, unlock and
\* forward the block.
HandleIncomingBlockFinish(t) ==
  /\ up /\ mu = t /\ phase = "stored"
  /\ pool' = Remove(pool, IDs(blk[t].txs))
  /\ CloseChanged
  /\ Unlock
  /\ Done(t)
  /\ relayed' = relayed \cup {blk[t]}
  /\ UNCHANGED <<worldVars, up, file, chain, txIDs, offer, reorg, syncNeeded, known>>

-----------------------------------------------------------------------------
(* Synchronisation: ResolveConflicts for one peer after another *)

\* The ticker fires, or a request is taken from syncNeeded.
SyncBegin ==
  /\ up /\ pc[Syncer] = "idle"
  /\ pc' = [pc EXCEPT ![Syncer] = "fetch"]
  /\ syncNeeded' \in {syncNeeded, FALSE}
  /\ UNCHANGED <<worldVars, up, file, memory, mu, phase, locals, closed, history>>

\* The peer answers GET /chain with a valid chain, which may be old by the time
\* adopt has mu; or it fails, and the synchroniser goes on to its mempool.
SyncChain ==
  /\ up /\ pc[Syncer] = "fetch"
  /\ \/ \E c \in world :
          /\ ValidateChain(c, Sealed, now)
          /\ offer' = c
          /\ pc' = [pc EXCEPT ![Syncer] = "lock"]
     \/ /\ offer' = <<>>
        /\ pc' = [pc EXCEPT ![Syncer] = "mempool"]
  /\ UNCHANGED <<worldVars, up, file, memory, mu, phase, blk, reorg, closed,
                 syncNeeded, history>>

\* Variants with a fault: the live chain is not looked at; a tie replaces it; the
\* capacity of the mempool is ignored.
AdoptableAny(c) == Cardinality(PrepareReorg(pool, chain, c)) <= MaxPending

AdoptableTie(c) == Len(c) >= Len(chain) /\ AdoptableAny(c)

AdoptableOverfull(c) == BetterChain(c, chain)

\* What adopt asks of the chain it was offered, against the live chain.
Adoptable(c) ==
  /\ BetterChain(c, chain)
  /\ Cardinality(PrepareReorg(pool, chain, c)) <= MaxPending

AdoptRefused ==
  /\ up /\ mu = Nobody /\ pc[Syncer] = "lock"
  /\ ~ Adoptable(offer)
  /\ pc' = [pc EXCEPT ![Syncer] = "mempool"]
  /\ offer' = <<>>
  /\ UNCHANGED <<worldVars, up, file, memory, mu, phase, blk, reorg, closed,
                 syncNeeded, history>>

AdoptSaveFails ==
  /\ up /\ mu = Nobody /\ pc[Syncer] = "lock"
  /\ Adoptable(offer)
  /\ pc' = [pc EXCEPT ![Syncer] = "mempool"]
  /\ offer' = <<>>
  /\ UNCHANGED <<worldVars, up, file, memory, mu, phase, blk, reorg, closed,
                 syncNeeded, history>>

\* The orphans are collected before the file is renamed and installed after.
AdoptSave ==
  /\ up /\ mu = Nobody /\ pc[Syncer] = "lock"
  /\ ValidateChain(offer, Sealed, now)
  /\ Adoptable(offer)
  /\ reorg' = PrepareReorg(pool, chain, offer)
  /\ file' = offer
  /\ mu' = Syncer /\ phase' = "renamed"
  /\ pc' = [pc EXCEPT ![Syncer] = "commit"]
  /\ known' = known \cup TxsOf(offer)
  /\ UNCHANGED <<worldVars, up, memory, blk, offer, closed, syncNeeded, relayed>>

\* Variant with a fault: the ids of the old chain stay in the index.
ReplaceChainKeepsIndex ==
  /\ up /\ mu = Syncer /\ phase = "renamed"
  /\ chain' = offer /\ txIDs' = txIDs \cup Confirmed(offer)
  /\ phase' = "stored"
  /\ UNCHANGED <<worldVars, up, file, pool, mu, pc, locals, closed, syncNeeded, history>>

\* fs.chain is replaced and the index rebuilt.
ReplaceChainStore ==
  /\ up /\ mu = Syncer /\ phase = "renamed"
  /\ chain' = offer /\ txIDs' = Confirmed(offer)
  /\ phase' = "stored"
  /\ UNCHANGED <<worldVars, up, file, pool, mu, pc, locals, closed, syncNeeded, history>>

AdoptFinish ==
  /\ up /\ mu = Syncer /\ phase = "stored"
  /\ pool' = reorg
  /\ CloseChanged
  /\ Unlock
  /\ pc' = [pc EXCEPT ![Syncer] = "mempool"]
  /\ offer' = <<>> /\ reorg' = {}
  /\ UNCHANGED <<worldVars, up, file, chain, txIDs, blk, syncNeeded, history>>

\* The peer's pending messages have been submitted (SubmitTransaction): on to
\* the next peer, or the pass is over or out of time.
SyncNext ==
  /\ up /\ pc[Syncer] = "mempool"
  /\ \E next \in {"fetch", "idle"} : pc' = [pc EXCEPT ![Syncer] = next]
  /\ UNCHANGED <<worldVars, up, file, memory, mu, phase, locals, closed,
                 syncNeeded, history>>

-----------------------------------------------------------------------------
(* Mining *)

\* Variant with a fault: the parent's timestamp is ignored.
ClockOnly(a, b) == a

Larger(a, b) == IF a > b THEN a ELSE b

\* MineOnce: MiningWork reads tip, messages and channel under one lock.  The
\* hash is not known yet.  The clock is read after the unlock; a tick in between
\* has the effect of one before the lock, since a later clock only accepts more.
MiningWork ==
  /\ up /\ mu = Nobody /\ pc[Miner] = "idle"
  /\ pool # {}
  /\ pc' = [pc EXCEPT ![Miner] = "solve"]
  /\ blk' = [blk EXCEPT ![Miner] =
       [hash |-> NoHash, prev |-> Tip(chain).hash, index |-> Tip(chain).index + 1,
        timestamp |-> Larger(now, Tip(chain).timestamp), txs |-> FirstPending(pool)]]
  /\ closed' = FALSE
  /\ UNCHANGED <<worldVars, up, file, memory, mu, phase, offer, reorg, syncNeeded, history>>

\* Solve finds a nonce, perhaps just as the channel is closed.  The block is
\* validated like any other: past the end of the chain it is refused.
SolveFound ==
  /\ up /\ pc[Miner] = "solve"
  /\ \E c \in world :
       /\ Tip(c).hash = blk[Miner].prev
       /\ \E d \in Seal(c, blk[Miner].txs, blk[Miner].timestamp) :
            /\ world' = world \cup {d}
            /\ IF ValidateBlock(Tip(d), {Tip(d)}, now)
               THEN /\ pc' = [pc EXCEPT ![Miner] = "lock"]
                    /\ blk' = [blk EXCEPT ![Miner] = Tip(d)]
               ELSE Done(Miner)
  /\ closed' = FALSE
  /\ UNCHANGED <<now, up, file, memory, mu, phase, offer, reorg, syncNeeded, history>>

\* Solve returns ErrTipChanged.
SolveCancelled ==
  /\ up /\ pc[Miner] = "solve" /\ closed
  /\ Done(Miner)
  /\ closed' = FALSE
  /\ UNCHANGED <<worldVars, up, file, memory, mu, phase, offer, reorg, syncNeeded, history>>

-----------------------------------------------------------------------------
Next ==
  \/ PeerSeal \/ Tick \/ Start \/ Crash
  \/ \E t \in Handlers \cup {Syncer}, tx \in RawTransaction : SubmitTransaction(t, tx)
  \/ \E t \in Handlers, b \in Sealed : ReceiveBlock(t, b)
  \/ \E t \in Blockers :
       \/ AddBlockRefused(t)
       \/ AddBlockSaveFails(t)
       \/ AddBlockSave(t)
       \/ AddBlockStore(t)
       \/ HandleIncomingBlockFinish(t)
  \/ SyncBegin \/ SyncChain \/ AdoptRefused \/ AdoptSaveFails \/ AdoptSave
  \/ ReplaceChainStore \/ AdoptFinish \/ SyncNext
  \/ MiningWork \/ SolveFound \/ SolveCancelled

Spec == Init /\ [][Next]_vars

\* What the runtime guarantees: a goroutine that can run does, proof of work is
\* found, tickers fire, and a disk that fails now and then does not fail always.
Fairness ==
  /\ \A t \in Blockers :
       /\ WF_vars(AddBlockRefused(t))
       /\ SF_vars(AddBlockSave(t))
       /\ WF_vars(AddBlockStore(t))
       /\ WF_vars(HandleIncomingBlockFinish(t))
  /\ WF_vars(AdoptRefused) /\ SF_vars(AdoptSave)
  /\ WF_vars(ReplaceChainStore) /\ WF_vars(AdoptFinish)
  /\ SF_vars(MiningWork) /\ WF_vars(SolveFound) /\ WF_vars(SolveCancelled)

FairSpec == Spec /\ Fairness

-----------------------------------------------------------------------------
(* Properties *)

\* The messages that wait once the commit under way is through.
Pending ==
  IF phase = "none" THEN pool
  ELSE IF mu = Syncer THEN reorg
  ELSE Remove(pool, IDs(blk[mu].txs))

\* Whatever was saved, and wherever the process was killed, NewFileChainStorage loads
\* the file again: an accepted block never makes the chain invalid.  (The clock goes only
\* forward here; power losses and a clock set back are in Disk.)
FileReloads == file # <<>> => ValidateChain(file, Sealed, now)

\* Outside the window between the rename and the update of memory, the chain
\* that decisions are taken on is the one on disk, and its index is exact.
MemoryMatchesFile ==
  up /\ phase # "renamed" => chain = file /\ txIDs = Confirmed(file)

\* "Transaction IDs are unique across the confirmed chain and current mempool"
\* whenever mu is free, and the pool stays within its capacity.
PendingUnconfirmed ==
  up /\ mu = Nobody =>
    /\ IDs(pool) \cap txIDs = {}
    /\ UniqueIDs(pool)
    /\ Cardinality(pool) <= MaxPending

\* What ReadState returns, under mu, never misses an id that was accepted or
\* confirmed since the process started, through appends and reorganisations.
NoSilentLoss ==
  up /\ mu = Nobody => IDs(known) \subseteq txIDs \cup IDs(pool)

\* A miner whose channel is open works on the current tip, with messages that
\* are still pending.
WorkIsCurrent ==
  up /\ mu = Nobody /\ pc[Miner] = "solve" /\ ~closed =>
    /\ blk[Miner].prev = Tip(chain).hash
    /\ blk[Miner].txs \subseteq pool

\* A block this node mined can lose the race for the tip, but if it extends the
\* tip AddBlock has nothing else to hold against it, as long as the clock is not set back.
OwnBlockOnlyStale ==
  up /\ mu = Nobody /\ pc[Miner] = "lock" =>
    Stale(blk[Miner]) \/ Appendable(blk[Miner])

\* "A block is forwarded only after a successful append.  A second copy fails the
\* append": no block is broadcast twice, through duplicates, reorganisations and
\* restarts.
RelayedOnce ==
  [][\A t \in Blockers : HandleIncomingBlockFinish(t) => blk[t] \notin relayed]_vars

\* "A delayed peer response cannot roll back newer local progress": the durable
\* chain is only ever replaced by a better one.
FileProgress == [][file # <<>> /\ file' # file => BetterChain(file', file)]_vars

\* "Nothing is silently discarded": what was accepted or confirmed is kept with
\* its content, not only its id.  Two messages with one id refute this.
ContentKept ==
  up /\ mu = Nobody => known \subseteq TxsOf(chain) \cup pool

\* The node implements the atomic ledger; a commit takes effect at the rename.
L == INSTANCE Ledger WITH confirmed <- file, pending <- Pending

ImplementsLedger == L!Spec

\* An accepted message is confirmed, unless the process dies.
EventuallyConfirmed ==
  \A id \in TxIDs :
    (up /\ mu = Nobody /\ id \in IDs(pool)) ~> (~up \/ id \in txIDs)

-----------------------------------------------------------------------------
(* The inductive invariant behind the safety properties *)

\* mu is held exactly during a commit, and a dead process holds nothing.
LockInv ==
  /\ phase = "none" <=> mu = Nobody
  /\ \A t \in Threads : pc[t] = "commit" <=> mu = t
  /\ ~up => /\ mu = Nobody /\ pool = {} /\ known = {}
            /\ \A t \in Threads : pc[t] = "idle"

\* Where file and memory differ, the file holds what the commit will store.
StorageInv ==
  /\ \A c \in world : c # <<>>
  /\ up => file # <<>> /\ chain # <<>> /\ txIDs = Confirmed(chain)
  /\ up /\ phase # "renamed" => chain = file
  /\ phase = "renamed" =>
       file = (IF mu = Syncer THEN offer ELSE Append(chain, blk[mu]))

\* What a thread waits for mu with was validated, and still is valid.
HeldInv ==
  /\ \A t \in Blockers : pc[t] \in {"lock", "commit"} =>
       blk[t] \in Block /\ ValidateBlock(blk[t], Sealed, now)
  /\ pc[Miner] = "solve" => blk[Miner] \in Block
  /\ pc[Syncer] \in {"lock", "commit"} => ValidateChain(offer, Sealed, now)

\* PendingUnconfirmed and NoSilentLoss also during a commit, of what it will leave.
PoolInv ==
  up => /\ IDs(Pending) \cap Confirmed(file) = {}
        /\ UniqueIDs(Pending)
        /\ Cardinality(Pending) <= MaxPending
        /\ IDs(known) \subseteq Confirmed(file) \cup IDs(Pending)

\* Holds in every reachable state and is preserved by every step; it implies
\* MemoryMatchesFile, PendingUnconfirmed and NoSilentLoss.
Inv ==
  /\ TypeOK /\ LockInv /\ StorageInv /\ HeldInv /\ PoolInv
  /\ FileReloads /\ WorkIsCurrent

\* Hashes do not collide: a block has one parent in the world, and its hash names
\* one chain.
WorldInv ==
  /\ Genesis \in world
  /\ \A c, d \in world : Tip(c).hash = Tip(d).hash => c = d
  /\ \A d \in world \ {Genesis} :
       \E c \in world : d = Append(c, Tip(d)) /\ Tip(d).prev = Tip(c).hash

\* The chains a node holds are chains of sealed blocks.
ChainsInv == \A c \in {file, chain, offer} : c # <<>> => c \in world

\* What the miner works on fits the chain it began with.
MinerInv ==
  pc[Miner] \in {"solve", "lock"} =>
    \E c \in world :
      /\ Tip(c).hash = blk[Miner].prev
      /\ blk[Miner].timestamp >= Tip(c).timestamp
      /\ IDs(blk[Miner].txs) \cap Confirmed(c) = {}

\* The durable chain has gone past every block that was relayed, and what is being
\* appended was not relayed yet.
RelayInv ==
  /\ \A b \in relayed : \E c \in world : Tip(c) = b /\ (file = c \/ BetterChain(file, c))
  /\ mu \in Blockers => Tip(file) = blk[mu] /\ blk[mu] \notin relayed

\* Inv with what OwnBlockOnlyStale and RelayedOnce rest on.
NodeInv == Inv /\ WorldInv /\ ChainsInv /\ MinerInv /\ RelayInv

=============================================================================
