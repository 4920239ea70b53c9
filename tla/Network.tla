------------------------------ MODULE Network ------------------------------
(***************************************************************************)
(* The nodes together: clients, gossip, block relay, mining and periodic   *)
(* synchronisation over a network that loses, repeats and delays what is   *)
(* sent, with nodes that crash and restart.  Each engine operation is      *)
(* atomic here; Node.tla shows that its steps implement such operations    *)
(* (both modules implement Ledger.tla).  Requests for a synchronisation    *)
(* need no variable: a pass may begin at any time.                         *)
(*                                                                         *)
(* The clock stands still, and the proof of work is a function HashOf of   *)
(* the header with distinct values: the one header, the one block.         *)
(***************************************************************************)
EXTENDS Mempool

CONSTANTS
  Nodes,
  Clients,        \* pairs of a node and a transaction somebody submits to it
  Fanout,         \* defaultFanout
  MaxJobs,        \* capacity of a node's queue of outgoing messages
  MaxCrashes,     \* bound on crashes
  HashOf(_, _)    \* the hash of a block with a given parent and transactions

ASSUME NetworkAssumption ==
  /\ IsFiniteSet(Nodes)
  /\ Clients \subseteq Nodes \X RawTransaction
  /\ Fanout \in Nat /\ MaxJobs \in Nat /\ MaxCrashes \in Nat
  /\ \A prev \in Hashes \cup {GenesisHash, NoHash}, txs \in SUBSET Transaction :
       HashOf(prev, txs) \in Hashes

VARIABLES
  up,       \* the nodes that run
  chain,    \* the chain of each node, on disk and in memory
  pool,     \* the mempool of each node
  jobs,     \* messages queued or under way
  offer,    \* the chain a node fetched and has not yet compared with its own
  crashes   \* how many crashes there were

vars == <<up, chain, pool, jobs, offer, crashes>>

Genesis == <<CreateGenesisBlock>>
Now     == GenesisTime

Job == [from : Nodes, to : Nodes, path : {"/gossip"}, body : RawTransaction]
       \cup [from : Nodes, to : Nodes, path : {"/block"}, body : Block]

\* Chains and pools have their types, no queue is over its capacity, and a node
\* that is down holds nothing but its file.
NetTypeOK ==
  /\ up \subseteq Nodes
  /\ chain \in [Nodes -> Seq(Block)]
  /\ pool \in [Nodes -> SUBSET Transaction]
  /\ jobs \subseteq Job
  /\ \A n \in Nodes : Cardinality({j \in jobs : j.from = n}) <= MaxJobs
  /\ offer \in [Nodes -> Seq(Block)]
  /\ \A n \in Nodes \ up : pool[n] = {} /\ offer[n] = <<>>
  /\ crashes \in 0 .. MaxCrashes

Init ==
  /\ up = Nodes
  /\ chain = [n \in Nodes |-> Genesis]
  /\ pool = [n \in Nodes |-> {}]
  /\ jobs = {}
  /\ offer = [n \in Nodes |-> <<>>]
  /\ crashes = 0

-----------------------------------------------------------------------------
(* Sending *)

\* Variant with a fault: the queue has no limit.
broadcastUnbounded(queue, n, path, body) ==
  {queue \cup {[from |-> n, to |-> p, path |-> path, body |-> body] : p \in ps} :
     ps \in {ps \in SUBSET (Nodes \ {n}) : Cardinality(ps) <= Fanout}}

\* The message goes to at most Fanout random peers; what the queue cannot take
\* is dropped.
broadcast(queue, n, path, body) ==
  {queue \cup {[from |-> n, to |-> p, path |-> path, body |-> body] : p \in ps} :
     ps \in {ps \in SUBSET (Nodes \ {n}) :
               /\ Cardinality(ps) <= Fanout
               /\ Cardinality(ps) + Cardinality({j \in queue : j.from = n}) <= MaxJobs}}

\* What is left when a worker has delivered j: its attempt may have timed out, and
\* then it sends j again.
AfterDelivery(j) == {jobs \ {j}, jobs}

-----------------------------------------------------------------------------
(* Messages *)

\* SubmitTransaction at n, with the queue as it is left by the caller.
SubmitTransaction(n, tx, queue) ==
  IF tx.id \notin Confirmed(chain[n]) /\ CanAdd(pool[n], tx)
  THEN /\ pool' = [pool EXCEPT ![n] = @ \cup {tx}]
       /\ jobs' \in broadcast(queue, n, "/gossip", tx)
  ELSE /\ jobs' = queue
       /\ UNCHANGED pool

ClientSubmit(n, tx) ==
  /\ n \in up
  /\ SubmitTransaction(n, tx, jobs)
  /\ UNCHANGED <<up, chain, offer, crashes>>

GossipReceive(j) ==
  /\ j.path = "/gossip" /\ j.to \in up
  /\ \E queue \in AfterDelivery(j) : SubmitTransaction(j.to, j.body, queue)
  /\ UNCHANGED <<up, chain, offer, crashes>>

-----------------------------------------------------------------------------
(* Blocks *)

\* AddBlock and what HandleIncomingBlock does after it.
HandleIncomingBlock(n, b, queue) ==
  IF /\ ValidateBlock(b, {b}, Now)
     /\ Follows(b, Tip(chain[n]))
     /\ IDs(b.txs) \cap Confirmed(chain[n]) = {}
  THEN /\ chain' = [chain EXCEPT ![n] = Append(@, b)]
       /\ pool' = [pool EXCEPT ![n] = Remove(@, IDs(b.txs))]
       /\ jobs' \in broadcast(queue, n, "/block", b)
  ELSE /\ jobs' = queue
       /\ UNCHANGED <<chain, pool>>

ReceiveBlock(j) ==
  /\ j.path = "/block" /\ j.to \in up
  /\ \E queue \in AfterDelivery(j) : HandleIncomingBlock(j.to, j.body, queue)
  /\ UNCHANGED <<up, offer, crashes>>

MineOnce(n) ==
  LET txs == FirstPending(pool[n])
      tip == Tip(chain[n])
      b   == [hash |-> HashOf(tip.hash, txs), prev |-> tip.hash, index |-> tip.index + 1,
              timestamp |-> tip.timestamp, txs |-> txs]
  IN  /\ n \in up /\ pool[n] # {}
      /\ HandleIncomingBlock(n, b, jobs)
      /\ UNCHANGED <<up, offer, crashes>>

\* The last attempt fails, or the peer answers that it does not want the message.
Lose(j) ==
  /\ jobs' = jobs \ {j}
  /\ UNCHANGED <<up, chain, pool, offer, crashes>>

-----------------------------------------------------------------------------
(* Synchronisation *)

SyncGetChain(n, m) ==
  /\ {n, m} \subseteq up /\ n # m /\ offer[n] = <<>>
  /\ offer' = [offer EXCEPT ![n] = chain[m]]
  /\ UNCHANGED <<up, chain, pool, jobs, crashes>>

\* Variant with a fault: the answer replaces the chain the node has by now.
SyncAdoptBlindly(n) ==
  /\ n \in up /\ offer[n] # <<>>
  /\ chain' = [chain EXCEPT ![n] = offer[n]]
  /\ pool' = [pool EXCEPT ![n] = PrepareReorg(@, chain[n], offer[n])]
  /\ offer' = [offer EXCEPT ![n] = <<>>]
  /\ UNCHANGED <<up, jobs, crashes>>

\* adopt: the answer is compared with the chain the node has by now.
SyncAdopt(n) ==
  /\ n \in up /\ offer[n] # <<>>
  /\ LET next == PrepareReorg(pool[n], chain[n], offer[n])
     IN  IF /\ ValidateChain(offer[n], {offer[n][i] : i \in DOMAIN offer[n]}, Now)
            /\ BetterChain(offer[n], chain[n])
            /\ Cardinality(next) <= MaxPending
         THEN /\ chain' = [chain EXCEPT ![n] = offer[n]]
              /\ pool' = [pool EXCEPT ![n] = next]
         ELSE UNCHANGED <<chain, pool>>
  /\ offer' = [offer EXCEPT ![n] = <<>>]
  /\ UNCHANGED <<up, jobs, crashes>>

\* One message of the peer's mempool, read and submitted in one step.  (In Node.tla
\* the synchroniser submits any message, however old the peer's answer is.)
SyncMempool(n, m, tx) ==
  /\ {n, m} \subseteq up /\ n # m /\ offer[n] = <<>>
  /\ tx \in pool[m]
  /\ SubmitTransaction(n, tx, jobs)
  /\ UNCHANGED <<up, chain, offer, crashes>>

-----------------------------------------------------------------------------
(* Crashes *)

\* The queue is lost with the process; a message under way may still arrive.
Crash(n) ==
  /\ n \in up /\ crashes < MaxCrashes
  /\ crashes' = crashes + 1
  /\ up' = up \ {n}
  /\ pool' = [pool EXCEPT ![n] = {}]
  /\ offer' = [offer EXCEPT ![n] = <<>>]
  /\ \E lost \in SUBSET {j \in jobs : j.from = n} : jobs' = jobs \ lost
  /\ UNCHANGED chain

Restart(n) ==
  /\ n \notin up
  /\ up' = up \cup {n}
  /\ UNCHANGED <<chain, pool, jobs, offer, crashes>>

-----------------------------------------------------------------------------
Next ==
  \/ \E c \in Clients : ClientSubmit(c[1], c[2])
  \/ \E j \in jobs : GossipReceive(j) \/ ReceiveBlock(j) \/ Lose(j)
  \/ \E n \in Nodes : MineOnce(n) \/ SyncAdopt(n) \/ Crash(n) \/ Restart(n)
  \/ \E n, m \in Nodes : SyncGetChain(n, m)
  \/ \E n, m \in Nodes : \E tx \in pool[m] : SyncMempool(n, m, tx)

Spec == Init /\ [][Next]_vars

\* Run's ticker begins a pass again and again and the pass asks every peer in
\* turn; the miner's ticker fires again and again; a node is restarted.  Nothing
\* is assumed of gossip.
Fairness ==
  \A n \in Nodes :
    /\ WF_vars(MineOnce(n)) /\ WF_vars(SyncAdopt(n)) /\ WF_vars(Restart(n))
    /\ \A m \in Nodes \ {n} : SF_vars(SyncGetChain(n, m))

FairSpec == Spec /\ Fairness

-----------------------------------------------------------------------------
(* Properties *)

\* Every node of the network behaves as the ledger Node.tla implements.
LN(n) == INSTANCE Ledger WITH confirmed <- chain[n], pending <- pool[n]

\* Each node only moves to better chains and loses messages only by crashing,
\* whatever the others and the network do.
EveryNodeIsALedger ==
  [][\A n \in Nodes : LN(n)!Next \/ UNCHANGED <<chain[n], pool[n]>>]_vars

\* "The smaller tip hash breaks equal-length ties so idle forks also converge":
\* in the end all nodes hold the same chain for good.
Convergence == <>[](\A n, m \in Nodes : chain[n] = chain[m])

\* A message that waits at a node which does not crash any more is in the end
\* confirmed on every node for good, though its block may be orphaned meanwhile.
EverywhereConfirmed ==
  \A id \in TxIDs :
    (crashes = MaxCrashes /\ \E n \in Nodes : id \in IDs(pool[n]))
      ~> [](\A n \in Nodes : id \in Confirmed(chain[n]))

-----------------------------------------------------------------------------
(* The inductive invariant behind NetTypeOK and EveryNodeIsALedger *)

BlocksOf(c) == {c[i] : i \in DOMAIN c}

\* What a node holds is sound by itself: it trusts nothing that it was sent.
NodeSound(n) ==
  /\ ValidateChain(chain[n], BlocksOf(chain[n]), Now)
  /\ IDs(pool[n]) \cap Confirmed(chain[n]) = {}
  /\ UniqueIDs(pool[n])
  /\ Cardinality(pool[n]) <= MaxPending

\* Every node is sound and no queue overflows, whatever is lost, repeated or late.
NetInv ==
  /\ NetTypeOK
  /\ IsFiniteSet(jobs)
  /\ \A n \in Nodes : NodeSound(n)

=============================================================================
