----------------------------- MODULE Simulator -----------------------------
(***************************************************************************)
(* The browser simulator (docs/script.js and docs/simulator-core.js): the  *)
(* same ledger as an event loop.  Handlers run one at a time, but every    *)
(* await and every timer lets others run in between: a chain is validated  *)
(* while the node changes, a nonce is searched while blocks arrive, and    *)
(* the fork demonstration holds all of it back for a while.                *)
(*                                                                         *)
(* A block's hash is a number made of its parent's hash and its messages;  *)
(* only the order of hashes matters.                                       *)
(***************************************************************************)
EXTENDS Integers, Sequences, FiniteSets, FiniteSetsExt, SequencesExt

CONSTANTS
  Nodes,       \* the nodes of the page, numbers (0 to 5)
  NodeA, NodeC,\* the two on which the demonstration mines
  Messages,    \* ids of the messages a user sends; numbers, since pools are sorted
  ForkA, ForkB,\* ids of the messages of the fork demonstration
  Fanout,      \* getNeighbors: how many nodes a packet goes to (2)
  MaxChain,    \* blocks of a valid chain (10000)
  MaxBlock,    \* messages of a block (100)
  MaxPending   \* messages of a mempool (1000)

IDs == Messages \cup {ForkA, ForkB}

ASSUME SimulatorAssumption ==
  /\ IsFiniteSet(Nodes) /\ IsFiniteSet(Messages) /\ Nodes \subseteq Nat /\ {NodeA, NodeC} \subseteq Nodes
  /\ IDs = 0 .. Cardinality(IDs) - 1 /\ {ForkA, ForkB} \cap Messages = {} /\ ForkA # ForkB
  /\ Fanout \in Nat /\ {MaxChain, MaxBlock} \subseteq Nat \ {0} /\ MaxPending \in Nat \ {0}

VARIABLES
  chain, mempool,
  mining,      \* per node: "off" (isMining is false), or how far the attempt is
  work,        \* the chain it searches on and the messages it takes
  startTimer,  \* nodes with a timer that will call startMining
  checking,    \* per node, the chains on their way to it or in its validation
  txPackets,   \* <<node, id>> on their way
  snapshots,   \* <<node, chain>> that broadcastChain will send
  fork,        \* the demonstration: "no" (forkInProgress is false), its steps, "done"
  forkBase,
  lastMinedTx, \* the message the user may replay; -1 before there is one
  fresh        \* the messages not sent yet

local  == <<chain, mempool, mining, work>>
timers == <<startTimer, checking, txPackets, snapshots>>
page   == <<fork, forkBase, lastMinedTx, fresh>>
vars   == <<local, timers, page>>

Genesis == <<[hash |-> 0, ids |-> {}]>>
NoWork  == [base |-> Genesis, ids |-> {}]

Init ==
  /\ chain = [n \in Nodes |-> Genesis] /\ mempool = [n \in Nodes |-> {}]
  /\ mining = [n \in Nodes |-> "off"]
  /\ work = [n \in Nodes |-> NoWork]
  /\ startTimer = {} /\ checking = [n \in Nodes |-> {}]
  /\ txPackets = {} /\ snapshots = {}
  /\ fork = "no" /\ forkBase = Genesis
  /\ lastMinedTx = -1 /\ fresh = Messages

forkInProgress == fork \in {"setup", "race"}

-----------------------------------------------------------------------------
(* simulator-core.js *)

Tip(c)       == c[Len(c)]
Confirmed(c) == UNION {c[i].ids : i \in DOMAIN c}

\* hash: no two blocks have the same.
BlockHash(c, txs) == 2^Cardinality(IDs) * Tip(c).hash + SumSet({2^i : i \in txs})

mine(c, txs) == Append(c, [hash |-> BlockHash(c, txs), ids |-> txs])

better(candidate, current) ==
  IF Len(candidate) # Len(current) THEN Len(candidate) > Len(current)
  ELSE Tip(candidate).hash < Tip(current).hash

\* Variant with a fault: only pending messages are kept.
reconcilePending(old, new, pending) == pending \ Confirmed(new)

reconcile(old, new, pending) == (pending \cup Confirmed(old)) \ Confirmed(new)

\* The first k of a sorted list of messages.
FirstOf(txs, k) == {i \in txs : Cardinality({j \in txs : j < i}) < k}

-----------------------------------------------------------------------------
(* The methods of Node *)

\* Random others, in any order.
getNeighbors(n) ==
  {to \in SeqOf(Nodes \ {n}, Fanout) :
     IsInjective(to) /\ Len(to) = Min({Fanout, Cardinality(Nodes) - 1})}

Neighbors == UNION {getNeighbors(n) : n \in Nodes}

\* A node's mempool after receiveTx for each of these messages.
WithTxs(n, pool, txs) ==
  pool \cup FirstOf(txs \ (Confirmed(chain[n]) \cup pool), MaxPending - Cardinality(pool))

Unknown(pools, n, i) == i \notin pools[n] \cup Confirmed(chain[n])

\* What receiveTx does when nodes take messages, and their mempools become pools: each
\* message gets a timer for the miner and packets to neighbours.  Packets to nodes that know
\* their message by now will have no effect and are dropped.
Taking(pools, sent) ==
  /\ mempool' = pools
  /\ LET taken == {x \in Nodes \X IDs : x[2] \in mempool'[x[1]] \ mempool[x[1]]}
     IN  /\ startTimer' = startTimer \cup {x[1] : x \in taken}
         /\ \E to \in [taken -> Neighbors] :
              /\ \A x \in taken : to[x] \in getNeighbors(x[1])
              /\ txPackets' =
                   {y \in (txPackets \ sent) \cup UNION {Range(to[x]) \X {x[2]} : x \in taken} :
                      Unknown(mempool', y[1], y[2])}

receiveTx(n, i, sent) == Taking([mempool EXCEPT ![n] = WithTxs(n, @, {i})], sent)

\* Variant with a fault: the timer is stopped but isMining is not reset.
stopMiningKeepsFlag(n) ==
  /\ mining' = [mining EXCEPT ![n] = IF @ = "off" THEN @ ELSE "submitted"]
  /\ work' = [work EXCEPT ![n] = NoWork]

\* A stale attempt sees another generation and ends without effect.
stopMining(n) ==
  /\ mining' = [mining EXCEPT ![n] = "off"]
  /\ work' = [work EXCEPT ![n] = NoWork]

CanStart(n) == mining[n] = "off" /\ mempool[n] # {}

startMining(n) ==
  /\ n \in startTimer /\ startTimer' = startTimer \ {n}
  /\ mining' = IF CanStart(n) /\ ~ forkInProgress
               THEN [mining EXCEPT ![n] = "timer"] ELSE mining
  /\ UNCHANGED <<chain, mempool, work, checking, txPackets, snapshots, page>>

\* After the delay the attempt copies the chain and takes the first messages.
MiningTimer(n) ==
  /\ mining[n] = "timer" /\ mining' = [mining EXCEPT ![n] = "search"]
  /\ work' = [work EXCEPT ![n] = [base |-> chain[n], ids |-> FirstOf(mempool[n], MaxBlock)]]
  /\ UNCHANGED <<chain, mempool, timers, page>>

\* The nonce is found in the generation that looked for it.
Mined(n) ==
  /\ mining[n] = "search" /\ mining' = [mining EXCEPT ![n] = "submitted"]
  /\ checking' = [checking EXCEPT ![n] = @ \cup {mine(work[n].base, work[n].ids)}]
  /\ work' = [work EXCEPT ![n] = NoWork]
  /\ lastMinedTx' = Min(work[n].ids)
  /\ UNCHANGED <<chain, mempool, startTimer, txPackets, snapshots, fork, forkBase, fresh>>

\* receiveChain up to its await.  The live chain only gets better, so a chain that is
\* not better now will not be adopted after its validation either: it is dropped.
Arriving(n, c) == IF better(c, chain[n]) THEN checking[n] \cup {c} ELSE checking[n]

\* Variant with a fault: the comparison is made before the validation.
adoptsAny(n, c) == c # chain[n]

\* validChain (all chains here come from mine, only their length may be refused) and
\* the rest: "Snapshot first, then compare with the LIVE chain after async validation."
adopts(n, c) ==
  /\ Len(c) <= MaxChain
  /\ better(c, chain[n])
  /\ Cardinality(reconcile(chain[n], c, mempool[n])) <= MaxPending

\* receiveChain after its await.  A chain that is no longer better is dropped with it.
receiveChain(n, c) ==
  /\ c \in checking[n]
  /\ IF adopts(n, c)
     THEN /\ stopMining(n)
          /\ mempool' = [mempool EXCEPT ![n] = reconcile(chain[n], c, @)]
          /\ chain' = [chain EXCEPT ![n] = c]
          /\ IF ~ forkInProgress
             THEN snapshots' = snapshots \cup {<<n, c>>} /\ startTimer' = startTimer \cup {n}
             ELSE UNCHANGED <<snapshots, startTimer>>
     ELSE UNCHANGED <<mining, work, mempool, chain, snapshots, startTimer>>
  /\ checking' = [checking EXCEPT ![n] = {d \in @ \ {c} : better(d, chain'[n])}]
  /\ UNCHANGED <<txPackets, page>>

\* The timer of broadcastChain; nothing is sent during the demonstration.
broadcastChain(n, c) ==
  /\ <<n, c>> \in snapshots /\ snapshots' = snapshots \ {<<n, c>>}
  /\ IF ~ forkInProgress
     THEN \E to \in getNeighbors(n) :
            checking' = [t \in Nodes |-> IF t \in Range(to) THEN Arriving(t, c) ELSE checking[t]]
     ELSE UNCHANGED checking
  /\ UNCHANGED <<local, startTimer, txPackets, page>>

-----------------------------------------------------------------------------
(* The page *)

\* Packets arrive in any order.
TxArrives(n, i) ==
  /\ <<n, i>> \in txPackets /\ receiveTx(n, i, {<<n, i>>})
  /\ UNCHANGED <<chain, mining, work, checking, snapshots, page>>

\* The mempools after a node has asked its neighbours, one after the other.
Gather(n, to, pools) ==
  FoldLeft(LAMBDA p, m : [p EXCEPT ![n] = WithTxs(n, @, p[m])], pools, to)

\* The nodes ask in their order: what one has taken the next may get from it.
Gathered(to) ==
  MapThenFoldSet(LAMBDA n, pools : Gather(n, to[n], pools), mempool,
                 LAMBDA n : n, LAMBDA s : Max(s), Nodes)

Asked(to) ==
  /\ checking' = [n \in Nodes |-> checking[n] \cup UNION {Arriving(n, chain[p]) : p \in Range(to[n])}]
  /\ Taking(Gathered(to), {})

Partners == {to \in [Nodes -> Neighbors] : \A n \in Nodes : to[n] \in getNeighbors(n)}

\* Every five seconds each node reads chain and mempool of some others.
synchronize(to) ==
  /\ ~ forkInProgress
  /\ Asked(to)
  /\ UNCHANGED <<chain, mining, work, snapshots, page>>

\* The buttons, which are disabled during the demonstration.
SendMessage(n, i) ==
  /\ ~ forkInProgress /\ i \in fresh /\ fresh' = fresh \ {i}
  /\ receiveTx(n, i, {})
  /\ UNCHANGED <<chain, mining, work, checking, snapshots, fork, forkBase, lastMinedTx>>

\* The last mined message is given to every node again.
Replay ==
  /\ ~ forkInProgress /\ lastMinedTx # -1
  /\ Taking([n \in Nodes |-> WithTxs(n, mempool[n], {lastMinedTx})], {})
  /\ UNCHANGED <<chain, mining, work, checking, snapshots, page>>

-----------------------------------------------------------------------------
(* The fork demonstration, once *)

Best(c) == \A n \in Nodes : ~ better(chain[n], c)

ForkSetup ==
  /\ fork = "no" /\ fork' = "setup"
  /\ mining' = [n \in Nodes |-> "off"] /\ work' = [n \in Nodes |-> NoWork]
  /\ \E n \in Nodes : Best(chain[n]) /\ forkBase' = chain[n]
  /\ checking' = [n \in Nodes |-> Arriving(n, forkBase')]
  /\ UNCHANGED <<chain, mempool, startTimer, txPackets, snapshots, lastMinedTx, fresh>>

\* All nodes have looked at the common base: two blocks are mined on it.
ForkMine ==
  /\ fork = "setup" /\ fork' = "race"
  /\ \A n \in Nodes : forkBase \notin checking[n]
  /\ checking' = [checking EXCEPT ![NodeA] = @ \cup {mine(forkBase, {ForkA})},
                                  ![NodeC] = @ \cup {mine(forkBase, {ForkB})}]
  /\ forkBase' = Genesis
  /\ UNCHANGED <<local, startTimer, txPackets, snapshots, lastMinedTx, fresh>>

\* Variant with a fault: it waits until both blocks are in place.
ForkEndAdopted ==
  /\ fork = "race" /\ fork' = "done"
  /\ ForkA \in Confirmed(chain[NodeA]) /\ ForkB \in Confirmed(chain[NodeC])
  /\ snapshots' = snapshots \cup {<<n, chain[n]>> : n \in Nodes}
  /\ mining' = [n \in Nodes |-> IF CanStart(n) THEN "timer" ELSE mining[n]]
  /\ \E to \in Partners : Asked(to)
  /\ UNCHANGED <<chain, work, forkBase, lastMinedTx, fresh>>

\* Both nodes have looked at their block; every node sends its chain and mines,
\* and then all synchronise.
ForkEnd ==
  /\ fork = "race" /\ fork' = "done"
  /\ \A c \in checking[NodeA] : ForkA \notin Confirmed(c)
  /\ \A c \in checking[NodeC] : ForkB \notin Confirmed(c)
  /\ snapshots' = snapshots \cup {<<n, chain[n]>> : n \in Nodes}
  /\ mining' = [n \in Nodes |-> IF CanStart(n) THEN "timer" ELSE mining[n]]
  /\ \E to \in Partners : Asked(to)
  /\ UNCHANGED <<chain, work, forkBase, lastMinedTx, fresh>>

-----------------------------------------------------------------------------
Receive(n)   == \E c \in checking[n] : receiveChain(n, c)
Broadcast(n) == \E c \in {m[2] : m \in snapshots} : broadcastChain(n, c)

Next ==
  \/ \E n \in Nodes :
       \/ startMining(n) \/ MiningTimer(n) \/ Mined(n) \/ Receive(n) \/ Broadcast(n)
       \/ \E i \in IDs : TxArrives(n, i)
       \/ \E i \in Messages : SendMessage(n, i)
  \/ \E to \in Partners : synchronize(to)
  \/ Replay
  \/ ForkSetup \/ ForkMine \/ ForkEnd

Spec == Init /\ [][Next]_vars

\* Promises settle: a validation ends, and so do the steps of the demonstration.  Timers
\* and packets may be as late as they like.
FairSpec ==
  /\ Spec
  /\ \A n \in Nodes : WF_vars(Receive(n))
  /\ WF_vars(ForkMine) /\ WF_vars(ForkEnd)

-----------------------------------------------------------------------------
(* Properties *)

\* The messages there can be: the demonstration's own come with the blocks of its race.
About == IF fork \in {"no", "setup"} THEN Messages ELSE IDs

\* A chain of these messages in which none is twice.
Sound(c, ids) ==
  /\ c \in Seq(Range(c)) /\ c # <<>>
  /\ Confirmed(c) \subseteq ids
  /\ \A i, j \in DOMAIN c : i # j => c[i].ids \cap c[j].ids = {}

Extends(c, d) == Len(c) = Len(d) + 1 /\ SubSeq(c, 1, Len(d)) = d

TypeOK ==
  /\ chain = [n \in Nodes |-> chain[n]] /\ mempool \in [Nodes -> SUBSET About]
  /\ mining \in [Nodes -> {"off", "timer", "search", "submitted"}]
  /\ work = [n \in Nodes |-> work[n]] /\ checking = [n \in Nodes |-> checking[n]]
  /\ startTimer \subseteq Nodes /\ txPackets \subseteq Nodes \X About
  /\ fork \in {"no", "setup", "race", "done"}
  /\ lastMinedTx \in About \cup {-1} /\ fresh \subseteq Messages

\* Whatever a node may still look at is a chain without a replay.
ChainsSound ==
  /\ \A n \in Nodes : \A c \in {forkBase, chain[n]} \cup checking[n] : Sound(c, About)
  /\ \A s \in snapshots : Sound(s[2], About)

PoolsUnconfirmed ==
  \A n \in Nodes :
    Cardinality(mempool[n]) <= MaxPending /\ mempool[n] \cap Confirmed(chain[n]) = {}

MinersOnTip ==
  \A n \in Nodes :
    /\ mining[n] # "off" => mempool[n] # {} /\ ~ forkInProgress
    /\ mining[n] = "search" =>
         work[n].base = chain[n] /\ work[n].ids \subseteq mempool[n] /\ work[n].ids # {}
    /\ mining[n] = "submitted" /\ Len(chain[n]) < MaxChain =>
         \E c \in checking[n] : Extends(c, chain[n])

\* Through every await: no chain on its way replays a message, a node's pending messages
\* are unconfirmed, its miner works on the live chain with pending messages and rests
\* during the demonstration, and a block it has found is still going to be adopted, so
\* isMining cannot be left set.
SimInv == TypeOK /\ ChainsSound /\ PoolsUnconfirmed /\ MinersOnTip

\* A validation that ends late never takes a node back.
OnlyBetter == [][\A n \in Nodes : chain'[n] # chain[n] => better(chain'[n], chain[n])]_vars

\* No reorganisation and no race makes a node forget a message it has taken.
NothingForgotten ==
  [][\A n \in Nodes : mempool[n] \cup Confirmed(chain[n])
                        \subseteq mempool'[n] \cup Confirmed(chain'[n])]_vars

\* The demonstration ends and the buttons are enabled again.
ForkEnds == forkInProgress ~> ~ forkInProgress

=============================================================================
