# Verification of the distributed P2P ledger

TLA+ specifications of the Go nodes of this repository and of its browser simulator,
checked with TLC on small instances, with safety proofs checked by TLAPS for every value
of the constants.
`PROJECT.json` lists components, runs, mutants, hazards, findings and theorems, and
maps each definition to the lines it models.

## 1. The system

A node keeps a chain of blocks of short text messages ("transactions") in one JSON
file, holds unconfirmed messages in memory, gossips both to two random peers over
HTTP, mines a block when messages are pending, and asks its peers for their chains
and mempools every few seconds.

| Part | State | Operations | Hard behaviour | Correct when |
| --- | --- | --- | --- | --- |
| `internal/models` | none | `ValidateTransaction`, `ValidateBlock`, `ValidateChain`, `BetterChain` | ties, limits, clock drift | chains are totally and strictly ordered; what is accepted stays valid |
| `internal/mempool` | map id -> message, at most `MaxPending` | `TryAdd`, `GetPending`, `Remove`, `PrepareReorg`, `Replace` | capacity, orphans | no id twice, none confirmed, never over capacity |
| `internal/storage` | file, chain in memory, id index, `RWMutex` | load, `AddBlock`, `ReplaceChain` | rename and memory are two steps; save may fail; crash between them | the file always loads, memory follows it, progress is never undone |
| `Gossip_Engine` | `mu`, `changed`, `syncNeeded`, `jobs`, `syncMu`, `nextPeer`, `peers` | `SubmitTransaction`, `HandleIncomingBlock`, `MiningWork`, `adopt`, `ResolveConflicts`, `broadcast`, `worker`, `NewGossipEngine` | handlers, synchroniser and miner race; answers are old; messages are lost, repeated, reordered; queue overflows; slow peers use up time and workers | each decision is atomic; nothing is lost; nodes converge; no peer starves; a commit never waits for the network |
| `internal/miner` | none between rounds | `MineOnce`, `Solve` | tip changes while solving | works on the current tip; messages are confirmed in the end |
| `internal/node` | the process, its goroutines and its listener | `Run` | crash, restart; shutdown while requests are inside decisions; a signal before `Serve` has begun; a server that fails | restart finds the ledger; `Run` returns with no goroutine of its own and no server at work; the port is released |
| `internal/api` | none | `POST /transaction /gossip /block`, GETs | requests in the middle of a commit | no answer is taken back |
| `docs/*.js` simulator | chain, mempool and miner per node, timers, packets, the fork demonstration | message, replay and fork buttons, `receiveTx`, `receiveChain`, `startMining`, `synchronize` | every `await` and timer lets others run in between | chains only get better, no message is forgotten, the demonstration ends |
| `scripts/`, `cmd/`, `config/` | - | - | - | not modelled |

Interaction: HTTP handlers, the synchroniser (`GossipEngine.Run`) and the miner are
goroutines of one process. They call the engine, which decides under `mu` on storage
and mempool. A commit closes the channel `changed`, which stops the miner. A block
that does not extend the tip puts a request into `syncNeeded`. Nodes only meet
through `POST /gossip`, `POST /block`, `GET /chain` and `GET /mempool`. The simulator is a
separate program: it follows the same rules but neither drives nor reads the nodes.

## 2. Modules

| Module | What it is |
| --- | --- |
| `Blocks` | package `models`: blocks, chains, validation, the order of chains |
| `Mempool` | package `mempool`: what each method does to the set of pending messages |
| `Ledger` | abstract specification: one atomic, durable ledger |
| `Node` | one node, goroutine by goroutine and step by step, in an open network |
| `Network` | several nodes with clients, gossip, mining, synchronisation and crashes |
| `Api` | the handlers of package `api` on top of `Node`: what clients are told |
| `Workers` | the queue of outgoing messages and the goroutines that send them |
| `SyncLoop` | the loop of `GossipEngine.Run` and the time its passes take |
| `AtomicFile` | abstract specification: a file that is replaced in one step |
| `Disk` | the chain file, system call by system call, on a machine that fails |
| `Lifecycle` | `node.Run` from start to return |
| `Peers` | how the peers' file is read |
| `Startup` | `Lifecycle` with the peers' file it reads |
| `Simulator` | the browser simulator |
| `MCNode`, `MCNetwork`, `MCApi`, `MCWorkers`, `MCStartup` | instances for TLC; the other modules are run as they are |
| `BlocksProofs`, `NodeProofs`, `NetworkProofs`, `WorkersProofs`, `SyncLoopProofs`, `DiskProofs`, `StartupProofs`, `SimulatorProofs` | lemmas and theorems; `NodeProofs` is also about `Ledger` and `Api`, `StartupProofs` about `Lifecycle` and `Peers` |

`Api` extends `Node`. `Workers` and `SyncLoop` look inside what `Network` takes as one
outcome per message and as fairness of `SyncGetChain`; `Disk` looks inside the steps
`AddBlockSave`, `AdoptSave` and `Start` of `Node`; `Lifecycle` is about the goroutines
that `Node`, `Workers` and `SyncLoop` describe one by one, and `Startup` puts `Peers` into its
step from opening the storage to binding the port.

Definitions called "variant with a fault" are not used by any specification. Each is
a plausible mistake in the definition after it, and `PROJECT.json` ("mutants") says
which property rejects it.

### Abstractions

* A hash is a number: code only compares hashes. `world` holds every chain that ends
  in a block somebody sealed; a block is valid work exactly when it is the tip of one
  of them. A header that was sealed before gets its old hash (`Solve` starts at nonce
  0), a new one gets any unused hash, so every outcome of a tie is explored. The map
  from headers to hashes is one-to-one: SHA-256 is taken to have no collisions.
* Version and difficulty are the same on all nodes, as the documentation asks.
* Message ids are numbers because `GetPending` sorts by id. A text is valid or not.
* A block's transactions are a set; their order only enters the hash.
* Time is a counter in units chosen so that `Drift` is small. It goes back only in `Disk`, so `FileReloads`
  and `OwnBlockOnlyStale` are about a clock that is not set back.
* A crash in `Node`, `Api` and `Network` is the death of the process; the kernel keeps what was
  renamed. Power losses are in `Disk`.
* A parse error, a wrong media type or an over-long body changes no state and is not
  an action.

### Node

State: `file` is `FilePath`; `chain`, `txIDs` are the fields of `FileChainStorage`;
`pool` is the mempool's map; `mu` is the owner of `GossipEngine.mu`; `closed` says
whether the channel that `MiningWork` handed to the miner has been closed;
`syncNeeded` is the channel of capacity one. `pc`, `blk`, `offer`, `reorg` are the
goroutines' locals; `phase` says how far a commit has come. `known` and `relayed` are
history for the properties.

| Actions | Code |
| --- | --- |
| `Start`, `Crash` | `NewFileChainStorage` in `node.Run`; death at any step |
| `SubmitTransaction` | the engine's function, for a handler or for the synchroniser |
| `ReceiveBlock` | `POST /block` up to `mu.Lock` |
| `AddBlockRefused`, `AddBlockSaveFails`, `AddBlockSave`, `AddBlockStore`, `HandleIncomingBlockFinish` | `HandleIncomingBlock` with `AddBlock` and `saveUnlocked` inside: refused; not saved; renamed; memory updated; mempool cleared, channel closed, unlocked, relayed |
| `SyncBegin`, `SyncChain`, `SyncNext` | `Run` and the loop of `ResolveConflicts` |
| `AdoptRefused`, `AdoptSaveFails`, `AdoptSave`, `ReplaceChainStore`, `AdoptFinish` | `adopt` with `PrepareReorg`, `ReplaceChain` and `Replace` |
| `MiningWork`, `SolveFound`, `SolveCancelled` | `MineOnce` and `Solve`; a nonce may be found although the channel is closed |
| `PeerSeal`, `Tick` | the environment: other nodes and the clock |

Peers are not trusted to be correct, only to pay for their work: their blocks may
repeat a confirmed id, carry invalid or no messages, or lie in the past or future (index
and parent always fit: a block whose do not is refused as stale like any other). A
sync request is answered with any chain that anybody ever had, or not at all.

The storage's and mempool's own locks are not variables. Every writer of both holds
`GossipEngine.mu`; the readers that do not (`GET /chain`, `/transactions`, `/mempool`)
take no decision, and `Api` is about what they see. Every validation is made once where the code repeats it while
nothing it reads can have changed to its disadvantage; the theorems show that the
repeated checks cannot fail (`HeldInv`).

### Network

Each operation of the engine is one step; `Node` and the proof that it implements
`Ledger` justify this for a node's own state. What is kept in steps is what the network pulls
apart: the answer to `GET /chain` is read in one step and compared in another, and a
message waits in `jobs` until it is delivered, delivered again, or lost. The queue
holds `MaxJobs` messages per sender and drops what does not fit.

### Ledger

A chain and a set of pending messages. `Accept` adds a message with an unknown id,
`Advance` moves to a better chain and in the same instant returns what it orphans and
removes what it confirms, `Die` loses the pending messages and nothing else. `Node`
implements it with `confirmed <- file` and `pending <- Pending`, which during a commit
is what the commit will leave in the mempool: a commit takes effect at the rename.

### Api

`answer` is the last a client of the running process heard of each id, `view` the last
chain, or tip of one, that anybody was shown. Every endpoint is an action: 202 and 409 of
`POST /transaction`, `GET /transaction/:id` and `/status` under `mu` (`ReadState`),
`/chain` and `/transactions` under the storage's lock alone, which excludes the moment
between rename and memory, and `/mempool` under neither.

### Workers

A job is one message to one peer. `Call` and `broadcast` are the end of a commit: the
call is made after `mu` was released and drops the job if the channel is full. A worker
is idle, has a request under way, waits between two attempts, or has stopped. `wire`
holds the requests a peer has yet to handle, which may happen after the sender's timeout
and after later attempts. The peers of `Prompt` jobs answer in time; nothing is assumed
of the others. A job is settled when a worker has received an answer that settles it; a request
that the peer handled after the sender's timeout is sent again.

### SyncLoop

Time within a pass is counted: `left` is the rest of the 10 s, and a request takes less
than `Timeout` if the peer is up and at most `Timeout` otherwise. Time spent on adopting a
chain counts as the request's. `since` counts the passes begun since a peer that is up was
last heard completely. `ResolveConflicts` has one caller, so its `TryLock` always succeeds
and `syncMu` is not a variable. `SyncAssumption` asks that two requests fit into a pass
(2 x 2 s and 10 s in the code).

### AtomicFile and Disk

A chain is a version number; saves only ever replace a chain by a better one, so
versions grow, and the tip of version `v` has the timestamp `v`. `name` is the file under
`FilePath`, `tmp` the temporary file, `kept` the files a power loss may leave under the
name: those since the last successful sync of the directory. A file whose data was not
synced may come back torn. `Kill` keeps what the kernel has; `PowerLoss` picks from
`kept`; `SetBack` moves the clock. `AtomicFile` has a whole version, a save that replaces
it, a flush, and a loss of what was not flushed; `Disk` implements it with
`file <- name.v`.

### Lifecycle

`Run` opens the storage, reads the peers, binds the port and only then starts the
goroutines; any of the first three may fail. It waits for a signal or for the server's
error, shuts the server down (all requests answered, or five seconds passed and the
connections cut while their handlers run on), cancels the goroutines' context and waits
for them. Goroutines and handlers lock and unlock `mu`. Requests of one connection and
the five seconds are nondeterministic. `End` is the loop's and the workers' stop
(`LoopStops`, `WorkersStop`) and the miner's.

`server.Serve` has a goroutine of its own and is only `launched` until it has registered
the listener. When the listener fails, Serve takes it off the server's list (`failing`)
before it closes it (`failed`). `server.Shutdown` closes only a registered listener, and `Run`
does not wait for Serve: after a signal in one of these two states `Run` may return nil
with the port still bound (`PortOpen`). No request is accepted then (`LifeInv`), and Serve
closes the port once it runs (`RunReturns`); when `Main` called `Run`, the end of the process does.

### Peers and Startup

A file is a sequence of lines, a parameter says what each is after trimming; two
spellings that trimming does not make equal are two peers. The errors
and the limit come in the order of the code. In `Startup` the file is read while `Run` is at
`pc = "engine"`; `Run` goes on when the file was read to its end and returns the error
otherwise. An empty file and the mode without a file are the same: no peers.

### Simulator

The actions are the callbacks of the page: buttons, timers, packets that arrive and the
parts of `receiveChain` before and after its `await`. A chain on its way and a chain in
validation are one set per node, since both only mean that it will be looked at later;
one that is not better than the live chain is dropped at once, because it will not be
better later (`OnlyBetter`). Equal packets under way are one, and one that can have no
effect any more is dropped. A handler that goes through all nodes (`synchronize`, replay, the
end of the demonstration) is one step. A block's hash is a number made of its parent's hash
and its messages: two blocks with the same parent and messages are one, and which of two
competing blocks is smaller is given by their messages.

## 3. Runs

| Run | Bounds | Shows |
| --- | --- | --- |
| `node_race` | 3 ids, 3 hashes, 3 blocks, blocks of 1, capacity 1, no clock | all interleavings of one handler, synchroniser and miner with crashes and failing saves; peers also repeat confirmed ids, and orphans fit or do not. `NodeInv` (with `TypeOK`), `MemoryMatchesFile`, `PendingUnconfirmed`, `NoSilentLoss`, `WorkIsCurrent`, `RelayedOnce`, `ImplementsLedger` |
| `node_clock` | 2 ids, 2 hashes, clock 0..1, drift 1, peers' times 0..2 | `FileReloads`, `OwnBlockOnlyStale`, `FileProgress` with blocks from past and future, empty and invalid ones |
| `node_live` | 2 ids, 4 hashes, silent peers | `EventuallyConfirmed` under `FairSpec` |
| `net_lossy` | 2 nodes, 2 ids, queue of 1, 1 crash | `NetInv` (with `NetTypeOK`), `EveryNodeIsALedger`, `Convergence`, `EverywhereConfirmed` |
| `api_clients` | 2 ids, 2 hashes, 1 handler beside the readers | `ApiInv`, `NoAnswerTakenBack`, `ReadsGoForward` |
| `workers` | 2 workers, 2 slow jobs and 1 prompt one, queue of 1, 2 attempts | `OneOwner`, `SettledIsNotSent`, `BroadcastReturns`, `QueueDrains`, `WorkersStop` |
| `sync` | 4 peers, timeout 1, pass of 5 | `TypeOK`, `NobodyStarves`, `EveryoneIsHeard`, `RequestHonoured`, `LoopStops` |
| `disk` | 5 versions, clock 0..3, skew 1, 4 faults | `SaveInv`, `Recoverable`, `IsAtomic`, `StartsAgain` |
| `lifecycle` | 2 requests; files of up to 3 lines of 6 kinds, limit of 1 peer | `LifeInv`, `ReturnsClean`, `KnowsItsPeers`, `RunReturns` |
| `simulator` | 2 nodes, 1 message and the demonstration, chains of 3, mempool of 1 | `SimInv`, `OnlyBetter`, `NothingForgotten`, `ForkEnds` |
| `node_content` | 1 id with 2 texts | finding: `ContentKept` is violated |
| `net_split` | 2 nodes, 4 ids, capacity 1 | finding: `Convergence` is violated |

The bounds are enough for the cases that matter: two competing blocks at the same
height and one on top of either give ties, longer forks and a reorganisation back;
two ids give a message that is orphaned and one that is confirmed on both forks, and the
third one that is pending meanwhile; one handler besides the miner and the synchroniser
gives every pair of committers, since `mu` admits one at a time; capacity 1 makes an orphan
compete with a pending message. The number of handlers is arbitrary in the theorems. In
`node_live` the four hashes are the four headers two messages can make, so no bound stops
the miner; the chain has room for both messages. `node_live` and the network runs have
`MaxChainBlocks` large enough that the end of the chain is not what they are about.
Convergence is checked for two nodes only.

In `workers` both workers can be held by slow peers while the prompt job fills the
queue; two attempts give a first, a last and a back-off. In `sync` the slow peers can use
up a pass before the last of the four is asked. Four faults in `disk` give a failed flush, a
kill, a power loss and a clock set back in one behaviour. In `lifecycle` two requests are
one that holds `mu` and one that waits for it or is cut off; three lines are a peer, a second
spelling of it, and one too many. In `simulator` the chain has room for one block of the
demonstration and one on top; with two nodes the fan-out reaches everyone, so which node a
packet misses is not explored, a missed packet is only a late one.

### Fairness

`Node`: a goroutine that can run runs (weak fairness for every step under `mu`). Strong
fairness for `AddBlockSave` and `AdoptSave`: a save may fail any number of times, but
not for ever, and whoever waits for a `sync.Mutex` gets it (Go's mutex hands over to a
waiter that starves). Strong fairness for `MiningWork`: the miner's ticker fires for
ever and `mu` is often free. `SolveFound`: proof of work at difficulty 1-4 is found.
Nothing is assumed of clients, peers or crashes.

`Network`: the tickers of the miner and the synchroniser fire for ever; a pass goes
through all peers, starting from another one each time, so a peer that is up again and
again is asked again and again (strong fairness of `SyncGetChain`); a stopped node is
started again. Nothing is assumed of gossip: with every message lost, the properties
must hold by synchronisation alone.

`Workers`: goroutines run, timers fire, every request ends with an answer or a timeout.
`Stop` is strongly fair: Go's `select` chooses at random among its ready cases, so a
context that is done is not overlooked for ever. Only prompt peers handle requests in the
end. `SyncLoop`: the loop runs, requests end, `Stop` as before; the ticker's fairness is a
hypothesis of `EveryoneIsHeard` only. `Disk`: the process runs and is started again (the compose files
restart it), the clock goes on, and the number of faults is finite. `Lifecycle`: `Run` and Serve's goroutine go
on, decisions under `mu` end, and a goroutine whose context is done ends although it may
lock `mu` again before; nothing is assumed of handlers; in `Startup` the file is read to its
end. `Simulator`: a validation ends and the demonstration goes on; timers, packets and the
miner may be as late as they like.

### Findings

* `net_split`: `adopt` refuses a better chain if its orphans and the pending messages
  exceed `MaxPending` (1000). When a partition lets each side confirm more than 1000
  messages that the other does not have, both sides refuse for ever after it heals; a
  retry changes nothing. `block.go:133` says that idle forks converge, and
  `DEVELOPMENT.md:53` presents the refusal as temporary. The run has capacity 1 and
  two messages per side, and its queue of capacity 0 stands for the partition.
* `node_content`: mempool and chain compare ids only. If two clients use one id for
  different texts on different nodes, the text that is not mined first is dropped,
  although it had been accepted; `DEVELOPMENT.md:53` says that nothing is silently
  discarded. By id nothing is lost (`NoSilentLoss`, proved).

## 4. Proofs

Every safety invariant and every action property that a run checks is also a theorem, for
every value of the constants.

### Assumptions

Those named in the modules. `BlocksAssumption`, `MempoolAssumption`, `NodeAssumption`:
finite sets of ids and texts, positive limits, distinct threads; nothing is assumed of the
number of handlers, of peers' blocks or of the clock's bound. `NetworkAssumption`: finitely
many nodes, and every header has a hash, as with SHA-256; that the hashes of different
headers differ is not needed for safety. `WorkersAssumption`: finitely many jobs, at
least one attempt. `SyncAssumption`: two requests fit into a pass (2 x 2 s and 10 s in the
code). `DiskAssumption`: the clock's bound leaves room for all versions.
`StartupAssumption`: the limit on peers is positive, the node's own address is a URL, no
comment is one. `SimulatorAssumption`: finitely many nodes and messages, numbered, and
positive limits.

### Node

`NodeInvariant` is `Spec => []Inv`. The safety properties are not inductive: they
speak of the moments at which `mu` is free, so a step that ends a commit cannot be
justified from them. `Inv` adds what holds meanwhile:

* `LockInv`: `mu` is held exactly while a thread commits; a dead process holds nothing;
* `StorageInv`: while file and memory differ, the file is what the commit will store;
* `HeldInv`: the block or chain with which a thread waits for `mu` was valid when it
  was checked and still is (the clock and `world` only grow: lemma `ValidStaysValid`);
* `PoolInv`: the mempool properties, of the messages the commit will leave and the
  file, so that they hold from the rename on;
* `FileReloads`, with lemma `AppendValid`: a block that passes `AddBlock`'s checks
  against tip and index extends a valid chain to a valid chain;
* `WorkIsCurrent`.

`InvNext` has a lemma per group of actions. From `Inv` follow `TypeCorrect`,
`AlwaysReloads`, `MemoryIsFile`, `PoolIsSound`, `NothingLost` and `MinesOnTip`.

`NodeHistory` adds what is true of all blocks ever sealed, by anybody, and of what the
node has done with them (`NodeInv`):

* `WorldInv`: they form a tree that grows from the genesis block, and a hash names one
  chain of it (`SealGrowsTree`);
* `ChainsInv`: every chain the node holds is in that tree;
* `MinerInv`: the block on which the miner works extends a chain of the tree, is not
  older than its tip and repeats none of its messages, even if the node has long left
  that chain;
* `RelayInv`: the durable chain is, or is better than, the chain of every block that was
  relayed, and a block that is being appended was not relayed before (`AppendIsNew`: its
  chain is longer than the tip it replaces, which is no worse than all of those).

`OwnBlocksAreGood` follows: the node's own block can only be refused as stale, however far
the clock went on meanwhile. `NoSecondBroadcast` follows too: since the durable chain only gets
better, a block that was left behind never comes back at the tip.

### Node implements Ledger

`NodeImplementsLedger`: the renames are `Advance` (`AddBlockAdvances`, `AdoptAdvances`), the
first start is `Open`, a submission is `Accept`, a crash is `Die`, and every other step, the
rest of a commit included, leaves `file` and `Pending` alone (`QuietSteps`).
`SameOperators` shows that the operators reached through the instance are the node's.
`NoRollback` follows in the same way. `BlocksProofs` has the facts about chains and pools,
among them that `BetterChain` is irreflexive, transitive and total up to the tip's hash, on
which convergence rests.

### Api

Every step of `Api` is a step of `Node` or leaves the node alone (`ApiImplementsNode`), so
that the node's theorems hold of it. `ClientsKnowledge` proves `ApiInv`, which is
inductive only together with `Inv`: `ToldInv` is about the moments at which `mu` is free;
`KnownInv` carries it through a commit, in the middle of which a reader without the lock
sees a mempool that is behind the chain: everything that can be shown, the commit's own
`reorg` included, was accepted or confirmed by this process, and by `NoSilentLoss` still is
afterwards. `ShownInv` compares what was shown with the file, not with memory, so that it
survives a crash. `NoLookupMisses` and `ReadersGoForward` follow.

### Network

`NodesStaySound` proves `NetInv`: `NodeSound` is about one node alone, because it trusts
nothing that it was sent (`SubmitSound`, `BlockSound`, `MinedBlock`, `AdoptSound`);
`StillSound` covers the nodes that a step does not concern. `QueuesOK` is the bound on
each sender's queue (`BroadcastFits`, `SmallerQueue`). `NodesAreLedgers` shows, for each node,
that a step of the network is a step of that node's ledger or a stutter (`Advances`,
`Dies`, and `SameForEveryNode` for the operators of the instance).

### Workers, SyncLoop, Disk

`JobsHaveOneOwner` proves `OneOwner`. That a job has one owner (`OnePlace`) is inductive,
but a settled job is only known not to be sent again with `Counted`: no request of a job
that is still with a caller or in the channel was posted, and none of a later attempt than
its worker's. `SettledStaysSettled` follows.

`RotationIsFair` proves `NobodyStarves` for any number of peers and any times of which two
requests fit into a pass. The count `since` alone is not inductive: a pass increases every
peer's. `Turn` relates it to the rotation: a peer has waited at most as many passes as
have begun since the last one that began with it (`Behind`), or it is the first of this
pass and is still being asked, before time can be short (`FirstStillAsked`).

`SaveIsOrdered` proves the inductive `SaveInv` for any number of versions and faults: up to
the rename memory is the file and the chain being saved is later, at the rename the
temporary file is whole and synced, and everything a power loss may leave is whole, no
older than the last flush and no newer than the file. `AlwaysRecoverable` follows, and
with it the refinement of `AtomicFile`: the rename is its save, the sync of the directory its
flush, a power loss its loss, and all other steps stutter.

### Lifecycle, Peers and Startup

`LifecycleOrdered` proves the inductive `LifeInv` for any number of requests: nothing runs
before the port is bound, from Shutdown on Serve accepts nothing even if it registers the
listener only then, no handler is left or will come unless an error records that some were
cut off, the server's own error is only reported when the port is closed, and `mu` belongs
to somebody who still runs. `NothingLeaks` follows. `StartImplementsLifecycle` carries both over to the start that
reads the peers' file line by line, and `PeersAreTheFiles` proves for every file that a node
that goes on knows the peers its lines name: the invariant says it of the lines read so
far, and there is a lemma for a line that adds a peer and one for a line that does not.

### Simulator

`SimulatorSound` proves `SimInv` for any number of nodes and messages. Two parts make it
inductive. `ChainsSound` is about every chain that is under way or in validation, not only
those that were adopted; in it the messages there can be (`About`) grow when the
demonstration mines its own. `MinersOnTip` says of a block that was found but not yet looked
at that it extends the live chain by one: it is better than that chain (`ExtensionIsBetter`),
so its validation ends in an adoption that resets `isMining`, or another chain is adopted
first and resets it. `ChainsOnlyImprove` and `NoMessageForgotten` follow.

When all nodes synchronise, one may get from the next what that one has just taken, so the
mempools are a fold over the nodes and, in it, over each node's neighbours. The
induction over such a fold is made by hand (`FoldStays`, `FoldExists`): of the sets for
which the claim fails take one with the fewest elements.

### Only model-checked

Liveness, which is out of the prover's reach: `EventuallyConfirmed`, `Convergence`,
`EverywhereConfirmed`, `BroadcastReturns`, `QueueDrains`, `WorkersStop`, `StartsAgain`,
`EveryoneIsHeard`, `RequestHonoured`, `LoopStops`, `RunReturns` and `ForkEnds`.

## 5. Not modelled

SHA-256 and encodings; JSON decoding, body limits and the status codes of requests that
change nothing; `ParseConfig`, the health check and `Main`'s exit codes; temporary files
that a kill leaves behind; a panic inside a handler; the page's DOM, layout and log; the
scripts. The hazards in `PROJECT.json` that no property covers say why.

## 6. Plan

Done: every part of the system that keeps state, and a theorem for every safety property.
Next:

1. `Network`: that all chains and blocks under way are of one tree, as `WorldInv` says for one
   node, and from it that two nodes whose chains neither finds better hold the same chain,
   which is what convergence rests on.
2. What links the modules: that a step of `Network` is a sequence of steps of `Node`, and that
   `Disk` justifies `AddBlockSave` and `AdoptSave` of `Node` as one step each.
