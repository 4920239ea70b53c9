------------------------------- MODULE Blocks -------------------------------
(***************************************************************************)
(* The protocol rules every node shares: package models (block.go and      *)
(* transactions.go).  Blocks, chains, their validation and the order       *)
(* between chains.                                                         *)
(*                                                                         *)
(* A hash is a number: only equality and order matter (BetterChain breaks  *)
(* ties by the smaller hash).  SHA-256 and the proof of work are an oracle *)
(* outside this module: "sealed" is the set of blocks whose hash has been  *)
(* computed over their own fields and meets the target.  Version and       *)
(* difficulty are the same on every node (a block with other ones is not   *)
(* sealed for this network).                                               *)
(***************************************************************************)
EXTENDS Integers, Sequences, FiniteSets

CONSTANTS
  TxIDs,                \* transaction ids; numbers, because the mempool sorts by id
  Payloads,             \* texts that ValidateTransaction accepts
  Blank,                \* a text that it refuses
  Hashes,               \* hashes of mined blocks
  MaxBlockTransactions, \* models.MaxBlockTransactions
  MaxChainBlocks,       \* models.MaxChainBlocks, genesis included
  Drift                 \* how far ahead of the clock a block may be (2 minutes)

ASSUME BlocksAssumption ==
  /\ TxIDs \subseteq Nat /\ IsFiniteSet(TxIDs)
  /\ IsFiniteSet(Payloads) /\ Blank \notin Payloads
  /\ Hashes \subseteq Nat \ {0}
  /\ MaxBlockTransactions \in Nat \ {0}
  /\ MaxChainBlocks \in Nat \ {0}
  /\ Drift \in Nat

NoHash      == -1       \* "": the parent of genesis, the hash before Solve
GenesisHash == 0
GenesisTime == 0

-----------------------------------------------------------------------------
(* transactions.go *)

RawTransaction == [id : TxIDs, data : Payloads \cup {Blank}]

ValidateTransaction(tx) == tx.data # Blank

Transaction == {tx \in RawTransaction : ValidateTransaction(tx)}

-----------------------------------------------------------------------------
(* block.go *)

\* The order of the transactions only enters the hash, so a set will do; a list
\* that names one twice is refused by ValidateBlock and left out.
Block == [hash      : Hashes \cup {GenesisHash, NoHash},
          prev      : Hashes \cup {GenesisHash, NoHash},
          index     : Nat,
          timestamp : Nat,
          txs       : SUBSET RawTransaction]

CreateGenesisBlock ==
  [hash |-> GenesisHash, prev |-> NoHash, index |-> 0,
   timestamp |-> GenesisTime, txs |-> {}]

IDs(txs) == {tx.id : tx \in txs}

UniqueIDs(txs) == \A s, t \in txs : s.id = t.id => s = t

Tip(chain) == chain[Len(chain)]

TxsOf(chain) == UNION {chain[i].txs : i \in DOMAIN chain}

\* The ids a chain confirms.
Confirmed(chain) == IDs(TxsOf(chain))

ValidateBlock(b, sealed, now) ==
  /\ b.index \in 1 .. MaxChainBlocks - 1
  /\ b.prev # NoHash
  /\ b.timestamp \in GenesisTime .. now + Drift
  /\ b.txs # {} /\ Cardinality(b.txs) <= MaxBlockTransactions
  /\ \A tx \in b.txs : ValidateTransaction(tx)
  /\ UniqueIDs(b.txs)
  /\ b \in sealed

Follows(b, parent) ==
  /\ b.index = parent.index + 1
  /\ b.prev = parent.hash
  /\ b.timestamp >= parent.timestamp

ValidateChain(chain, sealed, now) ==
  /\ Len(chain) \in 1 .. MaxChainBlocks
  /\ chain[1] = CreateGenesisBlock
  /\ \A i \in 2 .. Len(chain) :
       /\ ValidateBlock(chain[i], sealed, now)
       /\ chain[i].index = i - 1
       /\ chain[i].prev = chain[i-1].hash
       /\ chain[i].timestamp >= chain[i-1].timestamp
       /\ \A j \in 2 .. i - 1 : IDs(chain[j].txs) \cap IDs(chain[i].txs) = {}

\* Variant with a fault: no tie-break between chains of equal length.
LongerChain(candidate, current) == Len(candidate) > Len(current)

BetterChain(candidate, current) ==
  IF Len(candidate) # Len(current)
  THEN Len(candidate) > Len(current)
  ELSE Len(candidate) > 0 /\ Tip(candidate).hash < Tip(current).hash

=============================================================================
