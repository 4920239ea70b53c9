---------------------------- MODULE BlocksProofs ----------------------------
(***************************************************************************)
(* Facts about blocks, chains and the mempool that hold for every value of *)
(* the constants and on which the theorems about the node rest.            *)
(***************************************************************************)
EXTENDS Mempool, FiniteSetTheorems, TLAPS

\* The tip of a chain is a block, and hashes can be compared.
LEMMA TipType ==
  ASSUME NEW c \in Seq(Block)
  PROVE  /\ Len(c) \in Nat
         /\ c # <<>> <=> Len(c) > 0
         /\ Len(c) > 0 => Tip(c) \in Block /\ Tip(c).hash \in Int
<1>1. Len(c) \in Nat /\ (c # <<>> <=> Len(c) > 0)
  OBVIOUS
<1>2. Len(c) > 0 => Tip(c) \in Block
  BY <1>1 DEF Tip
<1>3. \A b \in Block : b.hash \in Int
  <2>1. Hashes \cup {GenesisHash, NoHash} \subseteq Int
    BY BlocksAssumption DEF GenesisHash, NoHash
  <2> QED  BY <2>1 DEF Block
<1> QED  BY <1>1, <1>2, <1>3

-----------------------------------------------------------------------------
(* The order on chains *)

\* BetterChain, which decides every reorganisation, is irreflexive: a node never
\* swaps its chain for itself.
LEMMA BetterIrreflexive ==
  ASSUME NEW c \in Seq(Block)
  PROVE  ~ BetterChain(c, c)
BY TipType DEF BetterChain

\* BetterChain is transitive: after any number of reorganisations a node is on a
\* better chain than it was before.
LEMMA BetterTransitive ==
  ASSUME NEW c \in Seq(Block), NEW d \in Seq(Block), NEW e \in Seq(Block),
         BetterChain(c, d), BetterChain(d, e)
  PROVE  BetterChain(c, e)
<1>1. \A s \in {c, d, e} : Len(s) \in Nat /\ (Len(s) > 0 => Tip(s).hash \in Int)
  BY TipType
<1> QED  BY <1>1 DEF BetterChain

\* Two nodes on different tips of the same height agree on which of them moves:
\* the order is total up to the hash of the tip.
LEMMA BetterTotal ==
  ASSUME NEW c \in Seq(Block), NEW d \in Seq(Block), c # <<>>, d # <<>>,
         Tip(c).hash # Tip(d).hash
  PROVE  BetterChain(c, d) \/ BetterChain(d, c)
<1>1. \A s \in {c, d} : Len(s) \in Nat \ {0} /\ Tip(s).hash \in Int
  BY TipType
<1> QED  BY <1>1 DEF BetterChain

-----------------------------------------------------------------------------
(* Chains and the ids they confirm *)

\* AddBlock extends the chain at its tip.
LEMMA AppendChain ==
  ASSUME NEW c \in Seq(Block), NEW b \in Block
  PROVE  /\ Append(c, b) \in Seq(Block)
         /\ Len(Append(c, b)) = Len(c) + 1
         /\ Append(c, b) # <<>>
         /\ Tip(Append(c, b)) = b
         /\ DOMAIN Append(c, b) = 1 .. Len(c) + 1
         /\ \A i \in 1 .. Len(c) : Append(c, b)[i] = c[i]
         /\ Append(c, b)[Len(c) + 1] = b
BY DEF Tip

\* The index AddBlock extends by the ids of the block stays exact.
LEMMA AppendConfirmed ==
  ASSUME NEW c \in Seq(Block), NEW b \in Block
  PROVE  /\ TxsOf(Append(c, b)) = TxsOf(c) \cup b.txs
         /\ Confirmed(Append(c, b)) = Confirmed(c) \cup IDs(b.txs)
<1>1. TxsOf(Append(c, b)) = TxsOf(c) \cup b.txs
  <2> DEFINE d == Append(c, b)
  <2>1. DOMAIN d = 1 .. Len(c) + 1 /\ DOMAIN c = 1 .. Len(c) /\ Len(c) \in Nat
    BY AppendChain
  <2>2. \A i \in 1 .. Len(c) : d[i] = c[i]
    BY AppendChain
  <2>3. d[Len(c) + 1] = b
    BY AppendChain
  <2>4. \A i : i \in 1 .. Len(c) + 1 <=> i \in 1 .. Len(c) \/ i = Len(c) + 1
    BY <2>1
  <2> HIDE DEF d
  <2>5. \A tx : tx \in TxsOf(d) <=> \E i \in 1 .. Len(c) + 1 : tx \in d[i].txs
    BY <2>1 DEF TxsOf
  <2>6. \A tx : tx \in TxsOf(c) <=> \E i \in 1 .. Len(c) : tx \in c[i].txs
    BY <2>1 DEF TxsOf
  <2>7. \A tx : tx \in TxsOf(d) <=> tx \in TxsOf(c) \cup b.txs
    BY <2>2, <2>3, <2>4, <2>5, <2>6
  <2> QED  BY <2>7 DEF d
<1> QED  BY <1>1 DEF Confirmed, IDs

\* The transactions of a chain have their type.
LEMMA TxsOfType ==
  ASSUME NEW c \in Seq(Block)
  PROVE  TxsOf(c) \subseteq RawTransaction /\ Confirmed(c) \subseteq TxIDs
<1>1. \A i \in DOMAIN c : c[i] \in Block
  OBVIOUS
<1>2. TxsOf(c) \subseteq RawTransaction
  BY <1>1 DEF TxsOf, Block
<1> QED  BY <1>2 DEF Confirmed, IDs, RawTransaction

\* The genesis chain confirms nothing.
LEMMA GenesisChain ==
  /\ CreateGenesisBlock \in Block
  /\ <<CreateGenesisBlock>> \in Seq(Block)
  /\ TxsOf(<<CreateGenesisBlock>>) = {}
  /\ Confirmed(<<CreateGenesisBlock>>) = {}
<1>1. CreateGenesisBlock \in Block
  BY DEF CreateGenesisBlock, Block, GenesisHash, NoHash, GenesisTime
<1>2. <<CreateGenesisBlock>> \in Seq(Block)
  BY <1>1
<1>3. TxsOf(<<CreateGenesisBlock>>) = {}
  BY DEF TxsOf, CreateGenesisBlock
<1> QED  BY <1>1, <1>2, <1>3 DEF Confirmed, IDs

-----------------------------------------------------------------------------
(* Validation *)

\* A block or chain that was valid stays valid as time passes and more blocks
\* are sealed: what was checked before waiting for the lock still holds after.
LEMMA ValidStaysValid ==
  ASSUME NEW sealed, NEW more, sealed \subseteq more,
         NEW t \in Nat, NEW u \in Nat, t <= u
  PROVE  /\ \A b \in Block : ValidateBlock(b, sealed, t) => ValidateBlock(b, more, u)
         /\ \A c \in Seq(Block) : ValidateChain(c, sealed, t) => ValidateChain(c, more, u)
<1>1. \A b \in Block : ValidateBlock(b, sealed, t) => ValidateBlock(b, more, u)
  BY BlocksAssumption DEF ValidateBlock, Block, GenesisTime
<1>2. ASSUME NEW c \in Seq(Block), ValidateChain(c, sealed, t)
      PROVE  ValidateChain(c, more, u)
  <2>1. \A i \in 2 .. Len(c) : c[i] \in Block
    OBVIOUS
  <2> QED  BY <1>1, <1>2, <2>1 DEF ValidateChain
<1> QED  BY <1>1, <1>2

\* The transactions of a valid chain are valid.
LEMMA ValidChainTxs ==
  ASSUME NEW c \in Seq(Block), NEW sealed, NEW t, ValidateChain(c, sealed, t)
  PROVE  TxsOf(c) \subseteq Transaction
<1>1. ASSUME NEW i \in DOMAIN c, NEW tx \in c[i].txs
      PROVE  ValidateTransaction(tx)
  <2>1. CASE i = 1
    BY <2>1, <1>1 DEF ValidateChain, CreateGenesisBlock
  <2>2. CASE i # 1
    <3>1. i \in 2 .. Len(c)
      BY <2>2
    <3> QED  BY <3>1, <1>1 DEF ValidateChain, ValidateBlock
  <2> QED  BY <2>1, <2>2
<1> QED  BY <1>1, TxsOfType DEF TxsOf, Transaction

\* A valid chain confirms every id once.
LEMMA ValidChainUnique ==
  ASSUME NEW c \in Seq(Block), NEW sealed, NEW t, ValidateChain(c, sealed, t)
  PROVE  UniqueIDs(TxsOf(c))
<1>1. \A i \in DOMAIN c : UniqueIDs(c[i].txs)
  <2> SUFFICES ASSUME NEW i \in DOMAIN c PROVE UniqueIDs(c[i].txs)
    OBVIOUS
  <2>1. CASE i = 1
    BY <2>1 DEF ValidateChain, CreateGenesisBlock, UniqueIDs
  <2>2. CASE i # 1
    <3>1. i \in 2 .. Len(c)
      BY <2>2
    <3> QED  BY <3>1 DEF ValidateChain, ValidateBlock
  <2> QED  BY <2>1, <2>2
<1>2. ASSUME NEW i \in DOMAIN c, NEW j \in DOMAIN c, j < i
      PROVE  IDs(c[j].txs) \cap IDs(c[i].txs) = {}
  <2>1. i \in 2 .. Len(c)
    BY <1>2
  <2>2. CASE j = 1
    BY <2>2 DEF ValidateChain, CreateGenesisBlock, IDs
  <2>3. CASE j # 1
    <3>1. j \in 2 .. i - 1
      BY <1>2, <2>3
    <3> QED  BY <2>1, <3>1 DEF ValidateChain
  <2> QED  BY <2>2, <2>3
<1>3. ASSUME NEW i \in DOMAIN c, NEW j \in DOMAIN c,
             NEW x \in c[i].txs, NEW y \in c[j].txs, x.id = y.id
      PROVE  i = j
  <2>1. x.id \in IDs(c[i].txs) /\ x.id \in IDs(c[j].txs)
    BY <1>3 DEF IDs
  <2>2. ~ (i < j) /\ ~ (j < i)
    BY <1>2, <2>1
  <2> QED  BY <2>2
<1> QED  BY <1>1, <1>3 DEF UniqueIDs, TxsOf

\* In a valid chain every block follows its parent and no id occurs twice.
LEMMA ValidChainShape ==
  ASSUME NEW c \in Seq(Block), NEW sealed, NEW t, ValidateChain(c, sealed, t)
  PROVE  /\ c[1] = CreateGenesisBlock
         /\ \A i \in 2 .. Len(c) : Follows(c[i], c[i-1])
         /\ \A i, j \in DOMAIN c : i # j => IDs(c[i].txs) \cap IDs(c[j].txs) = {}
<1>1. c[1] = CreateGenesisBlock /\ Len(c) \in Nat
  BY DEF ValidateChain
<1>2. ASSUME NEW i \in 2 .. Len(c)
      PROVE  Follows(c[i], c[i-1])
  <2>1. c[i].index = i - 1 /\ c[i].prev = c[i-1].hash /\ c[i].timestamp >= c[i-1].timestamp
    BY DEF ValidateChain
  <2>2. c[i-1].index = i - 2
    <3>1. CASE i = 2
      BY <1>1, <3>1 DEF CreateGenesisBlock
    <3>2. CASE i # 2
      <4>1. i - 1 \in 2 .. Len(c)
        BY <1>1, <3>2
      <4> QED  BY <4>1 DEF ValidateChain
    <3> QED  BY <3>1, <3>2
  <2> QED  BY <2>1, <2>2 DEF Follows
<1>3. ASSUME NEW i \in DOMAIN c, NEW j \in DOMAIN c, i # j
      PROVE  IDs(c[i].txs) \cap IDs(c[j].txs) = {}
  <2>1. ASSUME NEW k \in DOMAIN c, NEW l \in DOMAIN c, l < k
        PROVE  IDs(c[l].txs) \cap IDs(c[k].txs) = {}
    <3>1. k \in 2 .. Len(c)
      BY <2>1
    <3>2. CASE l = 1
      BY <3>2, <1>1 DEF CreateGenesisBlock, IDs
    <3>3. CASE l # 1
      <4>1. l \in 2 .. k - 1
        BY <2>1, <3>3
      <4> QED  BY <3>1, <4>1 DEF ValidateChain
    <3> QED  BY <3>2, <3>3
  <2>2. i < j \/ j < i
    BY <1>3
  <2> QED  BY <2>1, <2>2
<1> QED  BY <1>1, <1>2, <1>3

\* What AddBlock checks is enough: a valid block that follows the tip and repeats
\* no confirmed id makes a valid chain of a valid chain.
LEMMA AppendValid ==
  ASSUME NEW c \in Seq(Block), NEW b \in Block, NEW sealed, NEW t \in Nat,
         ValidateChain(c, sealed, t), ValidateBlock(b, sealed, t),
         Follows(b, Tip(c)), IDs(b.txs) \cap Confirmed(c) = {}
  PROVE  ValidateChain(Append(c, b), sealed, t)
<1> DEFINE d == Append(c, b)
<1>1. Len(c) \in 1 .. MaxChainBlocks /\ MaxChainBlocks \in Nat /\ Len(c) \in Nat
  BY BlocksAssumption DEF ValidateChain
<1>2. /\ Len(d) = Len(c) + 1
      /\ \A i \in 1 .. Len(c) : d[i] = c[i]
      /\ d[Len(c) + 1] = b
  BY AppendChain
<1>3. Tip(c).index = Len(c) - 1
  <2>1. CASE Len(c) = 1
    BY <2>1 DEF Tip, ValidateChain, CreateGenesisBlock
  <2>2. CASE Len(c) # 1
    <3>1. \A n \in Nat : n >= 1 /\ n # 1 => n \in 2 .. n
      OBVIOUS
    <3>2. \A i \in 2 .. Len(c) : c[i].index = i - 1
      BY DEF ValidateChain
    <3>3. Len(c) \in Nat /\ Len(c) >= 1
      BY <1>1
    <3>4. Len(c) \in 2 .. Len(c)
      BY <2>2, <3>1, <3>3, Zenon
    <3> QED  BY <3>2, <3>4 DEF Tip
  <2> QED  BY <2>1, <2>2
<1>4. b.index = Len(c) /\ Len(c) <= MaxChainBlocks - 1
  BY <1>1, <1>3 DEF Follows, ValidateBlock
<1>5. \A j \in 1 .. Len(c) : IDs(c[j].txs) \subseteq Confirmed(c)
  BY DEF Confirmed, TxsOf, IDs
<1> HIDE DEF d
<1>6. ASSUME NEW i \in 2 .. Len(d)
      PROVE  /\ ValidateBlock(d[i], sealed, t)
             /\ d[i].index = i - 1
             /\ d[i].prev = d[i-1].hash
             /\ d[i].timestamp >= d[i-1].timestamp
             /\ \A j \in 2 .. i - 1 : IDs(d[j].txs) \cap IDs(d[i].txs) = {}
  <2>1. CASE i = Len(c) + 1
    <3>1. d[i] = b /\ d[i-1] = Tip(c)
      BY <2>1, <1>1, <1>2 DEF Tip
    <3>2. \A j \in 2 .. i - 1 : d[j] = c[j] /\ j \in 1 .. Len(c)
      BY <2>1, <1>1, <1>2
    <3> QED  BY <3>1, <3>2, <2>1, <1>1, <1>4, <1>5 DEF Follows
  <2>2. CASE i # Len(c) + 1
    <3>1. i \in 2 .. Len(c) /\ i - 1 \in 1 .. Len(c)
      BY <2>2, <1>1, <1>2
    <3>2. d[i] = c[i] /\ d[i-1] = c[i-1] /\ \A j \in 2 .. i - 1 : d[j] = c[j]
      BY <3>1, <1>1, <1>2
    <3> QED  BY <3>1, <3>2 DEF ValidateChain
  <2> QED  BY <2>1, <2>2
<1>7. Len(d) \in 1 .. MaxChainBlocks /\ d[1] = CreateGenesisBlock
  BY <1>1, <1>2, <1>4 DEF ValidateChain
<1> QED  BY <1>6, <1>7 DEF ValidateChain, d

-----------------------------------------------------------------------------
(* The mempool *)

\* There are finitely many transactions, so a pool has a size.
LEMMA FiniteTransactions ==
  ASSUME NEW txs \in SUBSET RawTransaction
  PROVE  IsFiniteSet(txs) /\ Cardinality(txs) \in Nat
<1> DEFINE D == Payloads \cup {Blank}
           f == [p \in TxIDs \X D |-> [id |-> p[1], data |-> p[2]]]
<1>1. IsFiniteSet(TxIDs \X D)
  BY BlocksAssumption, FS_AddElement, FS_Product
<1>2. f \in Surjection(TxIDs \X D, RawTransaction)
  <2>1. f \in [TxIDs \X D -> RawTransaction]
    BY DEF RawTransaction
  <2>2. ASSUME NEW tx \in RawTransaction
        PROVE  \E p \in TxIDs \X D : f[p] = tx
    <3>1. <<tx.id, tx.data>> \in TxIDs \X D
      BY DEF RawTransaction
    <3>2. f[<<tx.id, tx.data>>] = tx
      BY <3>1 DEF RawTransaction
    <3> QED  BY <3>1, <3>2
  <2> QED  BY <2>1, <2>2 DEF Surjection
<1>3. IsFiniteSet(RawTransaction)
  BY <1>1, <1>2, FS_Surjection
<1> QED  BY <1>3, FS_Subset, FS_CardinalityType

\* TryAdd keeps the pool within its capacity and its ids unique.
LEMMA AddKeepsPool ==
  ASSUME NEW pool \in SUBSET Transaction, NEW tx \in RawTransaction,
         CanAdd(pool, tx), UniqueIDs(pool)
  PROVE  /\ pool \cup {tx} \in SUBSET Transaction
         /\ UniqueIDs(pool \cup {tx})
         /\ Cardinality(pool \cup {tx}) <= MaxPending
<1>1. IsFiniteSet(pool) /\ Cardinality(pool) \in Nat
  BY FiniteTransactions DEF Transaction
<1>2. Cardinality(pool \cup {tx}) <= MaxPending
  <2>1. Cardinality(pool) < MaxPending /\ MaxPending \in Nat
    BY MempoolAssumption DEF CanAdd
  <2>2. Cardinality(pool \cup {tx}) \in {Cardinality(pool), Cardinality(pool) + 1}
    BY <1>1, FS_AddElement
  <2> QED  BY <1>1, <2>1, <2>2
<1>3. UniqueIDs(pool \cup {tx})
  BY DEF UniqueIDs, CanAdd, IDs
<1> QED  BY <1>2, <1>3 DEF CanAdd, Transaction

\* Remove takes the given ids out, keeps every other message and never grows
\* the pool.
LEMMA RemoveKeepsPool ==
  ASSUME NEW pool \in SUBSET Transaction, NEW ids
  PROVE  /\ Remove(pool, ids) \in SUBSET Transaction
         /\ IDs(Remove(pool, ids)) = IDs(pool) \ ids
         /\ UniqueIDs(pool) => UniqueIDs(Remove(pool, ids))
         /\ Cardinality(Remove(pool, ids)) <= Cardinality(pool)
<1>1. Remove(pool, ids) \in SUBSET pool
  BY DEF Remove
<1>2. Cardinality(Remove(pool, ids)) <= Cardinality(pool)
  BY <1>1, FiniteTransactions, FS_Subset DEF Transaction
<1> QED  BY <1>1, <1>2 DEF Remove, IDs, UniqueIDs

\* PrepareReorg keeps every message that was pending or confirmed, once, except
\* those the new chain confirms.
LEMMA ReorgKeepsPool ==
  ASSUME NEW pool \in SUBSET Transaction, UniqueIDs(pool),
         NEW old \in Seq(Block), NEW new \in Seq(Block),
         TxsOf(old) \subseteq Transaction, UniqueIDs(TxsOf(old)),
         IDs(pool) \cap Confirmed(old) = {}
  PROVE  /\ PrepareReorg(pool, old, new) = Remove(pool \cup TxsOf(old), Confirmed(new))
         /\ PrepareReorg(pool, old, new) \in SUBSET Transaction
         /\ UniqueIDs(PrepareReorg(pool, old, new))
         /\ IDs(PrepareReorg(pool, old, new))
              = (IDs(pool) \cup Confirmed(old)) \ Confirmed(new)
<1> DEFINE all == pool \cup TxsOf(old)
<1>1. \A x \in pool, y \in TxsOf(old) : x.id # y.id
  BY DEF Confirmed, IDs
<1>2. PrepareReorg(pool, old, new) = Remove(all, Confirmed(new))
  BY <1>1 DEF PrepareReorg, Remove, IDs
<1>3. all \in SUBSET Transaction
  OBVIOUS
<1>4. UniqueIDs(all)
  BY <1>1 DEF UniqueIDs
<1>5. IDs(all) = IDs(pool) \cup Confirmed(old)
  BY DEF IDs, Confirmed
<1> QED  BY <1>2, <1>3, <1>4, <1>5, RemoveKeepsPool

=============================================================================
