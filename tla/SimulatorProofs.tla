-------------------------- MODULE SimulatorProofs --------------------------
(***************************************************************************)
(* The browser simulator, for any number of nodes and messages: its        *)
(* invariant, and that chains only get better and no message is forgotten. *)
(*                                                                         *)
(* When all nodes synchronise, what one has taken the next may get from    *)
(* it.  The mempools after that are folds over the nodes and over the      *)
(* neighbours of each, and the first part is about such folds.             *)
(***************************************************************************)
EXTENDS Simulator, SequenceTheorems, FiniteSetTheorems, TLAPS

-----------------------------------------------------------------------------
(* Numbers *)

LEMMA Smallest ==
  ASSUME NEW S \in SUBSET Nat, S # {}
  PROVE  \E x \in S : \A y \in S : x <= y
<1> DEFINE R == {ss \in Nat \X Nat : ss[1] < ss[2]}
<1>1. IsWellFoundedOn(R, Nat)
  BY NatLessThanWellFounded DEF OpToRel
<1>2. \A x, y \in Nat : <<y, x>> \notin R => x <= y
  OBVIOUS
<1> HIDE DEF R
<1>3. \E x \in S : \A y \in S : <<y, x>> \notin R
  BY <1>1, WFMin
<1> QED  BY <1>2, <1>3

\* Max and Min are of the set they are taken of.
LEMMA MaxIsOfSet ==
  ASSUME NEW S \in SUBSET Nat, IsFiniteSet(S), S # {}
  PROVE  Max(S) \in S
<1> DEFINE HasMax(s) == \E x \in s : \A y \in s : x >= y
           Bad == {k \in Nat : \E s \in SUBSET Nat :
                     IsFiniteSet(s) /\ Cardinality(s) = k /\ s # {} /\ ~ HasMax(s)}
<1>1. Bad = {}
  <2> SUFFICES ASSUME Bad # {} PROVE FALSE
    OBVIOUS
  <2>1. PICK k \in Bad : \A m \in Bad : k <= m
    BY Smallest
  <2>2. PICK s \in SUBSET Nat :
          IsFiniteSet(s) /\ Cardinality(s) = k /\ s # {} /\ ~ HasMax(s)
    BY <2>1
  <2>3. PICK x \in s : TRUE
    BY <2>2
  <2>4. /\ IsFiniteSet(s \ {x}) /\ Cardinality(s \ {x}) = k - 1 /\ k \in Nat
        /\ Cardinality(s \ {x}) \in Nat
    BY <2>2, <2>3, FS_RemoveElement, FS_CardinalityType
  <2>5. k - 1 \notin Bad
    BY <2>1, <2>4
  <2>6. s \ {x} = {} \/ HasMax(s \ {x})
    BY <2>4, <2>5
  <2>7. HasMax(s)
    <3>1. CASE s \ {x} = {}
      BY <2>3, <3>1
    <3>2. CASE HasMax(s \ {x})
      <4>1. PICK m \in s \ {x} : \A y \in s \ {x} : m >= y
        BY <3>2
      <4>2. CASE m >= x
        BY <4>1, <4>2
      <4>3. CASE ~ m >= x
        <5>1. \A y \in s : x >= y
          BY <4>1, <4>3
        <5> QED  BY <5>1
      <4> QED  BY <4>2, <4>3
    <3> QED  BY <2>6, <3>1, <3>2
  <2> QED  BY <2>2, <2>7
<1>2. Cardinality(S) \in Nat
  BY FS_CardinalityType
<1>3. HasMax(S)
  BY <1>1, <1>2
<1> QED  BY <1>3 DEF Max

LEMMA MinIsOfSet ==
  ASSUME NEW S \in SUBSET Nat, S # {}
  PROVE  Min(S) \in S
BY Smallest DEF Min

\* The first k of some messages are at most k of them, and one at least.
LEMMA FirstMessages ==
  ASSUME NEW txs \in SUBSET Nat, IsFiniteSet(txs), NEW k \in Nat
  PROVE  /\ FirstOf(txs, k) \subseteq txs /\ IsFiniteSet(FirstOf(txs, k))
         /\ Cardinality(FirstOf(txs, k)) <= k
         /\ txs # {} /\ k # 0 => FirstOf(txs, k) # {}
<1> DEFINE F == FirstOf(txs, k)
           below == [i \in txs |-> {j \in txs : j < i}]
           rank == [i \in F |-> Cardinality(below[i])]
<1>1. \A i \in txs : below[i] = {j \in txs : j < i}
  OBVIOUS
<1>2. F = {i \in txs : Cardinality(below[i]) < k}
  BY DEF FirstOf
<1> HIDE DEF below, F
<1>3. \A i \in txs : IsFiniteSet(below[i]) /\ Cardinality(below[i]) \in Nat
  <2> SUFFICES ASSUME NEW i \in txs
               PROVE  IsFiniteSet(below[i]) /\ Cardinality(below[i]) \in Nat
    OBVIOUS
  <2>1. below[i] \in SUBSET txs
    BY <1>1
  <2> QED  BY <2>1, FS_Subset, FS_CardinalityType
<1>4. rank \in [F -> 0 .. k - 1]
  <2>1. \A i \in F : Cardinality(below[i]) \in 0 .. k - 1
    BY <1>2, <1>3
  <2> QED  BY <2>1
<1>5. ASSUME NEW i \in txs, NEW j \in txs, i < j
      PROVE  Cardinality(below[i]) # Cardinality(below[j])
  <2>0. \A x \in txs : x \in Nat /\ (x < i => x < j) /\ ~ i < i
    BY <1>5
  <2>1. below[i] \in SUBSET below[j] /\ i \in below[j] /\ i \notin below[i]
    BY <1>1, <1>5, <2>0
  <2>2. below[i] # below[j]
    BY <2>1
  <2> QED  BY <1>3, <2>1, <2>2, FS_Subset
<1>6. IsInjective(rank)
  <2> SUFFICES ASSUME NEW i \in F, NEW j \in F, rank[i] = rank[j] PROVE i = j
    BY DEF IsInjective
  <2>1. i \in txs /\ j \in txs /\ i \in Nat /\ j \in Nat
    BY <1>2
  <2>2. Cardinality(below[i]) = Cardinality(below[j])
    OBVIOUS
  <2> QED  BY <1>5, <2>1, <2>2
<1> HIDE DEF rank
<1>7. IsFiniteSet(0 .. k - 1) /\ Cardinality(0 .. k - 1) = k
  BY FS_Interval
<1>8. rank \in Injection(F, 0 .. k - 1)
  BY <1>4, <1>6 DEF Injection
<1>9. Cardinality(F) <= k
  BY <1>7, <1>8, FS_Injection
<1>10. ASSUME txs # {}, k # 0 PROVE F # {}
  <2>1. PICK x \in txs : \A y \in txs : x <= y
    BY <1>10, Smallest
  <2>2. below[x] = {}
    BY <1>1, <2>1
  <2> QED  BY <1>2, <1>10, <2>2, FS_EmptySet
<1>11. F \in SUBSET txs
  BY <1>2
<1> QED  BY <1>9, <1>10, <1>11, FS_Subset DEF F

-----------------------------------------------------------------------------
(* Folds *)

\* Of every part of S, ch chooses an element.
Chooses(ch, S) == \A s \in SUBSET S : s # {} => ch[s] \in s

\* f is the fold that starts with base and takes one element at a time.
IsFold(f, S, base, ch, step) ==
  \A s \in SUBSET S : f[s] = IF s = {} THEN base ELSE step[<<s, f[s \ {ch[s]}]>>]

\* What a fold over a finite set starts with and every step keeps holds at its end.
LEMMA FoldStays ==
  ASSUME NEW S, IsFiniteSet(S), NEW G, NEW f, NEW ch, Chooses(ch, S), f[{}] \in G,
         \A s \in SUBSET S : s # {} /\ f[s \ {ch[s]}] \in G => f[s] \in G
  PROVE  f[S] \in G
<1> DEFINE Bad == {k \in Nat : \E s \in SUBSET S : Cardinality(s) = k /\ f[s] \notin G}
<1>1. Bad = {}
  <2> SUFFICES ASSUME Bad # {} PROVE FALSE
    OBVIOUS
  <2>1. PICK k \in Bad : \A m \in Bad : k <= m
    BY Smallest
  <2>2. PICK s \in SUBSET S : Cardinality(s) = k /\ f[s] \notin G
    BY <2>1
  <2>3. s # {} /\ IsFiniteSet(s)
    BY <2>2, FS_Subset
  <2>4. ch[s] \in s /\ f[s \ {ch[s]}] \notin G
    BY <2>2, <2>3 DEF Chooses
  <2>5. Cardinality(s \ {ch[s]}) = k - 1 /\ Cardinality(s \ {ch[s]}) \in Nat /\ k \in Nat
    BY <2>2, <2>3, <2>4, FS_RemoveElement, FS_CardinalityType
  <2>6. k - 1 \in Bad
    BY <2>4, <2>5
  <2> QED  BY <2>1, <2>5, <2>6
<1>2. Cardinality(S) \in Nat
  BY FS_CardinalityType
<1> QED  BY <1>1, <1>2

\* A fold over a finite set is defined.
LEMMA FoldExists ==
  ASSUME NEW S, IsFiniteSet(S), NEW G, NEW base \in G, NEW ch, Chooses(ch, S),
         NEW step \in [(SUBSET S) \X G -> G]
  PROVE  \E f \in [SUBSET S -> G] : IsFold(f, S, base, ch, step)
<1> DEFINE L(k) == {s \in SUBSET S : Cardinality(s) <= k}
           Folds(f, k) == \A s \in L(k) :
             f[s] = IF s = {} THEN base ELSE step[<<s, f[s \ {ch[s]}]>>]
           Bad == {k \in Nat : ~ \E f \in [L(k) -> G] : Folds(f, k)}
<1>1. \A s \in SUBSET S : IsFiniteSet(s) /\ Cardinality(s) \in Nat
  BY FS_Subset, FS_CardinalityType
<1>2. \A s \in SUBSET S : s # {} =>
        s \ {ch[s]} \in SUBSET S /\ Cardinality(s \ {ch[s]}) = Cardinality(s) - 1
  BY <1>1, FS_RemoveElement DEF Chooses
<1>3. Bad = {}
  <2> SUFFICES ASSUME Bad # {} PROVE FALSE
    OBVIOUS
  <2>1. PICK k \in Bad : \A m \in Bad : k <= m
    BY Smallest
  <2>2. k \in Nat /\ ~ \E f \in [L(k) -> G] : Folds(f, k)
    BY <2>1
  <2> HIDE DEF Bad
  <2>3. CASE k = 0
    <3>1. \A s \in L(k) : s = {}
      BY <1>1, <2>3, FS_EmptySet
    <3> DEFINE g == [s \in L(k) |-> base]
    <3>2. g \in [L(k) -> G] /\ Folds(g, k)
      BY <3>1
    <3> QED  BY <2>2, <3>2
  <2>4. CASE k # 0
    <3>1. k - 1 \in Nat /\ k - 1 \notin Bad
      BY <2>1, <2>2, <2>4
    <3>2. PICK f \in [L(k - 1) -> G] : Folds(f, k - 1)
      BY <3>1 DEF Bad
    <3> DEFINE g == [s \in L(k) |-> IF s = {} THEN base ELSE step[<<s, f[s \ {ch[s]}]>>]]
    <3>3. \A s \in L(k) : s # {} => s \ {ch[s]} \in L(k - 1) /\ s \ {ch[s]} \in L(k)
      BY <1>1, <1>2, <2>2
    <3>4. g \in [L(k) -> G]
      <4> SUFFICES ASSUME NEW s \in L(k)
                   PROVE  (IF s = {} THEN base ELSE step[<<s, f[s \ {ch[s]}]>>]) \in G
        OBVIOUS
      <4> QED  BY <3>3
    <3>5. \A s \in L(k - 1) : s \in L(k) /\ g[s] = f[s]
      <4> SUFFICES ASSUME NEW s \in L(k - 1) PROVE s \in L(k) /\ g[s] = f[s]
        OBVIOUS
      <4>1. s \in L(k)
        BY <1>1, <2>2
      <4>2. f[s] = IF s = {} THEN base ELSE step[<<s, f[s \ {ch[s]}]>>]
        BY <3>2
      <4> QED  BY <4>1, <4>2
    <3>6. Folds(g, k)
      <4> SUFFICES ASSUME NEW s \in L(k), s # {}
                   PROVE  g[s] = step[<<s, g[s \ {ch[s]}]>>]
        OBVIOUS
      <4> QED  BY <3>3, <3>5
    <3> QED  BY <2>2, <3>4, <3>6
  <2> QED  BY <2>3, <2>4
<1>4. Cardinality(S) \in Nat /\ Cardinality(S) \notin Bad
  BY <1>1, <1>3
<1>5. L(Cardinality(S)) = SUBSET S
  BY FS_Subset
<1> QED  BY <1>4, <1>5 DEF IsFold

-----------------------------------------------------------------------------
(* Chains *)

LEMMA SoundWithMore ==
  ASSUME NEW c, NEW S, NEW T, Sound(c, S), S \subseteq T
  PROVE  Sound(c, T)
BY DEF Sound

LEMMA SoundShape ==
  ASSUME NEW c, NEW S, Sound(c, S)
  PROVE  Len(c) \in Nat \ {0} /\ DOMAIN c = 1 .. Len(c)
<1>1. c \in Seq(Range(c)) /\ c # <<>>
  BY DEF Sound
<1> QED  BY <1>1, EmptySeq, LenProperties

LEMMA GenesisSound == \A S : Sound(Genesis, S)
<1> TAKE S
<1>1. Genesis \in Seq({Genesis[1]}) /\ Genesis # <<>> /\ DOMAIN Genesis = {1}
  BY DEF Genesis
<1>2. Genesis[1].ids = {}
  BY DEF Genesis
<1>3. Genesis \in Seq(Range(Genesis))
  BY <1>1, SeqOfRange
<1>4. Confirmed(Genesis) = {}
  BY <1>1, <1>2 DEF Confirmed
<1> QED  BY <1>1, <1>3, <1>4 DEF Sound

\* A block of unconfirmed messages extends a chain without a replay to one.
LEMMA MineSound ==
  ASSUME NEW c, NEW S, Sound(c, S), NEW txs \in SUBSET S, txs \cap Confirmed(c) = {}
  PROVE  /\ Sound(mine(c, txs), S) /\ Extends(mine(c, txs), c)
         /\ Confirmed(mine(c, txs)) = Confirmed(c) \cup txs
<1> DEFINE b == [hash |-> BlockHash(c, txs), ids |-> txs]
           d == Append(c, b)
           B == Range(c) \cup {b}
<1>1. c \in Seq(B) /\ b \in B /\ Len(c) \in Nat \ {0} /\ DOMAIN c = 1 .. Len(c)
  BY SoundShape, SeqMonotonic DEF Sound
<1>2. /\ d \in Seq(B) /\ d # <<>> /\ Len(d) = Len(c) + 1
      /\ \A i \in 1 .. Len(c) : d[i] = c[i]
      /\ d[Len(c) + 1] = b
  BY <1>1, AppendProperties
<1>3. DOMAIN d = 1 .. Len(c) + 1
  BY <1>2, LenProperties
<1>4. d \in Seq(Range(d))
  BY <1>2, SeqOfRange
<1>5. SubSeq(d, 1, Len(c)) = c
  <2>1. /\ SubSeq(d, 1, Len(c)) \in Seq(B)
        /\ Len(SubSeq(d, 1, Len(c))) = Len(c)
        /\ \A i \in 1 .. Len(c) : SubSeq(d, 1, Len(c))[i] = c[i]
    BY <1>1, <1>2
  <2> QED  BY <1>1, <2>1, SeqEqual
<1>6. mine(c, txs) = d /\ b.ids = txs
  BY DEF mine
<1> HIDE DEF d, b
<1>7. \A i : i \in 1 .. Len(c) + 1 <=> i \in 1 .. Len(c) \/ i = Len(c) + 1
  BY <1>1
<1>8. Confirmed(d) = Confirmed(c) \cup txs
  <2>1. \A x : x \in Confirmed(d) <=> \E i \in 1 .. Len(c) + 1 : x \in d[i].ids
    BY <1>3 DEF Confirmed
  <2>2. \A x : x \in Confirmed(c) <=> \E i \in 1 .. Len(c) : x \in c[i].ids
    BY <1>1 DEF Confirmed
  <2> QED  BY <1>2, <1>6, <1>7, <2>1, <2>2
<1>9. \A i \in 1 .. Len(c) : c[i].ids \cap txs = {}
  BY <1>1 DEF Confirmed
<1>10. \A i, j \in 1 .. Len(c) : i # j => c[i].ids \cap c[j].ids = {}
  BY <1>1 DEF Sound
<1>11. \A i, j \in DOMAIN d : i # j => d[i].ids \cap d[j].ids = {}
  <2> SUFFICES ASSUME NEW i \in 1 .. Len(c) + 1, NEW j \in 1 .. Len(c) + 1, i # j
               PROVE  d[i].ids \cap d[j].ids = {}
    BY <1>3
  <2>1. CASE i \in 1 .. Len(c) /\ j \in 1 .. Len(c)
    BY <1>2, <1>10, <2>1
  <2>2. CASE i = Len(c) + 1 /\ j \in 1 .. Len(c)
    BY <1>2, <1>6, <1>9, <2>2
  <2>3. CASE i \in 1 .. Len(c) /\ j = Len(c) + 1
    BY <1>2, <1>6, <1>9, <2>3
  <2> QED  BY <1>7, <2>1, <2>2, <2>3
<1>12. Confirmed(d) \subseteq S
  BY <1>8 DEF Sound
<1> QED  BY <1>2, <1>4, <1>5, <1>6, <1>8, <1>11, <1>12 DEF Sound, Extends

\* What extends a chain is better than it and confirms all that it does.
LEMMA ExtensionIsBetter ==
  ASSUME NEW c, NEW d, NEW S, Sound(c, S), Sound(d, S), Extends(d, c)
  PROVE  better(d, c) /\ Len(d) = Len(c) + 1 /\ Confirmed(c) \subseteq Confirmed(d)
<1>1. /\ Len(c) \in Nat \ {0} /\ DOMAIN c = 1 .. Len(c)
      /\ Len(d) \in Nat \ {0} /\ DOMAIN d = 1 .. Len(d)
  BY SoundShape
<1>2. Len(d) = Len(c) + 1 /\ SubSeq(d, 1, Len(c)) = c
  BY DEF Extends
<1>3. better(d, c)
  <2>1. Len(d) # Len(c) /\ Len(d) > Len(c)
    <3>1. \A k, m : k \in Nat /\ m = k + 1 => m # k /\ m > k
      OBVIOUS
    <3> QED  BY <1>1, <1>2, <3>1
  <2> QED  BY <2>1, Zenon DEF better
<1>4. \A i \in 1 .. Len(c) : i \in DOMAIN d /\ c[i] = d[i]
  <2>1. d \in Seq(Range(d))
    BY DEF Sound
  <2>2. \A i \in 1 .. Len(c) : SubSeq(d, 1, Len(c))[i] = d[i]
    BY <1>1, <1>2, <2>1
  <2> QED  BY <1>1, <1>2, <2>2
<1>5. Confirmed(c) \subseteq Confirmed(d)
  BY <1>1, <1>4 DEF Confirmed
<1> QED  BY <1>2, <1>3, <1>5

-----------------------------------------------------------------------------
(* Mempools *)

LEMMA IDsAreNumbers ==
  /\ IDs \in SUBSET Nat /\ About \in SUBSET IDs
  /\ \A txs \in SUBSET IDs : IsFiniteSet(txs) /\ Cardinality(txs) \in Nat
<1>1. IsFiniteSet(IDs)
  <2>1. IsFiniteSet(Messages \cup {ForkA})
    BY SimulatorAssumption, FS_AddElement
  <2>2. IsFiniteSet((Messages \cup {ForkA}) \cup {ForkB})
    BY <2>1, FS_AddElement
  <2>3. IDs = (Messages \cup {ForkA}) \cup {ForkB}
    BY DEF IDs
  <2> QED  BY <2>2, <2>3
<1>2. IDs \in SUBSET Nat
  BY <1>1, SimulatorAssumption, FS_CardinalityType
<1>3. About \in SUBSET IDs
  BY DEF About, IDs
<1> QED  BY <1>1, <1>2, <1>3, FS_Subset, FS_CardinalityType

\* Mempools that the live ones may become when nodes take messages.
GoodPools ==
  {p \in [Nodes -> SUBSET About] :
     \A n \in Nodes : /\ mempool[n] \subseteq p[n] /\ Cardinality(p[n]) <= MaxPending
                      /\ p[n] \cap Confirmed(chain[n]) = {}}

\* A node takes what it does not know, up to its limit.
LEMMA WithTxsGood ==
  ASSUME NEW p \in GoodPools, NEW n \in Nodes, NEW txs \in SUBSET About
  PROVE  [p EXCEPT ![n] = WithTxs(n, @, txs)] \in GoodPools
<1> DEFINE new == txs \ (Confirmed(chain[n]) \cup p[n])
           room == MaxPending - Cardinality(p[n])
           taken == FirstOf(new, room)
<1>1. /\ p \in [Nodes -> SUBSET About] /\ Cardinality(p[n]) <= MaxPending
      /\ p[n] \cap Confirmed(chain[n]) = {} /\ mempool[n] \subseteq p[n]
  BY DEF GoodPools
<1>2. p[n] \in SUBSET IDs /\ new \in SUBSET IDs /\ new \in SUBSET Nat
  BY <1>1, IDsAreNumbers
<1>3. IsFiniteSet(p[n]) /\ Cardinality(p[n]) \in Nat /\ IsFiniteSet(new) /\ room \in Nat
  BY <1>1, <1>2, IDsAreNumbers, SimulatorAssumption
<1>4. taken \subseteq new /\ IsFiniteSet(taken) /\ Cardinality(taken) <= room
  BY <1>2, <1>3, FirstMessages
<1> HIDE DEF taken, room, new
<1>5. Cardinality(p[n] \cup taken) <= MaxPending
  <2>1. p[n] \cap taken = {}
    BY <1>4 DEF new
  <2>2. Cardinality(p[n] \cup taken) = Cardinality(p[n]) + Cardinality(taken)
    <3>1. Cardinality(taken) \in Nat
      BY <1>4, FS_CardinalityType
    <3>2. Cardinality(p[n] \cup taken)
            = Cardinality(p[n]) + Cardinality(taken) - Cardinality(p[n] \cap taken)
      BY <1>3, <1>4, FS_Union
    <3> QED  BY <1>3, <2>1, <3>1, <3>2, FS_EmptySet
  <2>3. Cardinality(taken) \in Nat /\ MaxPending \in Nat
    BY <1>4, FS_CardinalityType, SimulatorAssumption
  <2> QED  BY <1>3, <1>4, <2>2, <2>3 DEF room
<1>6. WithTxs(n, p[n], txs) = p[n] \cup taken
  BY DEF WithTxs, taken, room, new
<1>7. p[n] \cup taken \in SUBSET About /\ (p[n] \cup taken) \cap Confirmed(chain[n]) = {}
  BY <1>1, <1>4 DEF new
<1> QED  BY <1>1, <1>5, <1>6, <1>7 DEF GoodPools

\* A node's neighbours are other nodes.
LEMMA NeighboursAreNodes ==
  ASSUME NEW n \in Nodes, NEW to \in getNeighbors(n)
  PROVE  /\ Range(to) \subseteq Nodes \ {n} /\ to \in [DOMAIN to -> Nodes]
         /\ DOMAIN to \in SUBSET Nat /\ IsFiniteSet(DOMAIN to)
<1>1. PICK m \in 0 .. Fanout : to \in [1 .. m -> Nodes \ {n}]
  BY SimulatorAssumption DEF getNeighbors, SeqOf
<1>2. m \in Nat /\ DOMAIN to = 1 .. m
  BY <1>1, SimulatorAssumption
<1>3. IsFiniteSet(1 .. m)
  BY <1>2, FS_Interval
<1> QED  BY <1>1, <1>2, <1>3 DEF Range

\* After asking all its neighbours a node has messages it may have.
LEMMA GatherGood ==
  ASSUME NEW pools \in GoodPools, NEW n \in Nodes, NEW to \in getNeighbors(n)
  PROVE  Gather(n, to, pools) \in GoodPools
<1> DEFINE S == DOMAIN to
           ask(p, m) == [p EXCEPT ![n] = WithTxs(n, @, p[m])]
           iter == CHOOSE f : f = [s \in SUBSET S |->
                     IF s = {} THEN pools ELSE ask(f[s \ {Max(s)}], to[Max(s)])]
           ch == [s \in SUBSET S |-> Max(s)]
           step == [x \in (SUBSET S) \X GoodPools |->
                     IF x[1] = {} THEN pools ELSE ask(x[2], to[Max(x[1])])]
<1>1. /\ S \in SUBSET Nat /\ IsFiniteSet(S) /\ \A k \in S : to[k] \in Nodes
  BY NeighboursAreNodes
<1>2. Chooses(ch, S) /\ \A s \in SUBSET S : ch[s] = Max(s) /\ (s # {} => Max(s) \in s)
  BY <1>1, MaxIsOfSet, FS_Subset DEF Chooses
<1>3. \A p \in GoodPools, k \in S : ask(p, to[k]) \in GoodPools
  <2> SUFFICES ASSUME NEW p \in GoodPools, NEW k \in S
               PROVE  ask(p, to[k]) \in GoodPools
    OBVIOUS
  <2>1. p[to[k]] \in SUBSET About
    BY <1>1 DEF GoodPools
  <2> QED  BY <2>1, WithTxsGood
<1>4. Gather(n, to, pools) = iter[S]
  BY DEF Gather, FoldLeft, MapThenFoldSet
<1> HIDE DEF S, ask
<1>5. step \in [(SUBSET S) \X GoodPools -> GoodPools]
  <2> SUFFICES ASSUME NEW x \in (SUBSET S) \X GoodPools
               PROVE  (IF x[1] = {} THEN pools ELSE ask(x[2], to[Max(x[1])])) \in GoodPools
    OBVIOUS
  <2>1. x[1] # {} => Max(x[1]) \in S
    BY <1>2
  <2> QED  BY <1>3, <2>1
<1> HIDE DEF ch, step
<1>6. PICK f \in [SUBSET S -> GoodPools] : IsFold(f, S, pools, ch, step)
  BY <1>1, <1>2, <1>5, FoldExists
<1>7. \A s \in SUBSET S :
        f[s] = IF s = {} THEN pools ELSE ask(f[s \ {Max(s)}], to[Max(s)])
  <2> SUFFICES ASSUME NEW s \in SUBSET S
               PROVE  f[s] = IF s = {} THEN pools ELSE ask(f[s \ {Max(s)}], to[Max(s)])
    OBVIOUS
  <2>1. f[s] = IF s = {} THEN pools ELSE step[<<s, f[s \ {ch[s]}]>>]
    BY <1>6 DEF IsFold
  <2>2. s # {} => ch[s] = Max(s) /\ f[s \ {Max(s)}] \in GoodPools
    BY <1>2
  <2> QED  BY <2>1, <2>2 DEF step
<1>8. f = [s \in SUBSET S |-> IF s = {} THEN pools ELSE ask(f[s \ {Max(s)}], to[Max(s)])]
  <2>1. f = [s \in SUBSET S |-> f[s]]
    OBVIOUS
  <2>2. [s \in SUBSET S |-> f[s]] = [s \in SUBSET S |->
          IF s = {} THEN pools ELSE ask(f[s \ {Max(s)}], to[Max(s)])]
    BY <1>7
  <2> QED  BY <2>1, <2>2
<1>9. iter = [s \in SUBSET S |->
        IF s = {} THEN pools ELSE ask(iter[s \ {Max(s)}], to[Max(s)])]
  BY <1>8
<1> HIDE DEF iter
<1>10. iter[{}] \in GoodPools
  BY <1>9
<1>11. \A s \in SUBSET S :
         s # {} /\ iter[s \ {ch[s]}] \in GoodPools => iter[s] \in GoodPools
  <2> SUFFICES ASSUME NEW s \in SUBSET S, s # {}, iter[s \ {ch[s]}] \in GoodPools
               PROVE  iter[s] \in GoodPools
    OBVIOUS
  <2>1. Max(s) \in S /\ iter[s \ {Max(s)}] \in GoodPools
    BY <1>2
  <2>2. iter[s] = ask(iter[s \ {Max(s)}], to[Max(s)])
    BY <1>9
  <2> QED  BY <1>3, <2>1, <2>2
<1>12. iter[S] \in GoodPools
  BY <1>1, <1>2, <1>10, <1>11, FoldStays
<1> QED  BY <1>4, <1>12

\* So it has after all nodes have asked theirs.
LEMMA GatheredGood ==
  ASSUME mempool \in GoodPools, NEW to \in Partners
  PROVE  Gathered(to) \in GoodPools
<1> DEFINE S == Nodes
           ask(p, n) == Gather(n, to[n], p)
           iter == CHOOSE f : f = [s \in SUBSET S |->
                     IF s = {} THEN mempool ELSE ask(f[s \ {Max(s)}], Max(s))]
           ch == [s \in SUBSET S |-> Max(s)]
           step == [x \in (SUBSET S) \X GoodPools |->
                     IF x[1] = {} THEN mempool ELSE ask(x[2], Max(x[1]))]
<1>1. S \in SUBSET Nat /\ IsFiniteSet(S)
  BY SimulatorAssumption
<1>2. Chooses(ch, S) /\ \A s \in SUBSET S : ch[s] = Max(s) /\ (s # {} => Max(s) \in s)
  BY <1>1, MaxIsOfSet, FS_Subset DEF Chooses
<1>3. \A p \in GoodPools, n \in S : ask(p, n) \in GoodPools
  BY GatherGood DEF Partners
<1>4. Gathered(to) = iter[S]
  BY DEF Gathered, MapThenFoldSet
<1> HIDE DEF S, ask
<1>5. step \in [(SUBSET S) \X GoodPools -> GoodPools]
  <2> SUFFICES ASSUME NEW x \in (SUBSET S) \X GoodPools
               PROVE  (IF x[1] = {} THEN mempool ELSE ask(x[2], Max(x[1]))) \in GoodPools
    OBVIOUS
  <2>1. x[1] # {} => Max(x[1]) \in S
    BY <1>2
  <2> QED  BY <1>3, <2>1
<1> HIDE DEF ch, step
<1>6. PICK f \in [SUBSET S -> GoodPools] : IsFold(f, S, mempool, ch, step)
  BY <1>1, <1>2, <1>5, FoldExists
<1>7. \A s \in SUBSET S :
        f[s] = IF s = {} THEN mempool ELSE ask(f[s \ {Max(s)}], Max(s))
  <2> SUFFICES ASSUME NEW s \in SUBSET S
               PROVE  f[s] = IF s = {} THEN mempool ELSE ask(f[s \ {Max(s)}], Max(s))
    OBVIOUS
  <2>1. f[s] = IF s = {} THEN mempool ELSE step[<<s, f[s \ {ch[s]}]>>]
    BY <1>6 DEF IsFold
  <2>2. s # {} => ch[s] = Max(s) /\ f[s \ {Max(s)}] \in GoodPools
    BY <1>2
  <2> QED  BY <2>1, <2>2 DEF step
<1>8. f = [s \in SUBSET S |-> IF s = {} THEN mempool ELSE ask(f[s \ {Max(s)}], Max(s))]
  <2>1. f = [s \in SUBSET S |-> f[s]]
    OBVIOUS
  <2>2. [s \in SUBSET S |-> f[s]] = [s \in SUBSET S |->
          IF s = {} THEN mempool ELSE ask(f[s \ {Max(s)}], Max(s))]
    BY <1>7
  <2> QED  BY <2>1, <2>2
<1>9. iter = [s \in SUBSET S |->
        IF s = {} THEN mempool ELSE ask(iter[s \ {Max(s)}], Max(s))]
  BY <1>8
<1> HIDE DEF iter
<1>10. iter[{}] \in GoodPools
  BY <1>9
<1>11. \A s \in SUBSET S :
         s # {} /\ iter[s \ {ch[s]}] \in GoodPools => iter[s] \in GoodPools
  <2> SUFFICES ASSUME NEW s \in SUBSET S, s # {}, iter[s \ {ch[s]}] \in GoodPools
               PROVE  iter[s] \in GoodPools
    OBVIOUS
  <2>1. Max(s) \in S /\ iter[s \ {Max(s)}] \in GoodPools
    BY <1>2
  <2>2. iter[s] = ask(iter[s \ {Max(s)}], Max(s))
    BY <1>9
  <2> QED  BY <1>3, <2>1, <2>2
<1>12. iter[S] \in GoodPools
  BY <1>1, <1>2, <1>10, <1>11, FoldStays
<1> QED  BY <1>4, <1>12

-----------------------------------------------------------------------------
(* Steps *)

LEMMA LiveIsGood ==
  ASSUME SimInv
  PROVE  mempool \in GoodPools
BY DEF SimInv, TypeOK, PoolsUnconfirmed, GoodPools

\* The demonstration only goes forward, and its messages do not go away.
LEMMA AboutGrows ==
  ASSUME fork' = fork \/ <<fork, fork'>> \in {<<"no", "setup">>, <<"setup", "race">>, <<"race", "done">>}
  PROVE  About \subseteq About'
BY DEF About, IDs

\* Nodes take messages: what becomes of mempools, timers and packets.
LEMMA TakingSound ==
  ASSUME SimInv, NEW pools \in GoodPools, NEW sent, Taking(pools, sent),
         chain' = chain, About' = About
  PROVE  /\ mempool' \in [Nodes -> SUBSET About'] /\ PoolsUnconfirmed'
         /\ startTimer' \subseteq Nodes /\ txPackets' \subseteq Nodes \X About'
         /\ \A n \in Nodes : mempool[n] \subseteq mempool'[n]
<1>1. mempool' = pools
  BY DEF Taking
<1>2. /\ pools \in [Nodes -> SUBSET About]
      /\ \A n \in Nodes : /\ mempool[n] \subseteq pools[n] /\ Cardinality(pools[n]) <= MaxPending
                         /\ pools[n] \cap Confirmed(chain[n]) = {}
  BY DEF GoodPools
<1>3. PoolsUnconfirmed'
  BY <1>1, <1>2 DEF PoolsUnconfirmed, Confirmed
<1> DEFINE taken == {x \in Nodes \X IDs : x[2] \in mempool'[x[1]] \ mempool[x[1]]}
<1>4. startTimer' = startTimer \cup {x[1] : x \in taken}
  BY DEF Taking
<1>5. startTimer' \subseteq Nodes
  BY <1>4 DEF SimInv, TypeOK
<1>6. PICK to \in [taken -> Neighbors] :
        /\ \A x \in taken : to[x] \in getNeighbors(x[1])
        /\ txPackets' =
             {y \in (txPackets \ sent) \cup UNION {Range(to[x]) \X {x[2]} : x \in taken} :
                Unknown(mempool', y[1], y[2])}
  BY DEF Taking
<1>7. \A x \in taken : Range(to[x]) \subseteq Nodes /\ x[2] \in About
  BY <1>1, <1>2, <1>6, NeighboursAreNodes
<1> HIDE DEF taken
<1>8. \A x \in taken : Range(to[x]) \X {x[2]} \subseteq Nodes \X About
  BY <1>7
<1>9. txPackets' \subseteq Nodes \X About
  BY <1>6, <1>8 DEF SimInv, TypeOK
<1> QED  BY <1>1, <1>2, <1>3, <1>5, <1>9

\* Miners go on while chains stay and nothing is taken from them.
LEMMA MinersGoOn ==
  ASSUME SimInv, chain' = chain, mining' = mining, work' = work, fork' = fork,
         \A n \in Nodes : mempool[n] \subseteq mempool'[n] /\ checking[n] \subseteq checking'[n]
  PROVE  MinersOnTip'
<1> SUFFICES ASSUME NEW n \in Nodes
             PROVE  /\ mining[n] # "off" => mempool'[n] # {}
                    /\ mining[n] = "search" =>
                         /\ work[n].base = chain[n] /\ work[n].ids \subseteq mempool'[n]
                         /\ work[n].ids # {}
                    /\ mining[n] = "submitted" /\ Len(chain[n]) < MaxChain =>
                         \E c \in checking'[n] : Extends(c, chain[n])
  BY DEF MinersOnTip, Extends, SimInv, forkInProgress
<1> QED  BY DEF SimInv, MinersOnTip

\* The timer that starts an attempt.
LEMMA StartStep ==
  ASSUME SimInv, NEW n \in Nodes, startMining(n)
  PROVE  SimInv'
<1>1. /\ mining' = IF CanStart(n) /\ ~ forkInProgress
                   THEN [mining EXCEPT ![n] = "timer"] ELSE mining
      /\ startTimer' \subseteq startTimer
      /\ UNCHANGED <<chain, mempool, work, checking, txPackets, snapshots, page>>
  BY DEF startMining
<1>2. TypeOK' /\ ChainsSound' /\ PoolsUnconfirmed'
  BY <1>1 DEF SimInv, TypeOK, ChainsSound, PoolsUnconfirmed, page, About
<1>3. MinersOnTip'
  <2>1. CASE CanStart(n) /\ ~ forkInProgress
    <3>1. mining' = [mining EXCEPT ![n] = "timer"] /\ mempool[n] # {} /\ ~ forkInProgress
      BY <1>1, <2>1 DEF CanStart
    <3> QED  BY <1>1, <3>1 DEF SimInv, TypeOK, MinersOnTip, page, forkInProgress, Extends
  <2>2. CASE ~ (CanStart(n) /\ ~ forkInProgress)
    BY <1>1, <2>2 DEF SimInv, MinersOnTip, page, forkInProgress, Extends
  <2> QED  BY <2>1, <2>2
<1> QED  BY <1>2, <1>3 DEF SimInv

\* The attempt copies the live chain and takes pending messages, which it does not confirm.
LEMMA TimerStep ==
  ASSUME SimInv, NEW n \in Nodes, MiningTimer(n)
  PROVE  SimInv'
<1> DEFINE w == [base |-> chain[n], ids |-> FirstOf(mempool[n], MaxBlock)]
<1>1. /\ mining[n] = "timer" /\ mining' = [mining EXCEPT ![n] = "search"]
      /\ work' = [work EXCEPT ![n] = w]
      /\ UNCHANGED <<chain, mempool, timers, page>>
  BY DEF MiningTimer
<1>2. TypeOK' /\ ChainsSound' /\ PoolsUnconfirmed'
  BY <1>1 DEF SimInv, TypeOK, ChainsSound, PoolsUnconfirmed, timers, page, About
<1>3. mempool[n] # {} /\ ~ forkInProgress
  BY <1>1 DEF SimInv, MinersOnTip
<1>4. mempool[n] \in SUBSET Nat /\ IsFiniteSet(mempool[n]) /\ MaxBlock \in Nat \ {0}
  BY IDsAreNumbers, SimulatorAssumption DEF SimInv, TypeOK
<1>5. w.base = chain[n] /\ w.ids \subseteq mempool[n] /\ w.ids # {}
  BY <1>3, <1>4, FirstMessages
<1> HIDE DEF w
<1>6. MinersOnTip'
  <2> SUFFICES ASSUME NEW m \in Nodes
               PROVE  /\ mining'[m] # "off" => mempool[m] # {} /\ ~ forkInProgress
                      /\ mining'[m] = "search" =>
                           /\ work'[m].base = chain[m] /\ work'[m].ids \subseteq mempool[m]
                           /\ work'[m].ids # {}
                      /\ mining'[m] = "submitted" /\ Len(chain[m]) < MaxChain =>
                           \E c \in checking[m] : Extends(c, chain[m])
    BY <1>1 DEF MinersOnTip, timers, page, forkInProgress, Extends
  <2>1. CASE m = n
    <3>1. mining'[n] = "search" /\ work'[n] = w
      BY <1>1 DEF SimInv, TypeOK
    <3> QED  BY <1>3, <1>5, <2>1, <3>1
  <2>2. CASE m # n
    <3>1. mining'[m] = mining[m] /\ work'[m] = work[m]
      BY <1>1, <2>2 DEF SimInv, TypeOK
    <3> QED  BY <3>1 DEF SimInv, MinersOnTip
  <2> QED  BY <2>1, <2>2
<1> QED  BY <1>2, <1>6 DEF SimInv

\* A block that is found extends the chain the node still has.
LEMMA MinedStep ==
  ASSUME SimInv, NEW n \in Nodes, Mined(n)
  PROVE  SimInv'
<1> DEFINE d == mine(work[n].base, work[n].ids)
<1>1. /\ mining[n] = "search" /\ mining' = [mining EXCEPT ![n] = "submitted"]
      /\ checking' = [checking EXCEPT ![n] = @ \cup {d}]
      /\ work' = [work EXCEPT ![n] = NoWork]
      /\ lastMinedTx' = Min(work[n].ids)
      /\ UNCHANGED <<chain, mempool, startTimer, txPackets, snapshots, fork, forkBase, fresh>>
  BY DEF Mined
<1>2. /\ work[n].base = chain[n] /\ work[n].ids \subseteq mempool[n] /\ work[n].ids # {}
      /\ mempool[n] # {} /\ ~ forkInProgress
  BY <1>1 DEF SimInv, MinersOnTip
<1>3. /\ Sound(chain[n], About) /\ work[n].ids \in SUBSET About
      /\ work[n].ids \cap Confirmed(chain[n]) = {}
  BY <1>2 DEF SimInv, TypeOK, ChainsSound, PoolsUnconfirmed
<1>4. Sound(d, About) /\ Extends(d, chain[n])
  BY <1>2, <1>3, MineSound
<1>5. Min(work[n].ids) \in About
  BY <1>2, <1>3, MinIsOfSet, IDsAreNumbers
<1> HIDE DEF d
<1>6. About' = About
  BY <1>1 DEF About
<1>7. TypeOK'
  BY <1>1, <1>5, <1>6 DEF SimInv, TypeOK
<1>8. \A m \in Nodes : checking'[m] = IF m = n THEN checking[m] \cup {d} ELSE checking[m]
  BY <1>1 DEF SimInv, TypeOK
<1>9. ChainsSound'
  BY <1>1, <1>4, <1>6, <1>8 DEF SimInv, ChainsSound
<1>10. PoolsUnconfirmed'
  BY <1>1 DEF SimInv, PoolsUnconfirmed
<1>11. MinersOnTip'
  <2> SUFFICES ASSUME NEW m \in Nodes
               PROVE  /\ mining'[m] # "off" => mempool[m] # {} /\ ~ forkInProgress
                      /\ mining'[m] = "search" =>
                           /\ work'[m].base = chain[m] /\ work'[m].ids \subseteq mempool[m]
                           /\ work'[m].ids # {}
                      /\ mining'[m] = "submitted" /\ Len(chain[m]) < MaxChain =>
                           \E c \in checking'[m] : Extends(c, chain[m])
    BY <1>1 DEF MinersOnTip, forkInProgress, Extends
  <2>1. CASE m = n
    <3>1. mining'[n] = "submitted"
      BY <1>1 DEF SimInv, TypeOK
    <3> QED  BY <1>2, <1>4, <1>8, <2>1, <3>1
  <2>2. CASE m # n
    <3>1. mining'[m] = mining[m] /\ work'[m] = work[m] /\ checking'[m] = checking[m]
      BY <1>1, <1>8, <2>2 DEF SimInv, TypeOK
    <3> QED  BY <3>1 DEF SimInv, MinersOnTip
  <2> QED  BY <2>1, <2>2
<1> QED  BY <1>7, <1>9, <1>10, <1>11 DEF SimInv

\* What arrives is looked at later or dropped.
LEMMA Arrives ==
  ASSUME NEW n, NEW c
  PROVE  checking[n] \subseteq Arriving(n, c) /\ Arriving(n, c) \subseteq checking[n] \cup {c}
BY DEF Arriving

\* A chain is sent to some neighbours.
LEMMA BroadcastStep ==
  ASSUME SimInv, NEW n \in Nodes, NEW c, broadcastChain(n, c)
  PROVE  SimInv'
<1>1. /\ <<n, c>> \in snapshots /\ snapshots' = snapshots \ {<<n, c>>}
      /\ UNCHANGED <<local, startTimer, txPackets, page>>
  BY DEF broadcastChain
<1>2. About' = About /\ Sound(c, About)
  BY <1>1 DEF About, page, SimInv, ChainsSound
<1>3. /\ checking' = [m \in Nodes |-> checking'[m]]
      /\ \A m \in Nodes : /\ checking[m] \subseteq checking'[m]
                         /\ checking'[m] \subseteq checking[m] \cup {c}
  <2>1. CASE checking' = checking
    BY <2>1 DEF SimInv, TypeOK
  <2>2. CASE \E to \in getNeighbors(n) : checking' =
               [t \in Nodes |-> IF t \in Range(to) THEN Arriving(t, c) ELSE checking[t]]
    BY <2>2, Arrives
  <2> QED  BY <2>1, <2>2 DEF broadcastChain
<1>4. TypeOK'
  BY <1>1, <1>2, <1>3 DEF SimInv, TypeOK, local, page
<1>5. ChainsSound'
  BY <1>1, <1>2, <1>3 DEF SimInv, ChainsSound, local, page
<1>6. PoolsUnconfirmed'
  BY <1>1 DEF SimInv, PoolsUnconfirmed, local
<1>7. MinersOnTip'
  BY <1>1, <1>3, MinersGoOn DEF local, page
<1> QED  BY <1>4, <1>5, <1>6, <1>7 DEF SimInv

\* The demonstration begins: miners stop, and everybody looks at the best chain.
LEMMA SetupStep ==
  ASSUME SimInv, ForkSetup
  PROVE  SimInv'
<1>1. /\ fork = "no" /\ fork' = "setup"
      /\ mining' = [n \in Nodes |-> "off"] /\ work' = [n \in Nodes |-> NoWork]
      /\ \E n \in Nodes : forkBase' = chain[n]
      /\ checking' = [n \in Nodes |-> Arriving(n, forkBase')]
      /\ UNCHANGED <<chain, mempool, startTimer, txPackets, snapshots, lastMinedTx, fresh>>
  BY DEF ForkSetup
<1>2. About' = About
  BY <1>1 DEF About
<1>3. Sound(forkBase', About)
  BY <1>1 DEF SimInv, ChainsSound
<1>4. TypeOK'
  BY <1>1, <1>2 DEF SimInv, TypeOK
<1>5. \A n \in Nodes : checking'[n] \subseteq checking[n] \cup {forkBase'}
  BY <1>1, Arrives
<1>6. ChainsSound'
  BY <1>1, <1>2, <1>3, <1>5 DEF SimInv, ChainsSound
<1>7. PoolsUnconfirmed' /\ MinersOnTip'
  BY <1>1 DEF SimInv, PoolsUnconfirmed, MinersOnTip
<1> QED  BY <1>4, <1>6, <1>7 DEF SimInv

\* Two blocks with messages that nobody has seen are mined on the base.
LEMMA RaceStep ==
  ASSUME SimInv, ForkMine
  PROVE  SimInv'
<1> DEFINE a == mine(forkBase, {ForkA})
           b == mine(forkBase, {ForkB})
<1>1. /\ fork = "setup" /\ fork' = "race"
      /\ checking' = [checking EXCEPT ![NodeA] = @ \cup {a}, ![NodeC] = @ \cup {b}]
      /\ forkBase' = Genesis
      /\ UNCHANGED <<local, startTimer, txPackets, snapshots, lastMinedTx, fresh>>
  BY DEF ForkMine
<1>2. About = Messages /\ About' = IDs /\ About \subseteq About'
  BY <1>1 DEF About, IDs
<1>3. Sound(a, IDs) /\ Sound(b, IDs)
  <2>1. NodeA \in Nodes /\ {ForkA, ForkB} \cap Messages = {}
    BY SimulatorAssumption
  <2>2. Sound(forkBase, Messages)
    BY <1>2, <2>1 DEF SimInv, ChainsSound
  <2>3. Sound(forkBase, IDs)
    BY <1>2, <2>2, SoundWithMore
  <2>4. {ForkA} \in SUBSET IDs /\ {ForkB} \in SUBSET IDs
    BY DEF IDs
  <2>5. {ForkA} \cap Confirmed(forkBase) = {} /\ {ForkB} \cap Confirmed(forkBase) = {}
    BY <2>1, <2>2 DEF Sound
  <2> QED  BY <2>3, <2>4, <2>5, MineSound
<1> HIDE DEF a, b
<1>4. TypeOK'
  BY <1>1, <1>2 DEF SimInv, TypeOK, local
<1>5. \A n \in Nodes : /\ checking[n] \subseteq checking'[n]
                      /\ checking'[n] \subseteq checking[n] \cup {a, b}
  BY <1>1 DEF SimInv, TypeOK
<1>6. ChainsSound'
  <2>1. \A n \in Nodes : \A c \in {chain[n]} \cup checking[n] : Sound(c, IDs)
    BY <1>2, SoundWithMore DEF SimInv, ChainsSound
  <2>2. \A s \in snapshots : Sound(s[2], IDs)
    BY <1>2, SoundWithMore DEF SimInv, ChainsSound
  <2> QED  BY <1>1, <1>2, <1>3, <1>5, <2>1, <2>2, GenesisSound DEF ChainsSound, local
<1>7. PoolsUnconfirmed'
  BY <1>1 DEF SimInv, PoolsUnconfirmed, local
<1>8. MinersOnTip'
  <2>1. \A n \in Nodes : mining'[n] = "off"
    BY <1>1 DEF SimInv, TypeOK, MinersOnTip, forkInProgress, local
  <2> QED  BY <2>1 DEF MinersOnTip
<1> QED  BY <1>4, <1>6, <1>7, <1>8 DEF SimInv

\* A chain is adopted or dropped after its validation.
LEMMA ReceiveStep ==
  ASSUME SimInv, NEW n \in Nodes, NEW c, receiveChain(n, c)
  PROVE  SimInv'
<1> DEFINE pool == reconcile(chain[n], c, mempool[n])
<1>1. /\ c \in checking[n] /\ UNCHANGED <<txPackets, page>>
      /\ checking' = [checking EXCEPT ![n] = {d \in @ \ {c} : better(d, chain'[n])}]
  BY DEF receiveChain
<1>2. About' = About /\ forkInProgress' = forkInProgress
  BY <1>1 DEF About, page, forkInProgress
<1>3. \A m \in Nodes : checking'[m] \subseteq checking[m] /\ (m # n => checking'[m] = checking[m])
  BY <1>1 DEF SimInv, TypeOK
<1>4. Sound(c, About) /\ Sound(chain[n], About)
  BY <1>1 DEF SimInv, ChainsSound
<1>5. CASE adopts(n, c)
  <2>1. /\ mining' = [mining EXCEPT ![n] = "off"] /\ work' = [work EXCEPT ![n] = NoWork]
        /\ mempool' = [mempool EXCEPT ![n] = pool]
        /\ chain' = [chain EXCEPT ![n] = c]
        /\ snapshots' \subseteq snapshots \cup {<<n, c>>}
        /\ startTimer' \subseteq startTimer \cup {n}
    BY <1>5 DEF receiveChain, stopMining
  <2>2. Cardinality(pool) <= MaxPending
    BY <1>5 DEF adopts
  <2>3. pool \subseteq About /\ pool \cap Confirmed(c) = {}
    BY <1>4 DEF reconcile, SimInv, TypeOK, Sound
  <2> HIDE DEF pool
  <2>4. TypeOK'
    BY <1>1, <1>2, <2>1, <2>3 DEF SimInv, TypeOK, page
  <2>5. \A m \in Nodes :
          /\ chain'[m] = (IF m = n THEN c ELSE chain[m])
          /\ mempool'[m] = (IF m = n THEN pool ELSE mempool[m])
          /\ mining'[m] = (IF m = n THEN "off" ELSE mining[m])
          /\ m # n => work'[m] = work[m]
    BY <2>1 DEF SimInv, TypeOK
  <2>6. ChainsSound'
    <3>1. \A m \in Nodes : \A d \in {forkBase', chain'[m]} \cup checking'[m] : Sound(d, About)
      BY <1>1, <1>3, <1>4, <2>5 DEF SimInv, ChainsSound, page
    <3>2. \A s \in snapshots' : Sound(s[2], About)
      <4>1. <<n, c>>[2] = c
        OBVIOUS
      <4> QED  BY <1>4, <2>1, <4>1 DEF SimInv, ChainsSound
    <3> QED  BY <1>2, <3>1, <3>2 DEF ChainsSound
  <2>7. PoolsUnconfirmed'
    <3>1. \A m \in Nodes : /\ Cardinality(mempool'[m]) <= MaxPending
                           /\ mempool'[m] \cap Confirmed(chain'[m]) = {}
      BY <2>2, <2>3, <2>5 DEF SimInv, PoolsUnconfirmed
    <3> QED  BY <3>1 DEF PoolsUnconfirmed
  <2>8. MinersOnTip'
    <3>1. ASSUME NEW m \in Nodes
          PROVE  /\ mining'[m] # "off" => mempool'[m] # {} /\ ~ forkInProgress'
                 /\ mining'[m] = "search" =>
                      /\ work'[m].base = chain'[m] /\ work'[m].ids \subseteq mempool'[m]
                      /\ work'[m].ids # {}
                 /\ mining'[m] = "submitted" /\ Len(chain'[m]) < MaxChain =>
                      \E d \in checking'[m] : Extends(d, chain'[m])
      <4>1. CASE m = n
        BY <2>5, <4>1
      <4>2. CASE m # n
        BY <1>2, <1>3, <2>5, <4>2 DEF SimInv, MinersOnTip
      <4> QED  BY <4>1, <4>2
    <3> QED  BY <3>1 DEF MinersOnTip, Extends
  <2> QED  BY <2>4, <2>6, <2>7, <2>8 DEF SimInv
<1>6. CASE ~ adopts(n, c)
  <2>1. UNCHANGED <<mining, work, mempool, chain, snapshots, startTimer>>
    BY <1>6 DEF receiveChain
  <2>2. TypeOK'
    BY <1>1, <1>2, <2>1 DEF SimInv, TypeOK, page
  <2>3. ChainsSound'
    BY <1>1, <1>2, <1>3, <2>1 DEF SimInv, ChainsSound, page
  <2>4. PoolsUnconfirmed'
    BY <2>1 DEF SimInv, PoolsUnconfirmed
  <2>5. MinersOnTip'
    <3> SUFFICES ASSUME NEW m \in Nodes, mining[m] = "submitted", Len(chain[m]) < MaxChain
                 PROVE  \E d \in checking'[m] : Extends(d, chain[m])
      BY <1>2, <2>1 DEF SimInv, MinersOnTip, Extends
    <3>1. PICK d \in checking[m] : Extends(d, chain[m])
      BY DEF SimInv, MinersOnTip
    <3>2. CASE m # n
      BY <1>3, <3>1, <3>2
    <3>3. CASE m = n
      <4>1. Sound(d, About)
        BY <3>1 DEF SimInv, ChainsSound
      <4>2. /\ better(d, chain[n]) /\ Len(d) = Len(chain[n]) + 1
            /\ Confirmed(chain[n]) \subseteq Confirmed(d)
        BY <1>4, <3>1, <3>3, <4>1, ExtensionIsBetter
      <4>3. d # c
        <5> SUFFICES ASSUME d = c PROVE FALSE
          OBVIOUS
        <5>1. Len(c) <= MaxChain
          BY <1>4, <3>3, <4>2, SoundShape, SimulatorAssumption
        <5>2. reconcile(chain[n], c, mempool[n]) \in SUBSET mempool[n]
          BY <4>2 DEF reconcile
        <5>3. /\ IsFiniteSet(mempool[n]) /\ Cardinality(mempool[n]) \in Nat
              /\ Cardinality(mempool[n]) <= MaxPending
          BY IDsAreNumbers DEF SimInv, TypeOK, PoolsUnconfirmed
        <5>4. Cardinality(reconcile(chain[n], c, mempool[n])) <= MaxPending
          <6>1. /\ IsFiniteSet(reconcile(chain[n], c, mempool[n]))
                /\ Cardinality(reconcile(chain[n], c, mempool[n])) <= Cardinality(mempool[n])
            BY <5>2, <5>3, FS_Subset
          <6> QED  BY <5>3, <6>1, FS_CardinalityType, SimulatorAssumption
        <5> QED  BY <1>6, <4>2, <5>1, <5>4 DEF adopts
      <4>4. checking'[n] = {e \in checking[n] \ {c} : better(e, chain[n])}
        BY <1>1, <2>1 DEF SimInv, TypeOK
      <4> QED  BY <3>1, <3>3, <4>2, <4>3, <4>4
    <3> QED  BY <3>2, <3>3
  <2> QED  BY <2>2, <2>3, <2>4, <2>5 DEF SimInv
<1> QED  BY <1>5, <1>6

\* One node takes a message.
LEMMA TakeOne ==
  ASSUME SimInv, NEW n \in Nodes, NEW i \in About, NEW sent, receiveTx(n, i, sent)
  PROVE  \E pools \in GoodPools : Taking(pools, sent)
<1>1. [mempool EXCEPT ![n] = WithTxs(n, @, {i})] \in GoodPools
  BY LiveIsGood, WithTxsGood
<1> QED  BY <1>1 DEF receiveTx

\* Steps that only give nodes messages, and chains to look at, keep the invariant.
LEMMA TakeStep ==
  ASSUME SimInv, NEW pools \in GoodPools, NEW sent, Taking(pools, sent),
         fresh' \subseteq fresh,
         UNCHANGED <<chain, mining, work, snapshots, fork, forkBase, lastMinedTx>>,
         checking' = [n \in Nodes |-> checking'[n]],
         \A n \in Nodes : /\ checking[n] \subseteq checking'[n]
                         /\ \A c \in checking'[n] : Sound(c, About)
  PROVE  SimInv'
<1>1. About' = About
  BY DEF About
<1>2. /\ mempool' \in [Nodes -> SUBSET About'] /\ PoolsUnconfirmed'
      /\ startTimer' \subseteq Nodes /\ txPackets' \subseteq Nodes \X About'
      /\ \A n \in Nodes : mempool[n] \subseteq mempool'[n]
  BY <1>1, TakingSound
<1>3. TypeOK'
  BY <1>1, <1>2 DEF SimInv, TypeOK
<1>4. ChainsSound'
  BY <1>1 DEF SimInv, ChainsSound
<1>5. MinersOnTip'
  BY <1>2, MinersGoOn
<1> QED  BY <1>2, <1>3, <1>4, <1>5 DEF SimInv

LEMMA ArrivesStep ==
  ASSUME SimInv, NEW n \in Nodes, NEW i, TxArrives(n, i)
  PROVE  SimInv'
<1>1. /\ <<n, i>> \in txPackets /\ receiveTx(n, i, {<<n, i>>})
      /\ UNCHANGED <<chain, mining, work, checking, snapshots, page>>
  BY DEF TxArrives
<1>2. i \in About
  BY <1>1 DEF SimInv, TypeOK
<1>3. PICK pools \in GoodPools : Taking(pools, {<<n, i>>})
  BY <1>1, <1>2, TakeOne
<1>4. checking = [m \in Nodes |-> checking[m]] /\ \A m \in Nodes : \A c \in checking[m] : Sound(c, About)
  BY DEF SimInv, TypeOK, ChainsSound
<1> QED  BY <1>1, <1>3, <1>4, TakeStep DEF page

LEMMA SendStep ==
  ASSUME SimInv, NEW n \in Nodes, NEW i \in Messages, SendMessage(n, i)
  PROVE  SimInv'
<1>1. /\ receiveTx(n, i, {}) /\ fresh' = fresh \ {i}
      /\ UNCHANGED <<chain, mining, work, checking, snapshots, fork, forkBase, lastMinedTx>>
  BY DEF SendMessage
<1>2. i \in About
  BY DEF About, IDs
<1>3. PICK pools \in GoodPools : Taking(pools, {})
  BY <1>1, <1>2, TakeOne
<1>4. checking = [m \in Nodes |-> checking[m]] /\ \A m \in Nodes : \A c \in checking[m] : Sound(c, About)
  BY DEF SimInv, TypeOK, ChainsSound
<1> QED  BY <1>1, <1>3, <1>4, TakeStep

\* What the nodes have after the replay they may have.
LEMMA ReplayGood ==
  ASSUME SimInv, lastMinedTx # -1
  PROVE  [n \in Nodes |-> WithTxs(n, mempool[n], {lastMinedTx})] \in GoodPools
<1> DEFINE pools == [n \in Nodes |-> WithTxs(n, mempool[n], {lastMinedTx})]
<1>1. {lastMinedTx} \in SUBSET About
  BY DEF SimInv, TypeOK
<1>2. ASSUME NEW n \in Nodes
      PROVE  /\ pools[n] \in SUBSET About /\ mempool[n] \subseteq pools[n]
             /\ Cardinality(pools[n]) <= MaxPending
             /\ pools[n] \cap Confirmed(chain[n]) = {}
  <2> DEFINE p == [mempool EXCEPT ![n] = WithTxs(n, @, {lastMinedTx})]
  <2>1. p \in GoodPools
    BY <1>1, LiveIsGood, WithTxsGood
  <2>2. p[n] = pools[n]
    BY DEF SimInv, TypeOK
  <2> QED  BY <2>1, <2>2 DEF GoodPools
<1> QED  BY <1>2 DEF GoodPools

LEMMA ReplayStep ==
  ASSUME SimInv, Replay
  PROVE  SimInv'
<1> DEFINE pools == [n \in Nodes |-> WithTxs(n, mempool[n], {lastMinedTx})]
<1>1. /\ lastMinedTx # -1 /\ Taking(pools, {})
      /\ UNCHANGED <<chain, mining, work, checking, snapshots, page>>
  BY DEF Replay
<1>2. pools \in GoodPools
  BY <1>1, ReplayGood
<1> HIDE DEF pools
<1>3. checking = [m \in Nodes |-> checking[m]] /\ \A m \in Nodes : \A c \in checking[m] : Sound(c, About)
  BY DEF SimInv, TypeOK, ChainsSound
<1> QED  BY <1>1, <1>2, <1>3, TakeStep DEF page

\* All nodes look at chains of others and take their messages.
LEMMA AskedSound ==
  ASSUME SimInv, NEW to \in Partners, Asked(to)
  PROVE  /\ Gathered(to) \in GoodPools /\ Taking(Gathered(to), {})
         /\ checking' = [n \in Nodes |-> checking'[n]]
         /\ \A n \in Nodes : /\ checking[n] \subseteq checking'[n]
                            /\ \A c \in checking'[n] : Sound(c, About)
<1>1. Gathered(to) \in GoodPools /\ Taking(Gathered(to), {})
  BY LiveIsGood, GatheredGood DEF Asked
<1>2. checking' = [n \in Nodes |->
        checking[n] \cup UNION {Arriving(n, chain[p]) : p \in Range(to[n])}]
  BY DEF Asked
<1>3. \A n \in Nodes : checking'[n] =
        checking[n] \cup UNION {Arriving(n, chain[p]) : p \in Range(to[n])}
  BY <1>2
<1>4. ASSUME NEW n \in Nodes, NEW c \in checking'[n]
      PROVE  Sound(c, About)
  <2>1. CASE c \in checking[n]
    BY <2>1 DEF SimInv, ChainsSound
  <2>2. CASE c \notin checking[n]
    <3>1. PICK p \in Range(to[n]) : c \in Arriving(n, chain[p])
      BY <1>3, <1>4, <2>2
    <3>2. c = chain[p]
      BY <2>2, <3>1, Arrives
    <3>3. p \in Nodes
      BY <3>1, NeighboursAreNodes DEF Partners
    <3> QED  BY <3>2, <3>3 DEF SimInv, ChainsSound
  <2> QED  BY <2>1, <2>2
<1> QED  BY <1>1, <1>2, <1>3, <1>4

LEMMA SynchronizeStep ==
  ASSUME SimInv, NEW to \in Partners, synchronize(to)
  PROVE  SimInv'
<1>1. Asked(to) /\ UNCHANGED <<chain, mining, work, snapshots, page>>
  BY DEF synchronize
<1> QED  BY <1>1, AskedSound, TakeStep DEF page

\* The demonstration ends: what it has held back is made up for.
LEMMA EndStep ==
  ASSUME SimInv, ForkEnd
  PROVE  SimInv'
<1>1. /\ fork = "race" /\ fork' = "done"
      /\ snapshots' = snapshots \cup {<<n, chain[n]>> : n \in Nodes}
      /\ mining' = [n \in Nodes |-> IF CanStart(n) THEN "timer" ELSE mining[n]]
      /\ UNCHANGED <<chain, work, forkBase, lastMinedTx, fresh>>
  BY DEF ForkEnd
<1>2. PICK to \in Partners : Asked(to)
  BY DEF ForkEnd
<1>3. About' = About
  BY <1>1 DEF About
<1>4. /\ Gathered(to) \in GoodPools /\ Taking(Gathered(to), {})
      /\ checking' = [n \in Nodes |-> checking'[n]]
      /\ \A n \in Nodes : /\ checking[n] \subseteq checking'[n]
                         /\ \A c \in checking'[n] : Sound(c, About)
  BY <1>2, AskedSound
<1>5. /\ mempool' \in [Nodes -> SUBSET About'] /\ PoolsUnconfirmed'
      /\ startTimer' \subseteq Nodes /\ txPackets' \subseteq Nodes \X About'
      /\ \A n \in Nodes : mempool[n] \subseteq mempool'[n]
  BY <1>1, <1>3, <1>4, TakingSound
<1>6. \A n \in Nodes : mining[n] = "off"
  BY <1>1 DEF SimInv, MinersOnTip, forkInProgress
<1>7. TypeOK'
  BY <1>1, <1>3, <1>4, <1>5, <1>6 DEF SimInv, TypeOK
<1>8. ChainsSound'
  <2>1. \A s \in snapshots' : Sound(s[2], About)
    BY <1>1 DEF SimInv, ChainsSound
  <2> QED  BY <1>1, <1>3, <1>4, <2>1 DEF SimInv, ChainsSound
<1>9. MinersOnTip'
  <2>1. ASSUME NEW n \in Nodes
        PROVE  /\ mining'[n] # "search" /\ mining'[n] # "submitted"
               /\ mining'[n] # "off" => mempool'[n] # {}
    BY <1>1, <1>5, <1>6 DEF CanStart
  <2>2. ~ forkInProgress'
    BY <1>1 DEF forkInProgress
  <2> QED  BY <2>1, <2>2 DEF MinersOnTip
<1> QED  BY <1>5, <1>7, <1>8, <1>9 DEF SimInv

-----------------------------------------------------------------------------
(* Theorems *)

LEMMA SimInit == Init => SimInv
<1> SUFFICES ASSUME Init PROVE SimInv
  OBVIOUS
<1>1. TypeOK
  BY DEF Init, TypeOK
<1>2. ChainsSound
  BY GenesisSound DEF Init, ChainsSound
<1>3. Confirmed(Genesis) = {}
  BY GenesisSound DEF Sound
<1>4. PoolsUnconfirmed
  BY <1>3, FS_EmptySet, SimulatorAssumption DEF Init, PoolsUnconfirmed
<1>5. MinersOnTip
  BY DEF Init, MinersOnTip
<1> QED  BY <1>1, <1>2, <1>4, <1>5 DEF SimInv

LEMMA SimNext == SimInv /\ [Next]_vars => SimInv'
<1> SUFFICES ASSUME SimInv, [Next]_vars PROVE SimInv'
  OBVIOUS
<1>1. ASSUME NEW n \in Nodes, startMining(n) PROVE SimInv'
  BY <1>1, StartStep
<1>2. ASSUME NEW n \in Nodes, MiningTimer(n) PROVE SimInv'
  BY <1>2, TimerStep
<1>3. ASSUME NEW n \in Nodes, Mined(n) PROVE SimInv'
  BY <1>3, MinedStep
<1>4. ASSUME NEW n \in Nodes, Receive(n) PROVE SimInv'
  BY <1>4, ReceiveStep DEF Receive
<1>5. ASSUME NEW n \in Nodes, Broadcast(n) PROVE SimInv'
  BY <1>5, BroadcastStep DEF Broadcast
<1>6. ASSUME NEW n \in Nodes, NEW i \in IDs, TxArrives(n, i) PROVE SimInv'
  BY <1>6, ArrivesStep
<1>7. ASSUME NEW n \in Nodes, NEW i \in Messages, SendMessage(n, i) PROVE SimInv'
  BY <1>7, SendStep
<1>8. ASSUME NEW to \in Partners, synchronize(to) PROVE SimInv'
  BY <1>8, SynchronizeStep
<1>9. CASE Replay
  BY <1>9, ReplayStep
<1>10. CASE ForkSetup
  BY <1>10, SetupStep
<1>11. CASE ForkMine
  BY <1>11, RaceStep
<1>12. CASE ForkEnd
  BY <1>12, EndStep
<1>13. CASE UNCHANGED vars
  BY <1>13 DEF vars, local, timers, page, SimInv, TypeOK, ChainsSound, PoolsUnconfirmed,
               MinersOnTip, About, forkInProgress
<1> QED  BY <1>1, <1>2, <1>3, <1>4, <1>5, <1>6, <1>7, <1>8, <1>9, <1>10, <1>11, <1>12, <1>13
         DEF Next

\* Through every await and timer, for any number of nodes and messages: chains on their
\* way replay nothing, pending messages are unconfirmed and within the limit, and the miner
\* works on the live chain, with its flag set only while a block of it is still to come.
THEOREM SimulatorSound == Spec => []SimInv
<1> QED  BY SimInit, SimNext, PTL DEF Spec

\* A validation that ends late never takes a node back to a worse chain.
THEOREM ChainsOnlyImprove == Spec => OnlyBetter
<1>1. SimInv /\ [Next]_vars =>
        [\A n \in Nodes : chain'[n] # chain[n] => better(chain'[n], chain[n])]_vars
  <2> SUFFICES ASSUME SimInv, [Next]_vars, NEW n \in Nodes, chain'[n] # chain[n]
               PROVE  better(chain'[n], chain[n])
    OBVIOUS
  <2>1. PICK m, c : m \in Nodes /\ receiveChain(m, c)
    <3>1. CASE \E m \in Nodes : Receive(m)
      BY <3>1 DEF Receive
    <3>2. CASE ~ \E m \in Nodes : Receive(m)
      BY <3>2 DEF Next, startMining, MiningTimer, Mined, Broadcast, broadcastChain, TxArrives,
                  SendMessage, synchronize, Replay, ForkSetup, ForkMine, ForkEnd, local, vars
    <3> QED  BY <3>1, <3>2
  <2>2. adopts(m, c) /\ chain' = [chain EXCEPT ![m] = c]
    BY <2>1 DEF receiveChain
  <2>3. m = n /\ chain'[n] = c
    BY <2>2 DEF SimInv, TypeOK
  <2> QED  BY <2>2, <2>3 DEF adopts
<1> QED  BY <1>1, SimulatorSound, PTL DEF Spec, OnlyBetter

\* A message that a node has taken is pending or confirmed there ever after, through
\* every adoption, replay, synchronisation and the demonstration.
THEOREM NoMessageForgotten == Spec => NothingForgotten
<1>1. SimInv /\ [Next]_vars =>
        [\A n \in Nodes : mempool[n] \cup Confirmed(chain[n])
                            \subseteq mempool'[n] \cup Confirmed(chain'[n])]_vars
  <2> SUFFICES ASSUME SimInv, [Next]_vars, NEW n \in Nodes
               PROVE  mempool[n] \cup Confirmed(chain[n])
                        \subseteq mempool'[n] \cup Confirmed(chain'[n])
    OBVIOUS
  <2> DEFINE Kept == mempool[n] \subseteq mempool'[n] /\ chain'[n] = chain[n]
  <2>1. ASSUME NEW m \in Nodes, NEW c, receiveChain(m, c)
        PROVE  \/ Kept
               \/ chain'[n] = c /\ mempool'[n] = reconcile(chain[n], c, mempool[n])
    <3>1. CASE adopts(m, c)
      <4>1. /\ chain' = [chain EXCEPT ![m] = c]
            /\ mempool' = [mempool EXCEPT ![m] = reconcile(chain[m], c, mempool[m])]
        BY <2>1, <3>1 DEF receiveChain
      <4>2. CASE m = n
        BY <4>1, <4>2 DEF SimInv, TypeOK
      <4>3. CASE m # n
        BY <4>1, <4>3 DEF SimInv, TypeOK
      <4> QED  BY <4>2, <4>3
    <3>2. CASE ~ adopts(m, c)
      <4>1. UNCHANGED <<chain, mempool>>
        BY <2>1, <3>2 DEF receiveChain
      <4> QED  BY <4>1
    <3> QED  BY <3>1, <3>2
  <2>2. ASSUME NEW pools \in GoodPools, NEW sent, Taking(pools, sent), chain' = chain
        PROVE  Kept
    BY <2>2 DEF Taking, GoodPools
  <2>3. ASSUME NEW m \in Nodes, NEW i \in IDs, TxArrives(m, i)
        PROVE  Kept
    <3>1. i \in About /\ receiveTx(m, i, {<<m, i>>}) /\ chain' = chain
      BY <2>3 DEF TxArrives, SimInv, TypeOK
    <3> QED  BY <2>2, <3>1, TakeOne
  <2>4. ASSUME NEW m \in Nodes, NEW i \in Messages, SendMessage(m, i)
        PROVE  Kept
    <3>1. i \in About /\ receiveTx(m, i, {}) /\ chain' = chain
      BY <2>4 DEF SendMessage, About, IDs
    <3> QED  BY <2>2, <3>1, TakeOne
  <2>5. ASSUME NEW to \in Partners, Asked(to), chain' = chain
        PROVE  Kept
    BY <2>2, <2>5, AskedSound
  <2>6. ASSUME Replay
        PROVE  Kept
    BY <2>2, <2>6, ReplayGood DEF Replay
  <2>7. ASSUME mempool' = mempool, chain' = chain
        PROVE  Kept
    BY <2>7
  <2>8. Kept \/ \E c : chain'[n] = c /\ mempool'[n] = reconcile(chain[n], c, mempool[n])
    <3>1. CASE \E m \in Nodes : Receive(m)
      BY <2>1, <3>1 DEF Receive
    <3>2. CASE \E m \in Nodes : startMining(m) \/ MiningTimer(m) \/ Mined(m) \/ Broadcast(m)
      BY <2>7, <3>2 DEF startMining, MiningTimer, Mined, Broadcast, broadcastChain, local
    <3>3. CASE \E to \in Partners : synchronize(to)
      BY <2>5, <3>3 DEF synchronize
    <3>4. CASE ForkEnd
      BY <2>5, <3>4 DEF ForkEnd
    <3>5. CASE ForkSetup \/ ForkMine \/ UNCHANGED vars
      BY <2>7, <3>5 DEF ForkSetup, ForkMine, vars, local
    <3>6. CASE \E m \in Nodes : \E i \in IDs : TxArrives(m, i)
      BY <2>3, <3>6
    <3>7. CASE \E m \in Nodes : \E i \in Messages : SendMessage(m, i)
      BY <2>4, <3>7
    <3>8. \/ \E m \in Nodes :
               \/ startMining(m) \/ MiningTimer(m) \/ Mined(m) \/ Receive(m) \/ Broadcast(m)
               \/ \E i \in IDs : TxArrives(m, i)
               \/ \E i \in Messages : SendMessage(m, i)
          \/ \E to \in Partners : synchronize(to)
          \/ Replay \/ ForkSetup \/ ForkMine \/ ForkEnd \/ UNCHANGED vars
      BY Zenon DEF Next
    <3>9. CASE Replay
      BY <2>6, <3>9
    <3> HIDE DEF Kept
    <3> QED  BY <3>1, <3>2, <3>3, <3>4, <3>5, <3>6, <3>7, <3>8, <3>9, Zenon
  <2> QED  BY <2>8 DEF reconcile
<1> QED  BY <1>1, SimulatorSound, PTL DEF Spec, NothingForgotten

=============================================================================
