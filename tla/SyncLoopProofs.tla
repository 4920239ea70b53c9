--------------------------- MODULE SyncLoopProofs ---------------------------
(***************************************************************************)
(* The rotation of ResolveConflicts gives every peer that answers in time  *)
(* a turn, for any number of peers and any timeouts of which two fit into  *)
(* a pass.                                                                 *)
(***************************************************************************)
EXTENDS SyncLoop, TLAPS

\* Passes begun since the last one that began with p.
Behind(p) == IF p < nextPeer THEN nextPeer - 1 - p ELSE nextPeer + N - 1 - p

\* The peer a pass begins with is not finished with yet: its two requests come
\* before time is short, so they succeed if it has been up from the beginning.
FirstStillAsked ==
  /\ pc = "pass" /\ pos = 0
  /\ req = "chain" => left = Budget
  /\ req = "mempool" => got /\ left > Budget - Timeout

\* Only the peer whose turn it is may have waited longer than its turns say.
Turn ==
  /\ pc = "start" => nextPeer = 0 /\ \A p \in Peers : since[p] = 0
  /\ pc = "pass" => nextPeer = Following(first)
  /\ ~cancelled => \A p \in Peers :
       \/ since[p] <= Behind(p)
       \/ p = first /\ since[p] <= N /\ p \in up /\ FirstStillAsked
  /\ \A p \in Peers : since[p] > 0 => p \in up
  /\ req = "mempool" => pos < N

IInv == TypeOK /\ Turn

-----------------------------------------------------------------------------
\* Counting modulo N, as ResolveConflicts does with nextPeer.
LEMMA ModuloN ==
  /\ \A x \in Peers : x % N = x
  /\ \A x \in Peers : (x + 1) % N = IF x = N - 1 THEN 0 ELSE x + 1
PROOF
  <1>1. \A x \in Peers : x % N = x
    BY SyncAssumption, Z3 DEF Peers
  <1>2. \A x \in Peers : (x + 1) % N = IF x = N - 1 THEN 0 ELSE x + 1
    BY SyncAssumption, Z3 DEF Peers
  <1> QED BY <1>1, <1>2

\* Any two peers are less than N passes apart.
LEMMA DistanceBounds ==
  \A n, p \in Peers : (IF p < n THEN n - 1 - p ELSE n + N - 1 - p) \in 0 .. N - 1
PROOF
  BY SyncAssumption DEF Peers

\* How far a peer is behind its turn is a number below N.
LEMMA BehindBounds ==
  ASSUME TypeOK
  PROVE  \A p \in Peers : Behind(p) \in 0 .. N - 1
PROOF
  BY DistanceBounds DEF TypeOK, Behind

\* A pass of ResolveConflicts brings every peer but its first one pass further from its turn.
LEMMA BehindAdvances ==
  ASSUME TypeOK, nextPeer' = Following(nextPeer)
  PROVE  \A p \in Peers : p # nextPeer => Behind(p)' = Behind(p) + 1
PROOF
  <1>1. nextPeer \in 0 .. N - 1 /\ N \in Nat \ {0}
    BY SyncAssumption DEF TypeOK, Peers
  <1>2. nextPeer' = IF nextPeer = N - 1 THEN 0 ELSE nextPeer + 1
    BY <1>1, ModuloN DEF Following, Peers
  <1> QED BY <1>1, <1>2 DEF Behind, Peers

\* Before the first pass nobody has waited.
LEMMA InitIInv == Init => IInv
PROOF
  <1> SUFFICES ASSUME Init PROVE IInv
    OBVIOUS
  <1> USE SyncAssumption
  <1>1. TypeOK
    <2>1. 0 \in Peers /\ 0 \in 0 .. N /\ 0 \in 0 .. Budget /\ 0 \in 0 .. N + 1
      BY DEF Peers
    <2> QED BY <2>1 DEF Init, TypeOK
  <1>2. \A p \in Peers : since[p] = 0
    BY DEF Init
  <1>3. \A p \in Peers : since[p] <= Behind(p)
    BY <1>1, <1>2, BehindBounds
  <1> QED BY <1>1, <1>2, <1>3 DEF Init, IInv, Turn

-----------------------------------------------------------------------------
\* ResolveConflicts begins: the counts of all peers grow and so do their distances,
\* except for the peer that is asked first, to which FirstStillAsked now applies.
LEMMA BeginIInv ==
  ASSUME IInv, pc \in {"start", "select"}, Begin,
         syncNeeded' \in BOOLEAN, ticker' \in BOOLEAN
  PROVE  IInv'
PROOF
  <1> USE SyncAssumption
  <1>1. nextPeer \in Peers /\ nextPeer % N = nextPeer
    BY ModuloN DEF IInv, TypeOK
  <1>2. first' = nextPeer /\ nextPeer' = Following(nextPeer)
    BY <1>1 DEF Begin
  <1>3. nextPeer' \in Peers
    BY <1>1, <1>2, ModuloN DEF Following, Peers
  <1>4. TypeOK'
    <2>1. since' \in [Peers -> 0 .. N + 1]
      BY DEF IInv, TypeOK, Begin
    <2>2. 0 \in 0 .. N /\ Budget \in 0 .. Budget
      OBVIOUS
    <2> QED BY <1>1, <1>2, <1>3, <2>1, <2>2 DEF IInv, TypeOK, Begin
  <1>5. \A p \in Peers : since'[p] > 0 => p \in up'
    BY DEF IInv, Turn, TypeOK, Begin
  <1>6. ASSUME ~cancelled', NEW p \in Peers
        PROVE  \/ since'[p] <= Behind(p)'
               \/ p = first' /\ since'[p] <= N /\ p \in up' /\ FirstStillAsked'
    <2>1. since[p] <= Behind(p) /\ Behind(p) \in 0 .. N - 1 /\ since[p] \in Nat
      BY <1>6, BehindBounds DEF IInv, Turn, TypeOK, Begin, FirstStillAsked
    <2>2. since'[p] <= since[p] + 1 /\ since'[p] \in Nat
      BY <2>1, <1>4 DEF Begin, TypeOK
    <2>3. CASE p # nextPeer
      BY <2>1, <2>2, <2>3, <1>2, BehindAdvances DEF IInv
    <2>4. CASE p = nextPeer
      <3>1. FirstStillAsked'
        BY DEF Begin, FirstStillAsked
      <3>2. Behind(p)' \in 0 .. N - 1
        BY <1>3, DistanceBounds DEF Behind
      <3> QED BY <2>1, <2>2, <2>4, <3>1, <3>2, <1>2, <1>5
    <2> QED BY <2>3, <2>4
  <1> QED BY <1>2, <1>4, <1>5, <1>6 DEF IInv, Turn, Begin

\* A request ends: as long as the first peer is asked there is time for its answer.
LEMMA GetIInv ==
  ASSUME IInv, Get
  PROVE  IInv'
PROOF
  <1> USE SyncAssumption
  <1>1. PICK d \in 0 .. Timeout : Answer(d) \/ Fail(d)
    BY DEF Get
  <1>2. Asking /\ d <= left
    <2>1. d \in Int /\ left \in Int
      BY DEF IInv, TypeOK
    <2>2. CASE Answer(d)
      <3>1. Asking /\ d < left
        BY <2>2 DEF Answer
      <3> QED BY <2>1, <3>1
    <2>3. CASE Fail(d)
      BY <2>3 DEF Fail
    <2> QED BY <1>1, <2>2, <2>3
  <1>3. PICK ok \in BOOLEAN : Proceed(ok, d)
    BY <1>1 DEF Answer, Fail
  <1>4. UNCHANGED <<pc, nextPeer, first, syncNeeded, ticker, cancelled, up, owed>>
    BY <1>3 DEF Proceed, run, events
  <1>5. since' = since \/ since' = [since EXCEPT ![Current] = 0]
    BY <1>1 DEF Answer, Fail, IInv, TypeOK
  <1>6. TypeOK' /\ (req = "mempool" => pos < N)'
    <2>1. pos' \in 0 .. N /\ (req = "mempool" => pos < N)'
      BY <1>2, <1>3 DEF Asking, Proceed, IInv, TypeOK, Turn
    <2>2. left' \in 0 .. Budget
      BY <1>2, <1>3 DEF Proceed, IInv, TypeOK
    <2>3. since' \in [Peers -> 0 .. N + 1]
      BY <1>5 DEF IInv, TypeOK
    <2>4. req' \in {"chain", "mempool"} /\ got' \in BOOLEAN
      BY <1>3 DEF Proceed
    <2> QED BY <1>4, <2>1, <2>2, <2>3, <2>4 DEF IInv, TypeOK
  <1>7. ASSUME NEW p \in Peers
        PROVE  since'[p] <= since[p] /\ since'[p] \in Nat
    BY <1>5 DEF IInv, TypeOK
  <1>8. ASSUME ~cancelled', NEW p \in Peers
        PROVE  \/ since'[p] <= Behind(p)'
               \/ p = first' /\ since'[p] <= N /\ p \in up' /\ FirstStillAsked'
    <2>1. Behind(p)' = Behind(p) /\ Behind(p) \in 0 .. N - 1 /\ since[p] \in Nat
      BY <1>4, BehindBounds DEF Behind, IInv, TypeOK
    <2>2. CASE since[p] <= Behind(p)
      BY <1>7, <2>1, <2>2
    <2>3. CASE p = first /\ since[p] <= N /\ p \in up /\ FirstStillAsked
      <3>1. Current = p /\ ~cancelled
        BY <2>3, <1>4, <1>8, ModuloN DEF Current, FirstStillAsked, IInv, TypeOK, Peers
      <3>2. left > Budget - Timeout
        BY <2>3 DEF FirstStillAsked, IInv, TypeOK
      <3>3. Answer(d)
        <4>1. left \in Int /\ Budget \in Int /\ Timeout \in Int /\ 2 * Timeout <= Budget
          BY DEF IInv, TypeOK
        <4>2. ~ (d = left /\ d < Timeout)
          BY <4>1, <3>2
        <4> QED BY <1>1, <2>3, <3>1, <4>2 DEF Fail
      <3>4. CASE req = "chain"
        <4>1. req' = "mempool" /\ got' /\ pos' = 0 /\ pc' = "pass" /\ left' = left - d
          BY <3>3, <3>4, <2>3, <1>4 DEF Answer, Proceed, FirstStillAsked
        <4>2. left' > Budget - Timeout
          BY <4>1, <3>3, <3>4, <2>3 DEF Answer, FirstStillAsked, IInv, TypeOK
        <4>3. since'[p] <= N
          BY <1>7, <2>1, <2>3
        <4>4. FirstStillAsked'
          BY <4>1, <4>2 DEF FirstStillAsked
        <4> QED BY <4>3, <4>4, <1>4, <2>3
      <3>5. CASE req = "mempool"
        <4>1. since'[p] = 0
          BY <3>1, <3>3, <3>5, <2>3 DEF Answer, FirstStillAsked, IInv, TypeOK
        <4> QED BY <4>1, <2>1
      <3> QED BY <3>4, <3>5 DEF IInv, TypeOK
    <2> QED BY <1>4, <1>8, <2>2, <2>3 DEF IInv, Turn
  <1>9. pc = "pass"
    BY <1>2 DEF Asking
  <1>10. (pc = "pass" => nextPeer = Following(first))'
    BY <1>4 DEF IInv, Turn, Following
  <1>11. \A p \in Peers : since'[p] > 0 => p \in up'
    BY <1>4, <1>7 DEF IInv, Turn, TypeOK
  <1> QED BY <1>4, <1>6, <1>8, <1>9, <1>10, <1>11 DEF IInv, Turn

\* Every step of the loop and of its surroundings preserves the invariant.
LEMMA NextIInv ==
  ASSUME IInv, [Next]_vars
  PROVE  IInv'
PROOF
  <1> USE SyncAssumption
  <1> USE DEF IInv
  <1>1. ASSUME NEW p \in Peers, Toggle(p) PROVE IInv'
    <2>1. UNCHANGED <<pc, nextPeer, first, pos, req, got, left, syncNeeded, ticker, cancelled, owed>>
      BY <1>1 DEF Toggle, run, pass, events
    <2>2. TypeOK'
      BY <1>1, <2>1 DEF Toggle, TypeOK
    <2>3. \A q \in Peers : Behind(q)' = Behind(q) /\ Behind(q) \in 0 .. N - 1
      BY <2>1, BehindBounds DEF Behind
    <2>4. \A q \in Peers : IF q = p THEN since'[q] = 0 ELSE since'[q] = since[q]
      BY <1>1 DEF Toggle, TypeOK
    <2>5. \A q \in Peers \ {p} : q \in up' <=> q \in up
      BY <1>1 DEF Toggle
    <2>6. FirstStillAsked' = FirstStillAsked
      BY <2>1 DEF FirstStillAsked
    <2> QED BY <2>1, <2>2, <2>3, <2>4, <2>5, <2>6 DEF Turn, Following
  <1>2. ASSUME UNCHANGED <<run, pass, up, since>>, cancelled => cancelled',
               syncNeeded' \in BOOLEAN, ticker' \in BOOLEAN,
               cancelled' \in BOOLEAN, owed' \in BOOLEAN
        PROVE  IInv'
    <2>1. UNCHANGED <<pc, nextPeer, first, pos, req, got, left, up, since>>
      BY <1>2 DEF run, pass
    <2>2. TypeOK'
      BY <1>2, <2>1 DEF TypeOK
    <2>3. FirstStillAsked' = FirstStillAsked /\ \A p \in Peers : Behind(p)' = Behind(p)
      BY <2>1 DEF FirstStillAsked, Behind
    <2> QED BY <1>2, <2>1, <2>2, <2>3 DEF Turn, Following
  <1>3. CASE Tick
    BY <1>2, <1>3 DEF Tick, TypeOK, history
  <1>4. CASE RequestSync
    BY <1>2, <1>4 DEF RequestSync, TypeOK
  <1>5. CASE Cancel
    BY <1>2, <1>5 DEF Cancel, TypeOK, history
  <1>6. CASE FirstPass \/ OnTicker \/ OnSyncNeeded
    BY <1>6, BeginIInv DEF FirstPass, OnTicker, OnSyncNeeded, TypeOK
  <1>7. CASE Get
    BY <1>7, GetIInv
  <1>8. CASE Return \/ Stop
    <2>1. /\ UNCHANGED <<nextPeer, first, pos, req, got, left, syncNeeded, ticker, cancelled, up, since, owed>>
          /\ pc' \in {"select", "stopped"}
      BY <1>8 DEF Return, Stop, pass, events, history
    <2>2. TypeOK'
      BY <2>1 DEF TypeOK
    <2>3. \A p \in Peers : Behind(p)' = Behind(p)
      BY <2>1 DEF Behind
    <2>4. ~cancelled => ~ FirstStillAsked
      BY <1>8 DEF Return, Stop, FirstStillAsked, TypeOK
    <2> QED BY <2>1, <2>2, <2>3, <2>4 DEF Turn
  <1>9. CASE UNCHANGED vars
    BY <1>2, <1>9 DEF vars, events, history, TypeOK
  <1> QED BY <1>1, <1>3, <1>4, <1>5, <1>6, <1>7, <1>8, <1>9 DEF Next

\* The type invariant of the synchronisation loop.
THEOREM TypeCorrect == Spec => []TypeOK
PROOF
  <1>1. IInv => TypeOK
    BY DEF IInv
  <1> QED BY <1>1, InitIInv, NextIInv, PTL DEF Spec

\* For any number of peers: one that answers in time is heard once in N passes.
THEOREM RotationIsFair == Spec => []NobodyStarves
PROOF
  <1>1. IInv => NobodyStarves
    <2> SUFFICES ASSUME IInv, ~cancelled, NEW p \in Peers
                 PROVE  since[p] <= N /\ (pc # "pass" => since[p] < N)
      BY DEF NobodyStarves
    <2>1. Behind(p) \in 0 .. N - 1 /\ since[p] \in Nat
      BY BehindBounds DEF IInv, TypeOK
    <2> QED BY <2>1, SyncAssumption DEF IInv, Turn, FirstStillAsked
  <1> QED BY <1>1, InitIInv, NextIInv, PTL DEF Spec

=============================================================================
