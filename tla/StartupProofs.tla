--------------------------- MODULE StartupProofs ---------------------------
(***************************************************************************)
(* node.Run, for any number of requests and any peers' file: it returns    *)
(* with no goroutine of its own and no server at work, and it only binds   *)
(* its port with the peers of the whole file.                              *)
(***************************************************************************)
EXTENDS Startup, Sequences, TLAPS

\* Before NewFileChainStorage nothing runs.
LEMMA InitLifeInv == Init => LifeInv
PROOF
  BY LifecycleAssumption DEF Init, LifeInv, TypeOK, Actors

\* The steps of Run itself.
LEMMA RunLifeInv ==
  ASSUME LifeInv, Run
  PROVE  LifeInv'
PROOF
  <1> USE LifecycleAssumption DEF LifeInv, TypeOK, Running, Actors, shuttingDown
  <1>1. CASE OpenStorage
    BY <1>1 DEF OpenStorage, Abort
  <1>2. CASE ReadPeers
    BY <1>2 DEF ReadPeers, Abort
  <1>3. CASE Listen
    <2>1. mu = Free
      BY <1>3 DEF Listen
    <2>2. CASE Abort
      BY <1>3, <2>2 DEF Listen, Abort
    <2>3. CASE ~ Abort
      <3>1. /\ pc' = "select" /\ worker' = [b \in Background |-> "running"]
            /\ serve' = "launched" /\ err # "init"
            /\ UNCHANGED <<ctxDone, cancelled, handler, mu, err>>
        BY <1>3, <2>3 DEF Listen, Launched
      <3>2. worker' \in [Background -> {"none", "running", "done"}]
        BY <3>1
      <3>3. TypeOK'
        BY <3>1, <3>2
      <3>4. ~ shuttingDown' /\ \A h \in Handlers : handler'[h] = "none"
        BY <1>3, <3>1 DEF Listen
      <3> QED BY <1>3, <2>1, <3>1, <3>3, <3>4 DEF Listen
    <2> QED BY <2>2, <2>3
  <1>4. CASE SelectSignal
    BY <1>4 DEF SelectSignal, Closed
  <1>5. CASE SelectStopped
    BY <1>5 DEF SelectStopped
  <1>6. CASE Drained
    BY <1>6 DEF Drained
  <1>7. CASE Timeout
    BY <1>7 DEF Timeout
  <1>8. CASE CancelWorkers
    BY <1>8 DEF CancelWorkers
  <1>9. CASE Wait
    BY <1>9 DEF Wait
  <1> QED BY <1>1, <1>2, <1>3, <1>4, <1>5, <1>6, <1>7, <1>8, <1>9 DEF Run

\* The goroutines and handlers beside it.
LEMMA OthersLifeInv ==
  ASSUME LifeInv, Others
  PROVE  LifeInv'
PROOF
  <1> USE LifecycleAssumption DEF LifeInv, TypeOK, Running, Actors, shuttingDown
  <1>1. CASE Signal
    BY <1>1 DEF Signal
  <1>2. CASE ServeStarts \/ ServeFails \/ ServeEnds
    BY <1>2 DEF ServeStarts, ServeFails, ServeEnds
  <1>3. ASSUME NEW h \in Handlers, Accept(h) PROVE LifeInv'
    BY <1>3 DEF Accept
  <1>4. ASSUME NEW h \in Handlers, Finish(h) PROVE LifeInv'
    BY <1>4 DEF Finish
  <1>5. ASSUME NEW a \in Actors, Lock(a) PROVE LifeInv'
    BY <1>5 DEF Lock
  <1>6. ASSUME NEW a \in Actors, Unlock(a) PROVE LifeInv'
    BY <1>6 DEF Unlock
  <1>7. ASSUME NEW b \in Background, End(b) PROVE LifeInv'
    BY <1>7 DEF End
  <1> QED BY <1>1, <1>2, <1>3, <1>4, <1>5, <1>6, <1>7 DEF Others

\* LifeInv is inductive.
LEMMA NextLifeInv ==
  ASSUME LifeInv, [Next]_vars
  PROVE  LifeInv'
PROOF
  <1>1. CASE UNCHANGED vars
    BY <1>1 DEF vars, LifeInv, TypeOK, Running, shuttingDown
  <1> QED BY <1>1, RunLifeInv, OthersLifeInv DEF Next

\* The order in which node.Run starts and stops its parts, wherever Serve's own goroutine is.
THEOREM LifecycleOrdered == Spec => []LifeInv
PROOF
  BY InitLifeInv, NextLifeInv, PTL DEF Spec

\* However a signal, a failing server and Serve's late start fall together, Run never returns
\* with a background goroutine or a server that accepts requests, without error only when
\* every request is answered and mu is free, and with an error of the start or of the server
\* only when its port is closed.
THEOREM NothingLeaks == Spec => []ReturnsClean
PROOF
  <1>1. LifeInv => ReturnsClean
    BY LifecycleAssumption DEF LifeInv, ReturnsClean, Running, TypeOK, Actors, PortOpen, shuttingDown
  <1> QED BY <1>1, LifecycleOrdered, PTL

-----------------------------------------------------------------------------
(* With the peers' file *)

\* Reading the file, node.Run goes through the same steps.
LEMMA StartStep == [StartNext]_startVars => [Next]_vars
PROOF
  BY DEF StartNext, ReadFile, RunGoesOn, OthersGoOn, Next, startVars

\* What holds of node.Run with any engine holds with the engine that reads the file.
THEOREM StartImplementsLifecycle == StartSpec => Spec
PROOF
  <1>1. StartInit => Init
    BY DEF StartInit
  <1> QED BY <1>1, StartStep, PTL DEF StartSpec, Spec

FileTypeOK ==
  /\ read \in Seq(Lines) /\ peers \in Seq(URLs)
  /\ result \in {"reading", "ok", "url", "many"}

\* One more line of the file, and what the file names with it.
LEMMA AppendLine ==
  ASSUME FileTypeOK, NEW l \in Lines
  PROVE  /\ Append(read, l) \in Seq(Lines)
         /\ DOMAIN Append(read, l) = 1 .. Len(read) + 1 /\ DOMAIN read = 1 .. Len(read)
         /\ Len(read) \in Nat
         /\ \A i : i \in 1 .. Len(read) + 1 <=> i \in 1 .. Len(read) \/ i = Len(read) + 1
         /\ \A i \in 1 .. Len(read) : Append(read, l)[i] = read[i]
         /\ Append(read, l)[Len(read) + 1] = l
         /\ File!Named(Append(read, l))
              = File!Named(read) \cup ({Trimmed[l]} \cap (URLs \ {nodeAddr}))
PROOF
  <1> USE DEF FileTypeOK
  <1> DEFINE f == Append(read, l)
  <1>1. /\ f \in Seq(Lines) /\ DOMAIN f = 1 .. Len(read) + 1 /\ DOMAIN read = 1 .. Len(read)
        /\ Len(read) \in Nat
    OBVIOUS
  <1>2. \A i : i \in 1 .. Len(read) + 1 <=> i \in 1 .. Len(read) \/ i = Len(read) + 1
    BY <1>1
  <1>3. (\A i \in 1 .. Len(read) : f[i] = read[i]) /\ f[Len(read) + 1] = l
    OBVIOUS
  <1> HIDE DEF f
  <1>4. \A u : u \in File!Named(f) <=>
          u \in URLs \ {nodeAddr} /\ \E i \in 1 .. Len(read) + 1 : u = Trimmed[f[i]]
    BY <1>1 DEF File!Named
  <1>5. \A u : u \in File!Named(read) <=>
          u \in URLs \ {nodeAddr} /\ \E i \in 1 .. Len(read) : u = Trimmed[read[i]]
    BY <1>1 DEF File!Named
  <1>6. File!Named(f) = File!Named(read) \cup ({Trimmed[l]} \cap (URLs \ {nodeAddr}))
    BY <1>2, <1>3, <1>4, <1>5
  <1> QED BY <1>1, <1>2, <1>3, <1>6 DEF f

\* A line that names no new peer leaves the list as it is: a blank, a comment, the node
\* itself, a peer seen before, or a bad line, which ends the reading.
LEMMA LineWithoutPeer ==
  ASSUME FileTypeOK, File!ReadsPeers, NEW l \in Lines, File!ReadLine(l), peers' = peers
  PROVE  FileTypeOK' /\ File!ReadsPeers'
PROOF
  <1> DEFINE p == Trimmed[l]
  <1>1. /\ result = "reading" /\ read' = Append(read, l)
        /\ \/ File!Skips(p) /\ result' = result
           \/ ~ File!Skips(p) /\ p \notin URLs /\ result' = "url"
    <2>1. File!Skips(p) \/ p \notin URLs
      <3>1. peers \in Seq(URLs) /\ Len(peers) \in Nat
        BY DEF FileTypeOK
      <3>2. p \in URLs => Append(peers, p) # peers
        BY <3>1
      <3> QED BY <3>2 DEF File!ReadLine
    <2> QED BY <2>1 DEF File!ReadLine
  <1>2. FileTypeOK'
    BY <1>1, AppendLine DEF FileTypeOK
  <1>3. /\ DOMAIN read' = 1 .. Len(read) + 1 /\ DOMAIN read = 1 .. Len(read) /\ Len(read) \in Nat
        /\ \A i : i \in 1 .. Len(read) + 1 <=> i \in 1 .. Len(read) \/ i = Len(read) + 1
        /\ \A i \in 1 .. Len(read) : read'[i] = read[i]
        /\ read'[Len(read) + 1] = l
        /\ File!Named(read') = File!Named(read) \cup ({p} \cap (URLs \ {nodeAddr}))
    BY <1>1, AppendLine
  <1>4. File!Range(peers) \subseteq URLs
    BY DEF FileTypeOK, File!Range
  <1>5. File!Skips(p) <=> p \in Ignored \/ p = nodeAddr \/ p \in File!Range(peers)
    BY DEF File!Skips
  <1> HIDE DEF p
  <1>6. File!Named(read') = File!Named(read)
    BY <1>1, <1>3, <1>5, StartupAssumption DEF File!ReadsPeers
  <1>7. \A i, j \in DOMAIN peers : i < j =>
          \E k \in DOMAIN read' : /\ Trimmed[read'[k]] = peers[i]
                                  /\ \A m \in 1 .. k : Trimmed[read'[m]] # peers[j]
    <2> SUFFICES ASSUME NEW i \in DOMAIN peers, NEW j \in DOMAIN peers, i < j
                 PROVE  \E k \in DOMAIN read' : /\ Trimmed[read'[k]] = peers[i]
                                                /\ \A m \in 1 .. k : Trimmed[read'[m]] # peers[j]
      OBVIOUS
    <2>1. PICK k \in 1 .. Len(read) : /\ Trimmed[read[k]] = peers[i]
                                      /\ \A m \in 1 .. k : Trimmed[read[m]] # peers[j]
      BY <1>3 DEF File!ReadsPeers
    <2>2. \A m \in 1 .. k : m \in 1 .. Len(read)
      BY <1>3, <2>1
    <2> QED BY <1>3, <2>1, <2>2
  <1>8. result' = "url" <=> \E i \in DOMAIN read' : Trimmed[read'[i]] \notin URLs \cup Ignored
    <2>1. \A i \in 1 .. Len(read) : Trimmed[read[i]] \in URLs \cup Ignored
      BY <1>1, <1>3 DEF File!ReadsPeers
    <2>2. (\E i \in DOMAIN read' : Trimmed[read'[i]] \notin URLs \cup Ignored)
            <=> p \notin URLs \cup Ignored
      BY <1>3, <2>1 DEF p
    <2> QED BY <1>1, <1>4, <1>5, <2>2, StartupAssumption
  <1>9. result' # "many" /\ (result' \in {"reading", "ok"} => Len(peers) <= maxPeers)
    BY <1>1 DEF File!ReadsPeers
  <1> QED BY <1>2, <1>6, <1>7, <1>8, <1>9 DEF File!ReadsPeers

\* A line that names a new peer appends it to the list.
LEMMA LineWithPeer ==
  ASSUME FileTypeOK, File!ReadsPeers, NEW l \in Lines, File!ReadLine(l), peers' # peers
  PROVE  FileTypeOK' /\ File!ReadsPeers'
PROOF
  <1> DEFINE p == Trimmed[l]
  <1>1. /\ result = "reading" /\ read' = Append(read, l)
        /\ ~ File!Skips(p) /\ p \in URLs /\ peers' = Append(peers, p)
        /\ result' = IF File!TooMany(peers') THEN "many" ELSE result
    BY DEF File!ReadLine
  <1>2. /\ peers' \in Seq(URLs) /\ Len(peers') = Len(peers) + 1 /\ Len(peers) \in Nat
        /\ DOMAIN peers = 1 .. Len(peers) /\ DOMAIN peers' = 1 .. Len(peers) + 1
        /\ \A i \in 1 .. Len(peers) : peers'[i] = peers[i]
        /\ peers'[Len(peers) + 1] = p
    BY <1>1 DEF FileTypeOK
  <1>3. \A i : i \in 1 .. Len(peers) + 1 <=> i \in 1 .. Len(peers) \/ i = Len(peers) + 1
    BY <1>2
  <1>4. /\ DOMAIN read' = 1 .. Len(read) + 1 /\ DOMAIN read = 1 .. Len(read) /\ Len(read) \in Nat
        /\ \A i : i \in 1 .. Len(read) + 1 <=> i \in 1 .. Len(read) \/ i = Len(read) + 1
        /\ \A i \in 1 .. Len(read) : read'[i] = read[i]
        /\ read'[Len(read) + 1] = l
        /\ File!Named(read') = File!Named(read) \cup ({p} \cap (URLs \ {nodeAddr}))
    BY <1>1, AppendLine
  <1>5. FileTypeOK'
    BY <1>1, <1>2, AppendLine DEF FileTypeOK
  <1>6. p \in URLs \ {nodeAddr} /\ p \notin File!Range(peers) /\ p \notin File!Named(read)
    BY <1>1 DEF File!Skips, File!ReadsPeers
  <1> HIDE DEF p
  <1>7. File!Range(peers') = File!Named(read')
    <2>1. \A x : x \in File!Range(peers') <=> \E i \in 1 .. Len(peers) + 1 : x = peers'[i]
      BY <1>2 DEF File!Range
    <2>2. \A x : x \in File!Range(peers) <=> \E i \in 1 .. Len(peers) : x = peers[i]
      BY <1>2 DEF File!Range
    <2>3. File!Range(peers') = File!Range(peers) \cup {p}
      BY <1>2, <1>3, <2>1, <2>2
    <2> QED BY <1>4, <1>6, <2>3 DEF File!ReadsPeers
  <1>8. File!IsInjective(peers')
    <2>1. \A i \in 1 .. Len(peers) : peers[i] # p
      BY <1>2, <1>6 DEF File!Range
    <2>2. \A i, j \in 1 .. Len(peers) : peers[i] = peers[j] => i = j
      BY <1>2 DEF File!ReadsPeers, File!IsInjective
    <2> QED BY <1>2, <1>3, <2>1, <2>2 DEF File!IsInjective
  <1>9. ASSUME NEW i \in DOMAIN peers', NEW j \in DOMAIN peers', i < j
        PROVE  \E k \in DOMAIN read' : /\ Trimmed[read'[k]] = peers'[i]
                                       /\ \A m \in 1 .. k : Trimmed[read'[m]] # peers'[j]
    <2>1. i \in 1 .. Len(peers) /\ peers'[i] = peers[i]
      BY <1>2, <1>9
    <2>2. PICK k \in 1 .. Len(read) : /\ Trimmed[read[k]] = peers[i]
                                      /\ \A m \in 1 .. k : Trimmed[read[m]] # peers'[j]
      <3>1. CASE j \in 1 .. Len(peers)
        BY <1>2, <1>4, <1>9, <2>1, <3>1 DEF File!ReadsPeers
      <3>2. CASE j = Len(peers) + 1
        <4>1. peers[i] \in File!Range(peers)
          BY <1>2, <2>1 DEF File!Range
        <4>2. PICK k \in 1 .. Len(read) : Trimmed[read[k]] = peers[i]
          BY <1>4, <4>1 DEF File!ReadsPeers, File!Named
        <4>3. \A m \in 1 .. Len(read) : Trimmed[read[m]] # p
          BY <1>4, <1>6 DEF File!Named
        <4>4. \A m \in 1 .. k : m \in 1 .. Len(read)
          BY <1>4, <4>2
        <4> QED BY <1>2, <3>2, <4>2, <4>3, <4>4
      <3> QED BY <1>2, <1>3, <3>1, <3>2
    <2>3. \A m \in 1 .. k : m \in 1 .. Len(read)
      BY <1>4, <2>2
    <2> QED BY <1>4, <2>1, <2>2, <2>3
  <1>10. result' # "url" /\ \A i \in DOMAIN read' : Trimmed[read'[i]] \in URLs \cup Ignored
    <2>1. \A i \in 1 .. Len(read) : Trimmed[read[i]] \in URLs \cup Ignored
      BY <1>1, <1>4 DEF File!ReadsPeers
    <2> QED BY <1>1, <1>4, <1>6, <2>1 DEF p
  <1>11. /\ result' \in {"reading", "ok"} => Len(peers') <= maxPeers
         /\ result' = "many" => Len(peers') = maxPeers + 1
    <2>1. Len(peers) <= maxPeers /\ maxPeers \in Nat
      BY <1>1, StartupAssumption DEF File!ReadsPeers
    <2>2. result' = IF Len(peers') > maxPeers THEN "many" ELSE "reading"
      BY <1>1 DEF File!TooMany
    <2>3. Len(peers') = Len(peers) + 1 /\ Len(peers) \in Nat
      BY <1>2
    <2> QED BY <2>1, <2>2, <2>3
  <1> QED BY <1>5, <1>7, <1>8, <1>9, <1>10, <1>11 DEF File!ReadsPeers

\* Why a node that binds its port knows its peers: Run looks at the result of the whole
\* file, and an error never becomes none.
StartInv == LifeInv /\ FileTypeOK /\ KnowsItsPeers

LEMMA StartInvInit == StartInit => StartInv
PROOF
  <1> SUFFICES ASSUME StartInit PROVE StartInv
    OBVIOUS
  <1>1. read = <<>> /\ peers = <<>> /\ result = "reading" /\ pc = "storage"
    BY DEF StartInit, Init, File!Init
  <1>2. FileTypeOK
    <2>1. <<>> \in Seq(Lines) /\ <<>> \in Seq(URLs)
      OBVIOUS
    <2> QED BY <1>1, <2>1 DEF FileTypeOK
  <1>3. File!ReadsPeers
    BY <1>1, StartupAssumption DEF File!ReadsPeers, File!Range, File!Named, File!IsInjective
  <1> QED BY <1>1, <1>2, <1>3, InitLifeInv DEF StartInv, StartInit, KnowsItsPeers

LEMMA StartInvNext == StartInv /\ [StartNext]_startVars => StartInv'
PROOF
  <1> SUFFICES ASSUME StartInv, [StartNext]_startVars PROVE StartInv'
    OBVIOUS
  <1>1. LifeInv'
    BY StartStep, NextLifeInv DEF StartInv
  <1>2. CASE ReadFile
    <2>1. FileTypeOK' /\ File!ReadsPeers'
      <3>1. CASE File!Done
        BY <3>1 DEF File!Done, FileTypeOK, File!ReadsPeers, StartInv, KnowsItsPeers
      <3>2. CASE \E l \in Lines : File!ReadLine(l)
        BY <3>2, LineWithPeer, LineWithoutPeer DEF StartInv, KnowsItsPeers
      <3> QED BY <1>2, <3>1, <3>2 DEF ReadFile, File!Next
    <2> QED BY <1>1, <1>2, <2>1 DEF ReadFile, vars, StartInv, KnowsItsPeers
  <1>3. CASE UNCHANGED fileVars
    <2>1. FileTypeOK' /\ File!ReadsPeers'
      BY <1>3 DEF fileVars, FileTypeOK, File!ReadsPeers, StartInv, KnowsItsPeers
    <2>2. err = "init" => pc = "returned"
      BY DEF StartInv, LifeInv
    <2>3. \/ RunGoesOn \/ UNCHANGED <<pc, err>>
      BY DEF StartNext, ReadFile, OthersGoOn, startVars, vars, Others, Signal, ServeStarts,
             ServeFails, ServeEnds, Accept, Finish, Lock, Unlock, End
    <2>4. pc' \notin {"storage", "engine"} /\ err' # "init" => result' = "ok"
      <3>1. CASE RunGoesOn /\ pc = "engine"
        BY <1>3, <3>1 DEF RunGoesOn, EngineReturns, fileVars
      <3>2. CASE RunGoesOn /\ pc # "engine"
        <4>1. pc' \notin {"storage", "engine"} /\ err' # "init"
                => pc \notin {"storage", "engine"} /\ err # "init"
          BY <2>2, <3>2 DEF RunGoesOn, Run, OpenStorage, ReadPeers, Listen, Abort, SelectSignal,
                 SelectStopped, Drained, Timeout, CancelWorkers, Wait
        <4> QED BY <1>3, <4>1 DEF fileVars, StartInv, KnowsItsPeers
      <3>3. CASE UNCHANGED <<pc, err>>
        BY <1>3, <3>3 DEF fileVars, StartInv, KnowsItsPeers
      <3> QED BY <2>3, <3>1, <3>2, <3>3
    <2> QED BY <1>1, <2>1, <2>4 DEF StartInv, KnowsItsPeers
  <1> QED BY <1>2, <1>3 DEF StartNext, RunGoesOn, OthersGoOn, startVars

\* A node that binds its port gossips with exactly the peers of its file, each once and
\* never with itself, for any file and any limit on their number.
THEOREM PeersAreTheFiles == StartSpec => []KnowsItsPeers
PROOF
  <1>1. StartSpec => []StartInv
    BY StartInvInit, StartInvNext, PTL DEF StartSpec
  <1>2. StartInv => KnowsItsPeers
    BY DEF StartInv
  <1> QED BY <1>1, <1>2, PTL

=============================================================================
