--------------------------- MODULE WorkersProofs ---------------------------
(***************************************************************************)
(* Outgoing messages, for any number of jobs and workers, any capacity of  *)
(* the channel and any number of attempts: a job is in one place at a      *)
(* time, and it is not posted again once its peer has settled it.          *)
(***************************************************************************)
EXTENDS Workers, TLAPS

Distinct(q) == \A i, k \in DOMAIN q : q[i] = q[k] => i = k

-----------------------------------------------------------------------------
(* The channel *)

\* Sending into a channel adds one job behind the others.
LEMMA AppendJobs ==
  ASSUME NEW q \in Seq(Jobs), NEW j \in Jobs
  PROVE  /\ Append(q, j) \in Seq(Jobs) /\ Len(Append(q, j)) = Len(q) + 1
         /\ Range(Append(q, j)) = Range(q) \cup {j}
         /\ Distinct(q) /\ j \notin Range(q) => Distinct(Append(q, j))
<1> DEFINE d == Append(q, j)
<1>1. d \in Seq(Jobs) /\ Len(d) = Len(q) + 1 /\ Len(q) \in Nat
  OBVIOUS
<1>2. DOMAIN q = 1 .. Len(q) /\ DOMAIN d = 1 .. Len(q) + 1
  OBVIOUS
<1>3. (\A i \in 1 .. Len(q) : d[i] = q[i]) /\ d[Len(q) + 1] = j
  OBVIOUS
<1>4. \A i : i \in 1 .. Len(q) + 1 <=> i \in 1 .. Len(q) \/ i = Len(q) + 1
  BY <1>1
<1> HIDE DEF d
<1>5. Range(d) = Range(q) \cup {j}
  <2>1. \A x : x \in Range(d) <=> \E i \in 1 .. Len(q) + 1 : x = d[i]
    BY <1>2 DEF Range
  <2>2. \A x : x \in Range(q) <=> \E i \in 1 .. Len(q) : x = q[i]
    BY <1>2 DEF Range
  <2> QED  BY <1>3, <1>4, <2>1, <2>2
<1>6. ASSUME Distinct(q), j \notin Range(q)
      PROVE  Distinct(d)
  <2>1. \A i \in 1 .. Len(q) : q[i] # j
    BY <1>2, <1>6 DEF Range
  <2> QED  BY <1>2, <1>3, <1>4, <1>6, <2>1 DEF Distinct
<1> QED  BY <1>1, <1>5, <1>6 DEF d

\* Receiving from a channel in which every job is distinct takes the first job out.
LEMMA TailJobs ==
  ASSUME NEW q \in Seq(Jobs), q # <<>>
  PROVE  /\ Tail(q) \in Seq(Jobs) /\ Len(Tail(q)) = Len(q) - 1 /\ Len(q) \in Nat \ {0}
         /\ Head(q) \in Jobs /\ Head(q) \in Range(q)
         /\ Distinct(q) => Distinct(Tail(q)) /\ Range(Tail(q)) = Range(q) \ {Head(q)}
<1> DEFINE d == Tail(q)
<1>1. d \in Seq(Jobs) /\ Len(d) = Len(q) - 1 /\ Len(q) \in Nat \ {0}
  OBVIOUS
<1>2. DOMAIN q = 1 .. Len(q) /\ DOMAIN d = 1 .. Len(q) - 1
  BY <1>1
<1>3. (\A i \in 1 .. Len(q) - 1 : d[i] = q[i + 1]) /\ Head(q) = q[1] /\ Head(q) \in Jobs
  BY <1>1
<1>4. Head(q) \in Range(q)
  BY <1>1, <1>2, <1>3 DEF Range
<1> HIDE DEF d
<1>5. ASSUME Distinct(q)
      PROVE  Distinct(d) /\ Range(d) = Range(q) \ {Head(q)}
  <2>1. \A i, k \in 1 .. Len(q) : q[i] = q[k] => i = k
    BY <1>2, <1>5 DEF Distinct
  <2>2. \A i \in 1 .. Len(q) - 1 : i + 1 \in 1 .. Len(q) /\ i + 1 # 1
    BY <1>1
  <2>3. \A i \in 1 .. Len(q) : i = 1 \/ (i - 1 \in 1 .. Len(q) - 1 /\ (i - 1) + 1 = i)
    BY <1>1
  <2>4. Distinct(d)
    <3> SUFFICES ASSUME NEW i \in 1 .. Len(q) - 1, NEW k \in 1 .. Len(q) - 1, d[i] = d[k]
                 PROVE  i = k
      BY <1>2 DEF Distinct
    <3>1. i + 1 = k + 1
      BY <1>3, <2>1, <2>2
    <3> QED  BY <3>1
  <2>5. ASSUME NEW x \in Range(d)
        PROVE  x \in Range(q) \ {Head(q)}
    <3>1. PICK i \in 1 .. Len(q) - 1 : x = d[i]
      BY <1>2 DEF Range
    <3>2. x = q[i + 1] /\ i + 1 \in DOMAIN q
      BY <1>2, <1>3, <2>2, <3>1
    <3>3. x # q[1]
      BY <1>1, <1>2, <2>1, <2>2, <3>2
    <3> QED  BY <1>3, <3>2, <3>3 DEF Range
  <2>6. ASSUME NEW x \in Range(q) \ {Head(q)}
        PROVE  x \in Range(d)
    <3>1. PICK i \in 1 .. Len(q) : x = q[i]
      BY <1>2 DEF Range
    <3>2. i - 1 \in 1 .. Len(q) - 1 /\ (i - 1) + 1 = i
      BY <1>3, <2>3, <3>1
    <3>3. d[i - 1] = x
      BY <1>3, <3>1, <3>2
    <3> QED  BY <1>2, <3>2, <3>3 DEF Range
  <2> QED  BY <2>4, <2>5, <2>6
<1> QED  BY <1>1, <1>3, <1>4, <1>5 DEF d

-----------------------------------------------------------------------------
(* The invariant *)

\* Nothing is queued, held or sent before the first call.
LEMMA OwnerInit == Init => OneOwner
<1> SUFFICES ASSUME Init PROVE OneOwner
  OBVIOUS
<1> USE DEF Init
<1>1. TypeOK
  <2>1. 0 \in 0 .. MaxAttempts - 1 /\ <<>> \in Seq(Jobs) /\ Len(<<>>) = 0 /\ 0 <= Capacity
    BY WorkersAssumption
  <2> QED  BY <2>1 DEF TypeOK
<1>2. OnePlace /\ Counted
  BY WorkersAssumption DEF OnePlace, Counted, Queued, Range, Sent
<1> QED  BY <1>1, <1>2 DEF OneOwner

\* A call of broadcast begins and ends: the job goes into the channel, or is dropped.
LEMMA OwnerBroadcast ==
  ASSUME OneOwner, NEW j \in Jobs, Call(j) \/ broadcast(j)
  PROVE  OneOwner'
<1> USE DEF OneOwner
<1>0. UNCHANGED <<pc, job, attempt, wire, handled, concluded, cancelled>> /\ queue \in Seq(Jobs)
  BY DEF Call, broadcast, TypeOK
<1>1. CASE Call(j)
  BY <1>0, <1>1 DEF Call, TypeOK, OnePlace, Counted, Queued, Sent
<1>2. CASE broadcast(j) /\ queue' = queue
  BY <1>0, <1>2 DEF broadcast, TypeOK, OnePlace, Counted, Queued, Sent
<1>3. CASE broadcast(j) /\ Len(queue) < Capacity /\ queue' = Append(queue, j)
  <2>1. j \in calls /\ calls' = calls \ {j} /\ fresh' = fresh
    BY <1>3 DEF broadcast
  <2>2. j \notin Range(queue) /\ Distinct(queue) /\ j \notin fresh /\ j \notin concluded
    BY <2>1 DEF OnePlace, Queued, Distinct
  <2>3. /\ queue' \in Seq(Jobs) /\ Len(queue') = Len(queue) + 1
        /\ Range(queue') = Range(queue) \cup {j} /\ Distinct(queue')
    BY <1>0, <1>3, <2>2, AppendJobs
  <2>4. TypeOK'
    BY <1>0, <1>3, <2>1, <2>3, WorkersAssumption DEF TypeOK
  <2>5. OnePlace'
    BY <1>0, <2>1, <2>2, <2>3 DEF OnePlace, Queued, Distinct
  <2>6. Counted'
    BY <1>0, <2>1, <2>3 DEF Counted, Queued, Sent
  <2> QED  BY <2>4, <2>5, <2>6
<1> QED  BY <1>1, <1>2, <1>3 DEF broadcast

\* A worker takes the first job of the channel and posts it for the first time.
LEMMA OwnerTake ==
  ASSUME OneOwner, NEW w \in WorkerIDs, Take(w)
  PROVE  OneOwner'
<1> USE DEF OneOwner
<1> DEFINE j == Head(queue)
<1>1. /\ queue # <<>> /\ queue' = Tail(queue)
      /\ pc' = [pc EXCEPT ![w] = "request"]
      /\ job' = [job EXCEPT ![w] = j]
      /\ attempt' = [attempt EXCEPT ![w] = 0]
      /\ wire' \in {wire, wire \cup {<<j, 0>>}}
      /\ UNCHANGED <<fresh, calls, handled, concluded, cancelled>>
  BY DEF Take, Send
<1>2. queue \in Seq(Jobs) /\ Distinct(queue)
  BY DEF TypeOK, OnePlace, Distinct
<1>3. /\ queue' \in Seq(Jobs) /\ Len(queue') = Len(queue) - 1 /\ Len(queue) \in Nat \ {0}
      /\ j \in Jobs /\ Queued(j) /\ Distinct(queue')
      /\ Range(queue') = Range(queue) \ {j}
  BY <1>1, <1>2, TailJobs DEF Queued
<1> HIDE DEF j
<1>4. /\ j \notin fresh \cup calls \cup concluded
      /\ \A v \in WorkerIDs : job[v] # j
      /\ \A r \in Sent : r[1] # j
      /\ j # NoJob
  BY <1>3, WorkersAssumption DEF OnePlace, Counted
<1>5. TypeOK'
  BY <1>1, <1>3, WorkersAssumption DEF TypeOK, Requests
<1>6. OnePlace'
  BY <1>1, <1>3, <1>4 DEF OnePlace, Queued, Distinct, TypeOK
<1>7. Counted'
  <2>1. \A r \in Sent' : r \in Sent \/ r = <<j, 0>>
    BY <1>1 DEF Sent
  <2>2. \A r \in Sent' : r[1] \notin fresh' \cup calls' /\ ~ Queued(r[1])'
    BY <1>1, <1>3, <1>4, <2>1 DEF Counted, Queued
  <2>3. \A v \in WorkerIDs : job'[v] = (IF v = w THEN j ELSE job[v])
                             /\ attempt'[v] = (IF v = w THEN 0 ELSE attempt[v])
                             /\ pc'[v] = (IF v = w THEN "request" ELSE pc[v])
    BY <1>1 DEF TypeOK
  <2>4. \A v \in WorkerIDs, r \in Sent' : job'[v] = r[1] => r[2] <= attempt'[v]
    BY <1>4, <2>1, <2>3 DEF Counted
  <2>5. \A v \in WorkerIDs : pc'[v] = "backoff" => attempt'[v] < MaxAttempts - 1
    BY <2>3 DEF Counted
  <2> QED  BY <2>2, <2>4, <2>5 DEF Counted
<1> QED  BY <1>5, <1>6, <1>7

\* A worker that is done with its job holds none; one that is not waits and has an
\* attempt left.
LEMMA OwnerAnswer ==
  ASSUME OneOwner, NEW w \in WorkerIDs, Conclude(w) \/ Refused(w) \/ Fail(w)
  PROVE  OneOwner'
<1> USE DEF OneOwner
<1>1. /\ UNCHANGED <<fresh, calls, queue, handled, cancelled>>
      /\ wire' \subseteq wire /\ pc[w] = "request"
      /\ concluded' \in {concluded, concluded \cup {job[w]}}
      /\ concluded' # concluded => Release(w)
      /\ Release(w) \/ Again(w)
  BY DEF Conclude, Refused, Fail
<1>2. job[w] \in Jobs /\ job[w] # NoJob /\ MaxAttempts \in Nat /\ 0 \in 0 .. MaxAttempts - 1
  BY <1>1, WorkersAssumption DEF TypeOK, OnePlace
<1>3. CASE Release(w)
  <2>1. /\ pc' = [pc EXCEPT ![w] = "idle"] /\ job' = [job EXCEPT ![w] = NoJob]
        /\ attempt' = [attempt EXCEPT ![w] = 0]
    BY <1>3 DEF Release
  <2>2. TypeOK'
    BY <1>1, <1>2, <2>1 DEF TypeOK
  <2>3. \A v \in WorkerIDs : /\ job'[v] = (IF v = w THEN NoJob ELSE job[v])
                             /\ attempt'[v] = (IF v = w THEN 0 ELSE attempt[v])
                             /\ pc'[v] = (IF v = w THEN "idle" ELSE pc[v])
    BY <2>1 DEF TypeOK
  <2>4. NoJob \notin Range(queue)
    BY WorkersAssumption DEF TypeOK, Range
  <2>5. NoJob \notin fresh \cup calls \cup concluded'
    BY <1>1, <1>2, WorkersAssumption DEF TypeOK
  <2>6. OnePlace'
    BY <1>1, <1>2, <2>3, <2>4, <2>5 DEF OnePlace, Queued
  <2>7. \A r \in Sent' : r \in Sent /\ r[1] # NoJob
    BY <1>1, WorkersAssumption DEF Sent, TypeOK, Requests
  <2>8. Counted'
    BY <1>1, <2>3, <2>7 DEF Counted, Queued
  <2> QED  BY <2>2, <2>6, <2>8
<1>4. CASE ~ Release(w)
  <2>1. /\ pc' = [pc EXCEPT ![w] = "backoff"] /\ UNCHANGED <<job, attempt, concluded>>
        /\ attempt[w] # MaxAttempts - 1
    BY <1>1, <1>4 DEF Again
  <2>2. attempt[w] < MaxAttempts - 1
    BY <1>2, <2>1 DEF TypeOK
  <2>3. TypeOK' /\ OnePlace'
    BY <1>1, <1>2, <2>1 DEF TypeOK, OnePlace, Queued
  <2>4. Counted'
    BY <1>1, <2>1, <2>2 DEF Counted, Queued, Sent, TypeOK
  <2> QED  BY <2>3, <2>4
<1> QED  BY <1>3, <1>4

\* The next attempt is one that was not made yet.
LEMMA OwnerTimer ==
  ASSUME OneOwner, NEW w \in WorkerIDs, Timer(w)
  PROVE  OneOwner'
<1> USE DEF OneOwner
<1>1. /\ pc[w] = "backoff" /\ pc' = [pc EXCEPT ![w] = "request"]
      /\ attempt' = [attempt EXCEPT ![w] = attempt[w] + 1]
      /\ wire' \in {wire, wire \cup {<<job[w], attempt[w] + 1>>}}
      /\ UNCHANGED <<fresh, calls, queue, job, handled, concluded, cancelled>>
  BY DEF Timer, Send
<1>2. /\ job[w] \in Jobs /\ attempt[w] + 1 \in 0 .. MaxAttempts - 1 /\ attempt[w] \in Nat
      /\ job[w] \notin fresh \cup calls /\ ~ Queued(job[w])
  BY <1>1, WorkersAssumption DEF TypeOK, OnePlace, Counted
<1>3. TypeOK' /\ OnePlace'
  BY <1>1, <1>2 DEF TypeOK, OnePlace, Queued, Requests
<1>4. Counted'
  <2>1. \A r \in Sent' : r \in Sent \/ r = <<job[w], attempt[w] + 1>>
    BY <1>1 DEF Sent
  <2>2. \A v \in WorkerIDs : /\ attempt'[v] = (IF v = w THEN attempt[w] + 1 ELSE attempt[v])
                             /\ pc'[v] = (IF v = w THEN "request" ELSE pc[v])
    BY <1>1 DEF TypeOK
  <2>3. \A r \in Sent' : r[1] \notin fresh' \cup calls' /\ ~ Queued(r[1])'
    BY <1>1, <1>2, <2>1 DEF Counted, Queued
  <2>4. \A v \in WorkerIDs, r \in Sent : r[2] \in Int /\ attempt[v] \in Int
    BY DEF TypeOK, Sent, Requests
  <2>5. \A v \in WorkerIDs, r \in Sent' : job[v] = r[1] => r[2] <= attempt'[v]
    <3> SUFFICES ASSUME NEW v \in WorkerIDs, NEW r \in Sent', job[v] = r[1]
                 PROVE  r[2] <= attempt'[v]
      OBVIOUS
    <3>1. CASE r \in Sent
      <4>1. r[2] <= attempt[v]
        BY <3>1 DEF Counted
      <4> QED  BY <2>2, <2>4, <3>1, <4>1
    <3>2. CASE r = <<job[w], attempt[w] + 1>>
      <4>1. v = w
        BY <1>1, <3>2 DEF OnePlace
      <4> QED  BY <1>2, <2>2, <3>2, <4>1
    <3> QED  BY <2>1, <3>1, <3>2
  <2>6. \A v \in WorkerIDs : pc'[v] = "backoff" => attempt'[v] < MaxAttempts - 1
    BY <2>2 DEF Counted
  <2> QED  BY <1>1, <2>3, <2>5, <2>6 DEF Counted
<1> QED  BY <1>3, <1>4

\* Every step keeps a job in one place.
LEMMA OwnerNext == OneOwner /\ [Next]_vars => OneOwner'
<1> SUFFICES ASSUME OneOwner, [Next]_vars PROVE OneOwner'
  OBVIOUS
<1>1. CASE \E j \in Jobs : Call(j) \/ broadcast(j)
  BY <1>1, OwnerBroadcast
<1>2. CASE \E w \in WorkerIDs : Take(w)
  BY <1>2, OwnerTake
<1>3. CASE \E w \in WorkerIDs : Conclude(w) \/ Refused(w) \/ Fail(w)
  BY <1>3, OwnerAnswer
<1>4. CASE \E w \in WorkerIDs : Timer(w)
  BY <1>4, OwnerTimer
<1>5. ASSUME NEW w \in WorkerIDs, Stop(w)
      PROVE  OneOwner'
  BY <1>5 DEF Stop, OneOwner, TypeOK, OnePlace, Counted, Queued, Sent
<1>6. ASSUME NEW r \in Requests, Handle(r)
      PROVE  OneOwner'
  <2>1. Sent' = Sent
    BY <1>6 DEF Handle, Sent
  <2> QED  BY <1>6, <2>1 DEF Handle, OneOwner, TypeOK, OnePlace, Counted, Queued
<1>7. CASE Cancel \/ UNCHANGED vars
  BY <1>7 DEF Cancel, vars, OneOwner, TypeOK, OnePlace, Counted, Queued, Sent
<1> QED  BY <1>1, <1>2, <1>3, <1>4, <1>5, <1>6, <1>7 DEF Next

-----------------------------------------------------------------------------
(* The theorems *)

\* A job is with its caller, in the channel or with one worker, whatever times out
\* and however late a peer handles what it was sent.
THEOREM JobsHaveOneOwner == Spec => []OneOwner
<1> QED  BY OwnerInit, OwnerNext, PTL DEF Spec

\* Once a worker has received an answer that settles a message, no worker posts it again.
THEOREM SettledStaysSettled == Spec => SettledIsNotSent
<1>1. OneOwner /\ [Next]_vars =>
        [\A r \in Requests : r \in wire' \ wire => r[1] \notin concluded]_vars
  <2> SUFFICES ASSUME OneOwner, Next, NEW r \in Requests, r \in wire' \ wire
               PROVE  r[1] \notin concluded
    BY DEF vars
  <2>1. \/ \E w \in WorkerIDs : Take(w)
        \/ \E w \in WorkerIDs : Timer(w)
    BY DEF Next, Call, broadcast, Cancel, Conclude, Refused, Fail, Stop, Handle
  <2>2. CASE \E w \in WorkerIDs : Take(w)
    <3>1. r[1] = Head(queue) /\ queue # <<>> /\ queue \in Seq(Jobs)
      BY <2>2 DEF Take, Send, OneOwner, TypeOK
    <3>2. Queued(r[1])
      BY <3>1, TailJobs DEF Queued
    <3> QED  BY <3>2 DEF OneOwner, OnePlace
  <2>3. CASE \E w \in WorkerIDs : Timer(w)
    BY <2>3 DEF Timer, Send, OneOwner, OnePlace
  <2> QED  BY <2>1, <2>2, <2>3
<1> QED  BY <1>1, JobsHaveOneOwner, PTL DEF Spec, SettledIsNotSent

=============================================================================
