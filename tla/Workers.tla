------------------------------ MODULE Workers ------------------------------
(***************************************************************************)
(* Outgoing messages of one node: broadcast puts them into the channel     *)
(* "jobs", the workers of GossipEngine.Run post them to their peers with a *)
(* few attempts each.  A job is one message to one peer.                   *)
(*                                                                         *)
(* A request that timed out here may still be handled by the peer later,   *)
(* before or after the next attempt.                                       *)
(***************************************************************************)
EXTENDS Naturals, Sequences, FiniteSets, SequencesExt

CONSTANTS
  Jobs,         \* the messages this node ever broadcasts, one per peer
  Prompt,       \* those whose peer answers before the client's timeout
  WorkerIDs,    \* the goroutines that run worker (4)
  Capacity,     \* of the channel jobs (128)
  MaxAttempts,  \* how often a job is posted at most (3)
  NoJob

ASSUME WorkersAssumption ==
  /\ IsFiniteSet(Jobs) /\ Prompt \subseteq Jobs /\ NoJob \notin Jobs
  /\ Capacity \in Nat /\ MaxAttempts \in Nat \ {0}

VARIABLES
  fresh,      \* jobs for which broadcast has not been called yet
  calls,      \* calls of broadcast under way, made after mu was released
  queue,      \* the channel jobs
  pc,         \* where each worker is
  job,        \* the job it has
  attempt,    \* and how many attempts came before this one
  wire,       \* requests <<job, attempt>> the peer has not handled yet
  handled,    \* requests the peer has handled
  concluded,  \* jobs whose worker got an answer that settles them
  cancelled   \* the context is done

vars == <<fresh, calls, queue, pc, job, attempt, wire, handled, concluded, cancelled>>

Requests == Jobs \X (0 .. MaxAttempts - 1)

TypeOK ==
  /\ fresh \subseteq Jobs /\ calls \subseteq Jobs
  /\ queue \in Seq(Jobs) /\ Len(queue) <= Capacity
  /\ pc \in [WorkerIDs -> {"idle", "request", "backoff", "stopped"}]
  /\ job \in [WorkerIDs -> Jobs \cup {NoJob}]
  /\ attempt \in [WorkerIDs -> 0 .. MaxAttempts - 1]
  /\ wire \subseteq Requests /\ handled \subseteq Requests
  /\ concluded \subseteq Jobs
  /\ cancelled \in BOOLEAN

Init ==
  /\ fresh = Jobs /\ calls = {} /\ queue = <<>>
  /\ pc = [w \in WorkerIDs |-> "idle"]
  /\ job = [w \in WorkerIDs |-> NoJob]
  /\ attempt = [w \in WorkerIDs |-> 0]
  /\ wire = {} /\ handled = {} /\ concluded = {}
  /\ cancelled = FALSE

-----------------------------------------------------------------------------
(* The engine *)

Call(j) ==
  /\ j \in fresh
  /\ fresh' = fresh \ {j}
  /\ calls' = calls \cup {j}
  /\ UNCHANGED <<queue, pc, job, attempt, wire, handled, concluded, cancelled>>

\* Variant with a fault: the send waits for room.
broadcastBlocking(j) ==
  /\ j \in calls /\ Len(queue) < Capacity
  /\ calls' = calls \ {j}
  /\ queue' = Append(queue, j)
  /\ UNCHANGED <<fresh, pc, job, attempt, wire, handled, concluded, cancelled>>

\* The send into the channel has a default: without room the job is dropped.
broadcast(j) ==
  /\ j \in calls
  /\ calls' = calls \ {j}
  /\ queue' = IF Len(queue) < Capacity THEN Append(queue, j) ELSE queue
  /\ UNCHANGED <<fresh, pc, job, attempt, wire, handled, concluded, cancelled>>

\* Shutdown.
Cancel ==
  /\ ~cancelled /\ cancelled' = TRUE
  /\ UNCHANGED <<fresh, calls, queue, pc, job, attempt, wire, handled, concluded>>

-----------------------------------------------------------------------------
(* The workers *)

\* httpClient.Do; with a context that is done it fails before it sends.
Send(w, j, a) ==
  /\ pc' = [pc EXCEPT ![w] = "request"]
  /\ attempt' = [attempt EXCEPT ![w] = a]
  /\ wire' = IF cancelled THEN wire ELSE wire \cup {<<j, a>>}

Release(w) ==
  /\ pc' = [pc EXCEPT ![w] = "idle"]
  /\ job' = [job EXCEPT ![w] = NoJob]
  /\ attempt' = [attempt EXCEPT ![w] = 0]

\* The select of worker takes a job, even if the context is done as well.
Take(w) ==
  /\ pc[w] = "idle" /\ queue # <<>>
  /\ queue' = Tail(queue)
  /\ job' = [job EXCEPT ![w] = Head(queue)]
  /\ Send(w, Head(queue), 0)
  /\ UNCHANGED <<fresh, calls, handled, concluded, cancelled>>

\* Variant with a fault: there is always another attempt.
AgainForever(w) ==
  /\ pc' = [pc EXCEPT ![w] = "backoff"]
  /\ attempt' = [attempt EXCEPT ![w] = 0]
  /\ UNCHANGED job

\* After the last attempt the job is given up, otherwise the worker waits.
Again(w) ==
  IF attempt[w] = MaxAttempts - 1
  THEN Release(w)
  ELSE /\ pc' = [pc EXCEPT ![w] = "backoff"]
       /\ UNCHANGED <<job, attempt>>

\* Variant with a fault: a 4xx is tried again.
ConcludeAgain(w) ==
  /\ pc[w] = "request" /\ <<job[w], attempt[w]>> \in handled
  /\ concluded' = concluded \cup {job[w]}
  /\ Again(w)
  /\ UNCHANGED <<fresh, calls, queue, wire, handled, cancelled>>

\* The peer answered 2xx, or 4xx other than 429.
Conclude(w) ==
  /\ pc[w] = "request" /\ <<job[w], attempt[w]>> \in handled
  /\ concluded' = concluded \cup {job[w]}
  /\ Release(w)
  /\ UNCHANGED <<fresh, calls, queue, wire, handled, cancelled>>

\* It answered 429, 5xx or anything else.
Refused(w) ==
  /\ pc[w] = "request" /\ <<job[w], attempt[w]>> \in handled
  /\ Again(w)
  /\ UNCHANGED <<fresh, calls, queue, wire, handled, concluded, cancelled>>

\* Variant with a fault: a job that failed goes back to the channel.
FailRequeued(w) ==
  /\ pc[w] = "request" /\ (job[w] \in Prompt => cancelled)
  /\ wire' \in {wire, wire \ {<<job[w], attempt[w]>>}}
  /\ queue' = IF Len(queue) < Capacity THEN Append(queue, job[w]) ELSE queue
  /\ Release(w)
  /\ UNCHANGED <<fresh, calls, handled, concluded, cancelled>>

\* No connection, no answer in time, or the context is done; the request may be
\* lost or still on its way.
Fail(w) ==
  /\ pc[w] = "request" /\ (job[w] \in Prompt => cancelled)
  /\ wire' \in {wire, wire \ {<<job[w], attempt[w]>>}}
  /\ Again(w)
  /\ UNCHANGED <<fresh, calls, queue, handled, concluded, cancelled>>

\* The back-off is over.
Timer(w) ==
  /\ pc[w] = "backoff"
  /\ Send(w, job[w], attempt[w] + 1)
  /\ UNCHANGED <<fresh, calls, queue, job, handled, concluded, cancelled>>

\* Variant with a fault: only the back-off looks at the context.
StopInBackoff(w) ==
  /\ cancelled /\ pc[w] = "backoff"
  /\ pc' = [pc EXCEPT ![w] = "stopped"]
  /\ UNCHANGED <<fresh, calls, queue, job, attempt, wire, handled, concluded, cancelled>>

\* Both selects of worker also wait for the end of the context.
Stop(w) ==
  /\ cancelled /\ pc[w] \in {"idle", "backoff"}
  /\ pc' = [pc EXCEPT ![w] = "stopped"]
  /\ UNCHANGED <<fresh, calls, queue, job, attempt, wire, handled, concluded, cancelled>>

\* The peer handles a request, however late.
Handle(r) ==
  /\ r \in wire
  /\ wire' = wire \ {r}
  /\ handled' = handled \cup {r}
  /\ UNCHANGED <<fresh, calls, queue, pc, job, attempt, concluded, cancelled>>

-----------------------------------------------------------------------------
Next ==
  \/ \E j \in Jobs : Call(j) \/ broadcast(j)
  \/ Cancel
  \/ \E w \in WorkerIDs :
       Take(w) \/ Conclude(w) \/ Refused(w) \/ Fail(w) \/ Timer(w) \/ Stop(w)
  \/ \E r \in Requests : Handle(r)

Spec == Init /\ [][Next]_vars

\* Goroutines run, timers fire, a request ends with an answer or a timeout, and a
\* select with several ready cases does not neglect one for ever.
Fairness ==
  /\ \A j \in Jobs : WF_vars(broadcast(j))
  /\ \A w \in WorkerIDs :
       /\ WF_vars(Take(w)) /\ WF_vars(Conclude(w) \/ Refused(w) \/ Fail(w))
       /\ WF_vars(Timer(w)) /\ SF_vars(Stop(w))
  /\ \A r \in Prompt \X (0 .. MaxAttempts - 1) : WF_vars(Handle(r))

FairSpec == Spec /\ Fairness

-----------------------------------------------------------------------------
(* Properties *)

Queued(j) == j \in Range(queue)
Held(j)   == \E w \in WorkerIDs : job[w] = j /\ pc[w] # "stopped"

\* "Bad data and known messages are not fixed by sending the same bytes again": a
\* job is never posted again by any worker once one has received an answer that settles it.
SettledIsNotSent ==
  [][\A r \in Requests : r \in wire' \ wire => r[1] \notin concluded]_vars

\* A commit never waits for the network: broadcast returns with a full queue,
\* with workers that all wait for slow peers and after they have stopped.
BroadcastReturns == \A j \in Jobs : (j \in calls) ~> (j \notin calls)

\* Slow peers delay the others' messages but do not hold them up for ever: what
\* was queued is given up or, if its peer is prompt, handled by it.
QueueDrains ==
  \A j \in Jobs : Queued(j) ~>
    \/ cancelled
    \/ /\ ~ Queued(j) /\ ~ Held(j)
       /\ j \in Prompt => \E a \in 0 .. MaxAttempts - 1 : <<j, a>> \in handled

\* "cancellation also stops retries": workers.Wait returns.
WorkersStop == cancelled ~> \A w \in WorkerIDs : pc[w] = "stopped"

Sent == wire \cup handled

\* A job is in one place at a time: with a caller, in the channel or with one worker,
\* and nowhere any more once its peer has settled it.
OnePlace ==
  /\ fresh \cap calls = {}
  /\ \A j \in fresh \cup calls \cup concluded :
       ~ Queued(j) /\ \A w \in WorkerIDs : job[w] # j
  /\ \A j \in concluded : j \notin fresh \cup calls
  /\ \A i, k \in DOMAIN queue : queue[i] = queue[k] => i = k
  /\ \A v, w \in WorkerIDs : job[v] = job[w] /\ job[v] # NoJob => v = w
  /\ \A w \in WorkerIDs : ~ Queued(job[w])
  /\ \A w \in WorkerIDs : pc[w] \in {"request", "backoff"} => job[w] # NoJob

\* What is queued was not posted before, and attempts are counted.
Counted ==
  /\ \A r \in Sent : r[1] \notin fresh \cup calls /\ ~ Queued(r[1])
  /\ \A w \in WorkerIDs, r \in Sent : job[w] = r[1] => r[2] <= attempt[w]
  /\ \A w \in WorkerIDs : pc[w] = "backoff" => attempt[w] < MaxAttempts - 1

OneOwner == TypeOK /\ OnePlace /\ Counted

=============================================================================
