------------------------------ MODULE SyncLoop ------------------------------
(***************************************************************************)
(* The synchronisation of one node: the loop of GossipEngine.Run and the   *)
(* passes of ResolveConflicts it makes over the peers.  What an answer     *)
(* does to the node is modelled in Node; here an answer only has a date.   *)
(*                                                                         *)
(* Time is counted within a pass: "left" is what remains until its         *)
(* deadline, and every request may use some of it.                         *)
(***************************************************************************)
EXTENDS Integers

CONSTANTS
  N,        \* len(g.peers); without peers a pass does nothing
  Timeout,  \* of one request (2 s)
  Budget    \* of one pass (10 s)

ASSUME SyncAssumption ==
  /\ N \in Nat \ {0} /\ Timeout \in Nat \ {0} /\ Budget \in Nat
  /\ 2 * Timeout <= Budget

Peers == 0 .. N - 1

VARIABLES
  pc,          \* of Run: about to make its first pass, in a pass, in the select
  nextPeer,    \* the peer the next pass begins with
  first,       \* the peer this pass began with
  pos,         \* how many peers this pass has finished with
  req,         \* the request it makes of the current peer
  got,         \* its chain has come
  left,        \* time until the deadline of the pass
  syncNeeded,  \* the channels, each with room for one element
  ticker,
  cancelled,   \* the context is done
  up,          \* peers that answer within Timeout
  since,       \* per peer that is up, the passes begun since it last answered,
               \* counted up to one more than NobodyStarves allows
  owed         \* RequestSync was called and no pass was begun since

run     == <<pc, nextPeer, first>>
pass    == <<pos, req, got, left>>
events  == <<syncNeeded, ticker, cancelled>>
history == <<since, owed>>
vars    == <<run, pass, events, up, history>>

TypeOK ==
  /\ pc \in {"start", "pass", "select", "stopped"}
  /\ nextPeer \in Peers /\ first \in Peers
  /\ pos \in 0 .. N /\ req \in {"chain", "mempool"} /\ got \in BOOLEAN
  /\ left \in 0 .. Budget
  /\ syncNeeded \in BOOLEAN /\ ticker \in BOOLEAN /\ cancelled \in BOOLEAN
  /\ up \subseteq Peers
  /\ since \in [Peers -> 0 .. N + 1] /\ owed \in BOOLEAN

Init ==
  /\ pc = "start" /\ nextPeer = 0 /\ first = 0
  /\ pos = 0 /\ req = "chain" /\ got = FALSE /\ left = 0
  /\ syncNeeded = FALSE /\ ticker = FALSE /\ cancelled = FALSE
  /\ up \in SUBSET Peers
  /\ since = [p \in Peers |-> 0] /\ owed = FALSE

-----------------------------------------------------------------------------
(* The surroundings *)

\* A peer comes up or goes down.
Toggle(p) ==
  /\ up' = IF p \in up THEN up \ {p} ELSE up \cup {p}
  /\ since' = [since EXCEPT ![p] = 0]
  /\ UNCHANGED <<run, pass, events, owed>>

\* A ticker drops a tick nobody has taken.
Tick ==
  /\ pc \in {"pass", "select"} /\ ~ticker
  /\ ticker' = TRUE
  /\ UNCHANGED <<run, pass, syncNeeded, cancelled, up, history>>

\* Variant with a fault: a request made during a pass is taken to be met by it.
RequestSyncIdle ==
  /\ syncNeeded' = (syncNeeded \/ pc # "pass")
  /\ owed' = TRUE
  /\ UNCHANGED <<run, pass, ticker, cancelled, up, since>>

\* A handler saw that it lacks a parent; requests merge.
RequestSync ==
  /\ syncNeeded' = TRUE
  /\ owed' = TRUE
  /\ UNCHANGED <<run, pass, ticker, cancelled, up, since>>

Cancel ==
  /\ ~cancelled /\ cancelled' = TRUE
  /\ UNCHANGED <<run, pass, syncNeeded, ticker, up, history>>

-----------------------------------------------------------------------------
(* A pass *)

\* Variant with a fault: every pass begins with the same peer.
NextStays(start) == start

\* Where the next pass begins.
Following(start) == (start + 1) % N

\* ResolveConflicts up to its loop.  Run alone calls it, so TryLock succeeds.
Begin ==
  /\ pc' = "pass"
  /\ first' = nextPeer % N
  /\ nextPeer' = Following(nextPeer % N)
  /\ pos' = 0 /\ req' = "chain" /\ got' = FALSE /\ left' = Budget
  /\ owed' = FALSE
  /\ since' = [p \in Peers |->
       IF p \in up /\ ~cancelled /\ since[p] <= N THEN since[p] + 1 ELSE since[p]]
  /\ UNCHANGED <<cancelled, up>>

Current == (first + pos) % N

\* The loop asks the current peer: the context is looked at before its chain is
\* requested, and not again before its mempool is.
Asking ==
  /\ pc = "pass"
  /\ req = "chain" => pos < N /\ left > 0 /\ ~cancelled

\* After the chain comes the mempool, after that the next peer.
Proceed(ok, d) ==
  /\ left' = left - d
  /\ req' = IF req = "chain" THEN "mempool" ELSE "chain"
  /\ pos' = IF req = "chain" THEN pos ELSE pos + 1
  /\ got' = (ok /\ req = "chain")
  /\ UNCHANGED <<run, events, up, owed>>

\* get succeeds after d.
Answer(d) ==
  /\ Asking /\ ~cancelled /\ Current \in up
  /\ d < Timeout /\ d < left
  /\ Proceed(TRUE, d)
  /\ since' = [since EXCEPT ![Current] = IF req = "mempool" /\ got THEN 0 ELSE @]

\* Variant with a fault: a request has its own timeout but not the pass's deadline.
FailUnbounded(d) ==
  /\ Asking /\ d <= Timeout
  /\ ~cancelled /\ Current \in up => d = left /\ d < Timeout
  /\ Proceed(FALSE, d)
  /\ UNCHANGED since

\* get fails after d: no peer, its timeout, the pass's deadline or the context.
Fail(d) ==
  /\ Asking /\ d <= Timeout /\ d <= left
  /\ ~cancelled /\ Current \in up => d = left /\ d < Timeout
  /\ Proceed(FALSE, d)
  /\ UNCHANGED since

\* The end of the loop, or its early return.
Return ==
  /\ pc = "pass" /\ req = "chain"
  /\ pos = N \/ left = 0 \/ cancelled
  /\ pc' = "select"
  /\ UNCHANGED <<nextPeer, first, pass, events, up, history>>

-----------------------------------------------------------------------------
(* Run *)

FirstPass == pc = "start" /\ Begin /\ UNCHANGED <<syncNeeded, ticker>>

OnTicker ==
  /\ pc = "select" /\ ticker
  /\ ticker' = FALSE
  /\ Begin
  /\ UNCHANGED syncNeeded

OnSyncNeeded ==
  /\ pc = "select" /\ syncNeeded
  /\ syncNeeded' = FALSE
  /\ Begin
  /\ UNCHANGED ticker

\* Variant with a fault: the loop ends only when nothing else is ready.
StopWhenQuiet ==
  /\ pc = "select" /\ cancelled /\ ~ticker /\ ~syncNeeded
  /\ pc' = "stopped"
  /\ UNCHANGED <<nextPeer, first, pass, events, up, history>>

Stop ==
  /\ pc = "select" /\ cancelled
  /\ pc' = "stopped"
  /\ UNCHANGED <<nextPeer, first, pass, events, up, history>>

-----------------------------------------------------------------------------
Get == \E d \in 0 .. Timeout : Answer(d) \/ Fail(d)

Next ==
  \/ \E p \in Peers : Toggle(p)
  \/ Tick \/ RequestSync \/ Cancel
  \/ FirstPass \/ OnTicker \/ OnSyncNeeded \/ Stop
  \/ Get \/ Return

Spec == Init /\ [][Next]_vars

\* The loop's goroutine runs and a request ends with its timeout.  Of the cases of
\* the select that are ready again and again, none is neglected for ever.
Runs ==
  /\ WF_vars(FirstPass \/ OnTicker \/ OnSyncNeeded) /\ SF_vars(Stop)
  /\ WF_vars(Get) /\ WF_vars(Return)

FairSpec == Spec /\ Runs

-----------------------------------------------------------------------------
(* Properties *)

\* "rotate first peer so slow origins cannot starve others": whatever the other
\* peers do, one that answers in time delivers its chain and its mempool in one of
\* any N passes in a row, although slow peers may use up every pass's deadline.
NobodyStarves ==
  ~cancelled => \A p \in Peers : since[p] <= N /\ (pc # "pass" => since[p] < N)

\* A node that misses a parent block is synchronised after it noticed, also when it
\* notices in the middle of a pass; that does not depend on the ticker.
RequestHonoured == owed ~> (~owed \/ cancelled)

\* As long as the ticker ticks passes keep coming and end, so a peer that stays up is
\* heard again and again.
EveryoneIsHeard == WF_vars(Tick) =>
  \A p \in Peers : <>[](p \in up) => (<>cancelled \/ []<>(since[p] = 0))

\* "cancellation also stops retries and syncing": the loop ends however many
\* requests and ticks are waiting.
LoopStops == cancelled ~> (pc = "stopped")

=============================================================================
