----------------------------- MODULE Lifecycle -----------------------------
(***************************************************************************)
(* node.Run from the first file it opens to its return: what it starts, in *)
(* which order, and how a signal or a failing server ends it while the     *)
(* background goroutines and the handlers still contend for the engine's   *)
(* mutex.  What they do with it is modelled in Node, Workers and SyncLoop. *)
(***************************************************************************)
EXTENDS FiniteSets

CONSTANTS
  Handlers,  \* HTTP requests that may be handled at the same time
  Free       \* mu is not locked

Background == {"gossip", "miner"}  \* the goroutines of the WaitGroup workers
Actors == Background \cup Handlers

ASSUME LifecycleAssumption == Handlers \cap Background = {} /\ Free \notin Actors

VARIABLES
  pc,         \* where Run is
  ctxDone,    \* a signal has come
  cancelled,  \* cancel was called
  worker,     \* the background goroutines
  serve,      \* the goroutine of server.Serve and what it does with its listener
  handler,    \* the requests; one that is "cut" runs on without a connection
  mu,         \* who has locked the engine's mutex
  err         \* what Run returns

vars == <<pc, ctxDone, cancelled, worker, serve, handler, mu, err>>

TypeOK ==
  /\ pc \in {"storage", "engine", "listen", "select", "shutdown", "cancel", "wait", "returned"}
  /\ ctxDone \in BOOLEAN /\ cancelled \in BOOLEAN
  /\ worker \in [Background -> {"none", "running", "done"}]
  /\ serve \in {"none", "launched", "serving", "failing", "failed", "closed"}
  /\ handler \in [Handlers -> {"none", "active", "cut"}]
  /\ mu \in Actors \cup {Free}
  /\ err \in {"nil", "init", "serve", "timeout"}

Init ==
  /\ pc = "storage" /\ ctxDone = FALSE /\ cancelled = FALSE
  /\ worker = [b \in Background |-> "none"]
  /\ serve = "none"
  /\ handler = [h \in Handlers |-> "none"]
  /\ mu = Free /\ err = "nil"

\* The port is bound, whether or not Serve has come to its listener or is done with it.
PortOpen == serve \in {"launched", "serving", "failing"}

\* server.Shutdown has set its flag.  (A start that failed has no Serve to see it.)
shuttingDown == pc \in {"shutdown", "cancel", "wait", "returned"}

-----------------------------------------------------------------------------
(* Start *)

Launched == [b \in Background |-> "running"]

\* A step of the start fails and Run returns its error.
Abort ==
  /\ pc' = "returned" /\ err' = "init"
  /\ UNCHANGED <<ctxDone, cancelled, worker, serve, handler, mu>>

\* NewFileChainStorage
OpenStorage ==
  /\ pc = "storage"
  /\ \/ Abort
     \/ pc' = "engine" /\ UNCHANGED <<ctxDone, cancelled, worker, serve, handler, mu, err>>

\* Variant with a fault: the goroutines are started before the port is bound.
ReadPeersAndStart ==
  /\ pc = "engine"
  /\ \/ Abort
     \/ pc' = "listen" /\ worker' = Launched
        /\ UNCHANGED <<ctxDone, cancelled, serve, handler, mu, err>>

\* NewGossipEngine
ReadPeers ==
  /\ pc = "engine"
  /\ \/ Abort
     \/ pc' = "listen" /\ UNCHANGED <<ctxDone, cancelled, worker, serve, handler, mu, err>>

\* "Bind before starting background workers, so a port conflict leaves no workers."
\* The port is bound here; Serve gets the listener in a goroutine of its own.
Listen ==
  /\ pc = "listen"
  /\ \/ Abort
     \/ /\ pc' = "select" /\ worker' = Launched /\ serve' = "launched"
        /\ UNCHANGED <<ctxDone, cancelled, handler, mu, err>>

-----------------------------------------------------------------------------
(* While the node runs *)

Signal ==
  /\ ~ctxDone /\ ctxDone' = TRUE
  /\ UNCHANGED <<pc, cancelled, worker, serve, handler, mu, err>>

\* Serve's goroutine runs at last.  It registers the listener with the server, but if that
\* is shut down by now it closes the listener and returns ErrServerClosed.
ServeStarts ==
  /\ serve = "launched" /\ serve' = IF shuttingDown THEN "closed" ELSE "serving"
  /\ UNCHANGED <<pc, ctxDone, cancelled, worker, handler, mu, err>>

\* The listener fails: Serve takes it off the server's list.
ServeFails ==
  /\ serve = "serving" /\ serve' = "failing"
  /\ UNCHANGED <<pc, ctxDone, cancelled, worker, handler, mu, err>>

\* It closes the listener, and its error goes into the channel stopped, which has room.
ServeEnds ==
  /\ serve = "failing" /\ serve' = "failed"
  /\ UNCHANGED <<pc, ctxDone, cancelled, worker, handler, mu, err>>

Accept(h) ==
  /\ serve = "serving" /\ handler[h] = "none"
  /\ handler' = [handler EXCEPT ![h] = "active"]
  /\ UNCHANGED <<pc, ctxDone, cancelled, worker, serve, mu, err>>

\* The handler returns; every path on which it locks mu unlocks it again.
Finish(h) ==
  /\ handler[h] # "none" /\ mu # h
  /\ handler' = [handler EXCEPT ![h] = "none"]
  /\ UNCHANGED <<pc, ctxDone, cancelled, worker, serve, mu, err>>

Running(a) == IF a \in Background THEN worker[a] = "running" ELSE handler[a] # "none"

\* A decision under mu: a message, a block, an adopted chain or a read.
Lock(a) ==
  /\ Running(a) /\ mu = Free /\ mu' = a
  /\ UNCHANGED <<pc, ctxDone, cancelled, worker, serve, handler, err>>

Unlock(a) ==
  /\ mu = a /\ mu' = Free
  /\ UNCHANGED <<pc, ctxDone, cancelled, worker, serve, handler, err>>

\* g.Run or Start returns: workerCtx is done with ctx or when cancel is called.
End(b) ==
  /\ worker[b] = "running" /\ mu # b
  /\ ctxDone \/ cancelled
  /\ worker' = [worker EXCEPT ![b] = "done"]
  /\ UNCHANGED <<pc, ctxDone, cancelled, serve, handler, mu, err>>

-----------------------------------------------------------------------------
(* Shutdown *)

\* server.Shutdown closes the listener if it is registered at that moment, and waits until
\* Serve has left its loop.
Closed == IF serve = "serving" THEN "closed" ELSE serve

\* The signal may come before Serve has registered the listener; then nothing is closed.
SelectSignal ==
  /\ pc = "select" /\ ctxDone
  /\ pc' = "shutdown" /\ serve' = Closed
  /\ UNCHANGED <<ctxDone, cancelled, worker, handler, mu, err>>

SelectStopped ==
  /\ pc = "select" /\ serve = "failed"
  /\ pc' = "shutdown" /\ err' = "serve"
  /\ UNCHANGED <<ctxDone, cancelled, worker, serve, handler, mu>>

\* No connection is active any more.
Drained ==
  /\ pc = "shutdown" /\ \A h \in Handlers : handler[h] = "none"
  /\ pc' = "cancel"
  /\ UNCHANGED <<ctxDone, cancelled, worker, serve, handler, mu, err>>

\* Variant with a fault: the error of Shutdown is forgotten.
TimeoutForgotten ==
  /\ pc = "shutdown" /\ \E h \in Handlers : handler[h] # "none"
  /\ pc' = "cancel"
  /\ handler' = [h \in Handlers |-> IF handler[h] = "none" THEN "none" ELSE "cut"]
  /\ UNCHANGED <<ctxDone, cancelled, worker, serve, mu, err>>

\* After five seconds server.Close cuts the connections; the handlers run on.
Timeout ==
  /\ pc = "shutdown" /\ \E h \in Handlers : handler[h] # "none"
  /\ pc' = "cancel"
  /\ handler' = [h \in Handlers |-> IF handler[h] = "none" THEN "none" ELSE "cut"]
  /\ err' = IF err = "nil" THEN "timeout" ELSE err
  /\ UNCHANGED <<ctxDone, cancelled, worker, serve, mu>>

\* Variant with a fault: the goroutines are left to the signal's context.
NoCancel ==
  /\ pc = "cancel" /\ pc' = "wait"
  /\ UNCHANGED <<ctxDone, cancelled, worker, serve, handler, mu, err>>

CancelWorkers ==
  /\ pc = "cancel" /\ pc' = "wait" /\ cancelled' = TRUE
  /\ UNCHANGED <<ctxDone, worker, serve, handler, mu, err>>

\* workers.Wait; Serve's goroutine is not of this group, and stopped is not read again.
Wait ==
  /\ pc = "wait" /\ \A b \in Background : worker[b] = "done"
  /\ pc' = "returned"
  /\ UNCHANGED <<ctxDone, cancelled, worker, serve, handler, mu, err>>

-----------------------------------------------------------------------------
Run ==
  \/ OpenStorage \/ ReadPeers \/ Listen
  \/ SelectSignal \/ SelectStopped
  \/ Drained \/ Timeout \/ CancelWorkers \/ Wait

Others ==
  \/ Signal \/ ServeStarts \/ ServeFails \/ ServeEnds
  \/ \E h \in Handlers : Accept(h) \/ Finish(h)
  \/ \E a \in Actors : Lock(a) \/ Unlock(a)
  \/ \E b \in Background : End(b)

Next == Run \/ Others

Spec == Init /\ [][Next]_vars

\* Run's goroutine and Serve's go on, what is decided under mu takes finite time, and a
\* background goroutine that may end or lock mu again and again does end.  Nothing
\* is assumed of a handler that does not hold mu: its client may be slow.
OthersFairness ==
  /\ WF_vars(ServeStarts) /\ WF_vars(ServeEnds)
  /\ \A a \in Actors : WF_vars(Unlock(a))
  /\ \A b \in Background : SF_vars(End(b))

FairSpec == Spec /\ WF_vars(Run) /\ OthersFairness

-----------------------------------------------------------------------------
(* Properties *)

\* Why Run leaves nothing behind: nothing runs before the port is bound; from Shutdown on
\* Serve takes no request, not even if it only registers its listener now; no handler is
\* left, or will come, when Shutdown went well; mu belongs to somebody who still runs; and
\* an error of the server is reported once its listener is closed.
LifeInv ==
  /\ TypeOK
  /\ mu # Free => Running(mu)
  /\ err = "init" => pc = "returned"
  /\ pc \in {"storage", "engine", "listen"} \/ err = "init" =>
       /\ \A b \in Background : worker[b] = "none"
       /\ \A h \in Handlers : handler[h] = "none"
       /\ serve = "none"
  /\ shuttingDown => serve # "serving"
  /\ pc \in {"cancel", "wait", "returned"} /\ err = "nil" =>
       \A h \in Handlers : handler[h] = "none"
  /\ err = "serve" => serve = "failed"
  /\ pc = "returned" => \A b \in Background : worker[b] # "running"

\* However Run ends (a port in use, a signal, also one before Serve has begun, a failed
\* server, handlers that do not finish), no background goroutine is left and no request
\* will be accepted.  A return without error means that every request was answered and
\* that nobody is inside a decision: the state on disk is final.  A return with an error of
\* the start or of the server leaves no port bound; after a signal one may still be, until
\* Serve finds out (RunReturns).
ReturnsClean ==
  pc = "returned" =>
    /\ \A b \in Background : worker[b] # "running"
    /\ serve # "serving" /\ mu \notin Background
    /\ err = "nil" => mu = Free /\ \A h \in Handlers : handler[h] = "none"
    /\ err \in {"init", "serve"} => ~ PortOpen

\* A signal at any moment, also during the start, and a failing server both bring Run to
\* its end: no goroutine waits for another that waits for it.  Run does not wait for Serve, so
\* the port may outlive it, but not for ever: whoever runs the node again gets it.
RunReturns ==
  (ctxDone \/ serve \in {"failing", "failed"}) ~> (pc = "returned" /\ ~ PortOpen)

=============================================================================
