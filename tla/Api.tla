-------------------------------- MODULE Api --------------------------------
(***************************************************************************)
(* What the clients of one node see: the handlers of package api on top of *)
(* Node.  A request that decode or a validation refuses (400, 413, 415)    *)
(* and a full mempool (429) change nothing and tell the client nothing of  *)
(* a message, so they are no actions here.                                 *)
(*                                                                         *)
(* FileChainStorage.mu matters for readers: AddBlock and ReplaceChain hold *)
(* it from their checks until memory follows the file, so no reader comes  *)
(* between the rename and the update of memory.                            *)
(***************************************************************************)
EXTENDS Node

VARIABLES
  answer,   \* the last a client heard of an id since the process started
  view      \* the last chain, or tip of a chain, a client was shown

apiVars == <<answer, view>>
allVars == <<vars, apiVars>>

NoAnswer == [id \in TxIDs |-> "none"]

ApiTypeOK ==
  /\ answer \in [TxIDs -> {"none", "known", "pending", "confirmed", "missing"}]
  /\ view \in Seq(Block)

ApiInit ==
  /\ Init
  /\ answer = NoAnswer
  /\ view = <<>>

\* The node goes on; who asks a new process knows nothing of the old one's memory.
NodeStep ==
  /\ Next
  /\ answer' = IF up' THEN answer ELSE NoAnswer
  /\ UNCHANGED view

-----------------------------------------------------------------------------
(* POST /transaction *)

\* 202 and status "pending".
AddTransaction(t, tx) ==
  /\ t \in Handlers
  /\ SubmitTransaction(t, tx)
  /\ answer' = [answer EXCEPT ![tx.id] = "pending"]
  /\ UNCHANGED view

\* 409: the id is in the chain or in the mempool.
AddTransactionConflict(tx) ==
  /\ up /\ mu = Nobody
  /\ ValidateTransaction(tx)
  /\ tx.id \in txIDs \cup IDs(pool)
  /\ answer' = [answer EXCEPT ![tx.id] = "known"]
  /\ UNCHANGED <<vars, view>>

-----------------------------------------------------------------------------
(* GET *)

\* Variant with a fault: the two parts are read without the engine's lock.
ReadStateUnlocked == phase # "renamed"

\* ReadState and Status take GossipEngine.mu.
ReadState == mu = Nobody

\* GET /transaction/:id searches the chain, then the pending messages.
GetTransaction(id) ==
  /\ up /\ ReadState
  /\ answer' = [answer EXCEPT ![id] =
       IF id \in Confirmed(chain) THEN "confirmed"
       ELSE IF id \in IDs(pool) THEN "pending"
       ELSE "missing"]
  /\ view' = chain
  /\ UNCHANGED vars

\* GET /chain and GET /transactions copy the chain under the storage's lock alone.
GetChain ==
  /\ up /\ phase # "renamed"
  /\ view' = chain
  /\ UNCHANGED <<vars, answer>>

\* GET /mempool takes neither lock: in the middle of a commit it may show messages
\* that the chain has just confirmed.
GetMempool ==
  /\ up
  /\ answer' = [id \in TxIDs |-> IF id \in IDs(pool) THEN "pending" ELSE answer[id]]
  /\ UNCHANGED <<vars, view>>

\* GET /status shows height and hash of the tip.
GetStatus ==
  /\ up /\ ReadState
  /\ view' = chain
  /\ UNCHANGED <<vars, answer>>

-----------------------------------------------------------------------------
ApiNext ==
  \/ NodeStep
  \/ \E t \in Handlers, tx \in RawTransaction : AddTransaction(t, tx)
  \/ \E tx \in RawTransaction : AddTransactionConflict(tx)
  \/ \E id \in TxIDs : GetTransaction(id)
  \/ GetChain \/ GetMempool \/ GetStatus

ApiSpec == ApiInit /\ [][ApiNext]_allVars

-----------------------------------------------------------------------------
(* Properties *)

\* "ReadState prevents a lookup from missing a transaction as it moves between
\* pending and confirmed state": once a client was told of an id, by 202, 409 or
\* a lookup, no lookup of the same process answers 404.
NoAnswerTakenBack ==
  [][\A id \in TxIDs :
       answer[id] \in {"known", "pending", "confirmed"} => answer'[id] # "missing"]_allVars

\* What clients are shown of the chain only gets better, through reorganisations,
\* failing saves, kills and restarts: no block is shown before it is durable.
ReadsGoForward ==
  [][view # <<>> /\ view' # view => BetterChain(view', view)]_allVars

Told(id) == answer[id] \in {"known", "pending", "confirmed"}

\* A client's knowledge is the node's.
ToldInv ==
  up /\ mu = Nobody => \A id \in TxIDs : Told(id) => id \in txIDs \cup IDs(pool)

\* In the middle of a commit, when the mempool may be behind the chain, nothing is
\* shown that the process did not accept or confirm; what it holds dies with it.
KnownInv ==
  IF up THEN /\ pool \cup reorg \cup TxsOf(file) \subseteq known
             /\ \A id \in TxIDs : Told(id) => id \in IDs(known)
  ELSE reorg = {} /\ answer = NoAnswer

\* What was shown is on disk, or was replaced there by something better.
ShownInv == view # <<>> => file = view \/ BetterChain(file, view)

\* The invariant behind both properties.
ApiInv == ApiTypeOK /\ ToldInv /\ KnownInv /\ ShownInv

=============================================================================
