------------------------------ MODULE Startup ------------------------------
(***************************************************************************)
(* node.Run with the peers' file it reads: the step "engine" of Lifecycle  *)
(* calls NewGossipEngine, whose loop over the lines is in Peers.           *)
(***************************************************************************)
EXTENDS Lifecycle, Naturals

CONSTANTS Lines, URLs, Ignored, Trimmed, nodeAddr, maxPeers, MaxLines

ASSUME StartupAssumption ==
  /\ DOMAIN Trimmed = Lines /\ nodeAddr \in URLs /\ URLs \cap Ignored = {}
  /\ maxPeers \in Nat \ {0} /\ MaxLines \in Nat

VARIABLES read, peers, result

File == INSTANCE Peers

fileVars == <<read, peers, result>>
startVars == <<vars, fileVars>>

StartInit == Init /\ File!Init

ReadFile ==
  /\ pc = "engine"
  /\ File!Next
  /\ UNCHANGED vars

\* Run goes on with an engine or returns its error; a file that cannot be read at all is
\* an error before the first line.
EngineReturns ==
  \/ result = "ok" /\ err' = "nil"
  \/ result \in {"url", "many"} /\ err' = "init"
  \/ result = "reading" /\ read = <<>> /\ err' = "init"

RunGoesOn ==
  /\ Run
  /\ pc = "engine" => EngineReturns
  /\ UNCHANGED fileVars

OthersGoOn == Others /\ UNCHANGED fileVars

StartNext == ReadFile \/ RunGoesOn \/ OthersGoOn

\* Lifecycle's fairness, and the file is read to its end.
StartSpec ==
  /\ StartInit /\ [][StartNext]_startVars
  /\ WF_startVars(ReadFile) /\ WF_startVars(RunGoesOn)
  /\ OthersFairness

-----------------------------------------------------------------------------
(* Properties *)

\* A node that binds its port gossips with exactly the peers of the whole file, in the
\* order of their first lines, never with itself and never twice in a pass, where a
\* peer is its line after trimming, and no file is refused without a bad line or too many peers.
KnowsItsPeers ==
  /\ File!ReadsPeers
  /\ pc \notin {"storage", "engine"} /\ err # "init" => result = "ok"

=============================================================================
