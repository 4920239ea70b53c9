------------------------------- MODULE Peers -------------------------------
(***************************************************************************)
(* The peer list: NewGossipEngine reads the peers' file line by line.  A   *)
(* line is a name for a text; Trimmed gives what is left of it without     *)
(* blanks and trailing slashes, so that several lines may mean one peer.   *)
(***************************************************************************)
EXTENDS Naturals, Sequences, SequencesExt

CONSTANTS
  Lines,     \* texts a line may have
  URLs,      \* trimmed texts that are the URL of a peer
  Ignored,   \* trimmed texts that are empty or a comment
  Trimmed,   \* of each line; anything else is not a valid URL
  nodeAddr,  \* the node's own URL, trimmed
  maxPeers,  \* 32
  MaxLines   \* bound on the length of the file

VARIABLES
  read,    \* the lines read so far
  peers,   \* g.peers
  result   \* "reading", "ok" or the error "url" or "many"

vars == <<read, peers, result>>

Init == read = <<>> /\ peers = <<>> /\ result = "reading"

\* Variant with a fault: the list is full one peer early.
TooManyEarly(ps) == Len(ps) >= maxPeers

TooMany(ps) == Len(ps) > maxPeers

\* Empty, a comment, the node itself or seen before.
Skips(p) == p \in Ignored \/ p = nodeAddr \/ p \in Range(peers)

ReadLine(l) ==
  LET p == Trimmed[l] IN
  /\ result = "reading" /\ Len(read) < MaxLines
  /\ read' = Append(read, l)
  /\ peers' = IF Skips(p) \/ p \notin URLs THEN peers ELSE Append(peers, p)
  /\ result' = IF Skips(p) THEN result
               ELSE IF p \notin URLs THEN "url"
               ELSE IF TooMany(peers') THEN "many" ELSE result

\* The end of the file.
Done == result = "reading" /\ result' = "ok" /\ UNCHANGED <<read, peers>>

Next == Done \/ \E l \in Lines : ReadLine(l)

Spec == Init /\ [][Next]_vars

-----------------------------------------------------------------------------
(* Properties *)

\* The peers a file names: the URLs on its lines, each once, without the node.
Named(f) == {Trimmed[f[i]] : i \in DOMAIN f} \cap (URLs \ {nodeAddr})

\* The engine gossips with exactly the peers the file names, in the order of their
\* first lines, never with itself and never twice in one pass, where a
\* peer is its line after trimming; a file is refused only for a bad line or for too many peers.
ReadsPeers ==
  /\ Range(peers) = Named(read) /\ IsInjective(peers)
  /\ \A i, j \in DOMAIN peers : i < j =>
       \E k \in DOMAIN read : /\ Trimmed[read[k]] = peers[i]
                              /\ \A m \in 1 .. k : Trimmed[read[m]] # peers[j]
  /\ result \in {"reading", "ok"} => Len(peers) <= maxPeers
  /\ result = "many" => Len(peers) = maxPeers + 1
  /\ result = "url" <=> \E i \in DOMAIN read : Trimmed[read[i]] \notin URLs \cup Ignored

=============================================================================
