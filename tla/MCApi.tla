-------------------------------- MODULE MCApi --------------------------------
(* Instances of Api for TLC. *)
EXTENDS Api, TLC

Msg(n) == [id |-> n, data |-> CHOOSE p \in Payloads : TRUE]

\* Blocks of other nodes, with the message clients post or with another one.
PeerTxsEither == {{Msg(1)}, {Msg(2)}}

==============================================================================
