-------------------------------- MODULE MCDht --------------------------------
(***************************************************************************)
(* The DHT client with ids of three bits: two nodes of one bucket, which    *)
(* has room for one, and two callers with a hash each.                      *)
(***************************************************************************)
EXTENDS Dht, TLC

CONSTANTS u1, u2

Near == <<1, 0, 0>>
Far == <<1, 0, 1>>
Nodes == {Near, Far}
Own == <<0, 0, 0>>
Hash == u1 :> <<1, 1, 0>> @@ u2 :> <<0, 1, 0>>
AllHashes == {Hash[u1], Hash[u2]}
\* A node is listed, with a token or without; we are listed; the answer is unreadable.
Talk ==
  {[lists |-> Near, token |-> TRUE, sound |-> TRUE], [lists |-> Far, token |-> FALSE, sound |-> TRUE],
   [lists |-> Own, token |-> TRUE, sound |-> TRUE], [lists |-> NoId, token |-> FALSE, sound |-> FALSE]}
=============================================================================
