---------------------------- MODULE MCRelayTest ----------------------------
(* The test with two clients for TLC: they relay, reconnect and relay again. *)
EXTENDS RelayTest, TLC

(* creationWork() without its repetitions. *)
ShortWork == <<"relayTest", "reconnectSomeClients", "relayTest">>

OneRelay == <<"relayTest">>

OneReconnect == <<"reconnectSomeClients">>

(* Enough reads for every connection: this bound is never met. *)
Unbounded == [c \in Conns |-> 4 * Times * (Length + 1)]

TestSymmetry == Permutations(Conns) \cup Permutations(Clients) \cup Permutations(Workers)
=============================================================================
