------------------------------ MODULE MCFraming ------------------------------
(***************************************************************************)
(* Bytes with eight values for TLC, and frames of every kind: relays of    *)
(* one and of two bytes to either client, one that is too short, one that  *)
(* is no relay, and an empty one.  Client 5 has an id of the upper half.   *)
(***************************************************************************)
EXTENDS Framing, TLC

MCIds == {1, 5}
MCBodies == {<<3, 1, 6, 2>>, <<3, 5, 7>>, <<3, 1>>, <<0, 1, 1>>, <<>>}
TwoAndOne == 1 :> 2 @@ 5 :> 1
==============================================================================
