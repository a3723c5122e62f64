-------------------------- MODULE MCRelayStorage --------------------------
(* Instances of the storage for TLC. *)
EXTENDS RelayStorage, TLC

CONSTANTS c1, c2, c3

(* Two connections that send one frame each. *)
TwoShortTalkers == c1 :> 2 @@ c2 :> 2

(* Two connections send one frame each; the third only comes and goes. *)
TwoTalkersAndATarget == c1 :> 2 @@ c2 :> 2 @@ c3 :> 0

(* A bound of the run with three connections: the clients do not send before
   all of them have been welcomed.  Those with two have no such bound. *)
AllArriveFirst ==
    (\E c \in Conns : phase[c] \in {"unborn", "accepted"})
        => \A w \in Workers, c \in Conns : pc[w] = "idle" /\ phase[c] \notin {"closed", "cleaned"} /\ reads[c] = 0
=============================================================================
