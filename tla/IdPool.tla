------------------------------- MODULE IdPool -------------------------------
(***************************************************************************)
(* What the client registry of the server promises to its callers: a pool  *)
(* of client ids.  An id that is handed out belongs to one socket until it *)
(* is given back, and a request is refused only when every id is taken.    *)
(* ClientManager is the detailed specification that implements this one.   *)
(***************************************************************************)
CONSTANTS Ids,        \* the ids a client may be known by
          Sockets,    \* the socket ids the server is given by accept()
          Refused     \* the answer when no id can be given

VARIABLES clients,    \* the id -> socket association of the live clients
          answer      \* what the last add() told its caller

vars == <<clients, answer>>

Taken == DOMAIN clients

Init == /\ clients = [i \in {} |-> Refused]
        /\ answer = Refused

(* An id nobody holds is given to socket s. *)
Grant(i, s) ==
    /\ i \notin Taken
    /\ clients' = [j \in Taken \cup {i} |-> IF j = i THEN s ELSE clients[j]]
    /\ answer' = i

(* Only an exhausted pool turns a caller away. *)
Refuse ==
    /\ Taken = Ids
    /\ answer' = Refused
    /\ UNCHANGED clients

(* Every other client keeps its id and its socket. *)
GiveBack(i) ==
    /\ clients' = [j \in Taken \ {i} |-> clients[j]]
    /\ UNCHANGED answer

Next == \/ \E i \in Ids, s \in Sockets : Grant(i, s)
        \/ Refuse
        \/ \E i \in Ids : GiveBack(i)

Spec == Init /\ [][Next]_vars
=============================================================================
