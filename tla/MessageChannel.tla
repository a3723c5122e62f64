--------------------------- MODULE MessageChannel ---------------------------
(***************************************************************************)
(* What the server promises its clients: a client becomes a member, and    *)
(* some time later gets a message with its id; a message to a member       *)
(* arrives whole and once, after those that the server has taken before    *)
(* it.  Only the reachable clients get anything.  Framing implements this. *)
(***************************************************************************)
EXTENDS Integers, Sequences

CONSTANTS Ids,        \* the clients
          Messages    \* records of a client to and a text

VARIABLES reachable,  \* the clients that can be addressed
          members,    \* those the server knows
          greeted,    \* those it has sent their id
          toServer,   \* each client: the messages the server has yet to take
          toClient,   \* each client: the texts on their way to it
          got         \* each client: the texts it has received

vars == <<reachable, members, greeted, toServer, toClient, got>>

Init ==
    /\ reachable \in SUBSET Ids
    /\ members = {} /\ greeted = {}
    /\ toServer = [c \in Ids |-> <<>>]
    /\ toClient = [c \in Ids |-> <<>>]
    /\ got = [c \in Ids |-> <<>>]

(* A text goes to a client, or is lost. *)
Deliver(d, text) ==
    toClient' = IF d \in members \cap reachable
                  THEN [toClient EXCEPT ![d] = Append(@, text)]
                  ELSE toClient

Join(c) ==
    /\ c \notin members
    /\ members' = members \cup {c}
    /\ UNCHANGED <<reachable, greeted, toServer, toClient, got>>

(* The server may have relayed messages to the client before. *)
Greet(c) ==
    /\ c \in members \ greeted
    /\ greeted' = greeted \cup {c}
    /\ Deliver(c, <<c>>)
    /\ UNCHANGED <<reachable, members, toServer, got>>

Send(c, m) ==
    /\ toServer' = [toServer EXCEPT ![c] = Append(@, m)]
    /\ UNCHANGED <<reachable, members, greeted, toClient, got>>

(* The server takes a message. *)
Relay(c) ==
    /\ c \in greeted /\ toServer[c] # <<>>
    /\ toServer' = [toServer EXCEPT ![c] = Tail(@)]
    /\ Deliver(Head(toServer[c]).to, Head(toServer[c]).text)
    /\ UNCHANGED <<reachable, members, greeted, got>>

Receive(c) ==
    /\ toClient[c] # <<>>
    /\ got' = [got EXCEPT ![c] = Append(@, Head(toClient[c]))]
    /\ toClient' = [toClient EXCEPT ![c] = Tail(@)]
    /\ UNCHANGED <<reachable, members, greeted, toServer>>

Next ==
    \E c \in Ids : \/ Join(c) \/ Greet(c) \/ Relay(c) \/ Receive(c)
                   \/ \E m \in Messages : Send(c, m)

Spec == Init /\ [][Next]_vars
=============================================================================
