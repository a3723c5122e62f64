--------------------------- MODULE ClientLifetime ---------------------------
(***************************************************************************)
(* What the registry and the dibs together promise about the life of a     *)
(* ClientInfo: threads come to use one only while it is published in the   *)
(* registry, and it is reclaimed after it has been withdrawn, and not      *)
(* before the last of its users is gone.  RelayStorage implements this.    *)
(***************************************************************************)
CONSTANTS Conns,      \* the clients
          Threads     \* the threads that may use them

VARIABLES status,     \* each client: absent, published, withdrawn, reclaimed
          users       \* the threads that are using each client

vars == <<status, users>>

Init == /\ status = [c \in Conns |-> "absent"]
        /\ users = [c \in Conns |-> {}]

Become(c, from, to) ==
    status[c] = from /\ status' = [status EXCEPT ![c] = to]

Publish(c) == Become(c, "absent", "published") /\ UNCHANGED users

(* Only a published client can be found. *)
StartUse(t, c) ==
    /\ status[c] = "published"
    /\ users' = [users EXCEPT ![c] = @ \cup {t}]
    /\ UNCHANGED status

EndUse(t, c) ==
    /\ users' = [users EXCEPT ![c] = @ \ {t}]
    /\ UNCHANGED status

Withdraw(c) == Become(c, "published", "withdrawn") /\ UNCHANGED users

(* Nobody uses the client, or its only user gives it up by reclaiming it. *)
Reclaim(c) ==
    /\ Become(c, "withdrawn", "reclaimed")
    /\ \E t \in Threads : users[c] \subseteq {t}
    /\ users' = [users EXCEPT ![c] = {}]

Next == \E c \in Conns :
            \/ Publish(c) \/ Withdraw(c) \/ Reclaim(c)
            \/ \E t \in Threads : StartUse(t, c) \/ EndUse(t, c)

Spec == Init /\ [][Next]_vars
=============================================================================
