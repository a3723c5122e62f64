----------------------------- MODULE ServerLife -----------------------------
(***************************************************************************)
(* The life of the server (network/server/ServerTCP, native-lib.cpp): the  *)
(* activity makes one whenever it is resumed and deletes it whenever it is *)
(* paused; its thread opens the port and accepts clients.  Nobody waits    *)
(* for that thread, so it can outlive its server.                          *)
(*                                                                         *)
(* The handlers and the registry are here just the set of clients that     *)
(* are served.  The kernel is modelled as Linux behaves: accept() reserves *)
(* a descriptor when it is called, and one that waits keeps the socket it  *)
(* waits on, though its descriptor is closed; without SO_REUSEADDR a port  *)
(* is taken by a socket that listens and by every connection that came in  *)
(* by it.  Each call may fail for reasons of its own, too.  Once a thread  *)
(* goes on after its server has been deleted, or the destructor closes an  *)
(* id that was never set, anything may happen: the model stops there       *)
(* (Undefined).                                                            *)
(***************************************************************************)
EXTENDS Integers, FiniteSets

CONSTANTS Servers,     \* bound: the servers made one after another, each with a thread
          Conns,       \* bound: the connections there can be at a time
          Ports,       \* those Config picks from, 12000 to 21999 in the code
          None,
          MaxFds,      \* the descriptors left for these sockets: the test clients'
                       \* ends, which the same process has, are not counted
          MaxClients,  \* the ids of the registry, UINT8_MAX - 1 in the code
          Backlog      \* 5 in the code

ASSUME ServerAssumption ==
    /\ Servers \cap Conns = {} /\ None \notin Servers \cup Conns \cup Ports
    /\ IsFiniteSet(Servers) /\ IsFiniteSet(Conns)
    /\ MaxFds \in Nat /\ MaxClients \in Nat /\ Backlog \in Nat

VARIABLES
    server,     \* the global variable server, None when it is deleted
    made,       \* the servers made so far
    ui,         \* where the thread of the activity is
    stopFlag,   \* of each server
    place,      \* where the thread of each server is
    hand,       \* the connection it has accepted and not yet added
    port,       \* the port in the Config of each server
    open,       \* the open descriptors: a server stands for its listening socket
    socket,     \* whether that is bound and listens, as long as somebody keeps it
    backlog,    \* the connections that wait to be accepted
    via,        \* by the socket of which server a connection has come
    served,     \* those in the registry and in some handler
    testers,    \* the servers that have started the test clients
    handlerRuns \* whether the active handler has been given a thread

nativeVars == <<server, made, ui>>
threadVars == <<stopFlag, place, hand, port>>
kernelVars == <<open, socket, backlog, via>>
clientVars == <<served, testers, handlerRuns>>
vars == <<nativeVars, threadVars, kernelVars, clientVars>>

Ends == {"noSocket", "inUse", "failed", "stopped", "aborted", "exhausted", "gaveUp"}
Places == {"none", "open", "bind", "listen", "check", "call", "accept", "sleep", "add"}
          \cup Ends

ServerTypeOK ==
    /\ made \subseteq Servers /\ server \in made \cup {None}
    /\ ui \in {"idle", "delete"}
    /\ stopFlag \in [Servers -> BOOLEAN]
    /\ place \in [Servers -> Places]
    /\ hand \in [Servers -> Conns \cup {None}]
    /\ port \in [Servers -> Ports \cup {None}]
    /\ open \subseteq Servers \cup Conns
    /\ socket \in [Servers -> {"none", "bound", "listening"}]
    /\ backlog \subseteq Conns
    /\ via \in [Conns -> Servers \cup {None}]
    /\ served \subseteq open \cap Conns
    /\ testers \subseteq made
    /\ handlerRuns \in BOOLEAN

Init ==
    /\ server = None /\ made = {} /\ ui = "idle"
    /\ stopFlag = [s \in Servers |-> TRUE]
    /\ place = [s \in Servers |-> "none"]
    /\ hand = [s \in Servers |-> None]
    /\ port = [s \in Servers |-> None]
    /\ open = {} /\ backlog = {}
    /\ socket = [s \in Servers |-> "none"]
    /\ via = [c \in Conns |-> None]
    /\ served = {} /\ testers = {} /\ handlerRuns = FALSE

Blocked == {s \in Servers : place[s] = "accept"}
FreeFds == MaxFds - Cardinality(open) - Cardinality(Blocked)

Orphans == made \ {server}

(* The connections that were accepted by the port of s, and who waits there. *)
Through(s) == {c \in open \cap Conns : via[c] # None /\ port[via[c]] = port[s]}
Waiting(s) == {c \in backlog : via[c] = s}

(* Nobody keeps the socket of s any more: the port is free of it, and who waits
   in its queue is sent away, except those that have just been taken out. *)
ReleaseSocket(s, taken) ==
    /\ socket' = [socket EXCEPT ![s] = "none"]
    /\ backlog' = backlog \ Waiting(s)
    /\ via' = [c \in Conns |-> IF c \in Waiting(s) \ taken THEN None ELSE via[c]]

Undefined ==
    \/ \E s \in Orphans : place[s] \notin {"accept", "sleep"} \cup Ends
    \/ ui = "delete" /\ place[server] = "open"

Step(s, from, to) ==
    /\ ~Undefined
    /\ place[s] = from
    /\ place' = [place EXCEPT ![s] = to]

-----------------------------------------------------------------------------
(* The thread of the activity: onResume() and onPause().                    *)

(* createNative(): a new Config, which picks a port, new ServerTCP and start(). *)
CreateNative(s) ==
    /\ ui = "idle" /\ server = None /\ s \notin made
    /\ Step(s, "none", "open")
    /\ server' = s /\ made' = made \cup {s}
    /\ stopFlag' = [stopFlag EXCEPT ![s] = FALSE]
    /\ \E p \in Ports : port' = [port EXCEPT ![s] = p]
    /\ handlerRuns' = FALSE
    /\ UNCHANGED <<ui, hand, kernelVars, served, testers>>

(* A mutant: the listening socket is not closed. *)
NotClosed(s) == open

(* ~ServerTCP() closes the listening socket. *)
Closed(s) == open \ {s}

(* deleteNative(): stop(), and the socket is closed.  A thread that waits in
   accept() keeps it. *)
DeleteNative ==
    /\ ~Undefined
    /\ ui = "idle" /\ server # None
    /\ ui' = "delete"
    /\ stopFlag' = [stopFlag EXCEPT ![server] = TRUE]
    /\ open' = Closed(server)
    /\ IF server \in open' \/ place[server] = "accept"
       THEN UNCHANGED <<socket, backlog, via>>
       ELSE ReleaseSocket(server, {})
    /\ UNCHANGED <<server, made, place, hand, port, clientVars>>

(* delete current, which never ends once the active handler has had a thread
   (OnlyUnservedIsDeleted of HandlerShutdown), and the server is gone. *)
DeleteEnds ==
    /\ ~Undefined
    /\ ui = "delete" /\ ~handlerRuns
    /\ ui' = "idle" /\ server' = None
    /\ UNCHANGED <<made, threadVars, kernelVars, clientVars>>

-----------------------------------------------------------------------------
(* The thread of server s: serverWork().                                    *)

(* The thread goes on from one place to another, or ends, and that is all. *)
Goes(s, from, to) ==
    /\ Step(s, from, to)
    /\ UNCHANGED <<nativeVars, stopFlag, hand, port, kernelVars, clientVars>>

OpenSocket(s) ==
    /\ FreeFds > 0
    /\ Step(s, "open", "bind")
    /\ open' = open \cup {s}
    /\ UNCHANGED <<nativeVars, stopFlag, hand, port, socket, backlog, via, clientVars>>

(* Some socket of the process has the port of s. *)
InUse(s) ==
    \/ \E r \in Servers : socket[r] # "none" /\ port[r] = port[s]
    \/ Through(s) # {}

Bind(s) ==
    /\ s \in open /\ ~InUse(s)
    /\ Step(s, "bind", "listen")
    /\ socket' = [socket EXCEPT ![s] = "bound"]
    /\ UNCHANGED <<nativeVars, stopFlag, hand, port, open, backlog, via, clientVars>>

(* A mutant: the thread goes on though listen() has failed. *)
ListenOrNot(s) ==
    /\ s \in open
    /\ Step(s, "listen", "check")
    /\ \E now \in {"bound", "listening"} : socket' = [socket EXCEPT ![s] = now]
    /\ testers' = testers \cup {s}
    /\ UNCHANGED <<nativeVars, stopFlag, hand, port, open, backlog, via, served, handlerRuns>>

(* listen(), and afterCreated->start(). *)
Listen(s) ==
    /\ s \in open
    /\ Step(s, "listen", "check")
    /\ socket' = [socket EXCEPT ![s] = "listening"]
    /\ testers' = testers \cup {s}
    /\ UNCHANGED <<nativeVars, stopFlag, hand, port, open, backlog, via, served, handlerRuns>>

(* Each of the calls may fail: because the port is taken here, or the socket is
   closed by now, or for any other reason, as another process with the port or
   the remains of a connection that the kernel still waits for. *)
CannotStart(s) ==
    \/ Goes(s, "open", "noSocket")
    \/ s \in open /\ InUse(s) /\ Goes(s, "bind", "inUse")
    \/ Goes(s, "bind", "failed")
    \/ Goes(s, "listen", "failed")

(* while(!stopFlag) *)
Check(s) ==
    IF stopFlag[s] THEN Goes(s, "check", "stopped") ELSE Goes(s, "check", "call")

(* What accept() finds when it is called: its socket has been closed since
   (EBADF), or no descriptor is left (EMFILE, an "unrecoverable" error). *)
CallAccept(s) ==
    \/ s \notin open /\ Goes(s, "call", "aborted")
    \/ s \in open /\ FreeFds <= 0 /\ Goes(s, "call", "exhausted")
    \/ s \in open /\ FreeFds > 0 /\ Goes(s, "call", "accept")

(* accept() returns, with the connections in accepted: if the socket of s is
   closed by now, its thread was the last to keep it. *)
Returned(s, accepted) ==
    IF s \in open
    THEN backlog' = backlog \ accepted /\ UNCHANGED <<socket, via>>
    ELSE ReleaseSocket(s, accepted)

(* A client is accepted. *)
Accept(s, c) ==
    /\ c \in Waiting(s)
    /\ Step(s, "accept", "add")
    /\ hand' = [hand EXCEPT ![s] = c]
    /\ open' = open \cup {c}
    /\ Returned(s, {c})
    /\ UNCHANGED <<nativeVars, stopFlag, port, clientVars>>

(* ENETDOWN and its like: try again in five seconds. *)
NetworkError(s) ==
    /\ Step(s, "accept", "sleep")
    /\ Returned(s, {})
    /\ UNCHANGED <<nativeVars, stopFlag, hand, port, open, clientVars>>

(* Any other error, as EINTR, ECONNABORTED or ENOMEM: the thread ends. *)
GiveUp(s) ==
    /\ \/ s \in open /\ Step(s, "call", "gaveUp")
       \/ Step(s, "accept", "gaveUp")
    /\ Returned(s, {})
    /\ UNCHANGED <<nativeVars, stopFlag, hand, port, open, clientVars>>

(* A mutant: the thread does not try again. *)
WakeToEnd(s) == Goes(s, "sleep", "stopped")

Wake(s) == Goes(s, "sleep", "check")

(* A mutant: the registry takes one client too many. *)
AddOneMore(s) ==
    /\ Step(s, "add", "check")
    /\ hand' = [hand EXCEPT ![s] = None]
    /\ \/ /\ Cardinality(served) <= MaxClients
          /\ served' = served \cup {hand[s]}
          /\ handlerRuns' = TRUE
       \/ /\ Cardinality(served) > MaxClients \/ ui = "delete"
          /\ UNCHANGED <<served, handlerRuns>>
    /\ UNCHANGED <<nativeVars, stopFlag, port, kernelVars, testers>>

(* current->addProcessor(): the client is served, or refused because the
   registry is full or the handler is being deleted.  Nobody closes the
   descriptor of one that is refused. *)
AddProcessor(s) ==
    /\ Step(s, "add", "check")
    /\ hand' = [hand EXCEPT ![s] = None]
    /\ \/ /\ Cardinality(served) < MaxClients
          /\ served' = served \cup {hand[s]}
          /\ handlerRuns' = TRUE
       \/ /\ Cardinality(served) >= MaxClients \/ ui = "delete"
          /\ UNCHANGED <<served, handlerRuns>>
    /\ UNCHANGED <<nativeVars, stopFlag, port, kernelVars, testers>>

ServerWork(s) ==
    \/ OpenSocket(s) \/ Bind(s) \/ Listen(s) \/ CannotStart(s)
    \/ Check(s) \/ CallAccept(s) \/ Wake(s) \/ AddProcessor(s)
    \/ \E c \in Conns : Accept(s, c)

-----------------------------------------------------------------------------
(* The clients.                                                             *)

(* The kernel completes connections while the socket of s listens, whether or
   not its thread still accepts any. *)
Connect(c, s) ==
    /\ ~Undefined
    /\ socket[s] = "listening"
    /\ c \notin open \cup backlog
    /\ Cardinality(Waiting(s)) <= Backlog
    /\ backlog' = backlog \cup {c}
    /\ via' = [via EXCEPT ![c] = s]
    /\ UNCHANGED <<nativeVars, threadVars, open, socket, clientVars>>

(* A mutant: the client stays in the registry. *)
LeaveHalf(c) ==
    /\ ~Undefined
    /\ c \in served
    /\ open' = open \ {c} /\ via' = [via EXCEPT ![c] = None]
    /\ UNCHANGED <<nativeVars, threadVars, socket, backlog, clientVars>>

(* A client hangs up, and its handler closes the descriptor. *)
Leave(c) ==
    /\ ~Undefined
    /\ c \in served
    /\ served' = served \ {c} /\ open' = open \ {c}
    /\ via' = [via EXCEPT ![c] = None]
    /\ UNCHANGED <<nativeVars, threadVars, socket, backlog, testers, handlerRuns>>

-----------------------------------------------------------------------------
Next ==
    \/ \E s \in Servers : CreateNative(s) \/ ServerWork(s) \/ NetworkError(s) \/ GiveUp(s)
    \/ DeleteNative \/ DeleteEnds
    \/ \E c \in Conns, s \in Servers : Connect(c, s)
    \/ \E c \in Conns : Leave(c)

Spec == Init /\ [][Next]_vars

-----------------------------------------------------------------------------
(* Safety.                                                                  *)

(* The connections that are being added, and those that were refused: nobody
   serves or closes them. *)
InHand == {hand[s] : s \in Servers} \ {None}
Refused == (open \cap Conns) \ (served \cup InHand)

(* The test clients are started when the server can be reached, and while it
   is not deleted they can go on connecting. *)
TestersFindServer == ui = "idle" /\ server \in testers => socket[server] = "listening"

(* What earlier servers leave in the way of a later one: bind() finds the port
   taken by this process only if a thread of theirs has not come back from
   accept(), or a client they have refused is still open.  A deleted server
   keeps the port in no other way. *)
PortTakenByLeftovers ==
    [][\A s \in Servers : place[s] = "bind" /\ place'[s] = "inUse" =>
          \/ \E r \in Orphans : place[r] = "accept" /\ port[r] = port[s]
          \/ Through(s) \cap Refused # {}]_vars

(* The accept loop gives up for want of descriptors only if those of refused
   clients and of threads that were left in accept() have used them up: the
   clients that are served never do. *)
OnlyLeaksExhaust ==
    [][\A s \in Servers : place[s] = "call" /\ place'[s] = "exhausted" =>
          Cardinality(Refused) + Cardinality(Blocked) >= MaxFds - MaxClients - 1]_vars

-----------------------------------------------------------------------------
(* Liveness: the thread runs, the network is not down for ever, and accept()
   takes the clients in their order.  Nobody has to connect, or to pause. *)
Fairness ==
    /\ WF_vars(DeleteEnds)
    /\ \A s \in Servers : WF_vars(ServerWork(s))
    /\ \A s \in Servers, c \in Conns : SF_vars(Accept(s, c))

FairSpec == Spec /\ Fairness

(* Who waits in the queue is accepted, through any number of the network errors
   that serverWork() lists, unless the server is deleted, has run out of
   descriptors or has got an error that is not in the list. *)
PendingAccepted ==
    \A c \in Conns : c \in backlog ~>
        \/ c \notin backlog
        \/ ui = "delete" \/ Undefined
        \/ place[via[c]] \in {"exhausted", "gaveUp"}
=============================================================================
