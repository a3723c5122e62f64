-------------------------- MODULE ServerLifeProofs --------------------------
(***************************************************************************)
(* Proofs about ServerLife, for any number of servers, connections and     *)
(* descriptors and any choice of ports.  What is said of connections is    *)
(* inductive with the place of the thread that has one in its hands; what  *)
(* is said of ports rests on who can keep a listening socket, whether its  *)
(* descriptor is open or closed, and on who is served at all by the time   *)
(* that a server is made.                                                  *)
(***************************************************************************)
EXTENDS ServerLife, FiniteSetTheorems, TLAPS

(* The thread has a connection in its hands when it is adding it. *)
HandAtAdd == \A s \in Servers : place[s] = "add" <=> hand[s] # None

(* A thread exists if its server was made, and only the server there is has
   its socket open. *)
ThreadsOfMade == \A s \in Servers : place[s] # "none" => s \in made

OnlyServerOpen ==
    \A s \in Servers : s \in open => s = server /\ ui = "idle"

(* Past socket(), and until it is deleted, the server has its socket. *)
SocketKept ==
    ui = "idle" /\ server # None /\ place[server] \notin {"none", "open", "noSocket"} =>
        server \in open

(* The socket of a server is kept by its descriptor, or by the thread that
   waits in accept(), and there is nothing to keep before bind(). *)
SocketHolder ==
    \A s \in Servers :
        /\ socket[s] # "none" => s \in open \/ place[s] = "accept"
        /\ place[s] \in {"none", "open", "bind"} => socket[s] = "none"

TestersPast == \A s \in testers : place[s] \notin {"none", "open", "bind", "listen"}

(* Who is served is served by the handler of the server there is: the one of a
   server that had clients is never deleted, and a new server has none. *)
ServedHere ==
    /\ served # {} => handlerRuns
    /\ server = None \/ place[server] \in {"open", "bind", "listen"} => served = {}

(* What waits in the queue is not open yet, and what a thread has in its hands
   is open, is not served and is in no other hands. *)
ConnectionsApart ==
    /\ backlog \cap open = {} /\ InHand \subseteq open \ served
    /\ \A s, r \in Servers : s # r /\ hand[s] = hand[r] => hand[s] = None

-----------------------------------------------------------------------------
(* The connections: where each is, and types.                               *)

ConnectionsInv ==
    /\ ServerTypeOK
    /\ ui = "delete" => server # None
    /\ HandAtAdd /\ ThreadsOfMade /\ ConnectionsApart

LEMMA InitConnections == Init => ConnectionsInv
BY ServerAssumption
   DEF Init, ConnectionsInv, ServerTypeOK, HandAtAdd, ThreadsOfMade, ConnectionsApart, Places,
       InHand

LEMMA NextConnections ==
    ASSUME ConnectionsInv, [Next]_vars
    PROVE  ConnectionsInv'
<1> USE ServerAssumption
        DEF ConnectionsInv, ServerTypeOK, HandAtAdd, ThreadsOfMade, ConnectionsApart, Places,
            Ends, InHand, Step, nativeVars, threadVars, kernelVars, clientVars
<1>1. ASSUME NEW s \in Servers, CreateNative(s) PROVE ConnectionsInv'
  <2>1. ServerTypeOK' /\ (ui = "delete" => server # None)'
    <3>1. PICK p \in Ports : port' = [port EXCEPT ![s] = p]
      BY <1>1 DEF CreateNative
    <3>2. (port \in [Servers -> Ports \cup {None}])'
      BY <3>1
    <3>3. QED
      BY <1>1, <3>2 DEF CreateNative
  <2>2. HandAtAdd' /\ ThreadsOfMade' /\ ConnectionsApart'
    BY <1>1 DEF CreateNative
  <2>3. QED
    BY <2>1, <2>2
<1>2. CASE DeleteNative
  BY <1>2 DEF DeleteNative, Closed, ReleaseSocket
<1>3. CASE DeleteEnds
  BY <1>3 DEF DeleteEnds
<1>4. ASSUME NEW s \in Servers, OpenSocket(s) PROVE ConnectionsInv'
  BY <1>4 DEF OpenSocket
<1>5. ASSUME NEW s \in Servers, Bind(s) PROVE ConnectionsInv'
  BY <1>5 DEF Bind
<1>6. ASSUME NEW s \in Servers, Listen(s) PROVE ConnectionsInv'
  <2>1. s \in made
    BY <1>6 DEF Listen
  <2>2. QED
    BY <1>6, <2>1 DEF Listen
<1>7. ASSUME NEW s \in Servers, CannotStart(s) PROVE ConnectionsInv'
  BY <1>7 DEF CannotStart, Goes
<1>8. ASSUME NEW s \in Servers, Check(s) \/ CallAccept(s) \/ Wake(s) PROVE ConnectionsInv'
  BY <1>8 DEF Check, CallAccept, Wake, Goes
<1>9. ASSUME NEW s \in Servers, AddProcessor(s) PROVE ConnectionsInv'
  <2>1. hand[s] \in Conns /\ hand[s] \in open /\ hand[s] \notin served
    BY <1>9 DEF AddProcessor
  <2>2. /\ hand' = [hand EXCEPT ![s] = None] /\ open' = open /\ backlog' = backlog
        /\ served' \subseteq served \cup {hand[s]}
    BY <1>9 DEF AddProcessor
  <2>3. ServerTypeOK'
    <3>1. (served \subseteq open \cap Conns)'
      BY <2>1, <2>2
    <3>2. (place \in [Servers -> Places])' /\ (handlerRuns \in BOOLEAN)'
      BY <1>9 DEF AddProcessor
    <3>3. (hand \in [Servers -> Conns \cup {None}])'
      BY <2>2
    <3>4. QED
      BY <1>9, <3>1, <3>2, <3>3 DEF AddProcessor
  <2>4. HandAtAdd' /\ ThreadsOfMade'
    BY <1>9, <2>2 DEF AddProcessor
  <2>5. \A r \in Servers : hand'[r] # None => hand'[r] = hand[r] /\ hand[r] # hand[s]
    BY <2>1, <2>2
  <2>6. InHand' \subseteq InHand \ {hand[s]}
    BY <2>5
  <2>7. ConnectionsApart'
    BY <2>2, <2>5, <2>6
  <2>8. QED
    BY <1>9, <2>3, <2>4, <2>7 DEF AddProcessor
<1>10. ASSUME NEW s \in Servers, NEW c \in Conns, Accept(s, c) PROVE ConnectionsInv'
  BY <1>10 DEF Accept, Returned, ReleaseSocket, Waiting
<1>11. ASSUME NEW s \in Servers, NetworkError(s) \/ GiveUp(s) PROVE ConnectionsInv'
  BY <1>11 DEF NetworkError, GiveUp, Returned, ReleaseSocket
<1>12. ASSUME NEW c \in Conns, NEW s \in Servers, Connect(c, s) PROVE ConnectionsInv'
  BY <1>12 DEF Connect
<1>13. ASSUME NEW c \in Conns, Leave(c) PROVE ConnectionsInv'
  BY <1>13 DEF Leave
<1>14. CASE UNCHANGED vars
  BY <1>14 DEF vars
<1>15. QED
  BY <1>1, <1>2, <1>3, <1>4, <1>5, <1>6, <1>7, <1>8, <1>9, <1>10, <1>11, <1>12, <1>13, <1>14
     DEF Next, ServerWork
-----------------------------------------------------------------------------
(* The ports: who keeps a listening socket, and what follows from it.       *)

PortInv ==
    /\ OnlyServerOpen /\ SocketKept /\ SocketHolder
    /\ TestersPast /\ TestersFindServer /\ ServedHere

LEMMA InitPort == Init => PortInv
BY ServerAssumption
   DEF Init, PortInv, OnlyServerOpen, SocketKept, SocketHolder, TestersPast,
       TestersFindServer, ServedHere

LEMMA NextPort ==
    ASSUME ConnectionsInv, PortInv, [Next]_vars
    PROVE  PortInv'
<1> USE ServerAssumption
        DEF ConnectionsInv, ServerTypeOK, ThreadsOfMade, PortInv, OnlyServerOpen, SocketKept,
            SocketHolder, TestersPast, TestersFindServer, ServedHere, Places, Ends, Step,
            nativeVars, threadVars, kernelVars, clientVars, Undefined, Orphans
<1>1. ASSUME NEW s \in Servers, CreateNative(s) PROVE PortInv'
  BY <1>1 DEF CreateNative
<1>2. CASE DeleteNative
  BY <1>2 DEF DeleteNative, Closed, ReleaseSocket
<1>3. CASE DeleteEnds
  BY <1>3 DEF DeleteEnds
<1>4. ASSUME NEW s \in Servers, OpenSocket(s) PROVE PortInv'
  BY <1>4 DEF OpenSocket
<1>5. ASSUME NEW s \in Servers, Bind(s) PROVE PortInv'
  BY <1>5 DEF Bind
<1>6. ASSUME NEW s \in Servers, Listen(s) PROVE PortInv'
  BY <1>6 DEF Listen
<1>7. ASSUME NEW s \in Servers, CannotStart(s) PROVE PortInv'
  BY <1>7 DEF CannotStart, Goes
<1>8. ASSUME NEW s \in Servers, Check(s) PROVE PortInv'
  BY <1>8 DEF Check, Goes
<1>9. ASSUME NEW s \in Servers, CallAccept(s) PROVE PortInv'
  BY <1>9 DEF CallAccept, Goes
<1>10. ASSUME NEW s \in Servers, Wake(s) PROVE PortInv'
  BY <1>10 DEF Wake, Goes
<1>11. ASSUME NEW s \in Servers, AddProcessor(s) PROVE PortInv'
  <2>1. s = server
    BY <1>11 DEF AddProcessor
  <2>2. ServedHere'
    BY <1>11, <2>1 DEF AddProcessor
  <2>3. QED
    BY <1>11, <2>2 DEF AddProcessor
<1>12. ASSUME NEW s \in Servers, NEW c \in Conns, Accept(s, c) PROVE PortInv'
  BY <1>12 DEF Accept, Returned, ReleaseSocket
<1>13. ASSUME NEW s \in Servers, NetworkError(s) \/ GiveUp(s) PROVE PortInv'
  BY <1>13 DEF NetworkError, GiveUp, Returned, ReleaseSocket
<1>14. ASSUME NEW c \in Conns, NEW s \in Servers, Connect(c, s) PROVE PortInv'
  BY <1>14 DEF Connect
<1>15. ASSUME NEW c \in Conns, Leave(c) PROVE PortInv'
  BY <1>15 DEF Leave
<1>16. CASE UNCHANGED vars
  BY <1>16 DEF vars
<1>17. QED
  BY <1>1, <1>2, <1>3, <1>4, <1>5, <1>6, <1>7, <1>8, <1>9, <1>10, <1>11, <1>12, <1>13, <1>14, <1>15, <1>16
     DEF Next, ServerWork
-----------------------------------------------------------------------------
(* The descriptors: the registry bounds how many clients are served, and what
   else is open when accept() finds no descriptor has been refused.         *)

RegistryBound == Cardinality(served) <= MaxClients

LEMMA ServedFinite ==
    ASSUME ServerTypeOK
    PROVE  IsFiniteSet(served)
BY ServerAssumption, FS_Subset DEF ServerTypeOK

LEMMA InitBound == Init => RegistryBound
BY FS_EmptySet, ServerAssumption DEF Init, RegistryBound

LEMMA NextBound ==
    ASSUME ServerTypeOK, RegistryBound, [Next]_vars
    PROVE  RegistryBound'
<1>1. IsFiniteSet(served) /\ Cardinality(served) \in Nat
  BY ServedFinite, FS_CardinalityType
<1>2. ASSUME NEW s \in Servers, AddProcessor(s) PROVE RegistryBound'
  <2>1. CASE Cardinality(served) < MaxClients /\ served' = served \cup {hand[s]}
    <3>1. Cardinality(served \cup {hand[s]}) <= Cardinality(served) + 1
      BY <1>1, FS_AddElement
    <3>2. Cardinality(served \cup {hand[s]}) \in Nat
      BY <1>1, FS_AddElement, FS_CardinalityType
    <3>3. QED
      BY <1>1, <2>1, <3>1, <3>2, ServerAssumption DEF RegistryBound
  <2>2. CASE served' = served
    BY <2>2 DEF RegistryBound
  <2>3. QED
    BY <1>2, <2>1, <2>2 DEF AddProcessor
<1>3. ASSUME NEW c \in Conns, Leave(c) PROVE RegistryBound'
  <2>1. served' = served \ {c} /\ c \in served
    BY <1>3 DEF Leave
  <2>2. Cardinality(served \ {c}) = Cardinality(served) - 1
    BY <1>1, <2>1, FS_RemoveElement
  <2>3. QED
    BY <1>1, <2>1, <2>2, ServerAssumption DEF RegistryBound
<1>4. CASE served' = served
  BY <1>4 DEF RegistryBound
<1>5. QED
  BY <1>2, <1>3, <1>4
     DEF Next, ServerWork, vars, clientVars, CreateNative, DeleteNative, DeleteEnds, OpenSocket,
         Bind, Listen, CannotStart, Goes, Check, CallAccept, Wake, Accept, NetworkError, GiveUp,
         Connect

(* Nobody has a connection in his hands while the thread of the server, the
   only one that may go on, is elsewhere. *)
LEMMA HandsEmpty ==
    ASSUME ConnectionsInv, OnlyServerOpen, ~Undefined,
           NEW s \in Servers, s \in open, place[s] # "add"
    PROVE  InHand = {}
<1> SUFFICES ASSUME NEW r \in Servers, hand[r] # None
             PROVE  FALSE
  BY DEF InHand
<1>1. place[r] = "add" /\ r \in made
  BY DEF ConnectionsInv, HandAtAdd, ThreadsOfMade
<1>2. r # s /\ s = server
  BY <1>1 DEF OnlyServerOpen
<1>3. QED
  BY <1>1, <1>2 DEF Undefined, Orphans, Ends

LEMMA LeaksOnly ==
    ASSUME ConnectionsInv, PortInv, RegistryBound, NEW s \in Servers,
           ~Undefined, s \in open, place[s] = "call", FreeFds <= 0
    PROVE  Cardinality(Refused) + Cardinality(Blocked) >= MaxFds - MaxClients - 1
<1>1. /\ IsFiniteSet(served) /\ Cardinality(served) \in Nat
  BY ServedFinite, FS_CardinalityType DEF ConnectionsInv
<1>2. /\ IsFiniteSet(Refused) /\ Cardinality(Refused) \in Nat
  BY ServerAssumption, FS_Subset, FS_CardinalityType DEF Refused
<1>3. Cardinality(Blocked) \in Nat
  BY ServerAssumption, FS_Subset, FS_CardinalityType DEF Blocked
<1>4. open = (served \cup Refused) \cup {s} /\ served \cap Refused = {}
  BY HandsEmpty DEF ConnectionsInv, ServerTypeOK, PortInv, OnlyServerOpen, Refused
<1>5. DEFINE Both == served \cup Refused
<1>6. IsFiniteSet(Both) /\ Cardinality(Both) = Cardinality(served) + Cardinality(Refused)
  <2>1. Cardinality(served \cap Refused) = 0
    BY <1>4, FS_EmptySet
  <2>2. /\ IsFiniteSet(Both)
        /\ Cardinality(Both) =
              Cardinality(served) + Cardinality(Refused) - Cardinality(served \cap Refused)
    BY <1>1, <1>2, FS_Union, Zenon
  <2>3. QED
    BY <1>1, <1>2, <2>1, <2>2
<1>7. /\ Cardinality(open) \in Nat
      /\ Cardinality(open) <= Cardinality(served) + Cardinality(Refused) + 1
  <2>1. Cardinality(Both \cup {s}) = IF s \in Both THEN Cardinality(Both) ELSE Cardinality(Both) + 1
    BY <1>6, FS_AddElement, Zenon
  <2>2. IsFiniteSet(Both \cup {s}) /\ open = Both \cup {s}
    BY <1>4, <1>6, FS_AddElement
  <2>3. Cardinality(open) \in Nat
    BY <2>2, FS_CardinalityType, Zenon
  <2>4. QED
    BY <1>1, <1>2, <1>6, <2>1, <2>2, <2>3
<1>8. QED
  BY <1>1, <1>2, <1>3, <1>7, ServerAssumption DEF RegistryBound, FreeFds

LEMMA NextExhausts ==
    ASSUME ConnectionsInv, PortInv, RegistryBound, [Next]_vars,
           NEW s \in Servers, place[s] = "call", place'[s] = "exhausted"
    PROVE  ~Undefined /\ s \in open /\ FreeFds <= 0
<1> USE DEF ConnectionsInv, ServerTypeOK, Step, nativeVars, threadVars, kernelVars, clientVars
<1>1. ASSUME NEW r \in Servers, CallAccept(r) PROVE ~Undefined /\ s \in open /\ FreeFds <= 0
  BY <1>1 DEF CallAccept, Goes
<1>2. ASSUME NEW r \in Servers,
             \/ CreateNative(r) \/ OpenSocket(r) \/ Bind(r) \/ Listen(r) \/ Check(r)
             \/ CannotStart(r) \/ Wake(r) \/ AddProcessor(r) \/ NetworkError(r) \/ GiveUp(r)
             \/ \E c \in Conns : Accept(r, c)
      PROVE  FALSE
  BY <1>2 DEF CreateNative, OpenSocket, Bind, Listen, Check, CannotStart, Goes, Wake,
              AddProcessor, NetworkError, GiveUp, Accept
<1>3. CASE UNCHANGED place
  BY <1>3
<1>4. QED
  BY <1>1, <1>2, <1>3 DEF Next, ServerWork, vars, DeleteNative, DeleteEnds, Connect, Leave

(* The step that finds the port taken, and whose sockets can have it. *)
Finds(s) == /\ ~Undefined /\ s \in open /\ InUse(s)

LEMMA NextFinds ==
    ASSUME ConnectionsInv, [Next]_vars,
           NEW s \in Servers, place[s] = "bind", place'[s] = "inUse"
    PROVE  Finds(s)
<1> USE DEF ConnectionsInv, ServerTypeOK, Step, nativeVars, threadVars, kernelVars, clientVars
<1>1. ASSUME NEW r \in Servers, CannotStart(r) PROVE Finds(s)
  BY <1>1 DEF CannotStart, Goes, Finds
<1>2. ASSUME NEW r \in Servers,
             \/ CreateNative(r) \/ OpenSocket(r) \/ Bind(r) \/ Listen(r) \/ Check(r)
             \/ CallAccept(r) \/ Wake(r) \/ AddProcessor(r) \/ NetworkError(r) \/ GiveUp(r)
             \/ \E c \in Conns : Accept(r, c)
      PROVE  FALSE
  BY <1>2 DEF CreateNative, OpenSocket, Bind, Listen, Check, CallAccept, Goes, Wake,
              AddProcessor, NetworkError, GiveUp, Accept
<1>3. CASE UNCHANGED place
  BY <1>3
<1>4. QED
  BY <1>1, <1>2, <1>3 DEF Next, ServerWork, vars, DeleteNative, DeleteEnds, Connect, Leave

LEMMA LeftoversOnly ==
    ASSUME ConnectionsInv, PortInv, NEW s \in Servers, place[s] = "bind", Finds(s)
    PROVE  \/ \E r \in Orphans : place[r] = "accept" /\ port[r] = port[s]
           \/ Through(s) \cap Refused # {}
<1>1. s = server /\ s \in open /\ ~Undefined
  BY DEF Finds, PortInv, OnlyServerOpen
<1>2. ASSUME NEW r \in Servers, socket[r] # "none", port[r] = port[s]
      PROVE  r \in Orphans /\ place[r] = "accept"
  <2>1. r # s
    BY <1>2 DEF PortInv, SocketHolder
  <2>2. place[r] = "accept"
    BY <1>1, <1>2, <2>1 DEF PortInv, SocketHolder, OnlyServerOpen
  <2>3. QED
    BY <1>1, <2>1, <2>2 DEF ConnectionsInv, ThreadsOfMade, Orphans
<1>3. Through(s) \subseteq Refused
  <2>1. InHand = {}
    BY <1>1, HandsEmpty DEF PortInv
  <2>2. served = {}
    BY <1>1 DEF PortInv, ServedHere
  <2>3. QED
    BY <2>1, <2>2 DEF Through, Refused
<1>4. QED
  BY <1>2, <1>3 DEF Finds, InUse

-----------------------------------------------------------------------------
(* The theorems.                                                            *)

LEMMA ConnectionsInvariant == Spec => []ConnectionsInv
BY InitConnections, NextConnections, PTL DEF Spec

LEMMA PortInvariant == Spec => []PortInv
BY InitPort, NextPort, ConnectionsInvariant, PTL DEF Spec

LEMMA BoundInvariant == Spec => []RegistryBound
<1>1. ConnectionsInv => ServerTypeOK
  BY DEF ConnectionsInv
<1>2. QED
  BY <1>1, InitBound, NextBound, ConnectionsInvariant, PTL DEF Spec

(* Type correctness: in particular only open connections are served, and test
   clients are started only for servers that were made. *)
THEOREM ServerTypeCorrect == Spec => []ServerTypeOK
<1>1. ConnectionsInv => ServerTypeOK
  BY DEF ConnectionsInv
<1>2. QED
  BY <1>1, ConnectionsInvariant, PTL

(* The server whose afterCreated->start() has been called has a socket that
   listens, until deleteNative() closes it. *)
THEOREM TestersAlwaysFindServer == Spec => []TestersFindServer
<1>1. PortInv => TestersFindServer
  BY DEF PortInv
<1>2. QED
  BY <1>1, PortInvariant, PTL

(* When bind() finds the port taken by a socket of the process, that is one on
   which a thread of an earlier server waits in accept(), or the one of a client
   that addProcessor() has refused. *)
THEOREM OnlyLeftoversKeepPort == Spec => PortTakenByLeftovers
<1> DEFINE Left == \A s \in Servers : place[s] = "bind" /\ place'[s] = "inUse" =>
               \/ \E r \in Orphans : place[r] = "accept" /\ port[r] = port[s]
               \/ Through(s) \cap Refused # {}
<1>1. ASSUME ConnectionsInv, PortInv, [Next]_vars
      PROVE  [Left]_vars
  BY <1>1, NextFinds, LeftoversOnly
<1>2. QED
  BY <1>1, ConnectionsInvariant, PortInvariant, PTL DEF Spec, PortTakenByLeftovers

(* accept() returns EMFILE, which ends serverWork(), only when the sockets that
   addProcessor() refused and the threads left in accept() leave no more than
   the registry can use. *)
THEOREM ServedNeverExhaust == Spec => OnlyLeaksExhaust
<1> DEFINE Leaked == \A s \in Servers : place[s] = "call" /\ place'[s] = "exhausted" =>
               Cardinality(Refused) + Cardinality(Blocked) >= MaxFds - MaxClients - 1
<1>1. ASSUME ConnectionsInv, PortInv, RegistryBound, [Next]_vars
      PROVE  [Leaked]_vars
  BY <1>1, NextExhausts, LeaksOnly
<1>2. QED
  BY <1>1, ConnectionsInvariant, PortInvariant, BoundInvariant, PTL DEF Spec, OnlyLeaksExhaust
=============================================================================
