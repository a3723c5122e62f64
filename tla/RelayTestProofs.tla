--------------------------- MODULE RelayTestProofs ---------------------------
(***************************************************************************)
(* Proofs about RelayTest, for any number of clients, connections and      *)
(* workers, any work of the driver and any length of the frames.           *)
(*                                                                         *)
(* RelayTest is RelayStorage with the choices left to its clients settled: *)
(* whatever its driver does, the server takes steps of RelayStorage.  So   *)
(* all that is proved about the storage holds in the test, too.            *)
(*                                                                         *)
(* What the test says about its own clients rests on there being at most   *)
(* one frame on its way to a client, either its welcome or the message     *)
(* that the driver waits for (Expected), and on every place where a frame  *)
(* can be, the wire, a thread's hands or a queue, having only such frames. *)
(***************************************************************************)
EXTENDS RelayTest, RelayStorageProofs

LEMMA TestStep == TestNext => Next \/ UNCHANGED vars
<1>1. Driver => UNCHANGED vars
  BY DEF Driver
<1>2. AcceptClient \/ WelcomeClient \/ HandOverClient => Next
  BY DEF AcceptClient, WelcomeClient, HandOverClient, Next
<1>3. ASSUME NEW t \in Workers, NEW c \in Conns, StartCall(t, c) PROVE Next
  BY <1>3 DEF StartCall, Next, Starting
<1>4. ASSUME NEW t \in Threads, Call(t) PROVE Next
  <2>1. Running(t)
    BY <1>4 DEF Call, ReadSome, TakeFrame, Deliver, GoOn, Running, Receive, Relay
  <2>2. QED
    BY <2>1 DEF Next
<1>5. QED
  BY <1>1, <1>2, <1>3, <1>4 DEF TestNext

(* Every behaviour of the communication test is one of the server's storage. *)
THEOREM TestRunsStorage == TestSpec => Spec
<1>1. TestInit => Init
  BY DEF TestInit
<1>2. [TestNext]_allVars => [Next]_vars
  <2>1. UNCHANGED allVars => UNCHANGED vars
    BY DEF allVars
  <2>2. QED
    BY <2>1, TestStep
<1>3. QED
  BY <1>1, <1>2, PTL DEF TestSpec, Spec

(* In particular no client that a relay of the test has found is freed while it
   is used, though clients reconnect in between. *)
THEOREM TestClientsArePinned == TestSpec => []PinnedWhileUsed
BY TestRunsStorage, ClientsArePinned, PTL

-----------------------------------------------------------------------------
(* The inductive invariant.                                                 *)

From == socketID[pair[1]]
To == socketID[pair[2]]
Text == turn * Times + left

Wires == [unread : 0 .. Length + 1, to : Conns \cup {NoConn}, text : Nat]
Frames == [id : Conns \cup {NoConn}, text : Nat]

TestTypes ==
    /\ TestTypeOK
    /\ wire \in [Conns -> Wires]
    /\ inbox \in [Conns -> Seq(Frames)]
    /\ content \in [Conns -> Frames]
    /\ where \in {"send", "receive"} => left \in 1 .. Times
    /\ where = "receive" => pair \in Clients \X Clients
    /\ where \notin {"stop", "done"} => turn <= Len(Work)

(* A client that has not been started, one that waits for its welcome, and one
   that has it. *)
Apart(k) == socketID[k] = NoConn /\ clientID[k] = NoConn
New(k) == socketID[k] # NoConn /\ clientID[k] = NoConn
Greeted(k) == socketID[k] # NoConn /\ clientID[k] = socketID[k]

(* How far the loops of the driver have come. *)
ClientsFollow ==
    \A k \in Clients :
        /\ where = "start" =>
              IF k \in todo THEN Apart(k) ELSE IF k \in picked THEN New(k) ELSE Greeted(k)
        /\ where = "greet" => IF k \in todo THEN New(k) ELSE Greeted(k)
        /\ where \in {"work", "send", "receive"} => Greeted(k)
        /\ where = "stop" => IF k \in picked \ todo THEN Apart(k) ELSE Greeted(k)
        /\ where = "done" => Apart(k) \/ Greeted(k)

Ungreeted(c) == \E k \in Clients : socketID[k] = c /\ clientID[k] = NoConn

(* The two ends of a connection.  One that the server does not know yet is
   untouched, and the server closes one only after its client has. *)
EndsAgree ==
    /\ \A k \in Clients : socketID[k] # NoConn => link[socketID[k]] = "open"
    /\ \A k, l \in Clients : socketID[k] = socketID[l] /\ socketID[k] # NoConn => k = l
    /\ \A c \in Conns :
        /\ link[c] = "none" => phase[c] = "unborn"
        /\ phase[c] = "unborn" =>
            /\ inbox[c] = <<>> /\ currentBuffer[c] = NoConn
            /\ link[c] = "none" \/ Ungreeted(c)
        /\ phase[c] = "closed" => link[c] = "closed"
        /\ phase[c] # "cleaned"
    /\ \A t \in Threads :
        pc[t] \in {"erase", "retire", "deleteProcessor"} => link[conn[t]] = "closed"

(* What has arrived is the welcome of a client that waits for it, or the message
   that the driver waits for. *)
Arrived ==
    \A c \in Conns : inbox[c] # <<>> =>
        \/ Ungreeted(c) /\ inbox[c] = <<Greeting(c)>>
        \/ where = "receive" /\ c = To /\ inbox[c] = <<Message(Text)>>

(* The frame f may be on its way from the connection b to x. *)
Expected(b, x, f) ==
    /\ x \in Conns /\ inbox[x] = <<>>
    /\ \/ b = x /\ Ungreeted(x) /\ f = Greeting(x)
       \/ where = "receive" /\ b = From /\ x = To /\ f = Message(Text)

(* Where it can be: not all read yet, in the hands of a thread, or in a queue. *)
OnWire(c) == wire[c].unread > 0 \/ state[c] = "READ_DATA"
Queued(x) == currentBuffer[x] # NoConn /\ \A t \in Threads : spot[t] = x => pc[t] # "wrote"
Linking == {"consume", "find", "lockInfo", "addDibb"}
Linked == {"setLength", "setNext", "trySend", "write"}

WiresExpected ==
    \A c \in Conns : OnWire(c) =>
        /\ Expected(c, wire[c].to, Message(wire[c].text))
        /\ ~Queued(wire[c].to)

HandsExpected ==
    \A t \in Threads :
        /\ pc[t] = "construct" =>
            /\ t = Acceptor
            /\ Expected(conn[t], conn[t], Greeting(conn[t]))
            /\ currentBuffer[conn[t]] = NoConn
        /\ pc[t] \in Linking \cup Linked =>
            /\ Expected(conn[t], spot[t], content[conn[t]])
            /\ ~OnWire(conn[t])
        /\ pc[t] \in Linking => ~Queued(spot[t])
        /\ pc[t] \in Linked \cup {"wrote"} => currentBuffer[spot[t]] = conn[t]

QueuesExpected ==
    \A x \in Conns :
        /\ next[x] = NoConn
        /\ Queued(x) => Expected(currentBuffer[x], x, content[currentBuffer[x]])

(* What the processor has counted is what is on the wire. *)
Counted(c) ==
    /\ state[c] # "READ_DATA" => wire[c].unread \in {0, Length + 1}
    /\ state[c] = "PROCESS_DATA" => \E t \in Threads : conn[t] = c
    /\ state[c] = "READ_DATA" =>
        /\ objLen[c] = Length
        /\ bytesToRead[c] \in 1 .. Length
        /\ \/ wire[c].unread = bytesToRead[c]
           \/ \E t \in Threads : conn[t] = c /\ pc[t] = "afterRead"
    /\ phase[c] \in {"unborn", "accepted"} => state[c] = "READ_LEN"

BytesCounted == \A c \in Conns : Counted(c)

(* What a thread knows about its processor at each place. *)
CallsAgree ==
    \A t \in Threads :
        /\ pc[t] \in {"readData", "afterRead"} => state[conn[t]] = "READ_DATA"
        /\ pc[t] = "afterRead" =>
            /\ result[t] \in 1 .. bytesToRead[conn[t]]
            /\ wire[conn[t]].unread = bytesToRead[conn[t]] - result[t]
        /\ pc[t] = "compare" =>
            \/ state[conn[t]] = "READ_DATA" /\ result[t] \in 1 .. Length - 1
            \/ state[conn[t]] = "PROCESS_DATA" /\ result[t] = objLen[conn[t]]
        /\ pc[t] \in {"erase", "retire", "deleteProcessor"} => state[conn[t]] = "READ_LEN"
        /\ pc[t] = "consume" =>
            t # Acceptor /\ objLen[conn[t]] = Length /\ result[t] = Length
        /\ t # Acceptor /\ pc[t] \in (Using \cup {"consume", "find", "unlockFreed", "return"})
            => state[conn[t]] = "PROCESS_DATA"
        /\ pc[t] \in Linking \cup Linked => objLen[conn[t]] > 0
        /\ pc[t] \in Linked \ {"setLength"} => bytesToRead[conn[t]] = objLen[conn[t]]
        /\ pc[t] = "wrote" => result[t] = bytesToRead[conn[t]]

(* The message that the driver waits for is somewhere. *)
Somewhere ==
    where = "receive" =>
        \/ inbox[To] # <<>> \/ OnWire(From)
        \/ \E t \in Threads : conn[t] = From /\ pc[t] \in Linking \cup Linked
        \/ currentBuffer[To] = From /\ Queued(To)

IInv ==
    /\ StorageInv /\ TestTypes /\ ClientsFollow /\ EndsAgree /\ Arrived
    /\ WiresExpected /\ HandsExpected /\ QueuesExpected
    /\ BytesCounted /\ CallsAgree /\ Somewhere

(* What the steps of the server leave alone. *)
USE DEF clientVars, driverVars, vars, processorVars, bufferVars, registryVars, infoVars, callVars,
        Step, Goto, Leave, Acquire, Unlock, Process, Greeting, Message

-----------------------------------------------------------------------------
(* What is expected.                                                        *)

LEMMA LengthType == Length \in Nat /\ Length > 2 /\ Times \in Nat
BY TestAssumption, StorageAssumption

(* Whoever has a socket has a connection, and the pair of a relay are such. *)
LEMMA Sockets ==
    ASSUME IInv
    PROVE  /\ \A k \in Clients : socketID[k] # NoConn => socketID[k] \in Conns
           /\ where = "receive" =>
                 /\ pair[1] \in Clients /\ pair[2] \in Clients
                 /\ From \in Conns /\ To \in Conns
                 /\ Greeted(pair[1]) /\ Greeted(pair[2])
           /\ where \in {"work", "send", "receive", "stop", "done"} =>
                 \A c \in Conns : ~Ungreeted(c)
           /\ Text \in Nat
<1> USE DEF IInv
<1>1. \A k \in Clients : socketID[k] \in Conns \cup {NoConn}
  BY DEF TestTypes, TestTypeOK
<1>2. where = "receive" => pair[1] \in Clients /\ pair[2] \in Clients
  BY DEF TestTypes
<1>3. where = "receive" => Greeted(pair[1]) /\ Greeted(pair[2])
  BY <1>2 DEF ClientsFollow
<1>4. where \in {"work", "send", "receive", "stop", "done"} =>
                 \A c \in Conns : ~Ungreeted(c)
  BY StorageAssumption DEF ClientsFollow, Ungreeted, Greeted, Apart
<1>5. Text \in Nat
  <2>1. turn \in Nat /\ left \in Nat
    BY LengthType DEF TestTypes, TestTypeOK
  <2>2. \A i, j, k \in Nat : i * j + k \in Nat
    OBVIOUS
  <2>3. QED
    BY <2>1, <2>2, LengthType DEF Text
<1>6. QED
  BY <1>1, <1>2, <1>3, <1>4, <1>5 DEF From, To, Greeted

(* Only one frame is expected for a client, and only one from a connection. *)
LEMMA ExpectedOnce ==
    ASSUME IInv, NEW b, NEW x, NEW f, Expected(b, x, f)
    PROVE  /\ b \in Conns /\ x \in Conns /\ f \in Frames
           /\ link[b] = "open" /\ link[x] = "open"
           /\ inbox[x] = <<>>
           /\ where \in {"start", "greet", "receive"}
           /\ \A c, y, g : Expected(c, y, g) =>
                 /\ c = b <=> y = x
                 /\ c = b => g = f
<1> USE DEF IInv
<1>1. CASE b = x /\ Ungreeted(x) /\ f = Greeting(x)
  <2>1. where \in {"start", "greet"}
    BY <1>1, Sockets DEF Expected, TestTypes, TestTypeOK
  <2>2. x \in Conns /\ f \in Frames /\ inbox[x] = <<>>
    BY <1>1 DEF Expected, Frames
  <2>3. link[x] = "open"
    BY <1>1, <2>2, StorageAssumption DEF Ungreeted, EndsAgree
  <2>4. QED
    BY <1>1, <2>1, <2>2, <2>3 DEF Expected
<1>2. CASE where = "receive" /\ b = From /\ x = To /\ f = Message(Text)
  <2>1. \A c \in Conns : ~Ungreeted(c)
    BY <1>2, Sockets
  <2>2. b \in Conns /\ x \in Conns /\ f \in Frames /\ inbox[x] = <<>>
    BY <1>2, Sockets DEF Expected, Frames
  <2>3. link[b] = "open" /\ link[x] = "open"
    BY <1>2, Sockets DEF EndsAgree, Greeted, From, To
  <2>4. QED
    BY <1>2, <2>1, <2>2, <2>3 DEF Expected
<1>3. QED
  BY <1>1, <1>2 DEF Expected

(* A frame is in one place only. *)
LEMMA OnePlace ==
    ASSUME IInv
    PROVE  /\ \A c, x \in Conns : OnWire(c) /\ Queued(x) => currentBuffer[x] # c
           /\ \A t \in Threads, x \in Conns :
                 pc[t] \in Linking \cup {"construct"} /\ Queued(x) => currentBuffer[x] # conn[t]
           /\ \A t \in Threads, x \in Conns :
                 pc[t] \in Linked /\ Queued(x) /\ currentBuffer[x] = conn[t] => x = spot[t]
<1> USE DEF IInv
<1>1. ASSUME NEW c \in Conns, NEW x \in Conns, OnWire(c), Queued(x), currentBuffer[x] = c
      PROVE  FALSE
  <2>1. Expected(c, wire[c].to, Message(wire[c].text)) /\ ~Queued(wire[c].to)
    BY <1>1 DEF WiresExpected
  <2>2. Expected(c, x, content[c])
    BY <1>1 DEF QueuesExpected
  <2>3. QED
    BY <1>1, <2>1, <2>2, ExpectedOnce
<1>2. ASSUME NEW t \in Threads, NEW x \in Conns, pc[t] \in Linking \cup {"construct"},
             Queued(x), currentBuffer[x] = conn[t]
      PROVE  FALSE
  <2>1. Expected(conn[t], x, content[conn[t]])
    BY <1>2 DEF QueuesExpected
  <2>2. CASE pc[t] = "construct"
    <3>1. Expected(conn[t], conn[t], Greeting(conn[t])) /\ currentBuffer[conn[t]] = NoConn
      BY <2>2 DEF HandsExpected
    <3>2. x = conn[t]
      BY <2>1, <3>1, ExpectedOnce
    <3>3. QED
      BY <1>2, <3>1, <3>2 DEF Queued
  <2>3. CASE pc[t] \in Linking
    <3>1. Expected(conn[t], spot[t], content[conn[t]]) /\ ~Queued(spot[t])
      BY <2>3 DEF HandsExpected
    <3>2. QED
      BY <1>2, <2>1, <3>1, ExpectedOnce
  <2>4. QED
    BY <1>2, <2>2, <2>3
<1>3. ASSUME NEW t \in Threads, NEW x \in Conns, pc[t] \in Linked,
             Queued(x), currentBuffer[x] = conn[t]
      PROVE  x = spot[t]
  <2>1. Expected(conn[t], x, content[conn[t]])
    BY <1>3 DEF QueuesExpected
  <2>2. Expected(conn[t], spot[t], content[conn[t]])
    BY <1>3 DEF HandsExpected
  <2>3. QED
    BY <2>1, <2>2, ExpectedOnce
<1>4. QED
  BY <1>1, <1>2, <1>3

-----------------------------------------------------------------------------
(* The steps of the driver, which leave the server alone.                   *)

(* What is expected stays so until it has arrived. *)
LEMMA DriverExpects ==
    ASSUME IInv, Driver, NEW b, NEW x, NEW f, Expected(b, x, f)
    PROVE  Expected(b, x, f)'
<1> USE DEF IInv
<1>1. where \in {"start", "greet", "receive"}
  BY ExpectedOnce
<1>2. ASSUME NEW k \in Clients, StartClient(k) PROVE Expected(b, x, f)'
  <2>1. b = x /\ Ungreeted(x) /\ x \in Conns /\ inbox[x] = <<>> /\ f = Greeting(x)
    BY <1>2 DEF StartClient, Loop, Expected
  <2>2. PICK l \in Clients : socketID[l] = x /\ clientID[l] = NoConn
    BY <2>1 DEF Ungreeted
  <2>3. l # k
    BY <1>2, <2>1, <2>2, StorageAssumption DEF StartClient, Loop, ClientsFollow, Apart
  <2>4. socketID'[l] = x /\ clientID' = clientID /\ inbox' = inbox
    BY <1>2, <2>2, <2>3 DEF StartClient, TestTypes, TestTypeOK
  <2>5. QED
    BY <2>1, <2>2, <2>4 DEF Expected, Ungreeted
<1>3. ASSUME NEW k \in Clients, Greet(k) PROVE Expected(b, x, f)'
  <2>1. b = x /\ Ungreeted(x) /\ x \in Conns /\ inbox[x] = <<>> /\ f = Greeting(x)
    BY <1>3 DEF Greet, Loop, Expected
  <2>2. PICK l \in Clients : socketID[l] = x /\ clientID[l] = NoConn
    BY <2>1 DEF Ungreeted
  <2>3. clientID'[l] = clientID[l] /\ inbox'[x] = inbox[x] /\ socketID' = socketID
    BY <1>3, <2>1, <2>2 DEF Greet, TestTypes, TestTypeOK
  <2>4. QED
    BY <2>1, <2>2, <2>3 DEF Expected, Ungreeted
<1>4. ASSUME ReceiveRelayed PROVE FALSE
  <2>1. where = "receive" /\ inbox[To] # <<>>
    BY <1>4 DEF ReceiveRelayed, To
  <2>2. QED
    BY <2>1, Sockets DEF Expected
<1>5. ASSUME NEW k \in Clients, StopClient(k) PROVE FALSE
  BY <1>1, <1>5 DEF StopClient, Loop
<1>6. ASSUME NextWork PROVE FALSE
  BY <1>1, <1>6 DEF NextWork
<1>7. ASSUME NEW from \in Clients, NEW to \in Clients, Send(from, to) PROVE FALSE
  BY <1>1, <1>7 DEF Send
<1>8. QED
  BY <1>2, <1>3, <1>4, <1>5, <1>6, <1>7 DEF Driver

LEMMA HeadAndTail ==
    \A s \in Seq(Frames) : s # <<>> => Head(s) \in Frames /\ Tail(s) \in Seq(Frames)
OBVIOUS

LEMMA DriverTypes ==
    ASSUME IInv, Driver
    PROVE  TestTypes'
<1> USE StorageAssumption, TestAssumption DEF IInv, TestTypes, TestTypeOK, Loop
<1>1. ASSUME NEW k \in Clients, StartClient(k) PROVE TestTypes'
  BY <1>1 DEF StartClient
<1>2. ASSUME NEW k \in Clients, Greet(k) PROVE TestTypes'
  <2>1. CASE clientID[k] = NoConn
    <3> DEFINE c == socketID[k]
    <3>1. c \in Conns /\ inbox[c] \in Seq(Frames) /\ inbox[c] # <<>>
      BY <1>2, <2>1 DEF Greet, ClientsFollow, New, Greeted
    <3>2. Head(inbox[c]) \in Frames /\ Tail(inbox[c]) \in Seq(Frames)
      BY <3>1, HeadAndTail
    <3>3. clientID' \in [Clients -> Conns \cup {NoConn}]
      BY <1>2, <2>1, <3>2 DEF Greet, Frames
    <3>4. inbox' \in [Conns -> Seq(Frames)]
      BY <1>2, <2>1, <3>2 DEF Greet
    <3>5. QED
      BY <1>2, <3>3, <3>4 DEF Greet
  <2>2. CASE clientID[k] # NoConn
    BY <1>2, <2>2 DEF Greet
  <2>3. QED
    BY <2>1, <2>2
<1>3. ASSUME NEW k \in Clients, StopClient(k) PROVE TestTypes'
  <2>1. /\ socketID' \in [Clients -> Conns \cup {NoConn}]
        /\ clientID' \in [Clients -> Conns \cup {NoConn}]
        /\ link' \in [Conns -> {"none", "open", "closed"}]
    BY <1>3 DEF StopClient
  <2>2. turn \in Nat /\ Len(Work) \in Nat /\ (where' \notin {"stop", "done"} => turn <= Len(Work))
    BY <1>3 DEF StopClient
  <2>3. todo' \subseteq picked
    BY <1>3 DEF StopClient
  <2>4. QED
    BY <1>3, <2>1, <2>2, <2>3 DEF StopClient
<1>4. ASSUME NextWork PROVE TestTypes'
  BY <1>4 DEF NextWork
<1>5. ASSUME NEW from \in Clients, NEW to \in Clients, Send(from, to) PROVE TestTypes'
  <2>1. socketID[from] \in Conns /\ clientID[to] \in Conns /\ Text \in Nat
    BY <1>5, Sockets DEF Send, ClientsFollow, Greeted
  <2>2. [unread |-> Length + 1, to |-> clientID[to], text |-> turn * Times + left]
          \in Wires
    BY <2>1 DEF Text, Wires
  <2>3. wire' \in [Conns -> Wires]
    BY <1>5, <2>1, <2>2 DEF Send
  <2>4. \A c \in Conns : wire'[c].unread \in 0 .. Length + 1 /\ wire'[c].to \in Conns \cup {NoConn}
    BY <2>3 DEF Wires
  <2>5. QED
    BY <1>5, <2>3, <2>4 DEF Send
<1>6. ASSUME ReceiveRelayed PROVE TestTypes'
  <2>1. To \in Conns /\ inbox[To] # <<>> /\ inbox[To] = <<Message(Text)>> /\ left \in 1 .. Times
    BY <1>6, Sockets DEF ReceiveRelayed, To, Arrived
  <2>2. left' = left - 1
    BY <1>6, <2>1 DEF ReceiveRelayed, To, Text
  <2>3. inbox' \in [Conns -> Seq(Frames)]
    BY <1>6, <2>1, HeadAndTail DEF ReceiveRelayed, To
  <2>4. QED
    BY <1>6, <2>1, <2>2, <2>3 DEF ReceiveRelayed
<1>7. QED
  BY <1>1, <1>2, <1>3, <1>4, <1>5, <1>6 DEF Driver

LEMMA DriverClients ==
    ASSUME IInv, Driver
    PROVE  ClientsFollow'
<1> USE StorageAssumption DEF IInv, TestTypes, TestTypeOK, Loop, ClientsFollow, Apart, New, Greeted
<1>1. ASSUME NEW k \in Clients, StartClient(k) PROVE ClientsFollow'
  BY <1>1 DEF StartClient
<1>2. ASSUME NEW k \in Clients, Greet(k) PROVE ClientsFollow'
  <2>1. clientID[k] = NoConn => Head(inbox[socketID[k]]).id = socketID[k]
    BY <1>2 DEF Greet, Arrived
  <2>2. QED
    BY <1>2, <2>1 DEF Greet
<1>3. ASSUME NEW k \in Clients, StopClient(k) PROVE ClientsFollow'
  BY <1>3 DEF StopClient
<1>4. ASSUME NextWork PROVE ClientsFollow'
  BY <1>4 DEF NextWork
<1>5. ASSUME NEW from \in Clients, NEW to \in Clients, Send(from, to) PROVE ClientsFollow'
  BY <1>5 DEF Send
<1>6. ASSUME ReceiveRelayed PROVE ClientsFollow'
  BY <1>6 DEF ReceiveRelayed
<1>7. QED
  BY <1>1, <1>2, <1>3, <1>4, <1>5, <1>6 DEF Driver

LEMMA DriverEnds ==
    ASSUME IInv, Driver
    PROVE  EndsAgree'
<1> USE StorageAssumption DEF IInv, TestTypes, TestTypeOK, EndsAgree, Loop
<1> UNCHANGED vars
  BY DEF Driver
<1>1. ASSUME NEW k \in Clients, StartClient(k) PROVE EndsAgree'
  <2>1. socketID[k] = NoConn
    BY <1>1 DEF StartClient, ClientsFollow, Apart
  <2>2. \A c \in Conns : Ungreeted(c) => Ungreeted(c)'
    BY <1>1, <2>1 DEF StartClient, Ungreeted
  <2>3. PICK c \in Conns : /\ link[c] = "none" /\ link' = [link EXCEPT ![c] = "open"]
                           /\ socketID' = [socketID EXCEPT ![k] = c]
    BY <1>1 DEF StartClient
  <2>4. Ungreeted(c)'
    BY <1>1, <2>3 DEF StartClient, Ungreeted, ClientsFollow, Apart
  <2>5. QED
    BY <1>1, <2>2, <2>3, <2>4 DEF StartClient
<1>2. ASSUME NEW k \in Clients, Greet(k) PROVE EndsAgree'
  <2>1. socketID[k] \in Conns
    BY <1>2 DEF Greet, ClientsFollow, New, Greeted
  <2>2. \A c \in Conns : inbox[c] = <<>> => inbox'[c] = <<>> /\ (Ungreeted(c) => Ungreeted(c)')
    <3>1. ASSUME NEW c \in Conns, inbox[c] = <<>>
          PROVE  inbox'[c] = <<>> /\ (Ungreeted(c) => Ungreeted(c)')
      <4>1. inbox'[c] = <<>>
        BY <1>2, <2>1, <3>1 DEF Greet
      <4>2. \A l \in Clients : socketID[l] = c => clientID'[l] = clientID[l]
        BY <1>2, <3>1 DEF Greet
      <4>3. QED
        BY <1>2, <4>1, <4>2 DEF Greet, Ungreeted
    <3>2. QED
      BY <3>1
  <2>3. QED
    BY <1>2, <2>2 DEF Greet
<1>3. ASSUME NEW k \in Clients, StopClient(k) PROVE EndsAgree'
  <2>1. Greeted(k) /\ socketID[k] \in Conns
    BY <1>3 DEF StopClient, ClientsFollow, Greeted
  <2>2. \A c \in Conns : ~Ungreeted(c)
    BY <1>3, Sockets DEF StopClient
  <2>3. \A l \in Clients : socketID'[l] = IF l = k THEN NoConn ELSE socketID[l]
    BY <1>3 DEF StopClient
  <2>4. \A c \in Conns : link'[c] = IF c = socketID[k] THEN "closed" ELSE link[c]
    BY <1>3 DEF StopClient
  <2>5. inbox' = inbox
    BY <1>3 DEF StopClient
  <2>6. \A t \in Threads : pc[t] \in {"erase", "retire", "deleteProcessor"} => conn[t] \in Conns
    BY DEF StorageInv, OneThreadPerConnection, TypeOK
  <2>7. /\ phase' = phase /\ currentBuffer' = currentBuffer /\ pc' = pc /\ conn' = conn
    OBVIOUS
  <2>8. \A j, l \in Clients : socketID'[j] = socketID'[l] /\ socketID'[j] # NoConn => j = l
    BY <2>3
  <2>9. \A l \in Clients : socketID'[l] # NoConn => link'[socketID'[l]] = "open"
    BY <2>1, <2>3, <2>4
  <2>10. \A c \in Conns :
        /\ link'[c] = "none" => phase[c] = "unborn"
        /\ phase[c] = "unborn" => inbox[c] = <<>> /\ currentBuffer[c] = NoConn /\ link'[c] = "none"
        /\ phase[c] = "closed" => link'[c] = "closed"
        /\ phase[c] # "cleaned"
    BY <2>1, <2>2, <2>4 DEF Greeted
  <2>11. QED
    BY <2>4, <2>5, <2>6, <2>7, <2>8, <2>9, <2>10
<1>4. ASSUME NextWork PROVE EndsAgree'
  BY <1>4 DEF NextWork, Ungreeted
<1>5. ASSUME NEW from \in Clients, NEW to \in Clients, Send(from, to) PROVE EndsAgree'
  BY <1>5 DEF Send, Ungreeted
<1>6. ASSUME ReceiveRelayed PROVE EndsAgree'
  <2>1. To \in Conns /\ inbox[To] # <<>>
    BY <1>6, Sockets DEF ReceiveRelayed, To
  <2>2. \A c \in Conns : inbox[c] = <<>> => inbox'[c] = <<>>
    BY <1>6, <2>1 DEF ReceiveRelayed, To
  <2>3. QED
    BY <1>6, <2>2 DEF ReceiveRelayed, Ungreeted
<1>7. QED
  BY <1>1, <1>2, <1>3, <1>4, <1>5, <1>6 DEF Driver

LEMMA DriverArrived ==
    ASSUME IInv, Driver
    PROVE  Arrived'
<1> USE StorageAssumption DEF IInv, TestTypes, TestTypeOK, Arrived, Loop
<1>1. ASSUME NEW k \in Clients, StartClient(k) PROVE Arrived'
  <2>1. \A c \in Conns : Ungreeted(c) => Ungreeted(c)'
    BY <1>1 DEF StartClient, Ungreeted, ClientsFollow, Apart
  <2>2. QED
    BY <1>1, <2>1 DEF StartClient
<1>2. ASSUME NEW k \in Clients, Greet(k) PROVE Arrived'
  <2>1. socketID[k] \in Conns
    BY <1>2 DEF Greet, ClientsFollow, New, Greeted
  <2>2. clientID[k] = NoConn => inbox[socketID[k]] = <<Greeting(socketID[k])>>
    BY <1>2, <2>1 DEF Greet
  <2>3. clientID[k] = NoConn => inbox' = [inbox EXCEPT ![socketID[k]] = <<>>]
    BY <1>2, <2>1, <2>2 DEF Greet
  <2>4. \A c \in Conns : inbox'[c] # <<>> => inbox'[c] = inbox[c] /\ (Ungreeted(c) => Ungreeted(c)')
    <3>1. ASSUME NEW c \in Conns, inbox'[c] # <<>>, clientID[k] = NoConn
          PROVE  inbox'[c] = inbox[c] /\ (Ungreeted(c) => Ungreeted(c)')
      <4>1. c # socketID[k]
        BY <2>3, <3>1
      <4>2. QED
        BY <1>2, <2>3, <3>1, <4>1 DEF Greet, Ungreeted
    <3>2. ASSUME NEW c \in Conns, inbox'[c] # <<>>, clientID[k] # NoConn
          PROVE  inbox'[c] = inbox[c] /\ (Ungreeted(c) => Ungreeted(c)')
      BY <1>2, <3>2 DEF Greet, Ungreeted
    <3>3. QED
      BY <3>1, <3>2
  <2>5. QED
    BY <1>2, <2>4 DEF Greet
<1>3. ASSUME NEW k \in Clients, StopClient(k) PROVE Arrived'
  BY <1>3, Sockets DEF StopClient
<1>4. ASSUME NextWork PROVE Arrived'
  BY <1>4, Sockets DEF NextWork
<1>5. ASSUME NEW from \in Clients, NEW to \in Clients, Send(from, to) PROVE Arrived'
  BY <1>5, Sockets DEF Send
<1>6. ASSUME ReceiveRelayed PROVE Arrived'
  <2>1. To \in Conns /\ where = "receive" /\ inbox[To] = <<Message(Text)>>
    BY <1>6, Sockets DEF ReceiveRelayed, To
  <2>2. inbox' = [inbox EXCEPT ![To] = <<>>]
    BY <1>6, <2>1 DEF ReceiveRelayed, To
  <2>3. \A c \in Conns : inbox'[c] = <<>>
    BY <2>1, <2>2, Sockets
  <2>4. QED
    BY <2>3
<1>7. QED
  BY <1>1, <1>2, <1>3, <1>4, <1>5, <1>6 DEF Driver

(* A frame that is sent is the only one, and starts on the wire. *)
LEMMA SendStarts ==
    ASSUME IInv, NEW from \in Clients, NEW to \in Clients, Send(from, to), UNCHANGED vars
    PROVE  /\ \A c \in Conns : ~OnWire(c) /\ (OnWire(c)' => c = From')
           /\ \A t \in Threads : pc[t] \notin Linking \cup Linked \cup {"construct"}
           /\ \A x \in Conns : ~Queued(x)
           /\ From' \in Conns /\ wire'[From'].unread = Length + 1
           /\ Expected(From, wire[From].to, Message(wire[From].text))'
<1> USE StorageAssumption, TestAssumption DEF IInv
<1>1. where = "send" /\ \A b, x, f : ~Expected(b, x, f)
  BY ExpectedOnce DEF Send
<1>2. \A c \in Conns : ~OnWire(c)
  BY <1>1 DEF WiresExpected
<1>3. \A t \in Threads : pc[t] \notin Linking \cup Linked \cup {"construct"}
  BY <1>1 DEF HandsExpected
<1>4. \A x \in Conns : ~Queued(x)
  BY <1>1 DEF QueuesExpected
<1>5. /\ Greeted(from) /\ Greeted(to)
      /\ From' = socketID[from] /\ To' = socketID[to] /\ From' \in Conns /\ To' \in Conns
      /\ where' = "receive" /\ inbox' = inbox /\ Text' = turn * Times + left
  BY <1>1, Sockets DEF Send, ClientsFollow, Greeted, From, To, Text
<1>6. \A c \in Conns : wire'[c] =
         IF c = From' THEN [unread |-> Length + 1, to |-> To', text |-> Text'] ELSE wire[c]
  BY <1>5 DEF Send, TestTypes, Greeted
<1>7. \A c \in Conns : OnWire(c)' => c = From'
  BY <1>2, <1>6 DEF OnWire
<1>8. inbox[To'] = <<>>
  BY <1>1, <1>5, Sockets DEF Arrived
<1>9. Expected(From, wire[From].to, Message(wire[From].text))'
  BY <1>5, <1>6, <1>8 DEF Expected
<1>10. QED
  BY <1>2, <1>3, <1>4, <1>5, <1>6, <1>7, <1>9

LEMMA DriverFrames ==
    ASSUME IInv, Driver
    PROVE  /\ WiresExpected' /\ HandsExpected' /\ QueuesExpected'
           /\ BytesCounted' /\ CallsAgree' /\ Somewhere'
<1> USE DEF IInv
<1>1. UNCHANGED vars /\ \A x : Queued(x)' <=> Queued(x)
  BY DEF Driver, Queued
<1>2. ASSUME NEW from \in Clients, NEW to \in Clients, Send(from, to)
      PROVE  /\ WiresExpected' /\ HandsExpected' /\ QueuesExpected'
             /\ BytesCounted' /\ CallsAgree' /\ Somewhere'
  <2> USE <1>1, <1>2, SendStarts
  <2>1. WiresExpected'
    BY DEF WiresExpected, Expected
  <2>2. HandsExpected'
    BY DEF HandsExpected
  <2>3. QueuesExpected'
    BY DEF QueuesExpected
  <2>4. \A c \in Conns : c # From' => wire'[c] = wire[c]
    BY DEF Send, From, TestTypes
  <2>5. BytesCounted'
    BY <2>4 DEF BytesCounted, Counted, OnWire
  <2>6. CallsAgree'
    BY <2>4 DEF CallsAgree, OnWire, StorageInv, OneThreadPerConnection, TypeOK
  <2>7. Somewhere'
    <3>1. Length + 1 > 0
      BY TestAssumption, StorageAssumption
    <3>2. QED
      BY <3>1 DEF Somewhere, OnWire
  <2>8. QED
    BY <2>1, <2>2, <2>3, <2>5, <2>6, <2>7
<1>3. ASSUME ~\E from, to \in Clients : Send(from, to)
      PROVE  /\ WiresExpected' /\ HandsExpected' /\ QueuesExpected'
             /\ BytesCounted' /\ CallsAgree' /\ Somewhere'
  <2>1. wire' = wire /\ content' = content /\ where' # "receive"
    BY <1>3 DEF Driver, StartClient, Greet, StopClient, NextWork, ReceiveRelayed, Loop
  <2>2. \A c : OnWire(c)' <=> OnWire(c)
    BY <1>1, <2>1 DEF OnWire
  <2>3. WiresExpected'
    BY <1>1, <2>1, <2>2, DriverExpects DEF WiresExpected
  <2>4. HandsExpected'
    BY <1>1, <2>1, <2>2, DriverExpects DEF HandsExpected
  <2>5. QueuesExpected'
    BY <1>1, <2>1, DriverExpects DEF QueuesExpected
  <2>6. BytesCounted' /\ CallsAgree' /\ Somewhere'
    BY <1>1, <2>1 DEF BytesCounted, Counted, CallsAgree, Somewhere
  <2>7. QED
    BY <2>3, <2>4, <2>5, <2>6
<1>4. QED
  BY <1>2, <1>3

-----------------------------------------------------------------------------
(* What the steps of the server do to what the invariant is about.          *)

LEMMA ServerKeeps ==
    ASSUME UNCHANGED <<clientVars, driverVars>>
    PROVE  /\ \A c : Ungreeted(c)' <=> Ungreeted(c)
           /\ From' = From /\ To' = To /\ Text' = Text
           /\ inbox' = inbox => \A b, x, f : Expected(b, x, f)' <=> Expected(b, x, f)
BY DEF Ungreeted, From, To, Text, Expected

LEMMA AllThreads == Acceptor \in Threads /\ Workers \subseteq Threads
BY DEF Threads

LEMMA Busy ==
    ASSUME IInv
    PROVE  \A t \in Threads : pc[t] # "idle" =>
              /\ conn[t] \in Conns
              /\ \A u \in Threads : conn[u] = conn[t] => u = t
              /\ phase[conn[t]] = IF t = Acceptor THEN "accepted" ELSE "served"
              /\ t = Acceptor => state[conn[t]] = "READ_LEN"
BY StorageAssumption DEF IInv, StorageInv, OneThreadPerConnection, TypeOK, BytesCounted, Counted

(* A thread that is about to write has its own buffer, the first in the queue. *)
LEMMA LinkedQueued ==
    ASSUME IInv, NEW t \in Threads, pc[t] \in Linked
    PROVE  Queued(spot[t])
<1>1. currentBuffer[spot[t]] = conn[t] /\ conn[t] \in Conns
  BY Busy DEF IInv, HandsExpected, Linked
<1>2. ASSUME NEW u \in Threads, spot[u] = spot[t], pc[u] = "wrote" PROVE FALSE
  <2>1. currentBuffer[spot[u]] = conn[u]
    BY <1>2 DEF IInv, HandsExpected
  <2>2. conn[u] = conn[t] /\ pc[t] # "idle"
    BY <1>1, <1>2, <2>1 DEF Linked
  <2>3. u = t
    BY <2>2, Busy
  <2>4. QED
    BY <1>2, <2>3 DEF Linked
<1>3. QED
  BY <1>1, <1>2, StorageAssumption DEF Queued

(* The client that a frame is for is there to be found. *)
LEMMA AddresseeKnown ==
    ASSUME IInv, NEW t \in Threads, pc[t] \in Linking \cup Linked
    PROVE  spot[t] \in Conns /\ phase[spot[t]] \in {"accepted", "served"} /\ link[spot[t]] = "open"
<1> USE DEF IInv
<1>1. Expected(conn[t], spot[t], content[conn[t]]) /\ pc[t] # "idle"
  BY DEF HandsExpected, Linking, Linked
<1>2. spot[t] \in Conns /\ link[spot[t]] = "open"
  BY <1>1, ExpectedOnce
<1>3. phase[spot[t]] # "unborn"
  <2>1. CASE spot[t] = conn[t]
    BY <1>1, <2>1, Busy
  <2>2. CASE where = "receive"
    BY <1>2, <2>2, Sockets DEF EndsAgree
  <2>3. QED
    BY <1>1, <2>1, <2>2 DEF Expected
<1>4. QED
  BY <1>2, <1>3 DEF EndsAgree, StorageInv, TypeOK, Phases

LEMMA AddresseeRegistered ==
    ASSUME IInv, NEW t \in Threads, pc[t] \in Linking \cup Linked
    PROVE  spot[t] \in registered
BY AddresseeKnown DEF IInv, EndsAgree, StorageInv, RegisteredUntilRemoved

Accepts ==
    \E c \in Conns :
      /\ phase[c] = "unborn" /\ link[c] # "none" /\ pc[Acceptor] = "idle"
      /\ phase' = [phase EXCEPT ![c] = "accepted"]
      /\ \A u \in Threads : pc'[u] = IF u = Acceptor THEN "construct" ELSE pc[u]
      /\ \A u \in Threads : conn'[u] = IF u = Acceptor THEN c ELSE conn[u]
      /\ UNCHANGED <<state, bufferVars, currentBuffer, spot, result, testVars>>

LEMMA AcceptEffect ==
    ASSUME IInv, AcceptClient
    PROVE  Accepts
BY DEF AcceptClient, Register, IInv, StorageInv, TypeOK, Accepts

Welcomes ==
    LET c == conn[Acceptor]
    IN  /\ pc[Acceptor] = "construct" /\ c \in Conns
        /\ \A u \in Threads : pc'[u] = IF u = Acceptor THEN "find" ELSE pc[u]
        /\ \A u \in Threads : spot'[u] = IF u = Acceptor THEN c ELSE spot[u]
        /\ \A d \in Conns :
             /\ objLen'[d] = IF d = c THEN 2 ELSE objLen[d]
             /\ d # c => bytesToRead'[d] = bytesToRead[d]
             /\ content'[d] = IF d = c THEN Greeting(c) ELSE content[d]
        /\ content' \in [Conns -> Frames]
        /\ UNCHANGED <<phase, state, next, currentBuffer, conn, result, wire, inbox,
                       clientVars, driverVars>>

LEMMA WelcomeEffect ==
    ASSUME IInv, WelcomeClient
    PROVE  Welcomes
<1>1. pc[Acceptor] = "construct"
  BY DEF WelcomeClient, Welcome
<1>2. conn[Acceptor] \in Conns
  BY <1>1, Busy, AllThreads
<1>3. content' \in [Conns -> Frames]
  BY <1>2 DEF WelcomeClient, IInv, TestTypes, Frames
<1>4. QED
  BY <1>1, <1>2, <1>3, StorageAssumption
     DEF WelcomeClient, Welcome, IInv, StorageInv, TypeOK, TestTypes, Welcomes

HandsOver ==
    LET c == conn[Acceptor]
    IN  /\ pc[Acceptor] = "return" /\ c \in Conns
        /\ phase' = [phase EXCEPT ![c] = "served"]
        /\ \A u \in Threads : pc'[u] = IF u = Acceptor THEN "idle" ELSE pc[u]
        /\ \A u \in Threads : conn'[u] = IF u = Acceptor THEN NoConn ELSE conn[u]
        /\ \A u \in Threads : spot'[u] = IF u = Acceptor THEN NoConn ELSE spot[u]
        /\ UNCHANGED <<state, bufferVars, currentBuffer, result, testVars>>

LEMMA HandOverEffect ==
    ASSUME IInv, HandOverClient
    PROVE  HandsOver
BY Busy, AllThreads DEF HandOverClient, HandOver, IInv, StorageInv, TypeOK, HandsOver

LEMMA ConsumeEffect ==
    ASSUME NEW c \in Conns, NEW n, wire \in [Conns -> Wires], Consume(c, n),
           wire[c].unread - n \in 0 .. Length + 1
    PROVE  /\ wire' \in [Conns -> Wires]
           /\ \A d \in Conns :
                /\ wire'[d].unread = IF d = c THEN wire[d].unread - n ELSE wire[d].unread
                /\ wire'[d].to = wire[d].to /\ wire'[d].text = wire[d].text
<1>1. wire' \in [Conns -> Wires]
  BY DEF Consume, Wires
<1>2. \A d \in Conns :
         /\ wire'[d].unread = IF d = c THEN wire[d].unread - n ELSE wire[d].unread
         /\ wire'[d].to = wire[d].to /\ wire'[d].text = wire[d].text
  BY DEF Consume, Wires
<1>3. QED
  BY <1>1, <1>2

ReadsLength(t, c) ==
    /\ pc[t] = "idle" /\ state[c] = "READ_LEN" /\ phase[c] = "served"
    /\ \A u \in Threads : conn[u] # c
    /\ wire[c].unread = Length + 1
    /\ \A u \in Threads : pc'[u] = IF u = t THEN "readData" ELSE pc[u]
    /\ \A u \in Threads : conn'[u] = IF u = t THEN c ELSE conn[u]
    /\ \A d \in Conns :
         /\ state'[d] = IF d = c THEN "READ_DATA" ELSE state[d]
         /\ objLen'[d] = IF d = c THEN Length ELSE objLen[d]
         /\ bytesToRead'[d] = IF d = c THEN Length ELSE bytesToRead[d]
         /\ wire'[d].unread = IF d = c THEN Length ELSE wire[d].unread
         /\ wire'[d].to = wire[d].to /\ wire'[d].text = wire[d].text
    /\ wire' \in [Conns -> Wires]
    /\ UNCHANGED <<phase, next, currentBuffer, spot, result, inbox, content, clientVars, driverVars>>

LEMMA LengthEffect ==
    ASSUME IInv, NEW t \in Workers, NEW c \in Conns, ReadLength(t, c), wire[c].unread > 0,
           objLen'[c] = Length, Consume(c, 1),
           UNCHANGED <<inbox, content, clientVars, driverVars>>
    PROVE  ReadsLength(t, c)
<1>1. pc[t] = "idle" /\ state[c] = "READ_LEN" /\ phase[c] = "served" /\ NotRunning(c)
  BY DEF ReadLength
<1>2. wire[c].unread = Length + 1
  <2>1. wire[c].unread \in {0, Length + 1}
    BY <1>1 DEF IInv, BytesCounted, Counted
  <2>2. QED
    BY <2>1
<1>3. wire \in [Conns -> Wires] /\ wire[c].unread - 1 \in 0 .. Length + 1 /\ wire[c].unread - 1 = Length
  BY <1>2, LengthType DEF IInv, TestTypes
<1> USE DEF IInv, StorageInv, TypeOK
<1>4. /\ wire' \in [Conns -> Wires]
      /\ \A d \in Conns : /\ wire'[d].unread = IF d = c THEN wire[d].unread - 1 ELSE wire[d].unread
                          /\ wire'[d].to = wire[d].to /\ wire'[d].text = wire[d].text
  BY <1>3, ConsumeEffect
<1>5. PICK len \in FrameLengths : /\ objLen' = [objLen EXCEPT ![c] = len]
                                 /\ bytesToRead' = [bytesToRead EXCEPT ![c] = len]
  BY DEF ReadLength
<1>6. len = Length
  BY <1>5
<1>7. \A d \in Conns : /\ objLen'[d] = IF d = c THEN Length ELSE objLen[d]
                       /\ bytesToRead'[d] = IF d = c THEN Length ELSE bytesToRead[d]
                       /\ state'[d] = IF d = c THEN "READ_DATA" ELSE state[d]
  BY <1>5, <1>6 DEF ReadLength
<1>8. /\ \A u \in Threads : pc'[u] = IF u = t THEN "readData" ELSE pc[u]
      /\ \A u \in Threads : conn'[u] = IF u = t THEN c ELSE conn[u]
      /\ UNCHANGED <<phase, next, currentBuffer, spot, result>>
  BY DEF ReadLength
<1>9. \A u \in Threads : conn[u] # c
  BY <1>1 DEF NotRunning
<1>10. QED
  BY <1>1, <1>2, <1>3, <1>4, <1>7, <1>8, <1>9 DEF ReadsLength

(* A call that begins without a length: there is none, or it is known already. *)
Enters(t, c, place) ==
    /\ pc[t] = "idle" /\ phase[c] = "served"
    /\ \A u \in Threads : conn[u] # c
    /\ \/ place = "erase" /\ state[c] = "READ_LEN" /\ link[c] = "closed"
       \/ place = "readData" /\ state[c] = "READ_DATA"
    /\ \A u \in Threads : pc'[u] = IF u = t THEN place ELSE pc[u]
    /\ \A u \in Threads : conn'[u] = IF u = t THEN c ELSE conn[u]
    /\ UNCHANGED <<phase, state, bufferVars, currentBuffer, spot, result, testVars>>

LEMMA EnterEffect ==
    ASSUME IInv, NEW t \in Workers, NEW c \in Conns, UNCHANGED testVars,
           (EndOfStream(t, c) /\ link[c] = "closed") \/ ResumeData(t, c)
    PROVE  \E place \in {"erase", "readData"} : Enters(t, c, place)
<1>1. CASE EndOfStream(t, c) /\ link[c] = "closed"
  <2>1. Enters(t, c, "erase")
    BY <1>1, StorageAssumption DEF EndOfStream, NotRunning, IInv, StorageInv, TypeOK, Enters
  <2>2. QED
    BY <2>1
<1>2. CASE ResumeData(t, c)
  <2>1. Enters(t, c, "readData")
    BY <1>2, StorageAssumption DEF ResumeData, NotRunning, IInv, StorageInv, TypeOK, Enters
  <2>2. QED
    BY <2>1
<1>3. QED
  BY <1>1, <1>2

(* processResponse() is never left for a later call. *)
LEMMA NeverResumes ==
    ASSUME IInv, NEW t \in Workers, NEW c \in Conns, ResumeResponse(t, c)
    PROVE  FALSE
BY DEF ResumeResponse, NotRunning, IInv, BytesCounted, Counted

Reads(t) ==
    LET c == conn[t]
    IN  /\ pc[t] = "readData" /\ c \in Conns /\ state[c] = "READ_DATA"
        /\ wire[c].unread = bytesToRead[c]
        /\ result'[t] \in 1 .. bytesToRead[c]
        /\ \A u \in Threads : u # t => result'[u] = result[u]
        /\ \A u \in Threads : pc'[u] = IF u = t THEN "afterRead" ELSE pc[u]
        /\ \A d \in Conns :
             /\ wire'[d].unread = IF d = c THEN wire[d].unread - result'[t] ELSE wire[d].unread
             /\ wire'[d].to = wire[d].to /\ wire'[d].text = wire[d].text
        /\ wire' \in [Conns -> Wires]
        /\ UNCHANGED <<phase, state, bufferVars, currentBuffer, conn, spot, inbox, content,
                       clientVars, driverVars>>

LEMMA ReadEffect ==
    ASSUME IInv, NEW t \in Threads, ReadSome(t)
    PROVE  Reads(t)
<1> USE StorageAssumption, TestAssumption DEF IInv, StorageInv, TypeOK
<1> DEFINE c == conn[t]
           n == result'[t]
<1>1. pc[t] = "readData" /\ ReadData(t)
  BY DEF ReadSome, ReadData
<1>2. c \in Conns /\ state[c] = "READ_DATA" /\ \A u \in Threads : conn[u] = c => u = t
  BY <1>1, Busy DEF CallsAgree
<1>3. bytesToRead[c] \in 1 .. Length /\ wire[c].unread = bytesToRead[c]
  BY <1>1, <1>2 DEF BytesCounted, Counted
<1>4. n \in 1 .. bytesToRead[c]
  BY <1>2, <1>3 DEF ReadSome
<1>5. Consume(c, n) /\ wire[c].unread - n \in 0 .. Length + 1
  <2>1. n > 0 /\ wire[c].unread - n \in 0 .. Length + 1
    BY <1>3, <1>4, LengthType
  <2>2. QED
    BY <2>1 DEF ReadSome
<1>6. wire \in [Conns -> Wires]
  BY DEF TestTypes
<1>7. /\ wire' \in [Conns -> Wires]
      /\ \A d \in Conns : /\ wire'[d].unread = IF d = c THEN wire[d].unread - n ELSE wire[d].unread
                          /\ wire'[d].to = wire[d].to /\ wire'[d].text = wire[d].text
  BY <1>2, <1>5, <1>6, ConsumeEffect
<1>8. \A u \in Threads : pc'[u] = IF u = t THEN "afterRead" ELSE pc[u]
  BY <1>1 DEF ReadData
<1>9. \A u \in Threads : u # t => result'[u] = result[u]
  BY <1>1 DEF ReadData
<1>10. UNCHANGED <<phase, state, bufferVars, currentBuffer, conn, spot, inbox, content,
                   clientVars, driverVars>>
  BY DEF ReadSome, ReadData
<1> HIDE DEF c, n
<1>11. QED
  BY <1>1, <1>2, <1>3, <1>4, <1>7, <1>8, <1>9, <1>10 DEF c, n, Reads

(* A part of the frame is not enough. *)
ReadsPart(t) ==
    LET c == conn[t]
    IN  /\ pc[t] = "afterRead" /\ c \in Conns /\ state[c] = "READ_DATA"
        /\ result[t] \in 1 .. Length - 1
        /\ bytesToRead'[c] \in 1 .. Length /\ wire[c].unread = bytesToRead'[c]
        /\ \A d \in Conns : d # c => bytesToRead'[d] = bytesToRead[d]
        /\ \A u \in Threads : pc'[u] = IF u = t THEN "compare" ELSE pc[u]
        /\ UNCHANGED <<phase, state, objLen, next, currentBuffer, conn, spot, result, testVars>>

LEMMA MoreEffect ==
    ASSUME IInv, NEW t \in Threads, TakeFrame(t), result[t] # bytesToRead[conn[t]]
    PROVE  ReadsPart(t)
<1> DEFINE c == conn[t]
<1>1. pc[t] = "afterRead" /\ AfterRead(t)
  BY DEF TakeFrame, AfterRead
<1>2. c \in Conns /\ state[c] = "READ_DATA"
  BY <1>1, Busy DEF IInv, CallsAgree
<1>3. /\ bytesToRead[c] \in 1 .. Length
      /\ result[t] \in 1 .. bytesToRead[c]
      /\ wire[c].unread = bytesToRead[c] - result[t]
  BY <1>1, <1>2 DEF IInv, BytesCounted, Counted, CallsAgree
<1>4. /\ bytesToRead' = [bytesToRead EXCEPT ![c] = IF result[t] > 0 THEN @ - result[t] ELSE @]
      /\ pc' = [pc EXCEPT ![t] = "compare"]
      /\ UNCHANGED <<phase, state, objLen, next, currentBuffer, conn, spot, result>>
  BY <1>1 DEF AfterRead
<1>5. UNCHANGED testVars
  BY <1>2, <1>4 DEF TakeFrame, testVars
<1>6. \A d \in Conns : bytesToRead'[d] = IF d = c THEN bytesToRead[c] - result[t] ELSE bytesToRead[d]
  BY <1>2, <1>3, <1>4 DEF IInv, StorageInv, TypeOK
<1>7. result[t] \in 1 .. Length - 1 /\ bytesToRead[c] - result[t] \in 1 .. Length
  BY <1>3, LengthType
<1>8. \A u \in Threads : pc'[u] = IF u = t THEN "compare" ELSE pc[u]
  BY <1>4 DEF IInv, StorageInv, TypeOK
<1> HIDE DEF c
<1>9. QED
  BY <1>1, <1>2, <1>3, <1>4, <1>5, <1>6, <1>7, <1>8 DEF c, ReadsPart

(* A complete frame leaves the wire for the hands of the thread. *)
Takes(t) ==
    LET c == conn[t]
    IN  /\ pc[t] = "afterRead" /\ c \in Conns /\ state[c] = "READ_DATA"
        /\ wire[c].unread = 0 /\ wire[c].to \in Conns
        /\ \A d \in Conns :
             /\ state'[d] = IF d = c THEN "PROCESS_DATA" ELSE state[d]
             /\ content'[d] = IF d = c THEN Message(wire[c].text) ELSE content[d]
        /\ content' \in [Conns -> Frames]
        /\ \A u \in Threads :
             /\ pc'[u] = IF u = t THEN "consume" ELSE pc[u]
             /\ spot'[u] = IF u = t THEN wire[c].to ELSE spot[u]
             /\ result'[u] = IF u = t THEN Length ELSE result[u]
        /\ objLen[c] = Length /\ t # Acceptor
        /\ UNCHANGED <<phase, objLen, bytesToRead, next, currentBuffer, conn, wire, inbox,
                       clientVars, driverVars>>

LEMMA TakeEffect ==
    ASSUME IInv, NEW t \in Threads, TakeFrame(t), result[t] = bytesToRead[conn[t]]
    PROVE  Takes(t)
<1> DEFINE c == conn[t]
<1>1. pc[t] = "afterRead" /\ AfterRead(t)
  BY DEF TakeFrame, AfterRead
<1>2. c \in Conns /\ state[c] = "READ_DATA" /\ t # Acceptor
  BY <1>1, Busy DEF IInv, CallsAgree
<1>3. /\ bytesToRead[c] \in 1 .. Length /\ objLen[c] = Length
      /\ wire[c].unread = bytesToRead[c] - result[t]
  BY <1>1, <1>2 DEF IInv, BytesCounted, Counted, CallsAgree
<1>4. wire[c].unread = 0
  BY <1>3, LengthType
<1>5. wire[c].to \in Conns /\ Message(wire[c].text) \in Frames
  <2>1. Expected(c, wire[c].to, Message(wire[c].text))
    BY <1>2 DEF IInv, WiresExpected, OnWire
  <2>2. QED
    BY <2>1, ExpectedOnce
<1>6. FrameDone(t, c) /\ UNCHANGED <<phase, next, currentBuffer, conn>>
  BY <1>1 DEF AfterRead
<1>7. /\ state' = [state EXCEPT ![c] = "PROCESS_DATA"]
      /\ result' = [result EXCEPT ![t] = Length]
      /\ UNCHANGED <<objLen, bytesToRead>>
  BY <1>3, <1>6 DEF FrameDone
<1>8. state'[c] = "PROCESS_DATA"
  BY <1>2, <1>7 DEF IInv, StorageInv, TypeOK
<1>9. /\ pc'[t] = "consume" /\ spot'[t] = wire[c].to
      /\ content' = [content EXCEPT ![c] = Message(wire[c].text)]
      /\ UNCHANGED <<wire, inbox, clientVars, driverVars>>
  BY <1>8 DEF TakeFrame
<1>10. \A u \in Threads : /\ pc'[u] = IF u = t THEN "consume" ELSE pc[u]
                          /\ spot'[u] = IF u = t THEN wire[c].to ELSE spot[u]
                          /\ result'[u] = IF u = t THEN Length ELSE result[u]
  <2>1. \/ spot' = spot
        \/ \E y \in Conns : spot' = [spot EXCEPT ![t] = y]
    BY <1>6 DEF FrameDone
  <2>2. \/ pc' = [pc EXCEPT ![t] = "consume"]
        \/ pc' = [pc EXCEPT ![t] = "return"]
    BY <1>6 DEF FrameDone
  <2>3. QED
    BY <1>7, <1>9, <2>1, <2>2 DEF IInv, StorageInv, TypeOK
<1>11. \A d \in Conns : /\ state'[d] = IF d = c THEN "PROCESS_DATA" ELSE state[d]
                        /\ content'[d] = IF d = c THEN Message(wire[c].text) ELSE content[d]
  BY <1>2, <1>3, <1>7, <1>9, LengthType DEF IInv, StorageInv, TypeOK, TestTypes
<1>12. content' \in [Conns -> Frames]
  BY <1>5, <1>9 DEF IInv, TestTypes
<1> HIDE DEF c
<1>13. QED
  BY <1>1, <1>2, <1>3, <1>4, <1>5, <1>6, <1>7, <1>9, <1>10, <1>11, <1>12 DEF c, Takes

Delivers(t) ==
    LET x == spot[t]
        c == conn[t]
    IN  /\ pc[t] = "write" /\ c \in Conns
        /\ Expected(c, x, content[c]) /\ ~OnWire(c) /\ currentBuffer[x] = c
        /\ \A d \in Conns : inbox'[d] = IF d = x THEN <<content[c]>> ELSE inbox[d]
        /\ inbox' \in [Conns -> Seq(Frames)]
        /\ \A u \in Threads :
             /\ pc'[u] = IF u = t THEN "wrote" ELSE pc[u]
             /\ result'[u] = IF u = t THEN bytesToRead[c] ELSE result[u]
        /\ UNCHANGED <<phase, state, bufferVars, currentBuffer, conn, spot, wire, content,
                       clientVars, driverVars>>

LEMMA DeliverEffect ==
    ASSUME IInv, NEW t \in Threads, Deliver(t)
    PROVE  Delivers(t)
<1> DEFINE x == spot[t]
           c == conn[t]
<1>1. pc[t] = "write" /\ Write(t)
  BY DEF Deliver, Write
<1>2. c \in Conns /\ Expected(c, x, content[c]) /\ ~OnWire(c) /\ currentBuffer[x] = c
  BY <1>1, Busy DEF IInv, HandsExpected, Linked
<1>3. objLen[c] > 0 /\ bytesToRead[c] = objLen[c]
  BY <1>1 DEF IInv, CallsAgree, Linked
<1>4. x \in Conns /\ inbox[x] = <<>>
  BY <1>2 DEF Expected
<1>5. inbox' = [inbox EXCEPT ![x] = Append(@, content[c])]
  BY <1>2, <1>3 DEF Deliver
<1>6. content[c] \in Frames /\ Append(<<>>, content[c]) = <<content[c]>>
      /\ <<content[c]>> \in Seq(Frames)
  BY <1>2 DEF IInv, TestTypes
<1>7. /\ \A d \in Conns : inbox'[d] = IF d = x THEN <<content[c]>> ELSE inbox[d]
      /\ inbox' \in [Conns -> Seq(Frames)]
  BY <1>4, <1>5, <1>6 DEF IInv, TestTypes
<1>8. result'[t] = bytesToRead[c]
  BY <1>2, <1>3 DEF Deliver
<1>9. \A u \in Threads : /\ pc'[u] = IF u = t THEN "wrote" ELSE pc[u]
                         /\ result'[u] = IF u = t THEN bytesToRead[c] ELSE result[u]
  BY <1>1, <1>8 DEF Write, IInv, StorageInv, TypeOK
<1>10. UNCHANGED <<phase, state, bufferVars, currentBuffer, conn, spot, wire, content,
                   clientVars, driverVars>>
  BY <1>1 DEF Deliver, Write
<1> HIDE DEF x, c
<1>11. QED
  BY <1>1, <1>2, <1>7, <1>9, <1>10 DEF x, c, Delivers

Compares(t) ==
    LET c == conn[t]
    IN  /\ pc[t] = "compare" /\ c \in Conns
        /\ \A d \in Conns :
             state'[d] = IF d = c /\ state[d] = "PROCESS_DATA" THEN "READ_LEN" ELSE state[d]
        /\ \A u \in Threads :
             /\ pc'[u] = IF u = t THEN "idle" ELSE pc[u]
             /\ conn'[u] = IF u = t THEN NoConn ELSE conn[u]
             /\ spot'[u] = IF u = t THEN NoConn ELSE spot[u]
             /\ u # t => result'[u] = result[u]
        /\ UNCHANGED <<phase, bufferVars, currentBuffer, testVars>>

LEMMA CompareEffect ==
    ASSUME IInv, NEW t \in Threads, Compare(t), UNCHANGED testVars
    PROVE  Compares(t)
<1> DEFINE c == conn[t]
<1>1. pc[t] = "compare" /\ c \in Conns
  BY Busy DEF Compare
<1>2. \/ state[c] = "READ_DATA" /\ result[t] \in 1 .. Length - 1 /\ objLen[c] = Length
      \/ state[c] = "PROCESS_DATA" /\ result[t] = objLen[c]
  BY <1>1 DEF IInv, CallsAgree, BytesCounted, Counted
<1>3. \/ state[c] = "READ_DATA" /\ result[t] # objLen[c] /\ result[t] # 0
      \/ state[c] = "PROCESS_DATA" /\ result[t] = objLen[c]
  BY <1>2, LengthType
<1>4. \A d \in Conns :
         state'[d] = IF d = c /\ state[d] = "PROCESS_DATA" THEN "READ_LEN" ELSE state[d]
  BY <1>1, <1>3 DEF Compare, IInv, StorageInv, TypeOK
<1>5. Leave(t) /\ result' = [result EXCEPT ![t] = 0]
      /\ UNCHANGED <<phase, bufferVars, currentBuffer>>
  BY <1>1, <1>3 DEF Compare
<1>6. \A u \in Threads :
         /\ pc'[u] = IF u = t THEN "idle" ELSE pc[u]
         /\ conn'[u] = IF u = t THEN NoConn ELSE conn[u]
         /\ spot'[u] = IF u = t THEN NoConn ELSE spot[u]
         /\ u # t => result'[u] = result[u]
  BY <1>5 DEF IInv, StorageInv, TypeOK
<1> HIDE DEF c
<1>7. QED
  BY <1>1, <1>4, <1>5, <1>6 DEF c, Compares

(* The queue is empty when a buffer is added. *)
Adds(t) ==
    LET x == spot[t]
    IN  /\ pc[t] = "addDibb" /\ x \in Conns /\ conn[t] \in Conns /\ currentBuffer[x] = NoConn
        /\ \A d \in Conns : currentBuffer'[d] = IF d = x THEN conn[t] ELSE currentBuffer[d]
        /\ \A u \in Threads : pc'[u] = IF u = t THEN "setLength" ELSE pc[u]
        /\ UNCHANGED <<phase, state, bufferVars, conn, spot, result, testVars>>

LEMMA AddEffect ==
    ASSUME IInv, NEW t \in Threads, AddDibb(t), UNCHANGED testVars
    PROVE  Adds(t)
<1> DEFINE x == spot[t]
<1>1. pc[t] = "addDibb" /\ conn[t] \in Conns
  BY Busy DEF AddDibb
<1>2. x \in Conns /\ ~deleteSoon[x] /\ infoLock[x] = t
  BY <1>1 DEF IInv, StorageInv, LocksProtect, Using, Locking
<1>3. ~Queued(x)
  BY <1>1 DEF IInv, HandsExpected, Linking
<1>4. ASSUME NEW u \in Threads, spot[u] = x, pc[u] = "wrote" PROVE FALSE
  <2>1. infoLock[x] = u
    BY <1>4 DEF IInv, StorageInv, LocksProtect, Locking
  <2>2. QED
    BY <1>1, <1>2, <1>4, <2>1
<1>5. currentBuffer[x] = NoConn
  BY <1>3, <1>4 DEF Queued
<1>6. /\ pc' = [pc EXCEPT ![t] = "setLength"]
      /\ currentBuffer' = [currentBuffer EXCEPT ![x] = conn[t]]
      /\ UNCHANGED <<phase, state, bufferVars, conn, spot, result>>
  BY <1>2, <1>5 DEF AddDibb, Enqueue
<1>7. \A d \in Conns : currentBuffer'[d] = IF d = x THEN conn[t] ELSE currentBuffer[d]
  BY <1>2, <1>6 DEF IInv, StorageInv, TypeOK
<1>8. \A u \in Threads : pc'[u] = IF u = t THEN "setLength" ELSE pc[u]
  BY <1>6 DEF IInv, StorageInv, TypeOK
<1> HIDE DEF x
<1>9. QED
  BY <1>1, <1>2, <1>5, <1>6, <1>7, <1>8 DEF x, Adds

(* It was the only one, and all of it has been written. *)
Writes(t) ==
    LET x == spot[t]
        c == conn[t]
    IN  /\ pc[t] = "wrote" /\ x \in Conns /\ c \in Conns /\ currentBuffer[x] = c
        /\ \A d \in Conns :
             /\ currentBuffer'[d] = IF d = x THEN NoConn ELSE currentBuffer[d]
             /\ d # c => objLen'[d] = objLen[d] /\ bytesToRead'[d] = bytesToRead[d]
        /\ \A u \in Threads :
             /\ pc'[u] = IF u = t THEN "sent" ELSE pc[u]
             /\ u # t => result'[u] = result[u]
        /\ UNCHANGED <<phase, state, next, conn, spot, testVars>>

LEMMA WroteEffect ==
    ASSUME IInv, NEW t \in Threads, AfterWrite(t), UNCHANGED testVars
    PROVE  Writes(t)
<1> DEFINE x == spot[t]
           c == conn[t]
<1>1. pc[t] = "wrote"
  BY DEF AfterWrite
<1>2. x \in Conns /\ c \in Conns /\ currentBuffer[x] = c
  BY <1>1, Busy DEF IInv, HandsExpected, StorageInv, LocksProtect, Using, Holding
<1>3. result[t] = bytesToRead[c] /\ next[c] = NoConn
  BY <1>1, <1>2 DEF IInv, CallsAgree, QueuesExpected
<1>4. BufferWritten(t, x, c)
  BY <1>2, <1>3 DEF AfterWrite, BufferLeft
<1>5. /\ objLen' = [objLen EXCEPT ![c] = 0]
      /\ bytesToRead' = [bytesToRead EXCEPT ![c] = 0]
      /\ currentBuffer' = [currentBuffer EXCEPT ![x] = NoConn]
      /\ pc' = [pc EXCEPT ![t] = "sent"]
  BY <1>3, <1>4 DEF BufferWritten, EndSend
<1>6. result' = [result EXCEPT ![t] = 0] /\ UNCHANGED <<phase, state, next, conn, spot>>
  BY DEF AfterWrite
<1>7. \A d \in Conns :
         /\ currentBuffer'[d] = IF d = x THEN NoConn ELSE currentBuffer[d]
         /\ d # c => objLen'[d] = objLen[d] /\ bytesToRead'[d] = bytesToRead[d]
  BY <1>2, <1>5 DEF IInv, StorageInv, TypeOK
<1>8. \A u \in Threads : pc'[u] = (IF u = t THEN "sent" ELSE pc[u]) /\ (u # t => result'[u] = result[u])
  BY <1>5, <1>6 DEF IInv, StorageInv, TypeOK
<1> HIDE DEF x, c
<1>9. QED
  BY <1>1, <1>2, <1>6, <1>7, <1>8 DEF x, c, Writes

Deletes(t) ==
    LET c == conn[t]
    IN  /\ pc[t] = "deleteProcessor" /\ c \in Conns /\ state[c] = "READ_LEN"
        /\ link[c] = "closed"
        /\ phase' = [phase EXCEPT ![c] = "closed"]
        /\ \A d \in Conns :
             /\ d # c => objLen'[d] = objLen[d] /\ bytesToRead'[d] = bytesToRead[d]
             /\ next'[d] = next[d]
        /\ \A u \in Threads :
             /\ pc'[u] = IF u = t THEN "idle" ELSE pc[u]
             /\ conn'[u] = IF u = t THEN NoConn ELSE conn[u]
             /\ spot'[u] = IF u = t THEN NoConn ELSE spot[u]
        /\ UNCHANGED <<state, currentBuffer, result, testVars>>

LEMMA DeleteEffect ==
    ASSUME IInv, NEW t \in Threads, DeleteProcessor(t), UNCHANGED testVars
    PROVE  Deletes(t)
<1> DEFINE c == conn[t]
<1>1. pc[t] = "deleteProcessor" /\ c \in Conns
  BY Busy DEF DeleteProcessor
<1>2. state[c] = "READ_LEN" /\ link[c] = "closed"
  BY <1>1 DEF IInv, CallsAgree, EndsAgree
<1>3. \A d \in Conns :
         /\ d # c => objLen'[d] = objLen[d] /\ bytesToRead'[d] = bytesToRead[d]
         /\ next'[d] = next[d]
  BY <1>1 DEF DeleteProcessor, Wiped, IInv, StorageInv, TypeOK, QueuesExpected
<1>4. \A u \in Threads :
         /\ pc'[u] = IF u = t THEN "idle" ELSE pc[u]
         /\ conn'[u] = IF u = t THEN NoConn ELSE conn[u]
         /\ spot'[u] = IF u = t THEN NoConn ELSE spot[u]
  BY DEF DeleteProcessor, IInv, StorageInv, TypeOK
<1>5. phase' = [phase EXCEPT ![c] = "closed"] /\ UNCHANGED <<state, currentBuffer, result>>
  BY DEF DeleteProcessor
<1> HIDE DEF c
<1>6. QED
  BY <1>1, <1>2, <1>3, <1>4, <1>5 DEF c, Deletes

(* The other steps lead a thread from one place to the next. *)
NextPlace(t) ==
    \/ pc[t] = "find" /\ pc'[t] = "lockInfo"
    \/ pc[t] = "lockInfo" /\ pc'[t] = "addDibb"
    \/ pc[t] = "setNext" /\ pc'[t] = "trySend"
    \/ pc[t] = "trySend" /\ pc'[t] \in {"write", "sent"}
    \/ pc[t] = "sent" /\ pc'[t] \in {"lockDib", "return"}
    \/ pc[t] = "lockDib" /\ pc'[t] = "dropDib"
    \/ pc[t] = "dropDib" /\ pc'[t] \in {"unlockFreed", "return"}
    \/ pc[t] = "unlockFreed" /\ pc'[t] = "return"
    \/ pc[t] = "erase" /\ pc'[t] \in {"retire", "deleteProcessor"}
    \/ pc[t] = "retire" /\ pc'[t] = "deleteProcessor"

Onward(t) ==
    /\ conn[t] \in Conns
    /\ UNCHANGED <<phase, state, currentBuffer, conn, testVars>>
    /\ \A d \in Conns : next'[d] = next[d]
    /\ \A u \in Threads : u # t => pc'[u] = pc[u] /\ spot'[u] = spot[u] /\ result'[u] = result[u]
    /\ \/ NextPlace(t) /\ UNCHANGED <<spot, result, objLen, bytesToRead>>
       \/ /\ pc[t] = "consume" /\ pc'[t] = "find" /\ t # Acceptor
          /\ \A d \in Conns :
               objLen'[d] = IF d = conn[t] THEN Length - 1 ELSE objLen[d]
          /\ UNCHANGED <<spot, bytesToRead>>
       \/ /\ pc[t] = "setLength" /\ pc'[t] = "setNext"
          /\ \A d \in Conns :
               bytesToRead'[d] = IF d = conn[t] THEN objLen[d] ELSE bytesToRead[d]
          /\ UNCHANGED <<spot, result, objLen>>
       \/ /\ pc[t] = "return" /\ pc'[t] = "compare" /\ t # Acceptor
          /\ result'[t] = objLen[conn[t]]
          /\ UNCHANGED <<objLen, bytesToRead>>

LEMMA OnwardEffect ==
    ASSUME IInv, NEW t \in Threads, UNCHANGED testVars,
           \/ TakeReaction(t) /\ pc'[t] = "find"
           \/ Return(t) \/ FindClient(t) \/ LockInfo(t) \/ SetLength(t) \/ SetNext(t)
           \/ TrySend(t) \/ Sent(t) \/ LockDib(t) \/ DropDib(t) \/ UnlockFreed(t)
           \/ Erase(t) \/ Retire(t)
    PROVE  Onward(t)
<1> USE DEF IInv, StorageInv, TypeOK, Onward, NextPlace
<1>0. pc[t] # "idle"
  BY DEF TakeReaction, Return, FindClient, LockInfo, SetLength, SetNext, TrySend, Sent,
         LockDib, DropDib, UnlockFreed, Erase, Retire
<1>c. conn[t] \in Conns
  BY <1>0, Busy
<1>1. CASE Return(t)
  BY <1>1, <1>c DEF Return
<1>2. CASE FindClient(t)
  <2>1. spot[t] \in registered
    BY <1>2, AddresseeRegistered DEF FindClient, Linking
  <2>2. QED
    BY <1>2, <1>c, <2>1 DEF FindClient
<1>3. CASE LockInfo(t)
  BY <1>3, <1>c DEF LockInfo
<1>4. CASE SetLength(t)
  BY <1>4, <1>c DEF SetLength
<1>5. CASE SetNext(t)
  <2>1. \A d \in Conns : next'[d] = next[d]
    BY <1>5 DEF SetNext, QueuesExpected
  <2>2. QED
    BY <1>5, <1>c, <2>1 DEF SetNext
<1>6. CASE TrySend(t)
  BY <1>6, <1>c DEF TrySend
<1>7. CASE Sent(t)
  BY <1>7, <1>c DEF Sent
<1>8. CASE LockDib(t)
  BY <1>8, <1>c DEF LockDib
<1>9. CASE DropDib(t)
  <2>1. pc[t] = "dropDib" /\ pc'[t] \in {"unlockFreed", "return"}
    BY <1>9 DEF DropDib
  <2>2. QED
    BY <1>9, <1>c, <2>1 DEF DropDib
<1>10. CASE UnlockFreed(t)
  BY <1>10, <1>c DEF UnlockFreed
<1>11. CASE Erase(t)
  BY <1>11, <1>c DEF Erase
<1>12. CASE Retire(t)
  BY <1>12, <1>c DEF Retire
<1>13. CASE TakeReaction(t) /\ pc'[t] = "find"
  <2>1. pc[t] = "consume" /\ t # Acceptor /\ objLen[conn[t]] = Length /\ result[t] = Length
    BY <1>13 DEF TakeReaction, CallsAgree
  <2>2. objLen' = [objLen EXCEPT ![conn[t]] = Length - 1]
    BY <1>13, <2>1 DEF TakeReaction
  <2>3. QED
    BY <1>13, <1>c, <2>1, <2>2 DEF TakeReaction
<1>14. QED
  BY <1>1, <1>2, <1>3, <1>4, <1>5, <1>6, <1>7, <1>8, <1>9, <1>10, <1>11, <1>12, <1>13

(* All that the server can do. *)
ServerStep ==
    \/ Accepts \/ Welcomes \/ HandsOver
    \/ \E t \in Workers, c \in Conns :
          ReadsLength(t, c) \/ \E place \in {"erase", "readData"} : Enters(t, c, place)
    \/ \E t \in Threads :
          \/ Reads(t) \/ ReadsPart(t) \/ Takes(t) \/ Compares(t)
          \/ Adds(t) \/ Delivers(t) \/ Writes(t) \/ Deletes(t) \/ Onward(t)

LEMMA ServerSteps ==
    ASSUME IInv, TestNext
    PROVE  Driver \/ ServerStep
<1>1. AcceptClient \/ WelcomeClient \/ HandOverClient => ServerStep
  BY AcceptEffect, WelcomeEffect, HandOverEffect DEF ServerStep
<1>2. ASSUME NEW t \in Workers, NEW c \in Conns, StartCall(t, c) PROVE ServerStep
  <2>1. CASE ReadLength(t, c) /\ wire[c].unread > 0 /\ objLen'[c] = Length /\ Consume(c, 1)
    <3>1. ReadsLength(t, c)
      BY <1>2, <2>1, LengthEffect DEF StartCall
    <3>2. QED
      BY <3>1 DEF ServerStep
  <2>2. CASE ((EndOfStream(t, c) /\ link[c] = "closed") \/ ResumeData(t, c)) /\ UNCHANGED wire
    <3>1. \E place \in {"erase", "readData"} : Enters(t, c, place)
      BY <1>2, <2>2, EnterEffect DEF StartCall, testVars
    <3>2. QED
      BY <3>1 DEF ServerStep
  <2>3. QED
    BY <1>2, <2>1, <2>2, NeverResumes DEF StartCall
<1>3. ASSUME NEW t \in Threads, GoOn(t) PROVE ServerStep
  <2>1. UNCHANGED testVars
    BY <1>3 DEF GoOn
  <2>2. CASE Compare(t) \/ AddDibb(t) \/ AfterWrite(t) \/ DeleteProcessor(t)
    BY <2>1, <2>2, CompareEffect, AddEffect, WroteEffect, DeleteEffect DEF ServerStep
  <2>3. CASE \/ TakeReaction(t) /\ pc'[t] = "find"
             \/ Return(t) \/ FindClient(t) \/ LockInfo(t) \/ SetLength(t) \/ SetNext(t)
             \/ TrySend(t) \/ Sent(t) \/ LockDib(t) \/ DropDib(t) \/ UnlockFreed(t)
             \/ Erase(t) \/ Retire(t)
    BY <2>1, <2>3, OnwardEffect DEF ServerStep
  <2>4. QED
    BY <1>3, <2>2, <2>3 DEF GoOn, Close
<1>4. ASSUME NEW t \in Threads, ReadSome(t) \/ TakeFrame(t) \/ Deliver(t) PROVE ServerStep
  BY <1>4, ReadEffect, MoreEffect, TakeEffect, DeliverEffect DEF ServerStep
<1>5. QED
  BY <1>1, <1>2, <1>3, <1>4 DEF TestNext, Call

-----------------------------------------------------------------------------
(* The steps of the server, part by part of the invariant.                  *)

LEMMA ServerExpects ==
    ASSUME ServerStep
    PROVE  /\ UNCHANGED <<clientVars, driverVars>>
           /\ \A c : Ungreeted(c)' <=> Ungreeted(c)
           /\ From' = From /\ To' = To /\ Text' = Text
           /\ inbox' = inbox => \A b, x, f : Expected(b, x, f)' <=> Expected(b, x, f)
<1>1. UNCHANGED <<clientVars, driverVars>>
  BY DEF ServerStep, Accepts, Welcomes, HandsOver, ReadsLength, Enters, Reads, ReadsPart, Takes,
         Compares, Adds, Delivers, Writes, Deletes, Onward, testVars
<1>2. QED
  BY <1>1, ServerKeeps

FramesTyped ==
    wire' \in [Conns -> Wires] /\ inbox' \in [Conns -> Seq(Frames)] /\ content' \in [Conns -> Frames]

LEMMA ServerFrames ==
    ASSUME IInv, ServerStep
    PROVE  FramesTyped
<1> wire \in [Conns -> Wires] /\ inbox \in [Conns -> Seq(Frames)] /\ content \in [Conns -> Frames]
  BY DEF IInv, TestTypes
<1> USE DEF FramesTyped, testVars
<1>1. ASSUME Accepts PROVE FramesTyped
  BY <1>1 DEF Accepts
<1>2. ASSUME Welcomes PROVE FramesTyped
  BY <1>2 DEF Welcomes
<1>3. ASSUME HandsOver PROVE FramesTyped
  BY <1>3 DEF HandsOver
<1>4. ASSUME NEW t \in Workers, NEW c \in Conns, ReadsLength(t, c) PROVE FramesTyped
  BY <1>4 DEF ReadsLength
<1>5. ASSUME NEW t \in Workers, NEW c \in Conns, NEW place \in {"erase", "readData"},
             Enters(t, c, place)
      PROVE FramesTyped
  BY <1>5 DEF Enters
<1>6. ASSUME NEW t \in Threads, Reads(t) PROVE FramesTyped
  BY <1>6 DEF Reads
<1>7. ASSUME NEW t \in Threads, ReadsPart(t) PROVE FramesTyped
  BY <1>7 DEF ReadsPart
<1>8. ASSUME NEW t \in Threads, Takes(t) PROVE FramesTyped
  BY <1>8 DEF Takes
<1>9. ASSUME NEW t \in Threads, Compares(t) PROVE FramesTyped
  BY <1>9 DEF Compares
<1>10. ASSUME NEW t \in Threads, Adds(t) PROVE FramesTyped
  BY <1>10 DEF Adds
<1>11. ASSUME NEW t \in Threads, Delivers(t) PROVE FramesTyped
  BY <1>11 DEF Delivers
<1>12. ASSUME NEW t \in Threads, Writes(t) PROVE FramesTyped
  BY <1>12 DEF Writes
<1>13. ASSUME NEW t \in Threads, Deletes(t) PROVE FramesTyped
  BY <1>13 DEF Deletes
<1>14. ASSUME NEW t \in Threads, Onward(t) PROVE FramesTyped
  BY <1>14 DEF Onward, NextPlace
<1>15. QED
  BY <1>1, <1>2, <1>3, <1>4, <1>5, <1>6, <1>7, <1>8, <1>9, <1>10, <1>11, <1>12, <1>13, <1>14 DEF ServerStep

LEMMA ServerTypes ==
    ASSUME IInv, ServerStep
    PROVE  TestTypes'
<1>1. FramesTyped
  BY ServerFrames
<1>2. \A c \in Conns : wire'[c].unread \in 0 .. Length + 1 /\ wire'[c].to \in Conns \cup {NoConn}
  BY <1>1 DEF FramesTyped, Wires
<1>3. QED
  BY <1>1, <1>2, ServerExpects DEF FramesTyped, IInv, TestTypes, TestTypeOK

LEMMA ServerClients ==
    ASSUME IInv, ServerStep
    PROVE  ClientsFollow'
BY ServerExpects DEF IInv, ClientsFollow, Apart, New, Greeted

EndsFollow ==
    /\ \A c \in Conns :
        /\ phase'[c] = "unborn" =>
              phase[c] = "unborn" /\ inbox'[c] = inbox[c] /\ currentBuffer'[c] = currentBuffer[c]
        /\ phase'[c] # phase[c] =>
              /\ link[c] # "none" /\ phase'[c] # "cleaned"
              /\ phase'[c] = "closed" => link[c] = "closed"
    /\ \A t \in Threads :
        pc'[t] \in {"erase", "retire", "deleteProcessor"} => link[conn'[t]] = "closed"

LEMMA ServerFollows ==
    ASSUME IInv, ServerStep
    PROVE  EndsFollow
<1> USE DEF EndsFollow, testVars
<1> /\ \A t \in Threads :
          pc[t] \in {"erase", "retire", "deleteProcessor"} => link[conn[t]] = "closed"
    /\ phase \in [Conns -> Phases]
  BY DEF IInv, EndsAgree, StorageInv, TypeOK
<1>1. ASSUME Accepts PROVE EndsFollow
  BY <1>1 DEF Accepts
<1>2. ASSUME Welcomes PROVE EndsFollow
  BY <1>2 DEF Welcomes
<1>3. ASSUME HandsOver PROVE EndsFollow
  <2>1. phase[conn[Acceptor]] = "accepted" /\ link[conn[Acceptor]] # "none"
    BY <1>3, Busy, AllThreads DEF HandsOver, IInv, EndsAgree
  <2>2. QED
    BY <1>3, <2>1 DEF HandsOver
<1>4. ASSUME NEW t \in Workers, NEW c \in Conns, ReadsLength(t, c) PROVE EndsFollow
  BY <1>4 DEF ReadsLength
<1>5. ASSUME NEW t \in Workers, NEW c \in Conns, NEW place \in {"erase", "readData"},
             Enters(t, c, place)
      PROVE EndsFollow
  BY <1>5 DEF Enters
<1>6. ASSUME NEW t \in Threads, Reads(t) PROVE EndsFollow
  BY <1>6 DEF Reads
<1>7. ASSUME NEW t \in Threads, ReadsPart(t) PROVE EndsFollow
  BY <1>7 DEF ReadsPart
<1>8. ASSUME NEW t \in Threads, Takes(t) PROVE EndsFollow
  BY <1>8 DEF Takes
<1>9. ASSUME NEW t \in Threads, Compares(t) PROVE EndsFollow
  BY <1>9 DEF Compares
<1>10. ASSUME NEW t \in Threads, Adds(t) PROVE EndsFollow
  <2>1. \A d \in Conns : phase[d] = "unborn" => d # spot[t]
    BY <1>10, AddresseeKnown DEF Adds, Linking
  <2>2. QED
    BY <1>10, <2>1 DEF Adds
<1>11. ASSUME NEW t \in Threads, Delivers(t) PROVE EndsFollow
  <2>1. \A d \in Conns : phase[d] = "unborn" => d # spot[t]
    BY <1>11, AddresseeKnown DEF Delivers, Linked
  <2>2. QED
    BY <1>11, <2>1 DEF Delivers
<1>12. ASSUME NEW t \in Threads, Writes(t) PROVE EndsFollow
  <2>1. \A d \in Conns : phase[d] = "unborn" => currentBuffer[d] = NoConn
    BY DEF IInv, EndsAgree
  <2>2. QED
    BY <1>12, <2>1 DEF Writes
<1>13. ASSUME NEW t \in Threads, Deletes(t) PROVE EndsFollow
  BY <1>13 DEF Deletes
<1>14. ASSUME NEW t \in Threads, Onward(t) PROVE EndsFollow
  BY <1>14 DEF Onward, NextPlace
<1>15. QED
  BY <1>1, <1>2, <1>3, <1>4, <1>5, <1>6, <1>7, <1>8, <1>9, <1>10, <1>11, <1>12, <1>13, <1>14 DEF ServerStep

LEMMA ServerEnds ==
    ASSUME IInv, ServerStep
    PROVE  EndsAgree'
<1>1. EndsFollow /\ EndsAgree
  BY ServerFollows DEF IInv
<1>2. UNCHANGED <<clientVars, driverVars>> /\ \A c : Ungreeted(c)' <=> Ungreeted(c)
  BY ServerExpects
<1>3. \A c \in Conns :
        /\ link'[c] = "none" => phase'[c] = "unborn"
        /\ phase'[c] = "unborn" =>
            /\ inbox'[c] = <<>> /\ currentBuffer'[c] = NoConn
            /\ link'[c] = "none" \/ Ungreeted(c)'
        /\ phase'[c] = "closed" => link'[c] = "closed"
        /\ phase'[c] # "cleaned"
  BY <1>1, <1>2 DEF EndsFollow, EndsAgree
<1>4. QED
  BY <1>1, <1>2, <1>3 DEF EndsFollow, EndsAgree

LEMMA ServerArrived ==
    ASSUME IInv, ServerStep
    PROVE  Arrived'
<1> Arrived
  BY DEF IInv
<1> USE DEF Arrived, testVars
<1> /\ UNCHANGED <<clientVars, driverVars>> /\ \A c : Ungreeted(c)' <=> Ungreeted(c)
    /\ To' = To /\ Text' = Text
  BY ServerExpects
<1>1. ASSUME Accepts PROVE Arrived'
  BY <1>1 DEF Accepts
<1>2. ASSUME Welcomes PROVE Arrived'
  BY <1>2 DEF Welcomes
<1>3. ASSUME HandsOver PROVE Arrived'
  BY <1>3 DEF HandsOver
<1>4. ASSUME NEW t \in Workers, NEW c \in Conns, ReadsLength(t, c) PROVE Arrived'
  BY <1>4 DEF ReadsLength
<1>5. ASSUME NEW t \in Workers, NEW c \in Conns, NEW place \in {"erase", "readData"},
             Enters(t, c, place)
      PROVE Arrived'
  BY <1>5 DEF Enters
<1>6. ASSUME NEW t \in Threads, Reads(t) PROVE Arrived'
  BY <1>6 DEF Reads
<1>7. ASSUME NEW t \in Threads, ReadsPart(t) PROVE Arrived'
  BY <1>7 DEF ReadsPart
<1>8. ASSUME NEW t \in Threads, Takes(t) PROVE Arrived'
  BY <1>8 DEF Takes
<1>9. ASSUME NEW t \in Threads, Compares(t) PROVE Arrived'
  BY <1>9 DEF Compares
<1>10. ASSUME NEW t \in Threads, Adds(t) PROVE Arrived'
  BY <1>10 DEF Adds
<1>11. ASSUME NEW t \in Threads, Delivers(t) PROVE Arrived'
  <2>1. Expected(conn[t], spot[t], content[conn[t]])
    BY <1>11 DEF Delivers
  <2>2. \A d \in Conns : inbox'[d] = IF d = spot[t] THEN <<content[conn[t]]>> ELSE inbox[d]
    BY <1>11 DEF Delivers
  <2>3. \/ Ungreeted(spot[t]) /\ content[conn[t]] = Greeting(spot[t])
        \/ where = "receive" /\ spot[t] = To /\ content[conn[t]] = Message(Text)
    BY <2>1 DEF Expected
  <2>4. QED
    BY <2>2, <2>3
<1>12. ASSUME NEW t \in Threads, Writes(t) PROVE Arrived'
  BY <1>12 DEF Writes
<1>13. ASSUME NEW t \in Threads, Deletes(t) PROVE Arrived'
  BY <1>13 DEF Deletes
<1>14. ASSUME NEW t \in Threads, Onward(t) PROVE Arrived'
  BY <1>14 DEF Onward, NextPlace
<1>15. QED
  BY <1>1, <1>2, <1>3, <1>4, <1>5, <1>6, <1>7, <1>8, <1>9, <1>10, <1>11, <1>12, <1>13, <1>14 DEF ServerStep

(* A connection whose processor and wire are not touched. *)
Untouched(d) ==
    /\ state'[d] = state[d] /\ wire'[d].unread = wire[d].unread
    /\ state[d] = "READ_DATA" => objLen'[d] = objLen[d] /\ bytesToRead'[d] = bytesToRead[d]
    /\ phase'[d] \in {"unborn", "accepted"} => state[d] = "READ_LEN"
    /\ \A u \in Threads : conn[u] = d => conn'[u] = d /\ (pc[u] = "afterRead" => pc'[u] = "afterRead")

LEMMA UntouchedCounted ==
    ASSUME NEW d \in Conns, Counted(d), Untouched(d)
    PROVE  Counted(d)'
BY DEF Counted, Untouched

LEMMA ServerBytes ==
    ASSUME IInv, ServerStep
    PROVE  BytesCounted'
<1> \A c \in Conns : Counted(c)
  BY DEF IInv, BytesCounted
<1> /\ \A u \in Threads : pc[u] # "idle" => \A v \in Threads : conn[v] = conn[u] => v = u
    /\ \A u \in Threads : pc[u] = "idle" => conn[u] = NoConn
  BY Busy DEF IInv, StorageInv, OneThreadPerConnection
<1> USE StorageAssumption, AllThreads, UntouchedCounted DEF BytesCounted, testVars
<1>1. ASSUME Accepts PROVE BytesCounted'
  <2>1. \A d \in Conns : Untouched(d)
    BY <1>1 DEF Accepts, Untouched, Counted
  <2>2. QED
    BY <2>1
<1>2. ASSUME Welcomes PROVE BytesCounted'
  <2>1. \A d \in Conns : d # conn[Acceptor] => Untouched(d)
    BY <1>2 DEF Welcomes, Untouched, Counted
  <2>2. ASSUME NEW d \in Conns, d = conn[Acceptor] PROVE Counted(d)'
    BY <1>2, <2>2, Busy, LengthType DEF Welcomes, Counted
  <2>3. QED
    BY <2>1, <2>2, UntouchedCounted
<1>3. ASSUME HandsOver PROVE BytesCounted'
  <2>1. \A d \in Conns : d # conn[Acceptor] => Untouched(d)
    BY <1>3 DEF HandsOver, Untouched, Counted
  <2>2. ASSUME NEW d \in Conns, d = conn[Acceptor] PROVE Counted(d)'
    BY <1>3, <2>2, Busy, LengthType DEF HandsOver, Counted
  <2>3. QED
    BY <2>1, <2>2, UntouchedCounted
<1>4. ASSUME NEW t \in Workers, NEW c \in Conns, ReadsLength(t, c) PROVE BytesCounted'
  <2>1. \A d \in Conns : d # c => Untouched(d)
    BY <1>4 DEF ReadsLength, Untouched, Counted
  <2>2. ASSUME NEW d \in Conns, d = c PROVE Counted(d)'
    BY <1>4, <2>2, Busy, LengthType DEF ReadsLength, Counted
  <2>3. QED
    BY <2>1, <2>2, UntouchedCounted
<1>5. ASSUME NEW t \in Workers, NEW c \in Conns, NEW place \in {"erase", "readData"},
             Enters(t, c, place)
      PROVE BytesCounted'
  <2>1. \A d \in Conns : Untouched(d)
    BY <1>5 DEF Enters, Untouched, Counted
  <2>2. QED
    BY <2>1
<1>6. ASSUME NEW t \in Threads, Reads(t) PROVE BytesCounted'
  <2>1. \A d \in Conns : d # conn[t] => Untouched(d)
    BY <1>6 DEF Reads, Untouched, Counted
  <2>2. ASSUME NEW d \in Conns, d = conn[t] PROVE Counted(d)'
    BY <1>6, <2>2, Busy, LengthType DEF Reads, Counted
  <2>3. QED
    BY <2>1, <2>2, UntouchedCounted
<1>7. ASSUME NEW t \in Threads, ReadsPart(t) PROVE BytesCounted'
  <2>1. \A d \in Conns : d # conn[t] => Untouched(d)
    BY <1>7 DEF ReadsPart, Untouched, Counted
  <2>2. ASSUME NEW d \in Conns, d = conn[t] PROVE Counted(d)'
    BY <1>7, <2>2, Busy, LengthType DEF ReadsPart, Counted
  <2>3. QED
    BY <2>1, <2>2, UntouchedCounted
<1>8. ASSUME NEW t \in Threads, Takes(t) PROVE BytesCounted'
  <2>1. \A d \in Conns : d # conn[t] => Untouched(d)
    BY <1>8 DEF Takes, Untouched, Counted
  <2>2. ASSUME NEW d \in Conns, d = conn[t] PROVE Counted(d)'
    BY <1>8, <2>2, Busy, LengthType DEF Takes, Counted
  <2>3. QED
    BY <2>1, <2>2, UntouchedCounted
<1>9. ASSUME NEW t \in Threads, Compares(t) PROVE BytesCounted'
  <2>1. \A d \in Conns : d # conn[t] => Untouched(d)
    BY <1>9 DEF Compares, Untouched, Counted
  <2>2. ASSUME NEW d \in Conns, d = conn[t] PROVE Counted(d)'
    BY <1>9, <2>2, Busy, LengthType DEF Compares, Counted
  <2>3. QED
    BY <2>1, <2>2, UntouchedCounted
<1>10. ASSUME NEW t \in Threads, Adds(t) PROVE BytesCounted'
  <2>1. \A d \in Conns : Untouched(d)
    BY <1>10 DEF Adds, Untouched, Counted
  <2>2. QED
    BY <2>1
<1>11. ASSUME NEW t \in Threads, Delivers(t) PROVE BytesCounted'
  <2>1. \A d \in Conns : Untouched(d)
    BY <1>11 DEF Delivers, Untouched, Counted
  <2>2. QED
    BY <2>1
<1>12. ASSUME NEW t \in Threads, Writes(t) PROVE BytesCounted'
  <2>1. \A d \in Conns : d # conn[t] => Untouched(d)
    BY <1>12 DEF Writes, Untouched, Counted
  <2>2. ASSUME NEW d \in Conns, d = conn[t] PROVE Counted(d)'
    <3>1. state[conn[t]] # "READ_DATA"
      BY <1>12, Busy DEF Writes, IInv, CallsAgree, Using, Holding
    <3>2. QED
      BY <1>12, <2>2, <3>1 DEF Writes, Counted
  <2>3. QED
    BY <2>1, <2>2, UntouchedCounted
<1>13. ASSUME NEW t \in Threads, Deletes(t) PROVE BytesCounted'
  <2>1. \A d \in Conns : d # conn[t] => Untouched(d)
    BY <1>13 DEF Deletes, Untouched, Counted
  <2>2. ASSUME NEW d \in Conns, d = conn[t] PROVE Counted(d)'
    BY <1>13, <2>2, Busy, LengthType DEF Deletes, Counted
  <2>3. QED
    BY <2>1, <2>2, UntouchedCounted
<1>14. ASSUME NEW t \in Threads, Onward(t) PROVE BytesCounted'
  <2>1. pc[t] \in {"consume", "setLength"} => state[conn[t]] # "READ_DATA"
    BY <1>14, Busy DEF Onward, IInv, CallsAgree, Using, Holding
  <2>2. pc[t] # "afterRead" /\ \A u \in Threads : u # t => pc'[u] = pc[u]
    BY <1>14 DEF Onward, NextPlace
  <2>3. \A d \in Conns : state[d] = "READ_DATA" =>
           bytesToRead'[d] = bytesToRead[d] /\ objLen'[d] = objLen[d]
    BY <1>14, <2>1 DEF Onward, NextPlace
  <2>4. \A d \in Conns : Untouched(d)
    BY <1>14, <2>2, <2>3 DEF Onward, Untouched, Counted
  <2>5. QED
    BY <2>4
<1>15. QED
  BY <1>1, <1>2, <1>3, <1>4, <1>5, <1>6, <1>7, <1>8, <1>9, <1>10, <1>11, <1>12, <1>13, <1>14 DEF ServerStep

LEMMA ServerCalls ==
    ASSUME IInv, ServerStep
    PROVE  CallsAgree'
<1> CallsAgree
  BY DEF IInv
<1> USE Busy, LengthType DEF CallsAgree, testVars, Linking, Linked, Using, Holding
<1>1. ASSUME Accepts PROVE CallsAgree'
  BY <1>1 DEF Accepts
<1>2. ASSUME Welcomes PROVE CallsAgree'
  <2>1. \A u \in Threads : conn[u] = conn[Acceptor] => u = Acceptor
    BY <1>2, AllThreads DEF Welcomes
  <2>2. QED
    BY <1>2, <2>1 DEF Welcomes
<1>3. ASSUME HandsOver PROVE CallsAgree'
  BY <1>3 DEF HandsOver
<1>4. ASSUME NEW t \in Workers, NEW c \in Conns, ReadsLength(t, c) PROVE CallsAgree'
  BY <1>4 DEF ReadsLength
<1>5. ASSUME NEW t \in Workers, NEW c \in Conns, NEW place \in {"erase", "readData"},
             Enters(t, c, place)
      PROVE CallsAgree'
  BY <1>5 DEF Enters
<1>6. ASSUME NEW t \in Threads, Reads(t) PROVE CallsAgree'
  BY <1>6 DEF Reads
<1>7. ASSUME NEW t \in Threads, ReadsPart(t) PROVE CallsAgree'
  BY <1>7 DEF ReadsPart
<1>8. ASSUME NEW t \in Threads, Takes(t) PROVE CallsAgree'
  BY <1>8 DEF Takes
<1>9. ASSUME NEW t \in Threads, Compares(t) PROVE CallsAgree'
  BY <1>9 DEF Compares
<1>10. ASSUME NEW t \in Threads, Adds(t) PROVE CallsAgree'
  BY <1>10 DEF Adds
<1>11. ASSUME NEW t \in Threads, Delivers(t) PROVE CallsAgree'
  BY <1>11 DEF Delivers
<1>12. ASSUME NEW t \in Threads, Writes(t) PROVE CallsAgree'
  BY <1>12 DEF Writes
<1>13. ASSUME NEW t \in Threads, Deletes(t) PROVE CallsAgree'
  BY <1>13 DEF Deletes
<1>14. ASSUME NEW t \in Threads, Onward(t) PROVE CallsAgree'
  BY <1>14 DEF Onward, NextPlace
<1>15. QED
  BY <1>1, <1>2, <1>3, <1>4, <1>5, <1>6, <1>7, <1>8, <1>9, <1>10, <1>11, <1>12, <1>13, <1>14 DEF ServerStep

-----------------------------------------------------------------------------
(* Where a step of the server takes the frames.                             *)

(* Nothing but a client's writing puts a frame on the wire. *)
StayOnWire ==
    \A c \in Conns : OnWire(c)' =>
        OnWire(c) /\ wire'[c].to = wire[c].to /\ wire'[c].text = wire[c].text

LEMMA ServerWires ==
    ASSUME IInv, ServerStep
    PROVE  StayOnWire
<1> USE LengthType DEF StayOnWire, OnWire, testVars
<1>1. ASSUME Accepts PROVE StayOnWire
  BY <1>1 DEF Accepts
<1>2. ASSUME Welcomes PROVE StayOnWire
  BY <1>2 DEF Welcomes
<1>3. ASSUME HandsOver PROVE StayOnWire
  BY <1>3 DEF HandsOver
<1>4. ASSUME NEW t \in Workers, NEW c \in Conns, ReadsLength(t, c) PROVE StayOnWire
  BY <1>4 DEF ReadsLength
<1>5. ASSUME NEW t \in Workers, NEW c \in Conns, NEW place \in {"erase", "readData"},
             Enters(t, c, place)
      PROVE StayOnWire
  BY <1>5 DEF Enters
<1>6. ASSUME NEW t \in Threads, Reads(t) PROVE StayOnWire
  BY <1>6 DEF Reads
<1>7. ASSUME NEW t \in Threads, ReadsPart(t) PROVE StayOnWire
  BY <1>7 DEF ReadsPart
<1>8. ASSUME NEW t \in Threads, Takes(t) PROVE StayOnWire
  BY <1>8 DEF Takes
<1>9. ASSUME NEW t \in Threads, Compares(t) PROVE StayOnWire
  BY <1>9 DEF Compares
<1>10. ASSUME NEW t \in Threads, Adds(t) PROVE StayOnWire
  BY <1>10 DEF Adds
<1>11. ASSUME NEW t \in Threads, Delivers(t) PROVE StayOnWire
  BY <1>11 DEF Delivers
<1>12. ASSUME NEW t \in Threads, Writes(t) PROVE StayOnWire
  BY <1>12 DEF Writes
<1>13. ASSUME NEW t \in Threads, Deletes(t) PROVE StayOnWire
  BY <1>13 DEF Deletes
<1>14. ASSUME NEW t \in Threads, Onward(t) PROVE StayOnWire
  BY <1>14 DEF Onward, NextPlace
<1>15. QED
  BY <1>1, <1>2, <1>3, <1>4, <1>5, <1>6, <1>7, <1>8, <1>9, <1>10, <1>11, <1>12, <1>13, <1>14 DEF ServerStep

(* A frame arrives when it is written, and is as it was expected. *)
LEMMA ServerDelivers ==
    ASSUME IInv, ServerStep
    PROVE  /\ \A x \in Conns : \/ inbox'[x] = inbox[x]
                              \/ \E t \in Threads : Delivers(t) /\ x = spot[t]
           /\ \A b, x, f : Expected(b, x, f) /\ inbox'[x] = inbox[x] => Expected(b, x, f)'
<1>1. \A x \in Conns : inbox'[x] = inbox[x] \/ \E t \in Threads : Delivers(t) /\ x = spot[t]
  <2>1. ASSUME NEW t \in Threads, Delivers(t), NEW x \in Conns
        PROVE  inbox'[x] = inbox[x] \/ \E u \in Threads : Delivers(u) /\ x = spot[u]
    <3>1. inbox'[x] = IF x = spot[t] THEN <<content[conn[t]]>> ELSE inbox[x]
      BY <2>1 DEF Delivers
    <3>2. QED
      BY <2>1, <3>1
  <2>2. ASSUME \A t \in Threads : ~Delivers(t) PROVE inbox' = inbox
    BY <2>2 DEF ServerStep, Accepts, Welcomes, HandsOver, ReadsLength, Enters, Reads, ReadsPart,
                Takes, Compares, Adds, Writes, Deletes, Onward, testVars
  <2>3. QED
    BY <2>1, <2>2
<1>2. QED
  BY <1>1, ServerExpects DEF Expected

(* It was the only one for its client, and the only one of its sender. *)
LEMMA DeliversOnly ==
    ASSUME IInv, ServerStep, NEW b, NEW x, NEW f, Expected(b, x, f),
           \A t \in Threads : Delivers(t) => b # conn[t]
    PROVE  Expected(b, x, f)' /\ inbox'[x] = inbox[x]
<1>1. x \in Conns
  BY DEF Expected
<1>2. ASSUME NEW t \in Threads, Delivers(t), x = spot[t] PROVE FALSE
  <2>1. Expected(conn[t], spot[t], content[conn[t]]) /\ b # conn[t]
    BY <1>2 DEF Delivers
  <2>2. QED
    BY <1>2, <2>1, ExpectedOnce
<1>3. QED
  BY <1>1, <1>2, ServerDelivers

(* A frame is queued by addDibb(), and changes no more until it is written. *)
StayQueued ==
    \A x \in Conns : Queued(x)' =>
        \/ Queued(x) /\ currentBuffer'[x] = currentBuffer[x]
                      /\ content'[currentBuffer[x]] = content[currentBuffer[x]]
                      /\ inbox'[x] = inbox[x]
        \/ \E t \in Threads : Adds(t) /\ x = spot[t]

LEMMA ServerQueues ==
    ASSUME IInv, ServerStep
    PROVE  StayQueued
<1> USE StorageAssumption, AllThreads DEF StayQueued, Queued, testVars
<1> currentBuffer \in [Conns -> Conns \cup {NoConn}]
  BY DEF IInv, StorageInv, TypeOK
<1>1. ASSUME Accepts PROVE StayQueued
  BY <1>1 DEF Accepts
<1>2. ASSUME Welcomes PROVE StayQueued
  <2>1. \A x \in Conns : Queued(x) => currentBuffer[x] # conn[Acceptor]
    BY <1>2, OnePlace DEF Welcomes
  <2>2. QED
    BY <1>2, <2>1 DEF Welcomes
<1>3. ASSUME HandsOver PROVE StayQueued
  BY <1>3 DEF HandsOver
<1>4. ASSUME NEW t \in Workers, NEW c \in Conns, ReadsLength(t, c) PROVE StayQueued
  BY <1>4 DEF ReadsLength
<1>5. ASSUME NEW t \in Workers, NEW c \in Conns, NEW place \in {"erase", "readData"},
             Enters(t, c, place)
      PROVE StayQueued
  BY <1>5 DEF Enters
<1>6. ASSUME NEW t \in Threads, Reads(t) PROVE StayQueued
  BY <1>6 DEF Reads
<1>7. ASSUME NEW t \in Threads, ReadsPart(t) PROVE StayQueued
  BY <1>7 DEF ReadsPart
<1>8. ASSUME NEW t \in Threads, Takes(t) PROVE StayQueued
  <2>1. \A x \in Conns : Queued(x) => currentBuffer[x] # conn[t]
    BY <1>8, OnePlace DEF Takes, OnWire
  <2>2. QED
    BY <1>8, <2>1 DEF Takes
<1>9. ASSUME NEW t \in Threads, Compares(t) PROVE StayQueued
  BY <1>9 DEF Compares
<1>10. ASSUME NEW t \in Threads, Adds(t) PROVE StayQueued
  <2>1. \A x \in Conns : x # spot[t] /\ Queued(x)' =>
                         /\ Queued(x) /\ currentBuffer'[x] = currentBuffer[x]
                         /\ content'[currentBuffer[x]] = content[currentBuffer[x]]
                         /\ inbox'[x] = inbox[x]
    BY <1>10 DEF Adds
  <2>2. QED
    BY <1>10, <2>1
<1>11. ASSUME NEW t \in Threads, Delivers(t) PROVE StayQueued
  BY <1>11 DEF Delivers
<1>12. ASSUME NEW t \in Threads, Writes(t) PROVE StayQueued
  BY <1>12 DEF Writes
<1>13. ASSUME NEW t \in Threads, Deletes(t) PROVE StayQueued
  BY <1>13 DEF Deletes
<1>14. ASSUME NEW t \in Threads, Onward(t) PROVE StayQueued
  BY <1>14 DEF Onward, NextPlace
<1>15. QED
  BY <1>1, <1>2, <1>3, <1>4, <1>5, <1>6, <1>7, <1>8, <1>9, <1>10, <1>11, <1>12, <1>13, <1>14 DEF ServerStep

(* What a thread has in its hands it has had, or got by this step. *)
StayInHands ==
    \A u \in Threads :
        /\ pc'[u] = "construct" =>
            \/ pc[u] = "construct" /\ conn'[u] = conn[u] /\ currentBuffer'[conn[u]] = NoConn
            \/ u = Acceptor /\ Accepts
        /\ pc'[u] \in Linking \cup Linked =>
            \/ /\ pc[u] \in Linking \cup Linked
               /\ conn'[u] = conn[u] /\ spot'[u] = spot[u]
               /\ content'[conn[u]] = content[conn[u]]
               /\ pc'[u] \in Linking => pc[u] \in Linking
            \/ u = Acceptor /\ Welcomes
            \/ Takes(u)
        /\ pc'[u] \in Linked \cup {"wrote"} =>
            \/ /\ pc[u] \in Linked \cup {"wrote"}
               /\ conn'[u] = conn[u] /\ spot'[u] = spot[u]
               /\ currentBuffer'[spot[u]] = currentBuffer[spot[u]]
            \/ Adds(u)

LEMMA ServerHands ==
    ASSUME IInv, ServerStep
    PROVE  StayInHands
<1> USE AllThreads, Busy DEF StayInHands, Linking, Linked, testVars
<1> \A u, v \in Threads : pc[u] # "idle" /\ pc[v] # "idle" /\ u # v => conn[u] # conn[v]
  BY Busy
<1> \A u \in Threads : pc[u] \in Linked \cup {"wrote"} =>
        currentBuffer[spot[u]] = conn[u] /\ conn[u] \in Conns /\ pc[u] # "idle"
  BY DEF IInv, HandsExpected
<1> \A u \in Threads : pc[u] = "construct" => currentBuffer[conn[u]] = NoConn /\ conn[u] \in Conns
  BY DEF IInv, HandsExpected
<1>1. ASSUME Accepts PROVE StayInHands
  <2>1. \A u \in Threads : u # Acceptor =>
          /\ pc'[u] = pc[u] /\ conn'[u] = conn[u] /\ spot'[u] = spot[u]
          /\ content' = content /\ currentBuffer' = currentBuffer
    BY <1>1 DEF Accepts
  <2>2. pc'[Acceptor] = "construct"
    BY <1>1 DEF Accepts
  <2>3. QED
    BY <1>1, <2>1, <2>2
<1>2. ASSUME Welcomes PROVE StayInHands
  BY <1>2 DEF Welcomes
<1>3. ASSUME HandsOver PROVE StayInHands
  BY <1>3 DEF HandsOver
<1>4. ASSUME NEW t \in Workers, NEW c \in Conns, ReadsLength(t, c) PROVE StayInHands
  BY <1>4 DEF ReadsLength
<1>5. ASSUME NEW t \in Workers, NEW c \in Conns, NEW place \in {"erase", "readData"},
             Enters(t, c, place)
      PROVE StayInHands
  BY <1>5 DEF Enters
<1>6. ASSUME NEW t \in Threads, Reads(t) PROVE StayInHands
  BY <1>6 DEF Reads
<1>7. ASSUME NEW t \in Threads, ReadsPart(t) PROVE StayInHands
  BY <1>7 DEF ReadsPart
<1>8. ASSUME NEW t \in Threads, Takes(t) PROVE StayInHands
  BY <1>8 DEF Takes
<1>9. ASSUME NEW t \in Threads, Compares(t) PROVE StayInHands
  BY <1>9 DEF Compares
<1>10. ASSUME NEW t \in Threads, Adds(t) PROVE StayInHands
  <2>1. \A u \in Threads : pc[u] \in Linked \cup {"wrote"} => spot[u] # spot[t] \/ u = t
    BY <1>10, StorageAssumption DEF Adds
  <2>2. \A u \in Threads : pc[u] \in Linked \cup {"wrote"} => spot[u] \in Conns
    BY DEF IInv, StorageInv, LocksProtect, Using, Holding
  <2>3. \A u \in Threads : pc[u] \in Linked \cup {"wrote"} /\ u # t =>
          currentBuffer'[spot[u]] = currentBuffer[spot[u]]
    BY <1>10, <2>1, <2>2 DEF Adds
  <2>4. \A u \in Threads : u # t =>
          /\ pc'[u] = pc[u] /\ conn'[u] = conn[u] /\ spot'[u] = spot[u] /\ content' = content
    BY <1>10 DEF Adds
  <2>5. \A u \in Threads : u = t => pc'[u] = "setLength" /\ pc[u] = "addDibb"
                  /\ conn'[u] = conn[u] /\ spot'[u] = spot[u] /\ content' = content /\ Adds(u)
    BY <1>10 DEF Adds
  <2>6. ASSUME NEW u \in Threads, pc[u] = "construct" PROVE currentBuffer'[conn[u]] = NoConn
    <3>1. Expected(conn[t], spot[t], content[conn[t]]) /\ conn[t] # conn[u]
      BY <1>10, <2>6 DEF Adds, IInv, HandsExpected
    <3>2. Expected(conn[u], conn[u], Greeting(conn[u]))
      BY <2>6 DEF IInv, HandsExpected
    <3>3. spot[t] # conn[u]
      BY <3>1, <3>2, ExpectedOnce
    <3>4. QED
      BY <1>10, <2>6, <3>3 DEF Adds
  <2>7. QED
    BY <2>3, <2>4, <2>5, <2>6
<1>11. ASSUME NEW t \in Threads, Delivers(t) PROVE StayInHands
  BY <1>11 DEF Delivers
<1>12. ASSUME NEW t \in Threads, Writes(t) PROVE StayInHands
  <2>1. \A u \in Threads : pc[u] \in Linked \cup {"wrote"} => spot[u] # spot[t] \/ u = t
    BY <1>12 DEF Writes
  <2>2. \A u \in Threads : pc[u] \in Linked \cup {"wrote"} => spot[u] \in Conns
    BY DEF IInv, StorageInv, LocksProtect, Using, Holding
  <2>3. QED
    BY <1>12, <2>1, <2>2 DEF Writes
<1>13. ASSUME NEW t \in Threads, Deletes(t) PROVE StayInHands
  BY <1>13 DEF Deletes
<1>14. ASSUME NEW t \in Threads, Onward(t) PROVE StayInHands
  BY <1>14 DEF Onward, NextPlace
<1>15. QED
  BY <1>1, <1>2, <1>3, <1>4, <1>5, <1>6, <1>7, <1>8, <1>9, <1>10, <1>11, <1>12, <1>13, <1>14 DEF ServerStep

(* A frame that leaves a place is in the next one. *)
LeaveWire ==
    \A c \in Conns : OnWire(c) =>
        OnWire(c)' \/ \E t \in Threads : conn'[t] = c /\ pc'[t] \in Linking

LeaveQueue ==
    \A x \in Conns : Queued(x) =>
        \/ Queued(x)' /\ currentBuffer'[x] = currentBuffer[x]
        \/ inbox'[x] # <<>>

LeaveHands ==
    \A t \in Threads : pc[t] \in Linking \cup Linked =>
        \/ conn'[t] = conn[t] /\ pc'[t] \in Linking \cup Linked
        \/ pc[t] = "trySend"
        \/ inbox'[spot[t]] # <<>>

LEMMA ServerLeavesWire ==
    ASSUME IInv, ServerStep
    PROVE  LeaveWire
<1> USE LengthType, AllThreads DEF LeaveWire, OnWire, Linking, testVars
<1>1. ASSUME Accepts PROVE LeaveWire
  BY <1>1 DEF Accepts
<1>2. ASSUME Welcomes PROVE LeaveWire
  BY <1>2 DEF Welcomes
<1>3. ASSUME HandsOver PROVE LeaveWire
  BY <1>3 DEF HandsOver
<1>4. ASSUME NEW t \in Workers, NEW c \in Conns, ReadsLength(t, c) PROVE LeaveWire
  BY <1>4 DEF ReadsLength
<1>5. ASSUME NEW t \in Workers, NEW c \in Conns, NEW place \in {"erase", "readData"},
             Enters(t, c, place)
      PROVE LeaveWire
  BY <1>5 DEF Enters
<1>6. ASSUME NEW t \in Threads, Reads(t) PROVE LeaveWire
  BY <1>6 DEF Reads
<1>7. ASSUME NEW t \in Threads, ReadsPart(t) PROVE LeaveWire
  BY <1>7 DEF ReadsPart
<1>8. ASSUME NEW t \in Threads, Takes(t) PROVE LeaveWire
  BY <1>8 DEF Takes
<1>9. ASSUME NEW t \in Threads, Compares(t) PROVE LeaveWire
  BY <1>9 DEF Compares
<1>10. ASSUME NEW t \in Threads, Adds(t) PROVE LeaveWire
  BY <1>10 DEF Adds
<1>11. ASSUME NEW t \in Threads, Delivers(t) PROVE LeaveWire
  BY <1>11 DEF Delivers
<1>12. ASSUME NEW t \in Threads, Writes(t) PROVE LeaveWire
  BY <1>12 DEF Writes
<1>13. ASSUME NEW t \in Threads, Deletes(t) PROVE LeaveWire
  BY <1>13 DEF Deletes
<1>14. ASSUME NEW t \in Threads, Onward(t) PROVE LeaveWire
  BY <1>14 DEF Onward, NextPlace
<1>15. QED
  BY <1>1, <1>2, <1>3, <1>4, <1>5, <1>6, <1>7, <1>8, <1>9, <1>10, <1>11, <1>12, <1>13, <1>14 DEF ServerStep

LEMMA ServerLeavesQueue ==
    ASSUME IInv, ServerStep
    PROVE  LeaveQueue
<1> USE StorageAssumption, AllThreads DEF LeaveQueue, Queued, testVars
<1>1. ASSUME Accepts PROVE LeaveQueue
  BY <1>1 DEF Accepts
<1>2. ASSUME Welcomes PROVE LeaveQueue
  BY <1>2 DEF Welcomes
<1>3. ASSUME HandsOver PROVE LeaveQueue
  BY <1>3 DEF HandsOver
<1>4. ASSUME NEW t \in Workers, NEW c \in Conns, ReadsLength(t, c) PROVE LeaveQueue
  BY <1>4 DEF ReadsLength
<1>5. ASSUME NEW t \in Workers, NEW c \in Conns, NEW place \in {"erase", "readData"},
             Enters(t, c, place)
      PROVE LeaveQueue
  BY <1>5 DEF Enters
<1>6. ASSUME NEW t \in Threads, Reads(t) PROVE LeaveQueue
  BY <1>6 DEF Reads
<1>7. ASSUME NEW t \in Threads, ReadsPart(t) PROVE LeaveQueue
  BY <1>7 DEF ReadsPart
<1>8. ASSUME NEW t \in Threads, Takes(t) PROVE LeaveQueue
  BY <1>8 DEF Takes
<1>9. ASSUME NEW t \in Threads, Compares(t) PROVE LeaveQueue
  BY <1>9 DEF Compares
<1>10. ASSUME NEW t \in Threads, Adds(t) PROVE LeaveQueue
  BY <1>10 DEF Adds
<1>11. ASSUME NEW t \in Threads, Delivers(t) PROVE LeaveQueue
  <2>1. \A x \in Conns : inbox'[x] = IF x = spot[t] THEN <<content[conn[t]]>> ELSE inbox[x]
    BY <1>11 DEF Delivers
  <2>2. \A f : <<f>> # <<>>
    OBVIOUS
  <2>3. inbox'[spot[t]] # <<>> \/ spot[t] \notin Conns
    BY <2>1, <2>2
  <2>4. \A x \in Conns : x # spot[t] /\ Queued(x) => Queued(x)' /\ currentBuffer'[x] = currentBuffer[x]
    BY <1>11 DEF Delivers
  <2>5. QED
    BY <2>3, <2>4
<1>12. ASSUME NEW t \in Threads, Writes(t) PROVE LeaveQueue
  BY <1>12 DEF Writes
<1>13. ASSUME NEW t \in Threads, Deletes(t) PROVE LeaveQueue
  BY <1>13 DEF Deletes
<1>14. ASSUME NEW t \in Threads, Onward(t) PROVE LeaveQueue
  BY <1>14 DEF Onward, NextPlace
<1>15. QED
  BY <1>1, <1>2, <1>3, <1>4, <1>5, <1>6, <1>7, <1>8, <1>9, <1>10, <1>11, <1>12, <1>13, <1>14 DEF ServerStep

LEMMA ServerLeavesHands ==
    ASSUME IInv, ServerStep
    PROVE  LeaveHands
<1> USE AllThreads, Busy DEF LeaveHands, Linking, Linked, testVars
<1>1. ASSUME Accepts PROVE LeaveHands
  BY <1>1 DEF Accepts
<1>2. ASSUME Welcomes PROVE LeaveHands
  BY <1>2 DEF Welcomes
<1>3. ASSUME HandsOver PROVE LeaveHands
  BY <1>3 DEF HandsOver
<1>4. ASSUME NEW t \in Workers, NEW c \in Conns, ReadsLength(t, c) PROVE LeaveHands
  BY <1>4 DEF ReadsLength
<1>5. ASSUME NEW t \in Workers, NEW c \in Conns, NEW place \in {"erase", "readData"},
             Enters(t, c, place)
      PROVE LeaveHands
  BY <1>5 DEF Enters
<1>6. ASSUME NEW t \in Threads, Reads(t) PROVE LeaveHands
  BY <1>6 DEF Reads
<1>7. ASSUME NEW t \in Threads, ReadsPart(t) PROVE LeaveHands
  BY <1>7 DEF ReadsPart
<1>8. ASSUME NEW t \in Threads, Takes(t) PROVE LeaveHands
  BY <1>8 DEF Takes
<1>9. ASSUME NEW t \in Threads, Compares(t) PROVE LeaveHands
  BY <1>9 DEF Compares
<1>10. ASSUME NEW t \in Threads, Adds(t) PROVE LeaveHands
  BY <1>10 DEF Adds
<1>11. ASSUME NEW t \in Threads, Delivers(t) PROVE LeaveHands
  <2>1. inbox'[spot[t]] # <<>>
    <3>1. spot[t] \in Conns
      BY <1>11 DEF Delivers, Expected
    <3>2. inbox'[spot[t]] = <<content[conn[t]]>>
      BY <1>11, <3>1 DEF Delivers
    <3>3. QED
      BY <3>2
  <2>2. QED
    BY <1>11, <2>1 DEF Delivers
<1>12. ASSUME NEW t \in Threads, Writes(t) PROVE LeaveHands
  BY <1>12 DEF Writes
<1>13. ASSUME NEW t \in Threads, Deletes(t) PROVE LeaveHands
  BY <1>13 DEF Deletes
<1>14. ASSUME NEW t \in Threads, Onward(t) PROVE LeaveHands
  BY <1>14 DEF Onward, NextPlace
<1>15. QED
  BY <1>1, <1>2, <1>3, <1>4, <1>5, <1>6, <1>7, <1>8, <1>9, <1>10, <1>11, <1>12, <1>13, <1>14 DEF ServerStep

-----------------------------------------------------------------------------
(* What the places hold stays expected.                                     *)

LEMMA ServerWiresExpected ==
    ASSUME IInv, ServerStep
    PROVE  WiresExpected'
<1> SUFFICES ASSUME NEW c \in Conns, OnWire(c)'
             PROVE  /\ Expected(c, wire[c].to, Message(wire[c].text))'
                    /\ ~Queued(wire[c].to)'
  BY DEF WiresExpected
<1>1. OnWire(c) /\ wire'[c].to = wire[c].to /\ wire'[c].text = wire[c].text
  BY ServerWires DEF StayOnWire
<1>2. PICK x \in Conns, f \in Frames :
         /\ x = wire[c].to /\ f = Message(wire[c].text) /\ Expected(c, x, f) /\ ~Queued(x)
  <2>1. Expected(c, wire[c].to, Message(wire[c].text)) /\ ~Queued(wire[c].to)
    BY <1>1 DEF IInv, WiresExpected
  <2>2. QED
    BY <2>1, ExpectedOnce
<1>3. \A t \in Threads : Delivers(t) => c # conn[t]
  BY <1>1 DEF Delivers
<1>4. Expected(c, x, f)'
  BY <1>2, <1>3, DeliversOnly
<1>5. ASSUME NEW t \in Threads, Adds(t), x = spot[t] PROVE FALSE
  <2>1. Expected(conn[t], spot[t], content[conn[t]]) /\ ~OnWire(conn[t])
    BY <1>5 DEF IInv, HandsExpected, Adds, Linking
  <2>2. QED
    BY <1>1, <1>2, <1>5, <2>1, ExpectedOnce
<1>6. ~Queued(x)'
  BY <1>2, <1>5, ServerQueues DEF StayQueued
<1>7. QED
  BY <1>1, <1>2, <1>4, <1>6 DEF Expected, Queued

LEMMA ServerHandsExpected ==
    ASSUME IInv, ServerStep
    PROVE  HandsExpected'
<1> SUFFICES ASSUME NEW u \in Threads
             PROVE  (/\ pc[u] = "construct" =>
                        /\ u = Acceptor
                        /\ Expected(conn[u], conn[u], Greeting(conn[u]))
                        /\ currentBuffer[conn[u]] = NoConn
                     /\ pc[u] \in Linking \cup Linked =>
                        /\ Expected(conn[u], spot[u], content[conn[u]])
                        /\ ~OnWire(conn[u])
                     /\ pc[u] \in Linking => ~Queued(spot[u])
                     /\ pc[u] \in Linked \cup {"wrote"} => currentBuffer[spot[u]] = conn[u])'
  BY DEF HandsExpected
<1>1. pc'[u] = "construct" =>
        /\ u = Acceptor
        /\ Expected(conn[u], conn[u], Greeting(conn[u]))'
        /\ currentBuffer'[conn'[u]] = NoConn
  <2>1. ASSUME pc'[u] = "construct", pc[u] = "construct", conn'[u] = conn[u],
               currentBuffer'[conn[u]] = NoConn
        PROVE  u = Acceptor /\ Expected(conn[u], conn[u], Greeting(conn[u]))'
    <3>1. PICK c \in Conns : c = conn[u]
      BY <2>1, Busy
    <3>2. u = Acceptor /\ Expected(c, c, Greeting(c))
      BY <2>1, <3>1 DEF IInv, HandsExpected
    <3>3. \A t \in Threads : Delivers(t) => c # conn[t]
      BY <2>1, <3>1, Busy DEF Delivers
    <3>4. Expected(c, c, Greeting(c))'
      BY <3>2, <3>3, DeliversOnly
    <3>5. QED
      BY <2>1, <3>1, <3>2, <3>4 DEF Expected
  <2>2. ASSUME u = Acceptor, Accepts
        PROVE  /\ Expected(conn[u], conn[u], Greeting(conn[u]))'
               /\ currentBuffer'[conn'[u]] = NoConn
    <3>1. PICK c \in Conns : /\ phase[c] = "unborn" /\ link[c] # "none" /\ conn'[u] = c
                             /\ inbox' = inbox /\ currentBuffer' = currentBuffer
      BY <2>2, AllThreads DEF Accepts, testVars
    <3>2. inbox[c] = <<>> /\ currentBuffer[c] = NoConn /\ Ungreeted(c)
      BY <3>1 DEF IInv, EndsAgree
    <3>3. Expected(c, c, Greeting(c))'
      BY <3>1, <3>2, ServerExpects DEF Expected
    <3>4. QED
      BY <3>1, <3>2, <3>3 DEF Expected
  <2>3. QED
    BY <2>1, <2>2, ServerHands DEF StayInHands
(* It is as it was expected, and no longer on the wire. *)
<1>2. pc'[u] \in Linking \cup Linked =>
        /\ Expected(conn[u], spot[u], content[conn[u]])'
        /\ ~OnWire(conn[u])'
        /\ pc'[u] \in Linking => ~Queued(spot[u])'
  <2>1. ASSUME pc'[u] \in Linking \cup Linked, pc[u] \in Linking \cup Linked,
               conn'[u] = conn[u], spot'[u] = spot[u], content'[conn[u]] = content[conn[u]],
               pc'[u] \in Linking => pc[u] \in Linking
        PROVE  /\ Expected(conn[u], spot[u], content[conn[u]])'
               /\ ~OnWire(conn[u])'
               /\ pc'[u] \in Linking => ~Queued(spot[u])'
    <3>1. PICK c \in Conns, x \in Conns, f \in Frames : c = conn[u] /\ x = spot[u] /\ f = content[c]
      <4>1. Expected(conn[u], spot[u], content[conn[u]])
        BY <2>1 DEF IInv, HandsExpected
      <4>2. QED
        BY <4>1, ExpectedOnce
    <3>2. Expected(c, x, f) /\ ~OnWire(c) /\ pc[u] # "idle"
      BY <2>1, <3>1 DEF IInv, HandsExpected, Linking, Linked
    <3>3. \A t \in Threads : Delivers(t) => c # conn[t]
      BY <2>1, <3>1, <3>2, Busy DEF Delivers, Linking, Linked
    <3>4. Expected(c, x, f)'
      BY <3>2, <3>3, DeliversOnly
    <3>5. ~OnWire(c)'
      BY <3>2, ServerWires DEF StayOnWire
    <3>6. ASSUME pc'[u] \in Linking PROVE ~Queued(x)'
      <4>1. ~Queued(x) /\ pc[u] \in Linking
        BY <2>1, <3>1, <3>6 DEF IInv, HandsExpected
      <4>2. ASSUME NEW t \in Threads, Adds(t), x = spot[t] PROVE FALSE
        <5>1. pc[t] = "addDibb" /\ pc'[t] = "setLength"
          BY <4>2 DEF Adds
        <5>2. Expected(conn[t], x, content[conn[t]])
          BY <4>2, <5>1 DEF IInv, HandsExpected, Linking
        <5>3. conn[t] = conn[u]
          BY <3>1, <3>2, <5>2, ExpectedOnce
        <5>4. t = u
          BY <3>2, <5>3, Busy
        <5>5. QED
          BY <3>6, <5>1, <5>4 DEF Linking
      <4>3. QED
        BY <4>1, <4>2, ServerQueues DEF StayQueued
    <3>7. QED
      BY <2>1, <3>1, <3>4, <3>5, <3>6 DEF Expected, OnWire, Queued
  <2>2. ASSUME u = Acceptor, Welcomes
        PROVE  /\ Expected(conn[u], spot[u], content[conn[u]])'
               /\ ~OnWire(conn[u])' /\ ~Queued(spot[u])'
    <3>1. PICK c \in Conns : /\ c = conn[u] /\ pc[u] = "construct"
                             /\ conn' = conn /\ spot'[u] = c /\ content'[c] = Greeting(c)
                             /\ inbox' = inbox /\ currentBuffer' = currentBuffer
      BY <2>2, AllThreads DEF Welcomes
    <3>2. Expected(c, c, Greeting(c)) /\ currentBuffer[c] = NoConn
      BY <3>1 DEF IInv, HandsExpected
    <3>3. ~OnWire(c)
      <4>1. OnWire(c) => Expected(c, wire[c].to, Message(wire[c].text))
        BY DEF IInv, WiresExpected
      <4>2. Message(wire[c].text) # Greeting(c)
        BY StorageAssumption
      <4>3. QED
        BY <3>2, <4>1, <4>2, ExpectedOnce
    <3>4. Expected(c, c, Greeting(c))'
      BY <3>1, <3>2, ServerExpects
    <3>5. ~OnWire(c)'
      BY <3>3, ServerWires DEF StayOnWire
    <3>6. QED
      BY <3>1, <3>2, <3>4, <3>5 DEF Expected, OnWire, Queued
  <2>3. ASSUME Takes(u)
        PROVE  /\ Expected(conn[u], spot[u], content[conn[u]])'
               /\ ~OnWire(conn[u])' /\ ~Queued(spot[u])'
    <3>1. PICK c \in Conns, x \in Conns :
             /\ c = conn[u] /\ x = wire[c].to /\ state[c] = "READ_DATA" /\ pc[u] = "afterRead"
             /\ conn'[u] = c /\ spot'[u] = x /\ content'[c] = Message(wire[c].text)
             /\ state'[c] = "PROCESS_DATA" /\ wire'[c].unread = 0
             /\ wire' = wire /\ inbox' = inbox /\ currentBuffer' = currentBuffer
             /\ \A t \in Threads : t # u => pc'[t] = pc[t] /\ spot'[t] = spot[t]
      BY <2>3 DEF Takes
    <3>2. Expected(c, x, Message(wire[c].text)) /\ ~Queued(x)
      BY <3>1 DEF IInv, WiresExpected, OnWire
    <3>3. Expected(c, x, Message(wire[c].text))'
      BY <3>1, <3>2, ServerExpects DEF Expected, From, To, Text
    <3>4. ~OnWire(c)'
      BY <3>1 DEF OnWire
    <3>5. ~Queued(x)'
      BY <3>1, <3>2 DEF Queued
    <3>6. QED
      BY <3>1, <3>3, <3>4, <3>5 DEF Expected, OnWire, Queued
  <2>4. QED
    BY <2>1, <2>2, <2>3, ServerHands DEF StayInHands
<1>3. pc'[u] \in Linked \cup {"wrote"} => currentBuffer'[spot'[u]] = conn'[u]
  <2>1. pc[u] \in Linked \cup {"wrote"} => currentBuffer[spot[u]] = conn[u]
    BY DEF IInv, HandsExpected
  <2>2. Adds(u) => currentBuffer'[spot'[u]] = conn'[u]
    BY DEF Adds
  <2>3. QED
    BY <2>1, <2>2, ServerHands DEF StayInHands
<1>4. QED
  BY <1>1, <1>2, <1>3 DEF Expected

LEMMA ServerQueuesExpected ==
    ASSUME IInv, ServerStep
    PROVE  QueuesExpected'
<1>1. \A x \in Conns : next'[x] = next[x]
  BY DEF ServerStep, Accepts, Welcomes, HandsOver, ReadsLength, Enters, Reads, ReadsPart, Takes,
         Compares, Adds, Delivers, Writes, Deletes, Onward
<1>2. ASSUME NEW x \in Conns, Queued(x)'
      PROVE  Expected(currentBuffer[x], x, content[currentBuffer[x]])'
  <2>1. ASSUME Queued(x), currentBuffer'[x] = currentBuffer[x], inbox'[x] = inbox[x],
               content'[currentBuffer[x]] = content[currentBuffer[x]]
        PROVE  Expected(currentBuffer[x], x, content[currentBuffer[x]])'
    <3>1. Expected(currentBuffer[x], x, content[currentBuffer[x]])
      BY <2>1 DEF IInv, QueuesExpected
    <3>2. PICK b \in Conns, f \in Frames : b = currentBuffer[x] /\ f = content[b]
      BY <3>1, ExpectedOnce
    <3>3. Expected(b, x, f)'
      BY <2>1, <3>1, <3>2, ServerDelivers
    <3>4. QED
      BY <2>1, <3>2, <3>3 DEF Expected
  <2>2. ASSUME NEW t \in Threads, Adds(t), x = spot[t]
        PROVE  Expected(currentBuffer[x], x, content[currentBuffer[x]])'
    <3>1. Expected(conn[t], x, content[conn[t]])
      BY <2>2 DEF IInv, HandsExpected, Adds, Linking
    <3>2. currentBuffer'[x] = conn[t] /\ content' = content /\ inbox' = inbox
      BY <2>2 DEF Adds, testVars
    <3>3. PICK b \in Conns, f \in Frames : b = conn[t] /\ f = content[b]
      BY <3>1, ExpectedOnce
    <3>4. Expected(b, x, f)'
      BY <3>1, <3>2, <3>3, ServerExpects
    <3>5. QED
      BY <3>2, <3>3, <3>4 DEF Expected
  <2>3. QED
    BY <1>2, <2>1, <2>2, ServerQueues DEF StayQueued
<1>3. QED
  BY <1>1, <1>2 DEF QueuesExpected, IInv

(* A frame moves on from place to place, and none is dropped on the way. *)
LEMMA ServerSomewhere ==
    ASSUME IInv, ServerStep
    PROVE  Somewhere'
<1> SUFFICES ASSUME where = "receive" PROVE Somewhere'
  BY ServerExpects DEF Somewhere
<1>1. PICK b \in Conns, x \in Conns : b = From /\ x = To /\ From' = b /\ To' = x
  BY Sockets, ServerExpects
<1> DEFINE Here == \/ inbox'[x] # <<>> \/ OnWire(b)'
                   \/ \E t \in Threads : conn'[t] = b /\ pc'[t] \in Linking \cup Linked
                   \/ currentBuffer'[x] = b /\ Queued(x)'
<1>2. ASSUME inbox[x] # <<>> PROVE Here
  <2>1. ASSUME NEW t \in Threads, Delivers(t), x = spot[t] PROVE FALSE
    BY <1>2, <2>1 DEF Delivers, Expected
  <2>2. inbox'[x] = inbox[x]
    BY <2>1, ServerDelivers
  <2>3. QED
    BY <1>2, <2>2
<1>3. ASSUME OnWire(b) PROVE Here
  BY <1>3, ServerLeavesWire DEF LeaveWire
<1>4. ASSUME currentBuffer[x] = b, Queued(x) PROVE Here
  BY <1>4, ServerLeavesQueue DEF LeaveQueue
<1>5. ASSUME NEW t \in Threads, conn[t] = b, pc[t] \in Linking \cup Linked, inbox[x] = <<>>
      PROVE  Here
  <2>1. spot[t] = x
    <3>1. Expected(b, spot[t], content[b])
      BY <1>5 DEF IInv, HandsExpected
    <3>2. Expected(b, x, Message(Text))
      BY <1>1, <1>5 DEF Expected
    <3>3. QED
      BY <3>1, <3>2, ExpectedOnce
  <2>2. CASE pc[t] = "trySend"
    <3>1. currentBuffer[x] = b /\ Queued(x)
      BY <1>5, <2>1, <2>2, LinkedQueued DEF IInv, HandsExpected, Linked
    <3>2. QED
      BY <1>4, <3>1
  <2>3. CASE pc[t] # "trySend"
    BY <1>5, <2>1, <2>3, ServerLeavesHands DEF LeaveHands
  <2>4. QED
    BY <2>2, <2>3
<1>6. Here
  BY <1>1, <1>2, <1>3, <1>4, <1>5 DEF IInv, Somewhere
<1>7. QED
  BY <1>1, <1>6 DEF Somewhere, OnWire, Queued

-----------------------------------------------------------------------------
(* The theorems.                                                            *)

LEMMA InitIInv == TestInit => IInv
<1> SUFFICES ASSUME TestInit PROVE IInv
  OBVIOUS
<1> USE StorageAssumption, TestAssumption, LengthType DEF TestInit
<1>1. StorageInv
  BY InitStorageInv
<1>2. TestTypes
  <2>1. Work \in Seq({"relayTest", "reconnectSomeClients"}) /\ Len(Work) \in Nat
    OBVIOUS
  <2>2. [unread |-> 0, to |-> NoConn, text |-> 0] \in Wires /\ Message(0) \in Frames
    BY DEF Wires, Frames
  <2>3. /\ wire \in [Conns -> Wires] /\ inbox \in [Conns -> Seq(Frames)]
        /\ content \in [Conns -> Frames]
    BY <2>2
  <2>4. TestTypeOK
    BY <2>1 DEF TestTypeOK
  <2>5. QED
    BY <2>1, <2>3, <2>4 DEF TestTypes
<1>3. ClientsFollow
  BY DEF ClientsFollow, Apart
<1>4. EndsAgree /\ Arrived
  BY DEF Init, EndsAgree, Arrived
<1>5. WiresExpected /\ HandsExpected /\ QueuesExpected
  BY DEF Init, WiresExpected, OnWire, HandsExpected, Linking, Linked, QueuesExpected, Queued
<1>6. BytesCounted
  BY DEF Init, BytesCounted, Counted
<1>7. CallsAgree /\ Somewhere
  BY DEF Init, CallsAgree, Using, Holding, Linking, Linked, Somewhere
<1>8. QED
  BY <1>1, <1>2, <1>3, <1>4, <1>5, <1>6, <1>7 DEF IInv

LEMMA StutterIInv == IInv /\ UNCHANGED allVars => IInv'
<1> SUFFICES ASSUME IInv, UNCHANGED allVars PROVE IInv'
  OBVIOUS
<1> USE DEF IInv, allVars, testVars
<1>1. UNCHANGED vars => (StorageInv' <=> StorageInv)
  BY DEF StorageInv, TypeOK, OneThreadPerConnection, LocksProtect, RegisteredUntilRemoved,
         RegistryIsLive, DibsKeepAlive, DibsCoverHolders, Holders
<1>2. TestTypes' /\ ClientsFollow'
  BY DEF TestTypes, TestTypeOK, ClientsFollow, Apart, New, Greeted
<1>3. EndsAgree' /\ Arrived'
  BY DEF EndsAgree, Ungreeted, Arrived, To, Text
<1>4. /\ \A b, x, f : Expected(b, x, f)' <=> Expected(b, x, f)
      /\ \A c : OnWire(c)' <=> OnWire(c)
      /\ \A x : Queued(x)' <=> Queued(x)
  BY ServerKeeps DEF OnWire, Queued
<1>5. WiresExpected' /\ HandsExpected' /\ QueuesExpected'
  BY <1>4 DEF WiresExpected, HandsExpected, QueuesExpected
<1>6. BytesCounted' /\ CallsAgree' /\ Somewhere'
  BY <1>4 DEF BytesCounted, Counted, CallsAgree, Somewhere, From, To
<1>7. QED
  BY <1>1, <1>2, <1>3, <1>5, <1>6

LEMMA StepIInv == IInv /\ StorageInv' /\ [TestNext]_allVars => IInv'
<1>1. ASSUME IInv, StorageInv', Driver PROVE IInv'
  BY <1>1, DriverTypes, DriverClients, DriverEnds, DriverArrived, DriverFrames DEF IInv
<1>2. ASSUME IInv, StorageInv', ServerStep PROVE IInv'
  BY <1>2, ServerTypes, ServerClients, ServerEnds, ServerArrived, ServerWiresExpected,
     ServerHandsExpected, ServerQueuesExpected, ServerBytes, ServerCalls, ServerSomewhere DEF IInv
<1>3. QED
  BY <1>1, <1>2, StutterIInv, ServerSteps

LEMMA TestInvariant == TestSpec => []IInv
<1>1. TestSpec => []StorageInv
  BY TestRunsStorage, StorageInvariant, PTL
<1>2. QED
  BY <1>1, InitIInv, StepIInv, PTL DEF TestSpec

(* Whoever has an id has its own: however connections and threads follow one
   another, no client takes the welcome of another connection, or a message
   for it, for its own welcome. *)
THEOREM WelcomesAreOwn == TestSpec => []GreetedWithOwnId
<1>1. IInv => GreetedWithOwnId
  BY StorageAssumption DEF IInv, ClientsFollow, Apart, New, Greeted, GreetedWithOwnId, TestTypes, TestTypeOK
<1>2. QED
  BY <1>1, TestInvariant, PTL

(* What arrives while the test waits is what was sent, once: no read() into a
   Buffer that still waits to be written changes its text. *)
THEOREM TextsAreRight == TestSpec => []RightText
<1>1. IInv => RightText
  <2> SUFFICES ASSUME IInv, where = "receive" PROVE inbox[To] \in {<<>>, <<Message(Text)>>}
    BY DEF RightText, To, Text
  <2>1. To \in Conns /\ ~Ungreeted(To)
    BY Sockets
  <2>2. QED
    BY <2>1 DEF IInv, Arrived
<1>2. QED
  BY <1>1, TestInvariant, PTL

(* The processor and the stream agree on where each frame begins, whatever the
   lengths of the reads and whoever else has just released the Buffer. *)
THEOREM FramesStayInStep == TestSpec => []TestInv
<1>1. IInv => TestInv
  <2> SUFFICES ASSUME IInv, NEW c \in Conns, NotRunning(c)
               PROVE  IF state[c] = "READ_DATA" THEN wire[c].unread = bytesToRead[c]
                      ELSE wire[c].unread \in {0, Length + 1}
    BY DEF IInv, TestTypes, TestInv, InStep
  <2>1. QED
    BY DEF IInv, BytesCounted, Counted, NotRunning
<1>2. QED
  BY <1>1, TestInvariant, PTL

(* The walk along a queue begins with its first buffer. *)
LEMMA FirstIsQueued ==
    ASSUME NEW x, currentBuffer[x] \in Conns, \A c \in Conns : next[c] = NoConn
    PROVE  currentBuffer[x] \in Queue(x)
<1> DEFINE D == 0 .. Cardinality(Conns)
           Walks(w) == w = [n \in D |-> IF n = 0 THEN currentBuffer[x]
                                        ELSE IF w[n - 1] = NoConn THEN NoConn ELSE next[w[n - 1]]]
           walk == CHOOSE w : Walks(w)
           v == [n \in D |-> IF n = 0 THEN currentBuffer[x] ELSE NoConn]
<1>1. 0 \in D /\ \A n \in D : n # 0 => n - 1 \in D
  BY FiniteConns, FS_CardinalityType
<1>2. Walks(v)
  <2>1. \A n \in D : v[n] = IF n = 0 THEN currentBuffer[x]
                            ELSE IF v[n - 1] = NoConn THEN NoConn ELSE next[v[n - 1]]
    BY <1>1
  <2>2. QED
    BY <2>1
<1>3. Walks(walk)
  BY <1>2
<1>4. DOMAIN walk = D /\ walk[0] = currentBuffer[x]
  BY <1>1, <1>3
<1>5. Queue(x) = {walk[n] : n \in DOMAIN walk} \ {NoConn}
  BY DEF Queue
<1>6. QED
  BY <1>1, <1>4, <1>5, StorageAssumption

(* No message is dropped between its sender and the one it is for. *)
THEOREM MessagesAreSomewhere == TestSpec => []NotLost
<1>1. IInv => NotLost
  <2> SUFFICES ASSUME IInv, where = "receive"
               PROVE  \/ inbox[To] # <<>> \/ wire[From].unread > 0
                      \/ ~NotRunning(From) \/ From \in Queue(To)
    BY DEF NotLost, From, To
  <2>1. From \in Conns /\ To \in Conns
    BY Sockets
  <2>2. CASE OnWire(From)
    <3>1. state[From] = "READ_DATA" => wire[From].unread > 0 \/ ~NotRunning(From)
      BY <2>1, LengthType DEF IInv, BytesCounted, Counted, NotRunning
    <3>2. QED
      BY <2>2, <3>1 DEF OnWire
  <2>3. CASE \E t \in Threads : conn[t] = From /\ pc[t] \in Linking \cup Linked
    BY <2>3 DEF NotRunning
  <2>4. CASE currentBuffer[To] = From
    <3>1. \A c \in Conns : next[c] = NoConn
      BY DEF IInv, QueuesExpected
    <3>2. QED
      BY <2>1, <2>4, <3>1, FirstIsQueued
  <2>5. QED
    BY <2>2, <2>3, <2>4 DEF IInv, Somewhere
<1>2. QED
  BY <1>1, TestInvariant, PTL
=============================================================================
