----------------------------- MODULE RelayTest -----------------------------
(***************************************************************************)
(* The communication test of the repository (network/client) against the   *)
(* server: one thread connects a few clients, which are welcomed with      *)
(* their ids, lets one send another a message and waits for it to arrive,  *)
(* many times, and reconnects some of them in between.                     *)
(*                                                                         *)
(* The steps of the server are those of RelayStorage, where what a read    *)
(* returns, whom a frame is for and what a write delivers is now settled   *)
(* by the clients' ends of the sockets.  A handler that polls a socket     *)
(* without news changes nothing, and such polls are left out.  Frames are  *)
(* a few bytes and their receiver waits for them, so a write is complete.  *)
(* The server has few clients, with ids that a signed char can be, too,    *)
(* and it is not stopped: the clients end first.                           *)
(***************************************************************************)
EXTENDS RelayStorage, Sequences

CONSTANTS Clients,    \* the Client objects of ClientCreator
          Work,       \* what creationWork() does after startClients()
          Times,      \* the relays of one relayTest(), 10 in the code
          Length      \* the length of the frames that are sent

ASSUME TestAssumption ==
    /\ Clients # {}
    /\ Work \in Seq({"relayTest", "reconnectSomeClients"})
    /\ Times \in Nat \ {0}
    /\ Length \in FrameLengths /\ Length > 2

ASSUME FiniteConns == IsFiniteSet(Conns)

VARIABLES
    socketID, clientID,   \* the fields of each Client; an id is known by its connection
    link,      \* the client's end of each connection: none, open, closed
    wire,      \* the last frame written to it: bytes yet unread, addressee, text
    inbox,     \* the frames that have arrived for the client
    content,   \* the frame in the Buffer of each connection
    where,     \* where the thread of the ClientCreator is
    turn,      \* how much of Work it has begun
    picked,    \* the clients it connects or reconnects
    todo,      \* those of them still to come in the loop it is in
    left,      \* the relays still to come in this relayTest()
    pair       \* the client that sends and the one that receives

clientVars == <<socketID, clientID, link>>
driverVars == <<where, turn, picked, todo, left, pair>>
testVars == <<clientVars, wire, inbox, content, driverVars>>
allVars == <<vars, testVars>>

Greeting(c) == [id |-> c, text |-> 0]
Message(n) == [id |-> NoConn, text |-> n]

TestTypeOK ==
    /\ socketID \in [Clients -> Conns \cup {NoConn}]
    /\ clientID \in [Clients -> Conns \cup {NoConn}]
    /\ link \in [Conns -> {"none", "open", "closed"}]
    /\ \A c \in Conns :
        /\ wire[c].unread \in 0 .. Length + 1
        /\ wire[c].to \in Conns \cup {NoConn}
    /\ where \in {"start", "greet", "work", "send", "receive", "stop", "done"}
    /\ turn \in 0 .. Len(Work) + 1
    /\ todo \subseteq picked /\ picked \subseteq Clients
    /\ left \in 0 .. Times

TestInit ==
    /\ Init
    /\ socketID = [k \in Clients |-> NoConn]
    /\ clientID = [k \in Clients |-> NoConn]
    /\ link = [c \in Conns |-> "none"]
    /\ wire = [c \in Conns |-> [unread |-> 0, to |-> NoConn, text |-> 0]]
    /\ inbox = [c \in Conns |-> <<>>]
    /\ content = [c \in Conns |-> Message(0)]
    /\ where = "start" /\ turn = 0
    /\ picked = Clients /\ todo = Clients
    /\ left = 0 /\ pair = <<>>

-----------------------------------------------------------------------------
(* The thread of the ClientCreator: creationWork().                         *)

(* One round of a loop over the picked clients, which what is at after follows. *)
Loop(k, here, after) ==
    /\ where = here
    /\ k \in todo
    /\ IF todo = {k}
       THEN where' = after /\ todo' = picked
       ELSE todo' = todo \ {k} /\ UNCHANGED where
    /\ UNCHANGED <<turn, picked, left, pair>>

(* Client::start(): connect() succeeds before the server accepts. *)
StartClient(k) ==
    /\ Loop(k, "start", "greet")
    /\ \E c \in Conns :
        /\ link[c] = "none"
        /\ link' = [link EXCEPT ![c] = "open"]
        /\ socketID' = [socketID EXCEPT ![k] = c]
    /\ UNCHANGED <<clientID, wire, inbox, content>>

(* Client::greet(): a client without an id waits for the first frame, and
   takes its first byte for the id. *)
Greet(k) ==
    LET c == socketID[k]
    IN  /\ Loop(k, "greet", "work")
        /\ \/ /\ clientID[k] = NoConn
              /\ inbox[c] # <<>>
              /\ clientID' = [clientID EXCEPT ![k] = Head(inbox[c]).id]
              /\ inbox' = [inbox EXCEPT ![c] = Tail(@)]
           \/ /\ clientID[k] # NoConn
              /\ UNCHANGED <<clientID, inbox>>
        /\ UNCHANGED <<socketID, link, wire, content>>

(* A mutant of StopClient: the client keeps the id it had. *)
StopClientKeepsId(k) ==
    /\ Loop(k, "stop", IF turn > Len(Work) THEN "done" ELSE "start")
    /\ link' = [link EXCEPT ![socketID[k]] = "closed"]
    /\ socketID' = [socketID EXCEPT ![k] = NoConn]
    /\ UNCHANGED <<clientID, wire, inbox, content>>

(* Client::stop() *)
StopClient(k) ==
    /\ Loop(k, "stop", IF turn > Len(Work) THEN "done" ELSE "start")
    /\ link' = [link EXCEPT ![socketID[k]] = "closed"]
    /\ socketID' = [socketID EXCEPT ![k] = NoConn]
    /\ clientID' = [clientID EXCEPT ![k] = NoConn]
    /\ UNCHANGED <<wire, inbox, content>>

(* The next thing to do: relayTest(), reconnectSomeClients(), which picks
   some at random, or at the end stopClients(). *)
NextWork ==
    /\ where = "work"
    /\ turn' = turn + 1
    /\ IF turn < Len(Work) /\ Work[turn + 1] = "relayTest"
       THEN /\ where' = "send" /\ left' = Times
            /\ UNCHANGED <<picked, todo>>
       ELSE /\ picked' \in IF turn < Len(Work) THEN SUBSET Clients \ {{}} ELSE {Clients}
            /\ todo' = picked'
            /\ where' = "stop"
            /\ UNCHANGED left
    /\ UNCHANGED <<clientVars, wire, inbox, content, pair>>

(* relay(): one client, picked at random, writes a frame for another, or for
   itself: the length, the reaction, the id of the other and a new text. *)
Send(from, to) ==
    /\ where = "send" /\ left > 0
    /\ where' = "receive"
    /\ pair' = <<from, to>>
    /\ wire' = [wire EXCEPT ![socketID[from]] =
                   [unread |-> Length + 1, to |-> clientID[to], text |-> turn * Times + left]]
    /\ UNCHANGED <<clientVars, inbox, content, turn, picked, todo, left>>

(* Client::receive() waits for a frame; another text than the one that was
   sent ends the relayTest(). *)
ReceiveRelayed ==
    LET c == socketID[pair[2]]
    IN  /\ where = "receive"
        /\ inbox[c] # <<>>
        /\ inbox' = [inbox EXCEPT ![c] = Tail(@)]
        /\ left' = IF Head(inbox[c]).text = turn * Times + left THEN left - 1 ELSE 0
        /\ where' = IF left' = 0 THEN "work" ELSE "send"
        /\ pair' = <<>>
        /\ UNCHANGED <<clientVars, wire, content, turn, picked, todo>>

Driver ==
    /\ \/ \E k \in Clients : StartClient(k) \/ Greet(k) \/ StopClient(k)
       \/ NextWork
       \/ \E from, to \in Clients : Send(from, to)
       \/ ReceiveRelayed
    /\ UNCHANGED vars

-----------------------------------------------------------------------------
(* The server with these clients.                                           *)

(* Something has happened on the connection c that a read() would notice. *)
News(c) == wire[c].unread > 0 \/ link[c] = "closed"

AcceptClient ==
    /\ \E c \in Conns : link[c] # "none" /\ Register(c)
    /\ UNCHANGED testVars

WelcomeClient ==
    /\ Welcome /\ pc'[Acceptor] = "find"
    /\ content' = [content EXCEPT ![conn[Acceptor]] = Greeting(conn[Acceptor])]
    /\ UNCHANGED <<clientVars, wire, inbox, driverVars>>

HandOverClient == HandOver /\ UNCHANGED testVars

(* n more bytes are read from c. *)
Consume(c, n) == wire' = [wire EXCEPT ![c].unread = @ - n]

(* The length byte is read, or the end of the stream, or a call goes on. *)
StartCall(t, c) ==
    /\ \/ /\ wire[c].unread > 0 /\ ReadLength(t, c)
          /\ objLen'[c] = Length
          /\ Consume(c, 1)
       \/ /\ wire[c].unread = 0 /\ link[c] = "closed"
          /\ EndOfStream(t, c)
          /\ UNCHANGED wire
       \/ /\ News(c)
          /\ ResumeData(t, c)
          /\ UNCHANGED wire
       \/ /\ ResumeResponse(t, c)
          /\ UNCHANGED wire
    /\ UNCHANGED <<clientVars, inbox, content, driverVars>>

(* read() returns some of the bytes that are there; without any it returns 0
   if the client has closed its end, and an error otherwise. *)
ReadSome(t) ==
    LET c == conn[t]
        n == result'[t]
    IN  /\ ReadData(t)
        /\ IF wire[c].unread > 0 /\ bytesToRead[c] # 0 THEN n \in 1 .. wire[c].unread
           ELSE n = IF link[c] = "closed" \/ bytesToRead[c] = 0 THEN 0 ELSE -1
        /\ Consume(c, IF n > 0 THEN n ELSE 0)
        /\ UNCHANGED <<clientVars, inbox, content, driverVars>>

(* A complete frame is a relay to the id it carries. *)
TakeFrame(t) ==
    LET c == conn[t]
    IN  /\ AfterRead(t)
        /\ IF state'[c] = "PROCESS_DATA"
           THEN /\ pc'[t] = "consume" /\ spot'[t] = wire[c].to
                /\ content' = [content EXCEPT ![c] = Message(wire[c].text)]
           ELSE UNCHANGED content
        /\ UNCHANGED <<clientVars, wire, inbox, driverVars>>

(* write() delivers all of the current buffer. *)
Deliver(t) ==
    LET x == spot[t]
        b == currentBuffer[x]
    IN  /\ Write(t)
        /\ result'[t] = objLen[b]
        /\ inbox' = [inbox EXCEPT ![x] = IF objLen[b] > 0 THEN Append(@, content[b]) ELSE @]
        /\ UNCHANGED <<clientVars, wire, content, driverVars>>

(* Everything else goes on without the client. *)
GoOn(t) ==
    /\ \/ TakeReaction(t) /\ pc'[t] = "find"
       \/ Return(t) \/ Compare(t)
       \/ FindClient(t) \/ LockInfo(t) \/ AddDibb(t) \/ SetLength(t) \/ SetNext(t)
       \/ TrySend(t) \/ AfterWrite(t) \/ Sent(t)
       \/ LockDib(t) \/ DropDib(t) \/ UnlockFreed(t)
       \/ Close(t)
    /\ UNCHANGED testVars

Call(t) == ReadSome(t) \/ TakeFrame(t) \/ Deliver(t) \/ GoOn(t)

TestNext ==
    \/ Driver
    \/ AcceptClient \/ WelcomeClient \/ HandOverClient
    \/ \E t \in Workers, c \in Conns : StartCall(t, c)
    \/ \E t \in Threads : Call(t)

TestSpec == TestInit /\ [][TestNext]_allVars

-----------------------------------------------------------------------------
(* Safety.                                                                  *)

(* Whatever else the server is doing, the first frame a client gets is the
   welcome made for its own connection: it never takes another's id for its own. *)
GreetedWithOwnId ==
    \A k \in Clients : clientID[k] # NoConn => clientID[k] = socketID[k]

(* The text that arrives is the one that was sent, once: the buffer has not
   been read into while it waited to be written. *)
RightText ==
    where = "receive" =>
        inbox[socketID[pair[2]]] \in {<<>>, <<Message(turn * Times + left)>>}

(* The processor and the stream agree on where a frame begins: between two
   calls nothing or all of a frame is unread, or as much as bytesToRead says. *)
InStep ==
    \A c \in Conns : phase[c] = "served" /\ NotRunning(c) =>
        CASE state[c] = "READ_DATA" -> wire[c].unread = bytesToRead[c]
          [] OTHER -> wire[c].unread \in {0, Length + 1}

(* Types, and that agreement. *)
TestInv == TestTypeOK /\ InStep

(* A message that the test waits for may be stuck, but it is somewhere: on the
   wire, with a thread, or in the queue of the client it is for. *)
NotLost ==
    where = "receive" =>
        LET from == socketID[pair[1]]
            to == socketID[pair[2]]
        IN  \/ inbox[to] # <<>>
            \/ wire[from].unread > 0
            \/ ~NotRunning(from)
            \/ from \in Queue(to)

-----------------------------------------------------------------------------
(* Liveness: the threads of the server and of the test run.                 *)
TestFairness ==
    /\ WF_allVars(Driver)
    /\ WF_allVars(AcceptClient) /\ WF_allVars(WelcomeClient) /\ WF_allVars(HandOverClient)
    /\ \A c \in Conns : WF_allVars(\E t \in Workers : StartCall(t, c))
    /\ \A t \in Threads : WF_allVars(Call(t))

FairTestSpec == TestSpec /\ TestFairness

(* Whoever connects is welcomed in the end, and learns its id. *)
GreetingsArrive == where = "greet" ~> where # "greet"

(* ClientCreator.cpp:42-46: start() creates a thread "which connects all
   clients, then runs communication tests on each one"; it ends by printing
   "done with tests" (:116). *)
TestsEnd == <>(where = "done")
=============================================================================
