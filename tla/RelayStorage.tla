---------------------------- MODULE RelayStorage ----------------------------
(***************************************************************************)
(* The shared storage through which the handler threads relay messages:    *)
(* the registry's tryGet and remove, the reference count ("dibs") and the  *)
(* queue of buffers of each ClientInfo, the Buffer of each processor, and  *)
(* ClientResponder and ClientProcessor, whose calls touch them.            *)
(*                                                                         *)
(* A connection c in Conns stands for one accepted socket together with    *)
(* the three objects made for it: its ClientInfo, its ClientProcessor and  *)
(* the processor's Buffer.  Every step of a thread is what it does between *)
(* two points where another thread can see or change what it shares.       *)
(*                                                                         *)
(* Lengths are bytes.  objLen and bytesToRead are size_t: a negative value  *)
(* -k stands for 2^64 - k, which is what the code compares its signed      *)
(* results with.                                                           *)
(***************************************************************************)
EXTENDS Integers, FiniteSets

CONSTANTS Conns,         \* the connections the server is given
          Workers,       \* the threads of the client handlers
          Acceptor,      \* the server thread, which accepts and welcomes
          NoConn,        \* a NULL pointer or an empty hand
          NoThread,      \* a free mutex
          FrameLengths,  \* the length bytes a client may send
          BytesToWrite,  \* BYTES_TO_WRITE, after which send() stops looping
          Uninitialised, \* what bytesToRead may hold in a Buffer never reset
          MaxReads       \* bound: how many reads of each socket return data

Threads == Workers \cup {Acceptor}

ASSUME StorageAssumption ==
    /\ IsFiniteSet(Workers)
    /\ Acceptor \notin Workers
    /\ NoConn \notin Conns
    /\ NoThread \notin Threads
    /\ FrameLengths \subseteq Nat
    /\ BytesToWrite \in Nat
    /\ Uninitialised \subseteq Nat
    /\ MaxReads \in [Conns -> Nat]

VARIABLES
    phase,         \* each connection: unborn, accepted, served, closed, cleaned
    state,         \* ClientProcessor::state
    reads,         \* data-returning reads of each socket, for MaxReads
    objLen, bytesToRead, next,        \* the fields of each Buffer
    registered,    \* ClientManager::clients, as a set of connections
    readers,       \* the threads that hold the registry lock shared
    life,          \* each ClientInfo: none, alive, freed
    infoLock,      \* ClientInfo::lock
    dibs, deleteSoon, currentBuffer, lastBuffer,   \* and its other fields
    pc,            \* where each thread is
    conn,          \* the connection each thread is working for
    spot,          \* infoSpot: the ClientInfo the thread relays to
    result,        \* what the thread's last read(), write() or processData() returned
    total          \* totalBytesWritten in send()

processorVars == <<phase, state, reads>>
bufferVars == <<objLen, bytesToRead, next>>
registryVars == <<registered, readers>>
infoVars == <<life, infoLock, dibs, deleteSoon, currentBuffer, lastBuffer>>
callVars == <<result, total>>
vars == <<processorVars, bufferVars, registryVars, infoVars, pc, conn, spot, callVars>>

Phases == {"unborn", "accepted", "served", "closed", "cleaned"}
ProcessorStates == {"READ_LEN", "READ_DATA", "PROCESS_DATA"}

(* The places at which a thread holds the mutex of the ClientInfo spot[t]. *)
Locking == {"addDibb", "write", "wrote", "dropDib", "unlockFreed"}

(* The places between addDibb() and the end of the call at which a thread
   counts on the dib it has been given. *)
Holding == {"setLength", "setNext", "trySend", "write", "wrote", "sent",
            "lockDib", "dropDib"}

(* The places at which a thread is going to use the ClientInfo spot[t]. *)
Using == Holding \cup {"lockInfo", "addDibb"}

Places == Using \cup {"idle", "construct", "readData", "afterRead", "consume", "find",
                      "unlockFreed", "return", "compare", "erase", "retire",
                      "deleteProcessor"}

TypeOK ==
    /\ phase \in [Conns -> Phases]
    /\ state \in [Conns -> ProcessorStates]
    /\ reads \in [Conns -> Nat]
    /\ objLen \in [Conns -> Int]
    /\ bytesToRead \in [Conns -> Int]
    /\ next \in [Conns -> Conns \cup {NoConn}]
    /\ registered \in SUBSET Conns
    /\ readers \in SUBSET Threads
    /\ life \in [Conns -> {"none", "alive", "freed"}]
    /\ infoLock \in [Conns -> Threads \cup {NoThread}]
    /\ dibs \in [Conns -> Nat]
    /\ deleteSoon \in [Conns -> BOOLEAN]
    /\ currentBuffer \in [Conns -> Conns \cup {NoConn}]
    /\ lastBuffer \in [Conns -> Conns \cup {NoConn}]
    /\ pc \in [Threads -> Places]
    /\ conn \in [Threads -> Conns \cup {NoConn}]
    /\ spot \in [Threads -> Conns \cup {NoConn}]
    /\ result \in [Threads -> Int]
    /\ total \in [Threads -> Int]

Init ==
    /\ phase = [c \in Conns |-> "unborn"]
    /\ state = [c \in Conns |-> "READ_LEN"]
    /\ reads = [c \in Conns |-> 0]
    /\ objLen = [c \in Conns |-> 0]
    /\ bytesToRead = [c \in Conns |-> 0]
    /\ next = [c \in Conns |-> NoConn]
    /\ registered = {}
    /\ readers = {}
    /\ life = [c \in Conns |-> "none"]
    /\ infoLock = [c \in Conns |-> NoThread]
    /\ dibs = [c \in Conns |-> 0]
    /\ deleteSoon = [c \in Conns |-> FALSE]
    /\ currentBuffer = [c \in Conns |-> NoConn]
    /\ lastBuffer = [c \in Conns |-> NoConn]
    /\ pc = [t \in Threads |-> "idle"]
    /\ conn = [t \in Threads |-> NoConn]
    /\ spot = [t \in Threads |-> NoConn]
    /\ result = [t \in Threads |-> 0]
    /\ total = [t \in Threads |-> 0]

Goto(t, place) == pc' = [pc EXCEPT ![t] = place]

Step(t, from, to) == pc[t] = from /\ Goto(t, to)

(* The thread leaves the processor it has been working for. *)
Leave(t) ==
    /\ Goto(t, "idle")
    /\ conn' = [conn EXCEPT ![t] = NoConn]
    /\ spot' = [spot EXCEPT ![t] = NoConn]

Acquire(t, c) == infoLock[c] = NoThread /\ infoLock' = [infoLock EXCEPT ![c] = t]

Unlock(c) == infoLock' = [infoLock EXCEPT ![c] = NoThread]

(* No thread is inside process(), or inside the constructor, for c. *)
NotRunning(c) == \A t \in Threads : conn[t] # c

-----------------------------------------------------------------------------
(* The acceptor: ClientHandler::addProcessor from allClients->add() on.     *)

(* allClients->add(): c gets an id, and other clients can already see it. *)
Register(c) ==
    /\ pc[Acceptor] = "idle"
    /\ phase[c] = "unborn"
    /\ readers = {}
    /\ phase' = [phase EXCEPT ![c] = "accepted"]
    /\ registered' = registered \cup {c}
    /\ life' = [life EXCEPT ![c] = "alive"]
    /\ Goto(Acceptor, "construct")
    /\ conn' = [conn EXCEPT ![Acceptor] = c]
    /\ UNCHANGED <<state, reads, bufferVars, readers, infoLock, dibs, deleteSoon,
                   currentBuffer, lastBuffer, spot, callVars>>

(* The ClientProcessor constructor up to welcome(), which relays to c itself
   the two bytes that are left of its three once the reaction is consumed.
   Where char is signed, an id above 127 is that of nobody (ClientResponder.cpp:76),
   and a client that has such an id is not welcomed. *)
Welcome ==
    LET c == conn[Acceptor]
    IN  /\ pc[Acceptor] = "construct"
        /\ objLen' = [objLen EXCEPT ![c] = 2]
        /\ \E left \in Uninitialised : bytesToRead' = [bytesToRead EXCEPT ![c] = left]
        /\ \/ Goto(Acceptor, "find") /\ spot' = [spot EXCEPT ![Acceptor] = c]
           \/ Goto(Acceptor, "return") /\ UNCHANGED spot
        /\ UNCHANGED <<processorVars, next, registryVars, infoVars, conn, callVars>>

(* The constructor is done and the processor goes to the active handler. *)
HandOver ==
    /\ pc[Acceptor] = "return"
    /\ phase' = [phase EXCEPT ![conn[Acceptor]] = "served"]
    /\ Leave(Acceptor)
    /\ UNCHANGED <<state, reads, bufferVars, registryVars, infoVars, callVars>>

-----------------------------------------------------------------------------
(* A handler thread: one call of ClientProcessor::process().                *)

Process(t, c) ==
    /\ pc[t] = "idle"
    /\ phase[c] = "served"
    /\ NotRunning(c)
    /\ conn' = [conn EXCEPT ![t] = c]

(* processLen() reads a length byte, resets the buffer to it, falls through. *)
ReadLength(t, c) ==
    /\ Process(t, c)
    /\ state[c] = "READ_LEN"
    /\ reads[c] < MaxReads[c]
    /\ \E len \in FrameLengths :
        /\ objLen' = [objLen EXCEPT ![c] = len]
        /\ bytesToRead' = [bytesToRead EXCEPT ![c] = len]
    /\ reads' = [reads EXCEPT ![c] = @ + 1]
    /\ state' = [state EXCEPT ![c] = "READ_DATA"]
    /\ Goto(t, "readData")
    /\ UNCHANGED <<phase, next, registryVars, infoVars, spot, callVars>>

(* processLen() reads the end of the stream: PROCESS_CLOSE_REQUEST. *)
EndOfStream(t, c) ==
    /\ Process(t, c)
    /\ state[c] = "READ_LEN"
    /\ Goto(t, "erase")
    /\ UNCHANGED <<processorVars, bufferVars, registryVars, infoVars, spot, callVars>>

(* The switch re-enters at ST_READ_DATA. *)
ResumeData(t, c) ==
    /\ Process(t, c)
    /\ state[c] = "READ_DATA"
    /\ Goto(t, "readData")
    /\ UNCHANGED <<processorVars, bufferVars, registryVars, infoVars, spot, callVars>>

(* The switch re-enters at ST_PROCESS_DATA: processResponse(). *)
ResumeResponse(t, c) ==
    /\ pc[t] = "idle"
    /\ phase[c] = "served"
    /\ NotRunning(c)
    /\ state[c] = "PROCESS_DATA"
    /\ state' = [state EXCEPT ![c] = "READ_LEN"]
    /\ UNCHANGED <<phase, reads, bufferVars, registryVars, infoVars, pc, conn, spot, callVars>>

(* What read(socketID, readerPosition, want) can return: an error or an empty
   socket (-1), the end of the stream (0), or some of the bytes asked for; a
   size that has wrapped below zero asks for whatever there is. *)
ReadResults(c) ==
    LET want == bytesToRead[c]
        some == IF want > 0 THEN 1 .. want ELSE FrameLengths \ {0}
    IN  IF want = 0 THEN {0}
        ELSE {-1, 0} \cup (IF reads[c] < MaxReads[c] THEN some ELSE {})

(* processData() has the whole frame, which may be a relay to a client x.
   ClientResponder::process() is done with it if objLen is 0; otherwise it goes
   on with the length it has seen. *)
FrameDone(t, c) ==
    /\ state' = [state EXCEPT ![c] = "PROCESS_DATA"]
    /\ IF objLen[c] = 0
       THEN Goto(t, "return") /\ UNCHANGED spot
       ELSE /\ Goto(t, "consume")
            /\ \E x \in Conns : spot' = [spot EXCEPT ![t] = x]
    /\ result' = [result EXCEPT ![t] = objLen[c]]
    /\ UNCHANGED <<objLen, bytesToRead>>

(* processData() calls read(). *)
ReadData(t) ==
    LET c == conn[t]
    IN  /\ Step(t, "readData", "afterRead")
        /\ \E n \in ReadResults(c) :
            /\ result' = [result EXCEPT ![t] = n]
            /\ reads' = [reads EXCEPT ![c] = IF n > 0 THEN @ + 1 ELSE @]
        /\ UNCHANGED <<phase, state, bufferVars, registryVars, infoVars, conn, spot, total>>

(* A mutant of AfterRead: what has been read is not taken off bytesToRead. *)
AfterReadAgain(t) ==
    LET c == conn[t]
    IN  /\ pc[t] = "afterRead"
        /\ \/ result[t] = bytesToRead[c] /\ FrameDone(t, c)
           \/ /\ result[t] # bytesToRead[c]
              /\ Goto(t, "compare")
              /\ UNCHANGED <<state, objLen, bytesToRead, result, spot>>
        /\ UNCHANGED <<phase, reads, next, registryVars, infoVars, conn, total>>

(* What it returned is compared with the bytesToRead of now, as a size_t. *)
AfterRead(t) ==
    LET c == conn[t]
    IN  /\ pc[t] = "afterRead"
        /\ \/ /\ result[t] = bytesToRead[c]
              /\ FrameDone(t, c)
           \/ /\ result[t] # bytesToRead[c]
              /\ bytesToRead' = [bytesToRead EXCEPT ![c] = IF result[t] > 0 THEN @ - result[t] ELSE @]
              /\ Goto(t, "compare")
              /\ UNCHANGED <<state, objLen, result, spot>>
        /\ UNCHANGED <<phase, reads, next, registryVars, infoVars, conn, total>>

(* objLen--: the reaction byte is taken off the length of now, which another
   thread may have set to 0, or off the one that has been seen before.  relay()
   goes on with two bytes or more. *)
TakeReaction(t) ==
    LET c == conn[t]
    IN  /\ pc[t] = "consume"
        /\ \E len \in {objLen[c], result[t]} : objLen' = [objLen EXCEPT ![c] = len - 1]
        /\ \/ Goto(t, "find") /\ objLen'[c] \notin {0, 1}
           \/ Goto(t, "return")
        /\ result' = [result EXCEPT ![t] = 0]
        /\ UNCHANGED <<processorVars, bytesToRead, next, registryVars, infoVars, conn, spot, total>>

(* processData() has given the frame to the responder: it returns objLen. *)
Return(t) ==
    /\ t # Acceptor
    /\ Step(t, "return", "compare")
    /\ result' = [result EXCEPT ![t] = objLen[conn[t]]]
    /\ spot' = [spot EXCEPT ![t] = NoConn]
    /\ UNCHANGED <<processorVars, bufferVars, registryVars, infoVars, conn, total>>

(* process() goes on to processResponse() when what processData() returned is
   the objLen of now, which it need not be: another thread may just have
   released the buffer.  Otherwise a zero asks for the processor to be closed. *)
Compare(t) ==
    LET c == conn[t]
    IN  /\ pc[t] = "compare"
        /\ result' = [result EXCEPT ![t] = 0]
        /\ \/ /\ result[t] = objLen[c]
              /\ state' = [state EXCEPT ![c] = "READ_LEN"]
              /\ Leave(t)
           \/ /\ result[t] # objLen[c] /\ result[t] = 0
              /\ Goto(t, "erase")
              /\ UNCHANGED <<state, conn, spot>>
           \/ /\ result[t] # objLen[c] /\ result[t] # 0
              /\ Leave(t)
              /\ UNCHANGED state
        /\ UNCHANGED <<phase, reads, bufferVars, registryVars, infoVars, total>>

-----------------------------------------------------------------------------
(* ClientResponder::relay() to the client spot[t]: ClientManager::tryGet(). *)

(* A mutant of FindClient: the registry lock is given up too early. *)
FindClientUnlocked(t) ==
    /\ pc[t] = "find"
    /\ Goto(t, IF spot[t] \in registered THEN "lockInfo" ELSE "return")
    /\ UNCHANGED <<processorVars, bufferVars, registryVars, infoVars, conn, spot, callVars>>

(* lock_shared() and find(); nothing is relayed to an id nobody has.  (The notice
   that is printed then may end the process: see Framing.) *)
FindClient(t) ==
    /\ pc[t] = "find"
    /\ \/ /\ spot[t] \in registered
          /\ readers' = readers \cup {t}
          /\ Goto(t, "lockInfo")
       \/ /\ spot[t] \notin registered
          /\ Goto(t, "return")
          /\ UNCHANGED readers
    /\ UNCHANGED <<processorVars, bufferVars, registered, infoVars, conn, spot, callVars>>

(* client->lock is taken before the registry lock is given up. *)
LockInfo(t) ==
    /\ Step(t, "lockInfo", "addDibb")
    /\ Acquire(t, spot[t])
    /\ readers' = readers \ {t}
    /\ UNCHANGED <<processorVars, bufferVars, registered, life, dibs, deleteSoon,
                   currentBuffer, lastBuffer, conn, spot, callVars>>

(* A mutant of Enqueue: no dibs++. *)
EnqueueUncounted(x, b) ==
    /\ IF currentBuffer[x] = NoConn
       THEN currentBuffer' = [currentBuffer EXCEPT ![x] = b] /\ UNCHANGED next
       ELSE next' = [next EXCEPT ![lastBuffer[x]] = b] /\ UNCHANGED currentBuffer
    /\ lastBuffer' = [lastBuffer EXCEPT ![x] = b]
    /\ UNCHANGED dibs

(* A mutant of Enqueue: lastBuffer, which stays when the queue is empty, is
   taken for the end of a queue. *)
EnqueueBehindLast(x, b) ==
    /\ IF lastBuffer[x] = NoConn
       THEN currentBuffer' = [currentBuffer EXCEPT ![x] = b] /\ UNCHANGED next
       ELSE next' = [next EXCEPT ![lastBuffer[x]] = b] /\ UNCHANGED currentBuffer
    /\ lastBuffer' = [lastBuffer EXCEPT ![x] = b]
    /\ dibs' = [dibs EXCEPT ![x] = @ + 1]

(* ClientInfo::addDibb(): the buffer goes to the end of the client's queue. *)
Enqueue(x, b) ==
    /\ IF currentBuffer[x] = NoConn
       THEN currentBuffer' = [currentBuffer EXCEPT ![x] = b] /\ UNCHANGED next
       ELSE next' = [next EXCEPT ![lastBuffer[x]] = b] /\ UNCHANGED currentBuffer
    /\ lastBuffer' = [lastBuffer EXCEPT ![x] = b]
    /\ dibs' = [dibs EXCEPT ![x] = @ + 1]

AddDibb(t) ==
    LET x == spot[t]
    IN  /\ pc[t] = "addDibb"
        /\ IF deleteSoon[x]
           THEN /\ Goto(t, "return")
                /\ UNCHANGED <<next, currentBuffer, lastBuffer, dibs>>
           ELSE Goto(t, "setLength") /\ Enqueue(x, conn[t])
        /\ Unlock(x)
        /\ UNCHANGED <<processorVars, objLen, bytesToRead, registryVars, life,
                       deleteSoon, conn, spot, callVars>>

(* relay() finishes the buffer after tryGet() has unlocked the client. *)
SetLength(t) ==
    /\ Step(t, "setLength", "setNext")
    /\ bytesToRead' = [bytesToRead EXCEPT ![conn[t]] = objLen[conn[t]]]
    /\ UNCHANGED <<processorVars, objLen, next, registryVars, infoVars, conn, spot, callVars>>

SetNext(t) ==
    /\ Step(t, "setNext", "trySend")
    /\ next' = [next EXCEPT ![conn[t]] = NoConn]
    /\ UNCHANGED <<processorVars, objLen, bytesToRead, registryVars, infoVars, conn,
                   spot, callVars>>

-----------------------------------------------------------------------------
(* ClientInfo::send() on spot[t].                                           *)

(* A mutant: deleteSoon is not looked at. *)
ForgetsLate(x) == currentBuffer[x] = NoConn

(* FORGET_ME: the client is being deleted, or nothing is queued for it. *)
Forgets(x) == deleteSoon[x] \/ currentBuffer[x] = NoConn

(* try_lock(), and the two reasons to give up: IN_USE and FORGET_ME. *)
TrySend(t) ==
    LET x == spot[t]
    IN  /\ pc[t] = "trySend"
        /\ IF infoLock[x] # NoThread \/ Forgets(x)
           THEN Goto(t, "sent") /\ UNCHANGED infoLock
           ELSE Goto(t, "write") /\ Acquire(t, x)
        /\ UNCHANGED <<processorVars, bufferVars, registryVars, life, dibs, deleteSoon,
                       currentBuffer, lastBuffer, conn, spot, callVars>>

(* write() of the objLen bytes of the current buffer: all, some or an error; a
   size that has wrapped below zero writes as much as the socket takes. *)
WriteResults(len) ==
    IF len = 0 THEN {0}
    ELSE {-1} \cup IF len > 0 THEN 1 .. len ELSE FrameLengths \ {0}

Write(t) ==
    /\ Step(t, "write", "wrote")
    /\ \E n \in WriteResults(objLen[currentBuffer[spot[t]]]) : result' = [result EXCEPT ![t] = n]
    /\ UNCHANGED <<processorVars, bufferVars, registryVars, infoVars, conn, spot, total>>

(* A mutant of EndSend: one way out of send() without the unlock. *)
EndSendLocked(t, x) ==
    /\ Goto(t, "sent")
    /\ total' = [total EXCEPT ![t] = 0]
    /\ UNCHANGED infoLock

EndSend(t, x) ==
    /\ Goto(t, "sent")
    /\ total' = [total EXCEPT ![t] = 0]
    /\ Unlock(x)

(* Everything bytesToRead announced is written: release() the buffer, go on
   with the next one unless there is none or enough has been written. *)
BufferWritten(t, x, b) ==
    /\ result[t] = bytesToRead[b]
    /\ objLen' = [objLen EXCEPT ![b] = 0]
    /\ bytesToRead' = [bytesToRead EXCEPT ![b] = 0]
    /\ currentBuffer' = [currentBuffer EXCEPT ![x] = next[b]]
    /\ LET written == total[t] + result[t]
       IN  IF next[b] # NoConn /\ written <= BytesToWrite
           THEN /\ Goto(t, "write")
                /\ total' = [total EXCEPT ![t] = written]
                /\ UNCHANGED infoLock
           ELSE EndSend(t, x)

(* Something is left, or write() failed: send() returns. *)
BufferLeft(t, x, b) ==
    /\ result[t] # bytesToRead[b]
    /\ bytesToRead' = [bytesToRead EXCEPT ![b] = IF result[t] > 0 THEN @ - result[t] ELSE @]
    /\ EndSend(t, x)
    /\ UNCHANGED <<objLen, currentBuffer>>

AfterWrite(t) ==
    LET x == spot[t]
        b == currentBuffer[x]
    IN  /\ pc[t] = "wrote"
        /\ BufferWritten(t, x, b) \/ BufferLeft(t, x, b)
        /\ result' = [result EXCEPT ![t] = 0]
        /\ UNCHANGED <<processorVars, next, registryVars, life, dibs, deleteSoon,
                       lastBuffer, conn, spot>>

-----------------------------------------------------------------------------
(* ClientResponder::send() after ClientInfo::send(): the dib is given back
   only when the buffer has been released by now. *)
Sent(t) ==
    /\ pc[t] = "sent"
    /\ Goto(t, IF objLen[conn[t]] = 0 THEN "lockDib" ELSE "return")
    /\ UNCHANGED <<processorVars, bufferVars, registryVars, infoVars, conn, spot, callVars>>

(* ClientInfo::removeDibb() *)
LockDib(t) ==
    /\ Step(t, "lockDib", "dropDib")
    /\ Acquire(t, spot[t])
    /\ UNCHANGED <<processorVars, bufferVars, registryVars, life, dibs, deleteSoon,
                   currentBuffer, lastBuffer, conn, spot, callVars>>

(* A mutant: a retired client does not go with the last dib. *)
NoDib(x) == FALSE

(* Whoever brings the last dib of a retired client back deletes it. *)
LastDib(x) == dibs'[x] = 0 /\ deleteSoon[x]

DropDib(t) ==
    LET x == spot[t]
    IN  /\ pc[t] = "dropDib"
        /\ dibs' = [dibs EXCEPT ![x] = @ - 1]
        /\ IF LastDib(x)
           THEN /\ life' = [life EXCEPT ![x] = "freed"]
                /\ Goto(t, "unlockFreed")
                /\ UNCHANGED infoLock
           ELSE Goto(t, "return") /\ Unlock(x) /\ UNCHANGED life
        /\ UNCHANGED <<processorVars, bufferVars, registryVars, deleteSoon, currentBuffer,
                       lastBuffer, conn, spot, callVars>>

(* lock.unlock() after "delete this": it reaches into the freed object. *)
UnlockFreed(t) ==
    /\ Step(t, "unlockFreed", "return")
    /\ Unlock(spot[t])
    /\ UNCHANGED <<processorVars, bufferVars, registryVars, life, dibs, deleteSoon,
                   currentBuffer, lastBuffer, conn, spot, callVars>>

-----------------------------------------------------------------------------
(* A mutant of Erase: the client is still registered when it is retired. *)
EraseLate(t) ==
    /\ pc[t] = "erase"
    /\ readers = {}
    /\ Goto(t, IF conn[t] \in registered THEN "retire" ELSE "deleteProcessor")
    /\ UNCHANGED <<processorVars, bufferVars, registryVars, infoVars, conn, spot, callVars>>

(* A processor that asked to be closed: ClientManager::remove(), then the
   destructor of the processor, with its socket and its buffer. *)
Erase(t) ==
    /\ pc[t] = "erase"
    /\ readers = {}
    /\ Goto(t, IF conn[t] \in registered THEN "retire" ELSE "deleteProcessor")
    /\ registered' = registered \ {conn[t]}
    /\ UNCHANGED <<processorVars, bufferVars, readers, infoVars, conn, spot, callVars>>

(* A mutant: remove() does not look at the dibs. *)
DeletedAnyway(c) == TRUE

(* remove() deletes a client without dibs itself. *)
DeletedNow(c) == dibs[c] = 0

(* The ClientInfo is deleted now, locked, or left to the last dib. *)
Retire(t) ==
    LET c == conn[t]
    IN  /\ Step(t, "retire", "deleteProcessor")
        /\ infoLock[c] = NoThread
        /\ IF DeletedNow(c)
           THEN life' = [life EXCEPT ![c] = "freed"] /\ UNCHANGED deleteSoon
           ELSE deleteSoon' = [deleteSoon EXCEPT ![c] = TRUE] /\ UNCHANGED life
        /\ UNCHANGED <<processorVars, bufferVars, registryVars, infoLock, dibs,
                       currentBuffer, lastBuffer, conn, spot, callVars>>

(* The memory of a deleted buffer keeps its contents or is wiped; the queue that
   still points to it, if there is one, does not notice. *)
Wiped(c) ==
    \/ UNCHANGED bufferVars
    \/ /\ objLen' = [objLen EXCEPT ![c] = 0]
       /\ bytesToRead' = [bytesToRead EXCEPT ![c] = 0]
       /\ next' = [next EXCEPT ![c] = NoConn]

DeleteProcessor(t) ==
    LET c == conn[t]
    IN  /\ pc[t] = "deleteProcessor"
        /\ phase' = [phase EXCEPT ![c] = "closed"]
        /\ Wiped(c)
        /\ Leave(t)
        /\ UNCHANGED <<state, reads, registryVars, infoVars, callVars>>

(* ClientHandler::clean(), when the thread of a handler finds stop set, and the
   destructor of the handler close and delete a processor without remove(): its
   ClientInfo stays in the registry, for the other handlers that still run. *)
Clean(c) ==
    /\ phase[c] = "served"
    /\ NotRunning(c)
    /\ phase' = [phase EXCEPT ![c] = "cleaned"]
    /\ Wiped(c)
    /\ UNCHANGED <<state, reads, registryVars, infoVars, pc, conn, spot, callVars>>

-----------------------------------------------------------------------------
Relay(t) ==
    \/ FindClient(t) \/ LockInfo(t) \/ AddDibb(t) \/ SetLength(t) \/ SetNext(t)
    \/ TrySend(t) \/ Write(t) \/ AfterWrite(t) \/ Sent(t)
    \/ LockDib(t) \/ DropDib(t) \/ UnlockFreed(t)

Receive(t) == ReadData(t) \/ AfterRead(t) \/ TakeReaction(t) \/ Return(t) \/ Compare(t)

Close(t) == Erase(t) \/ Retire(t) \/ DeleteProcessor(t)

(* The server has been given all of Conns and has closed them. *)
Finished ==
    /\ \A c \in Conns : phase[c] \in {"closed", "cleaned"}
    /\ \A t \in Threads : pc[t] = "idle"
    /\ UNCHANGED vars

(* The steps of a thread inside process(), or inside the constructor. *)
Running(t) == Receive(t) \/ Relay(t) \/ Close(t)

Starting(t, c) ==
    ReadLength(t, c) \/ EndOfStream(t, c) \/ ResumeData(t, c) \/ ResumeResponse(t, c)

Next ==
    \/ \E c \in Conns : Register(c) \/ Clean(c)
    \/ Welcome
    \/ HandOver
    \/ \E t \in Workers, c \in Conns : Starting(t, c)
    \/ \E t \in Threads : Running(t)
    \/ Finished

Spec == Init /\ [][Next]_vars

-----------------------------------------------------------------------------
(* Safety.                                                                  *)

(* Whoever has found a ClientInfo through tryGet() can go on using it, its
   mutex included, until it has given its dib back or lost it: neither a
   concurrent remove() nor another thread's removeDibb() frees it meanwhile,
   and a remove() in progress is the only one to retire it. *)
PinnedWhileUsed ==
    \A t \in Threads :
        /\ pc[t] \in Using => life[spot[t]] = "alive"
        /\ pc[t] = "retire" => life[conn[t]] = "alive"

(* The registry never points to a ClientInfo that is freed or on its way out:
   remove() takes the entry away before it looks at the dibs. *)
RegistryIsLive ==
    \A c \in registered : life[c] = "alive" /\ ~deleteSoon[c]

(* The threads that count on a dib of x. *)
Holders(x) == {t \in Threads : spot[t] = x /\ pc[t] \in Holding}

(* The count covers every thread that holds a dib, so it never wraps below
   zero.  It may be larger: a dib whose buffer stays queued is not returned. *)
DibsCoverHolders == \A x \in Conns : dibs[x] >= Cardinality(Holders(x))

(* The switch to deleteSoon and the drop of the last dib cannot miss each
   other: a ClientInfo that is out of the registry and without dibs is freed. *)
LastOneFrees ==
    \A c \in Conns : deleteSoon[c] /\ dibs[c] = 0 => life[c] = "freed"

(* send() never writes to a socket that was closed because its client hung up,
   and so not to a descriptor that accept() has given to the next client since:
   only the handlers that are being stopped close sockets of clients that the
   other handlers can still find. *)
WritesToOpenSocket ==
    \A t \in Threads : pc[t] = "write" => phase[spot[t]] \in {"accepted", "served", "cleaned"}

(* The refusal in addDibb() is never needed: the registry lock is held until
   the client is locked, so a client found there is not being removed yet. *)
NeverRefused == \A t \in Threads : pc[t] = "addDibb" => ~deleteSoon[spot[t]]

(* The life of a ClientInfo as ClientLifetime sees it. *)
Status(c) ==
    IF life[c] # "alive" THEN IF life[c] = "none" THEN "absent" ELSE "reclaimed"
    ELSE IF c \in registered THEN "published" ELSE "withdrawn"

Users(c) == {t \in Threads : pc[t] \in Using /\ spot[t] = c}

Lifetime == INSTANCE ClientLifetime
    WITH status <- [c \in Conns |-> Status(c)], users <- [c \in Conns |-> Users(c)]

(* The registry lock, the mutex, the dibs and deleteSoon together implement
   the life of a client: found only while registered, freed exactly once, and
   never while a thread is between tryGet() and its last use of it. *)
ImplementsClientLifetime == Lifetime!Spec

-----------------------------------------------------------------------------
(* Liveness: every thread keeps running, and mutexes are handed on.          *)
Fairness ==
    /\ WF_vars(Welcome) /\ WF_vars(HandOver)
    /\ \A t \in Threads : WF_vars(Running(t))

FairSpec == Spec /\ Fairness

(* A call of process(), or the welcome of the acceptor, comes to its end:
   no lock is kept, no thread waits for itself, the loop of send() stops. *)
CallsEnd == \A t \in Threads : pc[t] # "idle" ~> pc[t] = "idle"

-----------------------------------------------------------------------------
(* The inductive invariant behind the safety properties.                    *)

(* A thread that is busy works for a connection of its own, which the acceptor
   has not handed over yet and which a worker has not closed yet. *)
OneThreadPerConnection ==
    /\ \A t \in Threads :
        /\ pc[t] = "idle" <=> conn[t] = NoConn
        /\ pc[t] # "idle" => phase[conn[t]] = IF t = Acceptor THEN "accepted" ELSE "served"
    /\ \A t, u \in Threads : conn[t] = conn[u] /\ conn[t] # NoConn => t = u

(* The registry lock keeps what a thread has found in the registry; the mutex
   of a client belongs to the thread that is at a place where it needs it. *)
LocksProtect ==
    \A t \in Threads :
        /\ pc[t] \in Using \cup {"consume", "find", "unlockFreed"} => spot[t] \in Conns
        /\ pc[t] = "lockInfo" => t \in readers /\ spot[t] \in registered
        /\ pc[t] \in Locking => infoLock[spot[t]] = t
        /\ pc[t] = "addDibb" => life[spot[t]] = "alive" /\ ~deleteSoon[spot[t]]
        /\ pc[t] \in {"write", "wrote"} =>
            ~deleteSoon[spot[t]] /\ currentBuffer[spot[t]] # NoConn

(* A connection is in the registry until its remove() is on its way. *)
RegisteredUntilRemoved ==
    /\ \A c \in Conns :
        /\ phase[c] = "unborn" => c \notin registered /\ life[c] = "none" /\ ~deleteSoon[c]
        /\ phase[c] = "cleaned" => c \in registered
        /\ phase[c] \in {"accepted", "served"} =>
            \/ c \in registered
            \/ \E t \in Threads : conn[t] = c /\ pc[t] \in {"retire", "deleteProcessor"}
        /\ phase[c] = "closed" => life[c] = "freed" \/ deleteSoon[c]
    /\ \A t \in Threads :
        /\ pc[t] = "retire" =>
            /\ conn[t] \notin registered
            /\ life[conn[t]] = "alive"
            /\ ~deleteSoon[conn[t]]
        /\ pc[t] = "deleteProcessor" => life[conn[t]] = "freed" \/ deleteSoon[conn[t]]

(* Only a living client has dibs, and one that is only kept by its dibs has some. *)
DibsKeepAlive ==
    \A c \in Conns :
        /\ life[c] # "alive" => dibs[c] = 0
        /\ deleteSoon[c] /\ dibs[c] = 0 => life[c] = "freed"

StorageInv ==
    /\ TypeOK
    /\ OneThreadPerConnection
    /\ LocksProtect
    /\ RegisteredUntilRemoved
    /\ RegistryIsLive
    /\ DibsKeepAlive
    /\ DibsCoverHolders

-----------------------------------------------------------------------------
(* Two things the comments of the code say and the code does not do.        *)

(* ClientResponder.cpp:55-58: continueProcessing() is to be called again until
   it returns false, "false if no processing needs to be done".  Once it has,
   and the processor reads the next length, no client's queue waits for the
   processor's buffer. *)
FalseMeansDone ==
    \A c, x \in Conns :
        /\ phase[c] = "served" /\ NotRunning(c)
        /\ state[c] = "READ_LEN" /\ reads[c] > 0
        /\ life[x] = "alive"
        => currentBuffer[x] # c

(* The buffers send() will come to, following next from the current one. *)
Queue(x) ==
    LET walk[n \in 0 .. Cardinality(Conns)] ==
            IF n = 0 THEN currentBuffer[x]
            ELSE IF walk[n - 1] = NoConn THEN NoConn ELSE next[walk[n - 1]]
    IN  {walk[n] : n \in DOMAIN walk} \ {NoConn}

(* ClientManager.cpp:123: the client is locked "so dibbs can be added, and
   buffer linked".  As long as no processor has been deleted, and no buffer with
   it, the last buffer of a queue that is not empty can be reached from the first
   whenever nobody has the lock. *)
LinkedUnderLock ==
    (\A c \in Conns : phase[c] \notin {"closed", "cleaned"})
    => \A x \in Conns :
        infoLock[x] = NoThread /\ currentBuffer[x] # NoConn => lastBuffer[x] \in Queue(x)
=============================================================================
