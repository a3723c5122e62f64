------------------------------- MODULE Framing -------------------------------
(***************************************************************************)
(* The bytes on the connections: a frame is a length and that many bytes.  *)
(* A client writes [length][R][to][text] (Client::send); the server reads  *)
(* it in pieces into the buffer of its processor (ClientProcessor), turns  *)
(* it in place into [length][text] (ClientResponder) and writes that to    *)
(* the client it is for (ClientInfo::send), which reads a length and then, *)
(* once, the text (Client::receive).                                       *)
(*                                                                         *)
(* Clients come and then stay, and what relays does so one at a time:      *)
(* RelayStorage is about the threads, about clients that go, and about     *)
(* writes that take only a part, after which the code sends bytes from     *)
(* behind the frame.  Here a write takes all, or nothing because the       *)
(* socket is full.                                                         *)
(***************************************************************************)
EXTENDS Integers, Sequences, FiniteSets, SequencesExt

CONSTANTS Ids,          \* the clients, by the ids the server gave them
          Base,         \* the number of values of a byte, 256
          R,            \* RELAY_REACT
          Bodies,       \* bound: the frames the clients send, without the length
          MaxSent,      \* bound: how many each sends
          BytesToWrite, \* BYTES_TO_WRITE, 512 in the code
          NoticeLength, \* of the text of relay()'s notice, 31 in the code
          None

Bytes == 0 .. Base - 1

ASSUME FramingAssumption ==
    /\ Base \in 4 .. 256 /\ R \in Bytes /\ Ids \subseteq Bytes /\ None \notin Bytes
    /\ \A b \in Bodies : b \in Seq(Bytes) /\ Len(b) < Base
    /\ MaxSent \in [Ids -> Nat] /\ BytesToWrite \in Nat /\ NoticeLength \in Nat

VARIABLES
    signedChar,                        \* whether char is signed (x86) or not (ARM)
    halted,                            \* whether the process has ended
    sent,                              \* how many frames each client has sent
    wire,                              \* the bytes from each client
    state,                             \* "absent", in the registry ("added"), then
                                       \* of its processor: at the length or the data
    data, readerPosition, bytesToRead, objLen,   \* the buffer of its processor
    queue,                             \* ClientInfo: the processors whose buffers wait
    sendingTo, total,                  \* the client send() is at, totalBytesWritten
    out,                               \* the bytes to each client
    lenRead,                           \* the length it has read of a frame
    got                                \* the texts it has received

bufferVars == <<data, readerPosition, bytesToRead, objLen>>
clientVars == <<sent, lenRead, got>>
vars == <<signedChar, halted, clientVars, wire, state, bufferVars, queue, sendingTo, total, out>>

(* A buffer of the size the code begins with, which holds every frame. *)
BufLen == Base - 1

(* A byte in the buffer of c, or of what happens to be behind it. *)
At(c, i) == IF i <= BufLen THEN data[c][i] ELSE 0

FramingTypeOK ==
    /\ signedChar \in BOOLEAN /\ halted \in BOOLEAN
    /\ sent \in [Ids -> Nat]
    /\ wire \in [Ids -> Seq(Bytes)] /\ out \in [Ids -> Seq(Bytes)]
    /\ state \in [Ids -> {"absent", "added", "len", "data"}]
    /\ data \in [Ids -> [1 .. BufLen -> Bytes]]
    /\ readerPosition \in [Ids -> 1 .. BufLen + 1]
    /\ bytesToRead \in [Ids -> Int] /\ objLen \in [Ids -> Nat]
    /\ queue \in [Ids -> Seq(Ids)]
    /\ sendingTo \in Ids \cup {None} /\ total \in Nat
    /\ lenRead \in [Ids -> Bytes \cup {None}]
    /\ got \in [Ids -> Seq(Seq(Bytes))]

Init ==
    /\ signedChar \in BOOLEAN
    /\ halted = FALSE
    /\ sent = [c \in Ids |-> 0]
    /\ wire = [c \in Ids |-> <<>>]
    /\ state = [c \in Ids |-> "absent"]
    /\ data = [c \in Ids |-> [i \in 1 .. BufLen |-> 0]]
    /\ readerPosition = [c \in Ids |-> 1]
    /\ bytesToRead = [c \in Ids |-> 0] /\ objLen = [c \in Ids |-> 0]
    /\ queue = [c \in Ids |-> <<>>]
    /\ sendingTo = None /\ total = 0
    /\ out = [c \in Ids |-> <<>>]
    /\ lenRead = [c \in Ids |-> None]
    /\ got = [c \in Ids |-> <<>>]

-----------------------------------------------------------------------------
(* Client::send(): the length and the data.  They wait in the socket while
   the client is not accepted. *)
Send(c, body) ==
    /\ sent[c] < MaxSent[c]
    /\ sent' = [sent EXCEPT ![c] = @ + 1]
    /\ wire' = [wire EXCEPT ![c] = @ \o <<Len(body)>> \o body]
    /\ UNCHANGED <<signedChar, halted, lenRead, got, state, bufferVars, queue, sendingTo, total, out>>

-----------------------------------------------------------------------------
(* ClientResponder: what is done with a buffer that is complete.            *)

(* The range of a uint32_t (with 16 bits for 32). *)
Word == 65536

(* A mutant: the byte is always taken for a signed one. *)
CharSigned(b) == IF 2 * b >= Base THEN b + Word - Base ELSE b

(* (uint32_t) of a char. *)
Char(b) == IF signedChar /\ 2 * b >= Base THEN b + Word - Base ELSE b

(* The length that relay() puts in front of the text. *)
TextLength(size) == size - 1

(* What tryGet() finds. *)
Registered == {d \in Ids : state[d] # "absent"}

Relays(filled, len) == len - 1 > 1 /\ filled[1] = R
Found(filled, len) == Relays(filled, len) /\ Char(filled[2]) \in Registered

(* Nobody has the id of a relay: the notice is meant to end with the id, which
   the constructor of the string takes for the number of characters to copy.
   More than the notice has is undefined, or an exception that ends the process. *)
Overread(filled, len) ==
    Relays(filled, len) /\ ~ Found(filled, len) /\ Char(filled[2]) > NoticeLength

(* process(): the data in the buffer of c are filled, len bytes of them its
   frame.  If it is a relay and its client is known, the buffer goes into the
   queue of that client, and send() begins. *)
Process(c, filled, len) ==
    LET size == len - 1
        to == Char(filled[2])
    IN  /\ sendingTo = None
        /\ data' = [data EXCEPT ![c] =
                        IF Relays(filled, len) THEN [filled EXCEPT ![2] = TextLength(size)]
                        ELSE filled]
        /\ readerPosition' = [readerPosition EXCEPT ![c] = IF len > 0 THEN 2 ELSE @]
        /\ objLen' = [objLen EXCEPT ![c] = IF len > 0 THEN size ELSE len]
        /\ bytesToRead' = [bytesToRead EXCEPT ![c] = IF Found(filled, len) THEN size ELSE @]
        /\ queue' = IF Found(filled, len) THEN [queue EXCEPT ![to] = Append(@, c)] ELSE queue
        /\ sendingTo' = IF Found(filled, len) THEN to ELSE None
        /\ total' = 0
        /\ halted' \in IF Overread(filled, len) THEN BOOLEAN ELSE {FALSE}
        /\ state' = [state EXCEPT ![c] = "len"]

-----------------------------------------------------------------------------
(* The processor of client c.                                               *)

(* ClientManager::add(): from here on others can relay to the client. *)
Add(c) ==
    /\ ~ halted /\ state[c] = "absent"
    /\ state' = [state EXCEPT ![c] = "added"]
    /\ UNCHANGED <<signedChar, halted, clientVars, wire, bufferVars, queue, sendingTo, total, out>>

(* The constructor of the processor: welcome() relays its id to the client. *)
Welcome(c) ==
    /\ ~ halted /\ state[c] = "added"
    /\ Process(c, [data[c] EXCEPT ![1] = R, ![2] = c, ![3] = c], 3)
    /\ UNCHANGED <<signedChar, clientVars, wire, out>>

(* processLen().  Left out is a frame that comes while the buffer is still
   queued (see FalseMeansDone in RelayStorage). *)
ReadLen(c) ==
    /\ ~ halted /\ sendingTo = None /\ \A d \in Ids : c \notin Range(queue[d])
    /\ state[c] = "len" /\ wire[c] # <<>>
    /\ state' = [state EXCEPT ![c] = "data"]
    /\ readerPosition' = [readerPosition EXCEPT ![c] = 1]
    /\ bytesToRead' = [bytesToRead EXCEPT ![c] = Head(wire[c])]
    /\ objLen' = [objLen EXCEPT ![c] = Head(wire[c])]
    /\ wire' = [wire EXCEPT ![c] = Tail(@)]
    /\ UNCHANGED <<signedChar, halted, clientVars, data, queue, sendingTo, total, out>>

(* read() of n bytes into the buffer. *)
Filled(c, n) ==
    [i \in 1 .. BufLen |->
        LET k == i - readerPosition[c] + 1
        IN  IF k \in 1 .. n THEN wire[c][k] ELSE data[c][i]]

(* A mutant: the position stays. *)
PositionKept(c, n) == readerPosition[c]

(* Where the next piece goes, and how many bytes it is to have. *)
Moved(c, n) == readerPosition[c] + n
Rest(c, n) == bytesToRead[c] - n

(* processData() gets a part of the frame. *)
ReadPart(c) ==
    /\ ~ halted /\ sendingTo = None
    /\ state[c] = "data"
    /\ \E n \in 1 .. Len(wire[c]) :
        /\ n < bytesToRead[c]
        /\ data' = [data EXCEPT ![c] = Filled(c, n)]
        /\ readerPosition' = [readerPosition EXCEPT ![c] = Moved(c, n)]
        /\ bytesToRead' = [bytesToRead EXCEPT ![c] = Rest(c, n)]
        /\ wire' = [wire EXCEPT ![c] = SubSeq(@, n + 1, Len(@))]
    /\ UNCHANGED <<signedChar, halted, clientVars, state, objLen, queue, sendingTo, total, out>>

(* processData() gets the rest: the buffer goes to the responder. *)
ReadRest(c) ==
    LET n == bytesToRead[c]
    IN  /\ ~ halted
        /\ state[c] = "data" /\ n <= Len(wire[c])
        /\ Process(c, Filled(c, n), objLen[c])
        /\ wire' = [wire EXCEPT ![c] = SubSeq(@, n + 1, Len(@))]
        /\ UNCHANGED <<signedChar, clientVars, out>>

-----------------------------------------------------------------------------
(* ClientInfo::send(): a write() of the first buffer of the queue.          *)

(* The n bytes that write() takes from the reader's position. *)
Written(c, n) == [i \in 1 .. n |-> At(c, readerPosition[c] + i - 1)]

(* All are taken: the buffer is released, and the loop goes on with the next. *)
Write ==
    LET d == sendingTo
        c == Head(queue[d])
        rest == Tail(queue[d])
    IN  /\ ~ halted /\ d # None
        /\ out' = [out EXCEPT ![d] = @ \o Written(c, objLen[c])]
        /\ queue' = [queue EXCEPT ![d] = rest]
        /\ bytesToRead' = [bytesToRead EXCEPT ![c] = 0]
        /\ objLen' = [objLen EXCEPT ![c] = 0]
        /\ total' = total + objLen[c]
        /\ sendingTo' = IF rest # <<>> /\ total' <= BytesToWrite THEN d ELSE None
        /\ UNCHANGED <<signedChar, halted, clientVars, wire, state, data, readerPosition>>

(* The socket of the client is full: the buffer stays in the queue. *)
WriteFails ==
    /\ ~ halted /\ sendingTo # None
    /\ sendingTo' = None
    /\ UNCHANGED <<signedChar, halted, clientVars, wire, state, bufferVars, queue, total, out>>

-----------------------------------------------------------------------------
(* Client::receive() reads a length, and then, once, as much as is there.   *)

ReceiveLen(c) ==
    /\ lenRead[c] = None /\ out[c] # <<>>
    /\ lenRead' = [lenRead EXCEPT ![c] = Head(out[c])]
    /\ out' = [out EXCEPT ![c] = Tail(@)]
    /\ UNCHANGED <<signedChar, halted, sent, got, wire, state, bufferVars, queue, sendingTo, total>>

ReceiveData(c) ==
    LET n == IF lenRead[c] < Len(out[c]) THEN lenRead[c] ELSE Len(out[c])
    IN  /\ lenRead[c] # None
        /\ lenRead[c] > 0 => out[c] # <<>>
        /\ got' = [got EXCEPT ![c] = Append(@, SubSeq(out[c], 1, n))]
        /\ out' = [out EXCEPT ![c] = SubSeq(@, n + 1, Len(@))]
        /\ lenRead' = [lenRead EXCEPT ![c] = None]
        /\ UNCHANGED <<signedChar, halted, sent, wire, state, bufferVars, queue, sendingTo, total>>

Next ==
    \/ \E c \in Ids : \/ Add(c) \/ Welcome(c)
                      \/ ReadLen(c) \/ ReadPart(c) \/ ReadRest(c)
                      \/ ReceiveLen(c) \/ ReceiveData(c)
                      \/ \E body \in Bodies : Send(c, body)
    \/ Write \/ WriteFails

Spec == Init /\ [][Next]_vars

-----------------------------------------------------------------------------
(* The complete frames in a stream of bytes. *)
Frames(bytes) ==
    LET n == Len(bytes)
        from[i \in 1 .. n + 1] ==
            IF i > n THEN <<>>
            ELSE IF i + bytes[i] > n THEN <<>>
            ELSE <<SubSeq(bytes, i + 1, i + bytes[i])>> \o from[i + bytes[i] + 1]
    IN  from[1]

IsRelay(body) == Len(body) > 2 /\ body[1] = R

ToNobody == [to |-> None, text |-> <<>>]
Message(body) ==
    IF IsRelay(body) THEN [to |-> body[2], text |-> SubSeq(body, 3, Len(body))] ELSE ToNobody

(* Where char is signed, nobody is found by an id of the upper half. *)
Reachable(id) == signedChar => 2 * id < Base

Greeted == {c \in Ids : state[c] \in {"len", "data"}}

(* What the server has yet to take: the frame it is reading, and the wire. *)
Inbound(c) ==
    IF state[c] = "data"
      THEN <<objLen[c]>> \o SubSeq(data[c], 1, readerPosition[c] - 1) \o wire[c]
      ELSE wire[c]

(* What client c has yet to read, on the wire and in the queue. *)
Outbound(c) ==
    (IF lenRead[c] = None THEN <<>> ELSE <<lenRead[c]>>) \o out[c]
        \o FlattenSeq([i \in 1 .. Len(queue[c]) |-> Written(queue[c][i], objLen[queue[c][i]])])

Channel == INSTANCE MessageChannel
    WITH Messages <- {Message(b) : b \in Bodies},
         reachable <- {c \in Ids : Reachable(c)},
         members <- Registered,
         greeted <- Greeted,
         toServer <- [c \in Ids |->
            LET fs == Frames(Inbound(c)) IN [i \in DOMAIN fs |-> Message(fs[i])]],
         toClient <- [c \in Ids |-> Frames(Outbound(c))]

(* However a frame is cut into pieces when it is read, whatever else is in the
   buffers, and whoever else is just being accepted: texts arrive whole, once
   and in order at the client they are for, if its id can be addressed, and
   nowhere else. *)
ImplementsMessageChannel == Channel!Spec

(* A client that has been greeted and has nothing on its way to it has received
   its id; but where char is signed, one with an id of the upper half never
   receives anything (the cast of ClientResponder.cpp:76). *)
IdArrives ==
    \A c \in Ids :
        IF Reachable(c) THEN c \in Greeted /\ Outbound(c) = <<>> => <<c>> \in Range(got[c])
        ELSE got[c] = <<>>

(* Types, and what becomes of the ids. *)
FramingInv == FramingTypeOK /\ IdArrives
==============================================================================
