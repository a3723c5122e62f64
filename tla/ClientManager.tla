---------------------------- MODULE ClientManager ----------------------------
(***************************************************************************)
(* The client registry (network/server/storage/ClientManager): the map     *)
(* from 8-bit client ids to clients, and the search for a free id.  Each   *)
(* operation runs under the exclusive registry lock, so it is one step.    *)
(* What happens to a ClientInfo outside that lock is RelayStorage's part.  *)
(***************************************************************************)
EXTENDS Integers, FiniteSets

CONSTANTS IdSpace,    \* the number of ids, UINT8_MAX - 1 in the code
          Sockets,    \* the socket ids accept() can return
          Refused     \* stands for add() returning false

ASSUME IdSpaceAssumption == IdSpace \in Nat \ {0}

Ids == 0 .. IdSpace - 1

ASSUME RefusedAssumption == Refused \notin Ids

VARIABLES clientCounter,   \* the id the last search stopped at
          clients,         \* clients: id -> ClientInfo, of which socketID matters
          answer           \* outID of the last add(), or Refused

vars == <<clientCounter, clients, answer>>

Used == DOMAIN clients

TypeOK ==
    /\ clientCounter \in Ids
    /\ Used \subseteq Ids
    /\ clients \in [Used -> Sockets]
    /\ answer \in Ids \cup {Refused}

(* A mutant of Advance: the wrap comes one too late. *)
AdvanceTooFar(i) == IF i + 1 > IdSpace THEN 0 ELSE i + 1

(* clientCounter++ with the wrap to 0 at UINT8_MAX - 1. *)
Advance(i) == IF i + 1 = IdSpace THEN 0 ELSE i + 1

(* How many times the probing loop advances from r until it looks at j. *)
Distance(r, j) == IF j > r THEN j - r ELSE j + IdSpace - r

(* The ids the probing loop has found taken when it reaches j from r. *)
PassedOver(r, j) == {k \in Ids : Distance(r, k) < Distance(r, j)}

(* A mutant of ProbeStop: the loop does not wrap. *)
ProbeStopNoWrap(r, j) == j > r /\ j \notin Used /\ PassedOver(r, j) \subseteq Used

(* From a random start r the probing loop comes to the first free id, j. *)
ProbeStop(r, j) == j \notin Used /\ PassedOver(r, j) \subseteq Used

(* A mutant of NextIds: the following id is taken without a look at clients. *)
NextIdsUnchecked == {Advance(clientCounter)}

(* next(): the following id when it is free; when it is not, nothing if the
   registry is full, otherwise where a probe stops. *)
NextIds ==
    IF Advance(clientCounter) \notin Used THEN {Advance(clientCounter)}
    ELSE IF Cardinality(Used) = IdSpace THEN {}
    ELSE {j \in Ids : \E r \in Ids : ProbeStop(r, j)}

-----------------------------------------------------------------------------
Init ==
    /\ clientCounter = 0
    /\ clients = [i \in {} |-> Refused]
    /\ answer = Refused

(* add(socketID, outID) when next() returns true. *)
Add(s) ==
    \E j \in NextIds :
        /\ clientCounter' = j
        /\ clients' = [i \in Used \cup {j} |-> IF i \in Used THEN clients[i] ELSE s]
        /\ answer' = j

(* add(socketID, outID) when next() returns false: the counter has moved. *)
AddFails ==
    /\ NextIds = {}
    /\ clientCounter' = Advance(clientCounter)
    /\ answer' = Refused
    /\ UNCHANGED clients

(* remove(id): called by a handler with the key of a processor it closes. *)
Remove(i) ==
    /\ i \in Used
    /\ clients' = [j \in Used \ {i} |-> clients[j]]
    /\ UNCHANGED <<clientCounter, answer>>

Next ==
    \/ \E s \in Sockets : Add(s)
    \/ AddFails
    \/ \E i \in Ids : Remove(i)

Spec == Init /\ [][Next]_vars

-----------------------------------------------------------------------------
(* The probing loop of next() runs with the registry locked for everybody, so
   it must end: while an id is free, every random start leads to one. *)
ProbingEnds ==
    Cardinality(Used) < IdSpace => \A r \in Ids : \E j \in Ids : ProbeStop(r, j)

Pool == INSTANCE IdPool

(* The registry implements a pool of ids: an add() never takes over the entry
   of another client, and it is refused only when all ids are in use. *)
ImplementsIdPool == Pool!Spec
=============================================================================
