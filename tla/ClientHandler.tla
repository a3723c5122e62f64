---------------------------- MODULE ClientHandler ----------------------------
(***************************************************************************)
(* The handlers that serve the clients of the server: each has a thread, a *)
(* set of processors under a mutex, and a child.  The active handler takes *)
(* the new clients.  A thread with too many processors splits some off to  *)
(* a new child with a thread of its own; a thread with too few merges them *)
(* back into the active handler and ends, and whoever has it as a child    *)
(* prunes it.                                                              *)
(*                                                                         *)
(* This module is about the running server; nobody deletes the active      *)
(* handler.  A handler or processor that is deleted is memory that can be  *)
(* allocated again, so the number of both at a time is bounded, and the    *)
(* number that ever exist is not.                                          *)
(***************************************************************************)
EXTENDS Integers, FiniteSets

CONSTANTS Handlers,    \* bound: the handlers there can be at a time
          Active,      \* the handler made by the server
          Procs,       \* bound: the processors there can be at a time
          Ids,         \* the ids the registry gives out
          None,        \* a NULL pointer
          SplitAbove,  \* 4 in the code: a handler with more processors splits
          MergeBelow   \* 2 in the code: a handler with fewer merges

ASSUME HandlerAssumption ==
    /\ Active \in Handlers
    /\ None \notin Handlers \cup Procs \cup Ids
    /\ Handlers \cap Procs = {}
    /\ IsFiniteSet(Procs)
    /\ SplitAbove \in Nat /\ MergeBelow \in Nat
    /\ MergeBelow <= SplitAbove + 1

ASSUME FiniteHandlers == IsFiniteSet(Handlers)

VARIABLES
    taken,         \* the ids in the registry
    made,          \* the processors that exist
    hungUp,        \* those whose client has gone
    key,           \* ClientProcessor::id of each processor
    live,          \* the handlers that exist
    processors, child, listen, stop,   \* the fields of each handler
    locked,        \* the handlers whose processorListLock its own thread holds
    place,         \* where the thread of each handler is
    todo,          \* the processors it has yet to visit in this round
    closing,       \* the processor or the handler it is deleting
    hand,          \* the handler it is making, or the child of the one it is deleting
    accepting,     \* where the server thread is in addProcessor()
    arrival        \* the processor it is adding

clientVars == <<taken, made, hungUp, key>>
handlerVars == <<live, processors, child, listen, stop, locked>>
threadVars == <<place, todo, closing, hand>>
acceptorVars == <<accepting, arrival>>
vars == <<clientVars, handlerVars, threadVars, acceptorVars>>

(* The places of a thread that has been created and has not ended. *)
Running == {"top", "visit", "erase", "unlock", "prune", "join", "decide", "split",
            "link", "merge", "mergeActive", "setStop"}

TypeOK ==
    /\ taken \subseteq Ids
    /\ made \subseteq Procs /\ hungUp \subseteq made
    /\ key \in [Procs -> Ids \cup {None}]
    /\ live \subseteq Handlers
    /\ processors \in [Handlers -> SUBSET Procs]
    /\ child \in [Handlers -> Handlers \cup {None}]
    /\ listen \in [Handlers -> BOOLEAN]
    /\ stop \in [Handlers -> BOOLEAN]
    /\ locked \subseteq Handlers
    /\ place \in [Handlers -> Running \cup {"none", "ended"}]
    /\ todo \in [Handlers -> SUBSET Procs]
    /\ closing \in [Handlers -> Procs \cup Handlers \cup {None}]
    /\ hand \in [Handlers -> Handlers \cup {None}]
    /\ accepting \in {"idle", "insert", "start"}
    /\ arrival \in Procs \cup {None}

Init ==
    /\ taken = {}
    /\ made = {} /\ hungUp = {}
    /\ key = [p \in Procs |-> None]
    /\ live = {Active}
    /\ processors = [h \in Handlers |-> {}]
    /\ child = [h \in Handlers |-> None]
    /\ listen = [h \in Handlers |-> FALSE]
    /\ stop = [h \in Handlers |-> FALSE]
    /\ locked = {}
    /\ place = [h \in Handlers |-> "none"]
    /\ todo = [h \in Handlers |-> {}]
    /\ closing = [h \in Handlers |-> None]
    /\ hand = [h \in Handlers |-> None]
    /\ accepting = "idle" /\ arrival = None

Goto(h, to) == place' = [place EXCEPT ![h] = to]

Step(h, from, to) == place[h] = from /\ Goto(h, to)

(* std::unordered_map::insert(): a key that is there already is kept. *)
InsertAll(into, ps) ==
    into \cup {p \in ps : \A q \in into : key[q] # key[p]}

(* Mutants: start() creates no thread; start() does not set listen. *)
StartedNot(h, places) == places
ListeningNot(h) == listen

(* start(): a handler without a thread gets one, and listen is set. *)
Started(h, places) == IF listen[h] THEN places ELSE [places EXCEPT ![h] = "top"]
Listening(h) == [listen EXCEPT ![h] = TRUE]

(* A mutant: a deleted processor stays among those that hung up. *)
DeleteHalf(ps) ==
    /\ made' = made \ ps /\ UNCHANGED hungUp
    /\ key' = [p \in Procs |-> IF p \in ps THEN None ELSE key[p]]

(* The processors ps are deleted. *)
Delete(ps) ==
    /\ made' = made \ ps
    /\ hungUp' = hungUp \ ps
    /\ key' = [p \in Procs |-> IF p \in ps THEN None ELSE key[p]]

(* A client closes its connection. *)
HangUp(p) ==
    /\ p \in made \ hungUp
    /\ hungUp' = hungUp \cup {p}
    /\ UNCHANGED <<taken, made, key, handlerVars, threadVars, acceptorVars>>

-----------------------------------------------------------------------------
(* The server thread: ClientHandler::addProcessor() of the active handler.  *)

(* allClients->add() finds an id, and the processor is constructed. *)
Accept(p) ==
    /\ accepting = "idle"
    /\ ~stop[Active]
    /\ p \notin made
    /\ \E id \in Ids \ taken :
        /\ taken' = taken \cup {id}
        /\ key' = [key EXCEPT ![p] = id]
    /\ made' = made \cup {p}
    /\ accepting' = "insert" /\ arrival' = p
    /\ UNCHANGED <<hungUp, handlerVars, threadVars>>

(* It is inserted under the lock, unless its key is there already. *)
Insert ==
    /\ accepting = "insert"
    /\ Active \notin locked
    /\ processors' = [processors EXCEPT ![Active] = InsertAll(@, {arrival})]
    /\ accepting' = IF arrival \in processors'[Active] THEN "start" ELSE "idle"
    /\ arrival' = None
    /\ UNCHANGED <<clientVars, live, child, listen, stop, locked, threadVars>>

(* The first client, seen by its effect on listen, starts the thread.  start()
   tests listen of the active handler too, for a child that merges; but there
   are children only after listen was set: nobody comes between the two lines. *)
StartActive ==
    /\ accepting = "start"
    /\ accepting' = "idle"
    /\ listen' = Listening(Active)
    /\ place' = Started(Active, place)
    /\ UNCHANGED <<clientVars, live, processors, child, stop, locked, todo, closing, hand,
                   arrival>>

-----------------------------------------------------------------------------
(* The thread of handler h: clientWork().                                   *)

StartRound(h) ==
    /\ listen[h] /\ ~stop[h]
    /\ h \notin locked
    /\ Step(h, "top", "visit")
    /\ locked' = locked \cup {h}
    /\ todo' = [todo EXCEPT ![h] = processors[h]]
    /\ UNCHANGED <<clientVars, live, processors, child, listen, stop, closing, hand,
                   acceptorVars>>

(* process() reads from a client that is still there. *)
Visit(h, p) ==
    /\ place[h] = "visit"
    /\ p \in todo[h] \ hungUp
    /\ todo' = [todo EXCEPT ![h] = @ \ {p}]
    /\ UNCHANGED <<clientVars, handlerVars, place, closing, hand, acceptorVars>>

(* process() asks to close p: first its key is removed from the registry... *)
RemoveClient(h, p) ==
    /\ Step(h, "visit", "erase")
    /\ p \in todo[h] \cap hungUp
    /\ taken' = taken \ {key[p]}
    /\ closing' = [closing EXCEPT ![h] = p]
    /\ UNCHANGED <<made, hungUp, key, handlerVars, todo, hand, acceptorVars>>

(* A mutant: the key is removed once more, though it may have a new owner. *)
EraseTwice(h) ==
    LET p == closing[h]
    IN  /\ Step(h, "erase", "visit")
        /\ Delete({p})
        /\ taken' = taken \ {key[p]}
        /\ processors' = [processors EXCEPT ![h] = @ \ {p}]
        /\ todo' = [todo EXCEPT ![h] = @ \ {p}]
        /\ closing' = [closing EXCEPT ![h] = None]
        /\ UNCHANGED <<live, child, listen, stop, locked, hand, acceptorVars>>

(* ...then the processor is deleted and its entry erased. *)
EraseProcessor(h) ==
    LET p == closing[h]
    IN  /\ Step(h, "erase", "visit")
        /\ Delete({p})
        /\ processors' = [processors EXCEPT ![h] = @ \ {p}]
        /\ todo' = [todo EXCEPT ![h] = @ \ {p}]
        /\ closing' = [closing EXCEPT ![h] = None]
        /\ UNCHANGED <<taken, live, child, listen, stop, locked, hand, acceptorVars>>

(* A mutant: the mutex is not given back. *)
EndRoundLocked(h) ==
    /\ Step(h, "visit", "prune")
    /\ todo[h] = {}
    /\ UNCHANGED <<clientVars, handlerVars, todo, closing, hand, acceptorVars>>

EndRound(h) ==
    /\ Step(h, "visit", "prune")
    /\ todo[h] = {}
    /\ locked' = locked \ {h}
    /\ UNCHANGED <<clientVars, live, processors, child, listen, stop, todo, closing, hand,
                   acceptorVars>>

-----------------------------------------------------------------------------
(* pruneDeadChild()                                                         *)

NothingToPrune(h) ==
    /\ Step(h, "prune", "decide")
    /\ child[h] # None => ~stop[child[h]]
    /\ UNCHANGED <<clientVars, handlerVars, todo, closing, hand, acceptorVars>>

(* The grandchildren are put aside, and the destructor of the child begins. *)
Prune(h) ==
    LET c == child[h]
    IN  /\ Step(h, "prune", "join")
        /\ c # None /\ stop[c]
        /\ hand' = [hand EXCEPT ![h] = child[c]]
        /\ child' = [child EXCEPT ![c] = None]
        /\ closing' = [closing EXCEPT ![h] = c]
        /\ UNCHANGED <<clientVars, live, processors, listen, stop, locked, todo, acceptorVars>>

(* Mutants: the grandchildren are forgotten; the dead child is kept. *)
AdoptedNone(h) == None
AdoptedSame(h) == child[h]

(* The child after pruning. *)
Adopted(h) == hand[h]

(* pthread_join() returns when the thread of the child has ended; what
   processors it still had are deleted with it, and it is gone. *)
Join(h) ==
    LET c == closing[h]
    IN  /\ place[h] = "join"
        /\ place[c] = "ended"
        /\ c \notin locked
        /\ place' = [place EXCEPT ![h] = "decide", ![c] = "none"]
        /\ Delete(processors[c])
        /\ live' = live \ {c}
        /\ processors' = [processors EXCEPT ![c] = {}]
        /\ stop' = [stop EXCEPT ![c] = FALSE]
        /\ listen' = [listen EXCEPT ![c] = FALSE]
        /\ child' = [child EXCEPT ![h] = Adopted(h)]
        /\ hand' = [hand EXCEPT ![h] = None]
        /\ closing' = [closing EXCEPT ![h] = None]
        /\ UNCHANGED <<taken, locked, todo, acceptorVars>>

-----------------------------------------------------------------------------
(* The end of the loop.  Whether the round has taken any time is up to the  *)
(* clock; without any the handler only sleeps, as it does with a fair load. *)

Sleep(h) ==
    /\ Step(h, "decide", "top")
    /\ UNCHANGED <<clientVars, handlerVars, todo, closing, hand, acceptorVars>>

DecideSplit(h) ==
    /\ Step(h, "decide", "split")
    /\ Cardinality(processors[h]) > SplitAbove
    /\ UNCHANGED <<clientVars, handlerVars, todo, closing, hand, acceptorVars>>

DecideMerge(h) ==
    /\ Step(h, "decide", "merge")
    /\ Cardinality(processors[h]) < MergeBelow
    /\ h # Active
    /\ UNCHANGED <<clientVars, handlerVars, todo, closing, hand, acceptorVars>>

(* split(): all processors of the active handler, half of those of another,
   move to a new handler, which gets the children there are. *)
Kids(h, kids) ==
    LET size == Cardinality(processors[h])
    IN  /\ kids \subseteq processors[h]
        /\ Cardinality(kids) = IF h = Active THEN size ELSE size \div 2

(* Mutants: those that move are not erased from the old map; the children
   are not handed on. *)
KeptAll(h, kids) == processors[h]
InheritedNone(h) == None

(* What the old handler keeps, and the child of the new one. *)
Kept(h, kids) == processors[h] \ kids
Inherited(h) == child[h]

Split(h) ==
    /\ Step(h, "split", "link")
    /\ h \notin locked
    /\ ~stop[h]
    /\ \E kids \in SUBSET processors[h], n \in Handlers \ live :
        /\ Kids(h, kids) /\ kids # {}
        /\ live' = live \cup {n}
        /\ processors' = [processors EXCEPT ![h] = Kept(h, kids), ![n] = kids]
        /\ child' = [child EXCEPT ![n] = Inherited(h)]
        /\ hand' = [hand EXCEPT ![h] = n]
    /\ locked' = locked \cup {h}
    /\ UNCHANGED <<clientVars, listen, stop, todo, closing, acceptorVars>>

(* The new handler becomes the child, and its thread is started. *)
LinkChild(h) ==
    LET n == hand[h]
    IN  /\ place[h] = "link"
        /\ place' = Started(n, [place EXCEPT ![h] = "top"])
        /\ child' = [child EXCEPT ![h] = n]
        /\ listen' = Listening(n)
        /\ hand' = [hand EXCEPT ![h] = None]
        /\ locked' = locked \ {h}
        /\ UNCHANGED <<clientVars, live, processors, stop, todo, closing, acceptorVars>>

(* Nothing is split off: there are too few after all, or (a bound) there is
   no room for another handler. *)
NoSplit(h) ==
    /\ Step(h, "split", "top")
    /\ h \notin locked
    /\ Handlers = live \/ \A kids \in SUBSET processors[h] : Kids(h, kids) => kids = {}
    /\ UNCHANGED <<clientVars, handlerVars, todo, closing, hand, acceptorVars>>

-----------------------------------------------------------------------------
(* mergeWithActive()                                                        *)

LockOwn(h) ==
    /\ ~stop[h]
    /\ h \notin locked
    /\ Step(h, "merge", "mergeActive")
    /\ locked' = locked \cup {h}
    /\ UNCHANGED <<clientVars, live, processors, child, listen, stop, todo, closing, hand,
                   acceptorVars>>

(* With both locks: the processors change hands, and active->start(). *)
MoveToActive(h) ==
    /\ place[h] = "mergeActive"
    /\ Active \notin locked
    /\ LET both == InsertAll(processors[Active], processors[h])
           starts == ~listen[Active] /\ both # {}
       IN  /\ processors' = [processors EXCEPT ![Active] = both, ![h] = {}]
           /\ listen' = [listen EXCEPT ![h] = FALSE, ![Active] = @ \/ starts]
           /\ place' = [place EXCEPT ![h] = "setStop",
                                     ![Active] = IF starts THEN "top" ELSE @]
    /\ locked' = locked \ {h}
    /\ UNCHANGED <<clientVars, live, child, stop, todo, closing, hand, acceptorVars>>

(* The last thing the thread does is to tell that its handler can be pruned. *)
SetStop(h) ==
    /\ Step(h, "setStop", "ended")
    /\ stop' = [stop EXCEPT ![h] = TRUE]
    /\ UNCHANGED <<clientVars, live, processors, child, listen, locked, todo, closing, hand,
                   acceptorVars>>

-----------------------------------------------------------------------------
Round(h) ==
    \/ StartRound(h) \/ EndRound(h) \/ EraseProcessor(h)
    \/ \E p \in Procs : Visit(h, p) \/ RemoveClient(h, p)

Pruning(h) == NothingToPrune(h) \/ Prune(h) \/ Join(h)

Balance(h) ==
    \/ Sleep(h) \/ DecideSplit(h) \/ DecideMerge(h)
    \/ Split(h) \/ LinkChild(h) \/ NoSplit(h)
    \/ LockOwn(h) \/ MoveToActive(h) \/ SetStop(h)

ClientWork(h) == Round(h) \/ Pruning(h) \/ Balance(h)

Next ==
    \/ \E p \in Procs : HangUp(p) \/ Accept(p)
    \/ Insert
    \/ StartActive
    \/ \E h \in Handlers : ClientWork(h)

Spec == Init /\ [][Next]_vars

-----------------------------------------------------------------------------
(* Safety.                                                                  *)

(* A processor is never lost and never served twice: through all splits and
   merges it is in the map of exactly one handler, or still with the server
   thread; and no map of a handler keeps a processor that has been deleted. *)
OneOwner ==
    /\ \A p \in made \ {arrival} : \E h \in live : p \in processors[h]
    /\ \A h \in Handlers : processors[h] \subseteq made \ {arrival}
    /\ \A h, g \in Handlers : h # g => processors[h] \cap processors[g] = {}

(* Whoever is in a map is being served: the thread of its handler runs, or is
   about to be started by the one that has just put it there. *)
NobodyStranded ==
    \A h \in live : processors[h] # {} =>
        \/ place[h] \in Running \ {"setStop"}
        \/ h = Active /\ accepting = "start"
        \/ \E g \in live : place[g] = "link" /\ hand[g] = h

(* start() creates a thread for a handler whose listen is not set.  Then no
   other thread of that handler is inside its loop. *)
OneThreadPerHandler ==
    \A h \in live : ~listen[h] => place[h] \in {"none", "setStop", "ended"}

(* The handlers that can be reached from the active one over n pointers. *)
After(h) == {child[h], hand[h]} \ {None}

Reach[n \in 0 .. Cardinality(Handlers)] ==
    IF n = 0 THEN {Active}
    ELSE Reach[n - 1] \cup UNION {After(h) : h \in Reach[n - 1]}

(* From the active handler the children lead to every other one, but for one
   that is just being put into, or taken out of, the chain. *)
ChainComplete == Reach[Cardinality(Handlers)] = live

(* A handler is deleted when its own thread is done with it, and nobody is
   left with a pointer to it. *)
NoDangling ==
    \A h \in Handlers \ live :
        /\ place[h] = "none" /\ h \notin locked
        /\ \A g \in live : child[g] # h /\ hand[g] # h

(* Ids in use: the registry has the keys of the processors that are there,
   except for one that is between remove() and erase. *)
Closing == {closing[h] : h \in Handlers} \ {None}

RegistryAgrees ==
    /\ taken = {key[p] : p \in made \ Closing}
    /\ \A p, q \in made \ Closing : key[p] = key[q] => p = q

-----------------------------------------------------------------------------
(* Liveness: the threads run, a mutex that is free again and again is got in
   the end (its holder sleeps with the mutex free in every round). *)
Fairness ==
    /\ WF_vars(StartActive) /\ SF_vars(Insert)
    /\ \A h \in Handlers : WF_vars(ClientWork(h))
    /\ \A h \in Handlers \ {Active} : SF_vars(MoveToActive(h))

FairSpec == Spec /\ Fairness

(* A client that goes away is noticed, whatever handler it is moved to. *)
GoneAreClosed == \A p \in Procs : p \in hungUp ~> p \notin hungUp

(* A handler that has merged is pruned by the one it is a child of. *)
MergedArePruned == \A h \in Handlers \ {Active} : stop[h] ~> ~stop[h]
=============================================================================
