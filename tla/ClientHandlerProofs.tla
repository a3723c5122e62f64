------------------------- MODULE ClientHandlerProofs -------------------------
(***************************************************************************)
(* Proofs about ClientHandler, for any number of handlers, processors and  *)
(* ids: all its safety properties.                                         *)
(*                                                                         *)
(* The properties are inductive only together.  That every processor has   *)
(* one owner needs insert() to find no key that is there already, hence    *)
(* what the registry agrees to; that a thread is joined and its handler    *)
(* deleted once needs each handler to be pointed to once, counting the     *)
(* pointers that are in a thread's hands.                                  *)
(*                                                                         *)
(* The completeness of the chain is about paths.  What is inductive is     *)
(* that every set closed under the pointers that has the active handler    *)
(* has all of them; that the recursion over the length of the paths finds  *)
(* such a set is proved with the least natural number.                     *)
(***************************************************************************)
EXTENDS ClientHandler, FiniteSetTheorems, TLAPS

(* Where the thread is tells about the mutex and the flags of its handler,
   and about what it has in its hands. *)
PlacesAgree ==
    \A h \in Handlers :
        /\ h \in locked <=> place[h] \in {"visit", "erase", "link", "mergeActive"}
        /\ listen[h] <=> place[h] \in Running \ {"setStop"}
        /\ stop[h] <=> place[h] = "ended"
        /\ place[h] \in {"setStop", "ended"} => processors[h] = {}
        /\ place[h] \notin {"visit", "erase"} => todo[h] = {}
        /\ todo[h] \subseteq processors[h]
        /\ place[h] = "erase" => closing[h] \in todo[h]
        /\ place[h] \notin {"erase", "join"} => closing[h] = None
        /\ place[h] \notin {"link", "join"} => hand[h] = None
        /\ h \notin live => place[h] = "none" /\ processors[h] = {} /\ child[h] = None

(* The active handler is neither merged nor deleted. *)
ActiveStays ==
    /\ Active \in live
    /\ place[Active] \notin {"merge", "mergeActive", "setStop", "ended"}

(* The server thread has a processor in its hands until it has inserted it. *)
ArrivalMade ==
    /\ accepting = "insert" <=> arrival # None
    /\ arrival # None => arrival \in made

(* The child that counts: while a new handler is linked it has a copy of the
   pointer, and while the child is deleted the pointer is no good. *)
ChildOf(g) == IF place[g] \in {"link", "join"} THEN None ELSE child[g]

(* The child that is being deleted. *)
Deleting(g) == IF place[g] = "join" THEN closing[g] ELSE None

(* Pointers lead to handlers that exist, and never to the active one. *)
PointersLive ==
    \A g \in Handlers :
        /\ child[g] # None => child[g] \in live \ {Active}
        /\ hand[g] # None => hand[g] \in live \ {Active}
        /\ place[g] = "link" =>
              /\ hand[g] # None /\ place[hand[g]] = "none"
              /\ child[hand[g]] = child[g]
        /\ place[g] = "join" =>
              /\ closing[g] \in live \ {Active} /\ place[closing[g]] = "ended"
              /\ child[closing[g]] = None /\ child[g] = closing[g]

(* No handler is pointed to twice. *)
OnePointer ==
    \A g, h \in Handlers :
        /\ g # h /\ ChildOf(g) = ChildOf(h) => ChildOf(g) = None
        /\ g # h /\ hand[g] = hand[h] => hand[g] = None
        /\ g # h /\ Deleting(g) = Deleting(h) => Deleting(g) = None
        /\ ChildOf(g) # None => ChildOf(g) # hand[h] /\ ChildOf(g) # Deleting(h)
        /\ hand[g] # None => hand[g] # Deleting(h)

HandlerInv ==
    /\ TypeOK /\ PlacesAgree /\ ActiveStays /\ ArrivalMade
    /\ PointersLive /\ OnePointer
    /\ OneOwner /\ RegistryAgrees /\ NobodyStranded

LEMMA InitHandlers == Init => HandlerInv
<1> USE HandlerAssumption DEF Init
<1>1. Init => TypeOK /\ PlacesAgree
  BY DEF TypeOK, PlacesAgree, Running
<1>2. Init => ActiveStays /\ ArrivalMade /\ PointersLive /\ OnePointer
  BY DEF ActiveStays, ArrivalMade, PointersLive, OnePointer, ChildOf, Deleting
<1>3. Init => OneOwner /\ RegistryAgrees /\ NobodyStranded
  BY DEF OneOwner, RegistryAgrees, Closing, NobodyStranded
<1>4. QED
  BY <1>1, <1>2, <1>3 DEF HandlerInv

-----------------------------------------------------------------------------
(* The steps that depend on more than the fields they read, as they are      *)
(* where the invariant holds.                                                *)

(* insert() keeps nobody out, so that the client is always served. *)
Inserts ==
    /\ arrival \in made /\ Active \in Handlers
    /\ processors' = [processors EXCEPT ![Active] = @ \cup {arrival}]
    /\ accepting = "insert" /\ accepting' = "start" /\ arrival' = None
    /\ UNCHANGED <<clientVars, live, child, listen, stop, locked, threadVars>>

(* Who merges leaves its processors to the active handler, and starts it if
   that has no thread but has clients now. *)
Moves(h) ==
    /\ h # Active /\ Active \in Handlers
    /\ place[h] = "mergeActive" /\ Active \notin locked
    /\ processors' = [processors EXCEPT ![Active] = processors[Active] \cup processors[h],
                                        ![h] = {}]
    /\ locked' = locked \ {h}
    /\ \/ /\ listen[Active] \/ processors'[Active] = {}
          /\ place' = [place EXCEPT ![h] = "setStop"]
          /\ listen' = [listen EXCEPT ![h] = FALSE]
       \/ /\ ~listen[Active] /\ place[Active] = "none"
          /\ place' = [place EXCEPT ![h] = "setStop", ![Active] = "top"]
          /\ listen' = [listen EXCEPT ![h] = FALSE, ![Active] = TRUE]
    /\ UNCHANGED <<clientVars, live, child, stop, todo, closing, hand, acceptorVars>>

(* start() of the active handler, unless its thread runs already. *)
Starts ==
    /\ Active \in Handlers
    /\ \/ /\ listen[Active] /\ place[Active] \in Running \ {"setStop"}
          /\ UNCHANGED <<listen, place>>
       \/ /\ place[Active] = "none"
          /\ place' = [place EXCEPT ![Active] = "top"]
          /\ listen' = [listen EXCEPT ![Active] = TRUE]
    /\ accepting = "start" /\ accepting' = "idle"
    /\ UNCHANGED <<clientVars, live, processors, child, stop, locked, todo, closing, hand,
                   arrival>>

(* The handler that was split off gets its first thread. *)
Links(h, n) ==
    /\ n \in live \ {Active} /\ n \in Handlers /\ n # h
    /\ place[h] = "link" /\ place[n] = "none"
    /\ place' = [place EXCEPT ![h] = "top", ![n] = "top"]
    /\ child' = [child EXCEPT ![h] = n]
    /\ listen' = [listen EXCEPT ![n] = TRUE]
    /\ hand' = [hand EXCEPT ![h] = None]
    /\ locked' = locked \ {h}
    /\ UNCHANGED <<clientVars, live, processors, stop, todo, closing, acceptorVars>>

(* A handler that is deleted has no processors any more. *)
Joins(h, c) ==
    /\ c \in live \ {Active} /\ c \in Handlers /\ c # h
    /\ place[h] = "join" /\ place[c] = "ended" /\ child[c] = None
    /\ place' = [place EXCEPT ![h] = "decide", ![c] = "none"]
    /\ stop' = [stop EXCEPT ![c] = FALSE]
    /\ listen' = [listen EXCEPT ![c] = FALSE]
    /\ live' = live \ {c}
    /\ child' = [child EXCEPT ![h] = hand[h]]
    /\ hand' = [hand EXCEPT ![h] = None]
    /\ closing' = [closing EXCEPT ![h] = None]
    /\ processors[c] = {}
    /\ UNCHANGED <<clientVars, processors, locked, todo, acceptorVars>>

(* Keys clash with nobody's, so that insert() keeps nobody out: who has been
   removed from the registry is in a map whose mutex is held. *)
LEMMA NoClash ==
    ASSUME HandlerInv, Active \notin locked,
           NEW p \in made, p \notin Closing, p \notin processors[Active],
           NEW q \in processors[Active]
    PROVE  key[q] # key[p]
<1> USE HandlerAssumption DEF HandlerInv, TypeOK
<1>1. q \in made /\ q \in Procs
  BY DEF OneOwner
<1>2. ASSUME NEW g \in Handlers, closing[g] = q PROVE FALSE
  <2>1. place[g] \in {"erase", "join"}
    BY <1>1, <1>2 DEF PlacesAgree
  <2>2. place[g] = "erase"
    BY <1>1, <1>2, <2>1 DEF PointersLive
  <2>3. q \in processors[g] /\ g \in locked
    BY <1>2, <2>2 DEF PlacesAgree
  <2>4. QED
    BY <2>3 DEF OneOwner
<1>3. q \notin Closing
  BY <1>2 DEF Closing
<1>4. QED
  BY <1>1, <1>3 DEF RegistryAgrees

LEMMA InsertKeeps ==
    ASSUME HandlerInv, Insert
    PROVE  Inserts
<1> USE HandlerAssumption DEF HandlerInv, TypeOK
<1>1. arrival \in made /\ arrival \in Procs
  BY DEF Insert, ArrivalMade
<1>2. arrival \notin processors[Active]
  BY DEF OneOwner
<1>3. arrival \notin Closing
  BY <1>1 DEF Closing, PlacesAgree, PointersLive, OneOwner
<1>4. InsertAll(processors[Active], {arrival}) = processors[Active] \cup {arrival}
  BY <1>1, <1>2, <1>3, NoClash DEF InsertAll, Insert
<1>5. QED
  BY <1>1, <1>4 DEF Insert, Inserts

LEMMA MoveKeeps ==
    ASSUME HandlerInv, NEW h \in Handlers, MoveToActive(h)
    PROVE  InsertAll(processors[Active], processors[h]) = processors[Active] \cup processors[h]
<1> USE HandlerAssumption DEF HandlerInv, TypeOK
<1>1. h # Active
  BY DEF MoveToActive, ActiveStays
<1>2. ASSUME NEW p \in processors[h]
      PROVE  p \in made /\ p \notin Closing /\ p \notin processors[Active]
  <2>1. p \in made /\ p \in Procs /\ p \notin processors[Active]
    BY <1>1 DEF OneOwner
  <2>2. ASSUME NEW g \in Handlers, closing[g] = p PROVE FALSE
    <3>1. place[g] = "erase"
      BY <2>1, <2>2 DEF PlacesAgree, PointersLive
    <3>2. p \in processors[g]
      BY <2>2, <3>1 DEF PlacesAgree
    <3>3. QED
      BY <3>1, <3>2 DEF OneOwner, MoveToActive
  <2>3. QED
    BY <2>1, <2>2 DEF Closing
<1>3. QED
  BY <1>2, NoClash DEF InsertAll, MoveToActive

LEMMA MoveEffect ==
    ASSUME HandlerInv, NEW h \in Handlers, MoveToActive(h)
    PROVE  Moves(h)
<1> USE HandlerAssumption DEF HandlerInv, TypeOK
<1> DEFINE both == processors[Active] \cup processors[h]
           starts == ~listen[Active] /\ both # {}
<1>1. h # Active /\ Active \in Handlers /\ place[h] = "mergeActive"
  BY DEF MoveToActive, ActiveStays
<1>2. /\ processors' = [processors EXCEPT ![Active] = both, ![h] = {}]
      /\ listen' = [listen EXCEPT ![h] = FALSE, ![Active] = @ \/ starts]
      /\ place' = [place EXCEPT ![h] = "setStop", ![Active] = IF starts THEN "top" ELSE @]
  BY MoveKeeps DEF MoveToActive
<1>3. processors'[Active] = both
  BY <1>1, <1>2
<1>4. CASE starts
  <2>1. place[Active] = "none"
    BY <1>1, <1>4 DEF PlacesAgree, ActiveStays, Running
  <2>2. /\ place' = [place EXCEPT ![h] = "setStop", ![Active] = "top"]
        /\ listen' = [listen EXCEPT ![h] = FALSE, ![Active] = TRUE]
    BY <1>1, <1>2, <1>4
  <2>3. QED
    BY <1>1, <1>2, <1>4, <2>1, <2>2 DEF MoveToActive, Moves
<1>5. CASE ~starts
  <2>1. listen[Active] \/ processors'[Active] = {}
    BY <1>3, <1>5
  <2>2. place' = [place EXCEPT ![h] = "setStop"]
    BY <1>1, <1>2, <1>5
  <2>3. listen' = [listen EXCEPT ![h] = FALSE]
    BY <1>1, <1>2, <1>5
  <2>4. QED
    BY <1>1, <1>2, <2>1, <2>2, <2>3 DEF MoveToActive, Moves
<1>6. QED
  BY <1>4, <1>5

LEMMA StartEffect ==
    ASSUME HandlerInv, StartActive
    PROVE  Starts
<1> USE HandlerAssumption DEF HandlerInv, TypeOK, StartActive, Started, Listening, Starts
<1>1. CASE listen[Active]
  <2>1. place' = place /\ place[Active] \in Running \ {"setStop"}
    BY <1>1 DEF PlacesAgree
  <2>2. listen' = listen
    BY <1>1
  <2>3. QED
    BY <1>1, <2>1, <2>2
<1>2. CASE ~listen[Active]
  <2>1. place[Active] = "none"
    BY <1>2 DEF PlacesAgree, ActiveStays, Running
  <2>2. QED
    BY <1>2, <2>1
<1>3. QED
  BY <1>1, <1>2

LEMMA LinkEffect ==
    ASSUME HandlerInv, NEW h \in Handlers, LinkChild(h)
    PROVE  Links(h, hand[h])
<1> USE HandlerAssumption DEF HandlerInv, TypeOK
<1>1. place[h] = "link" /\ hand[h] \in live \ {Active} /\ place[hand[h]] = "none"
  BY DEF LinkChild, PointersLive
<1>2. hand[h] \in Handlers /\ hand[h] # h /\ ~listen[hand[h]]
  BY <1>1 DEF PlacesAgree, Running
<1>3. Started(hand[h], [place EXCEPT ![h] = "top"])
        = [place EXCEPT ![h] = "top", ![hand[h]] = "top"]
  BY <1>2 DEF Started
<1>4. QED
  BY <1>1, <1>2, <1>3 DEF LinkChild, Listening, Links

LEMMA JoinEffect ==
    ASSUME HandlerInv, NEW h \in Handlers, Join(h)
    PROVE  Joins(h, closing[h])
<1> USE HandlerAssumption DEF HandlerInv, TypeOK
<1> DEFINE c == closing[h]
<1>1. /\ c \in live \ {Active} /\ c \in Handlers /\ c # h
      /\ place[h] = "join" /\ place[c] = "ended" /\ child[c] = None
  BY DEF Join, PointersLive
<1>2. processors[c] = {}
  BY <1>1 DEF PlacesAgree
<1>3. made' = made /\ hungUp' = hungUp /\ key' = key
  BY <1>2 DEF Join, Delete
<1>4. processors' = processors
  BY <1>1, <1>2 DEF Join
<1>5. QED
  BY <1>1, <1>2, <1>3, <1>4 DEF Join, Adopted, clientVars, Joins

-----------------------------------------------------------------------------
(* Every step preserves each part of the invariant.                          *)

LEMMA NextTypeOK ==
    ASSUME HandlerInv, [Next]_vars
    PROVE  TypeOK'
<1>1. TypeOK
  BY DEF HandlerInv
<1> USE HandlerAssumption
        DEF TypeOK, Running
<1>2. ASSUME NEW p \in Procs, HangUp(p) PROVE TypeOK'
  BY <1>1, <1>2 DEF HangUp, clientVars, handlerVars, threadVars, acceptorVars
<1>3. ASSUME NEW p \in Procs, Accept(p) PROVE TypeOK'
  BY <1>1, <1>3 DEF Accept, clientVars, handlerVars, threadVars, acceptorVars
<1>4. CASE Insert
  <2>1. Inserts
    BY <1>4, InsertKeeps
  <2>2. QED
    BY <1>1, <2>1 DEF Inserts, clientVars, handlerVars, threadVars, acceptorVars
<1>5. CASE StartActive
  <2>1. Starts
    BY <1>5, StartEffect
  <2>2. QED
    BY <1>1, <2>1 DEF Starts, clientVars, handlerVars, threadVars, acceptorVars
<1>6. ASSUME NEW h \in Handlers, StartRound(h) \/ EndRound(h) PROVE TypeOK'
  BY <1>1, <1>6 DEF StartRound, EndRound, Step, Goto, clientVars, handlerVars, threadVars,
              acceptorVars
<1>7. ASSUME NEW h \in Handlers, NEW p \in Procs, Visit(h, p) PROVE TypeOK'
  BY <1>1, <1>7 DEF Visit, clientVars, handlerVars, threadVars, acceptorVars
<1>8. ASSUME NEW h \in Handlers, NEW p \in Procs, RemoveClient(h, p) PROVE TypeOK'
  BY <1>1, <1>8 DEF RemoveClient, Step, Goto, clientVars, handlerVars, threadVars, acceptorVars
<1>9. ASSUME NEW h \in Handlers, EraseProcessor(h) PROVE TypeOK'
  BY <1>1, <1>9 DEF EraseProcessor, Step, Goto, Delete, clientVars, handlerVars, threadVars,
              acceptorVars
<1>10. ASSUME NEW h \in Handlers,
             \/ NothingToPrune(h) \/ Sleep(h) \/ DecideSplit(h) \/ DecideMerge(h)
             \/ NoSplit(h) \/ LockOwn(h) \/ SetStop(h)
      PROVE  TypeOK'
  BY <1>1, <1>10 DEF NothingToPrune, Sleep, DecideSplit, DecideMerge, NoSplit, LockOwn, SetStop,
              Step, Goto, clientVars, handlerVars, threadVars, acceptorVars
<1>11. ASSUME NEW h \in Handlers, Prune(h) PROVE TypeOK'
  BY <1>1, <1>11 DEF Prune, Step, Goto, clientVars, handlerVars, threadVars, acceptorVars
<1>12. ASSUME NEW h \in Handlers, Join(h) PROVE TypeOK'
  <2>1. Joins(h, closing[h])
    BY <1>12, JoinEffect
  <2>2. QED
    BY <1>1, <2>1 DEF Joins, clientVars, handlerVars, threadVars, acceptorVars
<1>13. ASSUME NEW h \in Handlers, Split(h) PROVE TypeOK'
  BY <1>1, <1>13 DEF Split, Step, Goto, Kept, Inherited, clientVars, handlerVars, threadVars,
              acceptorVars
<1>14. ASSUME NEW h \in Handlers, LinkChild(h) PROVE TypeOK'
  <2>1. Links(h, hand[h])
    BY <1>14, LinkEffect
  <2>2. QED
    BY <1>1, <2>1 DEF Links, clientVars, handlerVars, threadVars, acceptorVars
<1>15. ASSUME NEW h \in Handlers, MoveToActive(h) PROVE TypeOK'
  <2>1. Moves(h)
    BY <1>15, MoveEffect
  <2>2. QED
    BY <1>1, <2>1 DEF Moves, clientVars, handlerVars, threadVars, acceptorVars
<1>16. CASE UNCHANGED <<clientVars, handlerVars, threadVars, acceptorVars>>
  BY <1>1, <1>16 DEF clientVars, handlerVars, threadVars, acceptorVars
<1>17. QED
  BY <1>2, <1>3, <1>4, <1>5, <1>6, <1>7, <1>8, <1>9, <1>10, <1>11, <1>12, <1>13, <1>14, <1>15, <1>16
     DEF Next, ClientWork, Round, Pruning, Balance, vars, clientVars, handlerVars,
         threadVars, acceptorVars

LEMMA NextPlacesAgree ==
    ASSUME HandlerInv, [Next]_vars
    PROVE  PlacesAgree'
<1>1. TypeOK /\ PlacesAgree /\ ActiveStays
  BY DEF HandlerInv
<1> USE HandlerAssumption
        DEF TypeOK, PlacesAgree, ActiveStays, Running
<1>2. CASE Insert
  <2>1. Inserts
    BY <1>2, InsertKeeps
  <2>2. QED
    BY <1>1, <2>1 DEF Inserts, clientVars, handlerVars, threadVars, acceptorVars
<1>3. CASE StartActive
  <2>1. Starts
    BY <1>3, StartEffect
  <2>2. QED
    BY <1>1, <2>1 DEF Starts, clientVars, handlerVars, threadVars, acceptorVars
<1>4. ASSUME NEW h \in Handlers, StartRound(h) \/ EndRound(h) PROVE PlacesAgree'
  BY <1>1, <1>4 DEF StartRound, EndRound, Step, Goto, clientVars, handlerVars, threadVars,
              acceptorVars
<1>5. ASSUME NEW h \in Handlers, NEW p \in Procs, Visit(h, p) PROVE PlacesAgree'
  BY <1>1, <1>5 DEF Visit, clientVars, handlerVars, threadVars, acceptorVars
<1>6. ASSUME NEW h \in Handlers, NEW p \in Procs, RemoveClient(h, p) PROVE PlacesAgree'
  BY <1>1, <1>6 DEF RemoveClient, Step, Goto, clientVars, handlerVars, threadVars, acceptorVars
<1>7. ASSUME NEW h \in Handlers, EraseProcessor(h) PROVE PlacesAgree'
  BY <1>1, <1>7 DEF EraseProcessor, Step, Goto, Delete, clientVars, handlerVars, threadVars,
              acceptorVars
<1>8. ASSUME NEW h \in Handlers,
             \/ NothingToPrune(h) \/ Sleep(h) \/ DecideSplit(h) \/ DecideMerge(h)
             \/ NoSplit(h) \/ LockOwn(h) \/ SetStop(h)
      PROVE  PlacesAgree'
  BY <1>1, <1>8 DEF NothingToPrune, Sleep, DecideSplit, DecideMerge, NoSplit, LockOwn, SetStop,
              Step, Goto, clientVars, handlerVars, threadVars, acceptorVars
<1>9. ASSUME NEW h \in Handlers, Prune(h) PROVE PlacesAgree'
  BY <1>1, <1>9 DEF Prune, Step, Goto, clientVars, handlerVars, threadVars, acceptorVars
<1>10. ASSUME NEW h \in Handlers, Join(h) PROVE PlacesAgree'
  <2>1. Joins(h, closing[h])
    BY <1>10, JoinEffect
  <2>2. QED
    BY <1>1, <2>1 DEF Joins, clientVars, handlerVars, threadVars, acceptorVars
<1>11. ASSUME NEW h \in Handlers, Split(h) PROVE PlacesAgree'
  BY <1>1, <1>11 DEF Split, Step, Goto, Kept, Inherited, clientVars, handlerVars, threadVars,
              acceptorVars
<1>12. ASSUME NEW h \in Handlers, LinkChild(h) PROVE PlacesAgree'
  <2>1. Links(h, hand[h])
    BY <1>12, LinkEffect
  <2>2. QED
    BY <1>1, <2>1 DEF Links, clientVars, handlerVars, threadVars, acceptorVars
<1>13. ASSUME NEW h \in Handlers, MoveToActive(h) PROVE PlacesAgree'
  <2>1. Moves(h)
    BY <1>13, MoveEffect
  <2>2. QED
    BY <1>1, <2>1 DEF Moves, clientVars, handlerVars, threadVars, acceptorVars
<1>14. CASE UNCHANGED <<live, locked, place, listen, stop, processors, todo, closing, hand, child>>
  BY <1>1, <1>14
<1>15. QED
  BY <1>2, <1>3, <1>4, <1>5, <1>6, <1>7, <1>8, <1>9, <1>10, <1>11, <1>12, <1>13, <1>14
     DEF Next, ClientWork, Round, Pruning, Balance, vars, HangUp, Accept,
         clientVars, handlerVars, threadVars, acceptorVars

LEMMA NextActiveStays ==
    ASSUME HandlerInv, [Next]_vars
    PROVE  ActiveStays'
<1>1. TypeOK /\ PlacesAgree /\ ActiveStays
  BY DEF HandlerInv
<1> USE HandlerAssumption
        DEF TypeOK, ActiveStays, PlacesAgree
<1>2. CASE StartActive
  <2>1. Starts
    BY <1>2, StartEffect
  <2>2. QED
    BY <1>1, <2>1 DEF Starts, clientVars, handlerVars, threadVars, acceptorVars
<1>3. ASSUME NEW h \in Handlers, StartRound(h) \/ EndRound(h) \/ EraseProcessor(h) PROVE ActiveStays'
  BY <1>1, <1>3 DEF StartRound, EndRound, EraseProcessor, Step, Goto, Delete, clientVars,
              handlerVars, threadVars, acceptorVars
<1>4. ASSUME NEW h \in Handlers, NEW p \in Procs, RemoveClient(h, p) PROVE ActiveStays'
  BY <1>1, <1>4 DEF RemoveClient, Step, Goto, clientVars, handlerVars, threadVars, acceptorVars
<1>5. ASSUME NEW h \in Handlers,
             \/ NothingToPrune(h) \/ Sleep(h) \/ DecideSplit(h) \/ DecideMerge(h)
             \/ NoSplit(h) \/ LockOwn(h) \/ SetStop(h)
      PROVE  ActiveStays'
  BY <1>1, <1>5 DEF NothingToPrune, Sleep, DecideSplit, DecideMerge, NoSplit, LockOwn, SetStop,
              Step, Goto, clientVars, handlerVars, threadVars, acceptorVars
<1>6. ASSUME NEW h \in Handlers, Prune(h) PROVE ActiveStays'
  BY <1>1, <1>6 DEF Prune, Step, Goto, clientVars, handlerVars, threadVars, acceptorVars
<1>7. ASSUME NEW h \in Handlers, Join(h) PROVE ActiveStays'
  <2>1. Joins(h, closing[h])
    BY <1>7, JoinEffect
  <2>2. QED
    BY <1>1, <2>1 DEF Joins, clientVars, handlerVars, threadVars, acceptorVars
<1>8. ASSUME NEW h \in Handlers, Split(h) PROVE ActiveStays'
  BY <1>1, <1>8 DEF Split, Step, Goto, Kept, Inherited, clientVars, handlerVars, threadVars,
              acceptorVars
<1>9. ASSUME NEW h \in Handlers, LinkChild(h) PROVE ActiveStays'
  <2>1. Links(h, hand[h])
    BY <1>9, LinkEffect
  <2>2. QED
    BY <1>1, <2>1 DEF Links, clientVars, handlerVars, threadVars, acceptorVars
<1>10. ASSUME NEW h \in Handlers, MoveToActive(h) PROVE ActiveStays'
  <2>1. Moves(h)
    BY <1>10, MoveEffect
  <2>2. QED
    BY <1>1, <2>1 DEF Moves, clientVars, handlerVars, threadVars, acceptorVars
<1>11. CASE UNCHANGED <<live, place>>
  BY <1>1, <1>11
<1>12. QED
  BY <1>2, <1>3, <1>4, <1>5, <1>6, <1>7, <1>8, <1>9, <1>10, <1>11
     DEF Next, ClientWork, Round, Pruning, Balance, vars, HangUp, Accept, Insert,
         Visit, clientVars, handlerVars, threadVars, acceptorVars

LEMMA NextArrivalMade ==
    ASSUME HandlerInv, [Next]_vars
    PROVE  ArrivalMade'
<1>1. TypeOK /\ PlacesAgree /\ ArrivalMade /\ OneOwner
  BY DEF HandlerInv
<1> USE HandlerAssumption
        DEF TypeOK, ArrivalMade, OneOwner, PlacesAgree
<1>2. ASSUME NEW p \in Procs, Accept(p) PROVE ArrivalMade'
  BY <1>1, <1>2 DEF Accept, clientVars, handlerVars, threadVars, acceptorVars
<1>3. CASE Insert
  <2>1. Inserts
    BY <1>3, InsertKeeps
  <2>2. QED
    BY <1>1, <2>1 DEF Inserts, clientVars, handlerVars, threadVars, acceptorVars
<1>4. CASE StartActive
  <2>1. Starts
    BY <1>4, StartEffect
  <2>2. QED
    BY <1>1, <2>1 DEF Starts, clientVars, handlerVars, threadVars, acceptorVars
<1>5. ASSUME NEW h \in Handlers, EraseProcessor(h) PROVE ArrivalMade'
  BY <1>1, <1>5 DEF EraseProcessor, Step, Goto, Delete, clientVars, handlerVars, threadVars,
              acceptorVars
<1>6. ASSUME NEW h \in Handlers, Join(h) PROVE ArrivalMade'
  <2>1. Joins(h, closing[h])
    BY <1>6, JoinEffect
  <2>2. QED
    BY <1>1, <2>1 DEF Joins, clientVars, handlerVars, threadVars, acceptorVars
<1>7. CASE UNCHANGED <<accepting, arrival, made>>
  BY <1>1, <1>7
<1>8. QED
  BY <1>2, <1>3, <1>4, <1>5, <1>6, <1>7
     DEF Next, ClientWork, Round, Pruning, Balance, vars, HangUp, StartRound, Visit,
         RemoveClient, EndRound, NothingToPrune, Prune, Sleep, DecideSplit,
         DecideMerge, NoSplit, Split, LinkChild, LockOwn, MoveToActive, SetStop,
         clientVars, handlerVars, threadVars, acceptorVars

LEMMA NextPointersLive ==
    ASSUME HandlerInv, [Next]_vars
    PROVE  PointersLive'
<1>1. TypeOK /\ PlacesAgree /\ ActiveStays /\ PointersLive /\ OnePointer
  BY DEF HandlerInv
<1> USE HandlerAssumption
        DEF TypeOK, PlacesAgree, ActiveStays, PointersLive, OnePointer, ChildOf, Deleting
<1>2. CASE StartActive
  <2>1. Starts
    BY <1>2, StartEffect
  <2>2. QED
    BY <1>1, <2>1 DEF Starts, clientVars, handlerVars, threadVars, acceptorVars
<1>3. ASSUME NEW h \in Handlers, StartRound(h) \/ EndRound(h) PROVE PointersLive'
  BY <1>1, <1>3 DEF StartRound, EndRound, Step, Goto, clientVars, handlerVars, threadVars,
              acceptorVars
<1>4. ASSUME NEW h \in Handlers, NEW p \in Procs, RemoveClient(h, p) PROVE PointersLive'
  BY <1>1, <1>4 DEF RemoveClient, Step, Goto, clientVars, handlerVars, threadVars, acceptorVars
<1>5. ASSUME NEW h \in Handlers, EraseProcessor(h) PROVE PointersLive'
  BY <1>1, <1>5 DEF EraseProcessor, Step, Goto, Delete, clientVars, handlerVars, threadVars,
              acceptorVars
<1>6. ASSUME NEW h \in Handlers,
             \/ NothingToPrune(h) \/ Sleep(h) \/ DecideSplit(h) \/ DecideMerge(h)
             \/ NoSplit(h) \/ LockOwn(h) \/ SetStop(h)
      PROVE  PointersLive'
  BY <1>1, <1>6 DEF NothingToPrune, Sleep, DecideSplit, DecideMerge, NoSplit, LockOwn, SetStop,
              Step, Goto, clientVars, handlerVars, threadVars, acceptorVars
<1>7. ASSUME NEW h \in Handlers, Prune(h) PROVE PointersLive'
  BY <1>1, <1>7 DEF Prune, Step, Goto, clientVars, handlerVars, threadVars, acceptorVars
<1>8. ASSUME NEW h \in Handlers, Join(h) PROVE PointersLive'
  <2>1. Joins(h, closing[h])
    BY <1>8, JoinEffect
  <2>2. QED
    BY <1>1, <2>1 DEF Joins, clientVars, handlerVars, threadVars, acceptorVars
<1>9. ASSUME NEW h \in Handlers, Split(h) PROVE PointersLive'
  BY <1>1, <1>9 DEF Split, Step, Goto, Kept, Inherited, clientVars, handlerVars, threadVars,
              acceptorVars
<1>10. ASSUME NEW h \in Handlers, LinkChild(h) PROVE PointersLive'
  <2>1. Links(h, hand[h])
    BY <1>10, LinkEffect
  <2>2. QED
    BY <1>1, <2>1 DEF Links, clientVars, handlerVars, threadVars, acceptorVars
<1>11. ASSUME NEW h \in Handlers, MoveToActive(h) PROVE PointersLive'
  <2>1. Moves(h)
    BY <1>11, MoveEffect
  <2>2. QED
    BY <1>1, <2>1 DEF Moves, clientVars, handlerVars, threadVars, acceptorVars
<1>12. CASE UNCHANGED <<live, place, child, hand, closing>>
  BY <1>1, <1>12
<1>13. QED
  BY <1>2, <1>3, <1>4, <1>5, <1>6, <1>7, <1>8, <1>9, <1>10, <1>11, <1>12
     DEF Next, ClientWork, Round, Pruning, Balance, vars, HangUp, Accept, Insert,
         Visit, clientVars, handlerVars, threadVars, acceptorVars

LEMMA NextOnePointer ==
    ASSUME HandlerInv, [Next]_vars
    PROVE  OnePointer'
<1>1. TypeOK /\ PlacesAgree /\ ActiveStays /\ PointersLive /\ OnePointer
  BY DEF HandlerInv
<1> USE HandlerAssumption
        DEF TypeOK, PlacesAgree, ActiveStays, PointersLive, OnePointer, ChildOf, Deleting
<1>2. CASE StartActive
  <2>1. Starts
    BY <1>2, StartEffect
  <2>2. QED
    BY <1>1, <2>1 DEF Starts, clientVars, handlerVars, threadVars, acceptorVars
<1>3. ASSUME NEW h \in Handlers, StartRound(h) \/ EndRound(h) PROVE OnePointer'
  BY <1>1, <1>3 DEF StartRound, EndRound, Step, Goto, clientVars, handlerVars, threadVars,
              acceptorVars
<1>4. ASSUME NEW h \in Handlers, NEW p \in Procs, RemoveClient(h, p) PROVE OnePointer'
  BY <1>1, <1>4 DEF RemoveClient, Step, Goto, clientVars, handlerVars, threadVars, acceptorVars
<1>5. ASSUME NEW h \in Handlers, EraseProcessor(h) PROVE OnePointer'
  BY <1>1, <1>5 DEF EraseProcessor, Step, Goto, Delete, clientVars, handlerVars, threadVars,
              acceptorVars
<1>6. ASSUME NEW h \in Handlers,
             \/ NothingToPrune(h) \/ Sleep(h) \/ DecideSplit(h) \/ DecideMerge(h)
             \/ NoSplit(h) \/ LockOwn(h) \/ SetStop(h)
      PROVE  OnePointer'
  BY <1>1, <1>6 DEF NothingToPrune, Sleep, DecideSplit, DecideMerge, NoSplit, LockOwn, SetStop,
              Step, Goto, clientVars, handlerVars, threadVars, acceptorVars
<1>7. ASSUME NEW h \in Handlers, Prune(h) PROVE OnePointer'
  BY <1>1, <1>7 DEF Prune, Step, Goto, clientVars, handlerVars, threadVars, acceptorVars
<1>8. ASSUME NEW h \in Handlers, Join(h) PROVE OnePointer'
  <2>1. Joins(h, closing[h])
    BY <1>8, JoinEffect
  <2>2. QED
    BY <1>1, <2>1 DEF Joins, clientVars, handlerVars, threadVars, acceptorVars
<1>9. ASSUME NEW h \in Handlers, Split(h) PROVE OnePointer'
  BY <1>1, <1>9 DEF Split, Step, Goto, Kept, Inherited, clientVars, handlerVars, threadVars,
              acceptorVars
<1>10. ASSUME NEW h \in Handlers, LinkChild(h) PROVE OnePointer'
  <2>1. Links(h, hand[h])
    BY <1>10, LinkEffect
  <2>2. QED
    BY <1>1, <2>1 DEF Links, clientVars, handlerVars, threadVars, acceptorVars
<1>11. ASSUME NEW h \in Handlers, MoveToActive(h) PROVE OnePointer'
  <2>1. Moves(h)
    BY <1>11, MoveEffect
  <2>2. QED
    BY <1>1, <2>1 DEF Moves, clientVars, handlerVars, threadVars, acceptorVars
<1>12. CASE UNCHANGED <<place, child, hand, closing>>
  BY <1>1, <1>12
<1>13. QED
  BY <1>2, <1>3, <1>4, <1>5, <1>6, <1>7, <1>8, <1>9, <1>10, <1>11, <1>12
     DEF Next, ClientWork, Round, Pruning, Balance, vars, HangUp, Accept, Insert,
         Visit, clientVars, handlerVars, threadVars, acceptorVars

LEMMA NextOneOwner ==
    ASSUME HandlerInv, [Next]_vars
    PROVE  OneOwner'
<1>1. TypeOK /\ PlacesAgree /\ ActiveStays /\ ArrivalMade /\ PointersLive /\ OneOwner /\ RegistryAgrees
  BY DEF HandlerInv
<1> USE HandlerAssumption
        DEF TypeOK, PlacesAgree, ActiveStays, PointersLive, ArrivalMade, OneOwner,
            RegistryAgrees, Closing
<1>2. ASSUME NEW p \in Procs, Accept(p) PROVE OneOwner'
  BY <1>1, <1>2 DEF Accept, clientVars, handlerVars, threadVars, acceptorVars
<1>3. CASE Insert
  <2>1. Inserts
    BY <1>3, InsertKeeps
  <2>2. QED
    BY <1>1, <2>1 DEF Inserts, clientVars, handlerVars, threadVars, acceptorVars
<1>4. ASSUME NEW h \in Handlers, EraseProcessor(h) PROVE OneOwner'
  BY <1>1, <1>4 DEF EraseProcessor, Step, Goto, Delete, clientVars, handlerVars, threadVars,
              acceptorVars
<1>5. ASSUME NEW h \in Handlers, Join(h) PROVE OneOwner'
  <2>1. Joins(h, closing[h])
    BY <1>5, JoinEffect
  <2>2. QED
    BY <1>1, <2>1 DEF Joins, clientVars, handlerVars, threadVars, acceptorVars
<1>6. ASSUME NEW h \in Handlers, Split(h) PROVE OneOwner'
  BY <1>1, <1>6 DEF Split, Step, Goto, Kept, Inherited, clientVars, handlerVars, threadVars,
              acceptorVars
<1>7. ASSUME NEW h \in Handlers, MoveToActive(h) PROVE OneOwner'
  <2>1. Moves(h)
    BY <1>7, MoveEffect
  <2>2. QED
    BY <1>1, <2>1 DEF Moves, clientVars, handlerVars, threadVars, acceptorVars
<1>8. CASE UNCHANGED <<made, arrival, live, processors>>
  BY <1>1, <1>8
<1>9. QED
  BY <1>2, <1>3, <1>4, <1>5, <1>6, <1>7, <1>8
     DEF Next, ClientWork, Round, Pruning, Balance, vars, HangUp, StartActive,
         StartRound, Visit, RemoveClient, EndRound, NothingToPrune, Prune, Sleep,
         DecideSplit, DecideMerge, NoSplit, LinkChild, LockOwn, SetStop, clientVars,
         handlerVars, threadVars, acceptorVars

LEMMA NextRegistryAgrees ==
    ASSUME HandlerInv, [Next]_vars
    PROVE  RegistryAgrees'
<1>1. TypeOK /\ PlacesAgree /\ PointersLive /\ OneOwner /\ RegistryAgrees
  BY DEF HandlerInv
<1> USE HandlerAssumption
        DEF TypeOK, PlacesAgree, PointersLive, OneOwner, RegistryAgrees, Closing
<1>2. ASSUME NEW p \in Procs, Accept(p) PROVE RegistryAgrees'
  BY <1>1, <1>2 DEF Accept, clientVars, handlerVars, threadVars, acceptorVars
<1>3. ASSUME NEW h \in Handlers, NEW p \in Procs, RemoveClient(h, p) PROVE RegistryAgrees'
  BY <1>1, <1>3 DEF RemoveClient, Step, Goto, clientVars, handlerVars, threadVars, acceptorVars
<1>4. ASSUME NEW h \in Handlers, EraseProcessor(h) PROVE RegistryAgrees'
  <2> DEFINE p == closing[h]
  <2>1. /\ place[h] = "erase" /\ p \in processors[h] /\ p \in made /\ p \in Procs
        /\ made' = made \ {p} /\ taken' = taken
        /\ closing' = [closing EXCEPT ![h] = None]
        /\ \A q \in Procs \ {p} : key'[q] = key[q]
    BY <1>1, <1>4 DEF EraseProcessor, Delete, Step
  <2>2. ASSUME NEW g \in Handlers, g # h, closing[g] = p PROVE FALSE
    <3>1. place[g] = "erase"
      BY <1>1, <2>1, <2>2
    <3>2. p \in processors[g]
      BY <1>1, <2>2, <3>1
    <3>3. QED
      BY <1>1, <2>1, <2>2, <3>2
  <2>3. Closing' = Closing \ {p}
    <3>1. \A g \in Handlers : closing'[g] = IF g = h THEN None ELSE closing[g]
      BY <1>1, <2>1
    <3>2. QED
      BY <2>1, <2>2, <3>1
  <2>4. (made \ Closing)' = made \ Closing /\ p \in Closing
    BY <2>1, <2>3
  <2>5. \A q \in made \ Closing : q \in Procs /\ key'[q] = key[q]
    BY <1>1, <2>1, <2>4
  <2>6. {key'[q] : q \in made \ Closing} = {key[q] : q \in made \ Closing}
    BY <2>5
  <2>7. QED
    BY <1>1, <2>1, <2>4, <2>5, <2>6
<1>5. ASSUME NEW h \in Handlers, Prune(h) PROVE RegistryAgrees'
  BY <1>1, <1>5 DEF Prune, Step, Goto, clientVars, handlerVars, threadVars, acceptorVars
<1>6. ASSUME NEW h \in Handlers, Join(h) PROVE RegistryAgrees'
  <2>1. Joins(h, closing[h])
    BY <1>6, JoinEffect
  <2>2. QED
    BY <1>1, <2>1 DEF Joins, clientVars, handlerVars, threadVars, acceptorVars
<1>7. CASE UNCHANGED <<taken, key, made, closing>>
  BY <1>1, <1>7
<1>8. QED
  BY <1>2, <1>3, <1>4, <1>5, <1>6, <1>7
     DEF Next, ClientWork, Round, Pruning, Balance, vars, HangUp, Insert,
         StartActive, StartRound, Visit, EndRound, NothingToPrune, Sleep,
         DecideSplit, DecideMerge, NoSplit, Split, LinkChild, LockOwn, MoveToActive,
         SetStop, clientVars, handlerVars, threadVars, acceptorVars

LEMMA NextNobodyStranded ==
    ASSUME HandlerInv, [Next]_vars
    PROVE  NobodyStranded'
<1>1. TypeOK /\ PlacesAgree /\ ActiveStays /\ ArrivalMade /\ PointersLive /\ OnePointer /\ NobodyStranded
  BY DEF HandlerInv
<1> USE HandlerAssumption
        DEF TypeOK, PlacesAgree, ActiveStays, PointersLive, OnePointer, ArrivalMade,
            NobodyStranded, Running
<1>2. ASSUME NEW p \in Procs, Accept(p) PROVE NobodyStranded'
  BY <1>1, <1>2 DEF Accept, clientVars, handlerVars, threadVars, acceptorVars
<1>3. CASE Insert
  <2>1. Inserts
    BY <1>3, InsertKeeps
  <2>2. QED
    BY <1>1, <2>1 DEF Inserts, clientVars, handlerVars, threadVars, acceptorVars
<1>4. CASE StartActive
  <2>1. Starts
    BY <1>4, StartEffect
  <2>2. QED
    BY <1>1, <2>1 DEF Starts, clientVars, handlerVars, threadVars, acceptorVars
<1>5. ASSUME NEW h \in Handlers, StartRound(h) \/ EndRound(h) \/ EraseProcessor(h) PROVE NobodyStranded'
  BY <1>1, <1>5 DEF StartRound, EndRound, EraseProcessor, Step, Goto, Delete, clientVars,
              handlerVars, threadVars, acceptorVars
<1>6. ASSUME NEW h \in Handlers, NEW p \in Procs, RemoveClient(h, p) PROVE NobodyStranded'
  BY <1>1, <1>6 DEF RemoveClient, Step, Goto, clientVars, handlerVars, threadVars, acceptorVars
<1>7. ASSUME NEW h \in Handlers,
             \/ NothingToPrune(h) \/ Sleep(h) \/ DecideSplit(h) \/ DecideMerge(h)
             \/ NoSplit(h) \/ LockOwn(h) \/ SetStop(h)
      PROVE  NobodyStranded'
  BY <1>1, <1>7 DEF NothingToPrune, Sleep, DecideSplit, DecideMerge, NoSplit, LockOwn, SetStop,
              Step, Goto, clientVars, handlerVars, threadVars, acceptorVars
<1>8. ASSUME NEW h \in Handlers, Prune(h) PROVE NobodyStranded'
  BY <1>1, <1>8 DEF Prune, Step, Goto, clientVars, handlerVars, threadVars, acceptorVars
<1>9. ASSUME NEW h \in Handlers, Join(h) PROVE NobodyStranded'
  <2>1. Joins(h, closing[h])
    BY <1>9, JoinEffect
  <2>2. ASSUME NEW x \in live', processors'[x] # {}, ~(place'[x] \in Running \ {"setStop"})
        PROVE  \/ x = Active /\ accepting' = "start"
               \/ \E g \in live' : place'[g] = "link" /\ hand'[g] = x
    <3>1. /\ x \in live /\ processors[x] # {} /\ accepting' = accepting
          /\ ~(place[x] \in Running \ {"setStop"})
      BY <1>1, <2>1, <2>2 DEF Joins, acceptorVars
    <3>2. CASE \E g \in live : place[g] = "link" /\ hand[g] = x
      <4>1. PICK g \in live : place[g] = "link" /\ hand[g] = x
        BY <3>2
      <4>2. g \in live' /\ place'[g] = "link" /\ hand'[g] = x
        BY <1>1, <2>1, <4>1 DEF Joins
      <4>3. QED
        BY <4>2
    <3>3. QED
      BY <1>1, <3>1, <3>2
  <2>3. QED
    BY <2>2
<1>10. ASSUME NEW h \in Handlers, Split(h) PROVE NobodyStranded'
  BY <1>1, <1>10 DEF Split, Step, Goto, Kept, Inherited, clientVars, handlerVars, threadVars,
              acceptorVars
<1>11. ASSUME NEW h \in Handlers, LinkChild(h) PROVE NobodyStranded'
  <2>1. Links(h, hand[h])
    BY <1>11, LinkEffect
  <2>2. ASSUME NEW x \in live', processors'[x] # {}, ~(place'[x] \in Running \ {"setStop"})
        PROVE  \/ x = Active /\ accepting' = "start"
               \/ \E g \in live' : place'[g] = "link" /\ hand'[g] = x
    <3>1. /\ x \in live /\ processors[x] # {} /\ accepting' = accepting
          /\ ~(place[x] \in Running \ {"setStop"}) /\ x # hand[h]
      BY <1>1, <2>1, <2>2 DEF Links, acceptorVars
    <3>2. CASE \E g \in live : place[g] = "link" /\ hand[g] = x
      <4>1. PICK g \in live : place[g] = "link" /\ hand[g] = x
        BY <3>2
      <4>2. g \in live' /\ place'[g] = "link" /\ hand'[g] = x
        BY <1>1, <2>1, <3>1, <4>1 DEF Links
      <4>3. QED
        BY <4>2
    <3>3. QED
      BY <1>1, <3>1, <3>2
  <2>3. QED
    BY <2>2
<1>12. ASSUME NEW h \in Handlers, MoveToActive(h) PROVE NobodyStranded'
  <2>1. Moves(h)
    BY <1>12, MoveEffect
  <2>2. ASSUME NEW x \in live', processors'[x] # {}, ~(place'[x] \in Running \ {"setStop"})
        PROVE  \/ x = Active /\ accepting' = "start"
               \/ \E g \in live' : place'[g] = "link" /\ hand'[g] = x
    <3>1. x # h /\ x # Active
      <4>1. x # h
        BY <1>1, <2>1, <2>2 DEF Moves
      <4>2. CASE listen[Active]
        <5>1. place'[Active] \in Running \ {"setStop"}
          BY <1>1, <2>1, <4>2 DEF Moves
        <5>2. QED
          BY <2>2, <4>1, <5>1
      <4>3. CASE ~listen[Active]
        <5>1. processors'[Active] = {} \/ place'[Active] = "top"
          BY <1>1, <2>1, <4>3 DEF Moves
        <5>2. QED
          BY <2>2, <4>1, <5>1
      <4>4. QED
        BY <4>2, <4>3
    <3>2. /\ x \in live /\ processors[x] # {} /\ place'[x] = place[x]
      BY <1>1, <2>1, <2>2, <3>1 DEF Moves
    <3>3. PICK g \in live : place[g] = "link" /\ hand[g] = x
      BY <1>1, <2>2, <3>1, <3>2
    <3>4. g \in live' /\ place'[g] = "link" /\ hand'[g] = x
      BY <1>1, <2>1, <3>3 DEF Moves
    <3>5. QED
      BY <3>4
  <2>3. QED
    BY <2>2
<1>13. CASE UNCHANGED <<live, processors, place, accepting, hand>>
  BY <1>1, <1>13
<1>14. QED
  BY <1>2, <1>3, <1>4, <1>5, <1>6, <1>7, <1>8, <1>9, <1>10, <1>11, <1>12, <1>13
     DEF Next, ClientWork, Round, Pruning, Balance, vars, HangUp, Visit, clientVars,
         handlerVars, threadVars, acceptorVars

-----------------------------------------------------------------------------
(* The chain.                                                               *)

(* A set that contains the active handler and whoever one of its members points
   to contains all handlers. *)
Connected ==
    \A S \in SUBSET Handlers :
        /\ Active \in S
        /\ \A h \in S : /\ child[h] # None => child[h] \in S
                        /\ hand[h] # None => hand[h] \in S
        => live \subseteq S

LEMMA NextConnected ==
    ASSUME HandlerInv, Connected, [Next]_vars
    PROVE  Connected'
<1>1. TypeOK /\ PlacesAgree /\ ActiveStays /\ PointersLive /\ OnePointer
  BY DEF HandlerInv
<1> USE HandlerAssumption DEF TypeOK, PlacesAgree, ActiveStays, PointersLive
<1> SUFFICES ASSUME NEW S \in SUBSET Handlers, Active \in S,
                    \A g \in S : /\ child'[g] # None => child'[g] \in S
                                 /\ hand'[g] # None => hand'[g] \in S
             PROVE  live' \subseteq S
  BY DEF Connected
<1>2. ASSUME NEW h \in Handlers, Prune(h) PROVE live' \subseteq S
  <2> DEFINE c == child[h]
  <2>1. /\ place[h] = "prune" /\ c \in live \ {Active} /\ hand[h] = None
        /\ hand' = [hand EXCEPT ![h] = child[c]] /\ child' = [child EXCEPT ![c] = None]
        /\ live' = live /\ h # c /\ h \in live /\ hand[c] = None
    <3>1. place[h] = "prune" /\ c # None /\ stop[c] /\ live' = live
          /\ hand' = [hand EXCEPT ![h] = child[c]] /\ child' = [child EXCEPT ![c] = None]
      BY <1>2 DEF Prune, Step, handlerVars
    <3>2. c \in live \ {Active} /\ place[c] = "ended" /\ hand[h] = None
      BY <1>1, <3>1
    <3>3. QED
      BY <1>1, <3>1, <3>2
  <2>2. ASSUME NEW g \in Handlers \ {h}, child[g] = c PROVE FALSE
    <3>1. ChildOf(h) = c /\ c # None
      BY <1>1, <2>1 DEF ChildOf
    <3>2. CASE place[g] = "link"
      <4>1. hand[g] \in Handlers /\ hand[g] # h /\ ChildOf(hand[g]) = c
        BY <1>1, <2>1, <2>2, <3>2 DEF ChildOf
      <4>2. QED
        BY <1>1, <3>1, <4>1 DEF OnePointer
    <3>3. CASE place[g] = "join"
      BY <1>1, <2>2, <3>1, <3>3 DEF OnePointer, Deleting
    <3>4. CASE place[g] \notin {"link", "join"}
      BY <1>1, <2>2, <3>1, <3>4 DEF OnePointer, ChildOf
    <3>5. QED
      BY <3>2, <3>3, <3>4
  <2>3. \A g \in Handlers : hand[g] # c
    BY <1>1, <2>1 DEF OnePointer, ChildOf
  <2>4. CASE h \in S
    <3>1. \A g \in S \cup {c} : /\ child[g] # None => child[g] \in S \cup {c}
                                /\ hand[g] # None => hand[g] \in S \cup {c}
      BY <1>1, <2>1, <2>4
    <3>2. S \cup {c} = S /\ live \subseteq S \cup {c}
      BY <2>1, <2>4, <3>1 DEF Connected
    <3>3. QED
      BY <2>1, <3>2
  <2>5. CASE h \notin S
    <3>1. \A g \in S \ {c} : /\ child[g] # None => child[g] \in S \ {c}
                             /\ hand[g] # None => hand[g] \in S \ {c}
      BY <1>1, <2>1, <2>2, <2>3, <2>5
    <3>2. QED
      BY <2>1, <2>5, <3>1 DEF Connected
  <2>6. QED
    BY <2>4, <2>5
<1>3. ASSUME NEW h \in Handlers, Join(h) PROVE live' \subseteq S
  <2> DEFINE c == closing[h]
  <2>1. Joins(h, c) /\ child[h] = c /\ hand[c] = None
    <3>1. Joins(h, c)
      BY <1>3, JoinEffect
    <3>2. place[h] = "join" /\ place[c] = "ended" /\ c \in Handlers
      BY <3>1 DEF Joins
    <3>3. QED
      BY <1>1, <3>1, <3>2
  <2>2. \A g \in S \cup {c} : /\ child[g] # None => child[g] \in S \cup {c}
                              /\ hand[g] # None => hand[g] \in S \cup {c}
    BY <1>1, <2>1 DEF Joins
  <2>3. live \subseteq S \cup {c}
    <3>1. S \cup {c} \in SUBSET Handlers
      BY <2>1 DEF Joins
    <3>2. QED
      BY <2>2, <3>1 DEF Connected
  <2>4. QED
    BY <2>1, <2>3 DEF Joins
<1>4. ASSUME NEW h \in Handlers, Split(h) PROVE live' \subseteq S
  <2>1. PICK n \in Handlers \ live :
            /\ live' = live \cup {n}
            /\ child' = [child EXCEPT ![n] = child[h]]
            /\ hand' = [hand EXCEPT ![h] = n]
            /\ place[h] = "split"
    BY <1>4 DEF Split, Step, Inherited
  <2>2. h \in live /\ hand[h] = None /\ child[n] = None /\ hand[n] = None
    BY <1>1, <2>1
  <2>3. \A g \in S : /\ child[g] # None => child[g] \in S
                     /\ hand[g] # None => hand[g] \in S
    BY <1>1, <2>1, <2>2
  <2>4. live \subseteq S
    BY <2>3 DEF Connected
  <2>5. hand'[h] = n /\ n # None /\ h \in S
    BY <1>1, <2>1, <2>2, <2>4
  <2>6. QED
    BY <2>1, <2>4, <2>5
<1>5. ASSUME NEW h \in Handlers, LinkChild(h) PROVE live' \subseteq S
  <2> DEFINE n == hand[h]
  <2>1. Links(h, n) /\ child[n] = child[h]
    BY <1>1, <1>5, LinkEffect DEF LinkChild
  <2>2. \A g \in S : /\ child[g] # None => child[g] \in S
                     /\ hand[g] # None => hand[g] \in S
    BY <1>1, <2>1 DEF Links
  <2>3. QED
    BY <2>1, <2>2 DEF Connected, Links
<1>6. CASE UNCHANGED <<live, child, hand>>
  BY <1>6 DEF Connected
<1>7. QED
  BY <1>2, <1>3, <1>4, <1>5, <1>6
     DEF Next, ClientWork, Round, Pruning, Balance, vars, HangUp, Accept, Insert,
         StartActive, StartRound, Visit, RemoveClient, EraseProcessor, EndRound,
         NothingToPrune, Sleep, DecideSplit, DecideMerge, NoSplit, LockOwn,
         MoveToActive, SetStop, clientVars, handlerVars, threadVars, acceptorVars

LEMMA LeastNatural ==
    ASSUME NEW T \in SUBSET Nat, T # {}
    PROVE  \E x \in T : \A y \in T : x <= y
<1>1. PICK x \in T : \A y \in T : ~ (<<y, x>> \in OpToRel(<, Nat))
  BY NatLessThanWellFounded, WFMin, Zenon
<1>2. \A y \in T : ~ (y < x)
  BY <1>1 DEF OpToRel
<1>3. QED
  BY <1>2

(* Induction, for a set of naturals. *)
LEMMA InductiveSet ==
    ASSUME NEW T, 0 \in T, \A n \in Nat : n \in T => n + 1 \in T
    PROVE  Nat \subseteq T
<1> SUFFICES ASSUME Nat \ T # {} PROVE FALSE
  OBVIOUS
<1>1. PICK n \in Nat \ T : \A m \in Nat \ T : n <= m
  BY LeastNatural
<1>2. n - 1 \in Nat /\ n - 1 \in T
  BY <1>1
<1>3. QED
  BY <1>1, <1>2

(* The recursive function is what its equation says. *)
LEMMA ReachDef ==
    ASSUME Cardinality(Handlers) \in Nat
    PROVE  /\ Reach[0] = {Active}
           /\ \A n \in 1 .. Cardinality(Handlers) :
                Reach[n] = Reach[n - 1] \cup UNION {After(h) : h \in Reach[n - 1]}
<1> DEFINE N == Cardinality(Handlers)
           More(S) == S \cup UNION {After(h) : h \in S}
           Sol(f, k) == f = [n \in 0 .. k |-> IF n = 0 THEN {Active} ELSE More(f[n - 1])]
           T == {k \in Nat : \E f : Sol(f, k)}
<1> HIDE DEF More
<1>1. 0 \in T
  <2>1. Sol([n \in 0 .. 0 |-> {Active}], 0)
    OBVIOUS
  <2>2. QED
    BY <2>1
<1>2. ASSUME NEW k \in Nat, k \in T PROVE k + 1 \in T
  <2>1. PICK f : Sol(f, k)
    BY <1>2
  <2>2. \A n \in 0 .. k : f[n] = IF n = 0 THEN {Active} ELSE More(f[n - 1])
    <3> DEFINE F == f
    <3>1. F = [n \in 0 .. k |-> IF n = 0 THEN {Active} ELSE More(f[n - 1])]
      BY <2>1
    <3> HIDE DEF F
    <3>2. \A n \in 0 .. k : F[n] = IF n = 0 THEN {Active} ELSE More(f[n - 1])
      BY <3>1
    <3>3. QED
      BY <3>2 DEF F
  <2> HIDE DEF Sol
  <2> DEFINE g == [n \in 0 .. k + 1 |-> IF n = k + 1 THEN More(f[k]) ELSE f[n]]
             G == [n \in 0 .. k + 1 |-> IF n = 0 THEN {Active} ELSE More(g[n - 1])]
  <2>3. \A n \in 0 .. k + 1 : g[n] = G[n]
    <3>1. \A n \in 0 .. k + 1 : g[n] = IF n = k + 1 THEN More(f[k]) ELSE f[n]
      OBVIOUS
    <3>2. \A n \in 0 .. k + 1 : G[n] = IF n = 0 THEN {Active} ELSE More(g[n - 1])
      OBVIOUS
    <3> HIDE DEF g, G
    <3>3. ASSUME NEW n \in 0 .. k + 1 PROVE g[n] = G[n]
      <4>1. CASE n = 0
        BY <2>2, <3>1, <3>2, <4>1
      <4>2. CASE n \in 1 .. k
        <5>1. n - 1 \in 0 .. k /\ n \in 0 .. k /\ n # k + 1 /\ n - 1 # k + 1 /\ n # 0
          BY <4>2
        <5>2. g[n - 1] = f[n - 1] /\ g[n] = f[n]
          BY <3>1, <5>1
        <5>3. QED
          BY <2>2, <3>2, <5>1, <5>2
      <4>3. CASE n = k + 1
        <5>1. n - 1 = k /\ k \in 0 .. k + 1 /\ k # k + 1 /\ n # 0
          BY <4>3
        <5>2. g[k] = f[k] /\ g[n] = More(f[k])
          BY <3>1, <4>3, <5>1
        <5>3. QED
          BY <3>2, <5>1, <5>2
      <4>4. QED
        BY <4>1, <4>2, <4>3
    <3>4. QED
      BY <3>3
  <2>4. g = G
    BY <2>3
  <2>5. Sol(g, k + 1)
    BY <2>4 DEF Sol
  <2>6. QED
    BY <2>5
<1>3. N \in T
  BY <1>1, <1>2, InductiveSet
<1>4. \E f : Sol(f, N)
  BY <1>3
<1>5. Reach = CHOOSE f : Sol(f, N)
  BY DEF Reach, More
<1>6. Sol(Reach, N)
  <2> HIDE DEF Sol
  <2>1. QED
    BY <1>4, <1>5
<1>7. \A n \in 0 .. N : Reach[n] = IF n = 0 THEN {Active} ELSE More(Reach[n - 1])
  <2> DEFINE R == Reach
             Body == [n \in 0 .. N |-> IF n = 0 THEN {Active} ELSE More(Reach[n - 1])]
  <2>1. R = Body
    BY <1>6
  <2> HIDE DEF R
  <2>2. \A n \in 0 .. N : R[n] = IF n = 0 THEN {Active} ELSE More(Reach[n - 1])
    BY <2>1
  <2>3. QED
    BY <2>2 DEF R
<1>8. Reach[0] = {Active}
  BY <1>7
<1>9. ASSUME NEW n \in 1 .. N PROVE Reach[n] = More(Reach[n - 1])
  BY <1>7
<1>10. QED
  BY <1>8, <1>9 DEF More

(* Before it has every handler it can reach, each step reaches another one. *)
LEMMA ReachGrows ==
    ASSUME HandlerInv
    PROVE  LET R == Reach[Cardinality(Handlers)]
           IN  R \subseteq live /\ Active \in R /\ \A h \in R : After(h) \subseteq R
<1> DEFINE N == Cardinality(Handlers)
           More(S) == S \cup UNION {After(h) : h \in S}
           Good(n) == /\ Reach[n] \subseteq live /\ Active \in Reach[n]
                      /\ \/ More(Reach[n]) = Reach[n]
                         \/ Cardinality(Reach[n]) >= n + 1
           T == {n \in Nat : n <= N => Good(n)}
<1>1. /\ N \in Nat
      /\ \A S \in SUBSET Handlers :
            IsFiniteSet(S) /\ Cardinality(S) \in Nat /\ Cardinality(S) <= N
  BY FiniteHandlers, FS_CardinalityType, FS_Subset
<1>2. live \in SUBSET Handlers /\ Active \in live
  BY DEF HandlerInv, TypeOK, ActiveStays
<1>3. \A S \in SUBSET live : More(S) \in SUBSET live
  <2>1. \A h \in live : After(h) \in SUBSET live
    BY <1>2 DEF HandlerInv, PointersLive, After
  <2>2. QED
    BY <2>1
<1>4. \A S : S \subseteq More(S)
  OBVIOUS
<1>5. Reach[0] = {Active} /\ \A n \in 1 .. N : Reach[n] = More(Reach[n - 1])
  BY <1>1, ReachDef
<1> HIDE DEF More
<1>6. 0 \in T
  <2>1. Cardinality({Active}) = 1
    BY FS_Singleton
  <2>2. QED
    BY <1>2, <1>5, <2>1
<1>7. ASSUME NEW n \in Nat, n \in T PROVE n + 1 \in T
  <2> SUFFICES ASSUME n + 1 <= N PROVE Good(n + 1)
    OBVIOUS
  <2> DEFINE S == Reach[n]
             M == Reach[n + 1]
  <2>1. Good(n) /\ M = More(S)
    <3>1. n <= N /\ n + 1 \in 1 .. N /\ (n + 1) - 1 = n
      BY <1>1
    <3>2. QED
      BY <1>5, <1>7, <3>1
  <2>2. M \in SUBSET live /\ S \subseteq M /\ S \in SUBSET live
    BY <1>3, <1>4, <2>1
  <2>3. CASE More(S) = S
    BY <2>1, <2>2, <2>3
  <2>4. CASE More(S) # S
    <3>1. Cardinality(S) >= n + 1
      BY <2>1, <2>4
    <3>2. PICK c \in M : c \notin S
      BY <2>1, <2>2, <2>4
    <3>3. S \cup {c} \in SUBSET M /\ IsFiniteSet(S) /\ IsFiniteSet(M)
          /\ Cardinality(S) \in Nat /\ Cardinality(M) \in Nat
      BY <1>1, <1>2, <2>2, <3>2
    <3>4. Cardinality(S \cup {c}) = Cardinality(S) + 1
      BY <3>2, <3>3, FS_AddElement
    <3>5. Cardinality(S \cup {c}) <= Cardinality(M)
      BY <3>3, FS_Subset
    <3>6. QED
      BY <2>1, <2>2, <3>1, <3>3, <3>4, <3>5
  <2>5. QED
    BY <2>3, <2>4
<1>8. Good(N)
  BY <1>1, <1>6, <1>7, InductiveSet
<1>9. More(Reach[N]) = Reach[N]
  <2>1. Reach[N] \in SUBSET Handlers
    BY <1>2, <1>8
  <2>2. QED
    BY <1>1, <1>8, <2>1
<1>10. \A h \in Reach[N] : After(h) \subseteq Reach[N]
  BY <1>9 DEF More
<1>11. QED
  BY <1>8, <1>10

(* A set that is closed under the pointers and holds the active handler is what
   can be reached from it. *)
LEMMA ConnectedChain ==
    ASSUME HandlerInv, Connected
    PROVE  ChainComplete
<1> DEFINE R == Reach[Cardinality(Handlers)]
<1>1. R \subseteq live /\ Active \in R /\ \A h \in R : After(h) \subseteq R
  BY ReachGrows
<1> HIDE DEF R
<1>2. R \in SUBSET Handlers
  BY <1>1 DEF HandlerInv, TypeOK
<1>3. live \subseteq R
  BY <1>1, <1>2 DEF Connected, After
<1>4. QED
  BY <1>1, <1>3 DEF ChainComplete, R

-----------------------------------------------------------------------------
(* The theorems.                                                            *)

LEMMA HandlerInvariant == Spec => []HandlerInv
<1>1. ASSUME HandlerInv, [Next]_vars PROVE HandlerInv'
  BY <1>1, NextTypeOK, NextPlacesAgree, NextActiveStays, NextArrivalMade, NextPointersLive,
     NextOnePointer, NextOneOwner, NextRegistryAgrees, NextNobodyStranded DEF HandlerInv
<1>2. QED
  BY <1>1, InitHandlers, PTL DEF Spec

(* Type correctness: in particular clients hang up only while their processor
   exists, and the registry holds ids only. *)
THEOREM HandlerTypeCorrect == Spec => []TypeOK
<1>1. HandlerInv => TypeOK
  BY DEF HandlerInv
<1>2. QED
  BY <1>1, HandlerInvariant, PTL

(* addProcessor(), split() and mergeWithActive() never lose a processor, serve
   it from two maps, or keep one that clientWork() has deleted. *)
THEOREM EveryoneHasOneOwner == Spec => []OneOwner
<1>1. HandlerInv => OneOwner
  BY DEF HandlerInv
<1>2. QED
  BY <1>1, HandlerInvariant, PTL

(* Wherever a processor is moved, a thread serves that handler or is about to
   be started: start() is never missed. *)
THEOREM NobodyIsStranded == Spec => []NobodyStranded
<1>1. HandlerInv => NobodyStranded
  BY DEF HandlerInv
<1>2. QED
  BY <1>1, HandlerInvariant, PTL

(* start() never makes a second thread for a handler that has one in its
   loop. *)
THEOREM ThreadsDoNotDouble == Spec => []OneThreadPerHandler
<1>1. HandlerInv => OneThreadPerHandler
  <2> SUFFICES ASSUME HandlerInv, NEW h \in live, ~listen[h]
               PROVE  place[h] \in {"none", "setStop", "ended"}
    BY DEF OneThreadPerHandler
  <2>1. h \in Handlers /\ place[h] \in Running \cup {"none", "ended"}
    BY DEF HandlerInv, TypeOK
  <2>2. place[h] \notin Running \ {"setStop"}
    BY <2>1 DEF HandlerInv, PlacesAgree
  <2>3. QED
    BY <2>1, <2>2
<1>2. QED
  BY <1>1, HandlerInvariant, PTL

(* pruneDeadChild() deletes a handler whose thread is done and to which nobody
   keeps a pointer. *)
THEOREM DeletedHasNoPointers == Spec => []NoDangling
<1>1. HandlerInv => NoDangling
  <2> SUFFICES ASSUME HandlerInv, NEW h \in Handlers \ live
               PROVE  /\ place[h] = "none" /\ h \notin locked
                      /\ \A g \in live : child[g] # h /\ hand[g] # h
    BY DEF NoDangling
  <2>1. place[h] = "none" /\ h \notin locked
    BY DEF HandlerInv, PlacesAgree
  <2>2. \A g \in live : child[g] # h /\ hand[g] # h
    BY HandlerAssumption DEF HandlerInv, TypeOK, PointersLive
  <2>3. QED
    BY <2>1, <2>2
<1>2. QED
  BY <1>1, HandlerInvariant, PTL

(* The ids in the registry are those of the processors that serve, with one
   processor for each: an id is never given out while its old owner can still
   remove it. *)
THEOREM RegistryAlwaysAgrees == Spec => []RegistryAgrees
<1>1. HandlerInv => RegistryAgrees
  BY DEF HandlerInv
<1>2. QED
  BY <1>1, HandlerInvariant, PTL

(* Through split(), mergeWithActive() and pruneDeadChild() the pointers lead from
   the active handler to every other one: none is lost with its clients. *)
THEOREM ChainIsComplete == Spec => []ChainComplete
<1>1. Init => Connected
  BY DEF Init, Connected
<1>2. ASSUME HandlerInv, Connected, [Next]_vars PROVE Connected'
  BY <1>2, NextConnected
<1>3. Spec => []Connected
  BY <1>1, <1>2, HandlerInvariant, PTL DEF Spec
<1>4. HandlerInv /\ Connected => ChainComplete
  BY ConnectedChain
<1>5. QED
  BY <1>3, <1>4, HandlerInvariant, PTL
=============================================================================
