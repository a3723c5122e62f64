------------------------ MODULE HandlerShutdownProofs ------------------------
(***************************************************************************)
(* Proofs about HandlerShutdown, for any number of handlers, processors and *)
(* ids.                                                                    *)
(*                                                                         *)
(* That the destructor never enters a handler twice is about where the     *)
(* children lead from where it is now (NoWayBack), while the threads split *)
(* and prune what it comes to.  This needs, as in the running server, that *)
(* no handler is pointed to twice; here a handler that the destructor has  *)
(* in its hands may be.  When something undefined has happened the model   *)
(* stops, and only the types, the owners and the stack are still known:    *)
(* the rest of the invariant is for as long as it goes on.                 *)
(***************************************************************************)
EXTENDS HandlerShutdown, SequenceTheorems, TLAPS

(* As PlacesAgree of the running server, but a thread that has seen stop keeps
   its mutex, and its handler has not always been emptied. *)
ThreadsAgree ==
    \A h \in Handlers :
        /\ place[h] \in {"visit", "erase", "link", "mergeActive"} => h \in locked
        /\ place[h] \in Running \ {"setStop"} => listen[h]
        /\ place[h] \notin {"visit", "erase"} => todo[h] = {}
        /\ todo[h] \subseteq processors[h]
        /\ place[h] = "erase" => closing[h] \in todo[h]
        /\ place[h] = "join" => closing[h] \in Handlers
        /\ place[h] \notin {"erase", "join"} => closing[h] = None
        /\ place[h] = "link" => hand[h] \in Handlers
        /\ place[h] \notin {"link", "join"} => hand[h] = None
        /\ h \notin live => place[h] = "none" /\ processors[h] = {}

(* The thread of the active handler ends only by stop, with its mutex locked. *)
ActiveKeepsLock ==
    /\ place[Active] \notin {"merge", "mergeActive", "setStop"}
    /\ place[Active] = "ended" => Active \in locked

ArrivalIsMade ==
    /\ accepting = "insert" <=> arrival # None
    /\ arrival # None => arrival \in made

(* clean() leaves the ids of what it deletes in the registry. *)
KeysDiffer ==
    /\ \A p \in made \ Closing : key[p] \in taken
    /\ \A p, q \in made \ Closing : key[p] = key[q] => p = q

(* The handlers whose destructors have begun, each once, the active one first. *)
StackGrows ==
    /\ step \in {"running", "done"} <=> stack = <<>>
    /\ stack # <<>> => stack[1] = Active
    /\ \A i, j \in 1 .. Len(stack) : stack[i] = stack[j] => i = j
    /\ step \notin {"clear", "tell"} => below = None

Descends == step \in {"running", "read", "clear", "tell"}

ChildOf(g) == IF place[g] \in {"link", "join"} THEN None ELSE child[g]
Deleting(g) == IF place[g] = "join" THEN closing[g] ELSE None

(* The handlers whose child has been read by their destructor. *)
Stacked == {stack[i] : i \in 1 .. Len(stack)}
WasRead == {stack[i] : i \in 1 .. IF step = "read" THEN Len(stack) - 1 ELSE Len(stack)}

PointersLead ==
    /\ Active \in live
    /\ step = "running" => ~stop[Active]
    /\ \A g \in Handlers :
        /\ child[g] # None => child[g] \in live \ {Active}
        /\ hand[g] # None => hand[g] \in live \ {Active}
        /\ place[g] = "link" =>
              /\ hand[g] # None /\ place[hand[g]] = "none" /\ hand[g] \notin Doomed
              /\ child[g] = child[hand[g]] \/ (g \in WasRead /\ child[g] = None)
        /\ place[g] = "join" =>
              /\ closing[g] \in live \ {Active} /\ place[closing[g]] = "ended"
              /\ child[closing[g]] = None
              /\ child[g] = closing[g] \/ (g \in WasRead /\ child[g] = None)
        /\ stop[g] /\ g \notin Stacked => place[g] = "ended"
        /\ g \notin live => child[g] = None

OnePointerEach ==
    \A g, h \in Handlers :
        /\ g # h /\ ChildOf(g) = ChildOf(h) => ChildOf(g) \in Doomed \cup {None}
        /\ g # h /\ hand[g] = hand[h] => hand[g] \in Doomed \cup {None}
        /\ g # h /\ Deleting(g) = Deleting(h) => Deleting(g) = None
        /\ ChildOf(g) \notin Doomed \cup {None} =>
              ChildOf(g) # hand[h] /\ ChildOf(g) # Deleting(h)
        /\ hand[g] # None => hand[g] # Deleting(h)

(* Where the destructor goes next. *)
Ahead == IF step = "read" THEN Last(stack) ELSE below

(* From there it will not come back to a handler it has been to: there is a set
   of handlers, with none of those, that pointers do not lead out of. *)
NoWayBack ==
    \E U \in SUBSET Handlers :
        /\ Ahead # None => Ahead \in U
        /\ U \cap WasRead = {}
        /\ \A u \in U : /\ child[u] # None => child[u] \in U \ {Ahead}
                        /\ hand[u] # None => hand[u] \in U \ {Ahead}

Strong ==
    /\ ThreadsAgree /\ ActiveKeepsLock /\ ArrivalIsMade /\ KeysDiffer
    /\ Descends => PointersLead /\ OnePointerEach
    /\ step \in {"read", "clear", "tell"} => NoWayBack

IInv == ShutdownInv /\ StackGrows /\ (Goes => Strong)

-----------------------------------------------------------------------------
(* The stack.                                                               *)

LEMMA SeqOfAll ==
    ASSUME NEW S, NEW T, NEW s \in Seq(S), \A i \in 1 .. Len(s) : s[i] \in T
    PROVE  s \in Seq(T)
<1>1. Len(s) \in Nat /\ s \in [1 .. Len(s) -> S]
  BY LenProperties
<1>2. s \in [1 .. Len(s) -> T]
  BY <1>1
<1>3. QED
  BY <1>1, <1>2, SeqDef

LEMMA PopProperties ==
    ASSUME NEW S, NEW s \in Seq(S), s # <<>>
    PROVE  /\ Len(s) \in Nat \ {0} /\ Last(s) = s[Len(s)] /\ Last(s) \in S
           /\ Front(s) \in Seq(S) /\ Len(Front(s)) = Len(s) - 1
           /\ \A i \in 1 .. Len(s) - 1 : Front(s)[i] = s[i]
<1>1. Len(s) \in Nat \ {0}
  BY EmptySeq
<1>2. \A i \in 1 .. Len(s) : s[i] \in S
  BY ElementOfSeq
<1>3. Front(s) = SubSeq(s, 1, Len(s) - 1)
  BY DEF Front
<1>4. /\ SubSeq(s, 1, Len(s) - 1) \in Seq(S)
      /\ Len(SubSeq(s, 1, Len(s) - 1)) = Len(s) - 1
      /\ \A i \in 1 .. Len(s) - 1 : SubSeq(s, 1, Len(s) - 1)[i] = s[i]
  <2> DEFINE n == Len(s) - 1
  <2>1. n \in Nat /\ \A i \in 1 .. n : s[i] \in S
    BY <1>1, <1>2
  <2> HIDE DEF n
  <2>2. /\ SubSeq(s, 1, n) \in Seq(S)
        /\ Len(SubSeq(s, 1, n)) = IF 1 <= n THEN n - 1 + 1 ELSE 0
        /\ \A i \in 1 .. n - 1 + 1 : SubSeq(s, 1, n)[i] = s[1 + i - 1]
    BY <2>1, SubSeqProperties
  <2>3. /\ n - 1 + 1 = n /\ \A i \in 1 .. n : 1 + i - 1 = i
        /\ ~(1 <= n) => n = 0
    BY <2>1
  <2>4. QED
    BY <2>2, <2>3 DEF n
<1>5. QED
  BY <1>1, <1>2, <1>3, <1>4 DEF Last

-----------------------------------------------------------------------------
(* The steps that depend on more than the fields they read, as they are      *)
(* where the invariant holds.                                                *)

(* A key that insert() finds is the one it looks for. *)
LEMMA NoClash ==
    ASSUME ShutdownInv, Strong, Active \notin locked,
           NEW p \in made, p \notin Closing, NEW q \in processors[Active], p # q
    PROVE  key[q] # key[p]
<1> USE HandlerAssumption DEF ShutdownInv, ShutdownTypeOK, TypeOK
<1>1. q \in made /\ q \in Procs
  BY DEF OneOwner
<1>2. ASSUME NEW g \in Handlers, closing[g] = q PROVE FALSE
  <2>1. place[g] = "erase"
    BY <1>1, <1>2 DEF Strong, ThreadsAgree
  <2>2. q \in processors[g] /\ g \in locked
    BY <1>2, <2>1 DEF Strong, ThreadsAgree
  <2>3. QED
    BY <2>2 DEF OneOwner
<1>3. q \notin Closing
  BY <1>2 DEF Closing
<1>4. QED
  BY <1>1, <1>3 DEF Strong, KeysDiffer

LEMMA NotClosing ==
    ASSUME ShutdownInv, Strong, NEW p \in made,
           \A g \in locked : p \notin processors[g] \/ place[g] # "erase"
    PROVE  p \notin Closing
<1> USE HandlerAssumption DEF ShutdownInv, ShutdownTypeOK, TypeOK
<1>1. ASSUME NEW g \in Handlers, closing[g] = p PROVE FALSE
  <2>1. place[g] = "erase"
    BY <1>1 DEF Strong, ThreadsAgree
  <2>2. p \in processors[g] /\ g \in locked
    BY <1>1, <2>1 DEF Strong, ThreadsAgree
  <2>3. QED
    BY <2>1, <2>2
<1>2. QED
  BY <1>1 DEF Closing

Inserts ==
    /\ arrival \in made /\ Active \in Handlers
    /\ processors' = [processors EXCEPT ![Active] = @ \cup {arrival}]
    /\ accepting = "insert" /\ accepting' = "start" /\ arrival' = None
    /\ UNCHANGED <<clientVars, live, child, listen, stop, locked, threadVars>>

LEMMA InsertEffect ==
    ASSUME ShutdownInv, Strong, Insert
    PROVE  Inserts
<1> USE HandlerAssumption DEF ShutdownInv, ShutdownTypeOK, TypeOK
<1>1. arrival \in made /\ arrival \in Procs
  BY DEF Insert, Strong, ArrivalIsMade
<1>2. arrival \notin Closing
  BY <1>1, NotClosing DEF OneOwner
<1>3. \A q \in processors[Active] : key[q] # key[arrival]
  BY <1>1, <1>2, NoClash DEF OneOwner, Insert
<1>4. InsertAll(processors[Active], {arrival}) = processors[Active] \cup {arrival}
  BY <1>3 DEF InsertAll
<1>5. QED
  BY <1>1, <1>4 DEF Insert, Inserts

(* As in the running server, but the active handler may have been told to stop
   before it has a thread. *)
Moves(h) ==
    /\ h # Active /\ Active \in Handlers
    /\ place[h] = "mergeActive" /\ Active \notin locked
    /\ processors' = [processors EXCEPT ![Active] = processors[Active] \cup processors[h],
                                        ![h] = {}]
    /\ locked' = locked \ {h}
    /\ \/ /\ listen[Active] \/ processors'[Active] = {}
          /\ place' = [place EXCEPT ![h] = "setStop"]
          /\ listen' = [listen EXCEPT ![h] = FALSE]
       \/ /\ ~listen[Active] /\ place[Active] = "none"
          /\ place' = [place EXCEPT ![h] = "setStop", ![Active] = "top"]
          /\ listen' = [listen EXCEPT ![h] = FALSE, ![Active] = TRUE]
    /\ UNCHANGED <<clientVars, live, child, stop, todo, closing, hand, acceptorVars>>

LEMMA MoveEffect ==
    ASSUME ShutdownInv, Strong, NEW h \in Handlers, MoveToActive(h)
    PROVE  Moves(h)
<1> USE HandlerAssumption DEF ShutdownInv, ShutdownTypeOK, TypeOK
<1> DEFINE both == processors[Active] \cup processors[h]
           starts == ~listen[Active] /\ both # {}
<1>1. h # Active /\ Active \in Handlers /\ place[h] = "mergeActive" /\ Active \notin locked
  BY DEF MoveToActive, Strong, ActiveKeepsLock
<1>2. ASSUME NEW p \in processors[h]
      PROVE  \A q \in processors[Active] : key[q] # key[p]
  <2>1. p \in made /\ p \notin processors[Active]
    BY <1>1 DEF OneOwner
  <2>2. p \notin Closing
    BY <1>1, <2>1, NotClosing DEF OneOwner
  <2>3. QED
    BY <1>1, <2>1, <2>2, NoClash
<1>3. InsertAll(processors[Active], processors[h]) = both
  BY <1>2 DEF InsertAll
<1>4. /\ processors' = [processors EXCEPT ![Active] = both, ![h] = {}]
      /\ listen' = [listen EXCEPT ![h] = FALSE, ![Active] = @ \/ starts]
      /\ place' = [place EXCEPT ![h] = "setStop", ![Active] = IF starts THEN "top" ELSE @]
  BY <1>3 DEF MoveToActive
<1>5. processors'[Active] = both
  BY <1>1, <1>4
<1>6. CASE starts
  <2>1. place[Active] = "none"
    BY <1>1, <1>6 DEF Strong, ThreadsAgree, ActiveKeepsLock, Running
  <2>2. /\ place' = [place EXCEPT ![h] = "setStop", ![Active] = "top"]
        /\ listen' = [listen EXCEPT ![h] = FALSE, ![Active] = TRUE]
    BY <1>1, <1>4, <1>6
  <2>3. QED
    BY <1>1, <1>4, <1>6, <2>1, <2>2 DEF MoveToActive, Moves
<1>7. CASE ~starts
  <2>1. listen[Active] \/ processors'[Active] = {}
    BY <1>5, <1>7
  <2>2. place' = [place EXCEPT ![h] = "setStop"]
    BY <1>1, <1>4, <1>7
  <2>3. listen' = [listen EXCEPT ![h] = FALSE]
    BY <1>1, <1>4, <1>7
  <2>4. QED
    BY <1>1, <1>4, <2>1, <2>2, <2>3 DEF MoveToActive, Moves
<1>8. QED
  BY <1>6, <1>7

(* start() of the active handler, whose thread may have ended. *)
Starts ==
    /\ Active \in Handlers
    /\ \/ listen[Active] /\ UNCHANGED <<listen, place>>
       \/ /\ place[Active] \in {"none", "ended"}
          /\ place' = [place EXCEPT ![Active] = "top"]
          /\ listen' = [listen EXCEPT ![Active] = TRUE]
    /\ accepting = "start" /\ accepting' = "idle"
    /\ UNCHANGED <<clientVars, live, processors, child, stop, locked, todo, closing, hand,
                   arrival>>

LEMMA StartEffect ==
    ASSUME ShutdownInv, Strong, StartActive
    PROVE  Starts
<1> USE HandlerAssumption DEF ShutdownInv, ShutdownTypeOK, TypeOK
<1>1. CASE listen[Active]
  <2>1. place' = place /\ listen' = listen
    BY <1>1 DEF StartActive, Started, Listening
  <2>2. QED
    BY <1>1, <2>1 DEF StartActive, Starts
<1>2. CASE ~listen[Active]
  <2>1. place[Active] \in {"none", "ended"}
    BY <1>2 DEF Strong, ThreadsAgree, ActiveKeepsLock, Running
  <2>2. QED
    BY <1>2, <2>1 DEF StartActive, Started, Listening, Starts
<1>3. QED
  BY <1>1, <1>2

-----------------------------------------------------------------------------
(* Types and owners, and the stack of destructors.                          *)

LEMMA NextTypeOK ==
    ASSUME ShutdownInv, Strong, ShutdownNext
    PROVE  TypeOK'
<1>1. TypeOK /\ ThreadsAgree
  BY DEF ShutdownInv, ShutdownTypeOK, Strong
<1> USE HandlerAssumption
        DEF TypeOK, Running, clientVars, handlerVars, threadVars, acceptorVars
<1>2. CASE Main
  <2>1. CASE BeginDelete \/ ReadChild \/ JoinThread
    BY <1>1, <2>1 DEF BeginDelete, ReadChild, JoinThread, vars
  <2>2. CASE ClearChild \/ TellToStop
    BY <1>1, <2>2 DEF ClearChild, TellToStop
  <2>3. CASE Free
    BY <1>1, <2>3 DEF Free, Delete
  <2>4. QED
    BY <1>2, <2>1, <2>2, <2>3 DEF Main
<1>3. ASSUME NEW p \in Procs, HangUp(p) \/ Accept(p) PROVE TypeOK'
  BY <1>1, <1>3 DEF HangUp, Accept
<1>4. CASE Insert
  <2>1. Inserts
    BY <1>4, InsertEffect
  <2>2. QED
    BY <1>1, <2>1 DEF Inserts
<1>5. CASE StartActive
  <2>1. Starts
    BY <1>5, StartEffect
  <2>2. QED
    BY <1>1, <2>1 DEF Starts
<1>6. ASSUME NEW h \in Handlers, StartRound(h) \/ EndRound(h) \/ StopRound(h) PROVE TypeOK'
  <2>1. CASE StartRound(h) \/ EndRound(h)
    BY <1>1, <2>1 DEF StartRound, EndRound, Step, Goto
  <2>2. CASE StopRound(h)
    BY <1>1, <2>2 DEF StopRound, Cleaned, Delete, Step, Goto
  <2>3. QED
    BY <1>6, <2>1, <2>2
<1>7. ASSUME NEW h \in Handlers, NEW p \in Procs, Visit(h, p) \/ RemoveClient(h, p)
      PROVE  TypeOK'
  BY <1>1, <1>7 DEF Visit, RemoveClient, Step, Goto
<1>8. ASSUME NEW h \in Handlers, EraseProcessor(h) PROVE TypeOK'
  BY <1>1, <1>8 DEF EraseProcessor, Step, Goto, Delete
<1>9. ASSUME NEW h \in Handlers,
             \/ NothingToPrune(h) \/ Sleep(h) \/ DecideSplit(h) \/ DecideMerge(h)
             \/ NoSplit(h) \/ LockOwn(h) \/ SetStop(h) \/ RefuseSplit(h) \/ RefuseMerge(h)
      PROVE  TypeOK'
  BY <1>1, <1>9 DEF NothingToPrune, Sleep, DecideSplit, DecideMerge, NoSplit, LockOwn, SetStop,
              RefuseSplit, RefuseMerge, Step, Goto
<1>10. ASSUME NEW h \in Handlers, Prune(h) PROVE TypeOK'
  BY <1>1, <1>10 DEF Prune, Step, Goto
<1>11. ASSUME NEW h \in Handlers, Join(h) PROVE TypeOK'
  BY <1>1, <1>11 DEF Join, Delete, Adopted
<1>12. ASSUME NEW h \in Handlers, Split(h) PROVE TypeOK'
  BY <1>1, <1>12 DEF Split, Step, Goto, Kept, Inherited
<1>13. ASSUME NEW h \in Handlers, LinkChild(h) PROVE TypeOK'
  BY <1>1, <1>13 DEF LinkChild, Started, Listening, ThreadsAgree
<1>14. ASSUME NEW h \in Handlers, MoveToActive(h) PROVE TypeOK'
  <2>1. Moves(h)
    BY <1>14, MoveEffect
  <2>2. QED
    BY <1>1, <2>1 DEF Moves
<1>15. QED
  BY <1>2, <1>3, <1>4, <1>5, <1>6, <1>7, <1>8, <1>9, <1>10, <1>11, <1>12, <1>13, <1>14
     DEF ShutdownNext, ThreadStep, AddClient, ClientWork, StopWork, Round, Pruning, Balance

(* Where nothing undefined has happened. *)
LEMMA Defined ==
    ASSUME Goes, NEW h \in Handlers
    PROVE  /\ place[h] \in Running => h \in live
           /\ place[h] = "join" => closing[h] \notin Doomed
           /\ place[h] = "mergeActive" => Active \in live
           /\ accepting # "idle" => Active \in live
BY DEF Goes, Undefined

LEMMA StackHas ==
    ASSUME ShutdownInv, StackGrows, step \notin {"running", "done"}
    PROVE  /\ stack \in Seq(live) /\ stack # <<>> /\ stack[1] = Active
           /\ Len(stack) \in Nat \ {0} /\ Last(stack) = stack[Len(stack)]
           /\ Last(stack) \in live /\ Last(stack) \in Doomed
           /\ DOMAIN stack = 1 .. Len(stack)
<1>1. stack \in Seq(live) /\ stack # <<>> /\ stack[1] = Active
  BY DEF ShutdownInv, ShutdownTypeOK, StackGrows
<1>2. DOMAIN stack = 1 .. Len(stack) /\ Len(stack) \in Nat \ {0}
  BY <1>1, LenProperties, EmptySeq
<1>3. Last(stack) = stack[Len(stack)] /\ Last(stack) \in live
  BY <1>1, PopProperties
<1>4. QED
  BY <1>1, <1>2, <1>3 DEF Doomed

LEMMA NextOwner ==
    ASSUME ShutdownInv, StackGrows, Strong, Goes, ShutdownNext
    PROVE  OneOwner'
<1>1. TypeOK /\ ThreadsAgree /\ ActiveKeepsLock /\ ArrivalIsMade /\ OneOwner
  BY DEF ShutdownInv, ShutdownTypeOK, Strong
<1> USE HandlerAssumption
        DEF TypeOK, ArrivalIsMade, OneOwner, clientVars, handlerVars, threadVars, acceptorVars
<1>2. CASE Free
  <2> DEFINE d == Last(stack)
  <2>1. /\ made' = made \ processors[d] /\ live' = live \ {d} /\ arrival' = arrival
        /\ processors' = [processors EXCEPT ![d] = {}]
    BY <1>2 DEF Free, Delete
  <2>2. d \in live
    BY <1>2, StackHas DEF Free
  <2>3. QED
    BY <1>1, <2>1, <2>2
<1>3. ASSUME NEW p \in Procs, Accept(p) PROVE OneOwner'
  BY <1>1, <1>3 DEF Accept
<1>4. CASE Insert
  <2>1. Inserts
    BY <1>4, InsertEffect
  <2>2. Active \in live
    BY <1>4, Defined DEF Insert
  <2>3. QED
    BY <1>1, <2>1, <2>2 DEF Inserts
<1>5. ASSUME NEW h \in Handlers, StopRound(h) PROVE OneOwner'
  BY <1>1, <1>5 DEF StopRound, Cleaned, Delete
<1>6. ASSUME NEW h \in Handlers, EraseProcessor(h) PROVE OneOwner'
  <2>1. closing[h] \in processors[h]
    BY <1>1, <1>6 DEF EraseProcessor, Step, ThreadsAgree
  <2>2. QED
    BY <1>1, <1>6, <2>1 DEF EraseProcessor, Delete
<1>7. ASSUME NEW h \in Handlers, Join(h) PROVE OneOwner'
  <2>1. closing[h] \in Handlers
    BY <1>1, <1>7 DEF Join, ThreadsAgree
  <2>2. QED
    BY <1>1, <1>7, <2>1 DEF Join, Delete
<1>8. ASSUME NEW h \in Handlers, Split(h) PROVE OneOwner'
  <2>1. h \in live
    BY <1>8, Defined DEF Split, Step, Running
  <2>2. QED
    BY <1>1, <1>8, <2>1 DEF Split, Kept, ThreadsAgree
<1>9. ASSUME NEW h \in Handlers, MoveToActive(h) PROVE OneOwner'
  <2>1. Moves(h) /\ Active \in live
    BY <1>9, MoveEffect, Defined DEF MoveToActive
  <2>2. /\ made' = made /\ live' = live /\ arrival' = arrival /\ h # Active
        /\ processors'[Active] = processors[Active] \cup processors[h]
        /\ processors'[h] = {}
        /\ \A g \in Handlers \ {h, Active} : processors'[g] = processors[g]
    BY <1>1, <2>1 DEF Moves
  <2>3. \A p \in made \ {arrival} : \E g \in live : p \in processors'[g]
    BY <1>1, <2>1, <2>2
  <2>4. \A g \in Handlers : processors'[g] \subseteq made \ {arrival}
    BY <1>1, <2>2
  <2>5. \A f, g \in Handlers : f # g => processors'[f] \cap processors'[g] = {}
    BY <1>1, <2>2
  <2>6. QED
    BY <2>2, <2>3, <2>4, <2>5
<1>10. CASE UNCHANGED <<made, arrival, live, processors>>
  BY <1>1, <1>10
<1> HIDE DEF TypeOK, ArrivalIsMade, OneOwner
<1>11. CASE Main
  <2>1. CASE BeginDelete \/ ReadChild \/ ClearChild \/ TellToStop \/ JoinThread
    BY <1>10, <2>1 DEF BeginDelete, ReadChild, ClearChild, TellToStop, JoinThread, vars
  <2>2. QED
    BY <1>2, <1>11, <2>1 DEF Main
<1>12. ASSUME NEW p \in Procs, HangUp(p) PROVE OneOwner'
  BY <1>10, <1>12 DEF HangUp
<1>13. CASE StartActive
  BY <1>10, <1>13 DEF StartActive
<1>14. ASSUME NEW h \in Handlers, Round(h) PROVE OneOwner'
  BY <1>6, <1>10, <1>14 DEF Round, StartRound, EndRound, Visit, RemoveClient
<1>15. ASSUME NEW h \in Handlers, Pruning(h) PROVE OneOwner'
  BY <1>7, <1>10, <1>15 DEF Pruning, NothingToPrune, Prune
<1>16. ASSUME NEW h \in Handlers, Balance(h) PROVE OneOwner'
  BY <1>8, <1>9, <1>10, <1>16
     DEF Balance, Sleep, DecideSplit, DecideMerge, NoSplit, LinkChild, LockOwn, SetStop
<1>17. ASSUME NEW h \in Handlers, StopWork(h) PROVE OneOwner'
  BY <1>5, <1>10, <1>17 DEF StopWork, RefuseSplit, RefuseMerge
<1>18. QED
  BY <1>3, <1>4, <1>11, <1>12, <1>13, <1>14, <1>15, <1>16, <1>17
     DEF ShutdownNext, ThreadStep, AddClient, ClientWork

(* A thread deletes no handler that the deleting thread has. *)
LEMMA ThreadsSpare ==
    ASSUME ShutdownInv, Strong, Goes, NEW h \in Handlers, ThreadStep(h)
    PROVE  Doomed \subseteq live'
<1>1. Doomed \subseteq live
  <2>1. \A i \in DOMAIN stack : stack[i] \in live
    BY LenProperties, ElementOfSeq DEF ShutdownInv, ShutdownTypeOK
  <2>2. QED
    BY <2>1 DEF Doomed, ShutdownInv, ShutdownTypeOK
<1>2. CASE Join(h)
  <2>1. closing[h] \notin Doomed
    BY <1>2, Defined DEF Join
  <2>2. QED
    BY <1>1, <1>2, <2>1 DEF Join
<1>3. CASE Split(h)
  BY <1>1, <1>3 DEF Split
<1>4. CASE Round(h)
  BY <1>1, <1>4
     DEF Round, StartRound, Visit, RemoveClient, EraseProcessor, EndRound, handlerVars
<1>5. CASE StopWork(h)
  BY <1>1, <1>5 DEF StopWork, StopRound, RefuseSplit, RefuseMerge, handlerVars
<1>6. CASE NothingToPrune(h) \/ Prune(h)
  BY <1>1, <1>6 DEF NothingToPrune, Prune, handlerVars
<1>7. QED
  BY <1>1, <1>2, <1>3, <1>4, <1>5, <1>6
     DEF ThreadStep, ClientWork, Pruning, Balance, Sleep, DecideSplit, DecideMerge, LinkChild,
         NoSplit, LockOwn, MoveToActive, SetStop, handlerVars

(* Going down the children, the destructor never comes to one it is in. *)
LEMMA NewBelow ==
    ASSUME ShutdownInv, StackGrows, Strong, step = "tell"
    PROVE  \A i \in 1 .. Len(stack) : stack[i] # below
<1>1. PICK U \in SUBSET Handlers : (below # None => below \in U) /\ U \cap WasRead = {}
  BY DEF Strong, NoWayBack, Ahead
<1>2. WasRead = {stack[i] : i \in 1 .. Len(stack)}
  BY DEF WasRead
<1>3. \A i \in 1 .. Len(stack) : stack[i] \in Handlers /\ stack[i] # None
  <2>1. stack \in Seq(live) /\ live \subseteq Handlers
    BY DEF ShutdownInv, ShutdownTypeOK, TypeOK
  <2>2. QED
    BY <2>1, ElementOfSeq, HandlerAssumption
<1>4. QED
  BY <1>1, <1>2, <1>3

LEMMA NextStack ==
    ASSUME ShutdownInv, StackGrows, Strong, ShutdownNext
    PROVE  /\ step' \in {"running", "read", "clear", "tell", "join", "free", "done", "aborted"}
           /\ stack' \in Seq(live') /\ below' \in live' \cup {None}
           /\ StackGrows'
<1> DEFINE Concl == /\ step' \in {"running", "read", "clear", "tell", "join", "free", "done", "aborted"}
                    /\ stack' \in Seq(live') /\ below' \in live' \cup {None}
                    /\ StackGrows'
<1>1. /\ step \in {"running", "read", "clear", "tell", "join", "free", "done", "aborted"}
      /\ stack \in Seq(live) /\ below \in live \cup {None} /\ live \subseteq Handlers
      /\ Goes
  BY DEF ShutdownInv, ShutdownTypeOK, TypeOK, ShutdownNext, ThreadStep
<1>2. Len(stack) \in Nat /\ \A i \in 1 .. Len(stack) : stack[i] \in live
  BY <1>1, LenProperties, ElementOfSeq
<1>3. CASE UNCHANGED mainVars /\ Doomed \subseteq live'
  <2>1. step' = step /\ stack' = stack /\ below' = below
    BY <1>3 DEF mainVars
  <2>2. StackGrows'
    BY <2>1 DEF StackGrows
  <2>3. \A i \in 1 .. Len(stack) : stack[i] \in live'
    BY <1>1, <1>3, LenProperties DEF Doomed
  <2>4. stack \in Seq(live')
    BY <1>1, <2>3, SeqOfAll
  <2>5. QED
    BY <1>1, <1>3, <2>1, <2>2, <2>4 DEF Doomed
<1>4. Doomed \subseteq live
  BY <1>1, <1>2, LenProperties DEF Doomed
<1>5. CASE BeginDelete
  <2>1. Active \in live /\ live' = live
    BY <1>5 DEF BeginDelete, Strong, Descends, PointersLead, vars, handlerVars
  <2>2. /\ stack' = <<Active>> /\ step' = "read" /\ below' = None
    BY <1>5 DEF BeginDelete, StackGrows
  <2>3. Len(<<Active>>) = 1 /\ <<Active>>[1] = Active /\ <<Active>> \in Seq(live)
        /\ <<Active>> # <<>>
    BY <2>1
  <2>4. StackGrows'
    BY <2>2, <2>3 DEF StackGrows
  <2>5. QED
    BY <2>1, <2>2, <2>3, <2>4
<1>6. CASE ReadChild
  <2>1. live' = live /\ stack' = stack /\ step' = "clear" /\ below' = child[Last(stack)]
    BY <1>6 DEF ReadChild, vars, handlerVars
  <2>2. Last(stack) \in Handlers
    BY <1>1, <1>6, StackHas DEF ReadChild
  <2>3. child[Last(stack)] \in live \cup {None}
    BY <1>6, <2>2 DEF ReadChild, Strong, Descends, PointersLead
  <2>4. StackGrows'
    BY <1>6, <2>1 DEF StackGrows, ReadChild
  <2>5. QED
    BY <1>1, <2>1, <2>3, <2>4
<1>7. CASE ClearChild
  <2>1. live' = live /\ stack' = stack /\ step' = "tell" /\ below' = below
    BY <1>7 DEF ClearChild
  <2>2. StackGrows'
    BY <1>7, <2>1 DEF StackGrows, ClearChild
  <2>3. QED
    BY <1>1, <2>1, <2>2
<1>8. CASE TellToStop
  <2>1. live' = live /\ below' = None /\ step = "tell"
    BY <1>8 DEF TellToStop
  <2>2. CASE below = None
    <3>1. stack' = stack /\ step' = "join"
      BY <1>8, <2>2 DEF TellToStop
    <3>2. StackGrows'
      BY <2>1, <3>1 DEF StackGrows
    <3>3. QED
      BY <1>1, <2>1, <3>1, <3>2
  <2>3. CASE below # None
    <3>1. stack' = Append(stack, below) /\ step' = "read" /\ below \in live
      BY <1>1, <1>8, <2>3 DEF TellToStop
    <3>2. /\ Append(stack, below) \in Seq(live) /\ Append(stack, below) # <<>>
          /\ Len(Append(stack, below)) = Len(stack) + 1
          /\ \A i \in 1 .. Len(stack) : Append(stack, below)[i] = stack[i]
          /\ Append(stack, below)[Len(stack) + 1] = below
      BY <1>1, <3>1, AppendProperties
    <3>3. Len(stack) >= 1 /\ stack[1] = Active
      BY <1>8, StackHas DEF TellToStop
    <3>4. \A i, j \in 1 .. Len(stack) + 1 :
            Append(stack, below)[i] = Append(stack, below)[j] => i = j
      <4>1. \A i \in 1 .. Len(stack) : stack[i] # below
        BY <2>1, NewBelow
      <4>2. \A i, j \in 1 .. Len(stack) : stack[i] = stack[j] => i = j
        BY DEF StackGrows
      <4>3. \A i \in 1 .. Len(stack) + 1 : i \in 1 .. Len(stack) \/ i = Len(stack) + 1
        BY <1>2
      <4>4. QED
        BY <3>2, <4>1, <4>2, <4>3
    <3>5. Append(stack, below)[1] = Active
      BY <1>2, <3>2, <3>3
    <3>6. StackGrows'
      BY <2>1, <3>1, <3>2, <3>4, <3>5 DEF StackGrows
    <3>7. QED
      BY <2>1, <3>1, <3>2, <3>6
  <2>4. QED
    BY <2>2, <2>3
<1>9. CASE JoinThread
  <2>1. live' = live /\ stack' = stack /\ below' = below /\ step' \in {"free", "aborted"}
        /\ step = "join"
    BY <1>9 DEF JoinThread, vars, handlerVars
  <2>2. StackGrows'
    BY <2>1 DEF StackGrows
  <2>3. QED
    BY <1>1, <2>1, <2>2
<1>10. CASE Free
  <2>1. /\ stack' = Front(stack) /\ below' = below /\ live' = live \ {Last(stack)}
        /\ step' = (IF stack' = <<>> THEN "done" ELSE "join") /\ step = "free"
    BY <1>10 DEF Free
  <2>2. stack # <<>> /\ stack[1] = Active /\ below = None
    BY <2>1, StackHas DEF StackGrows
  <2>3. /\ Len(stack) \in Nat \ {0} /\ Last(stack) = stack[Len(stack)]
        /\ Front(stack) \in Seq(live) /\ Len(Front(stack)) = Len(stack) - 1
        /\ \A i \in 1 .. Len(stack) - 1 : Front(stack)[i] = stack[i]
    BY <1>1, <2>2, PopProperties
  <2>4. \A i, j \in 1 .. Len(stack) : stack[i] = stack[j] => i = j
    BY DEF StackGrows
  <2>5. \A i \in 1 .. Len(Front(stack)) :
          Front(stack)[i] = stack[i] /\ i \in 1 .. Len(stack) /\ i # Len(stack)
    BY <2>3
  <2>6. \A i \in 1 .. Len(Front(stack)) : Front(stack)[i] \in live \ {Last(stack)}
    BY <1>2, <2>3, <2>4, <2>5
  <2>7. Front(stack) \in Seq(live \ {Last(stack)})
    BY <2>3, <2>6, SeqOfAll
  <2>8. Front(stack) # <<>> => Front(stack)[1] = Active
    <3>1. Front(stack) # <<>> => 1 \in 1 .. Len(stack) - 1
      BY <2>3, EmptySeq
    <3>2. QED
      BY <2>2, <2>3, <3>1
  <2>9. StackGrows'
    BY <2>1, <2>2, <2>4, <2>5, <2>8 DEF StackGrows
  <2>10. QED
    BY <2>1, <2>2, <2>7, <2>9
<1>11. ASSUME NEW h \in Handlers, ThreadStep(h) PROVE Concl
  BY <1>1, <1>3, <1>11, ThreadsSpare DEF ThreadStep
<1>12. CASE UNCHANGED mainVars /\ (AddClient \/ \E p \in Procs : HangUp(p))
  <2>1. live' = live
    BY <1>12 DEF AddClient, Accept, Insert, StartActive, HangUp, handlerVars
  <2>2. QED
    BY <1>3, <1>4, <1>12, <2>1
<1>13. QED
  BY <1>5, <1>6, <1>7, <1>8, <1>9, <1>10, <1>11, <1>12 DEF ShutdownNext, Main

-----------------------------------------------------------------------------
(* What the threads and the processors agree to.                            *)

LEMMA NextThreads ==
    ASSUME ShutdownInv, StackGrows, Strong, Goes, ShutdownNext, Goes', TypeOK'
    PROVE  ThreadsAgree'
<1>1. TypeOK /\ ThreadsAgree /\ OneOwner
  BY DEF ShutdownInv, ShutdownTypeOK, Strong
<1>2. \A h \in Handlers : place'[h] \in Running => h \in live'
  BY DEF Goes, Undefined
<1> USE HandlerAssumption
        DEF TypeOK, ThreadsAgree, Running, clientVars, handlerVars, threadVars, acceptorVars
<1>3. CASE Free
  <2> DEFINE d == Last(stack)
  <2>1. d \in live /\ d \in Handlers
    BY <1>1, <1>3, StackHas DEF Free
  <2>2. /\ processors' = [processors EXCEPT ![d] = {}] /\ live' = live \ {d}
        /\ listen' = [listen EXCEPT ![d] = FALSE]
        /\ place' = (IF place[d] = "ended" THEN [place EXCEPT ![d] = "none"] ELSE place)
        /\ UNCHANGED <<locked, todo, closing, hand>>
    BY <1>3 DEF Free
  <2> HIDE DEF d
  <2>3. place'[d] = "none" /\ place[d] \in {"none", "ended"}
    BY <1>1, <1>2, <2>1, <2>2
  <2>4. QED
    BY <1>1, <2>1, <2>2, <2>3
<1>4. CASE Insert
  <2>1. Inserts /\ Active \in live
    BY <1>4, InsertEffect, Defined DEF Insert
  <2>2. QED
    BY <1>1, <2>1 DEF Inserts
<1>5. CASE StartActive
  <2>1. Starts /\ Active \in live
    BY <1>5, StartEffect, Defined DEF StartActive
  <2>2. QED
    BY <1>1, <2>1 DEF Starts
<1>6. ASSUME NEW h \in Handlers, StartRound(h) \/ EndRound(h) PROVE ThreadsAgree'
  BY <1>1, <1>2, <1>6 DEF StartRound, EndRound, Step, Goto
<1>7. ASSUME NEW h \in Handlers, StopRound(h) PROVE ThreadsAgree'
  <2>1. h \in live
    BY <1>7, Defined DEF StopRound, Step
  <2>2. QED
    BY <1>1, <1>7, <2>1 DEF StopRound, Cleaned, Step, Goto
<1>8. ASSUME NEW h \in Handlers, NEW p \in Procs, Visit(h, p) PROVE ThreadsAgree'
  BY <1>1, <1>8 DEF Visit
<1>9. ASSUME NEW h \in Handlers, NEW p \in Procs, RemoveClient(h, p) PROVE ThreadsAgree'
  BY <1>1, <1>2, <1>9 DEF RemoveClient, Step, Goto
<1>10. ASSUME NEW h \in Handlers, EraseProcessor(h) PROVE ThreadsAgree'
  BY <1>1, <1>2, <1>10 DEF EraseProcessor, Step, Goto, OneOwner
<1>11. ASSUME NEW h \in Handlers,
              \/ NothingToPrune(h) \/ Sleep(h) \/ DecideSplit(h) \/ DecideMerge(h)
              \/ NoSplit(h) \/ SetStop(h) \/ RefuseSplit(h) \/ RefuseMerge(h)
       PROVE  ThreadsAgree'
  <2>1. h \in live
    BY <1>11, Defined DEF NothingToPrune, Sleep, DecideSplit, DecideMerge, NoSplit, SetStop,
                          RefuseSplit, RefuseMerge, Step
  <2>2. QED
    BY <1>1, <1>11, <2>1 DEF NothingToPrune, Sleep, DecideSplit, DecideMerge, NoSplit, SetStop,
                             RefuseSplit, RefuseMerge, Step, Goto
<1>12. ASSUME NEW h \in Handlers, LockOwn(h) PROVE ThreadsAgree'
  BY <1>1, <1>2, <1>12 DEF LockOwn, Step, Goto
<1>13. ASSUME NEW h \in Handlers, Prune(h) PROVE ThreadsAgree'
  BY <1>1, <1>2, <1>13 DEF Prune, Step, Goto
<1>14. ASSUME NEW h \in Handlers, Join(h) PROVE ThreadsAgree'
  <2>1. h \in live /\ closing[h] \in Handlers /\ closing[h] # h
    BY <1>1, <1>14, Defined DEF Join
  <2>2. QED
    BY <1>1, <1>14, <2>1 DEF Join
<1>15. ASSUME NEW h \in Handlers, Split(h) PROVE ThreadsAgree'
  <2>1. h \in live
    BY <1>15, Defined DEF Split, Step
  <2>2. QED
    BY <1>1, <1>15, <2>1 DEF Split, Step, Goto, Kept
<1>16. ASSUME NEW h \in Handlers, LinkChild(h) PROVE ThreadsAgree'
  <2>1. h \in live /\ hand[h] \in Handlers
    BY <1>1, <1>16, Defined DEF LinkChild
  <2>2. QED
    BY <1>1, <1>2, <1>16, <2>1 DEF LinkChild, Started, Listening
<1>17. ASSUME NEW h \in Handlers, MoveToActive(h) PROVE ThreadsAgree'
  <2>1. Moves(h) /\ Active \in live /\ h \in live
    BY <1>17, MoveEffect, Defined DEF MoveToActive
  <2>2. QED
    BY <1>1, <2>1 DEF Moves
<1> HIDE DEF ThreadsAgree
<1>18. CASE UNCHANGED <<locked, listen, place, todo, closing, hand, processors, live>>
  BY <1>1, <1>18 DEF ThreadsAgree
<1>19. CASE Main
  <2>1. CASE BeginDelete \/ ReadChild \/ ClearChild \/ TellToStop \/ JoinThread
    BY <1>18, <2>1 DEF BeginDelete, ReadChild, ClearChild, TellToStop, JoinThread, vars
  <2>2. QED
    BY <1>3, <1>19, <2>1 DEF Main
<1>20. ASSUME NEW p \in Procs, HangUp(p) \/ Accept(p) PROVE ThreadsAgree'
  BY <1>18, <1>20 DEF HangUp, Accept
<1>21. ASSUME NEW h \in Handlers, Round(h) PROVE ThreadsAgree'
  BY <1>6, <1>8, <1>9, <1>10, <1>21 DEF Round
<1>22. ASSUME NEW h \in Handlers, Pruning(h) PROVE ThreadsAgree'
  BY <1>11, <1>13, <1>14, <1>22 DEF Pruning
<1>23. ASSUME NEW h \in Handlers, Balance(h) PROVE ThreadsAgree'
  BY <1>11, <1>12, <1>15, <1>16, <1>17, <1>23 DEF Balance
<1>24. ASSUME NEW h \in Handlers, StopWork(h) PROVE ThreadsAgree'
  BY <1>7, <1>11, <1>24 DEF StopWork
<1>25. QED
  BY <1>4, <1>5, <1>19, <1>20, <1>21, <1>22, <1>23, <1>24
     DEF ShutdownNext, ThreadStep, AddClient, ClientWork

LEMMA NextActiveLock ==
    ASSUME ShutdownInv, StackGrows, Strong, Goes, ShutdownNext
    PROVE  ActiveKeepsLock'
<1>1. TypeOK /\ ThreadsAgree /\ ActiveKeepsLock
  BY DEF ShutdownInv, ShutdownTypeOK, Strong
<1> USE HandlerAssumption
        DEF TypeOK, ActiveKeepsLock, clientVars, handlerVars, threadVars, acceptorVars
<1>2. CASE Free
  BY <1>1, <1>2 DEF Free
<1>3. CASE StartActive
  <2>1. Starts
    BY <1>3, StartEffect
  <2>2. QED
    BY <1>1, <2>1 DEF Starts
<1>4. ASSUME NEW h \in Handlers, StartRound(h) \/ EndRound(h) \/ LockOwn(h)
      PROVE  ActiveKeepsLock'
  BY <1>1, <1>4 DEF StartRound, EndRound, LockOwn, Step, Goto
<1>5. ASSUME NEW h \in Handlers, StopRound(h) PROVE ActiveKeepsLock'
  BY <1>1, <1>5 DEF StopRound, Step, Goto
<1>6. ASSUME NEW h \in Handlers, NEW p \in Procs, RemoveClient(h, p) PROVE ActiveKeepsLock'
  BY <1>1, <1>6 DEF RemoveClient, Step, Goto
<1>7. ASSUME NEW h \in Handlers,
             \/ NothingToPrune(h) \/ Sleep(h) \/ DecideSplit(h) \/ DecideMerge(h)
             \/ NoSplit(h) \/ SetStop(h) \/ RefuseSplit(h) \/ RefuseMerge(h)
             \/ EraseProcessor(h) \/ Prune(h)
      PROVE  ActiveKeepsLock'
  BY <1>1, <1>7 DEF NothingToPrune, Sleep, DecideSplit, DecideMerge, NoSplit, SetStop,
                    RefuseSplit, RefuseMerge, EraseProcessor, Prune, Step, Goto
<1>8. ASSUME NEW h \in Handlers, Join(h) PROVE ActiveKeepsLock'
  BY <1>1, <1>8 DEF Join, ThreadsAgree
<1>9. ASSUME NEW h \in Handlers, Split(h) PROVE ActiveKeepsLock'
  BY <1>1, <1>9 DEF Split, Step, Goto
<1>10. ASSUME NEW h \in Handlers, LinkChild(h) PROVE ActiveKeepsLock'
  BY <1>1, <1>10 DEF LinkChild, Started, ThreadsAgree
<1>11. ASSUME NEW h \in Handlers, MoveToActive(h) PROVE ActiveKeepsLock'
  <2>1. Moves(h)
    BY <1>11, MoveEffect
  <2>2. QED
    BY <1>1, <2>1 DEF Moves
<1>12. CASE UNCHANGED <<locked, place>>
  BY <1>1, <1>12
<1> HIDE DEF TypeOK, ActiveKeepsLock
<1>13. CASE Main
  <2>1. CASE BeginDelete \/ ReadChild \/ ClearChild \/ TellToStop \/ JoinThread
    BY <1>12, <2>1 DEF BeginDelete, ReadChild, ClearChild, TellToStop, JoinThread, vars
  <2>2. QED
    BY <1>2, <1>13, <2>1 DEF Main
<1>14. CASE Insert
  BY <1>12, <1>14 DEF Insert
<1>15. ASSUME NEW p \in Procs, HangUp(p) \/ Accept(p) PROVE ActiveKeepsLock'
  BY <1>12, <1>15 DEF HangUp, Accept
<1>16. ASSUME NEW h \in Handlers, NEW p \in Procs, Visit(h, p) PROVE ActiveKeepsLock'
  BY <1>12, <1>16 DEF Visit
<1>17. ASSUME NEW h \in Handlers, Round(h) PROVE ActiveKeepsLock'
  BY <1>4, <1>6, <1>7, <1>16, <1>17 DEF Round
<1>18. ASSUME NEW h \in Handlers, Pruning(h) PROVE ActiveKeepsLock'
  BY <1>7, <1>8, <1>18 DEF Pruning
<1>19. ASSUME NEW h \in Handlers, Balance(h) PROVE ActiveKeepsLock'
  BY <1>4, <1>7, <1>9, <1>10, <1>11, <1>19 DEF Balance
<1>20. ASSUME NEW h \in Handlers, StopWork(h) PROVE ActiveKeepsLock'
  BY <1>5, <1>7, <1>20 DEF StopWork
<1>21. QED
  BY <1>3, <1>13, <1>14, <1>15, <1>17, <1>18, <1>19, <1>20
     DEF ShutdownNext, ThreadStep, AddClient, ClientWork

Agree == ArrivalIsMade /\ KeysDiffer

(* Deleting the processors of a handler leaves the arrival and the keys alone. *)
LEMMA DeleteKeeps ==
    ASSUME ShutdownInv, Agree, NEW h \in Handlers,
           Delete(processors[h]), taken' = taken, accepting' = accepting, arrival' = arrival,
           NEW c \in Handlers \cup {None}, Closing \subseteq Closing' \cup {c}
    PROVE  Agree'
<1> USE HandlerAssumption DEF ShutdownInv, ShutdownTypeOK, TypeOK, Agree
<1>1. ArrivalIsMade'
  BY DEF Delete, ArrivalIsMade, OneOwner
<1>2. \A p \in made' \ Closing' : p \in made \ Closing /\ key'[p] = key[p]
  BY DEF Delete
<1>3. KeysDiffer'
  BY <1>2 DEF KeysDiffer
<1>4. QED
  BY <1>1, <1>3

LEMMA NextAgree ==
    ASSUME ShutdownInv, StackGrows, Strong, Goes, ShutdownNext
    PROVE  Agree'
<1>1. TypeOK /\ ThreadsAgree /\ OneOwner /\ Agree
  BY DEF ShutdownInv, ShutdownTypeOK, Strong, Agree
<1> USE HandlerAssumption
        DEF TypeOK, clientVars, handlerVars, threadVars, acceptorVars
<1>2. CASE Free
  <2>1. Last(stack) \in Handlers
    BY <1>1, <1>2, StackHas DEF Free
  <2>2. Closing' = Closing
    BY <1>2 DEF Free, Closing
  <2>3. QED
    BY <1>1, <1>2, <2>1, <2>2, DeleteKeeps DEF Free
<1>3. ASSUME NEW h \in Handlers, StopRound(h) PROVE Agree'
  <2>1. Closing' = Closing
    BY <1>3 DEF StopRound, Closing
  <2>2. QED
    BY <1>1, <1>3, <2>1, DeleteKeeps DEF StopRound
<1>4. ASSUME NEW h \in Handlers, Join(h) PROVE Agree'
  <2>1. closing[h] \in Handlers
    BY <1>1, <1>4 DEF Join, ThreadsAgree
  <2>2. closing' = [closing EXCEPT ![h] = None]
    BY <1>4 DEF Join
  <2>3. Closing \subseteq Closing' \cup {closing[h]}
    BY <1>1, <2>2 DEF Closing
  <2>4. QED
    BY <1>1, <1>4, <2>1, <2>3, DeleteKeeps DEF Join
<1>5. ASSUME NEW p \in Procs, Accept(p) PROVE Agree'
  <2>1. Closing' = Closing
    BY <1>5 DEF Accept, Closing
  <2>2. PICK id \in Ids \ taken : taken' = taken \cup {id} /\ key' = [key EXCEPT ![p] = id]
    BY <1>5 DEF Accept
  <2>3. made' = made \cup {p} /\ p \notin made /\ key'[p] = id
        /\ \A q \in made : key'[q] = key[q]
    BY <1>1, <1>5, <2>2 DEF Accept
  <2>4. KeysDiffer'
    BY <1>1, <2>1, <2>2, <2>3 DEF KeysDiffer, Agree
  <2>5. ArrivalIsMade'
    BY <1>1, <1>5 DEF Accept, ArrivalIsMade
  <2>6. QED
    BY <2>4, <2>5 DEF Agree
<1>6. ASSUME NEW h \in Handlers, NEW p \in Procs, RemoveClient(h, p) PROVE Agree'
  <2>1. /\ p \in processors[h] /\ h \in locked /\ place[h] = "visit" /\ closing[h] = None
        /\ p \in made
    BY <1>1, <1>6 DEF RemoveClient, Step, ThreadsAgree, OneOwner
  <2>2. p \notin Closing
    <3>1. \A g \in locked : p \notin processors[g] \/ place[g] # "erase"
      BY <1>1, <2>1 DEF OneOwner
    <3>2. QED
      BY <2>1, <3>1, NotClosing
  <2>3. closing' = [closing EXCEPT ![h] = p]
    BY <1>6 DEF RemoveClient
  <2>4. Closing' = Closing \cup {p}
    BY <1>1, <2>1, <2>3 DEF Closing
  <2>5. KeysDiffer'
    BY <1>1, <1>6, <2>1, <2>2, <2>4 DEF KeysDiffer, Agree, RemoveClient
  <2>6. ArrivalIsMade'
    BY <1>1, <1>6 DEF RemoveClient, ArrivalIsMade, Agree
  <2>7. QED
    BY <2>5, <2>6 DEF Agree
<1>7. ASSUME NEW h \in Handlers, EraseProcessor(h) PROVE Agree'
  <2> DEFINE p == closing[h]
  <2>1. p \in made /\ p # arrival
    BY <1>1, <1>7 DEF EraseProcessor, Step, ThreadsAgree, OneOwner
  <2>2. /\ made' = made \ {p} /\ taken' = taken
        /\ key' = [q \in Procs |-> IF q \in {p} THEN None ELSE key[q]]
        /\ closing' = [closing EXCEPT ![h] = None]
        /\ arrival' = arrival /\ accepting' = accepting
    BY <1>7 DEF EraseProcessor, Delete
  <2> HIDE DEF p
  <2>3. \A q \in made' \ Closing' : q \in made \ Closing /\ key'[q] = key[q]
    BY <1>1, <2>1, <2>2 DEF Closing, p
  <2>4. KeysDiffer'
    BY <1>1, <2>2, <2>3 DEF KeysDiffer, Agree
  <2>5. ArrivalIsMade'
    BY <1>1, <2>1, <2>2 DEF ArrivalIsMade, Agree
  <2>6. QED
    BY <2>4, <2>5 DEF Agree
<1>8. ASSUME NEW h \in Handlers, Prune(h) PROVE Agree'
  <2> DEFINE c == child[h]
  <2>1. c \in Handlers /\ c \notin Procs /\ closing[h] = None
        /\ closing' = [closing EXCEPT ![h] = c]
    BY <1>1, <1>8 DEF Prune, Step, ThreadsAgree
  <2> HIDE DEF c
  <2>2. Closing' = Closing \cup {c}
    BY <1>1, <2>1 DEF Closing
  <2>3. KeysDiffer'
    BY <1>1, <1>8, <2>1, <2>2 DEF KeysDiffer, Agree, Prune
  <2>4. QED
    BY <1>1, <1>8, <2>3 DEF Agree, ArrivalIsMade, Prune
<1>9. CASE UNCHANGED <<taken, made, key, closing>>
           /\ (UNCHANGED <<accepting, arrival>> \/ (accepting' # "insert" /\ arrival' = None))
  BY <1>1, <1>9 DEF Agree, ArrivalIsMade, KeysDiffer, Closing
<1>10. CASE Main
  <2>1. CASE BeginDelete \/ ReadChild \/ ClearChild \/ TellToStop \/ JoinThread
    BY <1>9, <2>1 DEF BeginDelete, ReadChild, ClearChild, TellToStop, JoinThread, vars
  <2>2. QED
    BY <1>2, <1>10, <2>1 DEF Main
<1>11. CASE Insert
  BY <1>9, <1>11 DEF Insert
<1>12. CASE StartActive
  BY <1>1, <1>9, <1>12 DEF StartActive, Agree, ArrivalIsMade
<1>13. ASSUME NEW p \in Procs, HangUp(p) PROVE Agree'
  BY <1>9, <1>13 DEF HangUp
<1>14. ASSUME NEW h \in Handlers, Round(h) PROVE Agree'
  BY <1>6, <1>7, <1>9, <1>14 DEF Round, StartRound, EndRound, Visit
<1>15. ASSUME NEW h \in Handlers, Pruning(h) PROVE Agree'
  BY <1>4, <1>8, <1>9, <1>15 DEF Pruning, NothingToPrune
<1>16. ASSUME NEW h \in Handlers, Balance(h) PROVE Agree'
  BY <1>9, <1>16 DEF Balance, Sleep, DecideSplit, DecideMerge, NoSplit, LinkChild, LockOwn,
                     SetStop, Split, MoveToActive
<1>17. ASSUME NEW h \in Handlers, StopWork(h) PROVE Agree'
  BY <1>3, <1>9, <1>17 DEF StopWork, RefuseSplit, RefuseMerge
<1>18. QED
  BY <1>5, <1>10, <1>11, <1>12, <1>13, <1>14, <1>15, <1>16, <1>17
     DEF ShutdownNext, ThreadStep, AddClient, ClientWork

-----------------------------------------------------------------------------
(* Pointers, while the destructor goes down.                                *)

Pointers == PointersLead /\ OnePointerEach

(* A step that leaves all pointers as they are, also those that are in the
   hands of a thread. *)
Still ==
    /\ UNCHANGED <<child, hand, live>> /\ UNCHANGED mainVars
    /\ \A g \in Handlers :
        /\ place'[g] = "link" <=> place[g] = "link"
        /\ place'[g] = "join" <=> place[g] = "join"
        /\ place[g] = "join" => closing'[g] = closing[g]
        /\ g # Active /\ place[g] \in {"none", "ended"} => place'[g] = place[g]
        /\ stop'[g] =>
              \/ place'[g] = "ended" /\ g # Active
              \/ stop[g] /\ (place[g] = "ended" => place'[g] = "ended" \/ g = Active)

LEMMA StillPointers ==
    ASSUME ShutdownInv, Pointers, StackGrows, Still, Descends
    PROVE  Pointers'
<1> USE HandlerAssumption DEF ShutdownInv, ShutdownTypeOK, TypeOK, Pointers, mainVars, Still
<1>1. Doomed' = Doomed /\ WasRead' = WasRead /\ Stacked' = Stacked
  BY DEF Doomed, WasRead, Stacked
<1>2. /\ \A g \in Handlers : ChildOf(g)' = ChildOf(g)
      /\ \A g \in Handlers : Deleting(g)' = Deleting(g)
  BY DEF ChildOf, Deleting
<1>3. OnePointerEach'
  BY <1>1, <1>2 DEF OnePointerEach
<1>4. stop[Active] => Active \in Stacked
  <2>1. step # "running" => stack[1] = Active /\ Len(stack) \in Nat \ {0}
    BY StackHas DEF Descends
  <2>2. QED
    BY <2>1 DEF PointersLead, Stacked
<1>5. PointersLead'
  <2>1. Active \in live' /\ (step' = "running" => ~stop'[Active])
    BY DEF PointersLead
  <2>2. ASSUME NEW g \in Handlers
        PROVE  /\ child[g] # None => child[g] \in live \ {Active}
               /\ hand[g] # None => hand[g] \in live \ {Active}
               /\ g \notin live => child[g] = None
    BY DEF PointersLead
  <2>3. ASSUME NEW g \in Handlers, place'[g] = "link"
        PROVE  /\ hand[g] # None /\ place'[hand[g]] = "none" /\ hand[g] \notin Doomed
               /\ child[g] = child[hand[g]] \/ (g \in WasRead /\ child[g] = None)
    BY <2>2, <2>3 DEF PointersLead
  <2>4. ASSUME NEW g \in Handlers, place'[g] = "join"
        PROVE  /\ closing'[g] \in live \ {Active} /\ place'[closing'[g]] = "ended"
               /\ child[closing'[g]] = None
               /\ child[g] = closing'[g] \/ (g \in WasRead /\ child[g] = None)
    BY <2>4 DEF PointersLead
  <2>5. ASSUME NEW g \in Handlers, stop'[g], g \notin Stacked
        PROVE  place'[g] = "ended"
    BY <1>4, <2>5 DEF PointersLead
  <2> HIDE DEF Still
  <2>6. child' = child /\ hand' = hand /\ live' = live
    BY DEF Still
  <2>7. QED
    BY <1>1, <2>1, <2>2, <2>3, <2>4, <2>5, <2>6 DEF PointersLead
<1>6. QED
  BY <1>3, <1>5

LEMMA StillSteps ==
    ASSUME ShutdownInv, Strong, Goes, ShutdownNext, ~Main
    PROVE  \/ Still
           \/ \E h \in Handlers : (Prune(h) \/ Join(h) \/ Split(h) \/ LinkChild(h))
                                   /\ UNCHANGED mainVars
<1>1. TypeOK /\ ActiveKeepsLock
  BY DEF ShutdownInv, ShutdownTypeOK, Strong
<1> USE HandlerAssumption
        DEF TypeOK, Still, clientVars, handlerVars, threadVars, acceptorVars
<1>2. UNCHANGED mainVars
  BY DEF ShutdownNext, ThreadStep
<1>3. ASSUME UNCHANGED <<child, hand, live, place, stop, closing>> PROVE Still
  BY <1>2, <1>3
<1>4. CASE StartActive
  <2>1. Starts
    BY <1>4, StartEffect
  <2>2. QED
    BY <1>1, <1>2, <2>1 DEF Starts
<1>5. ASSUME NEW h \in Handlers, StartRound(h) \/ EndRound(h) \/ LockOwn(h) \/ StopRound(h)
      PROVE  Still
  BY <1>1, <1>2, <1>5 DEF StartRound, EndRound, LockOwn, StopRound, Step, Goto
<1>6. ASSUME NEW h \in Handlers, NEW p \in Procs, RemoveClient(h, p) PROVE Still
  BY <1>1, <1>2, <1>6 DEF RemoveClient, Step, Goto
<1>7. ASSUME NEW h \in Handlers,
             \/ NothingToPrune(h) \/ Sleep(h) \/ DecideSplit(h) \/ DecideMerge(h)
             \/ NoSplit(h) \/ RefuseSplit(h) \/ RefuseMerge(h)
      PROVE  Still
  BY <1>1, <1>2, <1>7
     DEF NothingToPrune, Sleep, DecideSplit, DecideMerge, NoSplit, RefuseSplit, RefuseMerge,
         Step, Goto
<1>8. ASSUME NEW h \in Handlers, SetStop(h) PROVE Still
  BY <1>1, <1>2, <1>8 DEF SetStop, Step, Goto, ActiveKeepsLock
<1>9. ASSUME NEW h \in Handlers, EraseProcessor(h) PROVE Still
  BY <1>1, <1>2, <1>9 DEF EraseProcessor, Step, Goto
<1>10. ASSUME NEW h \in Handlers, MoveToActive(h) PROVE Still
  <2>1. Moves(h)
    BY <1>10, MoveEffect
  <2>2. QED
    BY <1>1, <1>2, <2>1 DEF Moves
<1> HIDE DEF TypeOK, Still
<1>11. CASE Insert
  BY <1>3, <1>11 DEF Insert
<1>12. ASSUME NEW p \in Procs, HangUp(p) \/ Accept(p) PROVE Still
  BY <1>3, <1>12 DEF HangUp, Accept
<1>13. ASSUME NEW h \in Handlers, NEW p \in Procs, Visit(h, p) PROVE Still
  BY <1>3, <1>13 DEF Visit
<1>14. ASSUME NEW h \in Handlers, Round(h) PROVE Still
  BY <1>5, <1>6, <1>9, <1>13, <1>14 DEF Round
<1>15. ASSUME NEW h \in Handlers, Pruning(h) PROVE Still \/ Prune(h) \/ Join(h)
  BY <1>7, <1>15 DEF Pruning
<1>16. ASSUME NEW h \in Handlers, Balance(h) PROVE Still \/ Split(h) \/ LinkChild(h)
  BY <1>5, <1>7, <1>8, <1>10, <1>16 DEF Balance
<1>17. ASSUME NEW h \in Handlers, StopWork(h) PROVE Still
  BY <1>5, <1>7, <1>17 DEF StopWork
<1>18. QED
  BY <1>2, <1>4, <1>11, <1>12, <1>14, <1>15, <1>16, <1>17
     DEF ShutdownNext, ThreadStep, AddClient, ClientWork

(* pruneDeadChild() moves two pointers from the fields into the hands of the
   thread, if the child is not one the destructor is at. *)
LEMMA PrunePointers ==
    ASSUME ShutdownInv, Strong, StackGrows, Goes, Descends, Goes',
           NEW h \in Handlers, Prune(h), UNCHANGED mainVars
    PROVE  Pointers'
<1> DEFINE c == child[h]
<1>1. TypeOK /\ PointersLead /\ OnePointerEach
  BY DEF ShutdownInv, ShutdownTypeOK, Strong
<1>2. Doomed' = Doomed /\ WasRead' = WasRead /\ Stacked' = Stacked /\ step' = step
  BY DEF Doomed, WasRead, Stacked, mainVars
<1>3. /\ place[h] = "prune" /\ c # None /\ stop[c] /\ c \in Handlers
      /\ place' = [place EXCEPT ![h] = "join"]
      /\ hand' = [hand EXCEPT ![h] = child[c]]
      /\ child' = [child EXCEPT ![c] = None]
      /\ closing' = [closing EXCEPT ![h] = c]
      /\ live' = live /\ stop' = stop
  BY <1>1 DEF Prune, Step, Goto, TypeOK
<1>4. c \notin Doomed
  <2>1. place'[h] = "join" /\ closing'[h] = c
    BY <1>1, <1>3 DEF TypeOK
  <2>2. QED
    BY <1>2, <2>1 DEF Goes, Undefined
<1>5. c \notin Stacked
  BY <1>4, LenProperties DEF Doomed, Stacked, ShutdownInv, ShutdownTypeOK
<1>6. c \in live \ {Active} /\ place[c] = "ended" /\ c # h
  BY <1>3, <1>5, <1>1 DEF PointersLead
<1>7. /\ child[h] = c /\ ChildOf(h) = c /\ ChildOf(c) = child[c] /\ Deleting(h) = None
  BY <1>3, <1>6 DEF ChildOf, Deleting
<1>8. \A g \in Handlers : Deleting(g) \notin Doomed
  <2>1. None \notin Doomed
    <3>1. Doomed \subseteq Handlers
      <4>1. \A i \in DOMAIN stack : stack[i] \in Handlers
        BY LenProperties, ElementOfSeq DEF ShutdownInv, ShutdownTypeOK, TypeOK
      <4>2. QED
        BY <4>1 DEF Doomed, ShutdownInv, ShutdownTypeOK, TypeOK
    <3>2. QED
      BY <3>1, HandlerAssumption
  <2>2. QED
    BY <2>1, Defined DEF Deleting
<1> HIDE DEF c
<1> USE HandlerAssumption
<1>9. /\ \A g \in Handlers : hand'[g] = IF g = h THEN child[c] ELSE hand[g]
      /\ \A g \in Handlers : child'[g] = IF g = c THEN None ELSE child[g]
      /\ \A g \in Handlers : closing'[g] = IF g = h THEN c ELSE closing[g]
      /\ \A g \in Handlers : place'[g] = IF g = h THEN "join" ELSE place[g]
  BY <1>1, <1>3 DEF TypeOK
<1>10. \A g \in Handlers :
          /\ ChildOf(g)' = IF g \in {h, c} THEN None ELSE ChildOf(g)
          /\ Deleting(g)' = IF g = h THEN c ELSE Deleting(g)
  BY <1>3, <1>6, <1>7, <1>9 DEF ChildOf, Deleting
<1>11. PointersLead'
  BY <1>1, <1>2, <1>3, <1>6, <1>7, <1>9 DEF PointersLead
<1>12. OnePointerEach'
  <2> SUFFICES ASSUME NEW f \in Handlers, NEW g \in Handlers
               PROVE  /\ f # g /\ ChildOf(f)' = ChildOf(g)' => ChildOf(f)' \in Doomed \cup {None}
                      /\ f # g /\ hand'[f] = hand'[g] => hand'[f] \in Doomed \cup {None}
                      /\ f # g /\ Deleting(f)' = Deleting(g)' => Deleting(f)' = None
                      /\ ChildOf(f)' \notin Doomed \cup {None} =>
                            ChildOf(f)' # hand'[g] /\ ChildOf(f)' # Deleting(g)'
                      /\ hand'[f] # None => hand'[f] # Deleting(g)'
    BY <1>2 DEF OnePointerEach
  <2>1. f # g /\ ChildOf(f)' = ChildOf(g)' => ChildOf(f)' \in Doomed \cup {None}
    BY <1>1, <1>10 DEF OnePointerEach
  <2>2. f # g /\ hand'[f] = hand'[g] => hand'[f] \in Doomed \cup {None}
    BY <1>1, <1>3, <1>7, <1>9 DEF OnePointerEach
  <2>3. f # g /\ Deleting(f)' = Deleting(g)' => Deleting(f)' = None
    BY <1>1, <1>3, <1>4, <1>7, <1>10 DEF OnePointerEach
  <2>4. ChildOf(f)' \notin Doomed \cup {None} =>
          ChildOf(f)' # hand'[g] /\ ChildOf(f)' # Deleting(g)'
    BY <1>1, <1>3, <1>4, <1>7, <1>9, <1>10 DEF OnePointerEach
  <2>5. hand'[f] # None => hand'[f] # Deleting(g)'
    BY <1>1, <1>3, <1>4, <1>6, <1>7, <1>8, <1>9, <1>10 DEF OnePointerEach
  <2>6. QED
    BY <2>1, <2>2, <2>3, <2>4, <2>5
<1>13. QED
  BY <1>11, <1>12 DEF Pointers

(* Nobody else has a pointer to what is deleted. *)
LEMMA JoinPointers ==
    ASSUME ShutdownInv, Strong, StackGrows, Goes, Descends,
           NEW h \in Handlers, Join(h), UNCHANGED mainVars
    PROVE  Pointers'
<1> DEFINE c == closing[h]
<1>1. TypeOK /\ ThreadsAgree /\ PointersLead /\ OnePointerEach
  BY DEF ShutdownInv, ShutdownTypeOK, Strong
<1>2. Doomed' = Doomed /\ WasRead' = WasRead /\ Stacked' = Stacked /\ step' = step
  BY DEF Doomed, WasRead, Stacked, mainVars
<1>3. /\ place[h] = "join" /\ place[c] = "ended" /\ c \in live \ {Active} /\ child[c] = None
      /\ c \in Handlers /\ c \notin Doomed /\ c # h /\ c # None
      /\ place' = [place EXCEPT ![h] = "decide", ![c] = "none"]
      /\ live' = live \ {c}
      /\ stop' = [stop EXCEPT ![c] = FALSE]
      /\ child' = [child EXCEPT ![h] = hand[h]]
      /\ hand' = [hand EXCEPT ![h] = None]
      /\ closing' = [closing EXCEPT ![h] = None]
  BY <1>1, Defined, HandlerAssumption DEF Join, Adopted, TypeOK, PointersLead
<1>4. Deleting(h) = c
  BY <1>3 DEF Deleting
<1> HIDE DEF c
<1> USE HandlerAssumption
<1>5. /\ \A g \in Handlers : hand'[g] = IF g = h THEN None ELSE hand[g]
      /\ \A g \in Handlers : child'[g] = IF g = h THEN hand[h] ELSE child[g]
      /\ \A g \in Handlers : closing'[g] = IF g = h THEN None ELSE closing[g]
      /\ \A g \in Handlers : place'[g] = IF g = h THEN "decide" ELSE IF g = c THEN "none" ELSE place[g]
      /\ \A g \in Handlers : stop'[g] => stop[g] /\ g # c
  BY <1>1, <1>3 DEF TypeOK
<1>6. \A g \in Handlers : hand[g] # c
  BY <1>1, <1>3, <1>4 DEF OnePointerEach
<1>7. \A g \in Handlers \ {h} : place[g] = "join" => closing[g] # c
  BY <1>1, <1>3, <1>4 DEF OnePointerEach, Deleting
<1>8. \A g \in Handlers : ChildOf(g) # c
  BY <1>1, <1>3, <1>4 DEF OnePointerEach
<1>9. \A g \in Handlers \ {h} : child[g] # c
  <2> SUFFICES ASSUME NEW g \in Handlers \ {h}, child[g] = c PROVE FALSE
    OBVIOUS
  <2>1. CASE place[g] = "join"
    BY <1>1, <1>3, <1>7, <2>1 DEF PointersLead
  <2>2. CASE place[g] = "link"
    <3>1. child[hand[g]] = c /\ place[hand[g]] = "none" /\ hand[g] \in Handlers
      BY <1>1, <1>3, <2>2 DEF PointersLead, TypeOK
    <3>2. ChildOf(hand[g]) = c
      BY <3>1 DEF ChildOf
    <3>3. QED
      BY <1>8, <3>1, <3>2
  <2>3. QED
    BY <1>8, <2>1, <2>2 DEF ChildOf
<1>10. hand[c] = None
  BY <1>1, <1>3 DEF ThreadsAgree
<1>11. \A g \in Handlers :
          /\ ChildOf(g)' = IF g = h THEN hand[h] ELSE ChildOf(g)
          /\ Deleting(g)' = IF g = h THEN None ELSE Deleting(g)
  <2> TAKE g \in Handlers
  <2>1. g = h => place'[g] = "decide" /\ child'[g] = hand[h]
    BY <1>5
  <2>2. g # h => /\ place'[g] \in {"link", "join"} <=> place[g] \in {"link", "join"}
                 /\ place'[g] = "join" <=> place[g] = "join"
                 /\ child'[g] = child[g] /\ closing'[g] = closing[g]
    <3>1. place[c] = "ended" /\ place'[c] \in {"none", "decide"}
      BY <1>3, <1>5
    <3>2. g \notin {h, c} => place'[g] = place[g]
      BY <1>5
    <3>3. g # h => child'[g] = child[g] /\ closing'[g] = closing[g]
      BY <1>5
    <3>4. QED
      BY <3>1, <3>2, <3>3
  <2>3. /\ ChildOf(g)' = IF place'[g] \in {"link", "join"} THEN None ELSE child'[g]
        /\ Deleting(g)' = IF place'[g] = "join" THEN closing'[g] ELSE None
    BY DEF ChildOf, Deleting
  <2>4. CASE g = h
    BY <2>1, <2>3, <2>4
  <2>5. CASE g # h
    BY <2>2, <2>3, <2>5 DEF ChildOf, Deleting
  <2>6. QED
    BY <2>4, <2>5
<1>12. PointersLead'
  <2>1. Active \in live' /\ (step' = "running" => ~stop'[Active])
    BY <1>1, <1>2, <1>3, <1>5 DEF PointersLead
  <2>2. ASSUME NEW g \in Handlers
        PROVE  /\ child'[g] # None => child'[g] \in live' \ {Active}
               /\ hand'[g] # None => hand'[g] \in live' \ {Active}
               /\ g \notin live' => child'[g] = None
    BY <1>1, <1>3, <1>5, <1>6, <1>9, <1>10 DEF PointersLead, ThreadsAgree
  <2>3. ASSUME NEW g \in Handlers, place'[g] = "link"
        PROVE  /\ hand'[g] # None /\ place'[hand'[g]] = "none" /\ hand'[g] \notin Doomed
               /\ child'[g] = child'[hand'[g]] \/ (g \in WasRead /\ child'[g] = None)
    <3>1. g # h /\ g # c /\ place[g] = "link" /\ hand'[g] = hand[g] /\ child'[g] = child[g]
      BY <1>3, <1>5, <2>3
    <3>2. /\ hand[g] # None /\ hand[g] \in Handlers /\ place[hand[g]] = "none"
          /\ hand[g] \notin Doomed
          /\ child[g] = child[hand[g]] \/ (g \in WasRead /\ child[g] = None)
      BY <1>1, <3>1 DEF PointersLead, TypeOK
    <3>3. hand[g] # h /\ place'[hand[g]] = "none" /\ child'[hand[g]] = child[hand[g]]
      BY <1>3, <1>5, <3>2
    <3>4. QED
      BY <3>1, <3>2, <3>3
  <2>4. ASSUME NEW g \in Handlers, place'[g] = "join"
        PROVE  /\ closing'[g] \in live' \ {Active} /\ place'[closing'[g]] = "ended"
               /\ child'[closing'[g]] = None
               /\ child'[g] = closing'[g] \/ (g \in WasRead /\ child'[g] = None)
    <3>1. g # h /\ g # c /\ place[g] = "join" /\ closing'[g] = closing[g] /\ child'[g] = child[g]
      BY <1>3, <1>5, <2>4
    <3>2. /\ closing[g] \in live \ {Active} /\ place[closing[g]] = "ended"
          /\ child[closing[g]] = None /\ closing[g] \in Handlers
          /\ child[g] = closing[g] \/ (g \in WasRead /\ child[g] = None)
      BY <1>1, <3>1 DEF PointersLead, TypeOK
    <3>3. closing[g] # h /\ closing[g] # c
      BY <1>3, <1>7, <3>1, <3>2
    <3>4. closing[g] \in live' \ {Active}
      BY <1>3, <3>2, <3>3
    <3>5. place'[closing[g]] = "ended" /\ child'[closing[g]] = None
      BY <1>5, <3>2, <3>3
    <3>6. QED
      BY <3>1, <3>2, <3>4, <3>5
  <2>5. ASSUME NEW g \in Handlers, stop'[g], g \notin Stacked
        PROVE  place'[g] = "ended"
    <3>1. stop[g] /\ g # c
      BY <1>5, <2>5
    <3>2. place[g] = "ended"
      BY <1>1, <2>5, <3>1 DEF PointersLead
    <3>3. QED
      BY <1>3, <1>5, <3>1, <3>2
  <2>6. QED
    BY <1>2, <2>1, <2>2, <2>3, <2>4, <2>5 DEF PointersLead
<1>13. OnePointerEach'
  <2> SUFFICES ASSUME NEW f \in Handlers, NEW g \in Handlers
               PROVE  /\ f # g /\ ChildOf(f)' = ChildOf(g)' => ChildOf(f)' \in Doomed \cup {None}
                      /\ f # g /\ hand'[f] = hand'[g] => hand'[f] \in Doomed \cup {None}
                      /\ f # g /\ Deleting(f)' = Deleting(g)' => Deleting(f)' = None
                      /\ ChildOf(f)' \notin Doomed \cup {None} =>
                            ChildOf(f)' # hand'[g] /\ ChildOf(f)' # Deleting(g)'
                      /\ hand'[f] # None => hand'[f] # Deleting(g)'
    BY <1>2 DEF OnePointerEach
  <2> QED
    BY <1>1, <1>3, <1>5, <1>11 DEF OnePointerEach
<1>14. QED
  BY <1>12, <1>13 DEF Pointers

(* split() puts a new handler, with the same children, in the hands of the thread. *)
LEMMA SplitPointers ==
    ASSUME ShutdownInv, Strong, StackGrows, Goes, Descends,
           NEW h \in Handlers, Split(h), UNCHANGED mainVars
    PROVE  Pointers'
<1>1. TypeOK /\ ThreadsAgree /\ PointersLead /\ OnePointerEach
  BY DEF ShutdownInv, ShutdownTypeOK, Strong
<1>2. Doomed' = Doomed /\ WasRead' = WasRead /\ Stacked' = Stacked /\ step' = step
  BY DEF Doomed, WasRead, Stacked, mainVars
<1>3. PICK n \in Handlers \ live :
         /\ place[h] = "split" /\ live' = live \cup {n}
         /\ place' = [place EXCEPT ![h] = "link"]
         /\ child' = [child EXCEPT ![n] = child[h]]
         /\ hand' = [hand EXCEPT ![h] = n]
         /\ closing' = closing /\ stop' = stop
  BY DEF Split, Step, Goto, Inherited
<1>4. h \in live /\ n # h /\ n # Active /\ n # None
  <2>1. h \in live
    BY <1>3, Defined DEF Running
  <2>2. QED
    BY <1>1, <1>3, <2>1, HandlerAssumption DEF PointersLead
<1>5. Doomed \subseteq live /\ Stacked \subseteq Doomed
  <2>1. \A i \in DOMAIN stack : stack[i] \in live
    BY LenProperties, ElementOfSeq DEF ShutdownInv, ShutdownTypeOK
  <2>2. QED
    BY <2>1, LenProperties DEF Doomed, Stacked, ShutdownInv, ShutdownTypeOK
<1>6. /\ place[n] = "none" /\ child[n] = None /\ hand[n] = None /\ hand[h] = None
      /\ n \notin Doomed
  BY <1>1, <1>3, <1>5 DEF PointersLead, ThreadsAgree
<1> USE HandlerAssumption
<1>7. /\ \A g \in Handlers : hand'[g] = IF g = h THEN n ELSE hand[g]
      /\ \A g \in Handlers : child'[g] = IF g = n THEN child[h] ELSE child[g]
      /\ \A g \in Handlers : place'[g] = IF g = h THEN "link" ELSE place[g]
  BY <1>1, <1>3 DEF TypeOK
<1>8. \A g \in Handlers :
          /\ ChildOf(g)' = IF g = h THEN None ELSE IF g = n THEN ChildOf(h) ELSE ChildOf(g)
          /\ Deleting(g)' = Deleting(g)
  BY <1>3, <1>4, <1>6, <1>7 DEF ChildOf, Deleting
<1>9. \A g \in Handlers : child[g] # n /\ hand[g] # n /\ Deleting(g) # n /\ ChildOf(g) # n
  BY <1>1, <1>3, <1>4 DEF PointersLead, ChildOf, Deleting
<1>10. ChildOf(n) = None
  BY <1>6 DEF ChildOf
<1>11. PointersLead'
  <2>1. Active \in live' /\ (step' = "running" => ~stop'[Active])
    BY <1>1, <1>2, <1>3 DEF PointersLead
  <2>2. ASSUME NEW g \in Handlers
        PROVE  /\ child'[g] # None => child'[g] \in live' \ {Active}
               /\ hand'[g] # None => hand'[g] \in live' \ {Active}
               /\ g \notin live' => child'[g] = None
    BY <1>1, <1>3, <1>4, <1>7 DEF PointersLead
  <2>3. ASSUME NEW g \in Handlers, place'[g] = "link"
        PROVE  /\ hand'[g] # None /\ place'[hand'[g]] = "none" /\ hand'[g] \notin Doomed
               /\ child'[g] = child'[hand'[g]] \/ (g \in WasRead /\ child'[g] = None)
    <3>1. CASE g = h
      BY <1>3, <1>4, <1>6, <1>7, <3>1
    <3>2. CASE g # h
      <4>1. place[g] = "link" /\ hand'[g] = hand[g] /\ g # n /\ child'[g] = child[g]
        BY <1>6, <1>7, <2>3, <3>2
      <4>2. /\ hand[g] # None /\ hand[g] \in Handlers /\ place[hand[g]] = "none"
            /\ hand[g] \notin Doomed /\ hand[g] # n
            /\ child[g] = child[hand[g]] \/ (g \in WasRead /\ child[g] = None)
        BY <1>1, <1>9, <4>1 DEF PointersLead, TypeOK
      <4>3. QED
        BY <1>3, <1>7, <4>1, <4>2
    <3>3. QED
      BY <3>1, <3>2
  <2>4. ASSUME NEW g \in Handlers, place'[g] = "join"
        PROVE  /\ closing'[g] \in live' \ {Active} /\ place'[closing'[g]] = "ended"
               /\ child'[closing'[g]] = None
               /\ child'[g] = closing'[g] \/ (g \in WasRead /\ child'[g] = None)
    <3>1. place[g] = "join" /\ g # h /\ g # n
      BY <1>6, <1>7, <2>4
    <3>2. /\ closing[g] \in live \ {Active} /\ place[closing[g]] = "ended"
          /\ child[closing[g]] = None /\ closing[g] \in Handlers
          /\ child[g] = closing[g] \/ (g \in WasRead /\ child[g] = None)
      BY <1>1, <3>1 DEF PointersLead, TypeOK
    <3>3. QED
      BY <1>3, <1>7, <3>1, <3>2
  <2>5. ASSUME NEW g \in Handlers, stop'[g], g \notin Stacked
        PROVE  place'[g] = "ended"
    BY <1>1, <1>3, <1>7, <2>5 DEF PointersLead
  <2>6. QED
    BY <1>2, <2>1, <2>2, <2>3, <2>4, <2>5 DEF PointersLead
<1>12. OnePointerEach'
  <2> SUFFICES ASSUME NEW f \in Handlers, NEW g \in Handlers
               PROVE  /\ f # g /\ ChildOf(f)' = ChildOf(g)' => ChildOf(f)' \in Doomed \cup {None}
                      /\ f # g /\ hand'[f] = hand'[g] => hand'[f] \in Doomed \cup {None}
                      /\ f # g /\ Deleting(f)' = Deleting(g)' => Deleting(f)' = None
                      /\ ChildOf(f)' \notin Doomed \cup {None} =>
                            ChildOf(f)' # hand'[g] /\ ChildOf(f)' # Deleting(g)'
                      /\ hand'[f] # None => hand'[f] # Deleting(g)'
    BY <1>2 DEF OnePointerEach
  <2> QED
    BY <1>1, <1>4, <1>6, <1>7, <1>8, <1>9, <1>10 DEF OnePointerEach
<1>13. QED
  BY <1>11, <1>12 DEF Pointers

(* Then the new handler is linked, and may run. *)
LEMMA LinkPointers ==
    ASSUME ShutdownInv, Strong, StackGrows, Goes, Descends,
           NEW h \in Handlers, LinkChild(h), UNCHANGED mainVars
    PROVE  Pointers'
<1> DEFINE n == hand[h]
<1>1. TypeOK /\ ThreadsAgree /\ PointersLead /\ OnePointerEach
  BY DEF ShutdownInv, ShutdownTypeOK, Strong
<1>2. Doomed' = Doomed /\ WasRead' = WasRead /\ Stacked' = Stacked /\ step' = step
  BY DEF Doomed, WasRead, Stacked, mainVars
<1>3. /\ place[h] = "link" /\ n # None /\ n \in live \ {Active} /\ n \in Handlers
      /\ place[n] = "none" /\ n \notin Doomed /\ n # h
      /\ place' = Started(n, [place EXCEPT ![h] = "top"])
      /\ child' = [child EXCEPT ![h] = n]
      /\ hand' = [hand EXCEPT ![h] = None]
      /\ live' = live /\ stop' = stop /\ closing' = closing
  BY <1>1 DEF LinkChild, TypeOK, PointersLead
<1>4. hand[n] = None /\ n \notin Stacked
  BY <1>1, <1>3, LenProperties DEF ThreadsAgree, Doomed, Stacked, ShutdownInv, ShutdownTypeOK
<1> HIDE DEF n
<1> USE HandlerAssumption
<1>5. /\ \A g \in Handlers : hand'[g] = IF g = h THEN None ELSE hand[g]
      /\ \A g \in Handlers : child'[g] = IF g = h THEN n ELSE child[g]
      /\ \A g \in Handlers \ {h, n} : place'[g] = place[g]
      /\ place'[h] = "top" /\ place'[n] \in {"none", "top"}
  BY <1>1, <1>3 DEF TypeOK, Started
<1>6. \A g \in Handlers :
          /\ ChildOf(g)' = IF g = h THEN n ELSE ChildOf(g)
          /\ Deleting(g)' = Deleting(g)
  BY <1>3, <1>5 DEF ChildOf, Deleting
<1>7. \A g \in Handlers \ {h} : hand[g] # n
  BY <1>1, <1>3 DEF OnePointerEach, n
<1>8. \A g \in Handlers : ChildOf(g) # n /\ Deleting(g) # n
  BY <1>1, <1>3 DEF OnePointerEach, n
<1>9. PointersLead'
  <2>1. Active \in live' /\ (step' = "running" => ~stop'[Active])
    BY <1>1, <1>2, <1>3 DEF PointersLead
  <2>2. ASSUME NEW g \in Handlers
        PROVE  /\ child'[g] # None => child'[g] \in live' \ {Active}
               /\ hand'[g] # None => hand'[g] \in live' \ {Active}
               /\ g \notin live' => child'[g] = None
    BY <1>1, <1>3, <1>5 DEF PointersLead, ThreadsAgree
  <2>3. ASSUME NEW g \in Handlers, place'[g] = "link"
        PROVE  /\ hand'[g] # None /\ place'[hand'[g]] = "none" /\ hand'[g] \notin Doomed
               /\ child'[g] = child'[hand'[g]] \/ (g \in WasRead /\ child'[g] = None)
    <3>1. g # h /\ g # n /\ place[g] = "link" /\ hand'[g] = hand[g] /\ child'[g] = child[g]
      BY <1>5, <2>3
    <3>2. /\ hand[g] # None /\ hand[g] \in Handlers /\ place[hand[g]] = "none"
          /\ hand[g] \notin Doomed /\ hand[g] # n /\ hand[g] # h
          /\ child[g] = child[hand[g]] \/ (g \in WasRead /\ child[g] = None)
      BY <1>1, <1>3, <1>7, <3>1 DEF PointersLead, TypeOK
    <3>3. QED
      BY <1>5, <3>1, <3>2
  <2>4. ASSUME NEW g \in Handlers, place'[g] = "join"
        PROVE  /\ closing'[g] \in live' \ {Active} /\ place'[closing'[g]] = "ended"
               /\ child'[closing'[g]] = None
               /\ child'[g] = closing'[g] \/ (g \in WasRead /\ child'[g] = None)
    <3>1. place[g] = "join" /\ g # h /\ g # n
      BY <1>5, <2>4
    <3>2. /\ closing[g] \in live \ {Active} /\ place[closing[g]] = "ended"
          /\ child[closing[g]] = None /\ closing[g] \in Handlers
          /\ closing[g] # h /\ closing[g] # n
          /\ child[g] = closing[g] \/ (g \in WasRead /\ child[g] = None)
      BY <1>1, <1>3, <3>1 DEF PointersLead, TypeOK
    <3>3. QED
      BY <1>3, <1>5, <3>1, <3>2
  <2>5. ASSUME NEW g \in Handlers, stop'[g], g \notin Stacked
        PROVE  place'[g] = "ended"
    <3>1. place[g] = "ended"
      BY <1>1, <1>3, <2>5 DEF PointersLead
    <3>2. QED
      BY <1>3, <1>5, <3>1
  <2>6. QED
    BY <1>2, <2>1, <2>2, <2>3, <2>4, <2>5 DEF PointersLead
<1>10. OnePointerEach'
  <2> SUFFICES ASSUME NEW f \in Handlers, NEW g \in Handlers
               PROVE  /\ f # g /\ ChildOf(f)' = ChildOf(g)' => ChildOf(f)' \in Doomed \cup {None}
                      /\ f # g /\ hand'[f] = hand'[g] => hand'[f] \in Doomed \cup {None}
                      /\ f # g /\ Deleting(f)' = Deleting(g)' => Deleting(f)' = None
                      /\ ChildOf(f)' \notin Doomed \cup {None} =>
                            ChildOf(f)' # hand'[g] /\ ChildOf(f)' # Deleting(g)'
                      /\ hand'[f] # None => hand'[f] # Deleting(g)'
    BY <1>2 DEF OnePointerEach
  <2> QED
    BY <1>1, <1>3, <1>5, <1>6, <1>7, <1>8 DEF OnePointerEach
<1>11. QED
  BY <1>9, <1>10 DEF Pointers

LEMMA StackSets ==
    ASSUME ShutdownInv, StackGrows
    PROVE  /\ Doomed = Stacked \cup ({below} \ {None}) /\ Stacked \subseteq live
           /\ None \notin Doomed
           /\ step # "read" => WasRead = Stacked
           /\ step = "read" => /\ below = None /\ Stacked = WasRead \cup {Last(stack)}
                              /\ Last(stack) \notin WasRead
           /\ step \in {"read", "clear", "tell"} => Last(stack) \in Stacked
<1>1. stack \in Seq(live) /\ live \subseteq Handlers /\ below \in Handlers \cup {None}
  BY DEF ShutdownInv, ShutdownTypeOK, TypeOK
<1>2. Len(stack) \in Nat /\ DOMAIN stack = 1 .. Len(stack)
      /\ \A i \in 1 .. Len(stack) : stack[i] \in live
  BY <1>1, LenProperties, ElementOfSeq
<1>3. Doomed = Stacked \cup ({below} \ {None}) /\ Stacked \subseteq live /\ None \notin Doomed
  BY <1>1, <1>2, HandlerAssumption DEF Doomed, Stacked
<1>4. step # "read" => WasRead = Stacked
  BY DEF WasRead, Stacked
<1>5. step \in {"read", "clear", "tell"} =>
        /\ Len(stack) \in Nat \ {0} /\ Last(stack) = stack[Len(stack)]
        /\ Last(stack) \in Stacked
  <2>1. Len(stack) \in Nat \ {0} => Len(stack) \in 1 .. Len(stack)
    OBVIOUS
  <2>2. QED
    BY <2>1, StackHas DEF Stacked
<1>6. ASSUME step = "read"
      PROVE  /\ below = None /\ Stacked = WasRead \cup {Last(stack)}
             /\ Last(stack) \notin WasRead
  <2>1. below = None /\ \A i, j \in 1 .. Len(stack) : stack[i] = stack[j] => i = j
    BY <1>6 DEF StackGrows
  <2>2. WasRead = {stack[i] : i \in 1 .. Len(stack) - 1}
    BY <1>6 DEF WasRead
  <2> DEFINE n == Len(stack)
  <2>3. n \in Nat \ {0}
    BY <1>5, <1>6
  <2> HIDE DEF n
  <2>4. /\ \A i \in 1 .. n : i = n \/ i \in 1 .. n - 1
        /\ \A i \in 1 .. n - 1 : i \in 1 .. n /\ i # n
        /\ n \in 1 .. n
    BY <2>3
  <2> USE DEF n
  <2>5. QED
    BY <1>5, <1>6, <2>1, <2>2, <2>4 DEF Stacked
<1>7. QED
  BY <1>3, <1>4, <1>5, <1>6

LEMMA MainPointers ==
    ASSUME ShutdownInv, Strong, StackGrows, Goes, Descends, Main, Descends', Goes'
    PROVE  Pointers'
<1>1. TypeOK /\ ThreadsAgree /\ PointersLead /\ OnePointerEach
  BY DEF ShutdownInv, ShutdownTypeOK, Strong
<1>2. stack \in Seq(live) /\ Len(stack) \in Nat /\ live \subseteq Handlers
  BY LenProperties DEF ShutdownInv, ShutdownTypeOK, TypeOK
<1> USE HandlerAssumption
<1>3. ASSUME UNCHANGED vars, Doomed \subseteq Doomed', Stacked \subseteq Stacked',
             WasRead \subseteq WasRead', step' # "running",
             \A g \in Handlers : place[g] = "link" => hand[g] \notin Doomed'
      PROVE  Pointers'
  <2>1. /\ live' = live /\ child' = child /\ hand' = hand /\ place' = place
        /\ closing' = closing /\ stop' = stop
    BY <1>3 DEF vars, handlerVars, threadVars
  <2>2. \A g \in Handlers : ChildOf(g)' = ChildOf(g) /\ Deleting(g)' = Deleting(g)
    BY <2>1 DEF ChildOf, Deleting
  <2>3. OnePointerEach'
    BY <1>1, <1>3, <2>1, <2>2 DEF OnePointerEach
  <2>4. PointersLead'
    BY <1>1, <1>3, <2>1 DEF PointersLead
  <2>5. QED
    BY <2>3, <2>4 DEF Pointers
<1>4. CASE BeginDelete
  <2>1. stack = <<>> /\ below = None /\ stack' = <<Active>> /\ below' = None /\ step' = "read"
        /\ UNCHANGED vars /\ step = "running"
    BY <1>4 DEF BeginDelete, StackGrows
  <2>2. Len(<<>>) = 0 /\ Len(<<Active>>) = 1 /\ DOMAIN <<Active>> = 1 .. 1
        /\ <<Active>>[1] = Active
    OBVIOUS
  <2>3. Doomed = {} /\ Stacked = {} /\ WasRead = {}
    BY <2>1, StackSets DEF Stacked, WasRead
  <2>4. Doomed' = {Active}
    BY <2>1, <2>2 DEF Doomed
  <2>5. \A g \in Handlers : place[g] = "link" => hand[g] \notin Doomed'
    BY <1>1, <2>4 DEF PointersLead
  <2>6. QED
    BY <1>3, <2>1, <2>3, <2>5
<1>5. CASE ReadChild
  <2> DEFINE d == Last(stack)
  <2>1. stack' = stack /\ step = "read" /\ step' = "clear" /\ below' = child[d] /\ UNCHANGED vars
    BY <1>5 DEF ReadChild
  <2>2. /\ Stacked' = Stacked /\ WasRead' = Stacked /\ WasRead \subseteq Stacked
        /\ Doomed = Stacked /\ d \in Stacked /\ d \in live /\ d \notin WasRead
    BY <2>1, StackSets DEF Stacked, WasRead
  <2>3. Doomed' = Doomed \cup ({child[d]} \ {None})
    <3>1. Doomed' = {stack[i] : i \in DOMAIN stack} \cup ({child[d]} \ {None})
      BY <2>1 DEF Doomed
    <3>2. {stack[i] : i \in DOMAIN stack} = Stacked
      BY <1>2, LenProperties DEF Stacked
    <3>3. QED
      BY <2>2, <3>1, <3>2
  <2> HIDE DEF d
  <2>4. ASSUME NEW g \in Handlers, place[g] = "link", hand[g] \in Doomed' PROVE FALSE
    <3>1. hand[g] = child[d] /\ child[d] # None /\ child[d] \notin Doomed
      BY <1>1, <2>3, <2>4 DEF PointersLead
    <3>2. CASE place[d] = "join"
      <4>1. closing[d] = child[d]
        BY <1>1, <1>2, <2>2, <3>2 DEF PointersLead
      <4>2. place'[d] = "join" /\ closing'[d] \in Doomed'
        BY <2>1, <2>3, <3>1, <3>2, <4>1 DEF vars, threadVars
      <4>3. QED
        BY <1>2, <2>2, <4>2 DEF Goes, Undefined
    <3>3. CASE place[d] = "link"
      <4>1. child[hand[d]] = child[d] /\ hand[d] \in Handlers /\ place[hand[d]] = "none"
        BY <1>1, <1>2, <2>2, <3>3 DEF PointersLead, TypeOK
      <4>2. ChildOf(hand[d]) = child[d]
        BY <4>1 DEF ChildOf
      <4>3. QED
        BY <1>1, <3>1, <4>1, <4>2 DEF OnePointerEach
    <3>4. CASE place[d] \notin {"join", "link"}
      BY <1>1, <1>2, <2>2, <3>1, <3>4 DEF OnePointerEach, ChildOf
    <3>5. QED
      BY <3>2, <3>3, <3>4
  <2>5. QED
    BY <1>3, <2>1, <2>2, <2>3, <2>4
<1>6. CASE ClearChild
  <2> DEFINE d == Last(stack)
  <2>1. /\ stack' = stack /\ step = "clear" /\ step' = "tell" /\ below' = below
        /\ child' = [child EXCEPT ![d] = None]
        /\ live' = live /\ hand' = hand /\ place' = place /\ closing' = closing /\ stop' = stop
    BY <1>6 DEF ClearChild, threadVars
  <2>2. Stacked' = Stacked /\ WasRead' = WasRead /\ Doomed' = Doomed
        /\ WasRead = Stacked /\ d \in Stacked /\ d \in Doomed /\ d \in Handlers
    BY <1>2, <2>1, StackSets DEF Stacked, WasRead, Doomed
  <2> HIDE DEF d
  <2>3. \A g \in Handlers : child'[g] = IF g = d THEN None ELSE child[g]
    BY <1>1, <2>1 DEF TypeOK
  <2>4. \A g \in Handlers : ChildOf(g)' = (IF g = d THEN None ELSE ChildOf(g))
                           /\ Deleting(g)' = Deleting(g)
    BY <2>1, <2>3 DEF ChildOf, Deleting
  <2>5. OnePointerEach'
    BY <1>1, <2>1, <2>2, <2>4 DEF OnePointerEach
  <2>6. ASSUME NEW g \in Handlers, place[g] = "link"
        PROVE  child'[g] = child'[hand[g]] \/ (g \in WasRead /\ child'[g] = None)
    <3>1. hand[g] \in Handlers /\ hand[g] # d
      BY <1>1, <2>2, <2>6 DEF PointersLead, TypeOK
    <3>2. QED
      BY <1>1, <2>2, <2>3, <2>6, <3>1 DEF PointersLead
  <2>7. ASSUME NEW g \in Handlers, place[g] = "join"
        PROVE  /\ child'[closing[g]] = None
               /\ child'[g] = closing[g] \/ (g \in WasRead /\ child'[g] = None)
    BY <1>1, <1>2, <2>2, <2>3, <2>7 DEF PointersLead
  <2>8. PointersLead'
    BY <1>1, <2>1, <2>2, <2>3, <2>6, <2>7 DEF PointersLead
  <2>9. QED
    BY <2>5, <2>8 DEF Pointers
<1>7. CASE TellToStop
  <2> DEFINE d == Last(stack)
  <2>1. /\ stack' = Append(stack, below) /\ step = "tell" /\ step' = "read" /\ below' = None
        /\ stop' = [stop EXCEPT ![d] = TRUE] /\ below # None /\ below \in live
        /\ child' = child
        /\ live' = live /\ hand' = hand /\ place' = place /\ closing' = closing
    BY <1>7 DEF TellToStop, threadVars, Descends, ShutdownInv, ShutdownTypeOK
  <2>2. /\ stack' \in Seq(live) /\ Len(stack') = Len(stack) + 1
        /\ \A i \in 1 .. Len(stack) : stack'[i] = stack[i]
        /\ stack'[Len(stack) + 1] = below
    BY <1>2, <2>1, AppendProperties
  <2> DEFINE n == Len(stack)
  <2>3. Stacked' = Stacked \cup {below} /\ WasRead' = Stacked
    <3>1. n \in Nat /\ \A i \in 1 .. n : stack'[i] = stack[i]
      BY <1>2, <2>2
    <3>2. Stacked' = {stack'[i] : i \in 1 .. n + 1} /\ WasRead' = {stack'[i] : i \in 1 .. n + 1 - 1}
      BY <2>1, <2>2 DEF Stacked, WasRead
    <3>3. Stacked = {stack[i] : i \in 1 .. n}
      BY DEF Stacked
    <3> HIDE DEF n
    <3>4. n + 1 - 1 = n /\ 1 .. n + 1 = (1 .. n) \cup {n + 1}
      BY <3>1
    <3>5. QED
      BY <2>2, <3>1, <3>2, <3>3, <3>4 DEF n
  <2>4. Doomed = Stacked \cup {below} /\ Doomed' = Doomed /\ WasRead = Stacked /\ d \in Stacked
    <3>1. Doomed = Stacked \cup {below} /\ WasRead = Stacked /\ d \in Stacked
      BY <2>1, StackSets
    <3>2. Doomed' = Stacked'
      BY <2>1, <2>2, LenProperties DEF Doomed, Stacked
    <3>3. QED
      BY <2>3, <3>1, <3>2
  <2> HIDE DEF d, n
  <2>5. \A g \in Handlers : stop'[g] => stop[g] \/ g = d
    BY <1>1, <2>1 DEF TypeOK
  <2>6. \A g \in Handlers : ChildOf(g)' = ChildOf(g) /\ Deleting(g)' = Deleting(g)
    BY <2>1 DEF ChildOf, Deleting
  <2>7. OnePointerEach'
    BY <1>1, <2>1, <2>4, <2>6 DEF OnePointerEach
  <2>8. PointersLead'
    BY <1>1, <2>1, <2>3, <2>4, <2>5 DEF PointersLead
  <2>9. QED
    BY <2>7, <2>8 DEF Pointers
<1>8. QED
  BY <1>4, <1>5, <1>6, <1>7 DEF Main, JoinThread, Free, Descends

-----------------------------------------------------------------------------
(* There is no way back.                                                    *)

LEMMA ThreadsLead ==
    ASSUME ShutdownInv, Strong, StackGrows, Goes, step \in {"read", "clear", "tell"},
           ShutdownNext, ~Main
    PROVE  NoWayBack'
<1>1. TypeOK /\ ThreadsAgree /\ PointersLead /\ NoWayBack
  BY DEF ShutdownInv, ShutdownTypeOK, Strong, Descends
<1>2. PICK U \in SUBSET Handlers :
         /\ Ahead # None => Ahead \in U
         /\ U \cap WasRead = {}
         /\ \A u \in U : /\ child[u] # None => child[u] \in U \ {Ahead}
                         /\ hand[u] # None => hand[u] \in U \ {Ahead}
  BY <1>1 DEF NoWayBack
<1>3. UNCHANGED mainVars
  BY DEF ShutdownNext, ThreadStep
<1>4. Ahead' = Ahead /\ WasRead' = WasRead
  BY <1>3 DEF Ahead, WasRead, mainVars
<1> USE HandlerAssumption
<1>5. CASE Still
  BY <1>2, <1>4, <1>5 DEF Still, NoWayBack
<1>6. ASSUME NEW h \in Handlers, Prune(h) PROVE NoWayBack'
  <2> DEFINE c == child[h]
  <2>1. /\ c # None /\ c \in Handlers /\ hand' = [hand EXCEPT ![h] = child[c]]
        /\ child' = [child EXCEPT ![c] = None]
    BY <1>1, <1>6 DEF Prune, TypeOK
  <2>2. h \in U => c \in U
    BY <1>2, <2>1
  <2> HIDE DEF c
  <2>3. ASSUME NEW u \in U
        PROVE  /\ child'[u] # None => child'[u] \in U \ {Ahead}
               /\ hand'[u] # None => hand'[u] \in U \ {Ahead}
    BY <1>1, <1>2, <2>1, <2>2 DEF TypeOK
  <2>4. QED
    BY <1>2, <1>4, <2>3 DEF NoWayBack
<1>7. ASSUME NEW h \in Handlers, Join(h) \/ LinkChild(h) PROVE NoWayBack'
  <2>1. child' = [child EXCEPT ![h] = hand[h]] /\ hand' = [hand EXCEPT ![h] = None]
    BY <1>7 DEF Join, Adopted, LinkChild
  <2>2. ASSUME NEW u \in U
        PROVE  /\ child'[u] # None => child'[u] \in U \ {Ahead}
               /\ hand'[u] # None => hand'[u] \in U \ {Ahead}
    BY <1>1, <1>2, <2>1 DEF TypeOK
  <2>3. QED
    BY <1>2, <1>4, <2>2 DEF NoWayBack
<1>8. ASSUME NEW h \in Handlers, Split(h) PROVE NoWayBack'
  <2>1. PICK n \in Handlers \ live : /\ child' = [child EXCEPT ![n] = child[h]]
                                     /\ hand' = [hand EXCEPT ![h] = n]
    BY <1>8 DEF Split, Inherited
  <2>2. h \in live
    BY <1>8, Defined DEF Split, Step, Running
  <2>3. /\ hand[n] = None /\ n # h /\ \A g \in Handlers : child[g] # n /\ hand[g] # n
    BY <1>1, <2>1, <2>2 DEF ThreadsAgree, PointersLead
  <2>4. n # Ahead /\ n \notin WasRead
    <3>1. WasRead \subseteq live
      BY StackSets
    <3>2. Ahead \in live \cup {None}
      BY StackHas DEF Ahead, ShutdownInv, ShutdownTypeOK
    <3>3. QED
      BY <2>1, <3>1, <3>2
  <2>5. /\ \A g \in Handlers : child'[g] = IF g = n THEN child[h] ELSE child[g]
        /\ \A g \in Handlers : hand'[g] = IF g = h THEN n ELSE hand[g]
    BY <1>1, <2>1 DEF TypeOK
  <2>6. CASE h \in U
    <3> DEFINE V == U \cup {n}
    <3>1. ASSUME NEW u \in V
          PROVE  /\ child'[u] # None => child'[u] \in V \ {Ahead}
                 /\ hand'[u] # None => hand'[u] \in V \ {Ahead}
      BY <1>2, <2>1, <2>3, <2>4, <2>5, <2>6
    <3>2. V \in SUBSET Handlers /\ (Ahead # None => Ahead \in V) /\ V \cap WasRead = {}
      BY <1>2, <2>1, <2>4
    <3> HIDE DEF V
    <3>3. QED
      BY <1>4, <3>1, <3>2 DEF NoWayBack
  <2>7. CASE h \notin U
    <3> DEFINE V == U \ {n}
    <3>1. ASSUME NEW u \in V
          PROVE  /\ child'[u] # None => child'[u] \in V \ {Ahead}
                 /\ hand'[u] # None => hand'[u] \in V \ {Ahead}
      BY <1>2, <2>1, <2>3, <2>4, <2>5, <2>7
    <3>2. V \in SUBSET Handlers /\ (Ahead # None => Ahead \in V) /\ V \cap WasRead = {}
      BY <1>2, <2>1, <2>4
    <3> HIDE DEF V
    <3>3. QED
      BY <1>4, <3>1, <3>2 DEF NoWayBack
  <2>8. QED
    BY <2>6, <2>7
<1>9. QED
  BY <1>5, <1>6, <1>7, <1>8, StillSteps

(* The handler whose child has been read is left out of the set; while the
   thread of that handler is in split(), the new one, which has the same child,
   is left out as well. *)
LEMMA ReadLeads ==
    ASSUME ShutdownInv, Strong, StackGrows, ReadChild, Goes'
    PROVE  NoWayBack'
<1> DEFINE d == Last(stack)
           b == child[d]
           e == IF place[d] = "link" THEN hand[d] ELSE d
<1>1. /\ step = "read" /\ stack' = stack /\ step' = "clear" /\ below' = b
      /\ child' = child /\ hand' = hand /\ place' = place /\ closing' = closing
  BY DEF ReadChild, vars, handlerVars, threadVars
<1>2. TypeOK /\ ThreadsAgree /\ PointersLead /\ OnePointerEach /\ NoWayBack
  BY <1>1 DEF ShutdownInv, ShutdownTypeOK, Strong, Descends
<1>3. /\ Stacked = WasRead \cup {d} /\ Doomed = Stacked /\ None \notin Doomed
      /\ d \notin WasRead /\ d \in Handlers
  BY <1>1, <1>2, StackSets DEF TypeOK
<1>4. Ahead = d /\ Ahead' = b /\ WasRead' = WasRead \cup {d}
  BY <1>1, <1>3 DEF Ahead, WasRead, Stacked
<1>5. PICK U \in SUBSET Handlers :
         /\ d \in U /\ U \cap WasRead = {}
         /\ \A u \in U : /\ child[u] # None => child[u] \in U \ {d}
                         /\ hand[u] # None => hand[u] \in U \ {d}
  BY <1>2, <1>3, <1>4, HandlerAssumption DEF NoWayBack
<1>6. CASE b = None
  <2>1. /\ {} \in SUBSET Handlers /\ {} \cap WasRead' = {} /\ (Ahead' # None => Ahead' \in {})
    BY <1>4, <1>6
  <2>2. QED
    BY <2>1 DEF NoWayBack
<1>7. CASE b # None
  <2>1. b \in U \ {d} /\ b \notin Doomed /\ b \in Handlers
    BY <1>3, <1>5, <1>7
  <2>2. \A u \in U : u \notin WasRead
    BY <1>5
  <2>3. b \in Doomed'
    BY <1>1, <1>7 DEF Doomed
  <2>4. \A g \in Handlers : place[g] = "join" => closing[g] # b
    BY <1>1, <2>3 DEF Goes, Undefined
  <2>5. place[d] # "join"
    BY <1>2, <1>3, <2>4 DEF PointersLead
  <2>6. /\ e \in Handlers /\ ChildOf(e) = b
        /\ place[d] = "link" => e = hand[d] /\ e # None /\ e \notin Doomed
    BY <1>2, <1>3, <2>5 DEF PointersLead, TypeOK, ChildOf
  <2>7. place[d] # "link" => e = d
    OBVIOUS
  <2> HIDE DEF b, d, e
  <2>8. \A g \in Handlers : hand[g] # b /\ (g # e => ChildOf(g) # b)
    BY <1>2, <1>7, <2>1, <2>6 DEF OnePointerEach
  <2>9. \A u \in U : hand[u] # d /\ child[u] # d
    BY <1>3, <1>5, HandlerAssumption
  <2>10. \A u \in U \ {d} : hand[u] # e
    BY <1>2, <1>3, <2>6, <2>7, <2>9 DEF OnePointerEach
  <2>11. \A g \in Handlers : place[d] = "link" => ChildOf(g) # e /\ Deleting(g) # e
    BY <1>2, <1>3, <2>6 DEF OnePointerEach
  <2>12. ASSUME NEW u \in U \ {d, e}
         PROVE  child[u] # b /\ child[u] # e
    <3>1. CASE place[u] = "join"
      <4>1. child[u] = closing[u] /\ Deleting(u) = closing[u]
        BY <1>2, <2>2, <3>1 DEF PointersLead, Deleting
      <4>2. QED
        BY <2>4, <2>7, <2>9, <2>11, <3>1, <4>1
    <3>2. CASE place[u] = "link"
      <4>1. child[u] = child[hand[u]] /\ hand[u] \in Handlers /\ place[hand[u]] = "none"
        BY <1>2, <2>2, <3>2 DEF PointersLead, TypeOK
      <4>2. ChildOf(hand[u]) = child[u]
        BY <4>1 DEF ChildOf
      <4>3. hand[u] # e
        BY <2>10
      <4>4. QED
        BY <2>7, <2>8, <2>9, <2>11, <4>1, <4>2, <4>3
    <3>3. CASE place[u] \notin {"join", "link"}
      <4>1. ChildOf(u) = child[u]
        BY <3>3 DEF ChildOf
      <4>2. QED
        BY <2>7, <2>8, <2>9, <2>11, <4>1
    <3>4. QED
      BY <3>1, <3>2, <3>3
  <2> DEFINE V == U \ {d, e}
  <2>13. b # e
    BY <1>3, <2>1, <2>6, <2>7, <2>8
  <2>14. ASSUME NEW u \in V
         PROVE  /\ child'[u] # None => child'[u] \in V \ {b}
                /\ hand'[u] # None => hand'[u] \in V \ {b}
    BY <1>1, <1>5, <2>8, <2>9, <2>10, <2>12
  <2>15. V \in SUBSET Handlers /\ b \in V /\ V \cap WasRead' = {}
    BY <1>4, <1>5, <2>1, <2>2, <2>13
  <2> HIDE DEF V
  <2>16. QED
    BY <1>4, <2>14, <2>15 DEF NoWayBack
<1>8. QED
  BY <1>6, <1>7

LEMMA MainLeads ==
    ASSUME ShutdownInv, Strong, StackGrows, Main, Goes', step' \in {"read", "clear", "tell"}
    PROVE  NoWayBack'
<1> USE HandlerAssumption
<1>1. TypeOK
  BY DEF ShutdownInv, ShutdownTypeOK
<1>2. CASE BeginDelete
  <2>1. /\ stack' = <<Active>> /\ step' = "read" /\ step = "running"
        /\ child' = child /\ hand' = hand
    BY <1>2 DEF BeginDelete, vars, handlerVars, threadVars
  <2>2. Len(<<Active>>) = 1 /\ Last(<<Active>>) = Active /\ 1 .. 1 - 1 = {}
    BY DEF Last
  <2>3. Ahead' = Active /\ WasRead' = {}
    BY <2>1, <2>2 DEF Ahead, WasRead
  <2>4. PointersLead
    BY <2>1 DEF Strong, Descends
  <2>5. ASSUME NEW u \in Handlers
        PROVE  /\ child'[u] # None => child'[u] \in Handlers \ {Active}
               /\ hand'[u] # None => hand'[u] \in Handlers \ {Active}
    BY <1>1, <2>1, <2>4 DEF PointersLead, TypeOK
  <2>6. QED
    BY <2>3, <2>5 DEF NoWayBack
<1>3. CASE ReadChild
  BY <1>3, ReadLeads
<1>4. CASE ClearChild
  <2> DEFINE d == Last(stack)
  <2>1. /\ stack' = stack /\ step = "clear" /\ step' = "tell" /\ below' = below
        /\ child' = [child EXCEPT ![d] = None] /\ hand' = hand
    BY <1>4 DEF ClearChild, threadVars
  <2>2. Ahead' = Ahead /\ WasRead' = WasRead
    BY <2>1 DEF Ahead, WasRead
  <2> HIDE DEF d
  <2>3. \A u \in Handlers : child'[u] \in {child[u], None}
    BY <1>1, <2>1 DEF TypeOK
  <2>4. NoWayBack
    BY <2>1 DEF Strong
  <2>5. QED
    BY <2>1, <2>2, <2>3, <2>4 DEF NoWayBack
<1>5. CASE TellToStop
  <2>1. /\ stack' = Append(stack, below) /\ step = "tell" /\ step' = "read" /\ below' = None
        /\ child' = child /\ hand' = hand /\ below \in live /\ below # None
    BY <1>5 DEF TellToStop, threadVars, ShutdownInv, ShutdownTypeOK
  <2>2. stack \in Seq(live) /\ Len(stack) \in Nat
    BY LenProperties DEF ShutdownInv, ShutdownTypeOK
  <2>3. /\ Append(stack, below) \in Seq(live) /\ Len(Append(stack, below)) = Len(stack) + 1
        /\ \A i \in 1 .. Len(stack) : Append(stack, below)[i] = stack[i]
        /\ Append(stack, below)[Len(stack) + 1] = below /\ Append(stack, below) # <<>>
    BY <2>1, <2>2, AppendProperties
  <2>4. Last(Append(stack, below)) = below
    BY <2>3 DEF Last
  <2>5. Ahead' = Ahead
    BY <2>1, <2>4 DEF Ahead
  <2>6. WasRead' = WasRead
    <3> DEFINE n == Len(stack)
    <3>1. n \in Nat /\ \A i \in 1 .. n : stack'[i] = stack[i]
      BY <2>1, <2>2, <2>3
    <3>2. WasRead' = {stack'[i] : i \in 1 .. n + 1 - 1}
      BY <2>1, <2>3 DEF WasRead
    <3>3. WasRead = {stack[i] : i \in 1 .. n}
      BY <2>1 DEF WasRead
    <3> HIDE DEF n
    <3>4. n + 1 - 1 = n
      BY <3>1
    <3>5. QED
      BY <3>1, <3>2, <3>3, <3>4
  <2>7. NoWayBack
    BY <2>1 DEF Strong
  <2>8. QED
    BY <2>1, <2>5, <2>6, <2>7 DEF NoWayBack
<1>6. QED
  BY <1>2, <1>3, <1>4, <1>5 DEF Main, JoinThread, Free

-----------------------------------------------------------------------------
LEMMA InitShutdown == ShutdownInit => IInv
<1> SUFFICES ASSUME ShutdownInit PROVE IInv
  OBVIOUS
<1> USE HandlerAssumption DEF ShutdownInit, Init
<1>1. ShutdownInv
  BY DEF ShutdownInv, ShutdownTypeOK, TypeOK, Running, OneOwner
<1>2. Len(<<>>) = 0
  OBVIOUS
<1>3. StackGrows
  BY <1>2 DEF StackGrows
<1>4. ThreadsAgree /\ ActiveKeepsLock /\ ArrivalIsMade /\ KeysDiffer
  BY DEF ThreadsAgree, Running, ActiveKeepsLock, ArrivalIsMade, KeysDiffer, Closing
<1>5. PointersLead /\ OnePointerEach
  BY DEF PointersLead, OnePointerEach, ChildOf, Deleting
<1>6. QED
  BY <1>1, <1>3, <1>4, <1>5 DEF IInv, Strong

LEMMA NextShutdown == IInv /\ [ShutdownNext]_allVars => IInv'
<1> SUFFICES ASSUME IInv, [ShutdownNext]_allVars PROVE IInv'
  OBVIOUS
<1>1. CASE ShutdownNext
  <2>1. Goes /\ Strong /\ ShutdownInv /\ StackGrows
    BY <1>1 DEF ShutdownNext, ThreadStep, IInv
  <2>2. TypeOK' /\ OneOwner'
    BY <1>1, <2>1, NextTypeOK, NextOwner
  <2>3. ShutdownInv' /\ StackGrows'
    BY <1>1, <2>1, <2>2, NextStack DEF ShutdownInv, ShutdownTypeOK
  <2>4. ASSUME Goes' PROVE Strong'
    <3>1. ThreadsAgree' /\ ActiveKeepsLock' /\ Agree'
      BY <1>1, <2>1, <2>2, <2>4, NextThreads, NextActiveLock, NextAgree
    <3>2. ASSUME Descends' PROVE Pointers'
      <4>1. CASE Main
        <5>1. Descends
          BY <3>2, <4>1 DEF Main, Descends, BeginDelete, ReadChild, ClearChild, TellToStop,
                            JoinThread, Free
        <5>2. QED
          BY <2>1, <2>4, <3>2, <4>1, <5>1, MainPointers
      <4>2. CASE ~Main
        <5>1. UNCHANGED mainVars
          BY <1>1, <4>2 DEF ShutdownNext, ThreadStep
        <5>2. Descends
          BY <3>2, <5>1 DEF mainVars, Descends
        <5>3. Pointers
          BY <2>1, <5>2 DEF Strong, Pointers
        <5>4. QED
          BY <1>1, <2>1, <2>4, <4>2, <5>2, <5>3, StillSteps, StillPointers, PrunePointers,
             JoinPointers, SplitPointers, LinkPointers
      <4>3. QED
        BY <4>1, <4>2
    <3>3. ASSUME step' \in {"read", "clear", "tell"} PROVE NoWayBack'
      <4>1. CASE Main
        BY <2>1, <2>4, <3>3, <4>1, MainLeads
      <4>2. CASE ~Main
        <5>1. UNCHANGED mainVars
          BY <1>1, <4>2 DEF ShutdownNext, ThreadStep
        <5>2. step \in {"read", "clear", "tell"}
          BY <3>3, <5>1 DEF mainVars
        <5>3. QED
          BY <1>1, <2>1, <4>2, <5>2, ThreadsLead
      <4>3. QED
        BY <4>1, <4>2
    <3>4. QED
      BY <3>1, <3>2, <3>3 DEF Strong, Agree, Pointers
  <2>5. QED
    BY <2>3, <2>4 DEF IInv
<1>2. CASE UNCHANGED allVars
  <2> USE <1>2 DEF allVars, mainVars, vars, clientVars, handlerVars, threadVars, acceptorVars
  <2>1. ShutdownInv' = ShutdownInv /\ StackGrows' = StackGrows
    BY DEF ShutdownInv, ShutdownTypeOK, TypeOK, OneOwner, StackGrows
  <2>2. Goes' = Goes
    BY DEF Goes, Undefined, Doomed
  <2>3. ThreadsAgree' = ThreadsAgree /\ ActiveKeepsLock' = ActiveKeepsLock
        /\ ArrivalIsMade' = ArrivalIsMade /\ KeysDiffer' = KeysDiffer
    BY DEF ThreadsAgree, ActiveKeepsLock, ArrivalIsMade, KeysDiffer, Closing
  <2>4. PointersLead' = PointersLead /\ OnePointerEach' = OnePointerEach
    BY DEF PointersLead, OnePointerEach, Doomed, WasRead, Stacked, ChildOf, Deleting
  <2>5. NoWayBack' = NoWayBack
    BY DEF NoWayBack, Ahead, WasRead
  <2>6. Descends' = Descends /\ step' = step
    BY DEF Descends
  <2>7. QED
    BY <2>1, <2>2, <2>3, <2>4, <2>5, <2>6 DEF IInv, Strong
<1>3. QED
  BY <1>1, <1>2

LEMMA ShutdownInvariant == ShutdownSpec => []IInv
<1>1. QED
  BY InitShutdown, NextShutdown, PTL DEF ShutdownSpec

(* The destructor of the active handler returns at once, or not at all. *)
LEMMA FreesActive ==
    ASSUME IInv, ShutdownNext, step # "done", step' = "done"
    PROVE  place[Active] = "none" \/ Undefined'
<1>1. Goes /\ Strong /\ ShutdownInv /\ StackGrows
  BY DEF ShutdownNext, ThreadStep, IInv
<1>2. Free
  BY DEF ShutdownNext, ThreadStep, mainVars, Main, BeginDelete, ReadChild, ClearChild,
         TellToStop, JoinThread
<1>3. Last(stack) = Active
  <2>1. /\ Len(stack) \in Nat \ {0} /\ stack \in Seq(live) /\ stack # <<>>
        /\ stack[1] = Active /\ Last(stack) = stack[Len(stack)]
    BY <1>1, <1>2, StackHas DEF Free
  <2>2. Front(stack) = <<>>
    BY <1>2 DEF Free
  <2>3. Len(stack) - 1 = 0
    BY <2>1, <2>2, PopProperties
  <2>4. \A n \in Nat : n - 1 = 0 => n = 1
    OBVIOUS
  <2>5. Len(stack) = 1
    BY <2>1, <2>3, <2>4
  <2>6. QED
    BY <2>1, <2>5
<1>4. Active \notin locked /\ Active \notin live'
      /\ (place[Active] # "ended" => place' = place)
  BY <1>2, <1>3 DEF Free
<1>5. place[Active] # "ended"
  BY <1>1, <1>4 DEF Strong, ActiveKeepsLock
<1>6. place[Active] \in Running \cup {"none", "ended"} /\ Active \in Handlers
  BY <1>1, HandlerAssumption DEF ShutdownInv, ShutdownTypeOK, TypeOK
<1>7. place[Active] \in Running => Undefined'
  BY <1>4, <1>5, <1>6 DEF Undefined
<1>8. QED
  BY <1>5, <1>6, <1>7

-----------------------------------------------------------------------------
(* No destructor has a handler in its hands that is gone (ClientHandler.cpp:53-67),
   and every processor has one owner, with which it is deleted. *)
THEOREM DestructorsHoldWhatLives == ShutdownSpec => []ShutdownInv
<1>1. IInv => ShutdownInv
  BY DEF IInv
<1>2. QED
  BY <1>1, ShutdownInvariant, PTL

(* The destructor calls itself for the child it has read (ClientHandler.cpp:55-57)
   while the threads of the handlers split, merge and prune; none of them leads it
   to a handler whose destructor has begun. *)
THEOREM DestructorsEnterOnce == ShutdownSpec => []StackGrows
<1>1. IInv => StackGrows
  BY DEF IInv
<1>2. QED
  BY <1>1, ShutdownInvariant, PTL

(* The destructor of the active handler (ClientHandler.cpp:53) comes to its end
   only if the handler never had a thread, or after something undefined. *)
THEOREM DeletedWasUnserved == ShutdownSpec => OnlyUnservedIsDeleted
<1>1. IInv /\ [ShutdownNext]_allVars
        => [step # "done" /\ step' = "done" => place[Active] = "none" \/ Undefined']_allVars
  BY FreesActive DEF allVars, mainVars
<1>2. QED
  BY <1>1, ShutdownInvariant, PTL DEF ShutdownSpec, OnlyUnservedIsDeleted
=============================================================================
