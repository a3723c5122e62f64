--------------------------- MODULE HandlerShutdown ---------------------------
(***************************************************************************)
(* The end of the server: the destructor of the active handler, which goes *)
(* down the chain of its children, while the threads of the handlers run   *)
(* and the server thread, which nobody joins, may still be adding a client.*)
(*                                                                         *)
(* Once a thread has reached for a handler that is freed, or two threads   *)
(* are in the destructor of the same one, anything may happen: the model   *)
(* stops there (Undefined).                                                *)
(***************************************************************************)
EXTENDS ClientHandler, SequencesExt

VARIABLES
    step,    \* where the innermost destructor is
    stack,   \* the handlers whose destructor has begun, from the active one down
    below    \* its variable c: the child it is going to delete

mainVars == <<step, stack, below>>
allVars == <<vars, mainVars>>

ShutdownInit == Init /\ step = "running" /\ stack = <<>> /\ below = None

(* The handlers that the deleting thread has in its hands. *)
Doomed == {stack[i] : i \in DOMAIN stack} \cup ({below} \ {None})

Undefined ==
    \/ \E h \in Handlers :
        \/ place[h] \in Running /\ h \notin live
        \/ place[h] = "join" /\ closing[h] \in Doomed
        \/ place[h] = "prune" /\ child[h] \notin live \cup {None}
        \/ place[h] = "mergeActive" /\ Active \notin live
    \/ accepting # "idle" /\ Active \notin live

-----------------------------------------------------------------------------
(* The thread that runs ~ServerTCP(): delete current.                       *)

BeginDelete ==
    /\ step = "running"
    /\ step' = "read" /\ stack' = <<Active>>
    /\ UNCHANGED <<vars, below>>

(* c = child *)
ReadChild ==
    /\ step = "read"
    /\ step' = "clear" /\ below' = child[Last(stack)]
    /\ UNCHANGED <<vars, stack>>

(* child = NULL *)
ClearChild ==
    /\ step = "clear"
    /\ step' = "tell"
    /\ child' = [child EXCEPT ![Last(stack)] = None]
    /\ UNCHANGED <<clientVars, live, processors, listen, stop, locked, threadVars,
                   acceptorVars, stack, below>>

(* stop = true, and on to the destructor of the child if there is one. *)
TellToStop ==
    /\ step = "tell"
    /\ stop' = [stop EXCEPT ![Last(stack)] = TRUE]
    /\ step' = IF below = None THEN "join" ELSE "read"
    /\ stack' = IF below = None THEN stack ELSE Append(stack, below)
    /\ below' = None
    /\ UNCHANGED <<clientVars, live, processors, child, listen, locked, threadVars, acceptorVars>>

(* pthread_join(): of a thread that was never created it is undefined, and
   either returns an error, which is ignored, or ends the process. *)
JoinThread ==
    /\ step = "join"
    /\ \/ /\ place[Last(stack)] = "ended"
          /\ step' = "free"
       \/ /\ place[Last(stack)] = "none"
          /\ step' \in {"free", "aborted"}
    /\ UNCHANGED <<vars, stack, below>>

(* With the mutex, the processors are deleted; then the handler is gone. *)
Free ==
    LET h == Last(stack)
    IN  /\ step = "free"
        /\ h \notin locked
        /\ Delete(processors[h])
        /\ processors' = [processors EXCEPT ![h] = {}]
        /\ live' = live \ {h}
        /\ listen' = [listen EXCEPT ![h] = FALSE]
        /\ stop' = [stop EXCEPT ![h] = FALSE]
        /\ place' = IF place[h] = "ended" THEN [place EXCEPT ![h] = "none"] ELSE place
        /\ stack' = Front(stack)
        /\ step' = IF stack' = <<>> THEN "done" ELSE "join"
        /\ UNCHANGED <<taken, child, locked, todo, closing, hand, acceptorVars, below>>

Main == BeginDelete \/ ReadChild \/ ClearChild \/ TellToStop \/ JoinThread \/ Free

-----------------------------------------------------------------------------
(* What the thread of a handler does when it sees stop.                     *)

(* A mutant of Cleaned: clean() leaves what it has deleted in the map. *)
CleanedNot(h) == processors

(* The map after clean(). *)
Cleaned(h) == [processors EXCEPT ![h] = {}]

(* A mutant of StopRound: the mutex is given back. *)
StopRoundUnlocks(h) ==
    /\ listen[h] /\ stop[h]
    /\ h \notin locked
    /\ Step(h, "top", "ended")
    /\ Delete(processors[h])
    /\ processors' = Cleaned(h)
    /\ listen' = [listen EXCEPT ![h] = FALSE]
    /\ UNCHANGED <<taken, live, child, stop, locked, todo, closing, hand, acceptorVars>>

(* clientWork() finds it at the top of a round, with the mutex: clean(), and
   the thread ends without giving the mutex back. *)
StopRound(h) ==
    /\ listen[h] /\ stop[h]
    /\ h \notin locked
    /\ Step(h, "top", "ended")
    /\ locked' = locked \cup {h}
    /\ Delete(processors[h])
    /\ processors' = Cleaned(h)
    /\ listen' = [listen EXCEPT ![h] = FALSE]
    /\ UNCHANGED <<taken, live, child, stop, todo, closing, hand, acceptorVars>>

(* A mutant of RefuseSplit: split() returns with the mutex locked. *)
RefuseSplitLocked(h) ==
    /\ stop[h]
    /\ h \notin locked
    /\ Step(h, "split", "top")
    /\ locked' = locked \cup {h}
    /\ UNCHANGED <<clientVars, live, processors, child, listen, stop, todo, closing, hand,
                   acceptorVars>>

(* split() finds it and does nothing. *)
RefuseSplit(h) ==
    /\ stop[h]
    /\ h \notin locked
    /\ Step(h, "split", "top")
    /\ UNCHANGED <<clientVars, handlerVars, todo, closing, hand, acceptorVars>>

(* mergeWithActive() finds it and returns, and the thread ends. *)
RefuseMerge(h) ==
    /\ stop[h]
    /\ Step(h, "merge", "ended")
    /\ UNCHANGED <<clientVars, handlerVars, todo, closing, hand, acceptorVars>>

StopWork(h) == StopRound(h) \/ RefuseSplit(h) \/ RefuseMerge(h)

-----------------------------------------------------------------------------
Goes == ~Undefined /\ step # "aborted"

AddClient == \/ \E p \in Procs : Active \in live /\ Accept(p)
             \/ Insert
             \/ StartActive

ThreadStep(h) == Goes /\ (ClientWork(h) \/ StopWork(h)) /\ UNCHANGED mainVars

ShutdownNext ==
    \/ Goes /\ Main
    \/ \E h \in Handlers : ThreadStep(h)
    \/ Goes /\ (AddClient \/ \E p \in Procs : HangUp(p)) /\ UNCHANGED mainVars

ShutdownSpec == ShutdownInit /\ [][ShutdownNext]_allVars

ShutdownTypeOK ==
    /\ TypeOK
    /\ step \in {"running", "read", "clear", "tell", "join", "free", "done", "aborted"}
    /\ stack \in Seq(live)
    /\ below \in live \cup {None}

(* Types (no destructor has a handler in its hands that is gone), and: until
   something undefined happens every processor has one owner, with which it is
   deleted. *)
ShutdownInv == ShutdownTypeOK /\ OneOwner

(* The destructor of the active handler comes back only if the handler has
   never had a thread: one that saw stop has ended with the mutex locked
   (ClientHandler.cpp:95), which the destructor then waits for (:64).  If the
   server thread creates one behind its back, that thread is left without a
   handler. *)
OnlyUnservedIsDeleted ==
    [][step # "done" /\ step' = "done" => place[Active] = "none" \/ Undefined']_allVars

-----------------------------------------------------------------------------
(* Liveness: the deleting thread and the threads of the handlers run.       *)
ShutdownFairness ==
    /\ WF_allVars(Goes /\ Main)
    /\ \A h \in Handlers : WF_allVars(ThreadStep(h))
    /\ \A h \in Handlers \ {Active} : SF_allVars(Goes /\ MoveToActive(h) /\ UNCHANGED mainVars)

FairShutdownSpec == ShutdownSpec /\ ShutdownFairness

(* The mutex of the active handler, locked by a thread that has ended (the
   server thread can have given the handler another one since). *)
Abandoned == Active \in locked /\ place[Active] \in {"ended", "top"}

(* Whoever is told to stop ends its thread, whatever it was doing, unless it
   needs the mutex that the thread of the active handler has kept. *)
StoppedThreadsEnd ==
    \A h \in Handlers :
        h \in Doomed /\ stop[h] ~>
            \/ place[h] \in {"none", "ended"} \/ ~Goes
            \/ Abandoned /\ (h = Active \/ place[h] = "mergeActive")
=============================================================================
