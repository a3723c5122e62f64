---------------------------- MODULE ScreenConsole ----------------------------
(***************************************************************************)
(* The screen console (ScreenConsole, and nativePrint() of MainActivity):  *)
(* any thread may print a message, which goes into a queue; a thread of    *)
(* the console's own takes what is in the queue to the activity every few  *)
(* seconds, and the activity shows the last lines.  The destructor does    *)
(* not wait for anyone.                                                    *)
(*                                                                         *)
(* A step that uses what the destructor has deleted, or a reference that   *)
(* it has set to NULL, is undefined: the model does not take it, whatever  *)
(* happens before it is there.                                             *)
(***************************************************************************)
EXTENDS Integers, Sequences, FiniteSets

CONSTANTS Messages,   \* bound: the calls of print(), one for each message
          MaxLines    \* 19 in the code: the lines on the screen

ASSUME ConsoleAssumption ==
    /\ IsFiniteSet(Messages) /\ MaxLines \in Nat \ {0}
    /\ Messages \cap {"free", "worker"} = {}

VARIABLES
    life,       \* how far the console has been built and deleted
    at,         \* where each call of print() is
    lock,       \* printLock: "free", or whoever holds it
    messages,   \* the queue
    worker,     \* where the thread of the console is
    next,       \* its position i in the queue
    printed,    \* the messages given to nativePrint() so far
    text        \* how many of them had been given when the text on the screen was made

vars == <<life, at, lock, messages, worker, next, printed, text>>

ConsoleTypeOK ==
    /\ life \in {"none", "alive", "noPacket", "noLock", "noQueue", "gone"}
    /\ at \in [Messages -> {"idle", "tested", "locked", "done", "dropped"}]
    /\ lock \in {"free", "worker"} \cup Messages
    /\ messages \in Seq(Messages)
    /\ worker \in {"none", "sleep", "test", "lock", "print", "unlock"}
    /\ next \in 1 .. Len(messages) + 1
    /\ printed \in Seq(Messages)
    /\ text \in 0 .. Len(printed)

Init ==
    /\ life = "none"
    /\ at = [m \in Messages |-> "idle"]
    /\ lock = "free" /\ messages = <<>>
    /\ worker = "none" /\ next = 1
    /\ printed = <<>> /\ text = 0

(* printLockRef and messageRef.  print() reads the first one anew for the
   test, for lock() and for unlock(): a call that has passed the test may
   find it NULL later. *)
Referenced == life \in {"alive", "noPacket"}

-----------------------------------------------------------------------------
(* The constructor, which also starts the thread. *)
Construct ==
    /\ life = "none"
    /\ life' = "alive" /\ worker' = "sleep"
    /\ UNCHANGED <<at, lock, messages, next, printed, text>>

(* The destructor: the packet is deleted, then the pointers are set to NULL,
   then the members go. *)
Destroy ==
    LET after == [alive |-> "noPacket", noPacket |-> "noLock", noLock |-> "noQueue",
                  noQueue |-> "gone"]
    IN  /\ life \in DOMAIN after
        /\ life' = after[life]
        /\ UNCHANGED <<at, lock, messages, worker, next, printed, text>>

-----------------------------------------------------------------------------
(* print(), called by any thread.                                           *)

Goto(m, from, to) == at[m] = from /\ at' = [at EXCEPT ![m] = to]

(* printLockRef == NULL? *)
Test(m) ==
    /\ Goto(m, "idle", IF Referenced THEN "tested" ELSE "dropped")
    /\ UNCHANGED <<life, lock, messages, worker, next, printed, text>>

Lock(m) ==
    /\ Referenced /\ lock = "free"
    /\ Goto(m, "tested", "locked")
    /\ lock' = m
    /\ UNCHANGED <<life, messages, worker, next, printed, text>>

(* push_back(), and the mutex is given back. *)
Push(m) ==
    /\ Referenced /\ Goto(m, "locked", "done")
    /\ messages' = Append(messages, m)
    /\ lock' = "free"
    /\ UNCHANGED <<life, worker, next, printed, text>>

-----------------------------------------------------------------------------
(* The thread of the console: printWork().                                  *)

Wake ==
    /\ worker = "sleep"
    /\ worker' = "test"
    /\ UNCHANGED <<life, at, lock, messages, next, printed, text>>

(* messages.size() > 0, without the mutex: while somebody is pushing, the
   size may be the old or the new one. *)
TestSize ==
    LET pushing == lock \in Messages
    IN  /\ worker = "test"
        /\ \/ (messages # <<>> \/ pushing) /\ worker' = "lock"
           \/ messages = <<>> /\ worker' = "sleep"
        /\ UNCHANGED <<life, at, lock, messages, next, printed, text>>

LockQueue ==
    /\ worker = "lock" /\ lock = "free"
    /\ lock' = "worker" /\ worker' = "print"
    /\ UNCHANGED <<life, at, messages, next, printed, text>>

(* nativePrint() of one message, of the instance in the packet. *)
PrintOne ==
    /\ life = "alive"
    /\ worker = "print" /\ next <= Len(messages)
    /\ printed' = Append(printed, messages[next])
    /\ next' = next + 1
    /\ UNCHANGED <<life, at, lock, messages, worker, text>>

(* A mutant: the mutex is given back before the queue is cleared. *)
UnlockEarly ==
    /\ worker = "print" /\ next > Len(messages)
    /\ lock' = "free" /\ worker' = "unlock"
    /\ UNCHANGED <<life, at, messages, next, printed, text>>

(* The end of the loop. *)
EndLoop ==
    /\ worker = "print" /\ next > Len(messages)
    /\ worker' = "unlock"
    /\ UNCHANGED <<life, at, lock, messages, next, printed, text>>

(* Mutants: the mutex is kept; the position is not set back. *)
ClearLocked ==
    /\ worker = "unlock"
    /\ messages' = <<>> /\ next' = 1
    /\ worker' = "sleep"
    /\ UNCHANGED <<life, at, lock, printed, text>>
ClearHalf ==
    /\ worker = "unlock"
    /\ messages' = <<>>
    /\ lock' = "free" /\ worker' = "sleep"
    /\ UNCHANGED <<life, at, next, printed, text>>

(* messages.clear() and unlock(). *)
Clear ==
    /\ worker = "unlock"
    /\ messages' = <<>> /\ next' = 1
    /\ lock' = "free" /\ worker' = "sleep"
    /\ UNCHANGED <<life, at, printed, text>>

(* The thread uses the members of the console in each of its steps. *)
PrintWork ==
    life # "gone" /\ (Wake \/ TestSize \/ LockQueue \/ PrintOne \/ EndLoop \/ Clear)

-----------------------------------------------------------------------------
(* The thread of the activity runs what nativePrint() has posted, in order:
   each sets the text to the lines there were when it was posted. *)
ShowText ==
    /\ text < Len(printed)
    /\ text' = text + 1
    /\ UNCHANGED <<life, at, lock, messages, worker, next, printed>>

(* The lines on the screen. *)
Screen == SubSeq(printed, IF text > MaxLines THEN text - MaxLines + 1 ELSE 1, text)

-----------------------------------------------------------------------------
Next ==
    \/ Construct \/ Destroy \/ PrintWork \/ ShowText
    \/ \E m \in Messages : Test(m) \/ Lock(m) \/ Push(m)

Spec == Init /\ [][Next]_vars

(* The messages that have been taken and not yet been printed.  *)
Waiting == SubSeq(messages, next, Len(messages))

Queue == INSTANCE PrintQueue WITH queue <- Waiting, shown <- printed

(* Through the unlocked test of the size and the clearing of the queue, no
   message that was taken is lost, shown twice, or shown out of order. *)
ImplementsPrintQueue == Queue!Spec

-----------------------------------------------------------------------------
(* Liveness: whoever has begun to print goes on, the two threads run; a
   caller gets the mutex in the end (the thread sleeps without it). *)
Fairness ==
    /\ WF_vars(PrintWork) /\ SF_vars(life # "gone" /\ LockQueue)
    /\ WF_vars(ShowText)
    /\ \A m \in Messages : SF_vars(Lock(m)) /\ WF_vars(Push(m))

FairSpec == Spec /\ Fairness

(* A message that finds the console comes to the screen, though later ones
   may push it out again, unless the console is deleted. *)
MessagesAreShown ==
    \A m \in Messages : at[m] = "tested" ~> (\E i \in DOMAIN Screen : Screen[i] = m) \/ life # "alive"
==============================================================================
