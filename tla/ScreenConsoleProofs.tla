------------------------- MODULE ScreenConsoleProofs -------------------------
(***************************************************************************)
(* Proofs about ScreenConsole, for any number of messages.  Types are      *)
(* inductive; the refinement of PrintQueue needs that the queue changes    *)
(* only under its mutex, which is what MutexKept says.                     *)
(***************************************************************************)
EXTENDS ScreenConsole, SequenceTheorems, TLAPS

(* Who pushes has the mutex, and so has the thread while it prints; when it
   clears the queue there is nothing left to print. *)
MutexKept ==
    /\ \A m \in Messages : at[m] = "locked" => lock = m
    /\ worker \in {"print", "unlock"} => lock = "worker"
    /\ worker = "unlock" => next = Len(messages) + 1

ConsoleInv == ConsoleTypeOK /\ MutexKept

LEMMA InitConsole == Init => ConsoleInv
BY EmptySeq, ConsoleAssumption DEF Init, ConsoleInv, ConsoleTypeOK, MutexKept

LEMMA NextConsole ==
    ASSUME ConsoleInv, [Next]_vars
    PROVE  ConsoleInv'
<1> USE ConsoleAssumption DEF ConsoleInv, ConsoleTypeOK, MutexKept, Goto
<1>1. Len(messages) \in Nat /\ Len(printed) \in Nat
  BY LenProperties
<1>2. CASE Construct
  BY <1>2 DEF Construct
<1>3. CASE Destroy
  BY <1>3 DEF Destroy
<1>4. CASE Wake
  BY <1>4 DEF Wake
<1>5. CASE TestSize
  BY <1>5 DEF TestSize
<1>6. CASE LockQueue
  BY <1>6 DEF LockQueue
<1>7. CASE PrintOne
  <2>1. messages[next] \in Messages
    BY <1>1, <1>7, ElementOfSeq DEF PrintOne
  <2>2. printed' \in Seq(Messages) /\ Len(printed') = Len(printed) + 1
    BY <1>7, <2>1, AppendProperties DEF PrintOne
  <2>3. QED
    BY <1>1, <1>7, <2>2 DEF PrintOne
<1>8. CASE EndLoop
  BY <1>1, <1>8 DEF EndLoop
<1>9. CASE Clear
  BY <1>9, EmptySeq DEF Clear
<1>10. CASE ShowText
  BY <1>1, <1>10 DEF ShowText
<1>11. ASSUME NEW m \in Messages, Test(m) PROVE ConsoleInv'
  BY <1>11 DEF Test
<1>12. ASSUME NEW m \in Messages, Lock(m) PROVE ConsoleInv'
  BY <1>12 DEF Lock
<1>13. ASSUME NEW m \in Messages, Push(m) PROVE ConsoleInv'
  <2>1. messages' \in Seq(Messages) /\ Len(messages') = Len(messages) + 1
    BY <1>13, AppendProperties DEF Push
  <2>2. next' \in 1 .. Len(messages') + 1
    BY <1>1, <1>13, <2>1 DEF Push
  <2>3. QED
    BY <1>13, <2>1, <2>2 DEF Push
<1>14. CASE UNCHANGED vars
  BY <1>14 DEF vars
<1>15. QED
  BY <1>2, <1>3, <1>4, <1>5, <1>6, <1>7, <1>8, <1>9, <1>10, <1>11, <1>12, <1>13, <1>14
     DEF Next, PrintWork

LEMMA ConsoleInvariant == Spec => []ConsoleInv
BY InitConsole, NextConsole, PTL DEF Spec

(* Type correctness: in particular the thread's position never runs past the
   end of the queue, and the screen never gets ahead of nativePrint(). *)
THEOREM ConsoleTypeCorrect == Spec => []ConsoleTypeOK
<1>1. ConsoleInv => ConsoleTypeOK
  BY DEF ConsoleInv
<1>2. QED
  BY <1>1, ConsoleInvariant, PTL

-----------------------------------------------------------------------------
(* What is waiting, in the three steps that change the queue.               *)

LEMMA WaitingAfterPush ==
    ASSUME ConsoleTypeOK, NEW m \in Messages
    PROVE  SubSeq(Append(messages, m), next, Len(messages) + 1) = Append(Waiting, m)
<1> DEFINE n == Len(messages)
           more == Append(messages, m)
<1>1. n \in Nat /\ next \in 1 .. n + 1 /\ messages \in Seq(Messages)
  BY LenProperties DEF ConsoleTypeOK
<1>2. more \in Seq(Messages) /\ Len(more) = n + 1 /\ more[n + 1] = m
      /\ \A i \in 1 .. n : more[i] = messages[i]
  BY <1>1, AppendProperties
<1>3. /\ Waiting \in Seq(Messages)
      /\ Len(Waiting) = n + 1 - next
      /\ \A i \in 1 .. n + 1 - next : Waiting[i] = messages[next + i - 1]
  <2>1. \A i \in next .. n : messages[i] \in Messages
    BY <1>1, ElementOfSeq
  <2>2. QED
    BY <1>1, <2>1, SubSeqProperties DEF Waiting
<1>4. /\ SubSeq(more, next, n + 1) \in Seq(Messages)
      /\ Len(SubSeq(more, next, n + 1)) = n + 2 - next
      /\ \A i \in 1 .. n + 2 - next : SubSeq(more, next, n + 1)[i] = more[next + i - 1]
  <2>1. \A i \in next .. n + 1 : more[i] \in Messages
    BY <1>1, <1>2, ElementOfSeq
  <2>2. QED
    BY <1>1, <2>1, SubSeqProperties
<1>5. /\ Append(Waiting, m) \in Seq(Messages)
      /\ Len(Append(Waiting, m)) = n + 2 - next
      /\ \A i \in 1 .. n + 1 - next : Append(Waiting, m)[i] = Waiting[i]
      /\ Append(Waiting, m)[n + 2 - next] = m
  <2>1. /\ Append(Waiting, m) \in Seq(Messages)
        /\ Len(Append(Waiting, m)) = Len(Waiting) + 1
        /\ \A i \in 1 .. Len(Waiting) : Append(Waiting, m)[i] = Waiting[i]
        /\ Append(Waiting, m)[Len(Waiting) + 1] = m
    BY <1>3, AppendProperties, Zenon
  <2>2. Len(Waiting) = n + 1 - next /\ Len(Waiting) + 1 = n + 2 - next
    BY <1>1, <1>3
  <2>3. QED
    BY <2>1, <2>2
<1>6. ASSUME NEW i \in 1 .. n + 2 - next
      PROVE  SubSeq(more, next, n + 1)[i] = Append(Waiting, m)[i]
  <2>1. CASE i = n + 2 - next
    BY <1>1, <1>2, <1>4, <1>5, <2>1
  <2>2. CASE i # n + 2 - next
    <3>1. i \in 1 .. n + 1 - next /\ next + i - 1 \in 1 .. n
      BY <1>1, <2>2
    <3>2. QED
      BY <1>2, <1>3, <1>4, <1>5, <3>1
  <2>3. QED
    BY <2>1, <2>2
<1>7. QED
  BY <1>4, <1>5, <1>6, SeqEqual

LEMMA WaitingAfterPrint ==
    ASSUME ConsoleTypeOK, next <= Len(messages)
    PROVE  /\ Waiting # <<>> /\ Head(Waiting) = messages[next]
           /\ SubSeq(messages, next + 1, Len(messages)) = Tail(Waiting)
<1>1. Len(messages) \in Nat /\ next \in 1 .. Len(messages) /\ messages \in Seq(Messages)
  BY LenProperties DEF ConsoleTypeOK
<1>2. Len(Waiting) = Len(messages) + 1 - next
  <2>1. \A i \in next .. Len(messages) : messages[i] \in Messages
    BY <1>1, ElementOfSeq
  <2>2. QED
    BY <1>1, <2>1, SubSeqProperties DEF Waiting
<1>3. Waiting # <<>>
  BY <1>1, <1>2
<1>4. QED
  BY <1>1, <1>3, HeadTailOfSubSeq DEF Waiting

(* Messages are shown one by one, once each, in the order in which they were
   taken: pushing takes one, printing one shows the first that is waiting, and
   all else, the clearing of the queue included, cannot be seen. *)
THEOREM ConsoleImplementsQueue == Spec => ImplementsPrintQueue
<1>1. Init => Queue!Init
  <2>1. SubSeq(<<>>, 1, 0) = <<>>
    BY SubSeqEmpty
  <2>2. QED
    BY <2>1 DEF Init, Queue!Init, Waiting
<1>2. ASSUME ConsoleInv, [Next]_vars
      PROVE  [Queue!Next]_<<Waiting, printed>>
  <2> USE DEF ConsoleInv
  <2>1. ASSUME NEW m \in Messages, Push(m) PROVE Queue!Take(m)
    <3>1. messages' = Append(messages, m) /\ next' = next /\ printed' = printed
      BY <2>1 DEF Push
    <3>2. Len(messages') = Len(messages) + 1
      BY <1>2, <3>1, AppendProperties DEF ConsoleTypeOK
    <3>3. Waiting' = SubSeq(Append(messages, m), next, Len(messages) + 1)
      BY <3>1, <3>2 DEF Waiting
    <3>4. Waiting' = Append(Waiting, m)
      BY <1>2, <3>3, WaitingAfterPush, Zenon
    <3>5. QED
      BY <3>1, <3>4 DEF Queue!Take
  <2>2. CASE PrintOne
    <3>1. messages' = messages /\ next' = next + 1 /\ printed' = Append(printed, messages[next])
          /\ next <= Len(messages)
      BY <2>2 DEF PrintOne
    <3>2. Waiting' = SubSeq(messages, next + 1, Len(messages))
      BY <3>1 DEF Waiting
    <3>3. /\ Waiting # <<>> /\ Waiting' = Tail(Waiting)
          /\ printed' = Append(printed, Head(Waiting))
      BY <1>2, <3>1, <3>2, WaitingAfterPrint, Zenon
    <3>4. QED
      BY <3>3 DEF Queue!Next, Queue!Show
  <2>3. CASE Clear
    <3>1. Waiting = <<>>
      <4>1. next = Len(messages) + 1 /\ Len(messages) \in Nat
        <5>1. messages \in Seq(Messages)
          BY <1>2 DEF ConsoleTypeOK
        <5>2. Len(messages) \in Nat
          BY <5>1, LenProperties, Zenon
        <5>3. QED
          BY <1>2, <2>3, <5>2 DEF Clear, MutexKept
      <4>2. QED
        BY <4>1, SubSeqEmpty DEF Waiting
    <3>2. Waiting' = <<>>
      <4>1. messages' = <<>> /\ next' = 1 /\ Len(messages') = 0
        BY <2>3 DEF Clear
      <4>2. QED
        BY <4>1, SubSeqEmpty DEF Waiting
    <3>3. QED
      BY <2>3, <3>1, <3>2 DEF Clear
  <2>4. CASE UNCHANGED <<messages, next, printed>>
    BY <2>4 DEF Waiting
  <2>5. \/ \E m \in Messages : Push(m)
        \/ PrintOne \/ Clear
        \/ UNCHANGED <<messages, next, printed>>
    <3>1. CASE Next
      BY <3>1 DEF Next, PrintWork, Construct, Destroy, Wake, TestSize, LockQueue, EndLoop,
                  ShowText, Test, Lock
    <3>2. CASE UNCHANGED vars
      BY <3>2 DEF vars
    <3>3. QED
      BY <1>2, <3>1, <3>2
  <2>6. QED
    BY <2>1, <2>2, <2>3, <2>4, <2>5 DEF Queue!Next
<1>3. QED
  BY <1>1, <1>2, ConsoleInvariant, PTL DEF Spec, ImplementsPrintQueue, Queue!Spec
=============================================================================
