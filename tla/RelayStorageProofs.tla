------------------------ MODULE RelayStorageProofs ------------------------
(***************************************************************************)
(* Proofs about RelayStorage, for any number of connections and workers    *)
(* and any frame lengths: StorageInv is inductive, and the type invariant  *)
(* and the safety properties follow from it.                               *)
(*                                                                         *)
(* Each conjunct of StorageInv has a lemma with one step for each action   *)
(* that can disturb it; the facts about dibs rest on the cardinality of    *)
(* the set of holders, which the first lemmas are about.                   *)
(***************************************************************************)
EXTENDS RelayStorage, FiniteSetTheorems, TLAPS

(* What a thread has in its hands is changed by these few definitions. *)
USE DEF Step, Goto, Leave, Acquire, Unlock, Process, NotRunning, Threads,
        Forgets, LastDib, DeletedNow, Wiped,
        vars, processorVars, bufferVars, registryVars, infoVars, callVars

-----------------------------------------------------------------------------
(* Counting the holders of a dib.                                           *)

LEMMA HoldersFinite == \A x : IsFiniteSet(Holders(x))
<1>1. IsFiniteSet(Threads)
  BY StorageAssumption, FS_AddElement DEF Threads
<1>2. QED
  BY <1>1, FS_Subset DEF Holders

(* A client without one of its holders has one holder less. *)
LEMMA OneHolderLess ==
    ASSUME NEW x, NEW t \in Holders(x)
    PROVE  Cardinality(Holders(x) \ {t}) = Cardinality(Holders(x)) - 1
<1>1. IsFiniteSet(Holders(x))
  BY HoldersFinite
<1>2. QED
  BY <1>1, FS_RemoveElement

(* A thread at a place where it counts on its dib finds one to give back. *)
LEMMA HolderHasDib ==
    ASSUME StorageInv, NEW t \in Threads, pc[t] \in Holding
    PROVE  dibs[spot[t]] > 0
<1>1. spot[t] \in Conns
  BY DEF StorageInv, LocksProtect, Using
<1>2. t \in Holders(spot[t])
  BY DEF Holders
<1>3. Cardinality(Holders(spot[t])) \in Nat /\ Cardinality(Holders(spot[t])) # 0
  BY <1>2, HoldersFinite, FS_CardinalityType, FS_EmptySet
<1>4. QED
  BY <1>1, <1>3 DEF StorageInv, TypeOK, DibsCoverHolders

(* Neither a freed client nor one that does not exist yet has holders. *)
LEMMA HeldIsAlive ==
    ASSUME StorageInv, NEW t \in Threads, pc[t] \in Holding
    PROVE  life[spot[t]] = "alive"
<1>1. spot[t] \in Conns
  BY DEF StorageInv, LocksProtect, Using
<1>2. QED
  BY <1>1, HolderHasDib DEF StorageInv, DibsKeepAlive

-----------------------------------------------------------------------------
(* The conjuncts of StorageInv.                                             *)

LEMMA TypeOKKept ==
    ASSUME StorageInv, [Next]_vars
    PROVE  TypeOK'
<1> USE StorageAssumption DEF StorageInv, TypeOK, Phases, ProcessorStates, Places, Using, Holding
<1>1. ASSUME NEW c \in Conns, Register(c) PROVE TypeOK'
  BY <1>1 DEF Register
<1>2. CASE Welcome
  BY <1>2 DEF Welcome, OneThreadPerConnection
<1>3. CASE HandOver
  BY <1>3 DEF HandOver
<1>30. ASSUME NEW c \in Conns, Clean(c) PROVE TypeOK'
  BY <1>30 DEF Clean
<1>4. ASSUME NEW t \in Workers, NEW c \in Conns, ReadLength(t, c) PROVE TypeOK'
  BY <1>4 DEF ReadLength
<1>5. ASSUME NEW t \in Workers, NEW c \in Conns, EndOfStream(t, c) PROVE TypeOK'
  BY <1>5 DEF EndOfStream
<1>6. ASSUME NEW t \in Workers, NEW c \in Conns, ResumeData(t, c) PROVE TypeOK'
  BY <1>6 DEF ResumeData
<1>7. ASSUME NEW t \in Workers, NEW c \in Conns, ResumeResponse(t, c) PROVE TypeOK'
  BY <1>7 DEF ResumeResponse
<1>8. ASSUME NEW t \in Threads, ReadData(t) PROVE TypeOK'
  BY <1>8 DEF ReadData, ReadResults, OneThreadPerConnection
<1>9. ASSUME NEW t \in Threads, AfterRead(t) PROVE TypeOK'
  BY <1>9 DEF AfterRead, FrameDone, OneThreadPerConnection
<1>29. ASSUME NEW t \in Threads, TakeReaction(t) PROVE TypeOK'
  BY <1>29 DEF TakeReaction, OneThreadPerConnection
<1>10. ASSUME NEW t \in Threads, Return(t) PROVE TypeOK'
  BY <1>10 DEF Return, OneThreadPerConnection
<1>11. ASSUME NEW t \in Threads, Compare(t) PROVE TypeOK'
  BY <1>11 DEF Compare
<1>12. ASSUME NEW t \in Threads, FindClient(t) PROVE TypeOK'
  BY <1>12 DEF FindClient
<1>13. ASSUME NEW t \in Threads, LockInfo(t) PROVE TypeOK'
  BY <1>13 DEF LockInfo
<1>14. ASSUME NEW t \in Threads, AddDibb(t) PROVE TypeOK'
  <2>1. pc' \in [Threads -> Places]
    <3>1. "return" \in Places /\ "setLength" \in Places
      OBVIOUS
    <3>2. pc' = [pc EXCEPT ![t] = "return"] \/ pc' = [pc EXCEPT ![t] = "setLength"]
      BY <1>14 DEF AddDibb
    <3>3. QED
      BY <3>1, <3>2
  <2>2. /\ next' \in [Conns -> Conns \cup {NoConn}] /\ dibs' \in [Conns -> Nat]
        /\ infoLock' \in [Conns -> Threads \cup {NoThread}]
        /\ currentBuffer' \in [Conns -> Conns \cup {NoConn}]
        /\ lastBuffer' \in [Conns -> Conns \cup {NoConn}]
    BY <1>14 DEF AddDibb, Enqueue, LocksProtect
  <2>3. QED
    BY <1>14, <2>1, <2>2 DEF AddDibb
<1>15. ASSUME NEW t \in Threads, SetLength(t) PROVE TypeOK'
  BY <1>15 DEF SetLength, OneThreadPerConnection
<1>16. ASSUME NEW t \in Threads, SetNext(t) PROVE TypeOK'
  BY <1>16 DEF SetNext
<1>17. ASSUME NEW t \in Threads, TrySend(t) PROVE TypeOK'
  BY <1>17 DEF TrySend
<1>18. ASSUME NEW t \in Threads, Write(t) PROVE TypeOK'
  BY <1>18 DEF Write, WriteResults
<1>19. ASSUME NEW t \in Threads, AfterWrite(t) PROVE TypeOK'
  <2> DEFINE x == spot[t]
             b == currentBuffer[x]
  <2>1. x \in Conns /\ b \in Conns
    BY <1>19 DEF AfterWrite, LocksProtect
  <2>2. objLen' \in [Conns -> Int] /\ bytesToRead' \in [Conns -> Int]
    BY <1>19, <2>1 DEF AfterWrite, BufferWritten, BufferLeft
  <2>3. currentBuffer' \in [Conns -> Conns \cup {NoConn}]
    BY <1>19, <2>1 DEF AfterWrite, BufferWritten, BufferLeft
  <2>4. total' \in [Threads -> Int] /\ pc' \in [Threads -> Places]
    BY <1>19, <2>1 DEF AfterWrite, BufferWritten, BufferLeft, EndSend
  <2>5. infoLock' \in [Conns -> Threads \cup {NoThread}]
    BY <1>19, <2>1 DEF AfterWrite, BufferWritten, BufferLeft, EndSend
  <2>6. QED
    BY <1>19, <2>2, <2>3, <2>4, <2>5 DEF AfterWrite
<1>20. ASSUME NEW t \in Threads, Sent(t) PROVE TypeOK'
  BY <1>20 DEF Sent
<1>21. ASSUME NEW t \in Threads, LockDib(t) PROVE TypeOK'
  BY <1>21 DEF LockDib
<1>22. ASSUME NEW t \in Threads, DropDib(t) PROVE TypeOK'
  <2>1. spot[t] \in Conns /\ dibs[spot[t]] > 0
    BY <1>22, HolderHasDib DEF DropDib, LocksProtect
  <2>2. dibs' \in [Conns -> Nat]
    BY <1>22, <2>1 DEF DropDib
  <2>3. QED
    BY <1>22, <2>1, <2>2 DEF DropDib
<1>23. ASSUME NEW t \in Threads, UnlockFreed(t) PROVE TypeOK'
  BY <1>23 DEF UnlockFreed
<1>24. ASSUME NEW t \in Threads, Erase(t) PROVE TypeOK'
  BY <1>24 DEF Erase
<1>25. ASSUME NEW t \in Threads, Retire(t) PROVE TypeOK'
  <2>1. life' \in [Conns -> {"none", "alive", "freed"}] /\ deleteSoon' \in [Conns -> BOOLEAN]
    BY <1>25 DEF Retire
  <2>2. QED
    BY <1>25, <2>1 DEF Retire
<1>26. ASSUME NEW t \in Threads, DeleteProcessor(t) PROVE TypeOK'
  BY <1>26 DEF DeleteProcessor, OneThreadPerConnection
<1>27. CASE UNCHANGED vars
  BY <1>27
<1>28. QED
  BY <1>1, <1>2, <1>3, <1>4, <1>5, <1>6, <1>7, <1>8, <1>9, <1>10,
     <1>11, <1>12, <1>13, <1>14, <1>15, <1>16, <1>17, <1>18, <1>19,
     <1>20, <1>21, <1>22, <1>23, <1>24, <1>25, <1>26, <1>27, <1>29, <1>30
  DEF Next, Starting, Running, Receive, Relay, Close, Finished


LEMMA LocksProtectKept ==
    ASSUME StorageInv, [Next]_vars
    PROVE  LocksProtect'
<1> USE StorageAssumption DEF StorageInv, TypeOK, LocksProtect, Using, Holding, Locking
<1>1. ASSUME NEW c \in Conns, Register(c) PROVE LocksProtect'
  BY <1>1 DEF Register
<1>2. CASE Welcome
  BY <1>2 DEF Welcome, OneThreadPerConnection
<1>3. CASE HandOver
  BY <1>3 DEF HandOver
<1>30. ASSUME NEW c \in Conns, Clean(c) PROVE LocksProtect'
  BY <1>30 DEF Clean
<1>4. ASSUME NEW t \in Workers, NEW c \in Conns, ReadLength(t, c) PROVE LocksProtect'
  BY <1>4 DEF ReadLength
<1>5. ASSUME NEW t \in Workers, NEW c \in Conns, EndOfStream(t, c) PROVE LocksProtect'
  BY <1>5 DEF EndOfStream
<1>6. ASSUME NEW t \in Workers, NEW c \in Conns, ResumeData(t, c) PROVE LocksProtect'
  BY <1>6 DEF ResumeData
<1>7. ASSUME NEW t \in Workers, NEW c \in Conns, ResumeResponse(t, c) PROVE LocksProtect'
  BY <1>7 DEF ResumeResponse
<1>8. ASSUME NEW t \in Threads, ReadData(t) PROVE LocksProtect'
  BY <1>8 DEF ReadData, ReadResults
<1>9. ASSUME NEW t \in Threads, AfterRead(t) PROVE LocksProtect'
  BY <1>9 DEF AfterRead, FrameDone
<1>29. ASSUME NEW t \in Threads, TakeReaction(t) PROVE LocksProtect'
  BY <1>29 DEF TakeReaction
<1>10. ASSUME NEW t \in Threads, Return(t) PROVE LocksProtect'
  BY <1>10 DEF Return
<1>11. ASSUME NEW t \in Threads, Compare(t) PROVE LocksProtect'
  BY <1>11 DEF Compare
<1>12. ASSUME NEW t \in Threads, FindClient(t) PROVE LocksProtect'
  BY <1>12 DEF FindClient
<1>13. ASSUME NEW t \in Threads, LockInfo(t) PROVE LocksProtect'
  BY <1>13 DEF LockInfo, RegistryIsLive
<1>14. ASSUME NEW t \in Threads, AddDibb(t) PROVE LocksProtect'
  BY <1>14 DEF AddDibb, Enqueue
<1>15. ASSUME NEW t \in Threads, SetLength(t) PROVE LocksProtect'
  BY <1>15 DEF SetLength
<1>16. ASSUME NEW t \in Threads, SetNext(t) PROVE LocksProtect'
  BY <1>16 DEF SetNext
<1>17. ASSUME NEW t \in Threads, TrySend(t) PROVE LocksProtect'
  BY <1>17 DEF TrySend
<1>18. ASSUME NEW t \in Threads, Write(t) PROVE LocksProtect'
  BY <1>18 DEF Write, WriteResults
<1>19. ASSUME NEW t \in Threads, AfterWrite(t) PROVE LocksProtect'
  BY <1>19 DEF AfterWrite, BufferWritten, BufferLeft, EndSend
<1>20. ASSUME NEW t \in Threads, Sent(t) PROVE LocksProtect'
  BY <1>20 DEF Sent
<1>21. ASSUME NEW t \in Threads, LockDib(t) PROVE LocksProtect'
  BY <1>21 DEF LockDib
<1>22. ASSUME NEW t \in Threads, DropDib(t) PROVE LocksProtect'
  BY <1>22 DEF DropDib
<1>23. ASSUME NEW t \in Threads, UnlockFreed(t) PROVE LocksProtect'
  BY <1>23 DEF UnlockFreed
<1>24. ASSUME NEW t \in Threads, Erase(t) PROVE LocksProtect'
  BY <1>24 DEF Erase
<1>25. ASSUME NEW t \in Threads, Retire(t) PROVE LocksProtect'
  BY <1>25 DEF Retire
<1>26. ASSUME NEW t \in Threads, DeleteProcessor(t) PROVE LocksProtect'
  BY <1>26 DEF DeleteProcessor
<1>27. CASE UNCHANGED vars
  BY <1>27
<1>28. QED
  BY <1>1, <1>2, <1>3, <1>4, <1>5, <1>6, <1>7, <1>8, <1>9, <1>10,
     <1>11, <1>12, <1>13, <1>14, <1>15, <1>16, <1>17, <1>18, <1>19,
     <1>20, <1>21, <1>22, <1>23, <1>24, <1>25, <1>26, <1>27, <1>29, <1>30
  DEF Next, Starting, Running, Receive, Relay, Close, Finished

(* A thread inside a call keeps its connection until it leaves the call. *)
LEMMA StaysBusy ==
    ASSUME StorageInv, NEW t \in Threads,
           \/ ReadData(t) \/ AfterRead(t) \/ TakeReaction(t) \/ Return(t) \/ Relay(t) \/ Erase(t) \/ Retire(t)
    PROVE  /\ UNCHANGED <<phase, conn>>
           /\ pc[t] # "idle" /\ pc' = [pc EXCEPT ![t] = pc'[t]] /\ pc'[t] # "idle"
<1> USE DEF StorageInv, TypeOK
<1>1. CASE ReadData(t) \/ AfterRead(t) \/ TakeReaction(t) \/ Return(t)
  BY <1>1 DEF ReadData, AfterRead, FrameDone, TakeReaction, Return
<1>2. CASE FindClient(t) \/ LockInfo(t) \/ AddDibb(t) \/ SetLength(t) \/ SetNext(t)
  BY <1>2 DEF FindClient, LockInfo, AddDibb, SetLength, SetNext
<1>3. CASE TrySend(t) \/ Write(t) \/ AfterWrite(t)
  BY <1>3 DEF TrySend, Write, AfterWrite, BufferWritten, BufferLeft, EndSend
<1>4. CASE Sent(t) \/ LockDib(t) \/ DropDib(t) \/ UnlockFreed(t)
  BY <1>4 DEF Sent, LockDib, DropDib, UnlockFreed
<1>5. CASE Erase(t) \/ Retire(t)
  BY <1>5 DEF Erase, Retire
<1>6. QED
  BY <1>1, <1>2, <1>3, <1>4, <1>5 DEF Relay

LEMMA OneThreadPerConnectionKept ==
    ASSUME StorageInv, [Next]_vars
    PROVE  OneThreadPerConnection'
<1> USE StorageAssumption DEF StorageInv, TypeOK, OneThreadPerConnection
<1>1. ASSUME NEW c \in Conns, Register(c) PROVE OneThreadPerConnection'
  <2>1. \A u \in Threads : conn[u] # c
    BY <1>1 DEF Register
  <2>2. QED
    BY <1>1, <2>1 DEF Register
<1>2. CASE Welcome
  BY <1>2 DEF Welcome
<1>3. CASE HandOver
  BY <1>3 DEF HandOver
<1>4. ASSUME NEW t \in Workers, NEW c \in Conns, Starting(t, c)
      PROVE  OneThreadPerConnection'
  BY <1>4 DEF Starting, ReadLength, EndOfStream, ResumeData, ResumeResponse
<1>5. ASSUME NEW t \in Threads,
             \/ ReadData(t) \/ AfterRead(t) \/ TakeReaction(t) \/ Return(t) \/ Relay(t) \/ Erase(t) \/ Retire(t)
      PROVE  OneThreadPerConnection'
  BY <1>5, StaysBusy
<1>6. ASSUME NEW t \in Threads, Compare(t) PROVE OneThreadPerConnection'
  BY <1>6 DEF Compare
<1>7. ASSUME NEW t \in Threads, DeleteProcessor(t) PROVE OneThreadPerConnection'
  BY <1>7 DEF DeleteProcessor
<1>8. CASE UNCHANGED vars
  BY <1>8
<1>10. ASSUME NEW c \in Conns, Clean(c) PROVE OneThreadPerConnection'
  BY <1>10 DEF Clean
<1>9. QED
  BY <1>1, <1>2, <1>3, <1>4, <1>5, <1>6, <1>7, <1>8, <1>10
  DEF Next, Running, Receive, Close, Finished

LEMMA RegisteredUntilRemovedKept ==
    ASSUME StorageInv, [Next]_vars
    PROVE  RegisteredUntilRemoved'
<1> USE StorageAssumption DEF StorageInv, TypeOK, RegisteredUntilRemoved
<1>1. ASSUME NEW c \in Conns, Register(c) PROVE RegisteredUntilRemoved'
  BY <1>1, OneThreadPerConnectionKept DEF Register, OneThreadPerConnection
<1>2. CASE Welcome \/ HandOver
  <2>1. CASE Welcome
    BY <2>1 DEF Welcome
  <2>2. CASE HandOver
    BY <2>2 DEF HandOver, OneThreadPerConnection
  <2>3. QED
    BY <1>2, <2>1, <2>2
<1>3. ASSUME NEW t \in Workers, NEW c \in Conns, Starting(t, c)
      PROVE  RegisteredUntilRemoved'
  BY <1>3 DEF Starting, ReadLength, EndOfStream, ResumeData, ResumeResponse,
              OneThreadPerConnection
<1>4. ASSUME NEW t \in Threads, Receive(t) PROVE RegisteredUntilRemoved'
  BY <1>4 DEF Receive, ReadData, AfterRead, FrameDone, TakeReaction, Return, Compare
<1>5. ASSUME NEW t \in Threads, Relay(t), ~DropDib(t)
      PROVE  RegisteredUntilRemoved'
  <2>1. UNCHANGED <<registered, life, deleteSoon>> /\ pc[t] \notin {"retire", "deleteProcessor"}
        /\ pc'[t] \notin {"retire", "deleteProcessor"}
    BY <1>5 DEF Relay, FindClient, LockInfo, AddDibb, SetLength, SetNext, TrySend, Write,
                AfterWrite, BufferWritten, BufferLeft, EndSend, Sent, LockDib, UnlockFreed
  <2>2. QED
    BY <1>5, <2>1, StaysBusy
<1>6. ASSUME NEW t \in Threads, DropDib(t) PROVE RegisteredUntilRemoved'
  BY <1>6 DEF DropDib, OneThreadPerConnection
<1>7. ASSUME NEW t \in Threads, Erase(t) PROVE RegisteredUntilRemoved'
  BY <1>7 DEF Erase, OneThreadPerConnection, RegistryIsLive
<1>8. ASSUME NEW t \in Threads, Retire(t) PROVE RegisteredUntilRemoved'
  BY <1>8 DEF Retire, OneThreadPerConnection
<1>9. ASSUME NEW t \in Threads, DeleteProcessor(t) PROVE RegisteredUntilRemoved'
  BY <1>9 DEF DeleteProcessor, OneThreadPerConnection
<1>10. CASE UNCHANGED vars
  BY <1>10
<1>11. ASSUME NEW c \in Conns, Clean(c) PROVE RegisteredUntilRemoved'
  BY <1>11 DEF Clean, OneThreadPerConnection
<1>12. QED
  BY <1>1, <1>2, <1>3, <1>4, <1>5, <1>6, <1>7, <1>8, <1>9, <1>10, <1>11
  DEF Next, Running, Close, Finished

(* The steps that leave the registry, the lives and the dibs alone. *)
Elsewhere(t) ==
    \/ Receive(t) \/ FindClient(t) \/ LockInfo(t) \/ SetLength(t) \/ SetNext(t)
    \/ TrySend(t) \/ Write(t) \/ AfterWrite(t) \/ Sent(t) \/ LockDib(t)
    \/ UnlockFreed(t) \/ DeleteProcessor(t)

LEMMA ElsewhereChangesNoLife ==
    ASSUME NEW t \in Threads, Elsewhere(t)
    PROVE  UNCHANGED <<registered, life, dibs, deleteSoon>>
<1>1. CASE Receive(t) \/ DeleteProcessor(t)
  BY <1>1 DEF Receive, ReadData, AfterRead, FrameDone, TakeReaction, Return, Compare, DeleteProcessor
<1>2. CASE FindClient(t) \/ LockInfo(t) \/ SetLength(t) \/ SetNext(t)
  BY <1>2 DEF FindClient, LockInfo, SetLength, SetNext
<1>3. CASE TrySend(t) \/ Write(t) \/ AfterWrite(t)
  BY <1>3 DEF TrySend, Write, AfterWrite, BufferWritten, BufferLeft, EndSend
<1>4. CASE Sent(t) \/ LockDib(t) \/ UnlockFreed(t)
  BY <1>4 DEF Sent, LockDib, UnlockFreed
<1>5. QED
  BY <1>1, <1>2, <1>3, <1>4 DEF Elsewhere

LEMMA StartingChangesNoLife ==
    ASSUME NEW t \in Workers, NEW c \in Conns, Starting(t, c)
    PROVE  UNCHANGED <<registered, life, dibs, deleteSoon>>
BY DEF Starting, ReadLength, EndOfStream, ResumeData, ResumeResponse

LEMMA RegistryIsLiveKept ==
    ASSUME StorageInv, [Next]_vars
    PROVE  RegistryIsLive'
<1> USE DEF StorageInv, TypeOK, RegistryIsLive
<1>1. CASE UNCHANGED <<registered, life, dibs, deleteSoon>>
  BY <1>1
<1>2. ASSUME NEW c \in Conns, Register(c) PROVE RegistryIsLive'
  BY <1>2 DEF Register, RegisteredUntilRemoved
<1>3. ASSUME NEW t \in Threads, AddDibb(t) PROVE RegistryIsLive'
  BY <1>3 DEF AddDibb, Enqueue
<1>4. ASSUME NEW t \in Threads, DropDib(t) PROVE RegistryIsLive'
  BY <1>4 DEF DropDib
<1>5. ASSUME NEW t \in Threads, Erase(t) PROVE RegistryIsLive'
  BY <1>5 DEF Erase
<1>6. ASSUME NEW t \in Threads, Retire(t) PROVE RegistryIsLive'
  BY <1>6 DEF Retire, RegisteredUntilRemoved
<1>7. CASE Welcome \/ HandOver \/ \E c \in Conns : Clean(c)
  BY <1>7 DEF Welcome, HandOver, Clean
<1>8. QED
  BY <1>1, <1>2, <1>3, <1>4, <1>5, <1>6, <1>7, ElsewhereChangesNoLife, StartingChangesNoLife
  DEF Next, Running, Relay, Close, Elsewhere, Finished

LEMMA DibsKeepAliveKept ==
    ASSUME StorageInv, [Next]_vars
    PROVE  DibsKeepAlive'
<1> USE DEF StorageInv, TypeOK, DibsKeepAlive
<1>1. CASE UNCHANGED <<registered, life, dibs, deleteSoon>>
  BY <1>1
<1>2. ASSUME NEW c \in Conns, Register(c) PROVE DibsKeepAlive'
  BY <1>2 DEF Register, RegisteredUntilRemoved
<1>3. ASSUME NEW t \in Threads, AddDibb(t) PROVE DibsKeepAlive'
  BY <1>3 DEF AddDibb, Enqueue, LocksProtect
<1>4. ASSUME NEW t \in Threads, DropDib(t) PROVE DibsKeepAlive'
  <2>1. spot[t] \in Conns /\ life[spot[t]] = "alive" /\ dibs[spot[t]] > 0
    BY <1>4, HolderHasDib, HeldIsAlive DEF DropDib, Holding, LocksProtect, Using
  <2>2. QED
    BY <1>4, <2>1 DEF DropDib
<1>5. ASSUME NEW t \in Threads, Erase(t) PROVE DibsKeepAlive'
  BY <1>5 DEF Erase
<1>6. ASSUME NEW t \in Threads, Retire(t) PROVE DibsKeepAlive'
  BY <1>6, StorageAssumption DEF Retire, RegisteredUntilRemoved
<1>7. CASE Welcome \/ HandOver \/ \E c \in Conns : Clean(c)
  BY <1>7 DEF Welcome, HandOver, Clean
<1>8. QED
  BY <1>1, <1>2, <1>3, <1>4, <1>5, <1>6, <1>7, ElsewhereChangesNoLife, StartingChangesNoLife
  DEF Next, Running, Relay, Close, Elsewhere, Finished

(* A step that hands out no dib and takes none back can only lose holders. *)
LEMMA SameDibs ==
    ASSUME StorageInv, TypeOK', dibs' = dibs,
           \A t \in Threads : pc'[t] \in Holding => pc[t] \in Holding /\ spot'[t] = spot[t]
    PROVE  DibsCoverHolders'
<1>1. \A x \in Conns : Holders(x)' \subseteq Holders(x)
  BY DEF Holders
<1>2. \A x \in Conns : Cardinality(Holders(x)') \in Nat /\ Cardinality(Holders(x)) \in Nat
                       /\ Cardinality(Holders(x)') <= Cardinality(Holders(x))
  BY <1>1, HoldersFinite, FS_Subset, FS_CardinalityType
<1>3. QED
  BY <1>2 DEF StorageInv, TypeOK, DibsCoverHolders

(* A dib handed out covers one more holder, and one taken back one less. *)
LEMMA OneMore ==
    ASSUME StorageInv, NEW x \in Conns, NEW t,
           dibs' = [dibs EXCEPT ![x] = @ + 1],
           Holders(x)' = Holders(x) \cup {t}, t \notin Holders(x),
           \A y \in Conns \ {x} : Holders(y)' = Holders(y)
    PROVE  DibsCoverHolders'
<1>1. ASSUME NEW y \in Conns PROVE dibs'[y] >= Cardinality(Holders(y)')
  <2>1. Cardinality(Holders(y)) \in Nat
    BY HoldersFinite, FS_CardinalityType
  <2>2. dibs[y] \in Nat /\ dibs[y] >= Cardinality(Holders(y))
    BY DEF StorageInv, TypeOK, DibsCoverHolders
  <2>3. CASE y = x
    <3>1. Cardinality(Holders(x) \cup {t}) = Cardinality(Holders(x)) + 1
      BY HoldersFinite, FS_AddElement
    <3>2. Cardinality(Holders(y)') = Cardinality(Holders(y)) + 1
      BY <2>3, <3>1, Zenon
    <3>3. dibs'[y] = dibs[y] + 1
      BY <2>3 DEF StorageInv, TypeOK
    <3>4. QED
      BY <2>1, <2>2, <3>2, <3>3
  <2>4. CASE y # x
    <3>1. Cardinality(Holders(y)') = Cardinality(Holders(y))
      BY <2>4, Zenon
    <3>2. dibs'[y] = dibs[y]
      BY <2>4 DEF StorageInv, TypeOK
    <3>3. QED
      BY <2>2, <3>1, <3>2
  <2>5. QED
    BY <2>3, <2>4
<1>2. QED
  BY <1>1, Zenon DEF DibsCoverHolders

LEMMA OneLess ==
    ASSUME StorageInv, NEW x \in Conns, NEW t,
           dibs' = [dibs EXCEPT ![x] = @ - 1],
           Holders(x)' = Holders(x) \ {t}, t \in Holders(x),
           \A y \in Conns \ {x} : Holders(y)' = Holders(y)
    PROVE  DibsCoverHolders'
<1>1. ASSUME NEW y \in Conns PROVE dibs'[y] >= Cardinality(Holders(y)')
  <2>1. Cardinality(Holders(y)) \in Nat
    BY HoldersFinite, FS_CardinalityType
  <2>2. dibs[y] \in Nat /\ dibs[y] >= Cardinality(Holders(y))
    BY DEF StorageInv, TypeOK, DibsCoverHolders
  <2>3. CASE y = x
    <3>1. Cardinality(Holders(x) \ {t}) = Cardinality(Holders(x)) - 1
      BY OneHolderLess
    <3>2. Cardinality(Holders(y)') = Cardinality(Holders(y)) - 1
      BY <2>3, <3>1, Zenon
    <3>3. dibs'[y] = dibs[y] - 1
      BY <2>3 DEF StorageInv, TypeOK
    <3>4. QED
      BY <2>1, <2>2, <3>2, <3>3
  <2>4. CASE y # x
    <3>1. Cardinality(Holders(y)') = Cardinality(Holders(y))
      BY <2>4, Zenon
    <3>2. dibs'[y] = dibs[y]
      BY <2>4 DEF StorageInv, TypeOK
    <3>3. QED
      BY <2>2, <3>1, <3>2
  <2>5. QED
    BY <2>3, <2>4
<1>2. QED
  BY <1>1, Zenon DEF DibsCoverHolders

LEMMA DibsCoverHoldersKept ==
    ASSUME StorageInv, [Next]_vars
    PROVE  DibsCoverHolders'
<1> USE DEF StorageInv, TypeOK, Holding
<1>0. TypeOK'
  BY TypeOKKept
<1>1. ASSUME NEW c \in Conns, Register(c) PROVE DibsCoverHolders'
  BY <1>0, <1>1, SameDibs DEF Register
<1>2. CASE Welcome \/ HandOver \/ \E c \in Conns : Clean(c)
  BY <1>0, <1>2, SameDibs DEF Welcome, HandOver, Clean
<1>3. ASSUME NEW t \in Workers, NEW c \in Conns, Starting(t, c)
      PROVE  DibsCoverHolders'
  BY <1>0, <1>3, SameDibs DEF Starting, ReadLength, EndOfStream, ResumeData, ResumeResponse
<1>4. ASSUME NEW t \in Threads, Receive(t) PROVE DibsCoverHolders'
  BY <1>0, <1>4, SameDibs DEF Receive, ReadData, AfterRead, FrameDone, TakeReaction, Return, Compare
<1>5. ASSUME NEW t \in Threads, FindClient(t) \/ LockInfo(t) \/ SetLength(t) \/ SetNext(t)
      PROVE  DibsCoverHolders'
  BY <1>0, <1>5, SameDibs DEF FindClient, LockInfo, SetLength, SetNext
<1>6. ASSUME NEW t \in Threads, AddDibb(t) PROVE DibsCoverHolders'
  <2>1. PICK x \in Conns : x = spot[t]
    BY <1>6 DEF AddDibb, LocksProtect, Using
  <2>2. CASE deleteSoon[x]
    BY <1>0, <1>6, <2>1, <2>2, SameDibs DEF AddDibb
  <2>3. CASE ~deleteSoon[x]
    <3>1. dibs' = [dibs EXCEPT ![x] = @ + 1]
      BY <1>6, <2>1, <2>3 DEF AddDibb, Enqueue
    <3>2. Holders(x)' = Holders(x) \cup {t} /\ t \notin Holders(x)
      BY <1>6, <2>1, <2>3 DEF AddDibb, Holders
    <3>3. \A y \in Conns \ {x} : Holders(y)' = Holders(y)
      BY <1>6, <2>1, <2>3 DEF AddDibb, Holders
    <3>4. QED
      BY <3>1, <3>2, <3>3, OneMore
  <2>4. QED
    BY <2>2, <2>3
<1>7. ASSUME NEW t \in Threads, TrySend(t) \/ Write(t) \/ AfterWrite(t)
      PROVE  DibsCoverHolders'
  BY <1>0, <1>7, SameDibs DEF TrySend, Write, AfterWrite, BufferWritten, BufferLeft, EndSend
<1>8. ASSUME NEW t \in Threads, Sent(t) \/ LockDib(t) \/ UnlockFreed(t)
      PROVE  DibsCoverHolders'
  BY <1>0, <1>8, SameDibs DEF Sent, LockDib, UnlockFreed
<1>9. ASSUME NEW t \in Threads, DropDib(t) PROVE DibsCoverHolders'
  <2>1. PICK x \in Conns : x = spot[t]
    BY <1>9 DEF DropDib, LocksProtect, Using
  <2>2. dibs' = [dibs EXCEPT ![x] = @ - 1]
    BY <1>9, <2>1 DEF DropDib
  <2>3. Holders(x)' = Holders(x) \ {t} /\ t \in Holders(x)
    BY <1>9, <2>1 DEF DropDib, Holders
  <2>4. \A y \in Conns \ {x} : Holders(y)' = Holders(y)
    BY <1>9, <2>1 DEF DropDib, Holders
  <2>5. QED
    BY <2>2, <2>3, <2>4, OneLess
<1>10. ASSUME NEW t \in Threads, Close(t) PROVE DibsCoverHolders'
  BY <1>0, <1>10, SameDibs DEF Close, Erase, Retire, DeleteProcessor
<1>11. CASE UNCHANGED vars
  BY <1>0, <1>11, SameDibs
<1>12. QED
  BY <1>1, <1>2, <1>3, <1>4, <1>5, <1>6, <1>7, <1>8, <1>9, <1>10, <1>11
  DEF Next, Running, Relay, Finished

-----------------------------------------------------------------------------
(* The theorems.                                                            *)

LEMMA InitStorageInv == Init => StorageInv
<1> SUFFICES ASSUME Init PROVE StorageInv
  OBVIOUS
<1> USE StorageAssumption DEF Init
<1>1. TypeOK
  BY DEF TypeOK, Phases, ProcessorStates, Places
<1>2. OneThreadPerConnection /\ LocksProtect /\ RegisteredUntilRemoved
  BY DEF OneThreadPerConnection, LocksProtect, RegisteredUntilRemoved, Using, Holding, Locking
<1>3. RegistryIsLive /\ DibsKeepAlive
  BY DEF RegistryIsLive, DibsKeepAlive
<1>4. ASSUME NEW x \in Conns PROVE dibs[x] >= Cardinality(Holders(x))
  <2>1. Holders(x) = {}
    BY DEF Holders, Holding
  <2>2. Cardinality(Holders(x)) = 0
    BY <2>1, FS_EmptySet
  <2>3. QED
    BY <2>2
<1>5. DibsCoverHolders
  BY <1>4 DEF DibsCoverHolders
<1>6. QED
  BY <1>1, <1>2, <1>3, <1>5 DEF StorageInv

(* StorageInv holds in every state the storage can reach. *)
THEOREM StorageInvariant == Spec => []StorageInv
<1>1. StorageInv /\ [Next]_vars => StorageInv'
  BY TypeOKKept, OneThreadPerConnectionKept, LocksProtectKept, RegisteredUntilRemovedKept,
     RegistryIsLiveKept, DibsKeepAliveKept, DibsCoverHoldersKept DEF StorageInv
<1>2. QED
  BY InitStorageInv, <1>1, PTL DEF Spec

(* Type correctness: no field of a Buffer, a ClientInfo or a thread ever gets
   a value of another kind, and dibs, a uint32_t, never goes below zero. *)
THEOREM StorageTypeCorrect == Spec => []TypeOK
BY StorageInvariant, PTL DEF StorageInv

(* No use after free: while a thread relays to a ClientInfo between tryGet()
   and the end of removeDibb(), whatever the others remove, it is not freed. *)
THEOREM ClientsArePinned == Spec => []PinnedWhileUsed
<1>1. StorageInv => PinnedWhileUsed
  <2> SUFFICES ASSUME StorageInv, NEW t \in Threads
               PROVE  /\ pc[t] \in Using => life[spot[t]] = "alive"
                      /\ pc[t] = "retire" => life[conn[t]] = "alive"
    BY DEF PinnedWhileUsed
  <2>1. CASE pc[t] \in Holding
    BY <2>1, HeldIsAlive DEF Holding
  <2>2. CASE pc[t] = "lockInfo"
    BY <2>2 DEF StorageInv, LocksProtect, RegistryIsLive
  <2>3. CASE pc[t] = "addDibb"
    BY <2>3 DEF StorageInv, LocksProtect
  <2>4. CASE pc[t] = "retire"
    BY <2>4 DEF StorageInv, RegisteredUntilRemoved, Using, Holding
  <2>5. QED
    BY <2>1, <2>2, <2>3, <2>4 DEF Using
<1>2. QED
  BY StorageInvariant, <1>1, PTL

(* Every thread that will give a dib back has one that is counted, however the
   dibs of the others come and go. *)
THEOREM DibsAreCounted == Spec => []DibsCoverHolders
BY StorageInvariant, PTL DEF StorageInv

(* An id leads to a ClientInfo that is alive and that remove() has not retired. *)
THEOREM RegistryStaysLive == Spec => []RegistryIsLive
BY StorageInvariant, PTL DEF StorageInv

(* remove() and the last removeDibb() cannot both leave the ClientInfo to the
   other: once it is out of the registry and has no dib it is freed. *)
THEOREM LastDibFrees == Spec => []LastOneFrees
<1>1. StorageInv => LastOneFrees
  BY DEF StorageInv, DibsKeepAlive, LastOneFrees
<1>2. QED
  BY StorageInvariant, <1>1, PTL

(* Hang-ups never make send() write to a descriptor that has been closed, and
   perhaps given to another connection, in the meantime: of the sockets it may
   come to, only those of a handler that was stopped are closed. *)
THEOREM HangUpsDisturbNoWrite == Spec => []WritesToOpenSocket
<1>1. StorageInv => WritesToOpenSocket
  <2> SUFFICES ASSUME StorageInv, NEW t \in Threads, pc[t] = "write"
               PROVE  phase[spot[t]] \in {"accepted", "served", "cleaned"}
    BY DEF WritesToOpenSocket
  <2>1. spot[t] \in Conns /\ ~deleteSoon[spot[t]] /\ life[spot[t]] = "alive"
    BY HeldIsAlive DEF StorageInv, LocksProtect, Using, Holding
  <2>2. QED
    BY <2>1 DEF StorageInv, TypeOK, Phases, RegisteredUntilRemoved
<1>2. QED
  BY StorageInvariant, <1>1, PTL

(* tryGet() never finds a client whose remove() has already retired it. *)
THEOREM FoundMeansAccepted == Spec => []NeverRefused
<1>1. StorageInv => NeverRefused
  BY DEF StorageInv, LocksProtect, NeverRefused
<1>2. QED
  BY StorageInvariant, <1>1, PTL

-----------------------------------------------------------------------------
(* RelayStorage implements ClientLifetime, step by step.                    *)

(* The two ways in which a step can leave the abstract variables alone. *)
LEMMA SameStatus ==
    ASSUME UNCHANGED <<registered, life>>
    PROVE  \A c \in Conns : Status(c)' = Status(c)
BY DEF Status

LEMMA SameUsers ==
    ASSUME \A t \in Threads : pc[t] \in Using \/ pc'[t] \in Using =>
                pc[t] \in Using /\ pc'[t] \in Using /\ spot'[t] = spot[t]
    PROVE  \A c \in Conns : Users(c)' = Users(c)
BY DEF Users

(* From facts about each client to facts about the abstract variables. *)
LEMMA Invisible ==
    ASSUME \A c \in Conns : Status(c)' = Status(c),
           \A c \in Conns : Users(c)' = Users(c)
    PROVE  UNCHANGED Lifetime!vars
BY Zenon DEF Lifetime!vars

LEMMA PublishStep ==
    ASSUME NEW c \in Conns, Status(c) = "absent", Status(c)' = "published",
           \A x \in Conns \ {c} : Status(x)' = Status(x),
           \A x \in Conns : Users(x)' = Users(x)
    PROVE  Lifetime!Publish(c)
<1>1. [x \in Conns |-> Status(x)]' = [[x \in Conns |-> Status(x)] EXCEPT ![c] = "published"]
  OBVIOUS
<1>2. UNCHANGED [x \in Conns |-> Users(x)]
  OBVIOUS
<1>3. QED
  BY <1>1, <1>2 DEF Lifetime!Publish, Lifetime!Become

LEMMA WithdrawStep ==
    ASSUME NEW c \in Conns, Status(c) = "published", Status(c)' = "withdrawn",
           \A x \in Conns \ {c} : Status(x)' = Status(x),
           \A x \in Conns : Users(x)' = Users(x)
    PROVE  Lifetime!Withdraw(c)
<1>1. [x \in Conns |-> Status(x)]' = [[x \in Conns |-> Status(x)] EXCEPT ![c] = "withdrawn"]
  OBVIOUS
<1>2. UNCHANGED [x \in Conns |-> Users(x)]
  OBVIOUS
<1>3. QED
  BY <1>1, <1>2 DEF Lifetime!Withdraw, Lifetime!Become

LEMMA ReclaimStep ==
    ASSUME NEW c \in Conns, NEW t \in Threads,
           Status(c) = "withdrawn", Status(c)' = "reclaimed",
           \A x \in Conns \ {c} : Status(x)' = Status(x),
           Users(c) \subseteq {t}, Users(c)' = {},
           \A x \in Conns \ {c} : Users(x)' = Users(x)
    PROVE  Lifetime!Reclaim(c)
<1>1. [x \in Conns |-> Status(x)]' = [[x \in Conns |-> Status(x)] EXCEPT ![c] = "reclaimed"]
  OBVIOUS
<1>2. [x \in Conns |-> Users(x)]' = [[x \in Conns |-> Users(x)] EXCEPT ![c] = {}]
  OBVIOUS
<1>3. QED
  BY <1>1, <1>2 DEF Lifetime!Reclaim, Lifetime!Become

LEMMA StartUseStep ==
    ASSUME NEW c \in Conns, NEW t \in Threads, Status(c) = "published",
           Users(c)' = Users(c) \cup {t},
           \A x \in Conns \ {c} : Users(x)' = Users(x),
           \A x \in Conns : Status(x)' = Status(x)
    PROVE  Lifetime!StartUse(t, c)
<1>1. [x \in Conns |-> Users(x)]' = [[x \in Conns |-> Users(x)] EXCEPT ![c] = @ \cup {t}]
  OBVIOUS
<1>2. UNCHANGED [x \in Conns |-> Status(x)]
  OBVIOUS
<1>3. QED
  BY <1>1, <1>2 DEF Lifetime!StartUse

LEMMA EndUseStep ==
    ASSUME NEW c \in Conns, NEW t \in Threads,
           Users(c)' = Users(c) \ {t},
           \A x \in Conns \ {c} : Users(x)' = Users(x),
           \A x \in Conns : Status(x)' = Status(x)
    PROVE  Lifetime!EndUse(t, c)
<1>1. [x \in Conns |-> Users(x)]' = [[x \in Conns |-> Users(x)] EXCEPT ![c] = @ \ {t}]
  OBVIOUS
<1>2. UNCHANGED [x \in Conns |-> Status(x)]
  OBVIOUS
<1>3. QED
  BY <1>1, <1>2 DEF Lifetime!EndUse

(* A client that is being reclaimed is used by nobody but the thread that
   gives back its last dib. *)
LEMMA NoOtherUser ==
    ASSUME StorageInv, NEW c \in Conns, c \notin registered, NEW u \in Users(c)
    PROVE  u \in Holders(c) \/ (infoLock[c] = u /\ pc[u] = "addDibb")
<1>1. spot[u] = c /\ (pc[u] \in Holding \/ pc[u] \in {"lockInfo", "addDibb"})
  BY DEF Users, Using
<1>2. pc[u] # "lockInfo" /\ (pc[u] = "addDibb" => infoLock[c] = u)
  BY <1>1 DEF StorageInv, LocksProtect, Locking, Users
<1>3. QED
  BY <1>1, <1>2 DEF Holders, Users

LEMMA RefinementStep ==
    ASSUME StorageInv, [Next]_vars
    PROVE  [Lifetime!Next]_(Lifetime!vars)
<1> USE DEF StorageInv, TypeOK
<1>1. ASSUME NEW c \in Conns, Register(c) PROVE Lifetime!Publish(c)
  <2>1. Status(c) = "absent" /\ Status(c)' = "published"
    BY <1>1 DEF Register, Status, RegisteredUntilRemoved
  <2>2. \A x \in Conns \ {c} : Status(x)' = Status(x)
    BY <1>1 DEF Register, Status
  <2>3. \A x \in Conns : Users(x)' = Users(x)
    BY <1>1, SameUsers DEF Register, Using, Holding
  <2>4. QED
    BY <2>1, <2>2, <2>3, PublishStep
<1>2. CASE Welcome \/ HandOver \/ \E c \in Conns : Clean(c)
  BY <1>2, SameStatus, SameUsers, Invisible DEF Welcome, HandOver, Clean, Using, Holding
<1>3. ASSUME NEW t \in Workers, NEW c \in Conns, Starting(t, c)
      PROVE  UNCHANGED Lifetime!vars
  <2>1. UNCHANGED <<registered, life>>
    BY <1>3, StartingChangesNoLife
  <2>2. \A x \in Conns : Users(x)' = Users(x)
    BY <1>3, SameUsers DEF Starting, ReadLength, EndOfStream, ResumeData, ResumeResponse,
                           Using, Holding
  <2>3. QED
    BY <2>1, <2>2, SameStatus, Invisible
<1>4. ASSUME NEW t \in Threads, Receive(t) \/ DeleteProcessor(t)
      PROVE  UNCHANGED Lifetime!vars
  <2>1. UNCHANGED <<registered, life>>
    BY <1>4, ElsewhereChangesNoLife DEF Elsewhere
  <2>2. \A x \in Conns : Users(x)' = Users(x)
    BY <1>4, SameUsers DEF Receive, ReadData, AfterRead, FrameDone, TakeReaction, Return, Compare,
                           DeleteProcessor, Using, Holding
  <2>3. QED
    BY <2>1, <2>2, SameStatus, Invisible
<1>5. ASSUME NEW t \in Threads, FindClient(t) PROVE [Lifetime!Next]_(Lifetime!vars)
  <2>1. PICK c \in Conns : c = spot[t]
    BY <1>5 DEF FindClient, LocksProtect
  <2>2. \A x \in Conns : Status(x)' = Status(x)
    BY <1>5, SameStatus DEF FindClient
  <2>3. CASE c \in registered
    <3>1. Status(c) = "published"
      BY <2>3 DEF Status, RegistryIsLive
    <3>2. Users(c)' = Users(c) \cup {t}
      BY <1>5, <2>1, <2>3 DEF FindClient, Users, Using, Holding
    <3>3. \A x \in Conns \ {c} : Users(x)' = Users(x)
      BY <1>5, <2>1, <2>3 DEF FindClient, Users, Using, Holding
    <3>4. Lifetime!StartUse(t, c)
      BY <2>2, <3>1, <3>2, <3>3, StartUseStep
    <3>5. QED
      BY <3>4 DEF Lifetime!Next
  <2>4. CASE c \notin registered
    <3>1. \A x \in Conns : Users(x)' = Users(x)
      BY <1>5, <2>1, <2>4, SameUsers DEF FindClient, Using, Holding
    <3>2. QED
      BY <2>2, <3>1, Invisible
  <2>5. QED
    BY <2>3, <2>4
<1>6. ASSUME NEW t \in Threads, LockInfo(t) \/ SetLength(t) \/ SetNext(t) \/ TrySend(t)
                                \/ Write(t) \/ AfterWrite(t) \/ LockDib(t) \/ UnlockFreed(t)
      PROVE  UNCHANGED Lifetime!vars
  <2>1. UNCHANGED <<registered, life>>
    BY <1>6, ElsewhereChangesNoLife DEF Elsewhere
  <2>2. \A x \in Conns : Users(x)' = Users(x)
    BY <1>6, SameUsers DEF LockInfo, SetLength, SetNext, TrySend, Write, AfterWrite,
        BufferWritten, BufferLeft, EndSend, LockDib, UnlockFreed, Using, Holding
  <2>3. QED
    BY <2>1, <2>2, SameStatus, Invisible
<1>7. ASSUME NEW t \in Threads, AddDibb(t) PROVE UNCHANGED Lifetime!vars
  <2>1. ~deleteSoon[spot[t]]
    BY <1>7 DEF AddDibb, LocksProtect
  <2>2. \A x \in Conns : Users(x)' = Users(x)
    BY <1>7, <2>1, SameUsers DEF AddDibb, Using, Holding
  <2>3. QED
    BY <1>7, <2>2, SameStatus, Invisible DEF AddDibb
<1>8. ASSUME NEW t \in Threads, Sent(t) PROVE [Lifetime!Next]_(Lifetime!vars)
  <2>1. PICK c \in Conns : c = spot[t]
    BY <1>8 DEF Sent, LocksProtect, Using, Holding
  <2>2. \A x \in Conns : Status(x)' = Status(x)
    BY <1>8, SameStatus DEF Sent
  <2>3. CASE objLen[conn[t]] = 0
    <3>1. \A x \in Conns : Users(x)' = Users(x)
      BY <1>8, <2>3, SameUsers DEF Sent, Using, Holding
    <3>2. QED
      BY <2>2, <3>1, Invisible
  <2>4. CASE objLen[conn[t]] # 0
    <3>1. Users(c)' = Users(c) \ {t}
      BY <1>8, <2>1, <2>4 DEF Sent, Users, Using, Holding
    <3>2. \A x \in Conns \ {c} : Users(x)' = Users(x)
      BY <1>8, <2>1, <2>4 DEF Sent, Users, Using, Holding
    <3>3. QED
      BY <2>2, <3>1, <3>2, EndUseStep DEF Lifetime!Next
  <2>5. QED
    BY <2>3, <2>4
<1>9. ASSUME NEW t \in Threads, DropDib(t) PROVE [Lifetime!Next]_(Lifetime!vars)
  <2>1. PICK c \in Conns : c = spot[t]
    BY <1>9 DEF DropDib, LocksProtect, Using, Holding
  <2>2. Users(c)' = Users(c) \ {t} /\ \A x \in Conns \ {c} : Users(x)' = Users(x)
    BY <1>9, <2>1 DEF DropDib, Users, Using, Holding
  <2>3. CASE UNCHANGED life
    <3>1. \A x \in Conns : Status(x)' = Status(x)
      BY <1>9, <2>3, SameStatus DEF DropDib
    <3>2. QED
      BY <2>2, <3>1, EndUseStep DEF Lifetime!Next
  <2>4. CASE life' # life
    <3>1. dibs[c] = 1 /\ deleteSoon[c] /\ life' = [life EXCEPT ![c] = "freed"]
      BY <1>9, <2>1, <2>4 DEF DropDib
    <3>2. c \notin registered /\ life[c] = "alive" /\ infoLock[c] = t /\ t \in Holders(c)
      BY <1>9, <2>1, <3>1, HeldIsAlive
      DEF DropDib, RegistryIsLive, LocksProtect, Locking, Holding, Holders
    <3>3. Holders(c) = {t}
      <4>1. Cardinality(Holders(c) \ {t}) = Cardinality(Holders(c)) - 1
        BY <3>2, OneHolderLess
      <4>2. Cardinality(Holders(c)) \in Nat /\ Cardinality(Holders(c)) <= 1
        BY <3>1, HoldersFinite, FS_CardinalityType DEF DibsCoverHolders
      <4>3. IsFiniteSet(Holders(c) \ {t}) /\ Cardinality(Holders(c) \ {t}) \in Nat
        BY HoldersFinite, FS_Subset, FS_CardinalityType
      <4>4. Cardinality(Holders(c) \ {t}) = 0
        BY <4>1, <4>2, <4>3
      <4>5. Holders(c) \ {t} = {}
        BY <4>3, <4>4, FS_EmptySet
      <4>6. QED
        BY <3>2, <4>5
    <3>4. Users(c) \subseteq {t}
      BY <1>9, <3>2, <3>3, NoOtherUser DEF DropDib
    <3>5. Status(c) = "withdrawn" /\ Status(c)' = "reclaimed"
      BY <3>1, <3>2 DEF Status
    <3>6. \A x \in Conns \ {c} : Status(x)' = Status(x)
      BY <1>9, <3>1 DEF DropDib, Status
    <3>7. Users(c)' = {}
      BY <2>2, <3>4
    <3>8. QED
      BY <2>2, <3>4, <3>5, <3>6, <3>7, ReclaimStep DEF Lifetime!Next
  <2>5. QED
    BY <2>3, <2>4
<1>10. ASSUME NEW t \in Threads, Erase(t) PROVE [Lifetime!Next]_(Lifetime!vars)
  <2>1. PICK c \in Conns : c = conn[t]
    BY <1>10 DEF Erase, OneThreadPerConnection
  <2>2. \A x \in Conns : Users(x)' = Users(x)
    BY <1>10, SameUsers DEF Erase, Using, Holding
  <2>3. CASE c \in registered
    <3>1. Status(c) = "published" /\ Status(c)' = "withdrawn"
      BY <1>10, <2>1, <2>3 DEF Erase, Status, RegistryIsLive
    <3>2. \A x \in Conns \ {c} : Status(x)' = Status(x)
      BY <1>10, <2>1 DEF Erase, Status
    <3>3. QED
      BY <2>2, <3>1, <3>2, WithdrawStep DEF Lifetime!Next
  <2>4. CASE c \notin registered
    <3>1. UNCHANGED <<registered, life>>
      BY <1>10, <2>1, <2>4 DEF Erase
    <3>2. QED
      BY <2>2, <3>1, SameStatus, Invisible
  <2>5. QED
    BY <2>3, <2>4
<1>11. ASSUME NEW t \in Threads, Retire(t) PROVE [Lifetime!Next]_(Lifetime!vars)
  <2>1. PICK c \in Conns : c = conn[t]
    BY <1>11 DEF Retire, OneThreadPerConnection
  <2>2. \A x \in Conns : Users(x)' = Users(x)
    BY <1>11, SameUsers DEF Retire, Using, Holding
  <2>3. c \notin registered /\ life[c] = "alive" /\ infoLock[c] = NoThread
    BY <1>11, <2>1 DEF Retire, RegisteredUntilRemoved
  <2>4. CASE dibs[c] = 0
    <3>1. Holders(c) = {}
      <4>1. Cardinality(Holders(c)) \in Nat /\ Cardinality(Holders(c)) <= 0
        BY <2>4, HoldersFinite, FS_CardinalityType DEF DibsCoverHolders
      <4>2. QED
        BY <4>1, HoldersFinite, FS_EmptySet
    <3>2. Users(c) = {}
      BY <2>3, <3>1, NoOtherUser, StorageAssumption DEF Users
    <3>3. Status(c) = "withdrawn" /\ Status(c)' = "reclaimed"
      BY <1>11, <2>1, <2>3, <2>4 DEF Retire, Status
    <3>4. \A x \in Conns \ {c} : Status(x)' = Status(x)
      BY <1>11, <2>1, <2>4 DEF Retire, Status
    <3>5. QED
      BY <2>2, <3>2, <3>3, <3>4, ReclaimStep DEF Lifetime!Next
  <2>5. CASE dibs[c] # 0
    <3>1. UNCHANGED <<registered, life>>
      BY <1>11, <2>1, <2>5 DEF Retire
    <3>2. QED
      BY <2>2, <3>1, SameStatus, Invisible
  <2>6. QED
    BY <2>4, <2>5
<1>12. CASE UNCHANGED vars
  <2>1. \A x \in Conns : Users(x)' = Users(x)
    BY <1>12, SameUsers
  <2>2. QED
    BY <1>12, <2>1, SameStatus, Invisible
<1>13. QED
  BY <1>1, <1>2, <1>3, <1>4, <1>5, <1>6, <1>7, <1>8, <1>9, <1>10, <1>11, <1>12
  DEF Next, Running, Relay, Close, Finished, Lifetime!Next

(* The life of a ClientInfo, under all the interleavings of relays and
   removals, is one that ClientLifetime allows. *)
THEOREM StorageImplementsLifetime == Spec => ImplementsClientLifetime
<1>1. Init => Lifetime!Init
  <2> SUFFICES ASSUME Init PROVE Lifetime!Init
    OBVIOUS
  <2>1. \A c \in Conns : Status(c) = "absent" /\ Users(c) = {}
    BY DEF Init, Status, Users, Using, Holding
  <2>2. QED
    BY <2>1, Zenon DEF Lifetime!Init
<1>2. QED
  BY StorageInvariant, <1>1, RefinementStep, PTL DEF Spec, ImplementsClientLifetime, Lifetime!Spec
=============================================================================
