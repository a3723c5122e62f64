------------------------ MODULE ClientManagerProofs ------------------------
(***************************************************************************)
(* Proofs about ClientManager, for any number of ids and any sockets: its  *)
(* type invariant, the end of the probing loop, and the refinement of      *)
(* IdPool.                                                                 *)
(***************************************************************************)
EXTENDS ClientManager, FiniteSetTheorems, WellFoundedInduction, TLAPS

-----------------------------------------------------------------------------
(* The ids and the searching of next().                                     *)

LEMMA IdsFinite == IsFiniteSet(Ids) /\ Cardinality(Ids) = IdSpace
BY IdSpaceAssumption, FS_Interval DEF Ids

LEMMA AdvanceType == \A i \in Ids : Advance(i) \in Ids
BY IdSpaceAssumption DEF Advance, Ids

LEMMA NextIdsFree == TypeOK => NextIds \subseteq Ids \ Used
BY AdvanceType DEF TypeOK, NextIds, ProbeStop

(* When all ids can be counted as used, they are. *)
LEMMA FullMeansAll ==
    ASSUME TypeOK, Cardinality(Used) = IdSpace
    PROVE  Used = Ids
<1>1. Used \in SUBSET Ids
  BY DEF TypeOK
<1>2. QED
  BY <1>1, IdsFinite, FS_Subset

LEMMA LeastNatural ==
    ASSUME NEW T \in SUBSET Nat, T # {}
    PROVE  \E x \in T : \A y \in T : x <= y
<1>1. PICK x \in T : \A y \in T : ~ (<<y, x>> \in OpToRel(<, Nat))
  BY NatLessThanWellFounded, WFMin, Zenon
<1>2. \A y \in T : ~ (y < x)
  BY <1>1 DEF OpToRel
<1>3. QED
  BY <1>2

(* The nearest of the free ids ends the probing that starts at r. *)
LEMMA NearestFreeIdStops ==
    ASSUME NEW r \in Ids, NEW S \in SUBSET Ids, S # Ids
    PROVE  \E j \in Ids \ S : \A k \in Ids : Distance(r, k) < Distance(r, j) => k \in S
<1> DEFINE Distances == {Distance(r, j) : j \in Ids \ S}
<1>1. \A j \in Ids : Distance(r, j) \in Nat
  BY IdSpaceAssumption DEF Distance, Ids
<1>2. Distances \in SUBSET Nat /\ Distances # {}
  BY <1>1
<1>3. PICK d \in Distances : \A e \in Distances : d <= e
  BY <1>2, LeastNatural
<1>4. PICK j \in Ids \ S : d = Distance(r, j)
  OBVIOUS
<1>5. ASSUME NEW k \in Ids \ S PROVE ~ (Distance(r, k) < Distance(r, j))
  BY <1>1, <1>3, <1>4
<1>6. QED
  BY <1>5

-----------------------------------------------------------------------------
LEMMA InitTypeOK == Init => TypeOK
BY IdSpaceAssumption DEF Init, TypeOK, Used, Ids

LEMMA NextTypeOK ==
    ASSUME TypeOK, [Next]_vars
    PROVE  TypeOK'
<1>1. ASSUME NEW s \in Sockets, Add(s) PROVE TypeOK'
  <2>1. PICK j \in NextIds :
            /\ clientCounter' = j /\ answer' = j
            /\ clients' = [i \in Used \cup {j} |-> IF i \in Used THEN clients[i] ELSE s]
    BY <1>1 DEF Add
  <2>2. j \in Ids /\ Used' = Used \cup {j}
    BY <2>1, NextIdsFree DEF Used
  <2>3. QED
    BY <2>1, <2>2 DEF TypeOK
<1>2. CASE AddFails
  BY <1>2, AdvanceType DEF AddFails, TypeOK, Used
<1>3. ASSUME NEW i \in Ids, Remove(i) PROVE TypeOK'
  <2>1. clients' = [j \in Used \ {i} |-> clients[j]] /\ Used' = Used \ {i}
    BY <1>3 DEF Remove, Used
  <2>2. QED
    BY <1>3, <2>1 DEF Remove, TypeOK
<1>4. CASE UNCHANGED vars
  BY <1>4 DEF vars, TypeOK, Used
<1>5. QED
  BY <1>1, <1>2, <1>3, <1>4 DEF Next

(* Type correctness: in particular the counter and every id given out stay
   below UINT8_MAX - 1, so that an id fits the byte a frame has for it. *)
THEOREM RegistryTypeCorrect == Spec => []TypeOK
BY InitTypeOK, NextTypeOK, PTL DEF Spec

(* The probing loop of next() comes to an end whenever it is entered. *)
THEOREM ProbingTerminates == Spec => []ProbingEnds
<1>1. TypeOK => ProbingEnds
  <2> SUFFICES ASSUME TypeOK, Cardinality(Used) < IdSpace, NEW r \in Ids
               PROVE  \E j \in Ids : ProbeStop(r, j)
    BY DEF ProbingEnds
  <2>1. Used \in SUBSET Ids /\ Used # Ids
    BY IdsFinite, IdSpaceAssumption DEF TypeOK
  <2>2. QED
    BY <2>1, NearestFreeIdStops DEF ProbeStop, PassedOver
<1>2. QED
  BY RegistryTypeCorrect, <1>1, PTL

-----------------------------------------------------------------------------
(* An add() that finds no id has found all of them taken. *)
LEMMA NoIdMeansFull ==
    ASSUME TypeOK, NextIds = {}
    PROVE  Used = Ids
<1>1. CASE Cardinality(Used) = IdSpace
  BY <1>1, FullMeansAll
<1>2. CASE Cardinality(Used) # IdSpace
  <2>1. \A j \in Ids, r \in Ids : ~ ProbeStop(r, j)
    BY <1>2 DEF NextIds
  <2>2. PICK r \in Ids : TRUE
    BY IdSpaceAssumption DEF Ids
  <2>3. Used \in SUBSET Ids
    BY DEF TypeOK
  <2>4. QED
    BY <2>1, <2>2, <2>3, NearestFreeIdStops DEF ProbeStop, PassedOver
<1>3. QED
  BY <1>1, <1>2

(* The registry with its counter and its probing is a pool of ids: nobody's
   entry is taken over, and only a full registry refuses a client. *)
THEOREM RegistryImplementsPool == Spec => ImplementsIdPool
<1>1. Init => Pool!Init
  BY DEF Init, Pool!Init
<1>2. ASSUME TypeOK, [Next]_vars PROVE [Pool!Next]_(Pool!vars)
  <2>1. ASSUME NEW s \in Sockets, Add(s) PROVE Pool!Next
    <3>1. PICK j \in NextIds :
              /\ answer' = j
              /\ clients' = [i \in Used \cup {j} |-> IF i \in Used THEN clients[i] ELSE s]
      BY <2>1 DEF Add
    <3>2. j \in Ids /\ j \notin Used
      BY <1>2, NextIdsFree
    <3>3. clients' = [i \in Used \cup {j} |-> IF i = j THEN s ELSE clients[i]]
      BY <3>1, <3>2
    <3>4. Pool!Grant(j, s)
      BY <3>1, <3>2, <3>3 DEF Pool!Grant, Pool!Taken, Used
    <3>5. QED
      BY <3>2, <3>4 DEF Pool!Next
  <2>2. CASE AddFails
    BY <1>2, <2>2, NoIdMeansFull DEF AddFails, Used, Pool!Next, Pool!Refuse, Pool!Taken
  <2>3. ASSUME NEW i \in Ids, Remove(i) PROVE Pool!Next
    BY <2>3 DEF Remove, Used, Pool!Next, Pool!GiveBack, Pool!Taken
  <2>4. CASE UNCHANGED vars
    BY <2>4 DEF vars, Pool!vars
  <2>5. QED
    BY <1>2, <2>1, <2>2, <2>3, <2>4 DEF Next
<1>3. QED
  BY RegistryTypeCorrect, <1>1, <1>2, PTL DEF Spec, ImplementsIdPool, Pool!Spec
=============================================================================
