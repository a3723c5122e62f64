---------------------------- MODULE FramingProofs ----------------------------
(***************************************************************************)
(* Proofs about Framing, for any clients and ids, any frames, any order in *)
(* which they are cut into pieces, read, queued and written, and either    *)
(* kind of char.                                                           *)
(*                                                                         *)
(* A stream of bytes is taken for what it is made of: Parses(s, fs) says   *)
(* that s is the frames fs one after the other.  It is the least relation  *)
(* that can be built from the front, and can be taken apart there; that is *)
(* all the steps of the server and the clients do to a stream.             *)
(***************************************************************************)
EXTENDS Framing, SequenceTheorems, FiniteSetTheorems, NaturalsInduction,
        WellFoundedInduction, TLAPS

LEMMA LeastNatural ==
    ASSUME NEW T \in SUBSET Nat, T # {}
    PROVE  \E x \in T : \A y \in T : x <= y
<1>1. PICK x \in T : \A y \in T : ~ (<<y, x>> \in OpToRel(<, Nat))
  BY NatLessThanWellFounded, WFMin, Zenon
<1>2. \A y \in T : ~ (y < x)
  BY <1>1 DEF OpToRel
<1>3. QED
  BY <1>2

(* Induction, for a set of naturals. *)
LEMMA InductiveSet ==
    ASSUME NEW T, 0 \in T, \A n \in Nat : n \in T => n + 1 \in T
    PROVE  Nat \subseteq T
<1> SUFFICES ASSUME Nat \ T # {} PROVE FALSE
  OBVIOUS
<1>1. PICK n \in Nat \ T : \A m \in Nat \ T : n <= m
  BY LeastNatural
<1>2. n - 1 \in Nat /\ n - 1 \in T
  BY <1>1
<1>3. QED
  BY <1>1, <1>2

LEMMA ByteType ==
    /\ Base \in Nat /\ Base >= 2 /\ Base <= 256
    /\ BufLen \in Nat /\ BufLen >= 1
    /\ \A b : b \in Bytes <=> b \in Nat /\ b < Base
    /\ 0 \in Bytes /\ 1 \in Bytes
BY FramingAssumption DEF Bytes, BufLen

-----------------------------------------------------------------------------
(* Streams of frames.                                                       *)

Texts == {b \in Seq(Bytes) : Len(b) < Base}
Encoded(b) == <<Len(b)>> \o b

Closed(P) ==
    /\ <<<<>>, <<>>>> \in P
    /\ \A b \in Texts, s \in Seq(Bytes), fs \in Seq(Texts) :
          <<s, fs>> \in P => <<Encoded(b) \o s, <<b>> \o fs>> \in P

Parses(s, fs) ==
    /\ s \in Seq(Bytes) /\ fs \in Seq(Texts)
    /\ \A P \in SUBSET (Seq(Bytes) \X Seq(Texts)) : Closed(P) => <<s, fs>> \in P

LEMMA EncodedType ==
    ASSUME NEW b \in Texts
    PROVE  /\ b \in Seq(Bytes) /\ Len(b) \in Bytes /\ <<b>> \in Seq(Texts)
           /\ Encoded(b) \in Seq(Bytes) /\ Len(Encoded(b)) = Len(b) + 1
           /\ Encoded(b)[1] = Len(b)
           /\ \A i \in 1 .. Len(b) : Encoded(b)[i + 1] = b[i]
<1>1. b \in Seq(Bytes) /\ Len(b) \in Bytes /\ Len(b) \in Nat
  BY ByteType DEF Texts
<1>2. <<b>> \in Seq(Texts) /\ <<Len(b)>> \in Seq(Bytes) /\ Len(<<Len(b)>>) = 1
  BY <1>1
<1>3. /\ Encoded(b) \in Seq(Bytes) /\ Len(Encoded(b)) = 1 + Len(b)
      /\ \A i \in 1 .. 1 + Len(b) : Encoded(b)[i] = IF i <= 1 THEN <<Len(b)>>[i] ELSE b[i - 1]
  BY <1>1, <1>2, ConcatProperties DEF Encoded
<1>4. Encoded(b)[1] = Len(b)
  BY <1>1, <1>3
<1>5. \A i \in 1 .. Len(b) : Encoded(b)[i + 1] = b[i]
  BY <1>1, <1>3
<1>6. QED
  BY <1>1, <1>2, <1>3, <1>4, <1>5

LEMMA ParsesEmpty == Parses(<<>>, <<>>)
BY EmptySeq DEF Parses, Closed

LEMMA ParsesCons ==
    ASSUME NEW s, NEW fs, Parses(s, fs), NEW b \in Texts
    PROVE  Parses(Encoded(b) \o s, <<b>> \o fs)
<1>1. Encoded(b) \o s \in Seq(Bytes) /\ <<b>> \o fs \in Seq(Texts)
  BY EncodedType, ConcatProperties DEF Parses
<1>2. QED
  BY <1>1 DEF Parses, Closed

(* Induction over the frames of a stream. *)
LEMMA ParsesInduction ==
    ASSUME NEW P \in SUBSET (Seq(Bytes) \X Seq(Texts)), <<<<>>, <<>>>> \in P,
           \A b \in Texts, s \in Seq(Bytes), fs \in Seq(Texts) :
              Parses(s, fs) /\ <<s, fs>> \in P => <<Encoded(b) \o s, <<b>> \o fs>> \in P,
           NEW t, NEW gs, Parses(t, gs)
    PROVE  <<t, gs>> \in P
<1> DEFINE Q == {p \in P : Parses(p[1], p[2])}
<1>1. <<<<>>, <<>>>> \in Q
  BY ParsesEmpty
<1>2. ASSUME NEW b \in Texts, NEW s \in Seq(Bytes), NEW fs \in Seq(Texts), <<s, fs>> \in Q
      PROVE  <<Encoded(b) \o s, <<b>> \o fs>> \in Q
  <2>1. Parses(s, fs) /\ <<s, fs>> \in P
    BY <1>2
  <2>2. Parses(Encoded(b) \o s, <<b>> \o fs)
    BY <2>1, ParsesCons
  <2>3. QED
    BY <2>1, <2>2
<1>3. Q \in SUBSET (Seq(Bytes) \X Seq(Texts)) /\ Closed(Q)
  BY <1>1, <1>2 DEF Closed
<1>4. <<t, gs>> \in Q
  BY <1>3 DEF Parses
<1>5. QED
  BY <1>4

LEMMA ParsesConcat ==
    ASSUME NEW s, NEW fs, Parses(s, fs), NEW t, NEW gs, Parses(t, gs)
    PROVE  Parses(s \o t, fs \o gs)
<1> DEFINE P == {p \in Seq(Bytes) \X Seq(Texts) : Parses(p[1] \o t, p[2] \o gs)}
<1>0. t \in Seq(Bytes) /\ gs \in Seq(Texts)
  BY DEF Parses
<1>1. <<<<>>, <<>>>> \in P
  <2>1. <<>> \o t = t /\ <<>> \o gs = gs
    BY <1>0, ConcatEmptySeq
  <2>2. QED
    BY <2>1, EmptySeq
<1>2. ASSUME NEW b \in Texts, NEW u \in Seq(Bytes), NEW hs \in Seq(Texts), <<u, hs>> \in P
      PROVE  <<Encoded(b) \o u, <<b>> \o hs>> \in P
  <2>1. Parses(Encoded(b) \o (u \o t), <<b>> \o (hs \o gs))
    BY <1>2, ParsesCons
  <2>2. /\ (Encoded(b) \o u) \o t = Encoded(b) \o (u \o t)
        /\ (<<b>> \o hs) \o gs = <<b>> \o (hs \o gs)
    <3>1. Encoded(b) \in Seq(Bytes) /\ <<b>> \in Seq(Texts)
      BY EncodedType
    <3>2. (Encoded(b) \o u) \o t = Encoded(b) \o (u \o t)
      BY <1>0, <3>1, ConcatAssociative
    <3>3. (<<b>> \o hs) \o gs = <<b>> \o (hs \o gs)
      BY <1>0, <3>1, ConcatAssociative
    <3>4. QED
      BY <3>2, <3>3
  <2>3. Encoded(b) \o u \in Seq(Bytes) /\ <<b>> \o hs \in Seq(Texts)
    BY EncodedType, ConcatProperties
  <2>4. QED
    BY <2>1, <2>2, <2>3
<1> HIDE DEF P
<1>3. P \in SUBSET (Seq(Bytes) \X Seq(Texts))
  BY DEF P
<1>4. <<s, fs>> \in P
  BY <1>1, <1>2, <1>3, ParsesInduction
<1>5. QED
  BY <1>4 DEF P

Begins(s, fs) ==
    \E b \in Texts, t \in Seq(Bytes), gs \in Seq(Texts) :
        Parses(t, gs) /\ s = Encoded(b) \o t /\ fs = <<b>> \o gs

(* A stream that is not empty begins with a frame. *)
LEMMA ParsesInverse ==
    ASSUME NEW s, NEW fs, Parses(s, fs)
    PROVE  (s = <<>> /\ fs = <<>>) \/ Begins(s, fs)
<1> DEFINE P == {p \in Seq(Bytes) \X Seq(Texts) :
                    (p[1] = <<>> /\ p[2] = <<>>) \/ Begins(p[1], p[2])}
<1>1. <<<<>>, <<>>>> \in P
  BY EmptySeq
<1>2. ASSUME NEW b \in Texts, NEW t \in Seq(Bytes), NEW gs \in Seq(Texts), Parses(t, gs)
      PROVE  <<Encoded(b) \o t, <<b>> \o gs>> \in P
  <2>1. Encoded(b) \o t \in Seq(Bytes) /\ <<b>> \o gs \in Seq(Texts)
    BY EncodedType, ConcatProperties
  <2>2. Begins(Encoded(b) \o t, <<b>> \o gs)
    BY <1>2 DEF Begins
  <2>3. QED
    BY <2>1, <2>2
<1> HIDE DEF P
<1>3. P \in SUBSET (Seq(Bytes) \X Seq(Texts))
  BY DEF P
<1>4. <<s, fs>> \in P
  BY <1>1, <1>2, <1>3, ParsesInduction
<1>5. QED
  BY <1>4 DEF P

(* A frame and what follows it, found again in the stream of both. *)
HasParts(s, b, t) ==
    /\ s \in Seq(Bytes) /\ Len(s) \in Nat /\ s # <<>>
    /\ s[1] = Len(b) /\ Len(b) \in Bytes /\ Len(b) + 1 <= Len(s)
    /\ SubSeq(s, 2, Len(b) + 1) = b
    /\ SubSeq(s, Len(b) + 2, Len(s)) = t

LEMMA EncodedParts ==
    ASSUME NEW b \in Texts, NEW t \in Seq(Bytes)
    PROVE  HasParts(Encoded(b) \o t, b, t)
<1> DEFINE n == Len(b)
           s == Encoded(b) \o t
<1>2. /\ Encoded(b) \in Seq(Bytes) /\ Len(Encoded(b)) = n + 1 /\ Encoded(b)[1] = n
      /\ b \in Seq(Bytes) /\ n \in Nat /\ n \in Bytes
      /\ \A i \in 1 .. n : Encoded(b)[i + 1] = b[i]
  BY EncodedType, LenProperties
<1>3. /\ s \in Seq(Bytes) /\ Len(s) = n + 1 + Len(t) /\ Len(t) \in Nat /\ Len(s) \in Nat
      /\ \A i \in 1 .. n + 1 + Len(t) : s[i] = IF i <= n + 1 THEN Encoded(b)[i] ELSE t[i - (n + 1)]
  <2> DEFINE e == Encoded(b)
  <2>1. e \in Seq(Bytes) /\ Len(e) = n + 1
    BY <1>2
  <2> HIDE DEF e, n
  <2>2. Len(t) \in Nat /\ n \in Nat
    BY <1>2, LenProperties
  <2>3. /\ e \o t \in Seq(Bytes) /\ Len(e \o t) = Len(e) + Len(t)
        /\ \A i \in 1 .. Len(e) + Len(t) : (e \o t)[i] = IF i <= Len(e) THEN e[i] ELSE t[i - Len(e)]
    BY <2>1, ConcatProperties
  <2>4. s = e \o t
    BY DEF e
  <2> HIDE DEF s
  <2>5. QED
    BY <2>1, <2>2, <2>3, <2>4 DEF e
<1> HIDE DEF s
<1>4. s[1] = n /\ \A i \in 1 .. n : s[i + 1] = b[i]
  <2>1. s[1] = n
    BY <1>2, <1>3
  <2>2. ASSUME NEW i \in 1 .. n PROVE s[i + 1] = b[i]
    <3>1. i + 1 \in 1 .. n + 1 + Len(t) /\ i + 1 <= n + 1
      BY <1>2, <1>3
    <3>2. s[i + 1] = Encoded(b)[i + 1]
      BY <1>3, <3>1
    <3>3. QED
      BY <1>2, <3>2
  <2>3. QED
    BY <2>1, <2>2
<1>5. \A i \in 1 .. Len(t) : s[i + n + 1] = t[i]
  <2> TAKE i \in 1 .. Len(t)
  <2>1. i + n + 1 \in 1 .. n + 1 + Len(t) /\ ~ (i + n + 1 <= n + 1) /\ i + n + 1 - (n + 1) = i
    BY <1>2, <1>3
  <2>2. QED
    BY <1>3, <2>1
<1> HIDE DEF n
<1>6. SubSeq(s, 2, n + 1) = b
  <2>1. \A i \in 2 .. n + 1 : s[i] \in Bytes
    <3> TAKE i \in 2 .. n + 1
    <3>1. i \in 1 .. Len(s)
      BY <1>2, <1>3
    <3>2. QED
      BY <1>3, <3>1, ElementOfSeq
  <2>2. /\ SubSeq(s, 2, n + 1) \in Seq(Bytes)
        /\ Len(SubSeq(s, 2, n + 1)) = IF 2 <= n + 1 THEN n + 1 - 2 + 1 ELSE 0
        /\ \A i \in 1 .. n + 1 - 2 + 1 : SubSeq(s, 2, n + 1)[i] = s[2 + i - 1]
    BY <1>2, <2>1, SubSeqProperties
  <2>3. Len(SubSeq(s, 2, n + 1)) = n
    BY <1>2, <2>2
  <2>4. ASSUME NEW i \in 1 .. n PROVE SubSeq(s, 2, n + 1)[i] = b[i]
    <3>1. SubSeq(s, 2, n + 1)[i] = s[2 + i - 1] /\ 2 + i - 1 = i + 1
      BY <1>2, <2>2
    <3>2. QED
      BY <1>4, <3>1
  <2>5. QED
    BY <1>2, <2>2, <2>3, <2>4, SeqEqual DEF n
<1>7. SubSeq(s, n + 2, Len(s)) = t
  <2> DEFINE r == SubSeq(s, n + 2, Len(s))
  <2>1. \A i \in n + 2 .. Len(s) : s[i] \in Bytes
    <3> TAKE i \in n + 2 .. Len(s)
    <3>1. i \in 1 .. Len(s)
      BY <1>2, <1>3
    <3>2. QED
      BY <1>3, <3>1, ElementOfSeq
  <2>2. /\ r \in Seq(Bytes)
        /\ Len(r) = IF n + 2 <= Len(s) THEN Len(s) - (n + 2) + 1 ELSE 0
        /\ \A i \in 1 .. Len(s) - (n + 2) + 1 : r[i] = s[n + 2 + i - 1]
    BY <1>2, <1>3, <2>1, SubSeqProperties
  <2>3. Len(r) = Len(t) /\ Len(s) - (n + 2) + 1 = Len(t)
    BY <1>2, <1>3, <2>2
  <2>4. ASSUME NEW i \in 1 .. Len(t) PROVE r[i] = t[i]
    <3>1. r[i] = s[n + 2 + i - 1] /\ n + 2 + i - 1 = i + n + 1
      BY <1>2, <2>2, <2>3
    <3>2. QED
      BY <1>5, <3>1
  <2>5. QED
    BY <2>2, <2>3, <2>4, SeqEqual
<1>8. n + 1 <= Len(s) /\ s # <<>>
  BY <1>2, <1>3
<1> HIDE DEF s
<1>9. HasParts(s, b, t)
  BY <1>2, <1>3, <1>4, <1>6, <1>7, <1>8 DEF HasParts, n
<1>10. QED
  BY <1>9 DEF s

(* The first frame of a stream, and the stream after it. *)
LEMMA ParsesFirst ==
    ASSUME NEW s, NEW fs, Parses(s, fs), s # <<>>
    PROVE  /\ s \in Seq(Bytes) /\ Len(s) \in Nat /\ s[1] \in Bytes /\ s[1] + 1 <= Len(s)
           /\ fs \in Seq(Texts) /\ fs # <<>>
           /\ Head(fs) \in Texts /\ Len(Head(fs)) = s[1] /\ Head(fs) = SubSeq(s, 2, s[1] + 1)
           /\ Parses(SubSeq(s, s[1] + 2, Len(s)), Tail(fs))
<1>1. PICK b \in Texts, t \in Seq(Bytes), gs \in Seq(Texts) :
         Parses(t, gs) /\ s = Encoded(b) \o t /\ fs = <<b>> \o gs
  <2>1. Begins(s, fs)
    BY ParsesInverse
  <2>2. QED
    BY <2>1, Zenon DEF Begins
<1>2. /\ s \in Seq(Bytes) /\ Len(s) \in Nat /\ s[1] = Len(b) /\ s[1] \in Bytes
      /\ s[1] + 1 <= Len(s) /\ SubSeq(s, 2, s[1] + 1) = b /\ SubSeq(s, s[1] + 2, Len(s)) = t
  <2>1. HasParts(s, b, t)
    BY <1>1, EncodedParts
  <2>2. QED
    BY <2>1, Zenon DEF HasParts
<1>3. /\ fs \in Seq(Texts) /\ fs # <<>> /\ Head(fs) = b /\ Tail(fs) = gs
  <2>1. <<b>> \in Seq(Texts) /\ Len(<<b>>) = 1
    OBVIOUS
  <2>2. /\ fs \in Seq(Texts) /\ Len(fs) = 1 + Len(gs) /\ Len(gs) \in Nat
        /\ \A i \in 1 .. 1 + Len(gs) : fs[i] = IF i <= 1 THEN <<b>>[i] ELSE gs[i - 1]
    BY <1>1, <2>1, ConcatProperties, LenProperties
  <2>3. fs # <<>> /\ Head(fs) = b
    BY <2>2
  <2>4. Tail(fs) = gs
    <3>1. /\ Tail(fs) \in Seq(Texts) /\ Len(Tail(fs)) = Len(gs)
          /\ \A i \in 1 .. Len(gs) : Tail(fs)[i] = fs[i + 1]
      BY <2>2, <2>3, HeadTailProperties
    <3>2. \A i \in 1 .. Len(gs) : fs[i + 1] = gs[i]
      BY <2>2
    <3>3. QED
      BY <3>1, <3>2, SeqEqual
  <2>5. QED
    BY <2>2, <2>3, <2>4
<1>4. QED
  BY <1>1, <1>2, <1>3

LEMMA ParsesRest ==
    ASSUME NEW b \in Texts, NEW t \in Seq(Bytes), NEW fs, Parses(Encoded(b) \o t, fs)
    PROVE  fs # <<>> /\ Head(fs) = b /\ Parses(t, Tail(fs))
<1> DEFINE s == Encoded(b) \o t
<1>1. /\ s # <<>> /\ s[1] = Len(b)
      /\ SubSeq(s, 2, Len(b) + 1) = b /\ SubSeq(s, Len(b) + 2, Len(s)) = t
  BY EncodedParts, Zenon DEF HasParts
<1> HIDE DEF s
<1>2. Parses(s, fs)
  BY DEF s
<1>3. /\ fs # <<>> /\ Head(fs) = SubSeq(s, 2, s[1] + 1)
      /\ Parses(SubSeq(s, s[1] + 2, Len(s)), Tail(fs))
  BY <1>1, <1>2, ParsesFirst
<1>4. QED
  BY <1>1, <1>3

LEMMA ParsesOne ==
    ASSUME NEW b \in Texts
    PROVE  Parses(Encoded(b), <<b>>)
<1>1. Parses(Encoded(b) \o <<>>, <<b>> \o <<>>)
  BY ParsesEmpty, ParsesCons
<1>2. Encoded(b) \o <<>> = Encoded(b) /\ <<b>> \o <<>> = <<b>>
  BY EncodedType, ConcatEmptySeq
<1>3. QED
  BY <1>1, <1>2

(* Where the recursion of Frames comes to. *)
FromDef(s, f) ==
    f = [i \in 1 .. Len(s) + 1 |->
            IF i > Len(s) THEN <<>>
            ELSE IF i + s[i] > Len(s) THEN <<>>
            ELSE <<SubSeq(s, i + 1, i + s[i])>> \o f[i + s[i] + 1]]

LEMMA FromExists ==
    ASSUME NEW s \in Seq(Bytes)
    PROVE  \E f : FromDef(s, f)
<1> DEFINE n == Len(s)
           e(i, f) == IF i > n THEN <<>>
                      ELSE IF i + s[i] > n THEN <<>>
                      ELSE <<SubSeq(s, i + 1, i + s[i])>> \o f[i + s[i] + 1]
           D(m) == {i \in 1 .. n + 1 : i > n - m}
           T == {m \in Nat : \E f : f = [i \in D(m) |-> e(i, f)]}
<1>0. n \in Nat
  BY LenProperties
<1>0a. \A i \in 1 .. n : s[i] \in Nat
  BY ElementOfSeq, ByteType
<1> HIDE DEF n
<1>1. 0 \in T
  <2> DEFINE f == [i \in D(0) |-> <<>>]
  <2>1. \A i \in D(0) : e(i, f) = <<>>
    BY <1>0
  <2>2. f = [i \in D(0) |-> e(i, f)]
    BY <2>1, Zenon
  <2>3. QED
    BY <2>2
<1>2. ASSUME NEW m \in Nat, m \in T PROVE m + 1 \in T
  <2>1. PICK f : f = [i \in D(m) |-> e(i, f)]
    BY <1>2
  <2> DEFINE g == [i \in D(m + 1) |-> e(i, f)]
  <2>2. \A i \in D(m) : g[i] = f[i]
    <3> TAKE i \in D(m)
    <3>1. i \in D(m + 1)
      BY <1>0
    <3>2. g[i] = e(i, f)
      BY <3>1
    <3>3. f[i] = e(i, f)
      BY <2>1
    <3>4. QED
      BY <3>2, <3>3
  <2>3. ASSUME NEW i \in D(m + 1), ~ (i > n), ~ (i + s[i] > n)
        PROVE  i + s[i] + 1 \in D(m)
    <3>1. i \in 1 .. n /\ i > n - (m + 1)
      BY <1>0, <2>3
    <3>2. s[i] \in Nat
      BY <1>0a, <3>1
    <3>3. QED
      BY <1>0, <2>3, <3>1, <3>2
  <2> HIDE DEF g, D
  <2>4. \A i \in D(m + 1) : e(i, g) = e(i, f)
    BY <2>2, <2>3
  <2>5. g = [i \in D(m + 1) |-> e(i, g)]
    BY <2>4, Zenon DEF g
  <2> HIDE DEF g
  <2>6. m + 1 \in Nat
    OBVIOUS
  <2>7. QED
    BY <2>5, <2>6, Zenon
<1>3. n \in T
  BY <1>0, <1>1, <1>2, InductiveSet
<1>4. D(n) = 1 .. n + 1
  BY <1>0
<1>5. QED
  BY <1>3, <1>4, Zenon DEF FromDef, n

LEMMA FramesFrom ==
    ASSUME NEW s \in Seq(Bytes)
    PROVE  \E f : FromDef(s, f) /\ Frames(s) = f[1]
<1> DEFINE g == CHOOSE f : FromDef(s, f)
<1>1. FromDef(s, g)
  BY FromExists
<1>2. Frames(s) = g[1]
  BY Zenon DEF Frames, FromDef
<1>3. QED
  BY <1>1, <1>2

(* A stream of frames is read as those frames. *)
LEMMA FramesOfParsed ==
    ASSUME NEW s, NEW fs, Parses(s, fs)
    PROVE  Frames(s) = fs
<1> DEFINE P == {p \in Seq(Bytes) \X Seq(Texts) :
                   \A k \in 0 .. Len(s) :
                      /\ k + Len(p[1]) = Len(s)
                      /\ \A i \in 1 .. Len(p[1]) : s[k + i] = p[1][i]
                      => \A f : FromDef(s, f) => f[k + 1] = p[2]}
<1>0. s \in Seq(Bytes) /\ fs \in Seq(Texts) /\ Len(s) \in Nat
  BY LenProperties DEF Parses
<1>1. <<<<>>, <<>>>> \in P
  <2>1. ASSUME NEW k \in 0 .. Len(s), k + 0 = Len(s), NEW f, FromDef(s, f)
        PROVE  f[k + 1] = <<>>
    <3>1. k + 1 \in 1 .. Len(s) + 1 /\ k + 1 > Len(s)
      BY <1>0, <2>1
    <3>2. QED
      BY <2>1, <3>1 DEF FromDef
  <2>2. QED
    BY <2>1, EmptySeq
<1>2. ASSUME NEW b \in Texts, NEW t \in Seq(Bytes), NEW gs \in Seq(Texts),
             Parses(t, gs), <<t, gs>> \in P
      PROVE  <<Encoded(b) \o t, <<b>> \o gs>> \in P
  <2> DEFINE u == Encoded(b) \o t
             n == Len(b)
  <2>1. Parses(u, <<b>> \o gs)
    BY <1>2, ParsesCons
  <2>2. /\ Encoded(b) \in Seq(Bytes) /\ Len(Encoded(b)) = n + 1 /\ Encoded(b)[1] = n
        /\ n \in Nat /\ b \in Seq(Bytes)
        /\ \A i \in 1 .. n : Encoded(b)[i + 1] = b[i]
    BY EncodedType, LenProperties
  <2>3. /\ u \in Seq(Bytes) /\ Len(u) = n + 1 + Len(t) /\ Len(t) \in Nat
        /\ \A i \in 1 .. n + 1 + Len(t) :
              u[i] = IF i <= n + 1 THEN Encoded(b)[i] ELSE t[i - (n + 1)]
    <3> DEFINE e == Encoded(b)
    <3>1. e \in Seq(Bytes) /\ Len(e) = n + 1
      BY <2>2
    <3> HIDE DEF e, n
    <3>2. Len(t) \in Nat /\ n \in Nat
      BY <2>2, LenProperties
    <3>3. /\ e \o t \in Seq(Bytes) /\ Len(e \o t) = Len(e) + Len(t)
          /\ \A i \in 1 .. Len(e) + Len(t) : (e \o t)[i] = IF i <= Len(e) THEN e[i] ELSE t[i - Len(e)]
      BY <3>1, ConcatProperties
    <3>4. u = e \o t
      BY DEF e
    <3> HIDE DEF u
    <3>5. QED
      BY <3>1, <3>2, <3>3, <3>4 DEF e
  <2> HIDE DEF u, n
  <2>4. ASSUME NEW k \in 0 .. Len(s), k + Len(u) = Len(s),
               \A i \in 1 .. Len(u) : s[k + i] = u[i],
               NEW f, FromDef(s, f)
        PROVE  f[k + 1] = <<b>> \o gs
    <3>1. /\ k \in Nat /\ k + 1 \in 1 .. Len(s) + 1 /\ ~ (k + 1 > Len(s))
          /\ ~ (k + 1 + n > Len(s)) /\ Len(s) = k + n + 1 + Len(t)
      BY <1>0, <2>2, <2>3, <2>4
    <3>2. s[k + 1] = n
      <4>1. 1 \in 1 .. Len(u) /\ u[1] = n
        BY <2>2, <2>3
      <4>2. QED
        BY <2>4, <4>1
    <3>3. f[k + 1] = <<SubSeq(s, k + 1 + 1, k + 1 + n)>> \o f[k + 1 + n + 1]
      BY <2>4, <3>1, <3>2 DEF FromDef
    <3>4. SubSeq(s, k + 1 + 1, k + 1 + n) = b
      <4> DEFINE r == SubSeq(s, k + 1 + 1, k + 1 + n)
      <4>1. \A i \in k + 1 + 1 .. k + 1 + n : s[i] \in Bytes
        <5> TAKE i \in k + 1 + 1 .. k + 1 + n
        <5>1. i \in 1 .. Len(s)
          BY <1>0, <2>2, <2>3, <3>1
        <5>2. QED
          BY <1>0, <5>1, ElementOfSeq
      <4>2. /\ r \in Seq(Bytes)
            /\ Len(r) = IF k + 1 + 1 <= k + 1 + n THEN k + 1 + n - (k + 1 + 1) + 1 ELSE 0
            /\ \A i \in 1 .. k + 1 + n - (k + 1 + 1) + 1 : r[i] = s[k + 1 + 1 + i - 1]
        BY <2>2, <3>1, <4>1, SubSeqProperties
      <4>3. Len(r) = n /\ k + 1 + n - (k + 1 + 1) + 1 = n
        BY <2>2, <3>1, <4>2
      <4>4. ASSUME NEW i \in 1 .. n PROVE r[i] = b[i]
        <5>1. r[i] = s[k + (i + 1)]
          <6>1. r[i] = s[k + 1 + 1 + i - 1] /\ k + 1 + 1 + i - 1 = k + (i + 1)
            BY <2>2, <3>1, <4>2, <4>3
          <6>2. QED
            BY <6>1
        <5>2. i + 1 \in 1 .. Len(u) /\ u[i + 1] = b[i]
          <6>1. i + 1 \in 1 .. n + 1 + Len(t) /\ i + 1 <= n + 1
            BY <2>2, <2>3
          <6>2. u[i + 1] = Encoded(b)[i + 1]
            BY <2>3, <6>1
          <6>3. i + 1 \in 1 .. Len(u)
            BY <2>3, <6>1, Zenon
          <6>4. QED
            BY <2>2, <6>2, <6>3
        <5>3. QED
          BY <2>4, <5>1, <5>2
      <4> HIDE DEF r
      <4>5. r = b
        BY <2>2, <4>2, <4>3, <4>4, SeqEqual DEF n
      <4>6. QED
        BY <4>5 DEF r
    <3>5. f[k + 1 + n + 1] = gs
      <4> DEFINE j == k + 1 + n
      <4>1. j \in 0 .. Len(s) /\ j + Len(t) = Len(s)
        BY <1>0, <2>2, <2>3, <3>1
      <4>2. ASSUME NEW i \in 1 .. Len(t) PROVE s[j + i] = t[i]
        <5>1. n + 1 + i \in 1 .. Len(u) /\ ~ (n + 1 + i <= n + 1) /\ n + 1 + i - (n + 1) = i
          BY <2>2, <2>3
        <5>2. u[n + 1 + i] = t[i]
          <6>1. n + 1 + i \in 1 .. n + 1 + Len(t)
            BY <2>3, <5>1, Zenon
          <6>2. n \in Nat /\ Len(t) \in Nat
            BY <2>2, <2>3
          <6>3. u[n + 1 + i] = t[n + 1 + i - (n + 1)]
            BY <2>3, <5>1, <6>1, <6>2
          <6>4. QED
            BY <5>1, <6>3, Zenon
        <5>3. s[k + (n + 1 + i)] = u[n + 1 + i]
          BY <2>4, <5>1
        <5>4. k + (n + 1 + i) = j + i
          BY <2>2, <3>1
        <5>5. QED
          BY <5>2, <5>3, <5>4
      <4> HIDE DEF j
      <4>3. f[j + 1] = gs
        BY <1>2, <2>4, <4>1, <4>2
      <4>4. QED
        BY <4>3 DEF j
    <3>6. QED
      BY <3>3, <3>4, <3>5
  <2>5. u \in Seq(Bytes) /\ <<b>> \o gs \in Seq(Texts)
    BY <2>1 DEF Parses
  <2>6. <<u, <<b>> \o gs>> \in P
    BY <2>4, <2>5
  <2>7. QED
    BY <2>6 DEF u
<1>3. <<s, fs>> \in P
  <2> HIDE DEF P
  <2>1. P \in SUBSET (Seq(Bytes) \X Seq(Texts))
    BY DEF P
  <2>2. QED
    BY <1>1, <1>2, <2>1, ParsesInduction
<1>4. \A f : FromDef(s, f) => f[0 + 1] = fs
  BY <1>0, <1>3
<1>5. QED
  BY <1>0, <1>4, FramesFrom

(* Where the recursion of FlattenSeq comes to. *)
FlattenDef(q, f) ==
    f = [i \in 1 .. Len(q) |-> IF i = 1 THEN q[i] ELSE f[i - 1] \o q[i]]

LEMMA FlattenExists ==
    ASSUME NEW q, Len(q) \in Nat
    PROVE  \E f : FlattenDef(q, f)
<1> DEFINE e(i, f) == IF i = 1 THEN q[i] ELSE f[i - 1] \o q[i]
           T == {m \in Nat : \E f : f = [i \in 1 .. m |-> e(i, f)]}
<1>1. 0 \in T
  <2> DEFINE f == [i \in 1 .. 0 |-> <<>>]
  <2>1. f = [i \in 1 .. 0 |-> e(i, f)]
    OBVIOUS
  <2>2. QED
    BY <2>1
<1>2. ASSUME NEW m \in Nat, m \in T PROVE m + 1 \in T
  <2>1. PICK f : f = [i \in 1 .. m |-> e(i, f)]
    BY <1>2
  <2> DEFINE g == [i \in 1 .. m + 1 |-> e(i, f)]
  <2>2. \A i \in 1 .. m : g[i] = f[i]
    <3> TAKE i \in 1 .. m
    <3>1. i \in 1 .. m + 1
      OBVIOUS
    <3>2. g[i] = e(i, f)
      BY <3>1
    <3>3. f[i] = e(i, f)
      BY <2>1
    <3>4. QED
      BY <3>2, <3>3
  <2>3. \A i \in 1 .. m + 1 : i = 1 \/ i - 1 \in 1 .. m
    OBVIOUS
  <2> HIDE DEF g
  <2>4. \A i \in 1 .. m + 1 : e(i, g) = e(i, f)
    BY <2>2, <2>3
  <2>5. g = [i \in 1 .. m + 1 |-> e(i, g)]
    BY <2>4, Zenon DEF g
  <2>6. m + 1 \in Nat
    OBVIOUS
  <2>7. QED
    BY <2>5, <2>6, Zenon
<1>3. Len(q) \in T
  BY <1>1, <1>2, InductiveSet
<1>4. QED
  BY <1>3, Zenon DEF FlattenDef

LEMMA FlattenFrom ==
    ASSUME NEW q, Len(q) \in Nat, Len(q) # 0
    PROVE  \E f : FlattenDef(q, f) /\ FlattenSeq(q) = f[Len(q)]
<1> DEFINE g == CHOOSE f : FlattenDef(q, f)
<1>1. FlattenDef(q, g)
  BY FlattenExists
<1>2. FlattenSeq(q) = g[Len(q)]
  BY Zenon DEF FlattenSeq, FlattenDef
<1>3. QED
  BY <1>1, <1>2

LEMMA SubSeqOfOne ==
    ASSUME NEW S, NEW s \in Seq(S), NEW i \in 1 .. Len(s)
    PROVE  SubSeq(s, i, i) = <<s[i]>>
<1>1. s[i] \in S /\ i \in Nat
  BY LenProperties, ElementOfSeq
<1>2. \A j \in i .. i : s[j] \in S
  BY <1>1
<1>3. /\ SubSeq(s, i, i) \in Seq(S) /\ Len(SubSeq(s, i, i)) = 1
      /\ SubSeq(s, i, i)[1] = s[i]
  BY <1>1, <1>2, SubSeqProperties
<1>4. <<s[i]>> \in Seq(S) /\ Len(<<s[i]>>) = 1
  BY <1>1
<1>5. \A j \in 1 .. Len(SubSeq(s, i, i)) : SubSeq(s, i, i)[j] = <<s[i]>>[j]
  BY <1>3
<1>6. QED
  BY <1>3, <1>4, <1>5, SeqEqual

(* Frames one after the other are the stream of their texts. *)
LEMMA FlattenParses ==
    ASSUME NEW ts \in Seq(Texts), NEW q, q = [i \in 1 .. Len(ts) |-> Encoded(ts[i])]
    PROVE  Parses(FlattenSeq(q), ts)
<1> DEFINE n == Len(ts)
<1>0. n \in Nat /\ \A i \in 1 .. n : ts[i] \in Texts
  BY LenProperties, ElementOfSeq
<1> HIDE DEF n
<1>1. q \in Seq(Seq(Bytes)) /\ Len(q) = n
  <2>1. \A i \in 1 .. n : Encoded(ts[i]) \in Seq(Bytes)
    BY <1>0, EncodedType
  <2>2. q \in [1 .. n -> Seq(Bytes)]
    BY <2>1 DEF n
  <2>3. QED
    BY <1>0, <2>2
<1>2. CASE n = 0
  <2>1. q = <<>> /\ ts = <<>>
    BY <1>1, <1>2, EmptySeq DEF n
  <2>2. FlattenSeq(q) = <<>>
    BY <1>1, <1>2, <2>1 DEF FlattenSeq
  <2>3. QED
    BY <2>1, <2>2, ParsesEmpty
<1>3. CASE n # 0
  <2>1. PICK f : FlattenDef(q, f) /\ FlattenSeq(q) = f[n]
    BY <1>0, <1>1, <1>3, FlattenFrom
  <2>2. \A i \in 1 .. n : f[i] = IF i = 1 THEN q[i] ELSE f[i - 1] \o q[i]
    BY <1>1, <2>1 DEF FlattenDef
  <2>3. \A i \in 1 .. n : Parses(q[i], <<ts[i]>>)
    <3> TAKE i \in 1 .. n
    <3>1. ts[i] \in Texts /\ q[i] = Encoded(ts[i])
      BY <1>0 DEF n
    <3>2. QED
      BY <3>1, ParsesOne
  <2> DEFINE T == {m \in Nat : m + 1 <= n => Parses(f[m + 1], SubSeq(ts, 1, m + 1))}
  <2>4. 0 \in T
    <3>0. 1 \in 1 .. n
      BY <1>0, <1>3
    <3>1. f[1] = q[1]
      BY <2>2, <3>0, Zenon
    <3>2. SubSeq(ts, 1, 1) = <<ts[1]>>
      BY <3>0, SubSeqOfOne DEF n
    <3>3. Parses(f[0 + 1], SubSeq(ts, 1, 0 + 1))
      <4>1. Parses(f[1], SubSeq(ts, 1, 1))
        BY <2>3, <3>0, <3>1, <3>2, Zenon
      <4>2. QED
        BY <4>1
    <3>4. QED
      BY <3>3
  <2>5. ASSUME NEW m \in Nat, m \in T PROVE m + 1 \in T
    <3> DEFINE k == m + 1
    <3> SUFFICES ASSUME k + 1 <= n PROVE Parses(f[k + 1], SubSeq(ts, 1, k + 1))
      OBVIOUS
    <3>1. n \in Nat /\ k \in Nat /\ k \in 1 .. n /\ k + 1 \in 1 .. n /\ k + 1 # 1 /\ k + 1 - 1 = k
      BY <1>0
    <3>2. Parses(f[k], SubSeq(ts, 1, k))
      BY <2>5, <3>1
    <3> HIDE DEF k, T
    <3>3. f[k + 1] = f[k] \o q[k + 1]
      <4>1. \A i \in 1 .. n : i # 1 => f[i] = f[i - 1] \o q[i]
        BY <2>2
      <4>2. PICK j : j = k + 1
        OBVIOUS
      <4>3. j \in 1 .. n /\ j # 1 /\ j - 1 = k
        BY <3>1, <4>2
      <4>4. f[j] = f[j - 1] \o q[j]
        BY <4>1, <4>3, Zenon
      <4>5. QED
        BY <4>2, <4>3, <4>4, Zenon
    <3>4. SubSeq(ts, 1, k + 1) = SubSeq(ts, 1, k) \o <<ts[k + 1]>>
      <4>1. 1 \in 1 .. Len(ts) /\ k + 1 \in 1 .. Len(ts)
        BY <1>0, <1>3, <3>1 DEF n
      <4>2. PICK j : j = k + 1
        OBVIOUS
      <4>3. j \in 1 .. Len(ts) /\ j - 1 = k
        BY <3>1, <4>1, <4>2
      <4>4. SubSeq(ts, 1, j) = SubSeq(ts, 1, j - 1) \o <<ts[j]>>
        BY <4>1, <4>3, SubSeqRecursiveSecond
      <4>5. QED
        BY <4>2, <4>3, <4>4
    <3>5. QED
      BY <2>3, <3>1, <3>2, <3>3, <3>4, ParsesConcat
  <2>6. n - 1 \in Nat
    BY <1>0, <1>3
  <2> HIDE DEF T
  <2>7. n - 1 \in T
    BY <2>4, <2>5, <2>6, InductiveSet
  <2>8. Parses(f[n], SubSeq(ts, 1, n))
    BY <1>0, <2>6, <2>7 DEF T
  <2>9. SubSeq(ts, 1, n) = ts
    BY SubSeqFull DEF n
  <2>10. QED
    BY <2>1, <2>8, <2>9
<1>4. QED
  BY <1>2, <1>3

-----------------------------------------------------------------------------
(* The invariant.                                                           *)

(* What client d has of the stream to it. *)
Reading(d) == (IF lenRead[d] = None THEN <<>> ELSE <<lenRead[d]>>) \o out[d]

(* The text in the buffer of c, when that waits in a queue. *)
Text(c) == [i \in 1 .. objLen[c] - 1 |-> data[c][i + 2]]
Waiting(d) == [i \in 1 .. Len(queue[d]) |-> Text(queue[d][i])]

(* A buffer that is being filled, and one that waits. *)
Reads(c) ==
    /\ objLen[c] < Base /\ bytesToRead[c] >= 0
    /\ readerPosition[c] - 1 + bytesToRead[c] = objLen[c]
Holds(c) ==
    /\ state[c] = "len" /\ readerPosition[c] = 2
    /\ objLen[c] \in 2 .. BufLen - 1 /\ data[c][2] = objLen[c] - 1

QueuedOnce ==
    \A d, e \in Ids : \A i \in 1 .. Len(queue[d]), j \in 1 .. Len(queue[e]) :
        queue[d][i] = queue[e][j] => d = e /\ i = j

BuffersInv ==
    /\ FramingTypeOK
    /\ \A c \in Ids : state[c] = "data" => Reads(c)
    /\ \A d \in Ids : \A i \in 1 .. Len(queue[d]) : Holds(queue[d][i])
    /\ QueuedOnce
    /\ sendingTo # None => queue[sendingTo] # <<>>

StreamsInv ==
    \A c \in Ids : /\ Parses(Inbound(c), Frames(Inbound(c)))
                   /\ Parses(Reading(c), Frames(Reading(c)))

LEMMA BodyType == \A b \in Bodies : b \in Texts
BY FramingAssumption DEF Texts

LEMMA QueueType ==
    ASSUME FramingTypeOK, NEW d \in Ids
    PROVE  /\ queue[d] \in Seq(Ids) /\ Len(queue[d]) \in Nat
           /\ \A i \in 1 .. Len(queue[d]) : queue[d][i] \in Ids
           /\ Range(queue[d]) = {queue[d][i] : i \in 1 .. Len(queue[d])}
<1>1. queue[d] \in Seq(Ids)
  BY DEF FramingTypeOK
<1>2. QED
  BY <1>1, LenProperties, ElementOfSeq, RangeEquality

LEMMA InitBuffers == Init => BuffersInv
<1> SUFFICES ASSUME Init PROVE BuffersInv
  OBVIOUS
<1>1. FramingTypeOK
  <2>1. data \in [Ids -> [1 .. BufLen -> Bytes]]
    BY ByteType DEF Init
  <2>2. readerPosition \in [Ids -> 1 .. BufLen + 1]
    BY ByteType DEF Init
  <2>3. out \in [Ids -> Seq(Bytes)] /\ wire \in [Ids -> Seq(Bytes)] /\ got \in [Ids -> Seq(Seq(Bytes))]
    BY DEF Init
  <2>4. /\ queue \in [Ids -> Seq(Ids)] /\ sent \in [Ids -> Nat]
        /\ state \in [Ids -> {"absent", "added", "len", "data"}]
    BY DEF Init
  <2>5. /\ bytesToRead \in [Ids -> Int] /\ objLen \in [Ids -> Nat] /\ total \in Nat
        /\ lenRead \in [Ids -> Bytes \cup {None}] /\ sendingTo \in Ids \cup {None}
    BY DEF Init
  <2>6. signedChar \in BOOLEAN /\ halted \in BOOLEAN
    BY DEF Init
  <2>7. QED
    BY <2>1, <2>2, <2>3, <2>4, <2>5, <2>6 DEF FramingTypeOK
<1>2. \A d \in Ids : queue[d] = <<>> /\ Len(queue[d]) = 0
  BY DEF Init
<1>3. QED
  BY <1>1, <1>2 DEF Init, BuffersInv, QueuedOnce

LEMMA AddBuffers ==
    ASSUME BuffersInv, NEW c \in Ids, Add(c)
    PROVE  BuffersInv'
<1>1. /\ state[c] = "absent" /\ state' = [state EXCEPT ![c] = "added"]
      /\ state \in [Ids -> {"absent", "added", "len", "data"}]
  BY DEF Add, BuffersInv, FramingTypeOK
<1>2. FramingTypeOK'
  BY DEF Add, BuffersInv, FramingTypeOK, bufferVars, clientVars
<1>3. \A e \in Ids : state'[e] = "data" => state[e] = "data"
  BY <1>1
<1>4. \A e \in Ids : state[e] = "len" => state'[e] = "len"
  BY <1>1
<1>5. UNCHANGED <<bufferVars, queue, sendingTo>>
  BY DEF Add
<1>6. ASSUME NEW d \in Ids, NEW i \in 1 .. Len(queue[d]) PROVE Holds(queue[d][i])'
  <2>1. queue[d][i] \in Ids /\ Holds(queue[d][i])
    BY QueueType DEF BuffersInv
  <2>2. QED
    BY <1>4, <1>5, <2>1 DEF Holds, bufferVars
<1>7. QED
  BY <1>2, <1>3, <1>5, <1>6 DEF BuffersInv, QueuedOnce, Reads, bufferVars

LEMMA SendBuffers ==
    ASSUME BuffersInv, NEW c \in Ids, NEW body \in Bodies, Send(c, body)
    PROVE  BuffersInv'
<1>1. FramingTypeOK'
  <2>1. body \in Seq(Bytes) /\ Len(body) \in Bytes
    BY BodyType, ByteType, LenProperties DEF Texts
  <2>2. wire[c] \o <<Len(body)>> \in Seq(Bytes)
    BY <2>1, ConcatProperties DEF BuffersInv, FramingTypeOK
  <2>3. wire[c] \o <<Len(body)>> \o body \in Seq(Bytes)
    BY <2>1, <2>2, ConcatProperties
  <2>4. wire \in [Ids -> Seq(Bytes)] /\ wire' = [wire EXCEPT ![c] = wire[c] \o <<Len(body)>> \o body]
    BY DEF Send, BuffersInv, FramingTypeOK
  <2>5. wire' \in [Ids -> Seq(Bytes)]
    BY <2>3, <2>4
  <2>6. sent' \in [Ids -> Nat]
    BY DEF Send, BuffersInv, FramingTypeOK
  <2>7. QED
    BY <2>5, <2>6 DEF Send, BuffersInv, FramingTypeOK, bufferVars
<1>2. QED
  BY <1>1 DEF Send, BuffersInv, bufferVars, Reads, Holds, QueuedOnce

LEMMA ReadLenBuffers ==
    ASSUME BuffersInv, NEW c \in Ids, ReadLen(c)
    PROVE  BuffersInv'
<1>1. wire[c] \in Seq(Bytes) /\ wire[c] # <<>> /\ Head(wire[c]) \in Bytes /\ Tail(wire[c]) \in Seq(Bytes)
  BY HeadTailProperties DEF ReadLen, BuffersInv, FramingTypeOK
<1>2. Head(wire[c]) \in Nat /\ Head(wire[c]) < Base
  BY <1>1, ByteType
<1>3. FramingTypeOK'
  <2>1. 1 \in 1 .. BufLen + 1
    BY ByteType
  <2>2. QED
    BY <1>1, <1>2, <2>1 DEF ReadLen, BuffersInv, FramingTypeOK, clientVars
<1>4. ASSUME NEW e \in Ids, state'[e] = "data" PROVE Reads(e)'
  BY <1>2, <1>4 DEF ReadLen, BuffersInv, FramingTypeOK, Reads
<1>5. \A d \in Ids : \A i \in 1 .. Len(queue[d]) : queue[d][i] \in Ids \ {c}
  BY QueueType DEF ReadLen, BuffersInv
<1>6. \A d \in Ids : \A i \in 1 .. Len(queue[d]) : Holds(queue[d][i])'
  <2>1. \A b \in Ids \ {c} : /\ state'[b] = state[b] /\ readerPosition'[b] = readerPosition[b]
                             /\ objLen'[b] = objLen[b] /\ data'[b] = data[b]
    BY DEF ReadLen, BuffersInv, FramingTypeOK
  <2>2. ASSUME NEW d \in Ids, NEW i \in 1 .. Len(queue[d]) PROVE Holds(queue[d][i])'
    <3>1. queue[d][i] \in Ids \ {c} /\ Holds(queue[d][i]) /\ queue' = queue
      BY <1>5 DEF BuffersInv, ReadLen
    <3>2. QED
      BY <2>1, <3>1 DEF Holds
  <2>3. QED
    BY <2>2
<1>7. queue' = queue /\ sendingTo' = sendingTo
  BY DEF ReadLen
<1>8. QED
  BY <1>3, <1>4, <1>6, <1>7 DEF BuffersInv, QueuedOnce

(* What a read() puts into the buffer. *)
LEMMA FilledType ==
    ASSUME BuffersInv, NEW c \in Ids, NEW n \in 0 .. Len(wire[c])
    PROVE  Filled(c, n) \in [1 .. BufLen -> Bytes]
<1>1. wire[c] \in Seq(Bytes) /\ Len(wire[c]) \in Nat /\ data[c] \in [1 .. BufLen -> Bytes]
  BY LenProperties DEF BuffersInv, FramingTypeOK
<1>2. \A k \in 1 .. n : wire[c][k] \in Bytes
  <2> TAKE k \in 1 .. n
  <2>1. k \in 1 .. Len(wire[c])
    BY <1>1
  <2>2. QED
    BY <1>1, <2>1, ElementOfSeq
<1>3. QED
  BY <1>1, <1>2, Zenon DEF Filled

LEMMA WireLeft ==
    ASSUME BuffersInv, NEW c \in Ids, NEW n \in 0 .. Len(wire[c])
    PROVE  SubSeq(wire[c], n + 1, Len(wire[c])) \in Seq(Bytes)
<1>1. wire[c] \in Seq(Bytes) /\ Len(wire[c]) \in Nat
  BY LenProperties DEF BuffersInv, FramingTypeOK
<1>2. \A i \in n + 1 .. Len(wire[c]) : wire[c][i] \in Bytes
  <2> TAKE i \in n + 1 .. Len(wire[c])
  <2>1. i \in 1 .. Len(wire[c])
    BY <1>1
  <2>2. QED
    BY <1>1, <2>1, ElementOfSeq
<1>3. QED
  BY <1>1, <1>2, SubSeqProperties

(* A buffer that is being filled waits in no queue. *)
LEMMA FilledNotQueued ==
    ASSUME BuffersInv, NEW c \in Ids, state[c] # "len"
    PROVE  \A d \in Ids : \A i \in 1 .. Len(queue[d]) : queue[d][i] \in Ids \ {c}
BY QueueType DEF BuffersInv, Holds

LEMMA ReadPartBuffers ==
    ASSUME BuffersInv, NEW c \in Ids, ReadPart(c)
    PROVE  BuffersInv'
<1>1. PICK n \in 1 .. Len(wire[c]) :
         /\ n < bytesToRead[c]
         /\ data' = [data EXCEPT ![c] = Filled(c, n)]
         /\ readerPosition' = [readerPosition EXCEPT ![c] = Moved(c, n)]
         /\ bytesToRead' = [bytesToRead EXCEPT ![c] = Rest(c, n)]
         /\ wire' = [wire EXCEPT ![c] = SubSeq(@, n + 1, Len(@))]
  BY DEF ReadPart
<1>2. state[c] = "data" /\ Len(wire[c]) \in Nat /\ Reads(c)
  BY LenProperties DEF ReadPart, BuffersInv, FramingTypeOK
<1>3. /\ bytesToRead[c] \in Int /\ objLen[c] \in Nat /\ readerPosition[c] \in Nat
      /\ readerPosition[c] >= 1 /\ n \in Nat
  BY <1>2, ByteType DEF BuffersInv, FramingTypeOK
<1>4. n \in 0 .. Len(wire[c])
  BY <1>2
<1>5. Moved(c, n) \in 1 .. BufLen + 1 /\ Rest(c, n) \in Int
  BY <1>1, <1>2, <1>3, ByteType DEF Moved, Rest, Reads, BufLen
<1>6. FramingTypeOK'
  <2>1. /\ wire' \in [Ids -> Seq(Bytes)]
        /\ data' \in [Ids -> [1 .. BufLen -> Bytes]]
        /\ readerPosition' \in [Ids -> 1 .. BufLen + 1]
        /\ bytesToRead' \in [Ids -> Int]
    BY <1>1, <1>4, <1>5, FilledType, WireLeft DEF BuffersInv, FramingTypeOK
  <2>2. QED
    BY <2>1 DEF ReadPart, BuffersInv, FramingTypeOK, clientVars
<1>7. Reads(c)'
  <2>1. /\ objLen'[c] = objLen[c] /\ bytesToRead'[c] = Rest(c, n)
        /\ readerPosition'[c] = Moved(c, n)
    BY <1>1 DEF ReadPart, BuffersInv, FramingTypeOK
  <2>2. QED
    BY <1>1, <1>2, <1>3, <2>1 DEF Moved, Rest, Reads
<1>8. ASSUME NEW e \in Ids, state'[e] = "data" PROVE Reads(e)'
  <2>1. CASE e = c
    BY <1>7, <2>1
  <2>2. CASE e # c
    BY <1>1, <1>8, <2>2 DEF ReadPart, BuffersInv, FramingTypeOK, Reads
  <2>3. QED
    BY <2>1, <2>2
<1>9. \A d \in Ids : \A i \in 1 .. Len(queue[d]) : Holds(queue[d][i])'
  <2>1. ASSUME NEW e \in Ids \ {c}, Holds(e) PROVE Holds(e)'
    BY <1>1, <2>1 DEF ReadPart, BuffersInv, FramingTypeOK, Holds
  <2>2. queue' = queue
    BY DEF ReadPart
  <2>3. ASSUME NEW d \in Ids, NEW i \in 1 .. Len(queue[d]) PROVE Holds(queue[d][i])'
    <3>1. PICK e : e = queue[d][i]
      OBVIOUS
    <3>2. e \in Ids \ {c} /\ Holds(e)
      BY <1>2, <3>1, FilledNotQueued DEF BuffersInv
    <3>3. Holds(e)'
      BY <2>1, <3>2
    <3>4. queue'[d][i] = e
      BY <2>2, <3>1
    <3>5. QED
      BY <3>3, <3>4 DEF Holds
  <2>4. QED
    BY <2>2, <2>3
<1>10. queue' = queue /\ sendingTo' = sendingTo
  BY DEF ReadPart
<1>11. QED
  BY <1>6, <1>8, <1>9, <1>10 DEF BuffersInv, QueuedOnce

(* A buffer that is complete. *)
LEMMA ProcessBuffers ==
    ASSUME BuffersInv, NEW c \in Ids, state[c] # "len",
           NEW filled \in [1 .. BufLen -> Bytes], NEW len \in Nat, len < Base,
           Process(c, filled, len), wire' \in [Ids -> Seq(Bytes)],
           UNCHANGED <<signedChar, clientVars, out>>
    PROVE  BuffersInv'
<1> DEFINE size == len - 1
           to == Char(filled[2])
           relays == Relays(filled, len)
           found == Found(filled, len)
<1>1. /\ data' = [data EXCEPT ![c] =
                      IF relays THEN [filled EXCEPT ![2] = TextLength(size)] ELSE filled]
      /\ readerPosition' = [readerPosition EXCEPT ![c] = IF len > 0 THEN 2 ELSE @]
      /\ objLen' = [objLen EXCEPT ![c] = IF len > 0 THEN size ELSE len]
      /\ bytesToRead' = [bytesToRead EXCEPT ![c] = IF found THEN size ELSE @]
      /\ queue' = IF found THEN [queue EXCEPT ![to] = Append(@, c)] ELSE queue
      /\ sendingTo' = IF found THEN to ELSE None
      /\ total' = 0 /\ halted' \in BOOLEAN
      /\ state' = [state EXCEPT ![c] = "len"]
  BY DEF Process
<1>2. BufLen \in Nat /\ BufLen = Base - 1 /\ len <= BufLen
  BY ByteType DEF BufLen
<1>3. (found => relays /\ to \in Ids) /\ (relays => len > 2)
  BY DEF Found, Relays, Registered
<1>4. size \in Int /\ (relays => size \in 2 .. BufLen - 1 /\ TextLength(size) \in Bytes
                                   /\ TextLength(size) = size - 1)
  <2>1. TextLength(size) = size - 1
    BY DEF TextLength
  <2>2. len > 2 => size \in 2 .. BufLen - 1 /\ size - 1 \in 0 .. Base - 1
    BY <1>2, ByteType
  <2>3. QED
    BY <1>3, <2>1, <2>2 DEF Bytes
<1> HIDE DEF to, found
<1>5. (IF relays THEN [filled EXCEPT ![2] = TextLength(size)] ELSE filled) \in [1 .. BufLen -> Bytes]
  BY <1>4
<1> HIDE DEF relays
<1>6. queue' \in [Ids -> Seq(Ids)]
  <2>1. CASE found
    <3>1. Append(queue[to], c) \in Seq(Ids)
      BY <1>3, <2>1, AppendProperties DEF BuffersInv, FramingTypeOK
    <3>2. QED
      BY <1>1, <2>1, <3>1 DEF BuffersInv, FramingTypeOK
  <2>2. CASE ~ found
    BY <1>1, <2>2 DEF BuffersInv, FramingTypeOK
  <2>3. QED
    BY <2>1, <2>2
<1>7. FramingTypeOK'
  <2>1. halted' \in BOOLEAN
    BY <1>1
  <2>2. data' \in [Ids -> [1 .. BufLen -> Bytes]]
    BY <1>1, <1>5 DEF BuffersInv, FramingTypeOK
  <2>3. readerPosition' \in [Ids -> 1 .. BufLen + 1]
    <3>1. 2 \in 1 .. BufLen + 1 /\ readerPosition \in [Ids -> 1 .. BufLen + 1]
      BY ByteType DEF BuffersInv, FramingTypeOK
    <3>2. QED
      BY <1>1, <3>1
  <2>4. objLen' \in [Ids -> Nat]
    <3>1. (IF len > 0 THEN size ELSE len) \in Nat
      OBVIOUS
    <3>2. QED
      BY <1>1, <3>1 DEF BuffersInv, FramingTypeOK
  <2>5. bytesToRead' \in [Ids -> Int]
    BY <1>1, <1>4 DEF BuffersInv, FramingTypeOK
  <2>6. /\ sendingTo' \in Ids \cup {None} /\ total' \in Nat
        /\ state' \in [Ids -> {"absent", "added", "len", "data"}]
    BY <1>1, <1>3 DEF BuffersInv, FramingTypeOK
  <2>7. QED
    BY <1>1, <1>6, <2>1, <2>2, <2>3, <2>4, <2>5, <2>6 DEF BuffersInv, FramingTypeOK, clientVars
<1>8. ASSUME NEW e \in Ids, state'[e] = "data" PROVE Reads(e)'
  <2>1. e # c /\ state[e] = "data"
    BY <1>1, <1>8 DEF BuffersInv, FramingTypeOK
  <2>2. objLen'[e] = objLen[e] /\ bytesToRead'[e] = bytesToRead[e] /\ readerPosition'[e] = readerPosition[e]
    BY <1>1, <2>1 DEF BuffersInv, FramingTypeOK
  <2>3. QED
    BY <2>1, <2>2 DEF BuffersInv, Reads
<1>9. ASSUME NEW e \in Ids \ {c}, Holds(e) PROVE Holds(e)'
  <2>1. /\ objLen'[e] = objLen[e] /\ readerPosition'[e] = readerPosition[e]
        /\ data'[e] = data[e] /\ state'[e] = state[e]
    BY <1>1 DEF BuffersInv, FramingTypeOK
  <2>2. QED
    BY <1>9, <2>1 DEF Holds
<1>10. ASSUME found PROVE Holds(c)'
  <2>0. relays
    BY <1>3, <1>10
  <2>1. state'[c] = "len" /\ readerPosition'[c] = 2 /\ objLen'[c] = size
    <3>1. len > 0
      BY <1>3, <2>0
    <3>2. QED
      BY <1>1, <3>1 DEF BuffersInv, FramingTypeOK
  <2>2. data'[c] = [filled EXCEPT ![2] = TextLength(size)]
    BY <1>1, <2>0 DEF BuffersInv, FramingTypeOK
  <2>3. 2 \in 1 .. BufLen
    BY <1>2, <1>4, <2>0
  <2>4. data'[c][2] = TextLength(size)
    BY <2>2, <2>3
  <2>5. QED
    BY <1>4, <2>0, <2>1, <2>4 DEF Holds
<1>11. \A d \in Ids : \A i \in 1 .. Len(queue[d]) : queue[d][i] \in Ids \ {c} /\ Holds(queue[d][i])
  BY FilledNotQueued DEF BuffersInv
(* Where each buffer of a queue was before. *)
<1>12. ASSUME NEW d \in Ids, NEW i \in 1 .. Len(queue'[d])
       PROVE  \/ i \in 1 .. Len(queue[d]) /\ queue'[d][i] = queue[d][i]
              \/ found /\ d = to /\ i = Len(queue[d]) + 1 /\ queue'[d][i] = c
  <2>0. queue[d] \in Seq(Ids) /\ Len(queue[d]) \in Nat
    BY QueueType DEF BuffersInv
  <2>1. CASE found /\ d = to
    <3>1. queue'[d] = Append(queue[d], c)
      BY <1>1, <1>3, <2>1 DEF BuffersInv, FramingTypeOK
    <3>2. QED
      BY <2>0, <2>1, <3>1, AppendProperties
  <2>2. CASE ~ (found /\ d = to)
    <3>1. queue'[d] = queue[d]
      BY <1>1, <2>2 DEF BuffersInv, FramingTypeOK
    <3>2. QED
      BY <3>1
  <2>3. QED
    BY <2>1, <2>2
<1>13. ASSUME NEW d \in Ids, NEW i \in 1 .. Len(queue'[d]) PROVE Holds(queue[d][i])'
  <2>1. PICK e : e = queue'[d][i]
    OBVIOUS
  <2>2. CASE i \in 1 .. Len(queue[d]) /\ queue'[d][i] = queue[d][i]
    <3>1. e \in Ids \ {c} /\ Holds(e)
      BY <1>11, <2>1, <2>2
    <3>2. Holds(e)'
      BY <1>9, <3>1
    <3>3. QED
      BY <2>1, <3>2 DEF Holds
  <2>3. CASE found /\ queue'[d][i] = c
    BY <1>10, <2>3 DEF Holds
  <2>4. QED
    BY <1>12, <2>2, <2>3
<1>14. QueuedOnce'
  <2>1. SUFFICES ASSUME NEW d \in Ids, NEW e \in Ids,
                        NEW i \in 1 .. Len(queue'[d]), NEW j \in 1 .. Len(queue'[e]),
                        queue'[d][i] = queue'[e][j]
                 PROVE  d = e /\ i = j
    BY DEF QueuedOnce
  <2>2. CASE i \in 1 .. Len(queue[d]) /\ queue'[d][i] = queue[d][i]
    <3>1. queue'[e][j] # c
      BY <1>11, <2>1, <2>2
    <3>2. j \in 1 .. Len(queue[e]) /\ queue'[e][j] = queue[e][j]
      BY <1>12, <3>1
    <3>3. queue[d][i] = queue[e][j]
      BY <2>1, <2>2, <3>2
    <3>4. QueuedOnce
      BY DEF BuffersInv
    <3>5. QED
      BY <2>2, <3>2, <3>3, <3>4 DEF QueuedOnce
  <2>3. CASE found /\ d = to /\ i = Len(queue[d]) + 1 /\ queue'[d][i] = c
    <3>1. ~ (j \in 1 .. Len(queue[e]) /\ queue'[e][j] = queue[e][j])
      BY <1>11, <2>1, <2>3
    <3>2. e = to /\ j = Len(queue[e]) + 1
      BY <1>12, <3>1
    <3>3. QED
      BY <2>3, <3>2
  <2>4. QED
    BY <1>12, <2>2, <2>3
<1>15. ASSUME sendingTo' # None PROVE queue'[sendingTo'] # <<>>
  <2>1. found /\ sendingTo' = to
    BY <1>1, <1>15
  <2>2. queue[to] \in Seq(Ids) /\ queue'[to] = Append(queue[to], c)
    BY <1>1, <1>3, <2>1 DEF BuffersInv, FramingTypeOK
  <2>3. QED
    BY <2>1, <2>2, AppendProperties
<1>16. QED
  BY <1>7, <1>8, <1>13, <1>14, <1>15 DEF BuffersInv

LEMMA ReadRestBuffers ==
    ASSUME BuffersInv, NEW c \in Ids, ReadRest(c)
    PROVE  BuffersInv'
<1> DEFINE n == bytesToRead[c]
<1>1. /\ state[c] = "data" /\ n <= Len(wire[c]) /\ Process(c, Filled(c, n), objLen[c])
      /\ wire' = [wire EXCEPT ![c] = SubSeq(@, n + 1, Len(@))]
      /\ UNCHANGED <<signedChar, clientVars, out>>
  BY DEF ReadRest
<1>2. /\ n \in Int /\ n >= 0 /\ objLen[c] \in Nat /\ objLen[c] < Base /\ Len(wire[c]) \in Nat
      /\ n \in 0 .. Len(wire[c])
  BY <1>1, LenProperties DEF BuffersInv, FramingTypeOK, Reads
<1>3. Filled(c, n) \in [1 .. BufLen -> Bytes]
  BY <1>2, FilledType
<1>4. wire' \in [Ids -> Seq(Bytes)]
  BY <1>1, <1>2, WireLeft DEF BuffersInv, FramingTypeOK
<1> HIDE DEF n
<1>5. QED
  BY <1>1, <1>2, <1>3, <1>4, ProcessBuffers

(* The buffer of a welcome. *)
LEMMA WelcomeType ==
    ASSUME BuffersInv, NEW c \in Ids
    PROVE  LET w == [data[c] EXCEPT ![1] = R, ![2] = c, ![3] = c]
           IN  /\ w \in [1 .. BufLen -> Bytes] /\ w[1] = R /\ w[2] = c /\ w[3] = c
               /\ 3 \in Nat /\ 3 <= BufLen /\ 3 < Base
<1>1. data[c] \in [1 .. BufLen -> Bytes] /\ R \in Bytes /\ c \in Bytes
  BY FramingAssumption DEF BuffersInv, FramingTypeOK
<1>2. 3 <= BufLen /\ 3 < Base /\ 1 \in 1 .. BufLen /\ 2 \in 1 .. BufLen /\ 3 \in 1 .. BufLen
  BY FramingAssumption DEF BufLen
<1> DEFINE D == 1 .. BufLen
           u == [data[c] EXCEPT ![1] = R]
           v == [u EXCEPT ![2] = c]
           w == [v EXCEPT ![3] = c]
<1>3. data[c] \in [D -> Bytes] /\ 1 \in D /\ 2 \in D /\ 3 \in D
  BY <1>1, <1>2
<1> HIDE DEF D
<1>4. u \in [D -> Bytes] /\ u[1] = R
  BY <1>1, <1>3
<1>5. v \in [D -> Bytes] /\ v[1] = u[1] /\ v[2] = c
  BY <1>1, <1>3, <1>4
<1>6. w \in [D -> Bytes] /\ w[1] = v[1] /\ w[2] = v[2] /\ w[3] = c
  BY <1>1, <1>3, <1>5
<1>7. QED
  BY <1>2, <1>4, <1>5, <1>6 DEF D

LEMMA WelcomeBuffers ==
    ASSUME BuffersInv, NEW c \in Ids, Welcome(c)
    PROVE  BuffersInv'
<1> DEFINE w == [data[c] EXCEPT ![1] = R, ![2] = c, ![3] = c]
<1>1. /\ state[c] = "added" /\ Process(c, w, 3) /\ wire' = wire
      /\ UNCHANGED <<signedChar, clientVars, out>>
  BY DEF Welcome
<1>2. w \in [1 .. BufLen -> Bytes] /\ 3 \in Nat /\ 3 < Base
  BY WelcomeType
<1>3. wire' \in [Ids -> Seq(Bytes)]
  BY <1>1 DEF BuffersInv, FramingTypeOK
<1> HIDE DEF w
<1>4. QED
  BY <1>1, <1>2, <1>3, ProcessBuffers

(* A buffer that waits is the frame of its text. *)
LEMMA HeldIsFrame ==
    ASSUME FramingTypeOK, NEW c \in Ids, Holds(c)
    PROVE  /\ Text(c) \in Texts /\ Len(Text(c)) = objLen[c] - 1
           /\ Written(c, objLen[c]) = Encoded(Text(c))
<1> DEFINE n == objLen[c] - 1
           w == Written(c, objLen[c])
<1>1. /\ n \in Nat /\ n >= 1 /\ n <= BufLen - 2 /\ objLen[c] \in Nat /\ objLen[c] = n + 1
      /\ readerPosition[c] = 2 /\ data[c][2] = n /\ n < Base
      /\ data[c] \in [1 .. BufLen -> Bytes]
  <2>1. /\ objLen[c] \in 2 .. BufLen - 1 /\ BufLen \in Nat /\ data[c][2] = n
        /\ readerPosition[c] = 2 /\ data[c] \in [1 .. BufLen -> Bytes]
    BY ByteType DEF FramingTypeOK, Holds
  <2>2. Base = BufLen + 1
    BY ByteType DEF BufLen
  <2>3. QED
    BY <2>1, <2>2
<1> HIDE DEF n
<1>2. \A i \in 1 .. n : i + 2 \in 1 .. BufLen /\ data[c][i + 2] \in Bytes
  BY <1>1, ByteType
<1>3. Text(c) \in Seq(Bytes) /\ Len(Text(c)) = n /\ \A i \in 1 .. n : Text(c)[i] = data[c][i + 2]
  <2>1. Text(c) = [i \in 1 .. n |-> data[c][i + 2]]
    BY DEF Text, n
  <2>2. Text(c) \in [1 .. n -> Bytes]
    BY <1>2, <2>1
  <2>3. QED
    BY <1>1, <2>1, <2>2
<1>4. Text(c) \in Texts
  BY <1>1, <1>3 DEF Texts
<1>5. \A i \in 1 .. n + 1 : w[i] = data[c][i + 1] /\ data[c][i + 1] \in Bytes
  <2> TAKE i \in 1 .. n + 1
  <2>1. w[i] = At(c, 2 + i - 1) /\ 2 + i - 1 = i + 1
    BY <1>1 DEF Written
  <2>2. i + 1 \in 1 .. BufLen /\ i + 1 <= BufLen
    <3>1. n \in Nat /\ n <= BufLen - 2 /\ BufLen \in Nat
      BY <1>1, ByteType
    <3>2. QED
      BY <3>1
  <2>3. w[i] = data[c][i + 1]
    BY <2>1, <2>2 DEF At
  <2>4. QED
    BY <1>1, <2>2, <2>3
<1>6. w \in Seq(Bytes) /\ Len(w) = n + 1
  <2>1. w \in [1 .. n + 1 -> Bytes]
    <3>1. w = [i \in 1 .. n + 1 |-> At(c, readerPosition[c] + i - 1)]
      BY <1>1 DEF Written
    <3>2. \A i \in 1 .. n + 1 : w[i] \in Bytes
      BY <1>5
    <3>3. QED
      BY <3>1, <3>2
  <2>2. QED
    BY <1>1, <2>1
<1>7. /\ Encoded(Text(c)) \in Seq(Bytes) /\ Len(Encoded(Text(c))) = n + 1
      /\ Encoded(Text(c))[1] = n
      /\ \A i \in 1 .. n : Encoded(Text(c))[i + 1] = Text(c)[i]
  BY <1>3, <1>4, EncodedType
<1>8. ASSUME NEW i \in 1 .. n + 1 PROVE w[i] = Encoded(Text(c))[i]
  <2>1. CASE i = 1
    BY <1>1, <1>5, <1>7, <2>1
  <2>2. CASE i # 1
    <3>1. PICK j : j = i - 1
      OBVIOUS
    <3>2. j \in 1 .. n /\ i = j + 1 /\ i + 1 = j + 2
      BY <1>1, <2>2, <3>1
    <3>3. Encoded(Text(c))[j + 1] = data[c][j + 2]
      BY <1>3, <1>7, <3>2
    <3>4. QED
      BY <1>5, <3>2, <3>3
  <2>3. QED
    BY <2>1, <2>2
<1> HIDE DEF w
<1>9. w = Encoded(Text(c))
  BY <1>6, <1>7, <1>8, SeqEqual
<1>10. QED
  BY <1>3, <1>4, <1>9 DEF w, n

LEMMA WriteBuffers ==
    ASSUME BuffersInv, Write
    PROVE  BuffersInv'
<1> DEFINE d == sendingTo
           c == Head(queue[d])
           rest == Tail(queue[d])
<1>1. /\ d # None
      /\ out' = [out EXCEPT ![d] = @ \o Written(c, objLen[c])]
      /\ queue' = [queue EXCEPT ![d] = rest]
      /\ bytesToRead' = [bytesToRead EXCEPT ![c] = 0]
      /\ objLen' = [objLen EXCEPT ![c] = 0]
      /\ total' = total + objLen[c]
      /\ (sendingTo' = d /\ rest # <<>>) \/ sendingTo' = None
      /\ UNCHANGED <<signedChar, halted, clientVars, wire, state, data, readerPosition>>
  BY DEF Write
<1>2. d \in Ids /\ queue[d] \in Seq(Ids) /\ queue[d] # <<>>
  BY <1>1 DEF BuffersInv, FramingTypeOK
<1>3. /\ c \in Ids /\ rest \in Seq(Ids) /\ Len(rest) = Len(queue[d]) - 1 /\ c = queue[d][1]
      /\ \A i \in 1 .. Len(rest) : rest[i] = queue[d][i + 1]
      /\ Len(queue[d]) \in Nat /\ Len(queue[d]) >= 1 /\ 1 \in 1 .. Len(queue[d])
  BY <1>2, HeadTailProperties, LenProperties, EmptySeq
<1>4. Holds(c)
  BY <1>2, <1>3 DEF BuffersInv
<1> HIDE DEF d, c, rest
<1>5. Written(c, objLen[c]) \in Seq(Bytes)
  BY <1>3, <1>4, HeldIsFrame, EncodedType DEF BuffersInv
<1>6. FramingTypeOK'
  <2>1. out[d] \o Written(c, objLen[c]) \in Seq(Bytes)
    BY <1>2, <1>5, ConcatProperties DEF BuffersInv, FramingTypeOK
  <2>2. out' \in [Ids -> Seq(Bytes)] /\ queue' \in [Ids -> Seq(Ids)]
    BY <1>1, <1>3, <2>1 DEF BuffersInv, FramingTypeOK
  <2>3. bytesToRead' \in [Ids -> Int] /\ objLen' \in [Ids -> Nat] /\ total' \in Nat
    <3>1. objLen \in [Ids -> Nat] /\ bytesToRead \in [Ids -> Int] /\ total \in Nat
      BY DEF BuffersInv, FramingTypeOK
    <3>2. total' \in Nat
      <4>1. objLen[c] \in Nat /\ total' = total + objLen[c]
        BY <1>1, <1>3, <3>1
      <4>2. QED
        BY <3>1, <4>1
    <3>3. objLen' \in [Ids -> Nat]
      <4>1. objLen' = [objLen EXCEPT ![c] = 0]
        BY <1>1
      <4>2. QED
        BY <3>1, <4>1
    <3>4. bytesToRead' \in [Ids -> Int]
      <4>1. bytesToRead' = [bytesToRead EXCEPT ![c] = 0] /\ 0 \in Int
        BY <1>1
      <4>2. bytesToRead \in [Ids -> Int]
        BY <3>1
      <4>3. QED
        BY <4>1, <4>2, Zenon
    <3>5. QED
      BY <3>2, <3>3, <3>4
  <2>4. sendingTo' \in Ids \cup {None}
    BY <1>1, <1>2
  <2>5. QED
    BY <1>1, <2>2, <2>3, <2>4 DEF BuffersInv, FramingTypeOK, clientVars
<1>7. ASSUME NEW e \in Ids, state'[e] = "data" PROVE Reads(e)'
  <2>1. state[e] = "data" /\ e # c
    BY <1>1, <1>4, <1>7 DEF Holds
  <2>2. objLen'[e] = objLen[e] /\ bytesToRead'[e] = bytesToRead[e] /\ readerPosition'[e] = readerPosition[e]
    BY <1>1, <2>1 DEF BuffersInv, FramingTypeOK
  <2>3. QED
    BY <2>1, <2>2 DEF BuffersInv, Reads
<1>8. ASSUME NEW e \in Ids \ {c}, Holds(e) PROVE Holds(e)'
  <2>1. objLen'[e] = objLen[e]
    BY <1>1 DEF BuffersInv, FramingTypeOK
  <2>2. QED
    BY <1>1, <1>8, <2>1 DEF Holds
<1>9. QueuedOnce
  BY DEF BuffersInv
(* Where each buffer of a queue was before. *)
<1>10. ASSUME NEW e \in Ids, NEW i \in 1 .. Len(queue'[e])
       PROVE  \E j \in 1 .. Len(queue[e]) :
                 /\ queue'[e][i] = queue[e][j] /\ queue[e][j] # c
                 /\ j = IF e = d THEN i + 1 ELSE i
  <2>1. CASE e = d
    <3>1. queue'[e] = rest
      BY <1>1, <2>1 DEF BuffersInv, FramingTypeOK
    <3>2. i \in 1 .. Len(rest) /\ i + 1 \in 1 .. Len(queue[d]) /\ i + 1 # 1
      BY <1>3, <3>1
    <3>3. rest[i] = queue[d][i + 1]
      BY <1>3, <3>2
    <3>4. queue[d][i + 1] # c
      BY <1>2, <1>3, <1>9, <3>2 DEF QueuedOnce
    <3>5. QED
      BY <2>1, <3>1, <3>2, <3>3, <3>4
  <2>2. CASE e # d
    <3>1. queue'[e] = queue[e]
      BY <1>1, <2>2 DEF BuffersInv, FramingTypeOK
    <3>2. queue[e][i] # c
      BY <1>2, <1>3, <1>9, <2>2, <3>1 DEF QueuedOnce
    <3>3. QED
      BY <2>2, <3>1, <3>2
  <2>3. QED
    BY <2>1, <2>2
<1>11. ASSUME NEW e \in Ids, NEW i \in 1 .. Len(queue'[e]) PROVE Holds(queue[e][i])'
  <2>1. PICK j \in 1 .. Len(queue[e]) : queue'[e][i] = queue[e][j] /\ queue[e][j] # c
    BY <1>10
  <2>2. PICK f : f = queue[e][j]
    OBVIOUS
  <2>3. f \in Ids \ {c} /\ Holds(f)
    BY <2>1, <2>2, QueueType DEF BuffersInv
  <2>4. Holds(f)'
    BY <1>8, <2>3
  <2>5. QED
    BY <2>1, <2>2, <2>4 DEF Holds
<1>12. QueuedOnce'
  <2>1. SUFFICES ASSUME NEW e \in Ids, NEW f \in Ids,
                        NEW i \in 1 .. Len(queue'[e]), NEW j \in 1 .. Len(queue'[f]),
                        queue'[e][i] = queue'[f][j]
                 PROVE  e = f /\ i = j
    BY DEF QueuedOnce
  <2>2. PICK k \in 1 .. Len(queue[e]) :
           queue'[e][i] = queue[e][k] /\ k = IF e = d THEN i + 1 ELSE i
    BY <1>10
  <2>3. PICK l \in 1 .. Len(queue[f]) :
           queue'[f][j] = queue[f][l] /\ l = IF f = d THEN j + 1 ELSE j
    BY <1>10
  <2>4. queue[e][k] = queue[f][l]
    BY <2>1, <2>2, <2>3
  <2>5. e = f /\ k = l
    BY <1>9, <2>4 DEF QueuedOnce
  <2>6. i \in Int /\ j \in Int
    OBVIOUS
  <2>7. QED
    BY <2>2, <2>3, <2>5, <2>6
<1>13. sendingTo' # None => queue'[sendingTo'] # <<>>
  BY <1>1, <1>2 DEF BuffersInv, FramingTypeOK
<1>14. QED
  BY <1>6, <1>7, <1>11, <1>12, <1>13 DEF BuffersInv

LEMMA WriteFailsBuffers ==
    ASSUME BuffersInv, WriteFails
    PROVE  BuffersInv'
<1>1. FramingTypeOK'
  BY DEF WriteFails, BuffersInv, FramingTypeOK, bufferVars, clientVars
<1>2. UNCHANGED <<state, bufferVars, queue>> /\ sendingTo' = None
  BY DEF WriteFails
<1>3. \A c \in Ids : state'[c] = "data" => Reads(c)'
  BY <1>2 DEF BuffersInv, Reads, bufferVars
<1>4. \A d \in Ids : \A i \in 1 .. Len(queue'[d]) : Holds(queue[d][i])'
  BY <1>2 DEF BuffersInv, Holds, bufferVars
<1>5. QED
  BY <1>1, <1>2, <1>3, <1>4 DEF BuffersInv, QueuedOnce

LEMMA ReceiveLenBuffers ==
    ASSUME BuffersInv, NEW c \in Ids, ReceiveLen(c)
    PROVE  BuffersInv'
<1>1. Head(out[c]) \in Bytes /\ Tail(out[c]) \in Seq(Bytes)
  BY HeadTailProperties DEF ReceiveLen, BuffersInv, FramingTypeOK
<1>2. FramingTypeOK'
  BY <1>1 DEF ReceiveLen, BuffersInv, FramingTypeOK, bufferVars
<1>3. QED
  BY <1>2 DEF ReceiveLen, BuffersInv, QueuedOnce, Reads, Holds, bufferVars

LEMMA ReceiveDataBuffers ==
    ASSUME BuffersInv, NEW c \in Ids, ReceiveData(c)
    PROVE  BuffersInv'
<1> DEFINE n == IF lenRead[c] < Len(out[c]) THEN lenRead[c] ELSE Len(out[c])
<1>1. out[c] \in Seq(Bytes) /\ Len(out[c]) \in Nat /\ lenRead[c] \in Nat
  BY ByteType, LenProperties DEF ReceiveData, BuffersInv, FramingTypeOK
<1>2. n \in 0 .. Len(out[c])
  BY <1>1
<1>3. /\ got' = [got EXCEPT ![c] = Append(@, SubSeq(out[c], 1, n))]
      /\ out' = [out EXCEPT ![c] = SubSeq(@, n + 1, Len(@))]
      /\ lenRead' = [lenRead EXCEPT ![c] = None]
      /\ UNCHANGED <<signedChar, halted, sent, wire, state, bufferVars, queue, sendingTo, total>>
  BY DEF ReceiveData
<1> HIDE DEF n
<1>4. \A i \in 1 .. Len(out[c]) : out[c][i] \in Bytes
  BY <1>1, ElementOfSeq
<1>5. SubSeq(out[c], 1, n) \in Seq(Bytes) /\ SubSeq(out[c], n + 1, Len(out[c])) \in Seq(Bytes)
  <2>1. /\ \A i \in 1 .. n : out[c][i] \in Bytes
        /\ \A i \in n + 1 .. Len(out[c]) : out[c][i] \in Bytes
    BY <1>1, <1>2, <1>4
  <2>2. QED
    BY <1>1, <1>2, <2>1, SubSeqProperties
<1>6. Append(got[c], SubSeq(out[c], 1, n)) \in Seq(Seq(Bytes))
  BY <1>5, AppendProperties DEF BuffersInv, FramingTypeOK
<1>7. FramingTypeOK'
  BY <1>3, <1>5, <1>6 DEF BuffersInv, FramingTypeOK, bufferVars
<1>8. QED
  BY <1>3, <1>7 DEF BuffersInv, QueuedOnce, Reads, Holds, bufferVars

LEMMA StutterBuffers ==
    ASSUME BuffersInv, UNCHANGED vars
    PROVE  BuffersInv'
BY DEF vars, BuffersInv, FramingTypeOK, QueuedOnce, Reads, Holds, bufferVars, clientVars

-----------------------------------------------------------------------------
(* The streams, and what the steps do to them.                              *)

(* The frames on the way from each client and to it, and the texts that wait. *)
Coming == [c \in Ids |-> Frames(Inbound(c))]
Going == [c \in Ids |-> Frames(Reading(c))]
Queued == [c \in Ids |-> Waiting(c)]

(* What the server has read of the frame of c. *)
Begun(c) ==
    IF state[c] = "data" THEN <<objLen[c]>> \o SubSeq(data[c], 1, readerPosition[c] - 1) ELSE <<>>

LEMMA InboundParts ==
    ASSUME BuffersInv, NEW c \in Ids
    PROVE  /\ Begun(c) \in Seq(Bytes) /\ wire[c] \in Seq(Bytes)
           /\ Inbound(c) = Begun(c) \o wire[c]
<1>1. wire[c] \in Seq(Bytes)
  BY DEF BuffersInv, FramingTypeOK
<1>2. CASE state[c] # "data"
  BY <1>1, <1>2, EmptySeq, ConcatEmptySeq DEF Begun, Inbound
<1>3. CASE state[c] = "data"
  <2>1. state[c] = "data" /\ Reads(c) /\ data[c] \in [1 .. BufLen -> Bytes]
        /\ readerPosition[c] \in 1 .. BufLen + 1 /\ objLen[c] \in Nat /\ BufLen \in Nat
    BY <1>3, ByteType DEF BuffersInv, FramingTypeOK
  <2>2. <<objLen[c]>> \in Seq(Bytes)
    BY <2>1, ByteType DEF Reads
  <2>3. SubSeq(data[c], 1, readerPosition[c] - 1) \in Seq(Bytes)
    <3>1. readerPosition[c] - 1 \in Int /\ \A i \in 1 .. readerPosition[c] - 1 : data[c][i] \in Bytes
      BY <2>1
    <3>2. QED
      BY <3>1, SubSeqProperties
  <2>4. <<objLen[c]>> \o SubSeq(data[c], 1, readerPosition[c] - 1) \in Seq(Bytes)
    BY <2>2, <2>3, ConcatProperties
  <2>5. QED
    BY <1>1, <1>3, <2>4 DEF Begun, Inbound
<1>4. QED
  BY <1>2, <1>3

LEMMA ParsedFrames ==
    ASSUME NEW s, NEW fs, Parses(s, fs)
    PROVE  Frames(s) = fs /\ Parses(s, Frames(s)) /\ fs \in Seq(Texts)
<1>1. Frames(s) = fs
  BY FramesOfParsed
<1>2. QED
  BY <1>1 DEF Parses

LEMMA StreamTypes ==
    ASSUME BuffersInv, StreamsInv
    PROVE  /\ Coming \in [Ids -> Seq(Texts)] /\ Going \in [Ids -> Seq(Texts)]
           /\ Queued \in [Ids -> Seq(Texts)]
<1>1. Coming \in [Ids -> Seq(Texts)] /\ Going \in [Ids -> Seq(Texts)]
  BY DEF Coming, Going, StreamsInv, Parses
<1>2. ASSUME NEW d \in Ids PROVE Waiting(d) \in Seq(Texts)
  <2>1. Len(queue[d]) \in Nat
    BY QueueType DEF BuffersInv
  <2>2. \A i \in 1 .. Len(queue[d]) : Text(queue[d][i]) \in Texts
    BY QueueType, HeldIsFrame DEF BuffersInv
  <2>3. Waiting(d) \in [1 .. Len(queue[d]) -> Texts]
    BY <2>2 DEF Waiting
  <2>4. QED
    BY <2>1, <2>3
<1>3. QED
  BY <1>1, <1>2 DEF Queued

LEMMA WaitingParts ==
    ASSUME BuffersInv, NEW d \in Ids
    PROVE  /\ Waiting(d) \in Seq(Texts) /\ Len(Waiting(d)) = Len(queue[d])
           /\ Len(queue[d]) \in Nat
           /\ \A i \in 1 .. Len(queue[d]) : Waiting(d)[i] = Text(queue[d][i])
<1>1. Len(queue[d]) \in Nat
  BY QueueType DEF BuffersInv
<1>2. \A i \in 1 .. Len(queue[d]) : Text(queue[d][i]) \in Texts
  BY QueueType, HeldIsFrame DEF BuffersInv
<1>3. Waiting(d) \in [1 .. Len(queue[d]) -> Texts]
  BY <1>2 DEF Waiting
<1>4. QED
  BY <1>1, <1>3 DEF Waiting

(* The step of a stream: one changes to s, which is the frames fs. *)
LEMMA ComingChanges ==
    ASSUME StreamsInv, NEW c \in Ids, NEW fs, Parses(Inbound(c)', fs),
           \A e \in Ids \ {c} : Inbound(e)' = Inbound(e)
    PROVE  /\ Coming' = [Coming EXCEPT ![c] = fs]
           /\ \A e \in Ids : Parses(Inbound(e), Frames(Inbound(e)))'
<1>1. Frames(Inbound(c)') = fs /\ Parses(Inbound(c)', Frames(Inbound(c)'))
  BY ParsedFrames
<1>2. \A e \in Ids : Frames(Inbound(e)') = IF e = c THEN fs ELSE Frames(Inbound(e))
  BY <1>1
<1>3. \A e \in Ids : Parses(Inbound(e)', Frames(Inbound(e)'))
  BY <1>1 DEF StreamsInv
<1>4. Coming' = [e \in Ids |-> Frames(Inbound(e)')]
  BY DEF Coming
<1>5. QED
  BY <1>2, <1>3, <1>4 DEF Coming

LEMMA GoingChanges ==
    ASSUME StreamsInv, NEW c \in Ids, NEW fs, Parses(Reading(c)', fs),
           \A e \in Ids \ {c} : Reading(e)' = Reading(e)
    PROVE  /\ Going' = [Going EXCEPT ![c] = fs]
           /\ \A e \in Ids : Parses(Reading(e), Frames(Reading(e)))'
<1>1. Frames(Reading(c)') = fs /\ Parses(Reading(c)', Frames(Reading(c)'))
  BY ParsedFrames
<1>2. \A e \in Ids : Frames(Reading(e)') = IF e = c THEN fs ELSE Frames(Reading(e))
  BY <1>1
<1>3. \A e \in Ids : Parses(Reading(e)', Frames(Reading(e)'))
  BY <1>1 DEF StreamsInv
<1>4. Going' = [e \in Ids |-> Frames(Reading(e)')]
  BY DEF Going
<1>5. QED
  BY <1>2, <1>3, <1>4 DEF Going

(* Or none does. *)
LEMMA ComingSame ==
    ASSUME StreamsInv, \A e \in Ids : Inbound(e)' = Inbound(e)
    PROVE  Coming' = Coming /\ \A e \in Ids : Parses(Inbound(e), Frames(Inbound(e)))'
<1>1. \A e \in Ids : Frames(Inbound(e)') = Frames(Inbound(e))
  OBVIOUS
<1>2. \A e \in Ids : Parses(Inbound(e)', Frames(Inbound(e)'))
  BY DEF StreamsInv
<1>3. Coming' = [e \in Ids |-> Frames(Inbound(e)')]
  BY DEF Coming
<1>4. QED
  BY <1>1, <1>2, <1>3 DEF Coming

LEMMA GoingSame ==
    ASSUME StreamsInv, \A e \in Ids : Reading(e)' = Reading(e)
    PROVE  Going' = Going /\ \A e \in Ids : Parses(Reading(e), Frames(Reading(e)))'
<1>1. \A e \in Ids : Frames(Reading(e)') = Frames(Reading(e))
  OBVIOUS
<1>2. \A e \in Ids : Parses(Reading(e)', Frames(Reading(e)'))
  BY DEF StreamsInv
<1>3. Going' = [e \in Ids |-> Frames(Reading(e)')]
  BY DEF Going
<1>4. QED
  BY <1>1, <1>2, <1>3 DEF Going

LEMMA BytesAssociative ==
    \A s, t, u \in Seq(Bytes) : (s \o t) \o u = s \o (t \o u)
BY ConcatAssociative

LEMMA HeadThenTail ==
    ASSUME NEW S, NEW s \in Seq(S), s # <<>>
    PROVE  s = <<Head(s)>> \o Tail(s) /\ <<Head(s)>> \in Seq(S)
<1>1. /\ Head(s) \in S /\ Tail(s) \in Seq(S) /\ Len(Tail(s)) = Len(s) - 1
      /\ \A i \in 1 .. Len(Tail(s)) : Tail(s)[i] = s[i + 1]
      /\ Len(s) \in Nat /\ Len(s) >= 1 /\ Head(s) = s[1]
  BY HeadTailProperties, LenProperties, EmptySeq
<1> DEFINE h == <<Head(s)>>
           t == Tail(s)
<1>2. h \in Seq(S) /\ Len(h) = 1 /\ h[1] = s[1]
  BY <1>1
<1> HIDE DEF h, t
<1>3. /\ h \o t \in Seq(S) /\ Len(h \o t) = Len(s)
      /\ \A i \in 1 .. Len(s) : (h \o t)[i] = IF i <= 1 THEN h[i] ELSE t[i - 1]
  <2>1. t \in Seq(S) /\ Len(t) = Len(s) - 1
    BY <1>1 DEF t
  <2>2. /\ h \o t \in Seq(S) /\ Len(h \o t) = Len(h) + Len(t)
        /\ \A i \in 1 .. Len(h) + Len(t) : (h \o t)[i] = IF i <= Len(h) THEN h[i] ELSE t[i - Len(h)]
    BY <1>2, <2>1, ConcatProperties
  <2>3. QED
    BY <1>1, <1>2, <2>1, <2>2
<1>4. ASSUME NEW i \in 1 .. Len(s) PROVE (h \o t)[i] = s[i]
  <2>1. CASE i = 1
    BY <1>1, <1>2, <1>3, <2>1
  <2>2. CASE i # 1
    <3>1. PICK j : j = i - 1
      OBVIOUS
    <3>2. j \in 1 .. Len(t) /\ i = j + 1 /\ ~ (i <= 1)
      BY <1>1, <2>2, <3>1 DEF t
    <3>3. (h \o t)[i] = t[j]
      BY <1>3, <3>1, <3>2
    <3>4. t[j] = s[j + 1]
      BY <1>1, <3>2 DEF t
    <3>5. QED
      BY <3>2, <3>3, <3>4
  <2>3. QED
    BY <2>1, <2>2
<1>5. h \o t = s
  <2> DEFINE u == h \o t
  <2>1. u \in Seq(S) /\ Len(u) = Len(s) /\ \A i \in 1 .. Len(u) : u[i] = s[i]
    BY <1>3, <1>4
  <2> HIDE DEF u
  <2>2. u = s
    BY <2>1, SeqEqual
  <2>3. QED
    BY <2>2 DEF u
<1>6. QED
  BY <1>2, <1>5 DEF h, t

(* A piece of a sequence, and the same piece behind one more element. *)
LEMMA SubSeqBehind ==
    ASSUME NEW S, NEW x \in S, NEW t \in Seq(S), NEW i \in 1 .. Len(t) + 1, NEW j \in i - 1 .. Len(t)
    PROVE  SubSeq(<<x>> \o t, i + 1, j + 1) = SubSeq(t, i, j)
<1> DEFINE h == <<x>>
           s == h \o t
<1>1. h \in Seq(S) /\ Len(h) = 1
  OBVIOUS
<1>2. Len(t) \in Nat /\ i \in Nat /\ i >= 1 /\ j \in Nat /\ j <= Len(t) /\ j >= i - 1
  BY LenProperties
<1> HIDE DEF h
<1>3. /\ s \in Seq(S) /\ Len(s) = 1 + Len(t)
      /\ \A k \in 1 .. 1 + Len(t) : s[k] = IF k <= 1 THEN h[k] ELSE t[k - 1]
  <2>1. /\ h \o t \in Seq(S) /\ Len(h \o t) = Len(h) + Len(t)
        /\ \A k \in 1 .. Len(h) + Len(t) : (h \o t)[k] = IF k <= Len(h) THEN h[k] ELSE t[k - Len(h)]
    BY <1>1, ConcatProperties
  <2>2. s = h \o t
    OBVIOUS
  <2> HIDE DEF s
  <2>3. QED
    BY <1>1, <1>2, <2>1, <2>2
<1> HIDE DEF s
<1>4. \A k \in i .. j : t[k] \in S /\ s[k + 1] = t[k]
  <2> TAKE k \in i .. j
  <2>1. k \in 1 .. Len(t) /\ k + 1 \in 1 .. 1 + Len(t) /\ ~ (k + 1 <= 1) /\ k + 1 - 1 = k
    BY <1>2
  <2>2. QED
    BY <1>3, <2>1, ElementOfSeq
<1>5. \A k \in i + 1 .. j + 1 : s[k] \in S
  <2> TAKE k \in i + 1 .. j + 1
  <2>1. PICK l : l = k - 1
    OBVIOUS
  <2>2. l \in i .. j /\ k = l + 1
    BY <1>2, <2>1
  <2>3. QED
    BY <1>4, <2>2
<1> DEFINE a == SubSeq(s, i + 1, j + 1)
           b == SubSeq(t, i, j)
           n == j - i + 1
<1>6. a \in Seq(S) /\ Len(a) = n /\ \A k \in 1 .. n : a[k] = s[i + 1 + k - 1]
  <2>1. /\ a \in Seq(S) /\ Len(a) = IF i + 1 <= j + 1 THEN j + 1 - (i + 1) + 1 ELSE 0
        /\ \A k \in 1 .. j + 1 - (i + 1) + 1 : a[k] = s[i + 1 + k - 1]
    BY <1>2, <1>5, SubSeqProperties
  <2>2. j + 1 - (i + 1) + 1 = n
    BY <1>2
  <2> HIDE DEF a
  <2>3. QED
    BY <1>2, <2>1, <2>2
<1>7. b \in Seq(S) /\ Len(b) = n /\ \A k \in 1 .. n : b[k] = t[i + k - 1]
  <2>1. /\ b \in Seq(S) /\ Len(b) = IF i <= j THEN j - i + 1 ELSE 0
        /\ \A k \in 1 .. j - i + 1 : b[k] = t[i + k - 1]
    BY <1>2, <1>4, SubSeqProperties
  <2> HIDE DEF b
  <2>2. QED
    BY <1>2, <2>1
<1> HIDE DEF a, b
<1>8. ASSUME NEW k \in 1 .. n PROVE a[k] = b[k]
  <2>1. PICK l : l = i + k - 1
    OBVIOUS
  <2>2. l \in i .. j /\ i + 1 + k - 1 = l + 1
    BY <1>2, <2>1
  <2>3. a[k] = s[l + 1] /\ b[k] = t[l]
    BY <1>6, <1>7, <2>1, <2>2
  <2>4. QED
    BY <1>4, <2>2, <2>3
<1>9. a = b
  BY <1>6, <1>7, <1>8, SeqEqual
<1>10. QED
  BY <1>9 DEF a, b, s, h

LEMMA ReadingParts ==
    ASSUME BuffersInv, NEW d \in Ids
    PROVE  /\ out[d] \in Seq(Bytes) /\ Reading(d) \in Seq(Bytes)
           /\ lenRead[d] # None => lenRead[d] \in Bytes /\ <<lenRead[d]>> \in Seq(Bytes)
<1>1. out[d] \in Seq(Bytes) /\ lenRead[d] \in Bytes \cup {None}
  BY DEF BuffersInv, FramingTypeOK
<1>2. lenRead[d] # None => lenRead[d] \in Bytes /\ <<lenRead[d]>> \in Seq(Bytes)
  BY <1>1
<1>3. (IF lenRead[d] = None THEN <<>> ELSE <<lenRead[d]>>) \in Seq(Bytes)
  BY <1>2, EmptySeq
<1>4. Reading(d) \in Seq(Bytes)
  BY <1>1, <1>3, ConcatProperties DEF Reading
<1>5. QED
  BY <1>1, <1>2, <1>4

(* What waits stays the same while the queues and the buffers in them do. *)
LEMMA QueuedSame ==
    ASSUME queue' = queue,
           \A d \in Ids : \A i \in 1 .. Len(queue[d]) :
              LET e == queue[d][i] IN objLen'[e] = objLen[e] /\ data'[e] = data[e]
    PROVE  Queued' = Queued
<1>1. ASSUME NEW d \in Ids PROVE Waiting(d)' = Waiting(d)
  BY DEF Waiting, Text
<1>2. QED
  BY <1>1 DEF Queued

(* Send: one more frame comes from c. *)
LEMMA SendStreams ==
    ASSUME BuffersInv, StreamsInv, NEW c \in Ids, NEW body \in Bodies, Send(c, body)
    PROVE  /\ StreamsInv' /\ Coming' = [Coming EXCEPT ![c] = Append(@, body)]
           /\ Going' = Going /\ Queued' = Queued
<1>1. /\ wire' = [wire EXCEPT ![c] = @ \o <<Len(body)>> \o body]
      /\ UNCHANGED <<lenRead, got, state, bufferVars, queue, out>>
  BY DEF Send
<1>2. body \in Texts /\ Encoded(body) \in Seq(Bytes) /\ body \in Seq(Bytes) /\ <<Len(body)>> \in Seq(Bytes)
  BY BodyType, EncodedType
<1>3. Begun(c) \in Seq(Bytes) /\ wire[c] \in Seq(Bytes) /\ Inbound(c) = Begun(c) \o wire[c]
  BY InboundParts
<1>4. wire'[c] = wire[c] \o Encoded(body)
  <2>1. wire'[c] = wire[c] \o <<Len(body)>> \o body
    BY <1>1 DEF BuffersInv, FramingTypeOK
  <2>2. wire[c] \o <<Len(body)>> \o body = wire[c] \o (<<Len(body)>> \o body)
    BY <1>2, <1>3, BytesAssociative, Zenon
  <2>3. QED
    BY <2>1, <2>2 DEF Encoded
<1>5. Inbound(c)' = Inbound(c) \o Encoded(body)
  <2>1. CASE state[c] # "data"
    BY <1>1, <1>4, <2>1 DEF Inbound
  <2>2. CASE state[c] = "data"
    <3>1. Inbound(c)' = Begun(c) \o (wire[c] \o Encoded(body))
      BY <1>1, <1>4, <2>2 DEF Inbound, Begun, bufferVars
    <3>2. Begun(c) \o (wire[c] \o Encoded(body)) = (Begun(c) \o wire[c]) \o Encoded(body)
      BY <1>2, <1>3, BytesAssociative, Zenon
    <3>3. QED
      BY <1>3, <3>1, <3>2
  <2>3. QED
    BY <2>1, <2>2
<1>6. Parses(Inbound(c)', Coming[c] \o <<body>>)
  <2>1. Parses(Inbound(c), Coming[c])
    BY DEF StreamsInv, Coming
  <2>2. Parses(Encoded(body), <<body>>)
    BY <1>2, ParsesOne
  <2>3. QED
    BY <1>5, <2>1, <2>2, ParsesConcat
<1>7. Coming[c] \o <<body>> = Append(Coming[c], body)
  <2>1. Coming[c] \in Seq(Texts)
    BY StreamTypes
  <2>2. QED
    BY <1>2, <2>1, AppendIsConcat
<1>8. \A e \in Ids \ {c} : Inbound(e)' = Inbound(e)
  <2>1. \A e \in Ids \ {c} : wire'[e] = wire[e]
    BY <1>1 DEF BuffersInv, FramingTypeOK
  <2>2. QED
    BY <1>1, <2>1 DEF Inbound, bufferVars
<1>9. /\ Coming' = [Coming EXCEPT ![c] = Append(@, body)]
      /\ \A e \in Ids : Parses(Inbound(e), Frames(Inbound(e)))'
  BY <1>6, <1>7, <1>8, ComingChanges
<1>10. Going' = Going /\ \A e \in Ids : Parses(Reading(e), Frames(Reading(e)))'
  BY <1>1, GoingSame DEF Reading
<1>11. Queued' = Queued
  BY <1>1, QueuedSame DEF bufferVars
<1>12. QED
  BY <1>9, <1>10, <1>11 DEF StreamsInv

LEMMA ReadLenStreams ==
    ASSUME BuffersInv, StreamsInv, NEW c \in Ids, ReadLen(c)
    PROVE  StreamsInv' /\ Coming' = Coming /\ Going' = Going /\ Queued' = Queued
<1>1. /\ state[c] = "len" /\ wire[c] # <<>> /\ state' = [state EXCEPT ![c] = "data"]
      /\ readerPosition' = [readerPosition EXCEPT ![c] = 1]
      /\ objLen' = [objLen EXCEPT ![c] = Head(wire[c])]
      /\ wire' = [wire EXCEPT ![c] = Tail(@)]
      /\ data' = data /\ queue' = queue /\ lenRead' = lenRead /\ out' = out
  BY DEF ReadLen, clientVars
<1>2. wire[c] \in Seq(Bytes) /\ wire[c] = <<Head(wire[c])>> \o Tail(wire[c])
      /\ <<Head(wire[c])>> \in Seq(Bytes)
  BY <1>1, HeadThenTail DEF BuffersInv, FramingTypeOK
<1>3. Inbound(c)' = Inbound(c)
  <2>1. /\ state'[c] = "data" /\ readerPosition'[c] = 1 /\ objLen'[c] = Head(wire[c])
        /\ wire'[c] = Tail(wire[c])
    BY <1>1 DEF BuffersInv, FramingTypeOK
  <2>2. SubSeq(data[c], 1, 1 - 1) = <<>>
    BY SubSeqEmpty
  <2>3. Inbound(c)' = <<Head(wire[c])>> \o SubSeq(data[c], 1, 1 - 1) \o Tail(wire[c])
    BY <1>1, <2>1 DEF Inbound
  <2>4. <<Head(wire[c])>> \o <<>> = <<Head(wire[c])>>
    BY <1>2, ConcatEmptySeq
  <2>5. QED
    BY <1>1, <1>2, <2>2, <2>3, <2>4 DEF Inbound
<1>4. \A e \in Ids \ {c} : Inbound(e)' = Inbound(e)
  <2>1. \A e \in Ids \ {c} : /\ wire'[e] = wire[e] /\ objLen'[e] = objLen[e] /\ state'[e] = state[e]
                             /\ readerPosition'[e] = readerPosition[e]
    BY <1>1 DEF BuffersInv, FramingTypeOK
  <2>2. QED
    BY <1>1, <2>1 DEF Inbound
<1>5. Coming' = Coming /\ \A e \in Ids : Parses(Inbound(e), Frames(Inbound(e)))'
  BY <1>3, <1>4, ComingSame
<1>6. Going' = Going /\ \A e \in Ids : Parses(Reading(e), Frames(Reading(e)))'
  BY <1>1, GoingSame DEF Reading
<1>7. Queued' = Queued
  <2>1. \A d \in Ids : \A i \in 1 .. Len(queue[d]) : queue[d][i] \in Ids \ {c}
    BY QueueType DEF ReadLen, BuffersInv
  <2>2. \A e \in Ids \ {c} : objLen'[e] = objLen[e]
    BY <1>1 DEF BuffersInv, FramingTypeOK
  <2>3. QED
    BY <1>1, <2>1, <2>2, QueuedSame
<1>8. QED
  BY <1>5, <1>6, <1>7 DEF StreamsInv

(* What is in the buffer after a read, and what is left. *)
LEMMA FilledInbound ==
    ASSUME BuffersInv, NEW c \in Ids, state[c] = "data",
           NEW n \in 0 .. Len(wire[c]), n <= bytesToRead[c]
    PROVE  LET m == readerPosition[c] - 1 + n
               g == SubSeq(Filled(c, n), 1, m)
           IN  /\ m \in 0 .. objLen[c] /\ m <= BufLen
               /\ g \in Seq(Bytes) /\ Len(g) = m
               /\ \A i \in 1 .. m : g[i] = Filled(c, n)[i]
               /\ Inbound(c) = <<objLen[c]>> \o g \o SubSeq(wire[c], n + 1, Len(wire[c]))
<1> DEFINE p == readerPosition[c] - 1
           m == p + n
           f == Filled(c, n)
           g == SubSeq(f, 1, m)
           w == wire[c]
           a == SubSeq(data[c], 1, p)
           b == SubSeq(w, 1, n)
           r == SubSeq(w, n + 1, Len(w))
<1>1. /\ w \in Seq(Bytes) /\ Len(w) \in Nat /\ n \in Nat /\ n <= Len(w)
      /\ data[c] \in [1 .. BufLen -> Bytes] /\ f \in [1 .. BufLen -> Bytes]
      /\ p \in Nat /\ objLen[c] \in Nat /\ BufLen \in Nat /\ objLen[c] <= BufLen
      /\ m \in Nat /\ m <= objLen[c] /\ <<objLen[c]>> \in Seq(Bytes)
  <2>1. /\ w \in Seq(Bytes) /\ Len(w) \in Nat /\ data[c] \in [1 .. BufLen -> Bytes]
        /\ f \in [1 .. BufLen -> Bytes]
    BY LenProperties, FilledType DEF BuffersInv, FramingTypeOK
  <2>2. /\ Reads(c) /\ objLen[c] \in Nat /\ bytesToRead[c] \in Int
        /\ readerPosition[c] \in Nat /\ readerPosition[c] >= 1 /\ BufLen \in Nat /\ Base \in Nat
    BY ByteType DEF BuffersInv, FramingTypeOK
  <2>3. objLen[c] <= BufLen /\ objLen[c] \in Bytes
    BY <2>2, ByteType DEF Reads, BufLen
  <2> HIDE DEF w, f
  <2>4. QED
    BY <2>1, <2>2, <2>3 DEF Reads, w
<1>2. f = [i \in 1 .. BufLen |-> IF i - p \in 1 .. n THEN w[i - p] ELSE data[c][i]]
  <2>1. \A i \in 1 .. BufLen : i - readerPosition[c] + 1 = i - p
    BY DEF BuffersInv, FramingTypeOK
  <2>2. QED
    BY <2>1 DEF Filled
<1> HIDE DEF f, w, p
<1>3. g \in Seq(Bytes) /\ Len(g) = m /\ \A i \in 1 .. m : g[i] = f[i]
  <2>1. \A i \in 1 .. m : f[i] \in Bytes
    BY <1>1
  <2>2. /\ g \in Seq(Bytes) /\ Len(g) = IF 1 <= m THEN m - 1 + 1 ELSE 0
        /\ \A i \in 1 .. m - 1 + 1 : g[i] = f[1 + i - 1]
    BY <1>1, <2>1, SubSeqProperties
  <2> HIDE DEF g
  <2>3. QED
    BY <1>1, <2>2
<1>4. a \in Seq(Bytes) /\ Len(a) = p /\ \A i \in 1 .. p : a[i] = data[c][i]
  <2>1. \A i \in 1 .. p : data[c][i] \in Bytes
    BY <1>1
  <2>2. /\ a \in Seq(Bytes) /\ Len(a) = IF 1 <= p THEN p - 1 + 1 ELSE 0
        /\ \A i \in 1 .. p - 1 + 1 : a[i] = data[c][1 + i - 1]
    BY <1>1, <2>1, SubSeqProperties
  <2> HIDE DEF a
  <2>3. QED
    BY <1>1, <2>2
<1>5. b \in Seq(Bytes) /\ Len(b) = n /\ \A i \in 1 .. n : b[i] = w[i]
  <2>1. \A i \in 1 .. n : w[i] \in Bytes
    BY <1>1, ElementOfSeq
  <2>2. /\ b \in Seq(Bytes) /\ Len(b) = IF 1 <= n THEN n - 1 + 1 ELSE 0
        /\ \A i \in 1 .. n - 1 + 1 : b[i] = w[1 + i - 1]
    BY <1>1, <2>1, SubSeqProperties
  <2> HIDE DEF b
  <2>3. QED
    BY <1>1, <2>2
<1>6. r \in Seq(Bytes) /\ b \o r = w
  <2>1. r \in Seq(Bytes)
    BY WireLeft DEF w
  <2>2. 1 \in 1 .. Len(w) + 1 /\ n \in 1 - 1 .. Len(w) /\ Len(w) \in n .. Len(w)
    BY <1>1
  <2>3. b \o r = SubSeq(w, 1, Len(w))
    BY <1>1, <2>2, ConcatAdjacentSubSeq
  <2>4. QED
    BY <1>1, <2>1, <2>3, SubSeqFull
<1> HIDE DEF g, a, b, r
<1>7. g = a \o b
  <2>1. /\ a \o b \in Seq(Bytes) /\ Len(a \o b) = Len(a) + Len(b)
        /\ \A i \in 1 .. Len(a) + Len(b) : (a \o b)[i] = IF i <= Len(a) THEN a[i] ELSE b[i - Len(a)]
    BY <1>4, <1>5, ConcatProperties
  <2>2. Len(a \o b) = m
    BY <1>4, <1>5, <2>1
  <2>3. ASSUME NEW i \in 1 .. m PROVE (a \o b)[i] = g[i]
    <3>1. (a \o b)[i] = IF i <= p THEN a[i] ELSE b[i - p]
      BY <1>4, <1>5, <2>1
    <3>2. g[i] = IF i - p \in 1 .. n THEN w[i - p] ELSE data[c][i]
      <4>1. i \in 1 .. BufLen
        BY <1>1
      <4>2. g[i] = f[i]
        BY <1>3
      <4>3. f[i] = IF i - p \in 1 .. n THEN w[i - p] ELSE data[c][i]
        BY <1>2, <4>1, Zenon
      <4>4. QED
        BY <4>2, <4>3, Zenon
    <3>3. CASE i <= p
      BY <1>1, <1>4, <3>1, <3>2, <3>3
    <3>4. CASE ~ (i <= p)
      <4>1. i - p \in 1 .. n
        BY <1>1, <3>4
      <4>2. QED
        BY <1>5, <3>1, <3>2, <3>4, <4>1
    <3>5. QED
      BY <3>3, <3>4
  <2>4. QED
    BY <1>3, <2>1, <2>2, <2>3, SeqEqual
<1>8. Inbound(c) = (<<objLen[c]>> \o g) \o r
  <2> DEFINE h == <<objLen[c]>>
  <2>0. h \in Seq(Bytes)
    BY <1>1
  <2>1. Inbound(c) = (h \o a) \o w
    BY DEF Inbound, a, p, w
  <2> HIDE DEF h
  <2>2. h \o a \in Seq(Bytes) /\ a \o b \in Seq(Bytes)
    BY <1>4, <1>5, <2>0, ConcatProperties
  <2>3. (h \o a) \o (b \o r) = ((h \o a) \o b) \o r
    BY <1>5, <1>6, <2>2, BytesAssociative, Zenon
  <2>4. (h \o a) \o b = h \o (a \o b)
    BY <1>4, <1>5, <2>0, BytesAssociative, Zenon
  <2>5. Inbound(c) = (h \o g) \o r
    BY <1>6, <1>7, <2>1, <2>3, <2>4
  <2>6. QED
    BY <2>5 DEF h
<1>9. m \in 0 .. objLen[c] /\ m <= BufLen
  BY <1>1
<1>10. QED
  BY <1>3, <1>8, <1>9 DEF g, r, w, f, p

LEMMA ReadPartStreams ==
    ASSUME BuffersInv, StreamsInv, NEW c \in Ids, ReadPart(c)
    PROVE  StreamsInv' /\ Coming' = Coming /\ Going' = Going /\ Queued' = Queued
<1>1. PICK n \in 1 .. Len(wire[c]) :
         /\ n < bytesToRead[c]
         /\ data' = [data EXCEPT ![c] = Filled(c, n)]
         /\ readerPosition' = [readerPosition EXCEPT ![c] = Moved(c, n)]
         /\ wire' = [wire EXCEPT ![c] = SubSeq(@, n + 1, Len(@))]
  BY DEF ReadPart
<1>2. /\ state[c] = "data" /\ state' = state /\ objLen' = objLen
      /\ queue' = queue /\ lenRead' = lenRead /\ out' = out
  BY DEF ReadPart, clientVars
<1>3. /\ n \in 0 .. Len(wire[c]) /\ n <= bytesToRead[c] /\ n \in Nat
      /\ readerPosition[c] \in Nat
  <2>1. Len(wire[c]) \in Nat /\ bytesToRead[c] \in Int /\ readerPosition[c] \in Nat
    BY LenProperties, ByteType DEF BuffersInv, FramingTypeOK
  <2>2. QED
    BY <1>1, <2>1
<1>4. Inbound(c) = <<objLen[c]>> \o SubSeq(Filled(c, n), 1, readerPosition[c] - 1 + n)
                      \o SubSeq(wire[c], n + 1, Len(wire[c]))
  BY <1>2, <1>3, FilledInbound
<1>5. Inbound(c)' = Inbound(c)
  <2>1. /\ wire'[c] = SubSeq(wire[c], n + 1, Len(wire[c])) /\ data'[c] = Filled(c, n)
        /\ readerPosition'[c] = readerPosition[c] + n
    BY <1>1 DEF BuffersInv, FramingTypeOK, Moved
  <2>2. readerPosition[c] + n - 1 = readerPosition[c] - 1 + n
    BY <1>3
  <2>3. Inbound(c)' = <<objLen[c]>> \o SubSeq(Filled(c, n), 1, readerPosition[c] + n - 1)
                        \o SubSeq(wire[c], n + 1, Len(wire[c]))
    <3>1. state'[c] = "data" /\ objLen'[c] = objLen[c]
      BY <1>2
    <3>2. Inbound(c)' = <<objLen'[c]>> \o SubSeq(data'[c], 1, readerPosition'[c] - 1) \o wire'[c]
      BY <3>1, Zenon DEF Inbound
    <3>3. readerPosition'[c] - 1 = readerPosition[c] + n - 1
      BY <1>3, <2>1
    <3>4. SubSeq(data'[c], 1, readerPosition'[c] - 1)
             = SubSeq(Filled(c, n), 1, readerPosition[c] + n - 1)
      BY <2>1, <3>3
    <3>5. <<objLen'[c]>> \o SubSeq(data'[c], 1, readerPosition'[c] - 1)
             = <<objLen[c]>> \o SubSeq(Filled(c, n), 1, readerPosition[c] + n - 1)
      BY <3>1, <3>4
    <3>6. QED
      BY <2>1, <3>2, <3>5
  <2>4. QED
    BY <1>4, <2>2, <2>3
<1>6. \A e \in Ids \ {c} : Inbound(e)' = Inbound(e)
  <2>1. \A e \in Ids \ {c} : /\ wire'[e] = wire[e] /\ data'[e] = data[e]
                             /\ objLen'[e] = objLen[e] /\ state'[e] = state[e]
                             /\ readerPosition'[e] = readerPosition[e]
    BY <1>1, <1>2 DEF BuffersInv, FramingTypeOK
  <2>2. QED
    BY <2>1 DEF Inbound
<1>7. Coming' = Coming /\ \A e \in Ids : Parses(Inbound(e), Frames(Inbound(e)))'
  BY <1>5, <1>6, ComingSame
<1>8. Going' = Going /\ \A e \in Ids : Parses(Reading(e), Frames(Reading(e)))'
  BY <1>2, GoingSame DEF Reading
<1>9. Queued' = Queued
  <2>1. \A d \in Ids : \A i \in 1 .. Len(queue[d]) : queue[d][i] \in Ids \ {c}
    BY <1>2, FilledNotQueued
  <2>2. \A e \in Ids \ {c} : data'[e] = data[e]
    BY <1>1 DEF BuffersInv, FramingTypeOK
  <2>3. QED
    BY <1>2, <2>1, <2>2, QueuedSame
<1>10. QED
  BY <1>7, <1>8, <1>9 DEF StreamsInv

(* Whether a frame goes to somebody. *)
Arrives(b) == IsRelay(b) /\ Reachable(b[2]) /\ b[2] \in Registered

LEMMA CharReaches ==
    ASSUME NEW b \in Bytes, signedChar \in BOOLEAN
    PROVE  /\ Char(b) \in Registered <=> Reachable(b) /\ b \in Registered
           /\ Char(b) \in Registered => Char(b) = b
<1>1. b \in Nat /\ b < Base /\ Base \in Nat /\ Base <= 256
  BY ByteType
<1>2. \A i \in Registered : i \in Nat /\ i < Base
  BY ByteType, FramingAssumption DEF Registered
<1>3. CASE signedChar /\ 2 * b >= Base
  <2>1. Char(b) = b + 65536 - Base
    BY <1>3 DEF Char, Word
  <2>2. ~ (Char(b) < Base)
    BY <1>1, <2>1
  <2>3. ~ Reachable(b)
    BY <1>1, <1>3 DEF Reachable
  <2>4. QED
    BY <1>2, <2>2, <2>3
<1>4. CASE ~ (signedChar /\ 2 * b >= Base)
  <2>1. Char(b) = b
    BY <1>4 DEF Char
  <2>2. Reachable(b)
    BY <1>1, <1>4 DEF Reachable
  <2>3. QED
    BY <2>1, <2>2
<1>5. QED
  BY <1>3, <1>4

(* What process() does with a frame of len bytes: if it goes to somebody, its
   text is the last that waits for that client. *)
LEMMA ProcessStreams ==
    ASSUME BuffersInv, NEW c \in Ids, state[c] # "len",
           NEW filled \in [1 .. BufLen -> Bytes], NEW len \in Nat, len <= BufLen,
           NEW b \in Seq(Bytes), Len(b) = len, \A i \in 1 .. len : b[i] = filled[i],
           Process(c, filled, len)
    PROVE  Queued' = IF Arrives(b)
                     THEN [Queued EXCEPT ![b[2]] = Append(@, SubSeq(b, 3, Len(b)))]
                     ELSE Queued
<1> DEFINE size == len - 1
           to == Char(filled[2])
           relays == Relays(filled, len)
           found == Found(filled, len)
<1>1. /\ data' = [data EXCEPT ![c] =
                      IF relays THEN [filled EXCEPT ![2] = TextLength(size)] ELSE filled]
      /\ objLen' = [objLen EXCEPT ![c] = IF len > 0 THEN size ELSE len]
      /\ queue' = IF found THEN [queue EXCEPT ![to] = Append(@, c)] ELSE queue
  BY DEF Process
<1>2. BufLen \in Nat /\ BufLen = Base - 1 /\ len < Base /\ (relays <=> len > 2 /\ filled[1] = R)
  BY ByteType DEF BufLen, Relays
<1>3. found <=> relays /\ to \in Registered
  BY DEF Found
<1>4. ASSUME relays PROVE b[1] = filled[1] /\ b[2] = filled[2] /\ filled[2] \in Bytes
  <2>1. 1 \in 1 .. len /\ 2 \in 1 .. len /\ 2 \in 1 .. BufLen
    BY <1>2, <1>4
  <2>2. QED
    BY <2>1
<1>5. relays <=> IsRelay(b)
  <2>1. ASSUME len > 2 PROVE b[1] = filled[1]
    BY <2>1
  <2>2. QED
    BY <1>2, <2>1 DEF IsRelay
<1>6. signedChar \in BOOLEAN
  BY DEF BuffersInv, FramingTypeOK
<1> HIDE DEF to, relays, found
<1>7. found <=> Arrives(b)
  BY <1>3, <1>4, <1>5, <1>6, CharReaches DEF Arrives, to
<1>8. found => to = b[2] /\ len > 2 /\ relays /\ to \in Ids
  BY <1>2, <1>3, <1>4, <1>6, CharReaches DEF Registered, to
<1>9. \A e \in Ids \ {c} : objLen'[e] = objLen[e] /\ data'[e] = data[e]
  BY <1>1 DEF BuffersInv, FramingTypeOK
<1>10. \A d \in Ids : \A i \in 1 .. Len(queue[d]) : queue[d][i] \in Ids \ {c}
  BY FilledNotQueued
<1>11. CASE ~ found
  <2>1. Queued' = Queued
    BY <1>1, <1>9, <1>10, <1>11, QueuedSame
  <2>2. QED
    BY <1>7, <1>11, <2>1
<1>12. CASE found
  <2>1. Text(c)' = SubSeq(b, 3, Len(b)) /\ SubSeq(b, 3, Len(b)) \in Texts
    <3> DEFINE t == SubSeq(b, 3, Len(b))
    <3>1. \A i \in 3 .. Len(b) : b[i] \in Bytes
      <4> TAKE i \in 3 .. Len(b)
      <4>1. i \in 1 .. Len(b)
        OBVIOUS
      <4>2. QED
        BY <4>1, ElementOfSeq
    <3>2. /\ t \in Seq(Bytes) /\ Len(t) = IF 3 <= Len(b) THEN Len(b) - 3 + 1 ELSE 0
          /\ \A i \in 1 .. Len(b) - 3 + 1 : t[i] = b[3 + i - 1]
      BY <3>1, SubSeqProperties
    <3> HIDE DEF t
    <3>3. objLen'[c] = size /\ data'[c] = [filled EXCEPT ![2] = TextLength(size)]
      <4>1. len > 0
        BY <1>8, <1>12
      <4>2. QED
        BY <1>1, <1>8, <1>12, <4>1 DEF BuffersInv, FramingTypeOK
    <3>4. Len(t) = size - 1 /\ Len(b) - 3 + 1 = size - 1 /\ size - 1 \in Nat
      BY <1>8, <1>12, <3>2
    <3>5. ASSUME NEW i \in 1 .. size - 1 PROVE data'[c][i + 2] = t[i]
      <4>1. i + 2 \in 1 .. BufLen /\ i + 2 \in 1 .. len /\ i + 2 # 2 /\ 3 + i - 1 = i + 2
        BY <1>2, <3>4
      <4>2. data'[c][i + 2] = filled[i + 2]
        BY <3>3, <4>1
      <4>3. t[i] = b[i + 2]
        BY <3>2, <3>4, <4>1
      <4>4. QED
        BY <4>1, <4>2, <4>3
    <3>6. Text(c)' = [i \in 1 .. size - 1 |-> data'[c][i + 2]]
      BY <3>3 DEF Text
    <3>7. t = [i \in 1 .. Len(t) |-> t[i]]
      BY <3>2
    <3>8. Text(c)' = t
      BY <3>4, <3>5, <3>6, <3>7
    <3>9. t \in Texts
      BY <1>2, <3>2, <3>4, ByteType DEF Texts
    <3>10. QED
      BY <3>8, <3>9 DEF t
  <2>2. queue[to] \in Seq(Ids) /\ Len(queue[to]) \in Nat
    BY <1>8, <1>12, QueueType DEF BuffersInv
  <2>3. /\ queue'[to] = Append(queue[to], c) /\ Len(queue'[to]) = Len(queue[to]) + 1
        /\ \A i \in 1 .. Len(queue[to]) : queue'[to][i] = queue[to][i]
        /\ queue'[to][Len(queue[to]) + 1] = c
    <3>1. queue'[to] = Append(queue[to], c)
      BY <1>1, <1>8, <1>12 DEF BuffersInv, FramingTypeOK
    <3>2. QED
      BY <2>2, <3>1, AppendProperties
  <2>4. ASSUME NEW d \in Ids \ {to} PROVE Waiting(d)' = Waiting(d)
    <3>1. queue'[d] = queue[d]
      BY <1>1, <1>12 DEF BuffersInv, FramingTypeOK
    <3>2. QED
      BY <1>9, <1>10, <3>1 DEF Waiting, Text
  <2>5. Waiting(to) \in Seq(Texts) /\ Len(Waiting(to)) = Len(queue[to])
        /\ \A i \in 1 .. Len(queue[to]) : Waiting(to)[i] = Text(queue[to][i])
    BY <1>8, <1>12, WaitingParts
  <2> DEFINE t == SubSeq(b, 3, Len(b))
             u == Append(Waiting(to), t)
             k == Len(queue[to])
  <2> HIDE DEF t
  <2>6. /\ Len(u) = k + 1 /\ u = [i \in 1 .. k + 1 |-> u[i]]
        /\ \A i \in 1 .. k : u[i] = Text(queue[to][i])
        /\ u[k + 1] = t
    <3>1. t \in Texts /\ k \in Nat /\ Waiting(to) \in Seq(Texts) /\ Len(Waiting(to)) = k
      BY <2>1, <2>2, <2>5 DEF t
    <3> HIDE DEF k
    <3>2. /\ u \in Seq(Texts) /\ Len(u) = k + 1 /\ u[k + 1] = t
          /\ \A i \in 1 .. k : u[i] = Waiting(to)[i]
      BY <3>1, AppendProperties
    <3> HIDE DEF u
    <3>3. u = [i \in 1 .. k + 1 |-> u[i]]
      BY <3>2
    <3>4. QED
      BY <2>5, <3>2, <3>3 DEF k
  <2>7. PICK d \in Ids : d = to
    BY <1>8, <1>12
  <2>8. Waiting(d)' = [i \in 1 .. k + 1 |-> [j \in 1 .. objLen'[queue'[d][i]] - 1 |->
                                                data'[queue'[d][i]][j + 2]]]
    BY <2>3, <2>7 DEF Waiting, Text
  <2>9. ASSUME NEW i \in 1 .. k + 1
        PROVE  [j \in 1 .. objLen'[queue'[d][i]] - 1 |-> data'[queue'[d][i]][j + 2]] = u[i]
    <3>1. CASE i \in 1 .. k
      <4>1. queue'[d][i] = queue[d][i] /\ queue[d][i] \in Ids \ {c}
        BY <1>10, <2>3, <2>7, <3>1
      <4>2. PICK e \in Ids \ {c} : e = queue[d][i]
        BY <4>1
      <4>3. u[i] = Text(e)
        BY <2>6, <2>7, <3>1, <4>2
      <4>4. objLen'[e] = objLen[e] /\ data'[e] = data[e]
        BY <1>9
      <4>5. QED
        BY <4>1, <4>2, <4>3, <4>4 DEF Text
    <3>2. CASE i = k + 1
      <4>1. queue'[d][i] = c /\ u[i] = t
        BY <2>3, <2>6, <2>7, <3>2
      <4>2. QED
        BY <2>1, <4>1 DEF Text, t
    <3>3. k \in Nat
      BY <2>2
    <3> HIDE DEF k, u
    <3>4. i \in 1 .. k \/ i = k + 1
      BY <3>3
    <3>5. QED
      BY <3>1, <3>2, <3>4, Zenon
  <2> HIDE DEF u, k
  <2>10. Waiting(d)' = u
    BY <2>6, <2>8, <2>9
  <2>11. Queued' = [Queued EXCEPT ![d] = u]
    BY <2>4, <2>7, <2>10 DEF Queued
  <2>12. u = Append(Queued[d], t)
    BY <2>7 DEF u, Queued
  <2>13. Queued' = [Queued EXCEPT ![b[2]] = Append(@, SubSeq(b, 3, Len(b)))]
    BY <1>8, <1>12, <2>7, <2>11, <2>12 DEF t
  <2>14. QED
    BY <1>7, <1>12, <2>13
<1>13. QED
  BY <1>11, <1>12

(* ReadRest: the first frame that comes from c is taken. *)
LEMMA ReadRestStreams ==
    ASSUME BuffersInv, StreamsInv, NEW c \in Ids, ReadRest(c)
    PROVE  LET b == Head(Coming[c])
           IN  /\ StreamsInv' /\ Coming[c] # <<>>
               /\ Coming' = [Coming EXCEPT ![c] = Tail(@)] /\ Going' = Going
               /\ Queued' = IF Arrives(b)
                            THEN [Queued EXCEPT ![b[2]] = Append(@, SubSeq(b, 3, Len(b)))]
                            ELSE Queued
<1> DEFINE n == bytesToRead[c]
           filled == Filled(c, n)
           b == SubSeq(filled, 1, objLen[c])
           rest == SubSeq(wire[c], n + 1, Len(wire[c]))
<1>1. /\ state[c] = "data" /\ n <= Len(wire[c]) /\ Process(c, filled, objLen[c])
      /\ wire' = [wire EXCEPT ![c] = SubSeq(@, n + 1, Len(@))]
      /\ signedChar' = signedChar /\ lenRead' = lenRead /\ out' = out
  BY DEF ReadRest, clientVars
<1>2. /\ n \in Int /\ n >= 0 /\ objLen[c] \in Nat /\ objLen[c] < Base /\ Len(wire[c]) \in Nat
      /\ n \in 0 .. Len(wire[c]) /\ readerPosition[c] - 1 + n = objLen[c]
  BY <1>1, LenProperties DEF BuffersInv, FramingTypeOK, Reads
<1>3. filled \in [1 .. BufLen -> Bytes]
  BY <1>2, FilledType
<1>4. /\ objLen[c] <= BufLen /\ b \in Seq(Bytes) /\ Len(b) = objLen[c]
      /\ \A i \in 1 .. objLen[c] : b[i] = filled[i]
      /\ Inbound(c) = <<objLen[c]>> \o b \o rest
  <2> DEFINE m == readerPosition[c] - 1 + n
             g == SubSeq(Filled(c, n), 1, m)
  <2>1. n <= bytesToRead[c]
    BY <1>2
  <2>2. /\ m <= BufLen /\ g \in Seq(Bytes) /\ Len(g) = m
        /\ \A i \in 1 .. m : g[i] = Filled(c, n)[i]
        /\ Inbound(c) = <<objLen[c]>> \o g \o SubSeq(wire[c], n + 1, Len(wire[c]))
    BY <1>1, <1>2, <2>1, FilledInbound, Zenon
  <2>3. m = objLen[c]
    BY <1>2
  <2> HIDE DEF m, n
  <2>4. QED
    BY <2>2, <2>3, Zenon
<1>5. rest \in Seq(Bytes)
  BY <1>2, WireLeft
<1> HIDE DEF filled, b, rest
<1>6. b \in Texts /\ Inbound(c) = Encoded(b) \o rest
  BY <1>2, <1>4 DEF Texts, Encoded
<1>7. Coming[c] # <<>> /\ Head(Coming[c]) = b /\ Parses(rest, Tail(Coming[c]))
  <2>1. Parses(Inbound(c), Coming[c])
    BY DEF StreamsInv, Coming
  <2>2. QED
    BY <1>5, <1>6, <2>1, ParsesRest
<1>8. /\ state' = [state EXCEPT ![c] = "len"] /\ \A e \in Ids \ {c} : data'[e] = data[e]
      /\ \A e \in Ids \ {c} : objLen'[e] = objLen[e] /\ readerPosition'[e] = readerPosition[e]
  BY <1>1 DEF Process, BuffersInv, FramingTypeOK
<1>9. Inbound(c)' = rest
  BY <1>1, <1>8 DEF BuffersInv, FramingTypeOK, Inbound, rest
<1>10. \A e \in Ids \ {c} : Inbound(e)' = Inbound(e)
  <2>1. \A e \in Ids \ {c} : wire'[e] = wire[e] /\ state'[e] = state[e]
    BY <1>1, <1>8 DEF BuffersInv, FramingTypeOK
  <2>2. QED
    BY <1>8, <2>1 DEF Inbound
<1>11. /\ Coming' = [Coming EXCEPT ![c] = Tail(@)]
       /\ \A e \in Ids : Parses(Inbound(e), Frames(Inbound(e)))'
  BY <1>7, <1>9, <1>10, ComingChanges
<1>12. Going' = Going /\ \A e \in Ids : Parses(Reading(e), Frames(Reading(e)))'
  BY <1>1, GoingSame DEF Reading
<1> HIDE DEF n
<1>13. Queued' = IF Arrives(b)
                 THEN [Queued EXCEPT ![b[2]] = Append(@, SubSeq(b, 3, Len(b)))]
                 ELSE Queued
  BY <1>1, <1>2, <1>3, <1>4, ProcessStreams
<1>14. QED
  BY <1>7, <1>11, <1>12, <1>13 DEF StreamsInv

(* Welcome: the text that waits is the id of the client. *)
LEMMA WelcomeStreams ==
    ASSUME BuffersInv, StreamsInv, NEW c \in Ids, Welcome(c)
    PROVE  /\ StreamsInv' /\ Coming' = Coming /\ Going' = Going
           /\ Queued' = IF Reachable(c) THEN [Queued EXCEPT ![c] = Append(@, <<c>>)] ELSE Queued
<1> DEFINE w == [data[c] EXCEPT ![1] = R, ![2] = c, ![3] = c]
           b == <<R, c, c>>
<1>1. /\ state[c] = "added" /\ Process(c, w, 3)
      /\ signedChar' = signedChar /\ wire' = wire /\ lenRead' = lenRead /\ out' = out
  BY DEF Welcome, clientVars
<1>2. w \in [1 .. BufLen -> Bytes] /\ w[1] = R /\ w[2] = c /\ w[3] = c /\ 3 \in Nat /\ 3 <= BufLen
  BY WelcomeType
<1>3. c \in Bytes /\ R \in Bytes
  BY FramingAssumption
<1>4. b \in Seq(Bytes) /\ Len(b) = 3 /\ b[1] = R /\ b[2] = c /\ b[3] = c
  BY <1>3
<1>5. SubSeq(b, 3, Len(b)) = <<c>>
  <2>1. 3 \in 1 .. Len(b)
    BY <1>4
  <2>2. SubSeq(b, 3, 3) = <<b[3]>>
    BY <1>4, <2>1, SubSeqOfOne, Zenon
  <2>3. QED
    BY <1>4, <2>2
<1> HIDE DEF w, b
<1>6. \A i \in 1 .. 3 : b[i] = w[i]
  BY <1>2, <1>4
<1>7. Arrives(b) <=> Reachable(c)
  BY <1>1, <1>4 DEF Arrives, IsRelay, Registered
<1>8. Queued' = IF Arrives(b)
                THEN [Queued EXCEPT ![b[2]] = Append(@, SubSeq(b, 3, Len(b)))]
                ELSE Queued
  BY <1>1, <1>2, <1>4, <1>6, ProcessStreams
<1>9. Queued' = IF Reachable(c) THEN [Queued EXCEPT ![c] = Append(@, <<c>>)] ELSE Queued
  BY <1>4, <1>5, <1>7, <1>8
<1>10. ASSUME NEW e \in Ids PROVE Inbound(e)' = Inbound(e)
  <2>1. state' = [state EXCEPT ![c] = "len"]
    BY <1>1 DEF Process
  <2>2. CASE e = c
    BY <1>1, <2>1, <2>2 DEF BuffersInv, FramingTypeOK, Inbound
  <2>3. CASE e # c
    <3>1. /\ data'[e] = data[e] /\ objLen'[e] = objLen[e] /\ readerPosition'[e] = readerPosition[e]
          /\ state'[e] = state[e] /\ wire'[e] = wire[e]
      BY <1>1, <2>1, <2>3 DEF Process, BuffersInv, FramingTypeOK
    <3>2. QED
      BY <3>1 DEF Inbound
  <2>4. QED
    BY <2>2, <2>3
<1>11. Coming' = Coming /\ \A e \in Ids : Parses(Inbound(e), Frames(Inbound(e)))'
  BY <1>10, ComingSame
<1>12. Going' = Going /\ \A e \in Ids : Parses(Reading(e), Frames(Reading(e)))'
  BY <1>1, GoingSame DEF Reading
<1>13. QED
  BY <1>9, <1>11, <1>12 DEF StreamsInv

LEMMA AddStreams ==
    ASSUME BuffersInv, StreamsInv, NEW c \in Ids, Add(c)
    PROVE  StreamsInv' /\ Coming' = Coming /\ Going' = Going /\ Queued' = Queued
<1>1. /\ state[c] = "absent" /\ state' = [state EXCEPT ![c] = "added"]
      /\ UNCHANGED <<lenRead, wire, bufferVars, queue, out>>
  BY DEF Add, clientVars
<1>2. \A e \in Ids : state'[e] = "data" <=> state[e] = "data"
  BY <1>1 DEF BuffersInv, FramingTypeOK
<1>3. \A e \in Ids : Inbound(e)' = Inbound(e)
  BY <1>1, <1>2 DEF Inbound, bufferVars
<1>4. Coming' = Coming /\ \A e \in Ids : Parses(Inbound(e), Frames(Inbound(e)))'
  BY <1>3, ComingSame
<1>5. Going' = Going /\ \A e \in Ids : Parses(Reading(e), Frames(Reading(e)))'
  BY <1>1, GoingSame DEF Reading
<1>6. Queued' = Queued
  BY <1>1, QueuedSame DEF bufferVars
<1>7. QED
  BY <1>4, <1>5, <1>6 DEF StreamsInv

(* Write: the first text that waits for a client is on its way to it. *)
LEMMA WriteStreams ==
    ASSUME BuffersInv, StreamsInv, Write
    PROVE  LET d == sendingTo
           IN  /\ StreamsInv' /\ d \in Ids /\ Queued[d] # <<>> /\ Coming' = Coming
               /\ Going' = [Going EXCEPT ![d] = Append(@, Head(Queued[d]))]
               /\ Queued' = [Queued EXCEPT ![d] = Tail(@)]
<1>1. PICK d : d = sendingTo
  OBVIOUS
<1> DEFINE c == Head(queue[d])
           rest == Tail(queue[d])
<1>2. /\ d # None
      /\ out' = [out EXCEPT ![d] = @ \o Written(c, objLen[c])]
      /\ queue' = [queue EXCEPT ![d] = rest]
      /\ objLen' = [objLen EXCEPT ![c] = 0]
      /\ lenRead' = lenRead /\ wire' = wire /\ state' = state /\ data' = data
      /\ readerPosition' = readerPosition
  BY <1>1 DEF Write, clientVars
<1>3. d \in Ids /\ queue[d] \in Seq(Ids) /\ queue[d] # <<>>
  BY <1>1, <1>2 DEF BuffersInv, FramingTypeOK
<1>4. /\ c \in Ids /\ rest \in Seq(Ids) /\ Len(rest) = Len(queue[d]) - 1 /\ c = queue[d][1]
      /\ \A i \in 1 .. Len(rest) : rest[i] = queue[d][i + 1]
      /\ Len(queue[d]) \in Nat /\ Len(queue[d]) >= 1 /\ 1 \in 1 .. Len(queue[d])
  BY <1>3, HeadTailProperties, LenProperties, EmptySeq
<1>5. Holds(c) /\ state[c] = "len"
  BY <1>3, <1>4 DEF BuffersInv, Holds
<1>6. /\ Text(c) \in Texts /\ Written(c, objLen[c]) = Encoded(Text(c))
  BY <1>4, <1>5, HeldIsFrame DEF BuffersInv
<1>7. /\ Waiting(d) \in Seq(Texts) /\ Len(Waiting(d)) = Len(queue[d])
      /\ \A i \in 1 .. Len(queue[d]) : Waiting(d)[i] = Text(queue[d][i])
  BY <1>3, WaitingParts
<1>8. Queued[d] = Waiting(d) /\ Queued[d] # <<>> /\ Head(Queued[d]) = Text(c)
  <2>1. Queued[d] = Waiting(d)
    BY <1>3 DEF Queued
  <2>2. Waiting(d) # <<>> /\ Waiting(d)[1] = Text(c)
    BY <1>4, <1>7
  <2>3. Head(Waiting(d)) = Waiting(d)[1]
    BY <1>7, <2>2
  <2>4. QED
    BY <2>1, <2>2, <2>3
<1> HIDE DEF c, rest
<1>9. Coming' = Coming /\ \A e \in Ids : Parses(Inbound(e), Frames(Inbound(e)))'
  <2>1. \A e \in Ids \ {c} : objLen'[e] = objLen[e]
    BY <1>2 DEF BuffersInv, FramingTypeOK
  <2>2. \A e \in Ids : Inbound(e)' = Inbound(e)
    BY <1>2, <1>5, <2>1 DEF Inbound
  <2>3. QED
    BY <2>2, ComingSame
<1>10. /\ Going' = [Going EXCEPT ![d] = Append(@, Text(c))]
       /\ \A e \in Ids : Parses(Reading(e), Frames(Reading(e)))'
  <2> DEFINE l == IF lenRead[d] = None THEN <<>> ELSE <<lenRead[d]>>
  <2>1. l \in Seq(Bytes) /\ out[d] \in Seq(Bytes) /\ Encoded(Text(c)) \in Seq(Bytes)
    BY <1>3, <1>6, ReadingParts, EncodedType, EmptySeq
  <2>2. out'[d] = out[d] \o Encoded(Text(c))
    BY <1>2, <1>3, <1>6 DEF BuffersInv, FramingTypeOK
  <2>3. Reading(d)' = l \o (out[d] \o Encoded(Text(c)))
    BY <1>2, <2>2 DEF Reading
  <2>4. Reading(d) = l \o out[d]
    BY DEF Reading
  <2> HIDE DEF l
  <2>5. Reading(d)' = Reading(d) \o Encoded(Text(c))
    <3>1. (l \o out[d]) \o Encoded(Text(c)) = l \o (out[d] \o Encoded(Text(c)))
      BY <2>1, BytesAssociative
    <3>2. QED
      BY <2>3, <2>4, <3>1
  <2>6. Parses(Reading(d), Going[d])
    BY <1>3 DEF StreamsInv, Going
  <2>7. Parses(Reading(d)', Going[d] \o <<Text(c)>>)
    BY <1>6, <2>5, <2>6, ParsesOne, ParsesConcat
  <2>8. Going[d] \o <<Text(c)>> = Append(Going[d], Text(c))
    <3>1. Going[d] \in Seq(Texts)
      BY <1>3, StreamTypes
    <3>2. QED
      BY <1>6, <3>1, AppendIsConcat
  <2>9. \A e \in Ids \ {d} : Reading(e)' = Reading(e)
    <3>1. \A e \in Ids \ {d} : out'[e] = out[e]
      BY <1>2 DEF BuffersInv, FramingTypeOK
    <3>2. QED
      BY <1>2, <3>1 DEF Reading
  <2>10. QED
    BY <1>3, <2>7, <2>8, <2>9, GoingChanges
<1>11. QueuedOnce
  BY DEF BuffersInv
<1>12. \A e \in Ids \ {c} : objLen'[e] = objLen[e] /\ data'[e] = data[e]
  BY <1>2 DEF BuffersInv, FramingTypeOK
<1>13. ASSUME NEW e \in Ids \ {d} PROVE Waiting(e)' = Waiting(e)
  <2>1. queue'[e] = queue[e]
    BY <1>2 DEF BuffersInv, FramingTypeOK
  <2>2. ASSUME NEW i \in 1 .. Len(queue[e]) PROVE queue[e][i] \in Ids \ {c}
    BY <1>3, <1>4, <1>11, QueueType DEF QueuedOnce, BuffersInv
  <2>3. QED
    BY <1>12, <2>1, <2>2 DEF Waiting, Text
<1>14. Waiting(d)' = Tail(Waiting(d))
  <2> DEFINE t == Tail(Waiting(d))
             k == Len(rest)
  <2>1. k \in Nat /\ Len(queue[d]) = k + 1
    BY <1>4
  <2>2. /\ t \in Seq(Texts) /\ Len(t) = k /\ \A i \in 1 .. k : t[i] = Waiting(d)[i + 1]
    <3>1. Waiting(d) # <<>>
      BY <1>4, <1>7
    <3>2. QED
      BY <1>4, <1>7, <3>1, HeadTailProperties
  <2>3. t = [i \in 1 .. k |-> t[i]]
    <3> HIDE DEF t, k
    <3>1. QED
      BY <2>1, <2>2
  <2> HIDE DEF t
  <2>4. queue'[d] = rest
    BY <1>2, <1>3 DEF BuffersInv, FramingTypeOK
  <2>5. Waiting(d)' = [i \in 1 .. k |-> [j \in 1 .. objLen'[queue'[d][i]] - 1 |->
                                            data'[queue'[d][i]][j + 2]]]
    BY <2>4 DEF Waiting, Text
  <2>6. ASSUME NEW i \in 1 .. k
        PROVE  [j \in 1 .. objLen'[queue'[d][i]] - 1 |-> data'[queue'[d][i]][j + 2]] = t[i]
    <3>1. i + 1 \in 1 .. Len(queue[d]) /\ i + 1 # 1
      BY <2>1
    <3>2. PICK e : e = queue[d][i + 1]
      OBVIOUS
    <3>3. e \in Ids \ {c}
      BY <1>3, <1>4, <1>11, <3>1, <3>2, QueueType DEF QueuedOnce, BuffersInv
    <3>4. queue'[d][i] = e
      BY <1>4, <2>4, <3>2
    <3>5. t[i] = Text(e)
      BY <1>7, <2>2, <3>1, <3>2
    <3>6. objLen'[e] = objLen[e] /\ data'[e] = data[e]
      BY <1>12, <3>3
    <3>7. QED
      BY <3>4, <3>5, <3>6 DEF Text
  <2> HIDE DEF k
  <2>7. Waiting(d)' = t
    BY <2>3, <2>5, <2>6
  <2>8. QED
    BY <2>7 DEF t
<1>15. Queued' = [Queued EXCEPT ![d] = Tail(@)]
  BY <1>3, <1>8, <1>13, <1>14 DEF Queued
<1>16. Going' = [Going EXCEPT ![d] = Append(@, Head(Queued[d]))]
  BY <1>8, <1>10
<1>17. StreamsInv'
  BY <1>9, <1>10 DEF StreamsInv
<1>18. QED
  BY <1>1, <1>3, <1>8, <1>9, <1>15, <1>16, <1>17

LEMMA WriteFailsStreams ==
    ASSUME BuffersInv, StreamsInv, WriteFails
    PROVE  StreamsInv' /\ Coming' = Coming /\ Going' = Going /\ Queued' = Queued
<1>1. /\ UNCHANGED <<lenRead, got, wire, state, bufferVars, queue, out>>
  BY DEF WriteFails, clientVars
<1>2. \A e \in Ids : Inbound(e)' = Inbound(e) /\ Reading(e)' = Reading(e)
  BY <1>1 DEF Inbound, Reading, bufferVars
<1>3. Queued' = Queued
  BY <1>1, QueuedSame DEF bufferVars
<1>4. QED
  BY <1>2, <1>3, ComingSame, GoingSame DEF StreamsInv

LEMMA ReceiveLenStreams ==
    ASSUME BuffersInv, StreamsInv, NEW c \in Ids, ReceiveLen(c)
    PROVE  StreamsInv' /\ Coming' = Coming /\ Going' = Going /\ Queued' = Queued
<1>1. /\ lenRead[c] = None /\ out[c] # <<>>
      /\ lenRead' = [lenRead EXCEPT ![c] = Head(out[c])]
      /\ out' = [out EXCEPT ![c] = Tail(@)]
      /\ UNCHANGED <<sent, got, wire, state, bufferVars, queue>>
  BY DEF ReceiveLen
<1>2. out[c] \in Seq(Bytes) /\ out[c] = <<Head(out[c])>> \o Tail(out[c])
  BY <1>1, HeadThenTail DEF BuffersInv, FramingTypeOK
<1>3. Reading(c)' = Reading(c)
  <2>1. Head(out[c]) \in Bytes /\ Head(out[c]) # None
    BY <1>1, <1>2, HeadTailProperties, FramingAssumption
  <2>2. lenRead'[c] = Head(out[c]) /\ out'[c] = Tail(out[c])
    BY <1>1 DEF BuffersInv, FramingTypeOK
  <2>3. Reading(c)' = <<Head(out[c])>> \o Tail(out[c])
    BY <2>1, <2>2 DEF Reading
  <2>4. Reading(c) = out[c]
    BY <1>1, <1>2, ConcatEmptySeq DEF Reading
  <2>5. QED
    BY <1>2, <2>3, <2>4
<1>4. \A e \in Ids \ {c} : Reading(e)' = Reading(e)
  <2>1. \A e \in Ids \ {c} : out'[e] = out[e] /\ lenRead'[e] = lenRead[e]
    BY <1>1 DEF BuffersInv, FramingTypeOK
  <2>2. QED
    BY <2>1 DEF Reading
<1>5. Going' = Going /\ \A e \in Ids : Parses(Reading(e), Frames(Reading(e)))'
  BY <1>3, <1>4, GoingSame
<1>6. \A e \in Ids : Inbound(e)' = Inbound(e)
  BY <1>1 DEF Inbound, bufferVars
<1>7. Queued' = Queued
  BY <1>1, QueuedSame DEF bufferVars
<1>8. QED
  BY <1>5, <1>6, <1>7, ComingSame DEF StreamsInv

(* ReceiveData: the first text on the way is received, whole. *)
LEMMA ReceiveDataStreams ==
    ASSUME BuffersInv, StreamsInv, NEW c \in Ids, ReceiveData(c)
    PROVE  /\ StreamsInv' /\ Going[c] # <<>> /\ Coming' = Coming /\ Queued' = Queued
           /\ Going' = [Going EXCEPT ![c] = Tail(@)]
           /\ got' = [got EXCEPT ![c] = Append(@, Head(Going[c]))]
<1> DEFINE l == lenRead[c]
           o == out[c]
           s == <<l>> \o o
<1>1. /\ l # None
      /\ LET n == IF l < Len(o) THEN l ELSE Len(o)
         IN  /\ got' = [got EXCEPT ![c] = Append(@, SubSeq(o, 1, n))]
             /\ out' = [out EXCEPT ![c] = SubSeq(@, n + 1, Len(@))]
      /\ lenRead' = [lenRead EXCEPT ![c] = None]
      /\ UNCHANGED <<sent, wire, state, bufferVars, queue>>
  BY DEF ReceiveData
<1>2. /\ l \in Bytes /\ l \in Nat /\ o \in Seq(Bytes) /\ Len(o) \in Nat
  BY <1>1, ReadingParts, ByteType, LenProperties
<1>3. Reading(c) = s
  BY <1>1 DEF Reading
<1> HIDE DEF l, o
<1>4. s \in Seq(Bytes) /\ Len(s) = 1 + Len(o) /\ s[1] = l /\ s # <<>>
  <2> DEFINE h == <<l>>
  <2>1. h \in Seq(Bytes) /\ Len(h) = 1 /\ h[1] = l
    BY <1>2
  <2> HIDE DEF h
  <2>2. /\ h \o o \in Seq(Bytes) /\ Len(h \o o) = Len(h) + Len(o)
        /\ \A i \in 1 .. Len(h) + Len(o) : (h \o o)[i] = IF i <= Len(h) THEN h[i] ELSE o[i - Len(h)]
    BY <1>2, <2>1, ConcatProperties
  <2>3. s = h \o o
    BY DEF h
  <2> HIDE DEF s
  <2>4. s \in Seq(Bytes) /\ Len(s) = 1 + Len(o) /\ s[1] = l
    BY <1>2, <2>1, <2>2, <2>3
  <2>5. QED
    BY <1>2, <2>4
<1> HIDE DEF s
<1>5. Parses(s, Going[c])
  BY <1>3 DEF StreamsInv, Going
<1>6. /\ l + 1 <= Len(s) /\ Going[c] # <<>> /\ Head(Going[c]) = SubSeq(s, 2, l + 1)
      /\ Parses(SubSeq(s, l + 2, Len(s)), Tail(Going[c]))
  BY <1>4, <1>5, ParsesFirst
<1>7. l <= Len(o)
  BY <1>2, <1>4, <1>6
<1>8. SubSeq(s, 1 + 1, l + 1) = SubSeq(o, 1, l)
  <2>1. 1 \in 1 .. Len(o) + 1 /\ l \in 1 - 1 .. Len(o)
    BY <1>2, <1>7
  <2>2. QED
    BY <1>2, <2>1, SubSeqBehind, Zenon DEF s
<1>9. SubSeq(s, (l + 1) + 1, Len(o) + 1) = SubSeq(o, l + 1, Len(o))
  <2>1. l + 1 \in 1 .. Len(o) + 1 /\ Len(o) \in (l + 1) - 1 .. Len(o)
    BY <1>2, <1>7
  <2>2. QED
    BY <1>2, <2>1, SubSeqBehind, Zenon DEF s
<1>10. Head(Going[c]) = SubSeq(o, 1, l) /\ Parses(SubSeq(o, l + 1, Len(o)), Tail(Going[c]))
  <2>1. 1 + 1 = 2 /\ (l + 1) + 1 = l + 2 /\ Len(o) + 1 = Len(s)
    BY <1>2, <1>4
  <2>2. QED
    BY <1>6, <1>8, <1>9, <2>1
<1>11. (IF l < Len(o) THEN l ELSE Len(o)) = l
  BY <1>2, <1>7
<1>12. /\ got' = [got EXCEPT ![c] = Append(@, Head(Going[c]))]
       /\ out' = [out EXCEPT ![c] = SubSeq(@, l + 1, Len(@))]
  BY <1>1, <1>10, <1>11
<1>13. Reading(c)' = SubSeq(o, l + 1, Len(o))
  <2>1. lenRead'[c] = None /\ out'[c] = SubSeq(o, l + 1, Len(o))
    BY <1>1, <1>12 DEF BuffersInv, FramingTypeOK, o
  <2>2. SubSeq(o, l + 1, Len(o)) \in Seq(Bytes)
    BY <1>10 DEF Parses
  <2>3. Reading(c)' = <<>> \o SubSeq(o, l + 1, Len(o))
    BY <2>1 DEF Reading
  <2>4. QED
    BY <2>2, <2>3, ConcatEmptySeq
<1>14. \A e \in Ids \ {c} : Reading(e)' = Reading(e)
  <2>1. \A e \in Ids \ {c} : out'[e] = out[e] /\ lenRead'[e] = lenRead[e]
    BY <1>1, <1>12 DEF BuffersInv, FramingTypeOK
  <2>2. QED
    BY <2>1 DEF Reading
<1>15. /\ Going' = [Going EXCEPT ![c] = Tail(@)]
       /\ \A e \in Ids : Parses(Reading(e), Frames(Reading(e)))'
  BY <1>10, <1>13, <1>14, GoingChanges
<1>16. \A e \in Ids : Inbound(e)' = Inbound(e)
  BY <1>1 DEF Inbound, bufferVars
<1>17. Queued' = Queued
  BY <1>1, QueuedSame DEF bufferVars
<1>18. QED
  BY <1>6, <1>12, <1>15, <1>16, <1>17, ComingSame DEF StreamsInv

LEMMA StutterStreams ==
    ASSUME StreamsInv, UNCHANGED vars
    PROVE  StreamsInv' /\ Coming' = Coming /\ Going' = Going /\ Queued' = Queued
<1>1. \A e \in Ids : Inbound(e)' = Inbound(e) /\ Reading(e)' = Reading(e)
  BY DEF vars, clientVars, bufferVars, Inbound, Reading
<1>2. Queued' = Queued
  BY QueuedSame DEF vars, bufferVars
<1>3. QED
  BY <1>1, <1>2, ComingSame, GoingSame DEF StreamsInv

LEMMA InitStreams ==
    ASSUME Init, BuffersInv
    PROVE  /\ StreamsInv /\ Coming = [c \in Ids |-> <<>>] /\ Queued = [c \in Ids |-> <<>>]
           /\ Going = [c \in Ids |-> <<>>]
<1>1. ASSUME NEW c \in Ids PROVE Inbound(c) = <<>> /\ Reading(c) = <<>>
  <2>1. <<>> \o <<>> = <<>>
    OBVIOUS
  <2>2. QED
    BY <2>1 DEF Init, Inbound, Reading
<1>2. \A c \in Ids : Parses(Inbound(c), <<>>) /\ Parses(Reading(c), <<>>)
  BY <1>1, ParsesEmpty
<1>3. \A c \in Ids : Frames(Inbound(c)) = <<>> /\ Frames(Reading(c)) = <<>>
  BY <1>2, FramesOfParsed
<1>4. StreamsInv
  BY <1>2, <1>3 DEF StreamsInv
<1>5. Coming = [c \in Ids |-> <<>>] /\ Going = [c \in Ids |-> <<>>]
  BY <1>3 DEF Coming, Going
<1>6. ASSUME NEW d \in Ids PROVE Waiting(d) = <<>>
  <2>1. Len(queue[d]) = 0
    BY DEF Init
  <2>2. Waiting(d) \in Seq(Texts) /\ Len(Waiting(d)) = 0
    BY <2>1, WaitingParts
  <2>3. QED
    BY <2>2, EmptySeq
<1>7. Queued = [c \in Ids |-> <<>>]
  BY <1>6 DEF Queued
<1>8. QED
  BY <1>4, <1>5, <1>7

(* All that is on its way to d, and the texts in it. *)
LEMMA OutboundParses ==
    ASSUME BuffersInv, StreamsInv, NEW d \in Ids
    PROVE  Parses(Outbound(d), Going[d] \o Queued[d])
<1> DEFINE q == [i \in 1 .. Len(queue[d]) |-> Written(queue[d][i], objLen[queue[d][i]])]
<1>1. /\ Waiting(d) \in Seq(Texts) /\ Len(Waiting(d)) = Len(queue[d]) /\ Len(queue[d]) \in Nat
      /\ \A i \in 1 .. Len(queue[d]) : Waiting(d)[i] = Text(queue[d][i])
  BY WaitingParts
<1>2. \A i \in 1 .. Len(queue[d]) : Written(queue[d][i], objLen[queue[d][i]]) = Encoded(Text(queue[d][i]))
  BY QueueType, HeldIsFrame DEF BuffersInv
<1>3. q = [i \in 1 .. Len(Waiting(d)) |-> Encoded(Waiting(d)[i])]
  BY <1>1, <1>2
<1>4. Outbound(d) = Reading(d) \o FlattenSeq(q)
  BY DEF Outbound, Reading
<1> HIDE DEF q
<1>5. Parses(FlattenSeq(q), Waiting(d))
  BY <1>1, <1>3, FlattenParses
<1>6. Parses(Reading(d), Going[d]) /\ Queued[d] = Waiting(d)
  BY DEF StreamsInv, Going, Queued
<1>7. QED
  BY <1>4, <1>5, <1>6, ParsesConcat

IInv == BuffersInv /\ StreamsInv

LEMMA FramingInvariant == Spec => []IInv
<1>1. Init => IInv
  BY InitBuffers, InitStreams DEF IInv
<1>2. IInv /\ [Next]_vars => IInv'
  <2> SUFFICES ASSUME BuffersInv, StreamsInv, [Next]_vars PROVE BuffersInv' /\ StreamsInv'
    BY DEF IInv
  <2>1. ASSUME NEW c \in Ids, NEW body \in Bodies, Send(c, body) PROVE BuffersInv' /\ StreamsInv'
    BY <2>1, SendBuffers, SendStreams
  <2>2. ASSUME NEW c \in Ids, Add(c) PROVE BuffersInv' /\ StreamsInv'
    BY <2>2, AddBuffers, AddStreams
  <2>3. ASSUME NEW c \in Ids, Welcome(c) PROVE BuffersInv' /\ StreamsInv'
    BY <2>3, WelcomeBuffers, WelcomeStreams
  <2>4. ASSUME NEW c \in Ids, ReadLen(c) PROVE BuffersInv' /\ StreamsInv'
    BY <2>4, ReadLenBuffers, ReadLenStreams
  <2>5. ASSUME NEW c \in Ids, ReadPart(c) PROVE BuffersInv' /\ StreamsInv'
    BY <2>5, ReadPartBuffers, ReadPartStreams
  <2>6. ASSUME NEW c \in Ids, ReadRest(c) PROVE BuffersInv' /\ StreamsInv'
    BY <2>6, ReadRestBuffers, ReadRestStreams
  <2>7. ASSUME NEW c \in Ids, ReceiveLen(c) PROVE BuffersInv' /\ StreamsInv'
    BY <2>7, ReceiveLenBuffers, ReceiveLenStreams
  <2>8. ASSUME NEW c \in Ids, ReceiveData(c) PROVE BuffersInv' /\ StreamsInv'
    BY <2>8, ReceiveDataBuffers, ReceiveDataStreams
  <2>9. ASSUME Write PROVE BuffersInv' /\ StreamsInv'
    BY <2>9, WriteBuffers, WriteStreams
  <2>10. ASSUME WriteFails PROVE BuffersInv' /\ StreamsInv'
    BY <2>10, WriteFailsBuffers, WriteFailsStreams
  <2>11. ASSUME UNCHANGED vars PROVE BuffersInv' /\ StreamsInv'
    BY <2>11, StutterBuffers, StutterStreams
  <2>12. QED
    BY <2>1, <2>2, <2>3, <2>4, <2>5, <2>6, <2>7, <2>8, <2>9, <2>10, <2>11 DEF Next
<1>3. QED
  BY <1>1, <1>2, PTL DEF Spec

-----------------------------------------------------------------------------
(* The steps as steps of MessageChannel.                                    *)

Messaged(fs) == [i \in DOMAIN fs |-> Message(fs[i])]
Messages == {Message(b) : b \in Bodies}
ToServer == [c \in Ids |-> LET fs == Frames(Inbound(c)) IN [i \in DOMAIN fs |-> Message(fs[i])]]
ToClient == [c \in Ids |-> Frames(Outbound(c))]

LEMMA MessagedParts ==
    ASSUME NEW s \in Seq(Texts)
    PROVE  /\ Messaged(s) \in Seq({Message(b) : b \in Texts}) /\ Len(Messaged(s)) = Len(s)
           /\ \A i \in 1 .. Len(s) : Messaged(s)[i] = Message(s[i])
<1>1. Len(s) \in Nat /\ DOMAIN s = 1 .. Len(s) /\ \A i \in 1 .. Len(s) : s[i] \in Texts
  BY LenProperties, ElementOfSeq
<1>2. Messaged(s) \in [1 .. Len(s) -> {Message(b) : b \in Texts}]
  BY <1>1 DEF Messaged
<1>3. QED
  BY <1>1, <1>2 DEF Messaged

LEMMA MessagedAppend ==
    ASSUME NEW s \in Seq(Texts), NEW b \in Texts
    PROVE  Messaged(Append(s, b)) = Append(Messaged(s), Message(b))
<1> DEFINE M == {Message(x) : x \in Texts}
           m == Messaged(s)
           t == Append(s, b)
<1>1. /\ m \in Seq(M) /\ Len(m) = Len(s) /\ Len(s) \in Nat
      /\ \A i \in 1 .. Len(s) : m[i] = Message(s[i])
  BY MessagedParts, LenProperties
<1>2. Message(b) \in M
  OBVIOUS
<1> HIDE DEF M, m
<1>3. /\ Append(m, Message(b)) \in Seq(M) /\ Len(Append(m, Message(b))) = Len(s) + 1
      /\ \A i \in 1 .. Len(s) : Append(m, Message(b))[i] = Message(s[i])
      /\ Append(m, Message(b))[Len(s) + 1] = Message(b)
  BY <1>1, <1>2, AppendProperties
<1>4. /\ t \in Seq(Texts) /\ Len(t) = Len(s) + 1
      /\ \A i \in 1 .. Len(s) : t[i] = s[i]
      /\ t[Len(s) + 1] = b
  BY AppendProperties
<1> HIDE DEF t
<1>5. /\ Messaged(t) \in Seq({Message(x) : x \in Texts}) /\ Len(Messaged(t)) = Len(t)
      /\ \A i \in 1 .. Len(t) : Messaged(t)[i] = Message(t[i])
  BY <1>4, MessagedParts
<1>6. \A i \in 1 .. Len(s) + 1 : Messaged(t)[i] = Append(m, Message(b))[i]
  <2> TAKE i \in 1 .. Len(s) + 1
  <2>1. i \in 1 .. Len(s) \/ i = Len(s) + 1
    BY <1>1
  <2>2. QED
    BY <1>3, <1>4, <1>5, <2>1
<1>7. Messaged(t) = Append(m, Message(b))
  BY <1>3, <1>4, <1>5, <1>6, SeqEqual DEF M
<1>8. QED
  BY <1>7 DEF t, m

LEMMA MessagedTail ==
    ASSUME NEW s \in Seq(Texts), s # <<>>
    PROVE  /\ Messaged(s) # <<>> /\ Head(Messaged(s)) = Message(Head(s))
           /\ Messaged(Tail(s)) = Tail(Messaged(s))
<1> DEFINE M == {Message(x) : x \in Texts}
           m == Messaged(s)
           t == Tail(s)
<1>1. /\ m \in Seq(M) /\ Len(m) = Len(s) /\ Len(s) \in Nat
      /\ \A i \in 1 .. Len(s) : m[i] = Message(s[i])
  BY MessagedParts, LenProperties
<1>2. /\ Len(s) >= 1 /\ Head(s) = s[1]
      /\ t \in Seq(Texts) /\ Len(t) = Len(s) - 1 /\ \A i \in 1 .. Len(t) : t[i] = s[i + 1]
  BY HeadTailProperties, EmptySeq
<1> HIDE DEF M, m, t
<1>3. m # <<>> /\ Head(m) = m[1]
  BY <1>1, <1>2, HeadTailProperties, EmptySeq
<1>4. Tail(m) \in Seq(M) /\ Len(Tail(m)) = Len(s) - 1 /\ \A i \in 1 .. Len(s) - 1 : Tail(m)[i] = m[i + 1]
  BY <1>1, <1>3, HeadTailProperties
<1>5. /\ Messaged(t) \in Seq({Message(x) : x \in Texts}) /\ Len(Messaged(t)) = Len(t)
      /\ \A i \in 1 .. Len(t) : Messaged(t)[i] = Message(t[i])
  BY <1>2, MessagedParts
<1>6. \A i \in 1 .. Len(s) - 1 : Messaged(t)[i] = Tail(m)[i]
  <2> TAKE i \in 1 .. Len(s) - 1
  <2>1. PICK j \in 1 .. Len(s) : j = i + 1
    BY <1>1
  <2>2. t[i] = s[j] /\ Tail(m)[i] = m[j] /\ m[j] = Message(s[j])
    BY <1>1, <1>2, <1>4, <2>1
  <2>3. Messaged(t)[i] = Message(t[i])
    BY <1>2, <1>5
  <2>4. QED
    BY <2>2, <2>3
<1>7. Messaged(t) = Tail(m)
  BY <1>2, <1>4, <1>5, <1>6, SeqEqual DEF M
<1>8. 1 \in 1 .. Len(s)
  BY <1>1, <1>2
<1>9. QED
  BY <1>1, <1>2, <1>3, <1>7, <1>8 DEF m, t

LEMMA MessagedSame == ToServer' = [c \in Ids |-> Messaged(Coming'[c])]
BY DEF ToServer, Messaged, Coming, Message, IsRelay, ToNobody

LEMMA ToServerIs == ToServer = [c \in Ids |-> Messaged(Coming[c])]
BY DEF ToServer, Messaged, Coming

(* What is on its way to a client: what it can read, and what waits for it. *)
Joined == ToClient = [c \in Ids |-> Going[c] \o Queued[c]]

LEMMA ToClientJoins == IInv => Joined
<1> SUFFICES ASSUME IInv PROVE Joined
  OBVIOUS
<1>1. \A c \in Ids : Frames(Outbound(c)) = Going[c] \o Queued[c]
  BY OutboundParses, FramesOfParsed DEF IInv
<1>2. QED
  BY <1>1 DEF ToClient, Joined

(* The clients that can be addressed, and the steps that add none. *)
ReachableIds == {c \in Ids : Reachable(c)}

LEMMA SameStatus ==
    ASSUME UNCHANGED <<signedChar, state>>
    PROVE  UNCHANGED <<ReachableIds, Registered, Greeted>>
BY DEF ReachableIds, Reachable, Registered, Greeted

LEMMA SendsMessage ==
    ASSUME IInv, Joined, Joined', NEW c \in Ids, NEW body \in Bodies, Send(c, body)
    PROVE  Channel!Send(c, Message(body)) /\ Message(body) \in Messages
<1>1. /\ Coming' = [Coming EXCEPT ![c] = Append(@, body)]
      /\ Going' = Going /\ Queued' = Queued
  BY SendStreams DEF IInv
<1>2. got' = got
  BY DEF Send
<1>3. Coming \in [Ids -> Seq(Texts)] /\ body \in Texts
  BY StreamTypes, BodyType DEF IInv
<1>4. ToClient' = ToClient
  BY <1>1 DEF Joined
<1>5. ToServer' = [ToServer EXCEPT ![c] = Append(@, Message(body))]
  <2>1. Messaged(Append(Coming[c], body)) = Append(Messaged(Coming[c]), Message(body))
    BY <1>3, MessagedAppend
  <2>2. \A e \in Ids : Coming'[e] = IF e = c THEN Append(Coming[c], body) ELSE Coming[e]
    BY <1>1, <1>3
  <2>3. ToServer' = [e \in Ids |-> Messaged(Coming'[e])]
    BY <1>2, MessagedSame
  <2>4. QED
    BY <2>1, <2>2, <2>3, ToServerIs
<1>6. Message(body) \in Messages
  BY DEF Message, Messages
<1>7. UNCHANGED <<ReachableIds, Registered, Greeted>>
  BY SameStatus DEF Send
<1>8. Channel!Send(c, Message(body))
  BY <1>2, <1>4, <1>5, <1>7 DEF Channel!Send, ToServer, ToClient, ReachableIds
<1>9. QED
  BY <1>6, <1>8

LEMMA TextType ==
    ASSUME NEW b \in Texts
    PROVE  SubSeq(b, 3, Len(b)) \in Texts
<1>1. b \in Seq(Bytes) /\ Len(b) \in Nat /\ Len(b) < Base /\ Base \in Nat
  BY ByteType DEF Texts
<1>2. \A i \in 3 .. Len(b) : b[i] \in Bytes
  <2> TAKE i \in 3 .. Len(b)
  <2>1. i \in 1 .. Len(b)
    BY <1>1
  <2>2. QED
    BY <1>1, <2>1, ElementOfSeq
<1>3. /\ SubSeq(b, 3, Len(b)) \in Seq(Bytes)
      /\ Len(SubSeq(b, 3, Len(b))) = IF 3 <= Len(b) THEN Len(b) - 3 + 1 ELSE 0
  BY <1>1, <1>2, SubSeqProperties
<1>4. Len(SubSeq(b, 3, Len(b))) < Base
  <2>1. (IF 3 <= Len(b) THEN Len(b) - 3 + 1 ELSE 0) < Base
    BY <1>1, ByteType
  <2>2. QED
    BY <1>3, <2>1
<1>5. QED
  BY <1>3, <1>4 DEF Texts

(* A text that comes to the end of a queue. *)
LEMMA Delivers ==
    ASSUME IInv, Joined, Joined', Going' = Going, NEW d, NEW t \in Texts,
           Queued' = IF d \in Registered /\ Reachable(d)
                     THEN [Queued EXCEPT ![d] = Append(@, t)] ELSE Queued
    PROVE  Channel!Deliver(d, t)
<1>1. Going \in [Ids -> Seq(Texts)] /\ Queued \in [Ids -> Seq(Texts)]
  BY StreamTypes DEF IInv
<1>2. d \in Registered /\ Reachable(d) <=> d \in Registered \cap ReachableIds
  BY DEF Registered, ReachableIds
<1>3. CASE d \in Registered \cap ReachableIds
  <2>1. d \in Ids
    BY <1>3 DEF ReachableIds
  <2>2. Going[d] \o Append(Queued[d], t) = Append(Going[d] \o Queued[d], t)
    <3>1. PICK g, q : g = Going[d] /\ q = Queued[d]
      OBVIOUS
    <3>2. g \in Seq(Texts) /\ q \in Seq(Texts) /\ <<t>> \in Seq(Texts) /\ g \o q \in Seq(Texts)
      BY <1>1, <2>1, <3>1, ConcatProperties
    <3>3. Append(q, t) = q \o <<t>> /\ Append(g \o q, t) = (g \o q) \o <<t>>
      BY <3>2, AppendIsConcat
    <3>4. (g \o q) \o <<t>> = g \o (q \o <<t>>)
      BY <3>2, ConcatAssociative
    <3>5. QED
      BY <3>1, <3>3, <3>4
  <2>3. Queued' = [Queued EXCEPT ![d] = Append(@, t)]
    BY <1>2, <1>3
  <2>4. ToClient' = [ToClient EXCEPT ![d] = Append(@, t)]
    BY <1>1, <2>2, <2>3 DEF Joined
  <2>5. QED
    BY <1>3, <2>4 DEF Channel!Deliver, ToClient, ReachableIds
<1>4. CASE d \notin Registered \cap ReachableIds
  <2>1. ToClient' = ToClient
    BY <1>2, <1>4 DEF Joined
  <2>2. QED
    BY <1>4, <2>1 DEF Channel!Deliver, ToClient, ReachableIds
<1>5. QED
  BY <1>3, <1>4

LEMMA ReadRestRelays ==
    ASSUME IInv, Joined, Joined', NEW c \in Ids, ReadRest(c)
    PROVE  Channel!Relay(c)
<1> DEFINE b == Head(Coming[c])
           m == Message(b)
<1>1. /\ Coming[c] # <<>>
      /\ Coming' = [Coming EXCEPT ![c] = Tail(@)] /\ Going' = Going
      /\ Queued' = IF Arrives(b)
                   THEN [Queued EXCEPT ![b[2]] = Append(@, SubSeq(b, 3, Len(b)))]
                   ELSE Queued
  BY ReadRestStreams DEF IInv
<1>2. /\ got' = got /\ signedChar' = signedChar /\ state[c] = "data"
      /\ state' = [state EXCEPT ![c] = "len"]
  BY DEF ReadRest, Process, clientVars
<1>3. Coming \in [Ids -> Seq(Texts)] /\ state \in [Ids -> {"absent", "added", "len", "data"}]
  BY StreamTypes DEF IInv, BuffersInv, FramingTypeOK
<1>4. /\ ToServer[c] # <<>> /\ Head(ToServer[c]) = Message(b)
      /\ ToServer' = [ToServer EXCEPT ![c] = Tail(@)]
  <2>1. /\ Messaged(Coming[c]) # <<>> /\ Head(Messaged(Coming[c])) = Message(b)
        /\ Messaged(Tail(Coming[c])) = Tail(Messaged(Coming[c]))
    BY <1>1, <1>3, MessagedTail
  <2> HIDE DEF b
  <2>2. \A e \in Ids : Coming'[e] = IF e = c THEN Tail(Coming[c]) ELSE Coming[e]
    BY <1>1, <1>3
  <2>3. ToServer' = [e \in Ids |-> Messaged(Coming'[e])]
    BY MessagedSame
  <2>4. QED
    BY <2>1, <2>2, <2>3, ToServerIs
<1>5. b \in Texts
  BY <1>1, <1>3, HeadTailProperties
<1> HIDE DEF b
<1>6. Channel!Deliver(m.to, m.text)
  <2>1. CASE IsRelay(b)
    <3>1. PICK d, t : d = b[2] /\ t = SubSeq(b, 3, Len(b))
      OBVIOUS
    <3>2. m.to = d /\ m.text = t
      BY <2>1, <3>1 DEF Message
    <3>3. t \in Texts
      BY <1>5, <3>1, TextType
    <3>4. Queued' = IF d \in Registered /\ Reachable(d)
                    THEN [Queued EXCEPT ![d] = Append(@, t)] ELSE Queued
      BY <1>1, <2>1, <3>1 DEF Arrives
    <3>5. Channel!Deliver(d, t)
      BY <1>1, <3>3, <3>4, Delivers
    <3>6. QED
      BY <3>2, <3>5
  <2>2. CASE ~ IsRelay(b)
    <3>1. m.to = None /\ m.text = <<>>
      BY <2>2 DEF Message, ToNobody
    <3>2. None \notin Registered
      BY FramingAssumption DEF Registered
    <3>3. <<>> \in Texts
      BY ByteType, EmptySeq DEF Texts
    <3>4. Queued' = IF None \in Registered /\ Reachable(None)
                    THEN [Queued EXCEPT ![None] = Append(@, <<>>)] ELSE Queued
      BY <1>1, <2>2, <3>2 DEF Arrives
    <3>5. Channel!Deliver(None, <<>>)
      BY <1>1, <3>3, <3>4, Delivers
    <3>6. QED
      BY <3>1, <3>5
  <2>3. QED
    BY <2>1, <2>2
<1>7. c \in Greeted /\ Greeted' = Greeted /\ Registered' = Registered /\ ReachableIds' = ReachableIds
  BY <1>2, <1>3 DEF Greeted, Registered, ReachableIds, Reachable
<1>8. QED
  BY <1>2, <1>4, <1>6, <1>7 DEF Channel!Relay, ToServer, ReachableIds

LEMMA WelcomeGreets ==
    ASSUME IInv, Joined, Joined', NEW c \in Ids, Welcome(c)
    PROVE  Channel!Greet(c)
<1>1. /\ Coming' = Coming /\ Going' = Going
      /\ Queued' = IF Reachable(c) THEN [Queued EXCEPT ![c] = Append(@, <<c>>)] ELSE Queued
  BY WelcomeStreams DEF IInv
<1>2. /\ got' = got /\ signedChar' = signedChar /\ state[c] = "added"
      /\ state' = [state EXCEPT ![c] = "len"]
  BY DEF Welcome, Process, clientVars
<1>3. state \in [Ids -> {"absent", "added", "len", "data"}]
  BY DEF IInv, BuffersInv, FramingTypeOK
<1>4. c \in Registered \ Greeted
  BY <1>2 DEF Registered, Greeted
<1>5. Greeted' = Greeted \cup {c}
  BY <1>2, <1>3 DEF Greeted
<1>6. Registered' = Registered /\ ReachableIds' = ReachableIds
  BY <1>2, <1>3 DEF Registered, ReachableIds, Reachable
<1>7. <<c>> \in Texts
  <2>1. c \in Bytes /\ Base \in Nat /\ Base >= 4
    BY FramingAssumption
  <2>2. QED
    BY <2>1 DEF Texts
<1>8. Channel!Deliver(c, <<c>>)
  BY <1>1, <1>4, <1>7, Delivers
<1>9. ToServer' = ToServer
  BY <1>1, MessagedSame, ToServerIs
<1>10. QED
  BY <1>2, <1>4, <1>5, <1>6, <1>8, <1>9 DEF Channel!Greet, ToServer, ReachableIds

LEMMA AddJoins ==
    ASSUME IInv, Joined, Joined', NEW c \in Ids, Add(c)
    PROVE  Channel!Join(c)
<1>1. Coming' = Coming /\ Going' = Going /\ Queued' = Queued
  BY AddStreams DEF IInv
<1>2. /\ got' = got /\ signedChar' = signedChar /\ state[c] = "absent"
      /\ state' = [state EXCEPT ![c] = "added"]
      /\ state \in [Ids -> {"absent", "added", "len", "data"}]
  BY DEF Add, clientVars, IInv, BuffersInv, FramingTypeOK
<1>3. c \notin Registered /\ Registered' = Registered \cup {c}
  BY <1>2 DEF Registered
<1>4. Greeted' = Greeted /\ ReachableIds' = ReachableIds
  BY <1>2 DEF Greeted, ReachableIds, Reachable
<1>5. ToClient' = ToClient
  BY <1>1 DEF Joined
<1>6. ToServer' = ToServer
  BY <1>1, MessagedSame, ToServerIs
<1>7. QED
  BY <1>2, <1>3, <1>4, <1>5, <1>6 DEF Channel!Join, ToServer, ToClient, ReachableIds

LEMMA WriteMovesNothing ==
    ASSUME IInv, Joined, Joined', Write
    PROVE  UNCHANGED Channel!vars
<1>1. PICK d : d = sendingTo
  OBVIOUS
<1>2. /\ d \in Ids /\ Queued[d] # <<>> /\ Coming' = Coming
      /\ Going' = [Going EXCEPT ![d] = Append(@, Head(Queued[d]))]
      /\ Queued' = [Queued EXCEPT ![d] = Tail(@)]
  BY <1>1, WriteStreams DEF IInv
<1>3. got' = got /\ UNCHANGED <<ReachableIds, Registered, Greeted>>
  BY SameStatus DEF Write, clientVars
<1>4. Going \in [Ids -> Seq(Texts)] /\ Queued \in [Ids -> Seq(Texts)]
  BY StreamTypes DEF IInv
<1>5. Append(Going[d], Head(Queued[d])) \o Tail(Queued[d]) = Going[d] \o Queued[d]
  <2>1. PICK g, q : g = Going[d] /\ q = Queued[d]
    OBVIOUS
  <2>2. g \in Seq(Texts) /\ q \in Seq(Texts) /\ q # <<>>
    BY <1>2, <1>4, <2>1
  <2>3. Head(q) \in Texts /\ Tail(q) \in Seq(Texts) /\ <<Head(q)>> \in Seq(Texts)
        /\ q = <<Head(q)>> \o Tail(q)
    BY <2>2, HeadTailProperties, HeadThenTail
  <2>4. Append(g, Head(q)) = g \o <<Head(q)>>
    BY <2>2, <2>3, AppendIsConcat
  <2>5. (g \o <<Head(q)>>) \o Tail(q) = g \o (<<Head(q)>> \o Tail(q))
    BY <2>2, <2>3, ConcatAssociative
  <2>6. QED
    BY <2>1, <2>3, <2>4, <2>5
<1>6. \A e \in Ids : Going'[e] \o Queued'[e] = Going[e] \o Queued[e]
  BY <1>2, <1>4, <1>5
<1>7. ToClient' = ToClient
  BY <1>6 DEF Joined
<1>8. ToServer' = ToServer
  BY <1>2, MessagedSame, ToServerIs
<1>9. QED
  BY <1>3, <1>7, <1>8 DEF Channel!vars, ToServer, ToClient, ReachableIds

LEMMA BehindFirst ==
    ASSUME NEW S, NEW h \in S, NEW u \in Seq(S)
    PROVE  <<h>> \o u # <<>> /\ Head(<<h>> \o u) = h /\ Tail(<<h>> \o u) = u
<1> DEFINE s == <<h>> \o u
<1>1. <<h>> \in Seq(S) /\ Len(<<h>>) = 1 /\ <<h>>[1] = h
  OBVIOUS
<1>2. Len(u) \in Nat /\ s \in Seq(S) /\ Len(s) = 1 + Len(u)
  BY <1>1, ConcatProperties, LenProperties
<1>3. \A i \in 1 .. 1 + Len(u) : s[i] = IF i <= 1 THEN <<h>>[i] ELSE u[i - 1]
  BY <1>1, ConcatProperties
<1> HIDE DEF s
<1>4. s # <<>>
  BY <1>2, EmptySeq
<1>5. /\ Head(s) = s[1] /\ Tail(s) \in Seq(S) /\ Len(Tail(s)) = Len(s) - 1
      /\ \A i \in 1 .. Len(Tail(s)) : Tail(s)[i] = s[i + 1]
  BY <1>2, <1>4, HeadTailProperties
<1>6. s[1] = h
  <2>1. 1 \in 1 .. 1 + Len(u)
    BY <1>2
  <2>2. QED
    BY <1>1, <1>3, <2>1
<1>7. Len(Tail(s)) = Len(u)
  BY <1>2, <1>5
<1>8. \A i \in 1 .. Len(u) : Tail(s)[i] = u[i]
  <2> TAKE i \in 1 .. Len(u)
  <2>1. PICK j \in 1 .. 1 + Len(u) : j = i + 1
    BY <1>2
  <2>2. ~ (j <= 1) /\ j - 1 = i
    BY <1>2, <2>1
  <2>3. s[j] = u[i]
    BY <1>3, <2>2
  <2>4. QED
    BY <1>5, <1>7, <2>1, <2>3
<1>9. Tail(s) = u
  BY <1>5, <1>7, <1>8, SeqEqual
<1>10. QED
  BY <1>4, <1>5, <1>6, <1>9 DEF s

LEMMA ReceiveDataReceives ==
    ASSUME IInv, Joined, Joined', NEW c \in Ids, ReceiveData(c)
    PROVE  Channel!Receive(c)
<1>1. /\ Going[c] # <<>> /\ Coming' = Coming /\ Queued' = Queued
      /\ Going' = [Going EXCEPT ![c] = Tail(@)]
      /\ got' = [got EXCEPT ![c] = Append(@, Head(Going[c]))]
  BY ReceiveDataStreams DEF IInv
<1>2. UNCHANGED <<ReachableIds, Registered, Greeted>>
  BY SameStatus DEF ReceiveData
<1>3. Going \in [Ids -> Seq(Texts)] /\ Queued \in [Ids -> Seq(Texts)]
  BY StreamTypes DEF IInv
<1>4. /\ Going[c] \o Queued[c] # <<>> /\ Head(Going[c] \o Queued[c]) = Head(Going[c])
      /\ Tail(Going[c] \o Queued[c]) = Tail(Going[c]) \o Queued[c]
  <2>1. PICK g, q : g = Going[c] /\ q = Queued[c]
    OBVIOUS
  <2>2. g \in Seq(Texts) /\ q \in Seq(Texts) /\ g # <<>>
    BY <1>1, <1>3, <2>1
  <2>3. /\ Head(g) \in Texts /\ Tail(g) \in Seq(Texts) /\ <<Head(g)>> \in Seq(Texts)
        /\ g = <<Head(g)>> \o Tail(g)
    BY <2>2, HeadTailProperties, HeadThenTail
  <2>4. (<<Head(g)>> \o Tail(g)) \o q = <<Head(g)>> \o (Tail(g) \o q)
    BY <2>2, <2>3, ConcatAssociative
  <2>5. Tail(g) \o q \in Seq(Texts)
    BY <2>2, <2>3, ConcatProperties
  <2>6. PICK s : s = <<Head(g)>> \o (Tail(g) \o q)
    OBVIOUS
  <2>7. s # <<>> /\ Head(s) = Head(g) /\ Tail(s) = Tail(g) \o q
    BY <2>3, <2>5, <2>6, BehindFirst
  <2>8. g \o q = s
    BY <2>3, <2>4, <2>6
  <2>9. QED
    BY <2>1, <2>7, <2>8
<1>5. ToServer' = ToServer
  BY <1>1, MessagedSame, ToServerIs
<1>6. ToClient[c] # <<>> /\ Head(ToClient[c]) = Head(Going[c])
  BY <1>4 DEF Joined
<1>7. ToClient' = [ToClient EXCEPT ![c] = Tail(@)]
  <2>1. \A e \in Ids : Going'[e] = IF e = c THEN Tail(Going[c]) ELSE Going[e]
    BY <1>1, <1>3
  <2>2. ToClient[c] = Going[c] \o Queued[c] /\ ToClient' = [e \in Ids |-> Going'[e] \o Queued'[e]]
    BY DEF Joined
  <2>3. \A e \in Ids : Going'[e] \o Queued'[e] = IF e = c THEN Tail(ToClient[c]) ELSE Going[e] \o Queued[e]
    <3> TAKE e \in Ids
    <3>1. Queued'[e] = Queued[e]
      BY <1>1
    <3>2. CASE e = c
      BY <1>4, <2>1, <2>2, <3>1, <3>2
    <3>3. CASE e # c
      BY <2>1, <3>1, <3>3
    <3>4. QED
      BY <3>2, <3>3
  <2>4. QED
    BY <2>2, <2>3 DEF Joined
<1>8. got' = [got EXCEPT ![c] = Append(@, Head(ToClient[c]))]
  BY <1>1, <1>6
<1>9. QED
  BY <1>2, <1>5, <1>6, <1>7, <1>8 DEF Channel!Receive, ToServer, ToClient, ReachableIds

(* The steps that move no frame and greet nobody. *)
LEMMA QuietStep ==
    ASSUME Joined, Joined', Coming' = Coming, Going' = Going, Queued' = Queued,
           UNCHANGED <<ReachableIds, Registered, Greeted, got>>
    PROVE  UNCHANGED Channel!vars
<1>1. ToClient' = ToClient
  BY DEF Joined
<1>2. ToServer' = ToServer
  BY MessagedSame, ToServerIs
<1>3. QED
  BY <1>1, <1>2 DEF Channel!vars, ToServer, ToClient, ReachableIds

LEMMA InitChannel ==
    ASSUME Init, IInv, Joined
    PROVE  Channel!Init
<1>1. /\ Coming = [c \in Ids |-> <<>>] /\ Queued = [c \in Ids |-> <<>>]
      /\ Going = [c \in Ids |-> <<>>]
  BY InitStreams DEF IInv
<1>2. ToClient = [c \in Ids |-> <<>>]
  <2>1. <<>> \o <<>> = <<>>
    OBVIOUS
  <2>2. QED
    BY <1>1, <2>1 DEF Joined
<1>3. ToServer = [c \in Ids |-> <<>>]
  <2>1. Messaged(<<>>) = <<>>
    BY MessagedParts, EmptySeq
  <2>2. QED
    BY <1>1, <2>1, ToServerIs
<1>4. got = [c \in Ids |-> <<>>] /\ Registered = {} /\ Greeted = {}
  BY DEF Init, Registered, Greeted
<1>5. ReachableIds \in SUBSET Ids
  BY DEF ReachableIds
<1>6. QED
  BY <1>2, <1>3, <1>4, <1>5 DEF Channel!Init, ToServer, ToClient, ReachableIds

LEMMA FramingStep ==
    ASSUME IInv, Joined, Joined', [Next]_vars
    PROVE  [Channel!Next]_(Channel!vars)
<1>0. BuffersInv /\ StreamsInv
  BY DEF IInv
<1>1. ASSUME NEW c \in Ids, NEW body \in Bodies, Send(c, body) PROVE Channel!Next
  BY <1>1, SendsMessage DEF Channel!Next, Messages
<1>2. ASSUME NEW c \in Ids, Add(c) PROVE Channel!Next
  BY <1>2, AddJoins DEF Channel!Next
<1>3. ASSUME NEW c \in Ids, Welcome(c) PROVE Channel!Next
  BY <1>3, WelcomeGreets DEF Channel!Next
<1>4. ASSUME NEW c \in Ids, ReadRest(c) PROVE Channel!Next
  BY <1>4, ReadRestRelays DEF Channel!Next
<1>5. ASSUME NEW c \in Ids, ReceiveData(c) PROVE Channel!Next
  BY <1>5, ReceiveDataReceives DEF Channel!Next
<1>6. ASSUME NEW c \in Ids, ReadLen(c) PROVE UNCHANGED Channel!vars
  <2>1. /\ state[c] = "len" /\ state' = [state EXCEPT ![c] = "data"]
        /\ got' = got /\ signedChar' = signedChar
    BY <1>6 DEF ReadLen, clientVars
  <2>2. state \in [Ids -> {"absent", "added", "len", "data"}]
    BY <1>0 DEF BuffersInv, FramingTypeOK
  <2>3. UNCHANGED <<ReachableIds, Registered, Greeted, got>>
    BY <2>1, <2>2 DEF ReachableIds, Reachable, Registered, Greeted
  <2>4. QED
    BY <1>0, <1>6, <2>3, ReadLenStreams, QuietStep
<1>7. ASSUME NEW c \in Ids, ReadPart(c) PROVE UNCHANGED Channel!vars
  <2>1. UNCHANGED <<ReachableIds, Registered, Greeted, got>>
    BY <1>7, SameStatus DEF ReadPart, clientVars
  <2>2. QED
    BY <1>0, <1>7, <2>1, ReadPartStreams, QuietStep
<1>8. ASSUME NEW c \in Ids, ReceiveLen(c) PROVE UNCHANGED Channel!vars
  <2>1. UNCHANGED <<ReachableIds, Registered, Greeted, got>>
    BY <1>8, SameStatus DEF ReceiveLen
  <2>2. QED
    BY <1>0, <1>8, <2>1, ReceiveLenStreams, QuietStep
<1>9. ASSUME Write PROVE UNCHANGED Channel!vars
  BY <1>9, WriteMovesNothing
<1>10. ASSUME WriteFails PROVE UNCHANGED Channel!vars
  <2>1. UNCHANGED <<ReachableIds, Registered, Greeted, got>>
    BY <1>10, SameStatus DEF WriteFails, clientVars
  <2>2. QED
    BY <1>0, <1>10, <2>1, WriteFailsStreams, QuietStep
<1>11. ASSUME UNCHANGED vars PROVE UNCHANGED Channel!vars
  <2>1. UNCHANGED <<ReachableIds, Registered, Greeted, got>>
    BY <1>11, SameStatus DEF vars, clientVars
  <2>2. QED
    BY <1>0, <1>11, <2>1, StutterStreams, QuietStep
<1>12. QED
  BY <1>1, <1>2, <1>3, <1>4, <1>5, <1>6, <1>7, <1>8, <1>9, <1>10, <1>11 DEF Next

(* However the frames are cut into pieces when they are read, and in whatever
   order they are queued and written, the server and its clients are a
   MessageChannel: every frame that a client sends is taken whole, once and in
   order, and its text arrives the same way at the client it is for, if that
   is known and char lets it be addressed (ClientProcessor::process,
   ClientResponder::relay, ClientInfo::send).  A write takes a frame or nothing. *)
THEOREM FramesAreMessages == Spec => ImplementsMessageChannel
<1>1. Init /\ IInv /\ Joined => Channel!Init
  BY InitChannel
<1>2. IInv /\ Joined /\ Joined' /\ [Next]_vars => [Channel!Next]_(Channel!vars)
  BY FramingStep
<1>3. QED
  BY <1>1, <1>2, FramingInvariant, ToClientJoins, PTL
     DEF Spec, ImplementsMessageChannel, Channel!Spec

-----------------------------------------------------------------------------
(* What a channel does with the ids.                                        *)

(* An id that was sent is on its way, or received; those that cannot be
   addressed get nothing. *)
IdSent ==
    /\ \A c \in Greeted \cap ReachableIds : <<c>> \in Range(ToClient[c]) \cup Range(got[c])
    /\ \A c \in Ids \ ReachableIds : ToClient[c] = <<>> /\ got[c] = <<>>

LEMMA TextTypes ==
    ASSUME IInv, Joined
    PROVE  ToClient \in [Ids -> Seq(Texts)] /\ got \in [Ids -> Seq(Seq(Bytes))]
<1>1. Going \in [Ids -> Seq(Texts)] /\ Queued \in [Ids -> Seq(Texts)]
  BY StreamTypes DEF IInv
<1>2. \A c \in Ids : Going[c] \o Queued[c] \in Seq(Texts)
  BY <1>1, ConcatProperties
<1>3. QED
  BY <1>2 DEF Joined, IInv, BuffersInv, FramingTypeOK

LEMMA RangeAppended ==
    ASSUME NEW S, NEW s \in Seq(S), NEW e \in S
    PROVE  Range(Append(s, e)) = Range(s) \cup {e}
<1>1. /\ Append(s, e) \in Seq(S) /\ Len(Append(s, e)) = Len(s) + 1 /\ Len(s) \in Nat
      /\ Append(s, e)[Len(s) + 1] = e /\ \A i \in 1 .. Len(s) : Append(s, e)[i] = s[i]
  BY AppendProperties, LenProperties
<1>2. /\ Range(s) = {s[i] : i \in 1 .. Len(s)}
      /\ Range(Append(s, e)) = {Append(s, e)[i] : i \in 1 .. Len(s) + 1}
  BY <1>1, RangeEquality
<1>3. 1 .. Len(s) + 1 = (1 .. Len(s)) \cup {Len(s) + 1}
  BY <1>1
<1>4. QED
  BY <1>1, <1>2, <1>3

LEMMA RangeHeadTail ==
    ASSUME NEW S, NEW s \in Seq(S), s # <<>>
    PROVE  Range(s) \subseteq {Head(s)} \cup Range(Tail(s))
<1>1. /\ Tail(s) \in Seq(S) /\ Len(Tail(s)) = Len(s) - 1 /\ Head(s) = s[1]
      /\ \A i \in 1 .. Len(Tail(s)) : Tail(s)[i] = s[i + 1]
      /\ Len(s) \in Nat
  BY HeadTailProperties, LenProperties
<1>2. Range(s) = {s[i] : i \in 1 .. Len(s)} /\ Range(Tail(s)) = {Tail(s)[i] : i \in 1 .. Len(s) - 1}
  BY <1>1, RangeEquality
<1>3. ASSUME NEW i \in 1 .. Len(s) PROVE s[i] \in {Head(s)} \cup Range(Tail(s))
  <2>1. CASE i = 1
    BY <1>1, <2>1
  <2>2. CASE i # 1
    <3>1. i - 1 \in 1 .. Len(s) - 1 /\ (i - 1) + 1 = i
      BY <1>1, <2>2
    <3>2. Tail(s)[i - 1] = s[i]
      BY <1>1, <3>1
    <3>3. QED
      BY <1>2, <3>1, <3>2
  <2>3. QED
    BY <2>1, <2>2
<1>4. QED
  BY <1>2, <1>3

(* A delivered text is on its way to its client, if that can be addressed. *)
LEMMA DeliverAppends ==
    ASSUME ToClient \in [Ids -> Seq(Texts)], NEW d, NEW t, Channel!Deliver(d, t)
    PROVE  /\ \A c \in Ids : Range(ToClient[c]) \subseteq Range(ToClient'[c])
           /\ d \in Registered \cap ReachableIds => t \in Range(ToClient'[d])
           /\ \A c \in Ids \ ReachableIds : ToClient'[c] = ToClient[c]
<1>1. ToClient' = IF d \in Registered \cap ReachableIds
                  THEN [ToClient EXCEPT ![d] = Append(@, t)] ELSE ToClient
  BY DEF Channel!Deliver, ToClient, ReachableIds
<1>2. CASE d \in Registered \cap ReachableIds
  <2>1. d \in Ids
    BY <1>2 DEF Registered
  <2>2. ToClient[d] \in Seq(Texts \cup {t}) /\ t \in Texts \cup {t}
    BY <2>1, SeqMonotonic
  <2>3. Range(Append(ToClient[d], t)) = Range(ToClient[d]) \cup {t}
    BY <2>2, RangeAppended
  <2>4. \A c \in Ids : ToClient'[c] = IF c = d THEN Append(ToClient[d], t) ELSE ToClient[c]
    BY <1>1, <1>2, <2>1
  <2>5. QED
    BY <1>2, <2>1, <2>3, <2>4
<1>3. CASE d \notin Registered \cap ReachableIds
  BY <1>1, <1>3
<1>4. QED
  BY <1>2, <1>3

LEMMA InitIdSent ==
    ASSUME Init, Channel!Init
    PROVE  IdSent
<1>1. Greeted = {} /\ ToClient = [c \in Ids |-> <<>>] /\ got = [c \in Ids |-> <<>>]
  BY DEF Channel!Init, Init, Greeted, ToClient
<1>2. QED
  BY <1>1 DEF IdSent

LEMMA IdSentStep ==
    ASSUME IdSent, ToClient \in [Ids -> Seq(Texts)], got \in [Ids -> Seq(Seq(Bytes))],
           [Channel!Next]_(Channel!vars)
    PROVE  IdSent'
<1>1. ASSUME ToClient' = ToClient, UNCHANGED <<got, Greeted, ReachableIds>> PROVE IdSent'
  BY <1>1 DEF IdSent
<1>2. ASSUME NEW c \in Ids, Channel!Join(c) PROVE IdSent'
  BY <1>1, <1>2 DEF Channel!Join, ToClient, ReachableIds
<1>3. ASSUME NEW c \in Ids, NEW m, Channel!Send(c, m) PROVE IdSent'
  BY <1>1, <1>3 DEF Channel!Send, ToClient, ReachableIds
<1>4. ASSUME NEW c \in Ids, Channel!Greet(c) PROVE IdSent'
  <2>1. /\ c \in Registered /\ Greeted' = Greeted \cup {c} /\ Channel!Deliver(c, <<c>>)
        /\ got' = got /\ ReachableIds' = ReachableIds
    BY <1>4 DEF Channel!Greet, ReachableIds
  <2>2. /\ \A e \in Ids : Range(ToClient[e]) \subseteq Range(ToClient'[e])
        /\ c \in Registered \cap ReachableIds => <<c>> \in Range(ToClient'[c])
        /\ \A e \in Ids \ ReachableIds : ToClient'[e] = ToClient[e]
    BY <2>1, DeliverAppends
  <2>3. \A e \in Greeted : e \in Ids
    BY DEF Greeted
  <2>4. QED
    BY <2>1, <2>2, <2>3 DEF IdSent
<1>5. ASSUME NEW c \in Ids, Channel!Relay(c) PROVE IdSent'
  <2>1. PICK d, t : Channel!Deliver(d, t)
    BY <1>5 DEF Channel!Relay
  <2>2. got' = got /\ ReachableIds' = ReachableIds /\ Greeted' = Greeted
    BY <1>5 DEF Channel!Relay, ReachableIds
  <2>3. /\ \A e \in Ids : Range(ToClient[e]) \subseteq Range(ToClient'[e])
        /\ \A e \in Ids \ ReachableIds : ToClient'[e] = ToClient[e]
    BY <2>1, DeliverAppends
  <2>4. \A e \in Greeted : e \in Ids
    BY DEF Greeted
  <2>5. QED
    BY <2>2, <2>3, <2>4 DEF IdSent
<1>6. ASSUME NEW c \in Ids, Channel!Receive(c) PROVE IdSent'
  <2>1. /\ ToClient[c] # <<>> /\ ToClient' = [ToClient EXCEPT ![c] = Tail(@)]
        /\ got' = [got EXCEPT ![c] = Append(@, Head(ToClient[c]))]
        /\ ReachableIds' = ReachableIds /\ Greeted' = Greeted
    BY <1>6 DEF Channel!Receive, ToClient, ReachableIds
  <2>2. c \in ReachableIds
    BY <2>1 DEF IdSent
  <2>3. Range(ToClient[c]) \subseteq {Head(ToClient[c])} \cup Range(Tail(ToClient[c]))
    BY <2>1, RangeHeadTail
  <2>4. Range(Append(got[c], Head(ToClient[c]))) = Range(got[c]) \cup {Head(ToClient[c])}
    <3>1. Head(ToClient[c]) \in Seq(Bytes)
      BY <2>1, HeadTailProperties DEF Texts
    <3>2. QED
      BY <3>1, RangeAppended
  <2>5. \A e \in Ids : /\ ToClient'[e] = IF e = c THEN Tail(ToClient[c]) ELSE ToClient[e]
                       /\ got'[e] = IF e = c THEN Append(got[c], Head(ToClient[c])) ELSE got[e]
    BY <2>1
  <2>6. \A e \in Greeted : e \in Ids
    BY DEF Greeted
  <2>7. ASSUME NEW e \in Greeted \cap ReachableIds
        PROVE  <<e>> \in Range(ToClient'[e]) \cup Range(got'[e])
    <3>1. <<e>> \in Range(ToClient[e]) \cup Range(got[e])
      BY DEF IdSent
    <3>2. CASE e = c
      BY <2>3, <2>4, <2>5, <3>1, <3>2
    <3>3. CASE e # c
      BY <2>5, <2>6, <3>1, <3>3
    <3>4. QED
      BY <3>2, <3>3
  <2>8. ASSUME NEW e \in Ids \ ReachableIds PROVE ToClient'[e] = <<>> /\ got'[e] = <<>>
    BY <2>2, <2>5 DEF IdSent
  <2>9. QED
    BY <2>1, <2>7, <2>8 DEF IdSent
<1>7. ASSUME UNCHANGED Channel!vars PROVE IdSent'
  BY <1>1, <1>7 DEF Channel!vars, ToClient, ReachableIds
<1>8. QED
  BY <1>2, <1>3, <1>4, <1>5, <1>6, <1>7 DEF Channel!Next

LEMMA IdSentArrives ==
    ASSUME IInv, Joined, IdSent
    PROVE  FramingInv
<1>1. ASSUME NEW c \in Ids, Reachable(c), c \in Greeted, Outbound(c) = <<>>
      PROVE  <<c>> \in Range(got[c])
  <2>1. ToClient[c] = <<>>
    BY <1>1, ParsesEmpty, FramesOfParsed DEF ToClient
  <2>2. Range(ToClient[c]) = {}
    <3>1. <<>> \in Seq(Texts) /\ Len(<<>>) = 0
      OBVIOUS
    <3>2. Range(<<>>) = {<<>>[i] : i \in 1 .. 0}
      BY <3>1, RangeEquality
    <3>3. QED
      BY <2>1, <3>2
  <2>3. QED
    BY <1>1, <2>2 DEF IdSent, ReachableIds
<1>2. ASSUME NEW c \in Ids, ~ Reachable(c) PROVE got[c] = <<>>
  BY <1>2 DEF IdSent, ReachableIds
<1>3. QED
  BY <1>1, <1>2 DEF FramingInv, IdArrives, IInv, BuffersInv

(* However the bytes are cut and queued, no variable leaves its type, and a
   client that has been greeted receives its id, among the texts that others
   relay to it from the moment it is in the registry on; but where char is
   signed, one with an id of the upper half never receives anything
   (ClientHandler::addProcessor, ClientProcessor::welcome, ClientResponder::relay). *)
THEOREM IdsArrive == Spec => []FramingInv
<1>1. Init /\ IInv /\ Joined => IdSent
  BY InitChannel, InitIdSent
<1>2. IInv /\ Joined /\ Joined' /\ [Next]_vars /\ IdSent => IdSent'
  BY FramingStep, TextTypes, IdSentStep
<1>3. IInv /\ Joined /\ IdSent => FramingInv
  BY IdSentArrives
<1>4. QED
  BY <1>1, <1>2, <1>3, FramingInvariant, ToClientJoins, PTL DEF Spec
=============================================================================
