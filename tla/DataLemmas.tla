----------------------------- MODULE DataLemmas -----------------------------
(***************************************************************************)
(* Facts about numbers, recursive functions and sequences that the proofs  *)
(* about single components rest on.                                        *)
(***************************************************************************)
EXTENDS Integers, Sequences, SequenceTheorems, WellFoundedInduction, TLAPS

-----------------------------------------------------------------------------
(* Induction and recursion on the numbers up to n *)

\* A set of naturals that has an element has a least one.
LEMMA LeastElement ==
    ASSUME NEW S, S \subseteq Nat, S # {}
    PROVE  \E m \in S : \A x \in S : m <= x
<1>1. PICK R : R = OpToRel(<, Nat)
  OBVIOUS
<1>2. IsWellFoundedOn(R, Nat)
  BY <1>1, NatLessThanWellFounded
<1>3. PICK m \in S : \A x \in S : ~(<<x, m>> \in R)
  BY <1>2, WFMin
<1>4. \A x \in S : ~(x < m)
  BY <1>1, <1>3 DEF OpToRel
<1>5. \A x \in S : m <= x
  BY <1>4
<1> QED  BY <1>5

\* Induction, for the numbers of a set.
LEMMA SetInduction ==
    ASSUME NEW S, NEW N \in Nat, 0 \in S, \A n \in 0..N - 1 : n \in S => n + 1 \in S
    PROVE  0..N \subseteq S
<1> SUFFICES ASSUME ~(0..N \subseteq S)
             PROVE  FALSE
  OBVIOUS
<1>1. PICK T : T = {n \in 0..N : n \notin S}
  OBVIOUS
<1>2. T \subseteq Nat /\ T # {}
  BY <1>1
<1>3. PICK m \in T : \A x \in T : m <= x
  BY <1>2, LeastElement
<1>4. m # 0 /\ m \in 1..N
  BY <1>1
<1>5. m - 1 \in 0..N - 1 /\ m - 1 \in 0..N /\ m - 1 + 1 = m
  BY <1>4
<1>6. m - 1 \notin T
  BY <1>3, <1>4
<1>7. m \in S
  BY <1>1, <1>5, <1>6
<1> QED  BY <1>1, <1>7

\* g follows step from a on.
Runs(g, a, step, N) ==
    /\ g[0] = a
    /\ \A n \in 1..N : g[n] = step[<<g[n - 1], n>>]

\* The value of a recursive function at n is a function of n and of its value at n - 1.
LEMMA Recursion ==
    ASSUME NEW S, NEW a \in S, NEW N \in Nat, NEW step \in [S \X Nat -> S]
    PROVE  \E g \in [0..N -> S] : Runs(g, a, step, N)
<1> DEFINE Goes(g, k) == Runs(g, a, step, k)
           Reached    == {k \in 0..N : \E g \in [0..k -> S] : Goes(g, k)}
<1>1. 0 \in Reached
  <2> DEFINE h == [n \in 0..0 |-> a]
  <2>1. h \in [0..0 -> S] /\ Goes(h, 0) /\ 0 \in 0..N
    BY DEF Runs
  <2> HIDE DEF h, Goes
  <2> QED  BY <2>1
<1>2. ASSUME NEW k \in 0..N - 1, k \in Reached
      PROVE  k + 1 \in Reached
  <2>1. PICK g \in [0..k -> S] : Goes(g, k)
    BY <1>2
  <2> DEFINE h == [n \in 0..k + 1 |-> IF n = k + 1 THEN step[<<g[k], k + 1>>] ELSE g[n]]
  <2>2. h \in [0..k + 1 -> S]
    <3>1. step[<<g[k], k + 1>>] \in S
      <4>1. g[k] \in S /\ k + 1 \in Nat
        OBVIOUS
      <4>2. <<g[k], k + 1>> \in S \X Nat
        BY <4>1
      <4> QED  BY <4>2
    <3> QED  BY <3>1
  <2>3. Goes(h, k + 1)
    <3>1. h[0] = a
      BY <2>1 DEF Runs
    <3>2. ASSUME NEW n \in 1..k + 1
          PROVE  h[n] = step[<<h[n - 1], n>>]
      <4>1. CASE n = k + 1
        <5>1. h[n - 1] = g[k]
          BY <4>1
        <5>2. h[n] = step[<<g[k], k + 1>>]
          BY <2>1, <4>1
        <5> QED  BY <4>1, <5>1, <5>2
      <4>2. CASE n # k + 1
        <5>1. n \in 1..k /\ n - 1 \in 0..k /\ n - 1 # k + 1
          BY <4>2
        <5>2. h[n - 1] = g[n - 1] /\ h[n] = g[n] /\ g[n] = step[<<g[n - 1], n>>]
          BY <2>1, <5>1 DEF Runs
        <5> QED  BY <5>2
      <4> QED  BY <4>1, <4>2
    <3> QED  BY <3>1, <3>2 DEF Runs
  <2>4. k + 1 \in 0..N
    OBVIOUS
  <2> HIDE DEF h, Goes
  <2> QED  BY <2>2, <2>3, <2>4
<1>3. N \in Reached
  <2> HIDE DEF Reached
  <2>1. 0..N \subseteq Reached
    BY <1>1, <1>2, SetInduction
  <2> QED  BY <2>1
<1> QED  BY <1>3

-----------------------------------------------------------------------------
(* A step for each element of a sequence *)

\* k takes step once for each element of s, from a on, as long as it stays in S.
FoldsIn(k, S, a, step, s) ==
    /\ k[0] = a
    /\ \A n \in 1..Len(s) : k[n - 1] \in S => k[n] = step[<<k[n - 1], s[n]>>]

\* step takes a state and an element to the next state.
Advances(step, S, E) == step \in [S \X E -> S]
FoldRuns(g, S, a, step, s) ==
    /\ g[0] = a
    /\ \A n \in 0..Len(s) : g[n] \in S
    /\ \A n \in 1..Len(s) : g[n] = step[<<g[n - 1], s[n]>>]
    /\ g = [n \in 0..Len(s) |-> g[n]]

LEMMA FoldExists ==
    ASSUME NEW S, NEW E, NEW a \in S, NEW step, Advances(step, S, E), NEW s \in Seq(E)
    PROVE  \E g : FoldRuns(g, S, a, step, s)
<1> DEFINE N  == Len(s)
           at == [x \in S \X Nat |-> IF x[2] \in 1..N THEN step[<<x[1], s[x[2]]>>] ELSE a]
<1>1. N \in Nat /\ \A n \in 1..N : s[n] \in E
  OBVIOUS
<1>0. step \in [S \X E -> S]
  BY DEF Advances
<1>2. at \in [S \X Nat -> S]
  <2>1. ASSUME NEW x \in S \X Nat PROVE at[x] \in S
    <3>1. x[1] \in S /\ x[2] \in Nat
      OBVIOUS
    <3>2. CASE x[2] \in 1..N
      <4>1. <<x[1], s[x[2]]>> \in S \X E
        BY <1>1, <3>1, <3>2
      <4> QED  BY <1>0, <3>2, <4>1
    <3> QED  BY <3>2
  <2> QED  BY <2>1
<1>3. PICK g \in [0..N -> S] : Runs(g, a, at, N)
  <2> HIDE DEF at, N
  <2> QED  BY <1>1, <1>2, Recursion
<1>4. ASSUME NEW n \in 1..N PROVE g[n] = step[<<g[n - 1], s[n]>>]
  <2>1. n - 1 \in 0..N /\ n \in Nat
    BY <1>1
  <2>2. g[n - 1] \in S
    BY <1>3, <2>1
  <2>3. <<g[n - 1], n>> \in S \X Nat /\ <<g[n - 1], n>>[1] = g[n - 1] /\ <<g[n - 1], n>>[2] = n
    BY <2>1, <2>2
  <2>4. g[n] = at[<<g[n - 1], n>>]
    BY <1>3 DEF Runs
  <2> QED  BY <2>3, <2>4
<1>5. g[0] = a /\ (\A n \in 0..N : g[n] \in S) /\ g = [n \in 0..N |-> g[n]]
  BY <1>3 DEF Runs
<1> QED  BY <1>4, <1>5 DEF FoldRuns

\* What such a function comes to, and what one more element does.
LEMMA FoldGoes ==
    ASSUME NEW S, NEW E, NEW a \in S, NEW step, Advances(step, S, E),
           NEW s \in Seq(E), NEW k, FoldsIn(k, S, a, step, s)
    PROVE  /\ \A n \in 0..Len(s) : k[n] \in S
           /\ \A e \in E : \A h : FoldsIn(h, S, a, step, Append(s, e)) =>
                 h[Len(s) + 1] = step[<<k[Len(s)], e>>]
<1> DEFINE N  == Len(s)
           In == {n \in 0..N : k[n] \in S}
<1>0. step \in [S \X E -> S]
  BY DEF Advances
<1>1. N \in Nat /\ \A n \in 1..N : s[n] \in E
  OBVIOUS
<1>2. k[0] = a /\ \A n \in 1..N : k[n - 1] \in S => k[n] = step[<<k[n - 1], s[n]>>]
  BY DEF FoldsIn
<1>3. \A n \in 0..N : k[n] \in S
  <2>1. 0 \in In
    BY <1>1, <1>2
  <2>2. ASSUME NEW n \in 0..N - 1, n \in In PROVE n + 1 \in In
    <3>1. n + 1 \in 1..N /\ n + 1 \in 0..N /\ n + 1 - 1 = n
      BY <1>1
    <3>2. k[n] \in S
      BY <2>2
    <3>3. k[n + 1] = step[<<k[n], s[n + 1]>>] /\ s[n + 1] \in E
      BY <1>1, <1>2, <3>1, <3>2
    <3>4. <<k[n], s[n + 1]>> \in S \X E
      BY <3>2, <3>3
    <3> QED  BY <1>0, <3>1, <3>3, <3>4
  <2>3. \A n \in 0..N - 1 : n \in In => n + 1 \in In
    BY <2>2
  <2> HIDE DEF In
  <2>4. 0..N \subseteq In
    BY <1>1, <2>1, <2>3, SetInduction
  <2> QED  BY <2>4 DEF In
<1>4. ASSUME NEW e \in E, NEW h, FoldsIn(h, S, a, step, Append(s, e))
      PROVE  h[N + 1] = step[<<k[N], e>>]
  <2> DEFINE As == {n \in 0..N : h[n] = k[n]}
  <2>1. /\ Len(Append(s, e)) = N + 1 /\ Append(s, e)[N + 1] = e
        /\ \A n \in 1..N : Append(s, e)[n] = s[n]
    OBVIOUS
  <2>2. h[0] = a /\ \A n \in 1..N + 1 : h[n - 1] \in S =>
                       h[n] = step[<<h[n - 1], Append(s, e)[n]>>]
    BY <1>4, <2>1 DEF FoldsIn
  <2>3. 0 \in As
    BY <1>1, <1>2, <2>2
  <2>4. ASSUME NEW n \in 0..N - 1, n \in As PROVE n + 1 \in As
    <3>1. n + 1 \in 1..N /\ n + 1 \in 1..N + 1 /\ n + 1 \in 0..N /\ n + 1 - 1 = n /\ n \in 0..N
      BY <1>1
    <3>2. h[n] = k[n] /\ k[n] \in S
      BY <1>3, <2>4, <3>1
    <3>3. k[n + 1] = step[<<k[n], s[n + 1]>>]
      BY <1>2, <3>1, <3>2
    <3>4. h[n + 1] = step[<<h[n], s[n + 1]>>]
      BY <2>1, <2>2, <3>1, <3>2
    <3> QED  BY <3>1, <3>2, <3>3, <3>4
  <2>5. \A n \in 0..N - 1 : n \in As => n + 1 \in As
    BY <2>4
  <2>6. h[N] = k[N]
    <3> HIDE DEF As
    <3>1. 0..N \subseteq As
      BY <1>1, <2>3, <2>5, SetInduction
    <3> QED  BY <1>1, <3>1 DEF As
  <2>7. N + 1 \in 1..N + 1 /\ N + 1 - 1 = N /\ N \in 0..N
    BY <1>1
  <2> QED  BY <1>3, <2>1, <2>2, <2>6, <2>7
<1> QED  BY <1>3, <1>4

-----------------------------------------------------------------------------
(* Sequences *)

\* Three parts make the same whole whichever two are joined first.
JoinEither(a, b, c) == (a \o b) \o c = a \o (b \o c)

LEMMA JoinsEither ==
    ASSUME NEW S, NEW a \in Seq(S), NEW b \in Seq(S), NEW c \in Seq(S)
    PROVE  JoinEither(a, b, c)
BY ConcatAssociative DEF JoinEither

\* An element appended to the last part of a sequence is appended to the whole.
LEMMA AppendToLast ==
    ASSUME NEW S, NEW a \in Seq(S), NEW b \in Seq(S), NEW e \in S
    PROVE  a \o Append(b, e) = Append(a \o b, e)
<1>1. Append(b, e) = b \o <<e>> /\ Append(a \o b, e) = (a \o b) \o <<e>>
  BY AppendIsConcat, ConcatProperties
<1>2. <<e>> \in Seq(S)
  OBVIOUS
<1> QED  BY <1>1, <1>2, ConcatAssociative

\* The first element of one part moves to the end of the part before it.
LEMMA HeadMoves ==
    ASSUME NEW S, NEW a \in Seq(S), NEW b \in Seq(S), b # <<>>
    PROVE  Append(a, Head(b)) \o Tail(b) = a \o b
<1>1. Head(b) \in S /\ Tail(b) \in Seq(S) /\ b = <<Head(b)>> \o Tail(b)
  BY HeadTailProperties, ConcatProperties, SeqEqual
<1>2. Append(a, Head(b)) = a \o <<Head(b)>> /\ <<Head(b)>> \in Seq(S)
  BY <1>1, AppendIsConcat
<1> QED  BY <1>1, <1>2, ConcatAssociative

\* An element appended to the last of three parts, and the first two joined.
AppendsLast(a, b, c, e) == a \o (b \o Append(c, e)) = Append(a \o (b \o c), e)
JoinsFirst(a, b, c)     == (a \o b) \o (<<>> \o c) = a \o (b \o c)

LEMMA ThreeParts ==
    ASSUME NEW S, NEW a \in Seq(S), NEW b \in Seq(S), NEW c \in Seq(S)
    PROVE  JoinsFirst(a, b, c) /\ \A e \in S : AppendsLast(a, b, c, e)
<1>1. b \o c \in Seq(S) /\ <<>> \o c = c
  BY ConcatProperties, ConcatEmptySeq
<1>2. ASSUME NEW e \in S PROVE a \o (b \o Append(c, e)) = Append(a \o (b \o c), e)
  <2>1. b \o Append(c, e) = Append(b \o c, e)
    BY AppendToLast
  <2> QED  BY <1>1, <2>1, AppendToLast
<1>3. (a \o b) \o c = a \o (b \o c)
  BY ConcatAssociative
<1> QED  BY <1>1, <1>2, <1>3 DEF JoinsFirst, AppendsLast

LEMMA FrontPart ==
    ASSUME NEW S, NEW a \in Seq(S), NEW b \in Seq(S), a # <<>>
    PROVE  a \o b # <<>> /\ Head(a \o b) = Head(a) /\ Tail(a \o b) = Tail(a) \o b
<1>1. a \o b # <<>> /\ Head(a \o b) = Head(a)
  OBVIOUS
<1>2. a = <<Head(a)>> \o Tail(a) /\ <<Head(a)>> \in Seq(S) /\ Tail(a) \in Seq(S)
  OBVIOUS
<1>3. a \o b = <<Head(a)>> \o (Tail(a) \o b) /\ Tail(a) \o b \in Seq(S)
  BY <1>2, ConcatAssociative, ConcatProperties
<1>4. ASSUME NEW x \in S, NEW t \in Seq(S) PROVE Tail(<<x>> \o t) = t
  OBVIOUS
<1>5. Head(a) \in S
  OBVIOUS
<1> QED  BY <1>1, <1>3, <1>4, <1>5
=============================================================================
