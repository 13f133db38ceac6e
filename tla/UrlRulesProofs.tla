---------------------------- MODULE UrlRulesProofs ----------------------------
(***************************************************************************)
(* Theorems about UrlRules: the rules agree with each other, as far as      *)
(* RulesAgree says, for any names, paths, patterns and robots files, of    *)
(* any length.                                                             *)
(***************************************************************************)
EXTENDS UrlRules, FiniteSetTheorems, SequenceTheorems, WellFoundedInduction, TLAPS

RulesSpec == RulesInit /\ [][RulesNext]_uvars

-----------------------------------------------------------------------------
(* Numbers and sequences, one after another.                                 *)

(* A set of numbers below a bound has a smallest one. *)
LEMMA SmallestIs ==
  ASSUME NEW n \in Nat, NEW S \in SUBSET (0..n), S # {}
  PROVE  \E k \in S : \A j \in S : k <= j
<1> DEFINE R == StrictSubsetOrdering(0..n)
           T == {0..i : i \in S}
<1>f. IsFiniteSet(0..n)
  BY FS_Interval
<1>1. IsWellFoundedOn(R, SUBSET (0..n))
  BY <1>f, FS_StrictSubsetOrderingWellFounded, FS_FiniteSubsetsOfFinite
<1>2. T \subseteq SUBSET (0..n) /\ T # {}
  <2>1. ASSUME NEW i \in S PROVE 0..i \in SUBSET (0..n)
    <3>1. i \in 0..n
      OBVIOUS
    <3> QED BY <3>1
  <2> QED BY <2>1
<1>3. PICK t \in T : \A y \in T : <<y, t>> \notin R
  BY <1>1, <1>2, WFMin
<1>4. PICK k \in S : t = 0..k
  OBVIOUS
<1>5. ASSUME NEW j \in S, j < k PROVE FALSE
  <2>1. 0..j \in T /\ 0..j \subseteq t /\ k \in t /\ k \notin 0..j
    BY <1>4, <1>5
  <2>2. <<0..j, t>> \in R
    BY <1>2, <2>1 DEF StrictSubsetOrdering
  <2> QED BY <1>3, <2>1, <2>2
<1>6. \A j \in S : k <= j
  BY <1>5
<1> QED BY <1>6

(* What holds at 0 and is handed on holds up to the bound. *)
LEMMA HandedOn ==
  ASSUME NEW n \in Nat, NEW S, 0 \in S, \A i \in 1..n : i - 1 \in S => i \in S
  PROVE  0..n \subseteq S
<1> DEFINE Wrong == (0..n) \ S
<1> SUFFICES ASSUME Wrong # {} PROVE FALSE
  OBVIOUS
<1>1. PICK k \in Wrong : \A j \in Wrong : k <= j
  BY SmallestIs
<1>2. k \in 1..n /\ k - 1 \in 0..n
  BY <1>1
<1>3. k - 1 \notin Wrong
  BY <1>1, <1>2
<1> QED BY <1>2, <1>3

(* f begins with first and goes on by next. *)
Follows(f, n, A, first, next) ==
  f \in [0..n -> A] /\ f[0] = first /\ \A i \in 1..n : f[i] = next[i][f[i - 1]]

(* A function that is defined from its value before exists. *)
LEMMA StepByStep ==
  ASSUME NEW n \in Nat, NEW A, NEW first \in A, NEW next \in [1..n -> [A -> A]]
  PROVE  \E f : Follows(f, n, A, first, next)
<1> DEFINE Goes(f, k) == Follows(f, k, A, first, next)
           S == {k \in 0..n : \E f : Goes(f, k)}
<1>1. 0 \in S
  <2>1. Goes([i \in 0..0 |-> first], 0)
    BY DEF Follows
  <2> HIDE DEF Goes
  <2>2. 0 \in 0..n
    OBVIOUS
  <2> QED BY <2>1, <2>2
<1>2. ASSUME NEW k \in 1..n, k - 1 \in S PROVE k \in S
  <2>1. PICK f : Goes(f, k - 1)
    BY <1>2
  <2>f. f \in [0..k - 1 -> A] /\ f[0] = first /\ \A i \in 1..k - 1 : f[i] = next[i][f[i - 1]]
    BY <2>1 DEF Follows
  <2> DEFINE g == [i \in 0..k |-> IF i = k THEN next[k][f[k - 1]] ELSE f[i]]
  <2>2. \A i \in 0..k : i # k => i \in 0..k - 1
    OBVIOUS
  <2>3. f[k - 1] \in A /\ next[k][f[k - 1]] \in A
    BY <2>f
  <2>4. g \in [0..k -> A] /\ g[0] = first
    BY <2>f, <2>2, <2>3
  <2>5. ASSUME NEW i \in 1..k PROVE g[i] = next[i][g[i - 1]]
    <3>1. i - 1 \in 0..k /\ i - 1 # k /\ i \in 0..k /\ g[i - 1] = f[i - 1]
      OBVIOUS
    <3>2. CASE i = k
      BY <3>1, <3>2
    <3>3. CASE i # k
      <4>1. i \in 1..k - 1 /\ g[i] = f[i]
        BY <3>3
      <4> QED BY <2>f, <3>1, <4>1
    <3> QED BY <3>2, <3>3
  <2>6. Goes(g, k)
    BY <2>4, <2>5 DEF Follows
  <2>7. k \in 0..n
    OBVIOUS
  <2> HIDE DEF Goes, g
  <2> QED BY <2>6, <2>7
<1>3. n \in S
  <2> HIDE DEF S
  <2>1. 0..n \subseteq S
    BY <1>1, <1>2, HandedOn
  <2> QED BY <2>1
<1> QED BY <1>3

(* What holds of the empty sequence and is handed on by Append holds of all. *)
LEMMA AppendHandsOn ==
  ASSUME NEW T, NEW S, <<>> \in S, \A s \in Seq(T), e \in T : s \in S => Append(s, e) \in S
  PROVE  Seq(T) \subseteq S
<1> SUFFICES ASSUME NEW s \in Seq(T) PROVE s \in S
  OBVIOUS
<1> DEFINE n == Len(s)
           K == {k \in 0..n : SubSeq(s, 1, k) \in S}
<1>1. n \in Nat /\ 0 \in K
  <2>1. SubSeq(s, 1, 0) = <<>> /\ Len(s) \in Nat
    OBVIOUS
  <2>2. 0 \in 0..Len(s)
    BY <2>1
  <2> QED BY <2>1, <2>2
<1>2. ASSUME NEW k \in 1..n, k - 1 \in K PROVE k \in K
  <2>1. k \in 1..Len(s) /\ Len(s) \in Nat /\ SubSeq(s, 1, k - 1) \in S
    BY <1>2
  <2>2. SubSeq(s, 1, k - 1) \in Seq(T) /\ s[k] \in T
    BY <2>1
  <2>3. SubSeq(s, 1, k) = Append(SubSeq(s, 1, k - 1), s[k])
    BY <2>1
  <2>4. Append(SubSeq(s, 1, k - 1), s[k]) \in S
    BY <2>1, <2>2
  <2>5. k \in 0..Len(s)
    BY <2>1
  <2> QED BY <2>3, <2>4, <2>5
<1>3. n \in K
  <2> HIDE DEF K, n
  <2>1. 0..n \subseteq K
    BY <1>1, <1>2, HandedOn
  <2> QED BY <1>1, <2>1
<1>4. SubSeq(s, 1, n) = s
  OBVIOUS
<1> QED BY <1>3, <1>4

LEMMA SeqOfMore ==
  ASSUME NEW T, NEW S, S \subseteq T, NEW s \in Seq(S)
  PROVE  s \in Seq(T)
  OBVIOUS

LEMMA SameElements ==
  ASSUME NEW T, NEW s \in Seq(T), NEW t \in Seq(T), Len(s) = Len(t), \A i \in 1..Len(s) : s[i] = t[i]
  PROVE  s = t
  OBVIOUS

(* Front, Last and Append. *)
LEMMA FrontLast ==
  ASSUME NEW T, NEW s \in Seq(T), s # <<>>
  PROVE  /\ Front(s) \in Seq(T) /\ Last(s) \in T /\ s = Append(Front(s), Last(s))
         /\ Len(s) \in Nat \ {0} /\ Len(Front(s)) = Len(s) - 1
         /\ \A i \in 1..Len(s) - 1 : Front(s)[i] = s[i]
<1>1. Len(s) \in Nat \ {0} /\ Last(s) \in T
  BY DEF Last
<1>2. Front(s) \in Seq(T) /\ Len(Front(s)) = Len(s) - 1 /\ \A i \in 1..Len(s) - 1 : Front(s)[i] = s[i]
  <2> DEFINE m == Len(s) - 1
  <2>1. m \in Nat /\ \A i \in 1..m : s[i] \in T
    BY <1>1
  <2>2. Front(s) = SubSeq(s, 1, m)
    BY DEF Front
  <2> HIDE DEF m
  <2>3. /\ SubSeq(s, 1, m) \in Seq(T) /\ Len(SubSeq(s, 1, m)) = IF 1 <= m THEN m - 1 + 1 ELSE 0
        /\ \A i \in 1..m - 1 + 1 : SubSeq(s, 1, m)[i] = s[1 + i - 1]
    BY <2>1, SubSeqProperties
  <2>4. Front(s) \in Seq(T) /\ Len(Front(s)) = m /\ \A i \in 1..m : Front(s)[i] = s[i]
    BY <2>1, <2>2, <2>3
  <2> QED BY <2>4 DEF m
<1>3. Append(Front(s), Last(s)) \in Seq(T) /\ Len(Append(Front(s), Last(s))) = Len(s)
  BY <1>1, <1>2
<1>4. \A i \in 1..Len(s) : Append(Front(s), Last(s))[i] = s[i]
  BY <1>1, <1>2 DEF Last
<1> QED BY <1>1, <1>2, <1>3, <1>4, SameElements

LEMMA AppendLast ==
  ASSUME NEW T, NEW s \in Seq(T), NEW e \in T
  PROVE  /\ Append(s, e) \in Seq(T) /\ Append(s, e) # <<>>
         /\ Front(Append(s, e)) = s /\ Last(Append(s, e)) = e
  BY DEF Front, Last

-----------------------------------------------------------------------------
(* Without. *)

WithoutGoes(w, s, drop) ==
  w = [i \in 0..Len(s) |-> IF i = 0 THEN <<>> ELSE IF s[i] \in drop THEN w[i - 1] ELSE Append(w[i - 1], s[i])]

LEMMA WithoutIs ==
  ASSUME NEW T, NEW s \in Seq(T), NEW drop
  PROVE  \E w : /\ WithoutGoes(w, s, drop) /\ Without(s, drop) = w[Len(s)]
                /\ \A i \in 0..Len(s) : w[i] \in Seq(T \ drop)
<1> DEFINE n == Len(s)
           A == Seq(T \ drop)
           next == [i \in 1..n |-> [a \in A |-> IF s[i] \in drop THEN a ELSE Append(a, s[i])]]
<1>1. n \in Nat /\ <<>> \in A
  OBVIOUS
<1>2. next \in [1..n -> [A -> A]]
  <2>1. ASSUME NEW i \in 1..n, NEW a \in A PROVE (IF s[i] \in drop THEN a ELSE Append(a, s[i])) \in A
    OBVIOUS
  <2> QED BY <2>1
<1>3. PICK f : Follows(f, n, A, <<>>, next)
  <2> HIDE DEF A, n, next
  <2> QED BY <1>1, <1>2, StepByStep
<1>f. f \in [0..n -> A] /\ f[0] = <<>> /\ \A i \in 1..n : f[i] = next[i][f[i - 1]]
  BY <1>3 DEF Follows
<1>4. ASSUME NEW i \in 1..n PROVE f[i] = IF s[i] \in drop THEN f[i - 1] ELSE Append(f[i - 1], s[i])
  <2>1. i - 1 \in 0..n /\ f[i - 1] \in A
    BY <1>f
  <2> QED BY <1>f, <2>1
<1>5. WithoutGoes(f, s, drop)
  <2>1. ASSUME NEW i \in 0..n
        PROVE  f[i] = IF i = 0 THEN <<>> ELSE IF s[i] \in drop THEN f[i - 1] ELSE Append(f[i - 1], s[i])
    <3>1. i # 0 => i \in 1..n
      BY <1>1
    <3> QED BY <1>f, <1>4, <3>1
  <2> QED BY <1>f, <2>1 DEF WithoutGoes
<1> DEFINE w == CHOOSE w : WithoutGoes(w, s, drop)
<1>6. WithoutGoes(w, s, drop)
  BY <1>5
<1>7. Without(s, drop) = w[n]
  BY DEF Without, WithoutGoes
<1> HIDE DEF w
<1>8. \A i \in 0..n : w[i] \in A
  <2> DEFINE S == {i \in 0..n : w[i] \in A}
  <2>1. 0 \in S
    BY <1>6 DEF WithoutGoes
  <2>2. ASSUME NEW i \in 1..n, i - 1 \in S PROVE i \in S
    <3>1. i \in 0..n /\ i # 0 /\ s[i] \in T /\ w[i - 1] \in A
      BY <2>2
    <3>2. w[i] = IF s[i] \in drop THEN w[i - 1] ELSE Append(w[i - 1], s[i])
      BY <1>6, <3>1 DEF WithoutGoes
    <3>3. s[i] \notin drop => Append(w[i - 1], s[i]) \in A
      BY <3>1
    <3> QED BY <3>1, <3>2, <3>3
  <2>3. 0..n \subseteq S
    <3> HIDE DEF S, n
    <3> QED BY <1>1, <2>1, <2>2, HandedOn
  <2> QED BY <2>3
<1> QED BY <1>6, <1>7, <1>8

LEMMA WithoutType ==
  ASSUME NEW T, NEW s \in Seq(T), NEW drop
  PROVE  Without(s, drop) \in Seq(T \ drop)
<1>1. PICK w : Without(s, drop) = w[Len(s)] /\ \A i \in 0..Len(s) : w[i] \in Seq(T \ drop)
  BY WithoutIs
<1>2. Len(s) \in 0..Len(s)
  OBVIOUS
<1> QED BY <1>1, <1>2

LEMMA WithoutNothing == \A drop : Without(<<>>, drop) = <<>>
<1> SUFFICES ASSUME NEW drop PROVE Without(<<>>, drop) = <<>>
  OBVIOUS
<1> DEFINE e == <<>>
<1>1. e \in Seq({}) /\ Len(e) = 0 /\ e = <<>>
  OBVIOUS
<1> HIDE DEF e
<1>2. PICK w : WithoutGoes(w, e, drop) /\ Without(e, drop) = w[Len(e)]
  BY <1>1, WithoutIs
<1>3. w[0] = <<>>
  BY <1>1, <1>2 DEF WithoutGoes
<1> QED BY <1>1, <1>2, <1>3

LEMMA WithoutAppend ==
  ASSUME NEW T, NEW s \in Seq(T), NEW e \in T, NEW drop
  PROVE  Without(Append(s, e), drop) = IF e \in drop THEN Without(s, drop) ELSE Append(Without(s, drop), e)
<1> DEFINE t == Append(s, e)
           n == Len(s)
<1>1. t \in Seq(T) /\ n \in Nat /\ Len(t) = n + 1 /\ t[n + 1] = e /\ \A i \in 1..n : t[i] = s[i]
  OBVIOUS
<1> HIDE DEF t
<1>2. PICK v : WithoutGoes(v, s, drop) /\ Without(s, drop) = v[n]
  BY WithoutIs
<1>3. PICK w : WithoutGoes(w, t, drop) /\ Without(t, drop) = w[Len(t)]
  <2>1. t \in Seq(T)
    BY <1>1
  <2> HIDE DEF n
  <2> QED BY <2>1, WithoutIs
<1> HIDE DEF n
<1>s. n \in Nat /\ n \in 0..n
  BY <1>1
<1> DEFINE S == {i \in 0..n : w[i] = v[i]}
<1>4. 0 \in S
  <2>1. 0 \in 0..n /\ 0 \in 0..Len(s) /\ 0 \in 0..Len(t)
    BY <1>1 DEF n
  <2> QED BY <1>2, <1>3, <2>1 DEF WithoutGoes
<1>5. ASSUME NEW i \in 1..n, i - 1 \in S PROVE i \in S
  <2>1. i \in 0..n /\ i \in 0..Len(s) /\ i \in 0..Len(t) /\ i # 0 /\ t[i] = s[i]
    BY <1>1 DEF n
  <2>2. v[i] = IF s[i] \in drop THEN v[i - 1] ELSE Append(v[i - 1], s[i])
    BY <1>2, <2>1 DEF WithoutGoes
  <2>3. w[i] = IF t[i] \in drop THEN w[i - 1] ELSE Append(w[i - 1], t[i])
    BY <1>3, <2>1 DEF WithoutGoes
  <2> QED BY <1>5, <2>1, <2>2, <2>3
<1>6. w[n] = v[n]
  <2> HIDE DEF S
  <2>1. 0..n \subseteq S
    BY <1>s, <1>4, <1>5, HandedOn
  <2> QED BY <1>s, <2>1 DEF S
<1>7. w[n + 1] = IF t[n + 1] \in drop THEN w[n] ELSE Append(w[n], t[n + 1])
  <2> DEFINE m == n + 1
  <2>1. m \in 0..Len(t) /\ m # 0 /\ m - 1 = n
    BY <1>1
  <2>2. \A i \in 0..Len(t) : i # 0 => w[i] = IF t[i] \in drop THEN w[i - 1] ELSE Append(w[i - 1], t[i])
    BY <1>3 DEF WithoutGoes
  <2> HIDE DEF m
  <2>3. w[m] = IF t[m] \in drop THEN w[m - 1] ELSE Append(w[m - 1], t[m])
    BY <2>1, <2>2
  <2>4. w[m] = IF t[m] \in drop THEN w[n] ELSE Append(w[n], t[m])
    BY <2>1, <2>3
  <2> QED BY <2>4 DEF m
<1> QED BY <1>1, <1>2, <1>3, <1>6, <1>7 DEF t

LEMMA WithoutAll ==
  ASSUME NEW T, NEW s \in Seq(T), NEW drop, T \cap drop = {}
  PROVE  Without(s, drop) = s
<1> DEFINE S == {t \in Seq(T) : Without(t, drop) = t}
<1>1. <<>> \in S
  BY WithoutNothing
<1>2. ASSUME NEW t \in Seq(T), NEW e \in T, t \in S PROVE Append(t, e) \in S
  <2>1. Without(Append(t, e), drop) = Append(t, e)
    BY <1>2, WithoutAppend
  <2> QED BY <2>1
<1>3. Seq(T) \subseteq S
  <2> HIDE DEF S
  <2> QED BY <1>1, <1>2, AppendHandsOn
<1> QED BY <1>3

LEMMA WithoutConcat ==
  ASSUME NEW T, NEW s \in Seq(T), NEW t \in Seq(T), NEW drop
  PROVE  Without(s \o t, drop) = Without(s, drop) \o Without(t, drop)
<1> DEFINE S == {u \in Seq(T) : Without(s \o u, drop) = Without(s, drop) \o Without(u, drop)}
<1>0. Without(s, drop) \in Seq(T \ drop)
  BY WithoutType
<1>1. <<>> \in S
  <2>1. s \o <<>> = s /\ Without(<<>>, drop) = <<>> /\ <<>> \in Seq(T)
    BY WithoutNothing
  <2>2. Without(s, drop) \o <<>> = Without(s, drop)
    BY <1>0
  <2> QED BY <2>1, <2>2
<1>2. ASSUME NEW u \in Seq(T), NEW e \in T, u \in S PROVE Append(u, e) \in S
  <2>1. s \o Append(u, e) = Append(s \o u, e) /\ s \o u \in Seq(T) /\ Append(u, e) \in Seq(T)
    OBVIOUS
  <2>2. /\ Without(Append(s \o u, e), drop) = IF e \in drop THEN Without(s \o u, drop) ELSE Append(Without(s \o u, drop), e)
        /\ Without(Append(u, e), drop) = IF e \in drop THEN Without(u, drop) ELSE Append(Without(u, drop), e)
    <3>1. ASSUME NEW x \in Seq(T)
          PROVE  Without(Append(x, e), drop) = IF e \in drop THEN Without(x, drop) ELSE Append(Without(x, drop), e)
      BY WithoutAppend
    <3> QED BY <2>1, <3>1
  <2>3. Without(u, drop) \in Seq(T \ drop)
    BY WithoutType
  <2>4. CASE e \in drop
    BY <1>2, <2>1, <2>2, <2>4
  <2>5. CASE e \notin drop
    <3>1. Without(s, drop) \o Append(Without(u, drop), e) = Append(Without(s, drop) \o Without(u, drop), e)
      BY <1>0, <2>3, <2>5
    <3> QED BY <1>2, <2>1, <2>2, <2>5, <3>1
  <2> QED BY <2>4, <2>5
<1>3. Seq(T) \subseteq S
  <2> HIDE DEF S
  <2> QED BY <1>1, <1>2, AppendHandsOn
<1> QED BY <1>3

LEMMA WithoutEnds ==
  ASSUME NEW T, NEW s \in Seq(T), s # <<>>, NEW drop
  PROVE  Without(s, drop) = IF Last(s) \in drop THEN Without(Front(s), drop)
                            ELSE Append(Without(Front(s), drop), Last(s))
<1>1. Front(s) \in Seq(T) /\ Last(s) \in T /\ s = Append(Front(s), Last(s))
  BY FrontLast
<1> DEFINE f == Front(s)
           l == Last(s)
<1> HIDE DEF f, l
<1>2. Without(Append(f, l), drop) = IF l \in drop THEN Without(f, drop) ELSE Append(Without(f, drop), l)
  BY <1>1, WithoutAppend DEF f, l
<1> QED BY <1>1, <1>2 DEF f, l

-----------------------------------------------------------------------------
(* Escapes. *)

UnescapeGoes(u, p) == u = [i \in 0..Len(p) |-> IF i = 0 THEN <<>> ELSE u[i - 1] \o Meant(p[i])]

LEMMA MeantType == \A e \in Segment : Meant(e) \in Seq(Segment)
<1>1. ASSUME NEW e \in Segment, e \in DOMAIN Escape PROVE Escape[e] \in Seq(Segment)
  BY <1>1, RulesAssumption
<1> QED BY <1>1 DEF Meant

LEMMA UnescapeIs ==
  ASSUME NEW p \in Seq(Segment)
  PROVE  \E u : /\ UnescapeGoes(u, p) /\ Unescape(p) = IF ToSet(p) \cap Broken # {} THEN p ELSE u[Len(p)]
                /\ \A i \in 0..Len(p) : u[i] \in Seq(Segment)
<1> DEFINE n == Len(p)
           A == Seq(Segment)
           next == [i \in 1..n |-> [a \in A |-> a \o Meant(p[i])]]
<1>1. n \in Nat /\ <<>> \in A
  OBVIOUS
<1>2. next \in [1..n -> [A -> A]]
  <2>1. ASSUME NEW i \in 1..n, NEW a \in A PROVE (a \o Meant(p[i])) \in A
    <3>1. Meant(p[i]) \in Seq(Segment)
      BY MeantType
    <3> QED BY <3>1
  <2> QED BY <2>1
<1>3. PICK f : Follows(f, n, A, <<>>, next)
  <2> HIDE DEF A, n, next
  <2> QED BY <1>1, <1>2, StepByStep
<1>f. f \in [0..n -> A] /\ f[0] = <<>> /\ \A i \in 1..n : f[i] = next[i][f[i - 1]]
  BY <1>3 DEF Follows
<1>4. ASSUME NEW i \in 1..n PROVE f[i] = f[i - 1] \o Meant(p[i])
  <2>1. i - 1 \in 0..n /\ f[i - 1] \in A
    BY <1>f
  <2> QED BY <1>f, <2>1
<1>5. UnescapeGoes(f, p)
  <2>1. ASSUME NEW i \in 0..n
        PROVE  f[i] = IF i = 0 THEN <<>> ELSE f[i - 1] \o Meant(p[i])
    <3>1. i # 0 => i \in 1..n
      BY <1>1
    <3> QED BY <1>f, <1>4, <3>1
  <2> QED BY <1>f, <2>1 DEF UnescapeGoes
<1> DEFINE u == CHOOSE u : UnescapeGoes(u, p)
<1>6. UnescapeGoes(u, p)
  BY <1>5
<1>7. Unescape(p) = IF ToSet(p) \cap Broken # {} THEN p ELSE u[n]
  BY DEF Unescape, UnescapeGoes
<1> HIDE DEF u
<1>8. \A i \in 0..n : u[i] \in A
  <2> DEFINE S == {i \in 0..n : u[i] \in A}
  <2>1. 0 \in S
    BY <1>6 DEF UnescapeGoes
  <2>2. ASSUME NEW i \in 1..n, i - 1 \in S PROVE i \in S
    <3>1. i \in 0..n /\ i # 0 /\ p[i] \in Segment /\ u[i - 1] \in A
      BY <2>2
    <3>2. u[i] = u[i - 1] \o Meant(p[i])
      BY <1>6, <3>1 DEF UnescapeGoes
    <3>3. Meant(p[i]) \in Seq(Segment)
      BY <3>1, MeantType
    <3> DEFINE a == u[i - 1]
               m == Meant(p[i])
    <3>4. a \in Seq(Segment) /\ m \in Seq(Segment) /\ u[i] = a \o m
      BY <3>1, <3>2, <3>3
    <3> HIDE DEF a, m
    <3>5. a \o m \in Seq(Segment)
      BY <3>4
    <3> QED BY <3>1, <3>4, <3>5
  <2>3. 0..n \subseteq S
    <3> HIDE DEF S, n
    <3> QED BY <1>1, <2>1, <2>2, HandedOn
  <2> QED BY <2>3
<1> QED BY <1>6, <1>7, <1>8

(* Of a literal path nothing is taken out ...                                *)
LEMMA UnescapeNothing ==
  ASSUME NEW T, NEW p \in Seq(T), ToSet(p) \cap (DOMAIN Escape \cup Broken \cup DOMAIN Before) = {}
  PROVE  Unescape(p) = p
<1> DEFINE n == Len(p)
           A == Seq(T)
           u == CHOOSE u : UnescapeGoes(u, p)
           f == [i \in 0..n |-> SubSeq(p, 1, i)]
<1>1. n \in Nat /\ n \in 0..n /\ \A i \in 1..n : Meant(p[i]) = <<p[i]>>
  BY DEF Meant, ToSet
<1>2. UnescapeGoes(f, p)
  <2>1. ASSUME NEW i \in 0..n PROVE f[i] = IF i = 0 THEN <<>> ELSE f[i - 1] \o Meant(p[i])
    <3>1. CASE i = 0
      BY <3>1
    <3>2. CASE i # 0
      <4>1. i \in 1..n /\ i - 1 \in 0..n /\ p[i] \in T /\ SubSeq(p, 1, i - 1) \in Seq(T)
        BY <3>2
      <4>2. f[i] = SubSeq(p, 1, i) /\ f[i - 1] = SubSeq(p, 1, i - 1) /\ Meant(p[i]) = <<p[i]>>
        BY <1>1, <4>1
      <4>3. SubSeq(p, 1, i) = Append(SubSeq(p, 1, i - 1), p[i])
        BY <4>1
      <4>4. Append(SubSeq(p, 1, i - 1), p[i]) = SubSeq(p, 1, i - 1) \o <<p[i]>>
        BY <4>1
      <4> HIDE DEF f
      <4> QED BY <3>2, <4>2, <4>3, <4>4
    <3> QED BY <3>1, <3>2
  <2> HIDE DEF n
  <2>2. f = [i \in 0..n |-> IF i = 0 THEN <<>> ELSE f[i - 1] \o Meant(p[i])]
    BY <2>1
  <2> QED BY <2>2 DEF UnescapeGoes, n
<1>3. UnescapeGoes(u, p)
  <2> HIDE DEF f
  <2> QED BY <1>2
<1>4. Unescape(p) = IF ToSet(p) \cap Broken # {} THEN p ELSE u[n]
  BY DEF Unescape, UnescapeGoes
<1> HIDE DEF u, f
<1> DEFINE S == {i \in 0..n : u[i] = f[i]}
<1>5. 0 \in S
  <2>1. 0 \in 0..n
    BY <1>1
  <2> QED BY <1>2, <1>3, <2>1 DEF UnescapeGoes
<1>6. ASSUME NEW i \in 1..n, i - 1 \in S PROVE i \in S
  <2>1. i \in 0..n /\ i # 0
    OBVIOUS
  <2>2. u[i] = u[i - 1] \o Meant(p[i]) /\ f[i] = f[i - 1] \o Meant(p[i])
    BY <1>2, <1>3, <2>1 DEF UnescapeGoes
  <2> QED BY <1>6, <2>1, <2>2
<1>7. u[n] = f[n]
  <2> HIDE DEF S, n
  <2>1. 0..n \subseteq S
    BY <1>1, <1>5, <1>6, HandedOn
  <2> QED BY <1>1, <2>1 DEF S
<1>8. f[n] = p
  BY <1>1 DEF f
<1> QED BY <1>4, <1>7, <1>8

(* ... and url.Parse reads it as it is written.                              *)
LEMMA UnescapeLiteral ==
  ASSUME NEW p \in Seq(Segment)
  PROVE  Unescape(p) \in Seq(Segment) /\ (Literal(p) => Unescape(p) = p /\ Parse(p) = p)
<1> DEFINE n == Len(p)
<1>1. PICK u : /\ Unescape(p) = IF ToSet(p) \cap Broken # {} THEN p ELSE u[n]
               /\ \A i \in 0..n : u[i] \in Seq(Segment)
  BY UnescapeIs
<1>2. n \in Nat /\ n \in 0..n
  OBVIOUS
<1>3. Unescape(p) \in Seq(Segment)
  BY <1>1, <1>2
<1>4. ASSUME Literal(p) PROVE Unescape(p) = p /\ Parse(p) = p
  <2>1. \A i \in 1..Len(p) : p[i] \notin DOMAIN Before
    BY <1>4 DEF Literal, ToSet
  <2>2. {i \in 1..Len(p) : p[i] \in DOMAIN Before} = {}
    BY <2>1
  <2>3. Parse(p) = Unescape(p)
    BY <2>2, Zenon DEF Parse
  <2>4. Unescape(p) = p
    BY <1>4, UnescapeNothing DEF Literal
  <2> QED BY <2>3, <2>4
<1> QED BY <1>3, <1>4

(* A path has a name for every one it is read with.                          *)
LEMMA UnescapeSome ==
  ASSUME NEW p \in Seq(Segment), p # <<>>
  PROVE  Unescape(p) # <<>>
<1>1. PICK u : /\ UnescapeGoes(u, p) /\ Unescape(p) = IF ToSet(p) \cap Broken # {} THEN p ELSE u[Len(p)]
               /\ \A i \in 0..Len(p) : u[i] \in Seq(Segment)
  BY UnescapeIs
<1> DEFINE n == Len(p)
<1>2. n \in 0..n /\ n # 0 /\ n - 1 \in 0..n /\ p[n] \in Segment
  OBVIOUS
<1>3. u[n] = u[n - 1] \o Meant(p[n]) /\ u[n - 1] \in Seq(Segment)
  BY <1>1, <1>2 DEF UnescapeGoes
<1>4. Meant(p[n]) \in Seq(Segment) /\ Meant(p[n]) # <<>>
  BY <1>2, MeantType, RulesAssumption DEF Meant
<1>5. u[n] # <<>>
  <2> DEFINE a == u[n - 1]
             m == Meant(p[n])
  <2>1. a \in Seq(Segment) /\ m \in Seq(Segment) /\ m # <<>> /\ u[n] = a \o m
    BY <1>3, <1>4
  <2> HIDE DEF a, m
  <2>2. Len(a \o m) = Len(a) + Len(m) /\ Len(a) \in Nat /\ Len(m) \in Nat /\ Len(m) # 0
    BY <2>1
  <2> QED BY <2>1, <2>2
<1> QED BY <1>1, <1>5

-----------------------------------------------------------------------------
(* The normal form of a path: what the stack of normalizePath is left with   *)
(* is what a reader from the right counts.                                   *)

LEMMA BlankIs == Blank \notin Name /\ Blank \notin {".", "..", "/", "*", "?", Index}
  BY RulesAssumption, Zenon DEF Blank, Index

(* The names of a path, and its "..". *)
Moves(p) == Without(p, {Blank, "."})

LEMMA MovesType ==
  ASSUME NEW p \in Seq(Segment)
  PROVE  Moves(p) \in Seq(Name \cup {".."})
<1>1. Moves(p) \in Seq(Segment \ {Blank, "."})
  BY WithoutType DEF Moves
<1>2. Segment \ {Blank, "."} \subseteq Name \cup {".."}
  BY DEF Segment
<1> QED BY <1>1, <1>2, SeqOfMore

(* What is resolved are the moves after a root, but for a "" at the end. *)
LEMMA CollapseIs ==
  ASSUME NEW p \in Seq(Segment), p # <<>>
  PROVE  Collapse(p) = <<"/">> \o Moves(p) \/ Collapse(p) = Append(<<"/">> \o Moves(p), Blank)
<1> DEFINE inner == Without(Front(p), {Blank, "."})
           last == Last(p)
<1>1. Front(p) \in Seq(Segment) /\ last \in Segment /\ p = Append(Front(p), last)
  BY FrontLast
<1>2. Moves(p) = IF last \in {Blank, "."} THEN inner ELSE Append(inner, last)
  BY WithoutEnds, Zenon DEF Moves
<1>3. inner \in Seq(Segment)
  <2>1. inner \in Seq(Segment \ {Blank, "."})
    BY <1>1, WithoutType
  <2>2. Segment \ {Blank, "."} \subseteq Segment
    OBVIOUS
  <2> QED BY <2>1, <2>2, SeqOfMore
<1>4. Collapse(p) = <<"/">> \o inner \o (IF last = "." THEN <<>> ELSE <<last>>)
  BY DEF Collapse
<1> HIDE DEF inner, last
<1> DEFINE head == <<"/">> \o inner
<1>5. head \in Seq(Segment \cup {"/"}) /\ last \in Segment \cup {"/"} /\ <<last>> \in Seq(Segment \cup {"/"})
  BY <1>1, <1>3
<1>6. Append(head, last) = head \o <<last>> /\ head \o <<>> = head
  BY <1>5
<1>7. <<"/">> \o Append(inner, last) = Append(head, last)
  BY <1>1, <1>3
<1> HIDE DEF head
<1>8. CASE last = "."
  BY <1>2, <1>4, <1>6, <1>8 DEF head
<1>9. CASE last = Blank
  BY <1>2, <1>4, <1>6, <1>9 DEF head
<1>10. CASE last \notin {Blank, "."}
  BY <1>2, <1>4, <1>6, <1>7, <1>10 DEF head
<1> QED BY <1>8, <1>9, <1>10

(* d[i]: the stack after the first i of the segments c. *)
Stacks(d, c) == d = [i \in 0..Len(c) |-> IF i = 0 THEN <<>> ELSE TakeBack(d[i - 1], c[i])]

LEMMA TakeBackType ==
  ASSUME NEW T, NEW s \in Seq(T), NEW e \in T
  PROVE  TakeBack(s, e) \in Seq(T)
  BY FrontLast DEF TakeBack

LEMMA ResolvedIs ==
  ASSUME NEW T, NEW p, Collapse(p) \in Seq(T)
  PROVE  \E d : /\ Stacks(d, Collapse(p)) /\ Resolved(p) = d[Len(Collapse(p))]
                /\ \A i \in 0..Len(Collapse(p)) : d[i] \in Seq(T)
<1> DEFINE c == Collapse(p)
           n == Len(c)
           A == Seq(T)
           next == [i \in 1..n |-> [a \in A |-> TakeBack(a, c[i])]]
<1>1. n \in Nat /\ <<>> \in A /\ \A i \in 1..n : c[i] \in T
  OBVIOUS
<1>7. Resolved(p) = (CHOOSE d : Stacks(d, c))[n]
  BY DEF Resolved, Stacks
<1> HIDE DEF c
<1>2. next \in [1..n -> [A -> A]]
  <2>1. ASSUME NEW i \in 1..n, NEW a \in A PROVE TakeBack(a, c[i]) \in A
    BY <1>1, TakeBackType
  <2> QED BY <2>1
<1>3. PICK f : Follows(f, n, A, <<>>, next)
  <2> HIDE DEF A, n, next
  <2> QED BY <1>1, <1>2, StepByStep
<1>f. f \in [0..n -> A] /\ f[0] = <<>> /\ \A i \in 1..n : f[i] = next[i][f[i - 1]]
  BY <1>3 DEF Follows
<1>4. ASSUME NEW i \in 1..n PROVE f[i] = TakeBack(f[i - 1], c[i])
  <2>1. i - 1 \in 0..n /\ f[i - 1] \in A
    BY <1>f
  <2> QED BY <1>f, <2>1
<1>5. Stacks(f, c)
  <2>1. ASSUME NEW i \in 0..n PROVE f[i] = IF i = 0 THEN <<>> ELSE TakeBack(f[i - 1], c[i])
    <3>1. i # 0 => i \in 1..n
      BY <1>1
    <3> QED BY <1>f, <1>4, <3>1
  <2> QED BY <1>f, <2>1 DEF Stacks
<1> DEFINE d == CHOOSE d : Stacks(d, c)
<1>6. Stacks(d, c)
  BY <1>5
<1> HIDE DEF d
<1>8. \A i \in 0..n : d[i] \in A
  <2> DEFINE S == {i \in 0..n : d[i] \in A}
  <2>1. 0 \in S
    BY <1>1, <1>6 DEF Stacks
  <2>2. ASSUME NEW i \in 1..n, i - 1 \in S PROVE i \in S
    <3>1. i \in 0..n /\ i # 0 /\ c[i] \in T /\ d[i - 1] \in A
      BY <1>1, <2>2
    <3>2. d[i] = TakeBack(d[i - 1], c[i])
      BY <1>6, <3>1 DEF Stacks
    <3> QED BY <3>1, <3>2, TakeBackType
  <2>3. 0..n \subseteq S
    <3> HIDE DEF S, n
    <3> QED BY <1>1, <2>1, <2>2, HandedOn
  <2> QED BY <2>3
<1> QED BY <1>6, <1>7, <1>8 DEF c, d

(* What Kept knows after one name more, from the right. *)
Known == [owed : Nat, kept : Seq(Name)]
ReadName(name, after) ==
  IF name = ".." THEN [owed |-> after.owed + 1, kept |-> after.kept]
  ELSE IF after.owed > 0 THEN [owed |-> after.owed - 1, kept |-> after.kept]
  ELSE [owed |-> 0, kept |-> <<name>> \o after.kept]

(* r[i]: what it knows after the last i of the names. *)
Reads(r, names) ==
  r = [i \in 0..Len(names) |-> IF i = 0 THEN [owed |-> 0, kept |-> <<>>]
                               ELSE ReadName(names[Len(names) + 1 - i], r[i - 1])]

LEMMA ReadNameType ==
  ASSUME NEW name \in Name \cup {".."}, NEW after \in Known
  PROVE  ReadName(name, after) \in Known
<1>1. after.owed \in Nat /\ after.kept \in Seq(Name)
  BY DEF Known
<1>2. name # ".." => name \in Name /\ <<name>> \o after.kept \in Seq(Name)
  BY <1>1
<1> QED BY <1>1, <1>2 DEF ReadName, Known

LEMMA KeptIs ==
  ASSUME NEW p, Moves(p) \in Seq(Name \cup {".."})
  PROVE  \E r : /\ Reads(r, Moves(p)) /\ \A i \in 0..Len(Moves(p)) : r[i] \in Known
                /\ Kept(p) = IF r[Len(Moves(p))].kept = <<>> THEN <<Blank>> ELSE r[Len(Moves(p))].kept
<1> DEFINE c == Moves(p)
           n == Len(c)
           A == Known
           nothing == [owed |-> 0, kept |-> <<>>]
           next == [i \in 1..n |-> [a \in A |-> ReadName(c[n + 1 - i], a)]]
           r == CHOOSE r : Reads(r, c)
<1>7. Kept(p) = IF r[n].kept = <<>> THEN <<Blank>> ELSE r[n].kept
  BY DEF Kept, Moves, Reads, ReadName
<1> HIDE DEF c
<1>1. n \in Nat /\ nothing \in A /\ \A i \in 1..n : c[n + 1 - i] \in Name \cup {".."}
  <2>1. <<>> \in Seq(Name)
    OBVIOUS
  <2>2. \A i \in 1..n : n + 1 - i \in 1..n
    BY DEF c
  <2> QED BY <2>1, <2>2 DEF c, Known
<1>2. next \in [1..n -> [A -> A]]
  <2>1. ASSUME NEW i \in 1..n, NEW a \in A PROVE ReadName(c[n + 1 - i], a) \in A
    BY <1>1, ReadNameType
  <2> QED BY <2>1
<1>3. PICK f : Follows(f, n, A, nothing, next)
  <2> HIDE DEF A, n, next, nothing
  <2> QED BY <1>1, <1>2, StepByStep
<1>f. f \in [0..n -> A] /\ f[0] = nothing /\ \A i \in 1..n : f[i] = next[i][f[i - 1]]
  BY <1>3 DEF Follows
<1>4. ASSUME NEW i \in 1..n PROVE f[i] = ReadName(c[n + 1 - i], f[i - 1])
  <2>1. i - 1 \in 0..n /\ f[i - 1] \in A
    BY <1>f
  <2> QED BY <1>f, <2>1
<1>5. Reads(f, c)
  <2>1. ASSUME NEW i \in 0..n PROVE f[i] = IF i = 0 THEN nothing ELSE ReadName(c[n + 1 - i], f[i - 1])
    <3>1. i # 0 => i \in 1..n
      BY <1>1
    <3> QED BY <1>f, <1>4, <3>1
  <2> QED BY <1>f, <2>1 DEF Reads
<1>6. Reads(r, c)
  BY <1>5
<1> HIDE DEF r
<1>8. \A i \in 0..n : r[i] \in A
  <2> DEFINE S == {i \in 0..n : r[i] \in A}
  <2>1. 0 \in S
    BY <1>1, <1>6 DEF Reads
  <2>2. ASSUME NEW i \in 1..n, i - 1 \in S PROVE i \in S
    <3>1. i \in 0..n /\ i # 0 /\ c[n + 1 - i] \in Name \cup {".."} /\ r[i - 1] \in A
      BY <1>1, <2>2
    <3>2. r[i] = ReadName(c[n + 1 - i], r[i - 1])
      BY <1>6, <3>1 DEF Reads
    <3> QED BY <3>1, <3>2, ReadNameType
  <2>3. 0..n \subseteq S
    <3> HIDE DEF S, n
    <3> QED BY <1>1, <2>1, <2>2, HandedOn
  <2> QED BY <2>3
<1> QED BY <1>6, <1>7, <1>8 DEF c

(* s without its last k elements, or all of it. *)
Less(s, k) == IF k <= Len(s) THEN SubSeq(s, 1, Len(s) - k) ELSE <<>>

LEMMA LessIs ==
  ASSUME NEW T, NEW s \in Seq(T), NEW k \in Nat
  PROVE  /\ Less(s, k) \in Seq(T) /\ Less(s, 0) = s
         /\ \A e \in T : k > 0 => Less(Append(s, e), k) = Less(s, k - 1)
         /\ Less(TakeBack(s, ".."), k) = Less(s, k + 1)
<1>0. Len(s) \in Nat
  OBVIOUS
<1>1. Less(s, k) \in Seq(T)
  <2>1. CASE k <= Len(s)
    <3> DEFINE m == Len(s) - k
    <3>1. m \in Nat /\ \A i \in 1..m : s[i] \in T
      BY <2>1
    <3>2. Less(s, k) = SubSeq(s, 1, m)
      BY <2>1 DEF Less
    <3> HIDE DEF m
    <3>3. SubSeq(s, 1, m) \in Seq(T)
      BY <3>1, SubSeqProperties
    <3> QED BY <3>2, <3>3
  <2>2. CASE ~(k <= Len(s))
    BY <2>2 DEF Less
  <2> QED BY <2>1, <2>2
<1>2. Less(s, 0) = s
  BY <1>0 DEF Less
<1>3. ASSUME NEW e \in T, k > 0 PROVE Less(Append(s, e), k) = Less(s, k - 1)
  <2>1. Append(s, e) \in Seq(T) /\ Len(Append(s, e)) = Len(s) + 1
    OBVIOUS
  <2>2. CASE k <= Len(s) + 1
    <3> DEFINE m == Len(s) + 1 - k
    <3>1. m \in Nat /\ m <= Len(s) /\ Len(s) - (k - 1) = m
      BY <1>0, <1>3, <2>2
    <3>2. SubSeq(Append(s, e), 1, m) = SubSeq(s, 1, m)
      BY <3>1
    <3> QED BY <1>0, <1>3, <2>1, <2>2, <3>1, <3>2 DEF Less
  <2>3. CASE ~(k <= Len(s) + 1)
    BY <1>0, <1>3, <2>1, <2>3 DEF Less
  <2> QED BY <2>2, <2>3
<1>4. Less(TakeBack(s, ".."), k) = Less(s, k + 1)
  <2>1. CASE s = <<>>
    <3>1. TakeBack(s, "..") = <<>> /\ Less(<<>>, k) = <<>> /\ Less(<<>>, k + 1) = <<>>
      BY <2>1 DEF TakeBack, Less
    <3> QED BY <2>1, <3>1
  <2>2. CASE s # <<>>
    <3>1. /\ Front(s) \in Seq(T) /\ Last(s) \in T /\ s = Append(Front(s), Last(s))
          /\ Len(s) \in Nat \ {0} /\ Len(Front(s)) = Len(s) - 1
      BY <2>2, FrontLast
    <3>2. TakeBack(s, "..") = Front(s)
      BY <2>2 DEF TakeBack
    <3> DEFINE f == Front(s)
               l == Last(s)
    <3> HIDE DEF f, l
    <3>3. CASE k <= Len(f)
      <4> DEFINE m == Len(f) - k
      <4>1. m \in Nat /\ m <= Len(f) /\ Len(s) - (k + 1) = m /\ k + 1 <= Len(s)
        BY <3>1, <3>3 DEF f
      <4>2. f \in Seq(T) /\ l \in T /\ s = Append(f, l)
        BY <3>1 DEF f, l
      <4> HIDE DEF m
      <4>3. SubSeq(Append(f, l), 1, m) = SubSeq(f, 1, m)
        BY <4>1, <4>2
      <4>4. Less(f, k) = SubSeq(f, 1, m) /\ Less(s, k + 1) = SubSeq(s, 1, m)
        BY <3>3, <4>1 DEF Less, m
      <4> QED BY <3>2, <4>2, <4>3, <4>4 DEF f
    <3>4. CASE ~(k <= Len(f))
      <4>1. ~(k + 1 <= Len(s))
        BY <3>1, <3>4 DEF f
      <4> QED BY <3>2, <3>4, <4>1 DEF Less, f
    <3> QED BY <3>3, <3>4
  <2> QED BY <2>1, <2>2
<1> QED BY <1>1, <1>2, <1>3, <1>4

(* However deep a path leads and however often it leads above the root. *)
LEMMA NormalIsKept ==
  ASSUME NEW p \in Seq(Segment), p # <<>>
  PROVE  Cleared(p) = Kept(p)
<1> DEFINE names == Moves(p)
           n == Len(names)
           c == Collapse(p)
           T == Name \cup {"..", "/", Blank}
<1>1. names \in Seq(Name \cup {".."}) /\ n \in Nat
  BY MovesType
<1>2. c = <<"/">> \o names \/ c = Append(<<"/">> \o names, Blank)
  BY CollapseIs
<1>3. PICK r : /\ Reads(r, names) /\ \A i \in 0..n : r[i] \in Known
               /\ Kept(p) = IF r[n].kept = <<>> THEN <<Blank>> ELSE r[n].kept
  BY <1>1, KeptIs
<1> HIDE DEF names
<1>t. Name \cup {".."} \subseteq T /\ Name \subseteq T /\ "/" \in T /\ Blank \in T
  OBVIOUS
<1> HIDE DEF T
<1>r. <<"/">> \in Seq(T) /\ Len(<<"/">>) = 1 /\ <<"/">>[1] = "/"
  <2>1. "/" \in T
    BY <1>t
  <2> QED BY <2>1
<1>4. names \in Seq(T)
  BY <1>1, <1>t, SeqOfMore
<1> DEFINE root == <<"/">>
           moved == root \o names
<1> HIDE DEF root
<1>m. moved \in Seq(T) /\ Len(moved) = n + 1 /\ moved[1] = "/" /\ \A i \in 1..n : moved[i + 1] = names[i]
  BY <1>1, <1>4, <1>r DEF root
<1>2a. c = moved \/ c = Append(moved, Blank)
  BY <1>2 DEF root
<1> HIDE DEF c, moved, n
<1>5. /\ c \in Seq(T) /\ (Len(c) = n + 1 \/ Len(c) = n + 2) /\ c[1] = "/"
      /\ \A i \in 1..n : c[i + 1] = names[i]
      /\ Len(c) = n + 2 => c[n + 2] = Blank
  <2>1. CASE c = moved
    <3>1. n + 1 # n + 2
      BY <1>1
    <3> QED BY <1>m, <2>1, <3>1
  <2>2. CASE c = Append(moved, Blank)
    <3>1. c \in Seq(T) /\ Len(c) = n + 2 /\ c[n + 2] = Blank /\ \A i \in 1..n + 1 : c[i] = moved[i]
      <4>1. Blank \in T /\ moved \in Seq(T) /\ Len(moved) = n + 1 /\ n + 1 + 1 = n + 2
        <5>1. n + 1 + 1 = n + 2
          BY <1>1
        <5>2. Blank \in T
          BY <1>t
        <5>3. moved \in Seq(T)
          BY <1>m
        <5>4. Len(moved) = n + 1
          BY <1>m
        <5> QED BY <5>1, <5>2, <5>3, <5>4
      <4>2. Append(moved, Blank) \in Seq(T) /\ Len(Append(moved, Blank)) = Len(moved) + 1
        BY <4>1
      <4>3. Append(moved, Blank)[Len(moved) + 1] = Blank /\ \A i \in 1..Len(moved) : Append(moved, Blank)[i] = moved[i]
        BY <4>1
      <4> QED BY <2>2, <4>1, <4>2, <4>3
    <3>2. \A i \in 1..n : i + 1 \in 1..n + 1
      BY <1>1
    <3>3. 1 \in 1..n + 1
      BY <1>1
    <3> QED BY <1>m, <3>1, <3>2, <3>3
  <2> QED BY <1>2a, <2>1, <2>2
<1> DEFINE m == Len(c)
<1>6. PICK d : Stacks(d, c) /\ Resolved(p) = d[m] /\ \A i \in 0..m : d[i] \in Seq(T)
  BY <1>5, ResolvedIs DEF c
<1>l. m \in Nat /\ m >= n + 1 /\ (m = n + 1 \/ (m = n + 2 /\ c[n + 2] = Blank))
  BY <1>1, <1>5
<1>7. d[0] = <<>> /\ \A i \in 1..m : d[i] = TakeBack(d[i - 1], c[i])
  <2>1. 0 \in 0..m /\ \A i \in 1..m : i \in 0..m /\ i # 0
    BY <1>l
  <2> QED BY <1>6, <2>1 DEF Stacks
<1>8. r[0] = [owed |-> 0, kept |-> <<>>] /\ \A i \in 1..n : r[i] = ReadName(names[n + 1 - i], r[i - 1])
  <2>1. 0 \in 0..n /\ \A i \in 1..n : i \in 0..n /\ i # 0
    BY <1>1
  <2> QED BY <1>3, <2>1 DEF Reads, n
<1> HIDE DEF m
<1>9. d[1] = <<"/">>
  <2>1. 1 \in 1..m
    BY <1>1, <1>l
  <2>2. d[1] = TakeBack(d[1 - 1], c[1]) /\ 1 - 1 = 0
    BY <1>7, <2>1
  <2>3. d[1] = TakeBack(<<>>, "/")
    BY <1>5, <1>7, <2>2
  <2>4. TakeBack(<<>>, "/") = <<"/">>
    BY DEF TakeBack
  <2> QED BY <2>3, <2>4
<1>10. \A i \in 1..n : d[i + 1] = TakeBack(d[i], names[i])
  <2> SUFFICES ASSUME NEW i \in 1..n PROVE d[i + 1] = TakeBack(d[i], names[i])
    OBVIOUS
  <2> DEFINE j == i + 1
  <2>1. j \in 1..m /\ j - 1 = i /\ c[j] = names[i]
    BY <1>1, <1>5, <1>l
  <2> HIDE DEF j
  <2>2. d[j] = TakeBack(d[j - 1], c[j])
    BY <1>7, <2>1
  <2> QED BY <2>1, <2>2 DEF j
<1> DEFINE S == {i \in 0..n : d[n + 1] = Less(d[n + 1 - i], r[i].owed) \o r[i].kept}
<1>11. 0 \in S
  <2>1. n + 1 \in 0..m /\ n + 1 - 0 = n + 1 /\ 0 \in 0..n
    BY <1>1, <1>l
  <2>2. Less(d[n + 1], 0) = d[n + 1] /\ d[n + 1] \in Seq(T)
    BY <1>6, <2>1, LessIs
  <2>3. d[n + 1] \o <<>> = d[n + 1]
    BY <2>2
  <2>4. r[0].owed = 0 /\ r[0].kept = <<>>
    BY <1>8
  <2> QED BY <2>1, <2>2, <2>3, <2>4
<1>12. ASSUME NEW i \in 1..n, i - 1 \in S PROVE i \in S
  <2> DEFINE j == n + 1 - i
             x == names[j]
             before == d[j]
             owed == r[i - 1].owed
             kept == r[i - 1].kept
  <2>1. j \in 1..n /\ n + 1 - (i - 1) = j + 1 /\ i - 1 \in 0..n /\ i \in 0..n /\ j \in 0..m
    BY <1>1, <1>l
  <2>2. d[n + 1] = Less(TakeBack(before, x), owed) \o kept
    BY <1>10, <1>12, <2>1
  <2>3. owed \in Nat /\ kept \in Seq(Name) /\ x \in Name \cup {".."} /\ before \in Seq(T) /\ x \in T
    <3>1. r[i - 1] \in Known /\ before \in Seq(T)
      BY <1>3, <1>6, <2>1
    <3>2. x \in Name \cup {".."}
      <4> HIDE DEF j
      <4> QED BY <1>1, <2>1 DEF n
    <3> QED BY <1>t, <3>1, <3>2 DEF Known
  <2>4. r[i] = ReadName(x, r[i - 1])
    BY <1>8
  <2> HIDE DEF before, x, owed, kept
  <2>5. CASE x = ".."
    <3>1. r[i].owed = owed + 1 /\ r[i].kept = kept
      BY <2>4, <2>5 DEF ReadName, owed, kept
    <3>2. Less(TakeBack(before, ".."), owed) = Less(before, owed + 1)
      BY <2>3, LessIs
    <3> QED BY <2>1, <2>2, <2>5, <3>1, <3>2 DEF before
  <2>6. CASE x # ".." /\ owed > 0
    <3>1. r[i].owed = owed - 1 /\ r[i].kept = kept
      BY <2>4, <2>6 DEF ReadName, owed, kept
    <3>2. TakeBack(before, x) = Append(before, x)
      BY <2>6 DEF TakeBack
    <3>3. Less(Append(before, x), owed) = Less(before, owed - 1)
      BY <2>3, <2>6, LessIs
    <3> QED BY <2>1, <2>2, <3>1, <3>2, <3>3 DEF before
  <2>7. CASE x # ".." /\ owed = 0
    <3>1. r[i].owed = 0 /\ r[i].kept = <<x>> \o kept
      BY <2>4, <2>7 DEF ReadName, owed, kept
    <3>2. TakeBack(before, x) = Append(before, x)
      BY <2>7 DEF TakeBack
    <3>a. Append(before, x) \in Seq(T)
      BY <2>3
    <3>3. Less(Append(before, x), 0) = Append(before, x) /\ Less(before, 0) = before
      BY <2>3, <3>a, LessIs
    <3>4. kept \in Seq(T)
      BY <1>t, <2>3, SeqOfMore
    <3>5. Append(before, x) \o kept = before \o (<<x>> \o kept)
      BY <2>3, <3>4
    <3> QED BY <2>1, <2>2, <2>7, <3>1, <3>2, <3>3, <3>5 DEF before
  <2>8. x = ".." \/ (x # ".." /\ owed > 0) \/ (x # ".." /\ owed = 0)
    BY <2>3
  <2> HIDE DEF S
  <2> QED BY <2>5, <2>6, <2>7, <2>8
<1>13. n \in S
  <2> HIDE DEF S
  <2>1. 0..n \subseteq S
    BY <1>1, <1>11, <1>12, HandedOn
  <2> QED BY <1>1, <2>1
<1> DEFINE kept == r[n].kept
<1>14. kept \in Seq(Name) /\ r[n].owed \in Nat
  <2>1. n \in 0..n
    BY <1>1
  <2> QED BY <1>3, <2>1 DEF Known
<1>15. d[n + 1] = kept \/ d[n + 1] = <<"/">> \o kept
  <2>1. d[n + 1] = Less(<<"/">>, r[n].owed) \o kept
    <3>1. n + 1 - n = 1
      BY <1>1
    <3> QED BY <1>9, <1>13, <3>1
  <2>2. Less(<<"/">>, r[n].owed) \in {<<>>, <<"/">>}
    <3>1. CASE r[n].owed = 0
      <4>1. <<"/">> \in Seq({"/"})
        OBVIOUS
      <4>2. Less(<<"/">>, 0) = <<"/">>
        BY <4>1, LessIs
      <4> QED BY <3>1, <4>2
    <3>2. CASE r[n].owed = 1
      BY <3>2 DEF Less
    <3>3. CASE r[n].owed > 1
      <4>1. Len(<<"/">>) = 1
        OBVIOUS
      <4> QED BY <1>14, <3>3, <4>1 DEF Less
    <3> QED BY <1>14, <3>1, <3>2, <3>3
  <2>3. <<>> \o kept = kept
    BY <1>14
  <2> QED BY <2>1, <2>2, <2>3
<1> HIDE DEF kept
<1>16. Resolved(p) \in {d[n + 1], Append(d[n + 1], Blank)}
  <2>1. CASE m = n + 1
    BY <1>6, <2>1
  <2>2. CASE m = n + 2
    <3> DEFINE j == n + 2
    <3>1. j \in 1..m /\ j - 1 = n + 1 /\ c[j] = Blank /\ m = j
      BY <1>1, <1>l, <2>2
    <3> HIDE DEF j
    <3>2. d[j] = TakeBack(d[j - 1], Blank)
      BY <1>7, <3>1
    <3>3. d[j] = Append(d[n + 1], Blank)
      <4>1. TakeBack(d[n + 1], Blank) = Append(d[n + 1], Blank)
        BY BlankIs DEF TakeBack
      <4> QED BY <3>1, <3>2, <4>1
    <3> QED BY <1>6, <3>1, <3>3
  <2> QED BY <1>l, <2>1, <2>2
<1> DEFINE drop == {Blank, "/"}
<1>17. Without(d[n + 1], drop) = kept /\ d[n + 1] \in Seq(T)
  <2>0. drop \cap Name = {} /\ Name \subseteq T /\ "/" \in T /\ "/" \in drop
    BY <1>t, RulesAssumption
  <2> HIDE DEF drop
  <2>1. Without(kept, drop) = kept /\ kept \in Seq(T)
    BY <1>14, <2>0, WithoutAll, SeqOfMore
  <2>2. <<"/">> \in Seq(T) /\ <<"/">> = Append(<<>>, "/") /\ <<>> \in Seq(T)
    BY <2>0
  <2>a. ASSUME NEW s \in Seq(T) PROVE Without(Append(s, "/"), drop) = Without(s, drop)
    BY <2>0, WithoutAppend
  <2>3. Without(<<"/">>, drop) = <<>>
    BY <2>2, <2>a, WithoutNothing
  <2>b. ASSUME NEW s \in Seq(T) PROVE Without(s \o kept, drop) = Without(s, drop) \o Without(kept, drop)
    BY <2>1, WithoutConcat
  <2>4. Without(<<"/">> \o kept, drop) = Without(<<"/">>, drop) \o Without(kept, drop)
    BY <2>2, <2>b
  <2>5. <<>> \o kept = kept /\ <<"/">> \o kept \in Seq(T)
    BY <2>1, <2>2
  <2> QED BY <1>15, <2>1, <2>3, <2>4, <2>5
<1>18. Without(Resolved(p), drop) = kept
  <2>0. Blank \in drop /\ Blank \in T
    BY <1>t
  <2> HIDE DEF drop
  <2>a. ASSUME NEW s \in Seq(T) PROVE Without(Append(s, Blank), drop) = Without(s, drop)
    BY <2>0, WithoutAppend
  <2>1. Without(Append(d[n + 1], Blank), drop) = Without(d[n + 1], drop)
    BY <1>17, <2>a
  <2> QED BY <1>16, <1>17, <2>1
<1>19. Resolved(p) = <<>> => kept = <<>>
  BY <1>18, WithoutNothing
<1>20. Cleared(p) = IF kept = <<>> THEN <<Blank>> ELSE kept
  BY <1>18, <1>19 DEF Cleared
<1> QED BY <1>3, <1>20 DEF kept

(* A path without dots and blanks is what is counted. *)
LEMMA KeptNames ==
  ASSUME NEW p, Moves(p) \in Seq(Name)
  PROVE  Kept(p) = IF Moves(p) = <<>> THEN <<Blank>> ELSE Moves(p)
<1> DEFINE names == Moves(p)
           n == Len(names)
<1>1. names \in Seq(Name \cup {".."}) /\ n \in Nat
  <2>1. Name \subseteq Name \cup {".."}
    OBVIOUS
  <2> QED BY <2>1, SeqOfMore
<1>2. PICK r : /\ Reads(r, names) /\ \A i \in 0..n : r[i] \in Known
               /\ Kept(p) = IF r[n].kept = <<>> THEN <<Blank>> ELSE r[n].kept
  BY <1>1, KeptIs
<1>0. names \in Seq(Name)
  OBVIOUS
<1> HIDE DEF names
<1> DEFINE S == {i \in 0..n : r[i] = [owed |-> 0, kept |-> SubSeq(names, n + 1 - i, n)]}
<1>3. r[0] = [owed |-> 0, kept |-> <<>>] /\ \A i \in 1..n : r[i] = ReadName(names[n + 1 - i], r[i - 1])
  <2>1. 0 \in 0..n /\ \A i \in 1..n : i \in 0..n /\ i # 0
    BY <1>1
  <2> QED BY <1>2, <2>1 DEF Reads
<1>4. 0 \in S
  <2>1. SubSeq(names, n + 1 - 0, n) = <<>>
    BY <1>1, SubSeqEmpty
  <2> QED BY <1>1, <1>3, <2>1
<1>5. ASSUME NEW i \in 1..n, i - 1 \in S PROVE i \in S
  <2> DEFINE j == n + 1 - i
  <2>1. j \in 1..n /\ n + 1 - (i - 1) = j + 1 /\ i \in 0..n
    BY <1>1
  <2>2. names[j] \in Name /\ names[j] # ".."
    <3> HIDE DEF j
    <3>1. names[j] \in Name
      BY <1>0, <2>1
    <3> QED BY <3>1, RulesAssumption
  <2>3. r[i - 1] = [owed |-> 0, kept |-> SubSeq(names, j + 1, n)]
    BY <1>5, <2>1
  <2>4. r[i] = [owed |-> 0, kept |-> <<names[j]>> \o SubSeq(names, j + 1, n)]
    <3>1. r[i] = ReadName(names[j], r[i - 1])
      BY <1>3
    <3> DEFINE rest == SubSeq(names, j + 1, n)
    <3> HIDE DEF j, rest
    <3>2. r[i - 1] = [owed |-> 0, kept |-> rest]
      BY <2>3 DEF rest
    <3>3. ReadName(names[j], [owed |-> 0, kept |-> rest]) = [owed |-> 0, kept |-> <<names[j]>> \o rest]
      BY <2>2 DEF ReadName
    <3> QED BY <3>1, <3>2, <3>3 DEF rest
  <2>5. SubSeq(names, j, n) = <<names[j]>> \o SubSeq(names, j + 1, n)
    <3> HIDE DEF j
    <3>1. j \in 1..n /\ \A k \in j..n : names[k] \in Name
      BY <1>0, <1>1, <2>1
    <3> QED BY <1>0, <1>1, <3>1, SubSeqRecursiveFirst
  <2> QED BY <2>1, <2>4, <2>5
<1>6. n \in S
  <2> HIDE DEF S
  <2>1. 0..n \subseteq S
    BY <1>1, <1>4, <1>5, HandedOn
  <2> QED BY <1>1, <2>1
<1>7. SubSeq(names, n + 1 - n, n) = names
  <2>1. n + 1 - n = 1
    BY <1>1
  <2> QED BY <1>0, <2>1, SubSeqFull
<1>8. r[n].kept = names
  BY <1>6, <1>7
<1> QED BY <1>2, <1>8 DEF names

LEMMA KeptType ==
  ASSUME NEW p, Moves(p) \in Seq(Name \cup {".."})
  PROVE  Kept(p) = <<Blank>> \/ (Kept(p) \in Seq(Name) /\ Kept(p) # <<>>)
<1>1. PICK r : /\ \A i \in 0..Len(Moves(p)) : r[i] \in Known
               /\ Kept(p) = IF r[Len(Moves(p))].kept = <<>> THEN <<Blank>> ELSE r[Len(Moves(p))].kept
  BY KeptIs
<1>2. Len(Moves(p)) \in 0..Len(Moves(p))
  OBVIOUS
<1> QED BY <1>1, <1>2 DEF Known

(* What is counted are names of the path. *)
LEMMA KeptIn ==
  ASSUME NEW p \in Seq(Segment)
  PROVE  Kept(p) = <<Blank>> \/ ToSet(Kept(p)) \subseteq ToSet(p)
<1> DEFINE names == Moves(p)
           n == Len(names)
           L == ToSet(p)
<1>1. p \in Seq(L)
  <2>1. \A i \in 1..Len(p) : p[i] \in L
    BY DEF ToSet
  <2> HIDE DEF L
  <2> QED BY <2>1
<1>2. names \in Seq(L)
  <2> DEFINE drop == {Blank, "."}
  <2> HIDE DEF drop, L
  <2>1. Without(p, drop) \in Seq(L \ drop)
    BY <1>1, WithoutType
  <2>2. Without(p, drop) \in Seq(L)
    BY <2>1, SeqOfMore
  <2> QED BY <2>2 DEF drop, Moves
<1>3. names \in Seq(Name \cup {".."}) /\ n \in Nat
  BY MovesType
<1>4. PICK r : /\ Reads(r, names) /\ \A i \in 0..n : r[i] \in Known
               /\ Kept(p) = IF r[n].kept = <<>> THEN <<Blank>> ELSE r[n].kept
  BY <1>3, KeptIs
<1> HIDE DEF names, L
<1> DEFINE S == {i \in 0..n : r[i].kept \in Seq(L)}
<1>5. 0 \in S
  <2>1. 0 \in 0..n /\ <<>> \in Seq(L)
    BY <1>3
  <2> QED BY <1>4, <2>1 DEF Reads
<1>6. ASSUME NEW i \in 1..n, i - 1 \in S PROVE i \in S
  <2> DEFINE e == names[n + 1 - i]
             a == r[i - 1]
  <2>1. i \in 0..n /\ r[i] = ReadName(e, a) /\ a.kept \in Seq(L) /\ e \in L
    <3>1. i \in 0..n /\ i # 0 /\ n + 1 - i \in 1..n
      BY <1>3
    <3>2. r[i] = ReadName(e, a)
      BY <1>4, <3>1 DEF Reads
    <3>3. a.kept \in Seq(L)
      BY <1>6
    <3>4. e \in L
      <4> HIDE DEF e
      <4>1. e = names[n + 1 - i]
        BY DEF e
      <4> QED BY <1>2, <3>1, <4>1
    <3> QED BY <3>1, <3>2, <3>3, <3>4
  <2> HIDE DEF e, a
  <2>2. <<e>> \o a.kept \in Seq(L)
    <3> DEFINE k == a.kept
    <3>1. k \in Seq(L) /\ <<e>> \in Seq(L)
      BY <2>1
    <3> HIDE DEF k
    <3>2. <<e>> \o k \in Seq(L)
      BY <3>1
    <3> QED BY <3>2 DEF k
  <2>3. r[i].kept \in Seq(L)
    BY <2>1, <2>2 DEF ReadName
  <2> QED BY <2>1, <2>3
<1>7. r[n].kept \in Seq(L)
  <2>1. 0..n \subseteq S
    <3> HIDE DEF S, n
    <3> QED BY <1>3, <1>5, <1>6, HandedOn DEF n
  <2>2. n \in 0..n
    BY <1>3
  <2> QED BY <2>1, <2>2
<1>8. ToSet(r[n].kept) \subseteq L
  BY <1>7 DEF ToSet
<1> QED BY <1>4, <1>8 DEF L

(* The normal form of a literal path is the cleared path, and is read as it  *)
(* is written.                                                               *)
LEMMA LiteralNormal ==
  ASSUME NEW p \in Seq(Segment), p # <<>>, Literal(p)
  PROVE  /\ Normal(p) = Cleared(p) /\ Parse(Normal(p)) = Cleared(p)
         /\ Cleared(p) \in Seq(Segment) /\ Cleared(p) # <<>> /\ Literal(Cleared(p))
<1> DEFINE q == Kept(p)
<1>1. Cleared(p) = q /\ (q = <<Blank>> \/ (q \in Seq(Name) /\ q # <<>>))
  BY NormalIsKept, MovesType, KeptType
<1>2. q = <<Blank>> \/ ToSet(q) \subseteq ToSet(p)
  BY KeptIn
<1> HIDE DEF q
<1>3. q \in Seq(Segment) /\ q # <<>>
  <2>1. Blank \in Segment /\ Name \subseteq Segment
    BY DEF Segment
  <2>2. CASE q = <<Blank>>
    BY <2>1, <2>2
  <2>3. CASE q \in Seq(Name) /\ q # <<>>
    BY <2>1, <2>3, SeqOfMore
  <2> QED BY <1>1, <2>2, <2>3
<1>4. Literal(q)
  <2>1. CASE q = <<Blank>>
    <3>1. ToSet(q) = {Blank}
      BY <2>1 DEF ToSet
    <3>2. DOMAIN Escape \cup Broken \cup DOMAIN Before \subseteq Name
      BY RulesAssumption
    <3> QED BY <3>1, <3>2, BlankIs DEF Literal
  <2>2. CASE ToSet(q) \subseteq ToSet(p)
    BY <2>2 DEF Literal
  <2> QED BY <1>2, <2>1, <2>2
<1>5. Tilded(q) = q
  <2>1. ASSUME NEW i \in DOMAIN q PROVE q[i] \notin DOMAIN Tilde
    <3>1. q[i] \in ToSet(q)
      BY DEF ToSet
    <3>2. DOMAIN Tilde \subseteq DOMAIN Escape
      BY RulesAssumption
    <3> QED BY <1>4, <3>1, <3>2 DEF Literal
  <2>2. q = [i \in DOMAIN q |-> q[i]]
    BY <1>3
  <2> QED BY <2>1, <2>2 DEF Tilded
<1>6. Parse(q) = q
  BY <1>3, <1>4, UnescapeLiteral
<1> QED BY <1>1, <1>3, <1>4, <1>5, <1>6 DEF Normal

LEMMA NormalAgain ==
  ASSUME NEW p \in Seq(Segment), p # <<>>
  PROVE  Cleared(Cleared(p)) = Cleared(p)
<1> DEFINE q == Kept(p)
<1>1. q = <<Blank>> \/ (q \in Seq(Name) /\ q # <<>>)
  BY MovesType, KeptType
<1>2. Cleared(p) = q
  BY NormalIsKept
<1> HIDE DEF q
<1>3. CASE q = <<Blank>>
  <2>0. Blank \in Segment
    BY DEF Segment
  <2>1. q \in Seq(Segment) /\ q # <<>> /\ <<Blank>> = Append(<<>>, Blank) /\ <<>> \in Seq({Blank})
    <3>1. <<Blank>> \in Seq(Segment)
      BY <2>0
    <3> QED BY <1>3, <3>1
  <2>2. Moves(q) = <<>>
    <3> DEFINE drop == {Blank, "."}
    <3>1. Blank \in drop
      OBVIOUS
    <3>2. Moves(q) = Without(Append(<<>>, Blank), drop)
      BY <1>3, <2>1 DEF Moves
    <3> HIDE DEF drop
    <3>3. Without(Append(<<>>, Blank), drop) = Without(<<>>, drop)
      BY <2>1, <3>1, WithoutAppend
    <3> QED BY <3>2, <3>3, WithoutNothing
  <2>3. Kept(q) = <<Blank>>
    <3>1. Moves(q) \in Seq(Name)
      BY <2>2
    <3> QED BY <2>2, <3>1, KeptNames
  <2>4. Cleared(q) = Kept(q)
    BY <2>1, NormalIsKept
  <2> QED BY <1>2, <1>3, <2>3, <2>4
<1>4. CASE q \in Seq(Name) /\ q # <<>>
  <2>1. q \in Seq(Segment)
    <3>1. Name \subseteq Segment
      BY DEF Segment
    <3> QED BY <1>4, <3>1, SeqOfMore
  <2>2. Moves(q) = q
    <3> DEFINE drop == {Blank, "."}
    <3>1. Name \cap drop = {} /\ Moves(q) = Without(q, drop)
      BY RulesAssumption DEF Moves
    <3> HIDE DEF drop
    <3> QED BY <1>4, <3>1, WithoutAll
  <2>3. Kept(q) = q
    BY <1>4, <2>2, KeptNames
  <2>4. Cleared(q) = Kept(q)
    BY <1>4, <2>1, NormalIsKept
  <2> QED BY <1>2, <2>3, <2>4
<1> QED BY <1>1, <1>3, <1>4

-----------------------------------------------------------------------------
(* The file of a path.  Plain paths have no dots; their names are what is    *)
(* between the slashes.                                                      *)

Plain == Name \cup {Blank}
Names(p) == Without(p, {Blank})

LEMMA IndexName == /\ Index \in Name => Index \in Dotted
                   /\ Dotted \subseteq Name /\ Index \notin {Blank, ".", ".."} /\ ".." \notin Name /\ "." \notin Name
  BY RulesAssumption, BlankIs, Zenon DEF Index

LEMMA PlainPath ==
  ASSUME NEW T, NEW p \in Seq(T), ToSet(p) \subseteq Plain
  PROVE  p \in Seq(Plain)
<1>1. \A i \in 1..Len(p) : p[i] \in Plain
  BY DEF ToSet
<1> QED BY <1>1

LEMMA NamesType ==
  ASSUME NEW S \in SUBSET Name, NEW p \in Seq(S \cup {Blank})
  PROVE  Names(p) \in Seq(S)
<1>1. Names(p) \in Seq((S \cup {Blank}) \ {Blank})
  BY WithoutType DEF Names
<1>2. (S \cup {Blank}) \ {Blank} \subseteq S
  OBVIOUS
<1> QED BY <1>1, <1>2, SeqOfMore

LEMMA PlainNames == \A p \in Seq(Plain) : Names(p) \in Seq(Name)
<1>1. Name \in SUBSET Name
  OBVIOUS
<1>2. ASSUME NEW p \in Seq(Name \cup {Blank}) PROVE Names(p) \in Seq(Name)
  BY <1>1, NamesType
<1> QED BY <1>2 DEF Plain

LEMMA NamesEnd ==
  ASSUME NEW T, NEW p \in Seq(T), p # <<>>
  PROVE  Names(p) = IF Last(p) = Blank THEN Names(Front(p)) ELSE Append(Names(Front(p)), Last(p))
<1>1. Names(p) = IF Last(p) \in {Blank} THEN Names(Front(p)) ELSE Append(Names(Front(p)), Last(p))
  BY WithoutEnds, Zenon DEF Names
<1> QED BY <1>1

(* Join leaves the names, and nothing else it could clean. *)
LEMMA Cleaned ==
  ASSUME NEW T, "." \notin T, NEW s \in Seq(T)
  PROVE  Without(s, {Blank, "."}) = Without(s, {Blank})
<1> DEFINE two == {Blank, "."}
           one == {Blank}
           S == {t \in Seq(T) : Without(t, two) = Without(t, one)}
<1>0. \A e \in T : e \in two <=> e \in one
  OBVIOUS
<1> HIDE DEF two, one
<1>1. <<>> \in S
  BY WithoutNothing
<1>2. ASSUME NEW t \in Seq(T), NEW e \in T, t \in S PROVE Append(t, e) \in S
  <2>1. Without(Append(t, e), two) = Without(Append(t, e), one)
    <3>1. \A drop : Without(Append(t, e), drop) = IF e \in drop THEN Without(t, drop) ELSE Append(Without(t, drop), e)
      BY WithoutAppend
    <3> QED BY <1>0, <1>2, <3>1
  <2> QED BY <2>1
<1>3. Seq(T) \subseteq S
  <2> HIDE DEF S
  <2> QED BY <1>1, <1>2, AppendHandsOn
<1> QED BY <1>3 DEF two, one

-----------------------------------------------------------------------------
(* The file of a path whose names do not hold "..". *)

Single == Name \ Twice
Filed == Single \cup {Blank}

LEMMA SingleNames ==
  /\ Single \in SUBSET Name /\ Filed \subseteq Plain /\ Filed \subseteq Segment
  /\ \A p \in Seq(Filed) : p \in Seq(Plain) /\ Names(p) \in Seq(Single)
  /\ Filed \cap (Twice \cup {"..", "."}) = {} /\ Index \notin Twice \cup {"..", "."}
<1>1. Single \in SUBSET Name /\ Filed \subseteq Plain /\ Filed \subseteq Segment
  BY DEF Single, Filed, Plain, Segment
<1>2. ASSUME NEW p \in Seq(Single \cup {Blank}) PROVE Names(p) \in Seq(Single)
  BY <1>1, NamesType
<1>3. Twice \subseteq Name /\ Index \notin Twice
  BY RulesAssumption DEF Index
<1>4. Filed \cap (Twice \cup {"..", "."}) = {} /\ Index \notin Twice \cup {"..", "."}
  BY <1>3, IndexName, BlankIs DEF Filed, Single
<1> QED BY <1>1, <1>2, <1>4, SeqOfMore DEF Filed

(* What PathForURL writes: the names, and the index unless the last is a     *)
(* file's name.                                                              *)
LEMMA FileIs ==
  ASSUME NEW p \in Seq(Filed), p # <<>>
  PROVE  FileOf(p) = IF Last(p) \in Dotted THEN Names(p) ELSE Append(Names(p), Index)
<1> DEFINE T == Filed \cup {Index}
           front == Front(p)
           last == Last(p)
<1>1. front \in Seq(Filed) /\ last \in Filed /\ p = Append(front, last)
  BY FrontLast
<1>2. \A s \in Seq(T) : ToSet(s) \cap (Twice \cup {".."}) = {}
  <2>1. T \cap (Twice \cup {".."}) = {}
    BY SingleNames
  <2> HIDE DEF T
  <2>2. ASSUME NEW s \in Seq(T) PROVE ToSet(s) \cap (Twice \cup {".."}) = {}
    <3>1. ToSet(s) \subseteq T
      BY DEF ToSet
    <3> QED BY <2>1, <3>1
  <2> QED BY <2>2
<1>3. \A s \in Seq(Filed) : s \in Seq(T) /\ Append(s, Index) \in Seq(T)
  BY SeqOfMore
<1>4. Names(p) = IF last = Blank THEN Names(front) ELSE Append(Names(front), last)
  BY NamesEnd
<1>5. ASSUME NEW s \in Seq(Filed)
      PROVE  Without(s, {Blank, "."}) = Names(s) /\ Without(Append(s, Index), {Blank, "."}) = Append(Names(s), Index)
  <2>0. "." \notin T
    BY SingleNames
  <2>1. Without(s, {Blank, "."}) = Names(s) /\ Without(Append(s, Index), {Blank, "."}) = Without(Append(s, Index), {Blank})
    <3> HIDE DEF T
    <3> QED BY <1>3, <2>0, Cleaned, Zenon DEF Names
  <2> DEFINE one == {Blank}
  <2>2. Index \notin one /\ Index \in T /\ s \in Seq(T)
    BY <1>3, IndexName
  <2> HIDE DEF one, T
  <2>3. Without(Append(s, Index), one) = Append(Without(s, one), Index)
    BY <2>2, WithoutAppend
  <2> QED BY <2>1, <2>3 DEF one, Names
<1>6. HasDot(Index) /\ (last \in Single => (HasDot(last) <=> last \in Dotted)) /\ Blank \notin Dotted
  <2>1. last \in Single => last # ".." /\ last # "." /\ (last = Index => last \in Dotted)
    BY IndexName DEF Single
  <2> HIDE DEF last
  <2> QED BY <2>1, IndexName, BlankIs DEF HasDot
<1>7. last = Blank \/ (last # Blank /\ last \in Single)
  BY <1>1 DEF Filed
<1>8. CASE last = Blank
  <2> DEFINE page == Append(front, Index)
  <2>1. page \in Seq(T) /\ Last(page) = Index
    <3>1. Index \in T /\ front \in Seq(T)
      BY <1>1, <1>3
    <3> HIDE DEF T, front
    <3> QED BY <3>1, AppendLast
  <2>2. FileOf(p) = Without(page, {Blank, "."})
    BY <1>2, <1>6, <1>8, <2>1, Zenon DEF FileOf
  <2>3. FileOf(p) = Append(Names(front), Index)
    BY <1>1, <1>5, <2>2
  <2> QED BY <1>4, <1>6, <1>8, <2>3
<1>9. CASE last \in Single /\ last # Blank /\ last \in Dotted
  <2>1. FileOf(p) = Without(p, {Blank, "."})
    BY <1>2, <1>3, <1>6, <1>9, Zenon DEF FileOf
  <2> QED BY <1>5, <1>9, <2>1
<1>10. CASE last \in Single /\ last # Blank /\ last \notin Dotted
  <2>1. FileOf(p) = Without(Append(p, Index), {Blank, "."})
    BY <1>2, <1>3, <1>6, <1>10, Zenon DEF FileOf
  <2> QED BY <1>5, <1>10, <2>1
<1> QED BY <1>7, <1>8, <1>9, <1>10

(* The file read as a URL has itself as its file. *)
LEMMA FileStays ==
  ASSUME NEW f \in Seq(Single \cup {Index}), f # <<>>, Last(f) \in Dotted \cup {Index}
  PROVE  FileOf(f) = f
<1> DEFINE T == Single \cup {Index}
<1>0. Last(f) # Blank /\ HasDot(Last(f))
  BY IndexName, BlankIs DEF HasDot
<1>1. ToSet(f) \cap (Twice \cup {".."}) = {}
  <2>1. T \cap (Twice \cup {".."}) = {} /\ f \in Seq(T)
    BY SingleNames DEF Filed
  <2> HIDE DEF T
  <2>2. ToSet(f) \subseteq T
    BY <2>1 DEF ToSet
  <2> QED BY <2>1, <2>2
<1>2. FileOf(f) = Without(f, {Blank, "."})
  BY <1>0, <1>1, Zenon DEF FileOf
<1>3. Without(f, {Blank, "."}) = f
  <2> DEFINE drop == {Blank, "."}
  <2>1. T \cap drop = {} /\ f \in Seq(T)
    BY IndexName, BlankIs DEF Single
  <2> HIDE DEF T, drop
  <2>2. Without(f, drop) = f
    BY <2>1, WithoutAll
  <2> QED BY <2>2 DEF drop
<1> QED BY <1>2, <1>3

(* A plain path and its normal form have the same names. *)
LEMMA PlainNormal ==
  ASSUME NEW p \in Seq(Plain), p # <<>>
  PROVE  Cleared(p) = IF Names(p) = <<>> THEN <<Blank>> ELSE Names(p)
<1>1. p \in Seq(Segment)
  <2>1. Plain \subseteq Segment
    BY DEF Plain, Segment
  <2> QED BY <2>1, SeqOfMore
<1>2. Moves(p) = Names(p)
  <2>1. "." \notin Plain
    BY IndexName, BlankIs DEF Plain
  <2> QED BY <2>1, Cleaned, Zenon DEF Moves, Names
<1>3. Names(p) \in Seq(Name)
  BY PlainNames
<1> QED BY <1>1, <1>2, <1>3, NormalIsKept, KeptNames

LEMMA FileOfNames ==
  ASSUME NEW s \in Seq(Single), s # <<>>
  PROVE  FileOf(s) = IF Last(s) \in Dotted THEN s ELSE Append(s, Index)
<1>1. s \in Seq(Filed)
  BY SeqOfMore DEF Filed
<1>2. Names(s) = s
  <2> DEFINE drop == {Blank}
  <2>1. Single \cap drop = {}
    BY BlankIs DEF Single
  <2> HIDE DEF drop
  <2>2. Without(s, drop) = s
    BY <2>1, WithoutAll
  <2> QED BY <2>2 DEF drop, Names
<1> QED BY <1>1, <1>2, FileIs

LEMMA FileEnds ==
  ASSUME NEW p \in Seq(Filed), p # <<>>
  PROVE  /\ FileOf(p) \in Seq(Single \cup {Index}) /\ FileOf(p) # <<>>
         /\ Last(FileOf(p)) \in Dotted \cup {Index}
         /\ Last(p) # Blank => Names(p) # <<>> /\ Last(Names(p)) = Last(p)
<1> DEFINE names == Names(p)
           T == Single \cup {Index}
<1>1. names \in Seq(Single) /\ Front(p) \in Seq(Filed) /\ Last(p) \in Filed
  BY SingleNames, FrontLast
<1>2. names \in Seq(T) /\ Index \in T
  BY <1>1, SeqOfMore
<1>3. Last(p) # Blank => names # <<>> /\ Last(names) = Last(p)
  <2>1. Names(Front(p)) \in Seq(Single)
    BY <1>1, SingleNames
  <2>2. Last(p) # Blank => Last(p) \in Single /\ names = Append(Names(Front(p)), Last(p))
    BY <1>1, NamesEnd DEF Filed
  <2> DEFINE l == Last(p)
  <2> HIDE DEF names, l
  <2>3. l # Blank => l \in Single /\ names = Append(Names(Front(p)), l)
    BY <2>2 DEF l
  <2>4. l # Blank => names # <<>> /\ Last(names) = l
    BY <2>1, <2>3, AppendLast
  <2> QED BY <2>4 DEF l
<1>4. FileOf(p) = IF Last(p) \in Dotted THEN names ELSE Append(names, Index)
  BY FileIs
<1>5. Append(names, Index) \in Seq(T) /\ Append(names, Index) # <<>> /\ Last(Append(names, Index)) = Index
  <2> HIDE DEF names, T
  <2> QED BY <1>2, AppendLast
<1>6. Last(p) \in Dotted => Last(p) # Blank
  BY IndexName, BlankIs
<1> HIDE DEF names, T
<1>7. CASE Last(p) \in Dotted
  BY <1>2, <1>3, <1>4, <1>6, <1>7 DEF T, names
<1>8. CASE Last(p) \notin Dotted
  BY <1>3, <1>4, <1>5, <1>8 DEF T, names
<1> QED BY <1>7, <1>8

(* No file is where another one needs a directory. *)
LEMMA NoFileAbove ==
  ASSUME NEW p \in Seq(Filed), p # <<>>, NEW q \in Seq(Filed), q # <<>>,
         IsStrictPrefix(FileOf(q), FileOf(p))
  PROVE  Last(FileOf(q)) \in Dotted
<1> DEFINE above == FileOf(q)
           file == FileOf(p)
           names == Names(p)
           n == Len(above)
<1>1. /\ above \in Seq(Single \cup {Index}) /\ above # <<>> /\ file \in Seq(Single \cup {Index})
      /\ Last(above) \in Dotted \cup {Index}
  BY FileEnds
<1>2. names \in Seq(Single)
  BY SingleNames
<1>3. file = names \/ file = Append(names, Index)
  BY FileIs
<1> HIDE DEF above, file, names
<1>4. n <= Len(file) /\ SubSeq(above, 1, n) = SubSeq(file, 1, n) /\ above # file
  BY DEF IsStrictPrefix, IsPrefix, above, file
<1>5. n \in Nat \ {0} /\ Len(file) \in Nat /\ Len(names) \in Nat
  BY <1>1, <1>2
<1>6. SubSeq(above, 1, n) = above /\ SubSeq(file, 1, Len(file)) = file
  BY <1>1, SubSeqFull
<1>7. n < Len(file)
  BY <1>4, <1>5, <1>6
<1>8. above[n] = file[n]
  <2>1. SubSeq(file, 1, n)[n] = file[n]
    BY <1>1, <1>5, <1>7
  <2> QED BY <1>4, <1>6, <2>1
<1>9. file[n] \in Single
  <2>1. n \in 1..Len(names) /\ file[n] = names[n]
    <3>1. CASE file = names
      BY <1>5, <1>7, <3>1
    <3>2. CASE file = Append(names, Index)
      <4>1. Len(file) = Len(names) + 1
        BY <1>2, <3>2
      <4>2. n \in 1..Len(names)
        BY <1>5, <1>7, <4>1
      <4> QED BY <1>2, <3>2, <4>2
    <3> QED BY <1>3, <3>1, <3>2
  <2> QED BY <1>2, <2>1
<1>10. Last(above) = above[n]
  BY DEF Last
<1>11. Last(above) \in Dotted
  BY <1>1, <1>8, <1>9, <1>10, IndexName DEF Single
<1> QED BY <1>11 DEF above

LEMMA FilesFitFor ==
  ASSUME NEW p \in Seq(Filed), p # <<>>
  PROVE  LET file == FileOf(p)
             names == Names(p)
         IN /\ FileOf(UrlFromLocalPath(file)) = file
            /\ \/ FileOf(Cleared(p)) = file
               \/ Last(p) = Blank /\ names # <<>> /\ Last(names) \in Dotted
            /\ \A k \in 1..Len(p) - 1 :
                 LET above == FileOf(SubSeq(p, 1, k))
                 IN IsStrictPrefix(above, file) => Last(above) \in Dotted
<1> DEFINE file == FileOf(p)
           names == Names(p)
<1>1. FileOf(UrlFromLocalPath(file)) = file
  <2>1. file \in Seq(Single \cup {Index}) /\ file # <<>> /\ Last(file) \in Dotted \cup {Index}
    BY FileEnds
  <2> HIDE DEF file
  <2> QED BY <2>1, FileStays DEF UrlFromLocalPath
<1>2. FileOf(Cleared(p)) = file \/ (Last(p) = Blank /\ names # <<>> /\ Last(names) \in Dotted)
  <2>1. /\ Cleared(p) = IF names = <<>> THEN <<Blank>> ELSE names
        /\ file = IF Last(p) \in Dotted THEN names ELSE Append(names, Index)
        /\ Last(p) # Blank => names # <<>> /\ Last(names) = Last(p)
        /\ names \in Seq(Single) /\ Last(p) \in Filed
    BY SingleNames, PlainNormal, FileIs, FileEnds, FrontLast
  <2>2. CASE names = <<>>
    <3> DEFINE b == <<Blank>>
    <3>1. b \in Seq(Filed) /\ b # <<>> /\ Last(b) = Blank /\ Front(b) = <<>>
      <4>1. Blank \in Filed
        BY DEF Filed
      <4> QED BY <4>1 DEF Last, Front
    <3>2. Names(<<>>) = <<>>
      BY WithoutNothing DEF Names
    <3>3. Blank \notin Dotted
      BY IndexName, BlankIs
    <3>4. Cleared(p) = b
      BY <2>1, <2>2
    <3> HIDE DEF b
    <3>5. Names(b) = <<>> /\ FileOf(b) = Append(<<>>, Index)
      BY <3>1, <3>2, <3>3, NamesEnd, FileIs
    <3>6. Last(p) \notin Dotted
      BY <2>1, <2>2, <3>3
    <3> QED BY <2>1, <2>2, <3>4, <3>5, <3>6
  <2>3. CASE names # <<>> /\ Last(p) # Blank
    <3>1. FileOf(names) = IF Last(names) \in Dotted THEN names ELSE Append(names, Index)
      BY <2>1, <2>3, FileOfNames
    <3> QED BY <2>1, <2>3, <3>1
  <2>4. CASE names # <<>> /\ Last(p) = Blank /\ Last(names) \notin Dotted
    <3>1. FileOf(names) = Append(names, Index)
      BY <2>1, <2>4, FileOfNames
    <3>2. Blank \notin Dotted
      BY IndexName, BlankIs
    <3> QED BY <2>1, <2>4, <3>1, <3>2
  <2> QED BY <2>2, <2>3, <2>4
<1>3. ASSUME NEW k \in 1..Len(p) - 1, IsStrictPrefix(FileOf(SubSeq(p, 1, k)), file)
      PROVE  Last(FileOf(SubSeq(p, 1, k))) \in Dotted
  <2>1. SubSeq(p, 1, k) \in Seq(Filed) /\ SubSeq(p, 1, k) # <<>>
    <3>1. k \in Nat \ {0} /\ 1 <= k /\ \A i \in 1..k : p[i] \in Filed
      OBVIOUS
    <3>2. SubSeq(p, 1, k) \in Seq(Filed) /\ Len(SubSeq(p, 1, k)) = k - 1 + 1
      BY <3>1, SubSeqProperties
    <3> QED BY <3>1, <3>2
  <2> QED BY <1>3, <2>1, NoFileAbove
<1> QED BY <1>1, <1>2, <1>3

(* The file of a literal path is one, and is as the path is read once.       *)
LEMMA LiteralFile ==
  ASSUME NEW p \in Seq(Filed), p # <<>>, Literal(p)
  PROVE  /\ PathForURL(p) = FileOf(p)
         /\ FileOf(p) \in Seq(Segment \cup {Index})
         /\ FileOf(p) # <<>> /\ PathForURL(FileOf(p)) = FileOf(FileOf(p))
<1> DEFINE names == Names(p)
           L == ToSet(p)
           file == FileOf(p)
<1>1. PathForURL(p) = FileOf(p)
  <2>1. p \in Seq(Segment)
    BY SingleNames, SeqOfMore
  <2> QED BY <2>1, UnescapeLiteral DEF PathForURL
<1>2. file \in Seq(Single \cup {Index}) /\ file # <<>>
  BY FileEnds
<1>3. file = names \/ file = Append(names, Index)
  BY FileIs
<1>4. names \in Seq(L)
  <2>1. p \in Seq(L)
    <3>1. \A i \in 1..Len(p) : p[i] \in L
      BY DEF ToSet
    <3> HIDE DEF L
    <3> QED BY <3>1
  <2> DEFINE drop == {Blank}
  <2> HIDE DEF drop, L
  <2>2. Without(p, drop) \in Seq(L \ drop)
    BY <2>1, WithoutType
  <2>3. Without(p, drop) \in Seq(L)
    BY <2>2, SeqOfMore
  <2> QED BY <2>3 DEF drop, Names
<1>5. ToSet(file) \subseteq L \cup {Index}
  <2> HIDE DEF L, names, file
  <2>1. file \in Seq(L \cup {Index})
    <3>1. names \in Seq(L \cup {Index}) /\ Index \in L \cup {Index}
      BY <1>4, SeqOfMore
    <3> QED BY <1>3, <3>1
  <2> QED BY <2>1 DEF ToSet
<1>6. ToSet(file) \cap (DOMAIN Escape \cup Broken \cup DOMAIN Before) = {}
  <2>1. Index \notin DOMAIN Escape \cup Broken \cup DOMAIN Before
    BY RulesAssumption DEF Index
  <2> QED BY <1>5, <2>1 DEF Literal
<1>7. Unescape(file) = file
  BY <1>2, <1>6, UnescapeNothing
<1>8. file \in Seq(Segment \cup {Index})
  <2>1. Single \cup {Index} \subseteq Segment \cup {Index}
    BY SingleNames DEF Segment
  <2> QED BY <1>2, <2>1, SeqOfMore
<1> QED BY <1>1, <1>2, <1>7, <1>8 DEF PathForURL

(* No file has a ".." in its path, however it came about.                    *)
LEMMA NoneOutside ==
  ASSUME NEW p \in Seq(Segment), p # <<>>
  PROVE  ".." \notin ToSet(PathForURL(p))
<1> DEFINE q == Unescape(p)
           filled == IF Last(q) = Blank THEN Append(Front(q), Index) ELSE q
           page == IF HasDot(Last(filled)) THEN filled ELSE Append(filled, Index)
           drop == {Blank, "."}
           T == Segment \cup {Index}
           out == Without(page, drop)
<1>1. q \in Seq(Segment) /\ q # <<>>
  BY UnescapeLiteral, UnescapeSome
<1>2. PathForURL(p) = IF ToSet(page) \cap (Twice \cup {".."}) # {} THEN <<"_safe_path">> ELSE out
  BY Zenon DEF PathForURL, FileOf
<1>3. page \in Seq(T)
  <2> HIDE DEF q
  <2>1. Front(q) \in Seq(Segment)
    BY <1>1, FrontLast
  <2>2. filled \in Seq(T)
    <3>1. Front(q) \in Seq(T) /\ q \in Seq(T) /\ Index \in T
      BY <1>1, <2>1, SeqOfMore
    <3> HIDE DEF T
    <3> QED BY <3>1
  <2> QED BY <2>2
<1> HIDE DEF page
<1>4. ASSUME ToSet(page) \cap (Twice \cup {".."}) = {} PROVE ".." \notin ToSet(out)
  <2> DEFINE L == ToSet(page)
  <2>1. page \in Seq(L)
    <3>1. \A i \in 1..Len(page) : page[i] \in L
      BY DEF ToSet
    <3> HIDE DEF L, T
    <3> QED BY <1>3, <3>1
  <2>2. ".." \notin L
    BY <1>4
  <2> HIDE DEF L, drop
  <2>3. out \in Seq(L \ drop)
    BY <2>1, WithoutType
  <2>4. \A i \in 1..Len(out) : out[i] \in L
    BY <2>3
  <2> HIDE DEF out
  <2> QED BY <2>2, <2>4 DEF ToSet
<1>5. ".." \notin ToSet(<<"_safe_path">>)
  BY DEF ToSet
<1> HIDE DEF out
<1> QED BY <1>2, <1>4, <1>5

-----------------------------------------------------------------------------
(* The text of a path. *)

Written(s) == IF s = Blank THEN <<"/">> ELSE <<"/", s>>
Writes(t, p) == t = [i \in 0..Len(p) |-> IF i = 0 THEN <<>> ELSE t[i - 1] \o Written(p[i])]
Token == Segment \cup {"/"}

LEMMA TextIs ==
  ASSUME NEW p \in Seq(Segment)
  PROVE  \E t : /\ Writes(t, p) /\ Text(p) = t[Len(p)] /\ \A i \in 0..Len(p) : t[i] \in Seq(Token)
<1> DEFINE n == Len(p)
           A == Seq(Token)
           next == [i \in 1..n |-> [a \in A |-> a \o Written(p[i])]]
           t == CHOOSE t : Writes(t, p)
<1>1. n \in Nat /\ <<>> \in A
  OBVIOUS
<1>2. \A i \in 1..n, a \in A : a \o Written(p[i]) \in A
  <2>1. ASSUME NEW s \in Segment PROVE Written(s) \in Seq(Token)
    <3>1. s \in Token /\ "/" \in Token
      BY DEF Token
    <3>2. <<"/">> \in Seq(Token) /\ <<"/", s>> \in Seq(Token)
      BY <3>1
    <3> QED BY <3>2 DEF Written
  <2>2. \A i \in 1..n : p[i] \in Segment
    OBVIOUS
  <2> QED BY <2>1, <2>2
<1>3. PICK f : Follows(f, n, A, <<>>, next)
  <2>1. next \in [1..n -> [A -> A]]
    BY <1>2
  <2> HIDE DEF A, n, next
  <2> QED BY <1>1, <2>1, StepByStep
<1>4. f \in [0..n -> A] /\ f[0] = <<>> /\ \A i \in 1..n : f[i] = next[i][f[i - 1]]
  BY <1>3 DEF Follows
<1> HIDE DEF A
<1>5. Writes(f, p)
  <2>1. ASSUME NEW i \in 0..n PROVE f[i] = IF i = 0 THEN <<>> ELSE f[i - 1] \o Written(p[i])
    <3>1. CASE i = 0
      BY <1>4, <3>1
    <3>2. CASE i # 0
      <4>1. i \in 1..n /\ i - 1 \in 0..n /\ f[i - 1] \in A
        BY <1>1, <1>4, <3>2
      <4> QED BY <1>4, <3>2, <4>1
    <3> QED BY <3>1, <3>2
  <2> QED BY <1>4, <2>1 DEF Writes
<1>6. Writes(t, p)
  BY <1>5
<1>7. Text(p) = t[n]
  BY DEF Text, Writes, Written
<1> HIDE DEF t
<1>8. \A i \in 0..n : t[i] \in A
  <2> DEFINE S == {i \in 0..n : t[i] \in A}
  <2>1. 0 \in S
    <3>1. 0 \in 0..n
      BY <1>1
    <3> QED BY <1>1, <1>6, <3>1 DEF Writes
  <2>2. ASSUME NEW i \in 1..n, i - 1 \in S PROVE i \in S
    <3>1. i \in 0..n /\ i # 0 /\ t[i - 1] \in A
      BY <1>1, <2>2
    <3>2. t[i] = t[i - 1] \o Written(p[i])
      BY <1>6, <3>1 DEF Writes
    <3> QED BY <1>2, <3>1, <3>2
  <2>3. 0..n \subseteq S
    <3> HIDE DEF S, n
    <3> QED BY <1>1, <2>1, <2>2, HandedOn
  <2> QED BY <2>3
<1> QED BY <1>6, <1>7, <1>8 DEF A

LEMMA TextType ==
  ASSUME NEW p \in Seq(Segment)
  PROVE  Text(p) \in Seq(Token)
<1>1. PICK t : Text(p) = t[Len(p)] /\ \A i \in 0..Len(p) : t[i] \in Seq(Token)
  BY TextIs
<1>2. Len(p) \in 0..Len(p)
  OBVIOUS
<1> QED BY <1>1, <1>2

LEMMA TextAppend ==
  ASSUME NEW p \in Seq(Segment), NEW s \in Segment
  PROVE  Text(Append(p, s)) = Text(p) \o Written(s)
<1> DEFINE q == Append(p, s)
           n == Len(p)
           m == n + 1
<1>1. /\ q \in Seq(Segment) /\ n \in Nat /\ n \in 0..n /\ Len(q) = n + 1 /\ q[m] = s
      /\ \A i \in 1..n : q[i] = p[i]
  OBVIOUS
<1>2. PICK v : Writes(v, p) /\ Text(p) = v[n]
  BY TextIs
<1> HIDE DEF q
<1>3. PICK w : Writes(w, q) /\ Text(q) = w[Len(q)]
  BY <1>1, TextIs
<1>4. \A i \in 0..Len(q) : w[i] = IF i = 0 THEN <<>> ELSE w[i - 1] \o Written(q[i])
  BY <1>3 DEF Writes
<1>5. \A i \in 0..n : v[i] = IF i = 0 THEN <<>> ELSE v[i - 1] \o Written(p[i])
  BY <1>2 DEF Writes
<1> DEFINE S == {i \in 0..n : w[i] = v[i]}
<1>6. 0 \in S
  BY <1>1, <1>4, <1>5
<1>7. ASSUME NEW i \in 1..n, i - 1 \in S PROVE i \in S
  <2>1. i \in 0..n /\ i \in 0..Len(q) /\ i # 0 /\ q[i] = p[i]
    BY <1>1
  <2> QED BY <1>4, <1>5, <1>7, <2>1
<1>8. w[n] = v[n]
  <2> HIDE DEF S, n
  <2>1. 0..n \subseteq S
    BY <1>1, <1>6, <1>7, HandedOn
  <2> QED BY <1>1, <2>1 DEF S
<1>9. m \in 0..Len(q) /\ m # 0 /\ m - 1 = n /\ Len(q) = m
  BY <1>1
<1> HIDE DEF m, n
<1>10. w[m] = w[n] \o Written(q[m])
  BY <1>4, <1>9
<1> QED BY <1>1, <1>2, <1>3, <1>8, <1>9, <1>10 DEF q

-----------------------------------------------------------------------------
(* robots.txt: what matches a path and its normal form.                      *)

Begins(c, rest, text) ==
  IF c = "*" THEN {j \in 1..Len(text) + 1 : \E k \in rest : j <= k}
  ELSE {j \in 1..Len(text) : text[j] = c /\ j + 1 \in rest}
Matches(m, rule, text) ==
  m = [i \in 0..Len(rule) |-> IF i = 0 THEN 1..Len(text) + 1 ELSE Begins(rule[Len(rule) + 1 - i], m[i - 1], text)]

(* m[i]: where in the text the last i tokens of the rule may begin.          *)
Matching(m, rule, text) ==
  /\ m[0] = 1..Len(text) + 1
  /\ \A i \in 1..Len(rule) : m[i] = Begins(rule[Len(rule) + 1 - i], m[i - 1], text)
  /\ \A i \in 0..Len(rule) : m[i] \in SUBSET (1..Len(text) + 1)
  /\ MatchPath(rule, text) <=> rule # <<>> /\ 1 \in m[Len(rule)]

LEMMA MatchPathIs ==
  ASSUME NEW T, NEW rule \in Seq(T), NEW U, NEW text \in Seq(U)
  PROVE  \E m : Matching(m, rule, text)
<1> DEFINE n == Len(rule)
           all == 1..Len(text) + 1
           A == SUBSET all
           next == [i \in 1..n |-> [a \in A |-> Begins(rule[n + 1 - i], a, text)]]
           m == CHOOSE m : Matches(m, rule, text)
<1>1. n \in Nat /\ all \in A /\ 0 \in 0..n
  OBVIOUS
<1>2. \A c, a : Begins(c, a, text) \in A
  BY DEF Begins
<1>3. PICK f : Follows(f, n, A, all, next)
  <2>1. next \in [1..n -> [A -> A]]
    <3> HIDE DEF A, n
    <3> QED BY <1>2
  <2> HIDE DEF A, n, next, all
  <2> QED BY <1>1, <2>1, StepByStep
<1>4. f \in [0..n -> A] /\ f[0] = all /\ \A i \in 1..n : f[i] = next[i][f[i - 1]]
  BY <1>3 DEF Follows
<1> HIDE DEF A, all
<1>5. Matches(f, rule, text)
  <2>1. ASSUME NEW i \in 0..n PROVE f[i] = IF i = 0 THEN all ELSE Begins(rule[n + 1 - i], f[i - 1], text)
    <3>1. CASE i = 0
      BY <1>4, <3>1
    <3>2. CASE i # 0
      <4>1. i \in 1..n /\ i - 1 \in 0..n /\ f[i - 1] \in A
        BY <1>1, <1>4, <3>2
      <4> QED BY <1>4, <3>2, <4>1
    <3> QED BY <3>1, <3>2
  <2> QED BY <1>4, <2>1 DEF Matches, all
<1>6. Matches(m, rule, text)
  BY <1>5
<1>7. MatchPath(rule, text) <=> rule # <<>> /\ 1 \in m[n]
  BY DEF MatchPath, Matches, Begins
<1> HIDE DEF m
<1>8. \A i \in 0..n : m[i] = IF i = 0 THEN all ELSE Begins(rule[n + 1 - i], m[i - 1], text)
  BY <1>6 DEF Matches, all
<1>9. m[0] = all /\ \A i \in 1..n : m[i] = Begins(rule[n + 1 - i], m[i - 1], text)
  <2>1. \A i \in 1..n : i \in 0..n /\ i # 0
    BY <1>1
  <2> QED BY <1>1, <1>8, <2>1
<1>10. \A i \in 0..n : m[i] \in A
  BY <1>1, <1>2, <1>8
<1> QED BY <1>7, <1>9, <1>10 DEF A, all, Matching

(* One slash more. *)
LEMMA MatchesMore ==
  ASSUME NEW T, NEW rule \in Seq(T), NEW U, NEW text \in Seq(U), NEW c \in U
  PROVE  MatchPath(rule, text) => MatchPath(rule, Append(text, c))
<1> DEFINE n == Len(rule)
           l == Len(text)
           more == Append(text, c)
<1>1. /\ n \in Nat /\ n \in 0..n /\ l \in Nat /\ more \in Seq(U) /\ Len(more) = l + 1
      /\ more[l + 1] = c /\ \A j \in 1..l : more[j] = text[j]
  OBVIOUS
<1>a. PICK m : Matching(m, rule, text)
  BY MatchPathIs
<1>2. /\ m[0] = 1..l + 1 /\ \A i \in 1..n : m[i] = Begins(rule[n + 1 - i], m[i - 1], text)
      /\ \A i \in 0..n : m[i] \in SUBSET (1..l + 1)
      /\ MatchPath(rule, text) <=> rule # <<>> /\ 1 \in m[n]
  BY <1>a DEF Matching
<1> HIDE DEF more
<1>b. PICK u : Matching(u, rule, more)
  BY <1>1, MatchPathIs
<1>3. /\ u[0] = 1..Len(more) + 1 /\ \A i \in 1..n : u[i] = Begins(rule[n + 1 - i], u[i - 1], more)
      /\ MatchPath(rule, more) <=> rule # <<>> /\ 1 \in u[n]
  BY <1>b DEF Matching
<1> HIDE DEF n, l
<1> DEFINE S == {i \in 0..n : m[i] \subseteq u[i]}
<1>4. 0 \in S
  BY <1>1, <1>2, <1>3
<1>5. ASSUME NEW i \in 1..n, i - 1 \in S PROVE i \in S
  <2>1. m[i] = Begins(rule[n + 1 - i], m[i - 1], text) /\ u[i] = Begins(rule[n + 1 - i], u[i - 1], more)
    BY <1>2, <1>3
  <2>2. m[i - 1] \subseteq u[i - 1] /\ i \in 0..n
    BY <1>5
  <2>3. Begins(rule[n + 1 - i], m[i - 1], text) \subseteq Begins(rule[n + 1 - i], u[i - 1], more)
    BY <1>1, <2>2 DEF Begins, l
  <2> QED BY <2>1, <2>2, <2>3
<1>6. m[n] \subseteq u[n]
  <2> HIDE DEF S
  <2>1. 0..n \subseteq S
    BY <1>1, <1>4, <1>5, HandedOn
  <2> QED BY <1>1, <2>1 DEF S
<1> QED BY <1>2, <1>3, <1>6 DEF more

(* The last of a rule that is not "*". *)
LEMMA LastLiteral ==
  ASSUME NEW T, NEW rule \in Seq(T), NEW i \in 1..Len(rule),
         rule[i] # "*", \A q \in i + 1..Len(rule) : rule[q] = "*"
  PROVE  Last(Without(rule, {"*"})) = rule[i]
<1> DEFINE drop == {"*"}
           n == Len(rule)
           K == {k \in 0..n : k >= i => Without(SubSeq(rule, 1, k), drop) # <<>>
                                        /\ Last(Without(SubSeq(rule, 1, k), drop)) = rule[i]}
<1>1. n \in Nat /\ n \in 0..n /\ i \in Nat /\ 0 < i /\ i <= n /\ \A k \in 1..n : rule[k] \in T
  OBVIOUS
<1>2. \A k \in 0..n : SubSeq(rule, 1, k) \in Seq(T)
  BY <1>1, SubSeqProperties
<1>3. ASSUME NEW k \in 1..n
      PROVE  Without(SubSeq(rule, 1, k), drop) =
               IF rule[k] = "*" THEN Without(SubSeq(rule, 1, k - 1), drop)
               ELSE Append(Without(SubSeq(rule, 1, k - 1), drop), rule[k])
  <2>1. SubSeq(rule, 1, k - 1) \in Seq(T) /\ rule[k] \in T
    BY <1>1, <1>2
  <2>2. SubSeq(rule, 1, k) = Append(SubSeq(rule, 1, k - 1), rule[k])
    OBVIOUS
  <2>3. Without(Append(SubSeq(rule, 1, k - 1), rule[k]), drop) =
          IF rule[k] \in drop THEN Without(SubSeq(rule, 1, k - 1), drop)
          ELSE Append(Without(SubSeq(rule, 1, k - 1), drop), rule[k])
    <3> HIDE DEF drop
    <3>1. ASSUME NEW s \in Seq(T), NEW e \in T
          PROVE  Without(Append(s, e), drop) = IF e \in drop THEN Without(s, drop) ELSE Append(Without(s, drop), e)
      BY WithoutAppend
    <3> QED BY <2>1, <3>1
  <2> QED BY <2>2, <2>3
<1>4. 0 \in K
  BY <1>1
<1>5. ASSUME NEW k \in 1..n, k - 1 \in K PROVE k \in K
  <2>0. k \in 0..n /\ k - 1 \in 0..n
    BY <1>1
  <2>1. CASE k < i
    BY <1>1, <2>0, <2>1
  <2>2. CASE k = i
    <3> DEFINE w == Without(SubSeq(rule, 1, k - 1), drop)
    <3>1. Without(SubSeq(rule, 1, k), drop) = Append(w, rule[k])
      BY <1>3, <2>2
    <3>2. w \in Seq(T \ drop) /\ rule[k] \in T \ drop
      BY <1>1, <1>2, <2>0, <2>2, WithoutType
    <3>3. Append(w, rule[k]) # <<>> /\ Last(Append(w, rule[k])) = rule[k]
      <4> HIDE DEF w, drop
      <4> QED BY <3>2, AppendLast
    <3> QED BY <2>0, <2>2, <3>1, <3>3
  <2>3. CASE k > i
    <3>1. rule[k] = "*" /\ k - 1 >= i
      BY <1>1, <2>3
    <3>2. Without(SubSeq(rule, 1, k), drop) = Without(SubSeq(rule, 1, k - 1), drop)
      BY <1>3, <3>1
    <3> QED BY <1>5, <2>0, <3>1, <3>2
  <2> QED BY <1>1, <2>1, <2>2, <2>3
<1>6. n \in K
  <2> HIDE DEF K, n
  <2>1. 0..n \subseteq K
    BY <1>1, <1>4, <1>5, HandedOn
  <2> QED BY <1>1, <2>1
<1>7. SubSeq(rule, 1, n) = rule
  BY SubSeqFull
<1> QED BY <1>1, <1>6, <1>7

(* A rule that matches because of what was put at the end ends in that. *)
LEMMA MatchesBecause ==
  ASSUME NEW T, NEW rule \in Seq(T), NEW U, NEW text \in Seq(U), NEW c \in U,
         MatchPath(rule, Append(text, c)), ~MatchPath(rule, text)
  PROVE  Last(Without(rule, {"*"})) = c
<1> DEFINE n == Len(rule)
           l == Len(text)
           more == Append(text, c)
<1>1. /\ n \in Nat /\ n \in 0..n /\ l \in Nat /\ more \in Seq(U) /\ Len(more) = l + 1
      /\ more[l + 1] = c /\ \A j \in 1..l : more[j] = text[j]
  OBVIOUS
<1>a. PICK m : Matching(m, rule, text)
  BY MatchPathIs
<1>2. /\ m[0] = 1..l + 1 /\ \A i \in 1..n : m[i] = Begins(rule[n + 1 - i], m[i - 1], text)
      /\ \A i \in 0..n : m[i] \in SUBSET (1..l + 1)
      /\ MatchPath(rule, text) <=> rule # <<>> /\ 1 \in m[n]
  BY <1>a DEF Matching
<1>m. MatchPath(rule, more)
  OBVIOUS
<1> HIDE DEF more
<1>b. PICK u : Matching(u, rule, more)
  BY <1>1, MatchPathIs
<1>3. /\ u[0] = 1..Len(more) + 1 /\ \A i \in 1..n : u[i] = Begins(rule[n + 1 - i], u[i - 1], more)
      /\ MatchPath(rule, more) <=> rule # <<>> /\ 1 \in u[n]
  BY <1>b DEF Matching
<1> DEFINE last == Last(Without(rule, {"*"}))
<1> SUFFICES ASSUME last # c PROVE FALSE
  OBVIOUS
<1>n. \A i \in 1..n : rule[i] # "*" /\ (\A q \in i + 1..n : rule[q] = "*") => rule[i] = last
  BY LastLiteral
<1> HIDE DEF n, l, last
<1> DEFINE AllStars(i) == \A q \in n + 1 - i..n : rule[q] = "*"
           S == {i \in 0..n : (AllStars(i) /\ m[i] = 1..l + 1) \/ u[i] \subseteq m[i]}
<1>4. 0 \in S
  BY <1>1, <1>2
<1>5. ASSUME NEW i \in 1..n, i - 1 \in S PROVE i \in S
  <2> DEFINE r == rule[n + 1 - i]
  <2>1. m[i] = Begins(r, m[i - 1], text) /\ u[i] = Begins(r, u[i - 1], more)
    BY <1>2, <1>3
  <2>2. i \in 0..n /\ i - 1 \in 0..n /\ n + 1 - i \in 1..n /\ n + 1 - (i - 1) = n + 1 - i + 1
    BY <1>1
  <2>3. m[i - 1] \subseteq 1..l + 1
    BY <1>2, <2>2
  <2>4. CASE u[i - 1] \subseteq m[i - 1]
    <3>1. ASSUME NEW j \in u[i] PROVE j \in m[i]
      <4>1. CASE r = "*"
        <5>1. j \in 1..Len(more) + 1 /\ \E k \in u[i - 1] : j <= k
          BY <2>1, <3>1, <4>1 DEF Begins
        <5>2. PICK k \in u[i - 1] : j <= k
          BY <5>1
        <5>3. k \in m[i - 1] /\ k \in 1..l + 1
          BY <2>3, <2>4, <5>2
        <5>4. j \in 1..l + 1
          BY <1>1, <5>1, <5>2, <5>3
        <5> QED BY <2>1, <4>1, <5>2, <5>3, <5>4 DEF Begins, l
      <4>2. CASE r # "*"
        <5>1. j \in 1..Len(more) /\ more[j] = r /\ j + 1 \in u[i - 1]
          BY <2>1, <4>2 DEF Begins
        <5>2. j + 1 \in m[i - 1] /\ j + 1 <= l + 1 /\ j \in 1..l
          BY <1>1, <2>3, <2>4, <5>1
        <5> QED BY <1>1, <2>1, <4>2, <5>1, <5>2 DEF Begins, l
      <4> QED BY <4>1, <4>2
    <3> QED BY <2>2, <3>1
  <2>5. CASE AllStars(i - 1) /\ m[i - 1] = 1..l + 1 /\ r = "*"
    <3>1. AllStars(i)
      <4>1. ASSUME NEW q \in n + 1 - i..n PROVE rule[q] = "*"
        <5>1. q = n + 1 - i \/ q \in n + 1 - (i - 1)..n
          BY <1>1, <2>2
        <5> QED BY <2>5, <5>1
      <4> QED BY <4>1
    <3>2. m[i] = 1..l + 1
      BY <1>1, <2>1, <2>5 DEF Begins, l
    <3> QED BY <2>2, <3>1, <3>2
  <2>6. CASE AllStars(i - 1) /\ m[i - 1] = 1..l + 1 /\ r # "*"
    <3>1. r = last
      BY <1>n, <2>2, <2>6
    <3>2. ASSUME NEW j \in u[i] PROVE j \in m[i]
      <4>1. j \in 1..Len(more) /\ more[j] = r
        BY <2>1, <2>6 DEF Begins
      <4>2. j # l + 1
        BY <1>1, <3>1, <4>1
      <4>3. j \in 1..l /\ j + 1 \in 1..l + 1
        BY <1>1, <4>1, <4>2
      <4> QED BY <1>1, <2>1, <2>6, <4>1, <4>3 DEF Begins, l
    <3> QED BY <2>2, <3>2
  <2> QED BY <1>5, <2>4, <2>5, <2>6
<1>6. n \in S
  <2> HIDE DEF S
  <2>1. 0..n \subseteq S
    BY <1>1, <1>4, <1>5, HandedOn
  <2> QED BY <1>1, <2>1
<1>7. rule # <<>> /\ 1 \in u[n] /\ 1 \notin m[n]
  BY <1>2, <1>3, <1>m
<1>8. m[n] # 1..l + 1
  BY <1>1, <1>7
<1> QED BY <1>6, <1>7, <1>8

LEMMA LongestOne ==
  ASSUME NEW T, NEW r \in Seq(T), NEW text
  PROVE  Longest({r}, text) = IF MatchPath(r, text) THEN Len(r) ELSE 0
<1>1. CASE MatchPath(r, text)
  <2>1. {Len(s) : s \in {s \in {r} : MatchPath(s, text)}} = {Len(r)}
    BY <1>1
  <2>2. Len(r) \in Nat
    OBVIOUS
  <2> DEFINE lengths == {Len(s) : s \in {s \in {r} : MatchPath(s, text)}}
  <2>3. Longest({r}, text) = IF lengths = {} THEN 0 ELSE CHOOSE n \in lengths : \A k \in lengths : k <= n
    BY DEF Longest
  <2> HIDE DEF lengths
  <2>4. lengths = {Len(r)}
    BY <2>1 DEF lengths
  <2> QED BY <1>1, <2>2, <2>3, <2>4
<1>2. CASE ~MatchPath(r, text)
  <2>1. {Len(s) : s \in {s \in {r} : MatchPath(s, text)}} = {}
    BY <1>2
  <2> QED BY <1>2, <2>1 DEF Longest
<1> QED BY <1>1, <1>2

(* What is allowed without the slash at the end, and is not with it, is so   *)
(* for a rule that ends in one.                                              *)
LEMMA SlashDecides ==
  ASSUME NEW T, NEW allow \in Seq(T), NEW disallow \in Seq(T), NEW U, NEW text \in Seq(U), NEW c \in U,
         Allowed({allow}, {disallow}, text), ~Allowed({allow}, {disallow}, Append(text, c))
  PROVE  Last(Without(disallow, {"*"})) = c
<1> DEFINE more == Append(text, c)
<1>1. Len(allow) \in Nat /\ Len(disallow) \in Nat
  OBVIOUS
<1>2. /\ Longest({allow}, text) = IF MatchPath(allow, text) THEN Len(allow) ELSE 0
      /\ Longest({disallow}, text) = IF MatchPath(disallow, text) THEN Len(disallow) ELSE 0
      /\ Longest({allow}, more) = IF MatchPath(allow, more) THEN Len(allow) ELSE 0
      /\ Longest({disallow}, more) = IF MatchPath(disallow, more) THEN Len(disallow) ELSE 0
  BY LongestOne
<1>3. /\ Longest({allow}, text) >= Longest({disallow}, text)
      /\ ~(Longest({allow}, more) >= Longest({disallow}, more))
  BY DEF Allowed
<1>4. MatchPath(allow, text) => MatchPath(allow, more)
  BY MatchesMore
<1>5. MatchPath(disallow, more) /\ ~MatchPath(disallow, text)
  <2> HIDE DEF more
  <2> QED BY <1>1, <1>2, <1>3, <1>4
<1> QED BY <1>5, MatchesBecause

LEMMA RefusedFor ==
  ASSUME NEW p \in Seq(Plain), p # <<>>, Blank \notin ToSet(Front(p)),
         NEW T, NEW allow \in Seq(T), NEW disallow \in Seq(T),
         Allowed({allow}, {disallow}, Text(Cleared(p))), ~Allowed({allow}, {disallow}, Text(p))
  PROVE  Last(Without(disallow, {"*"})) = "/"
<1> DEFINE front == Front(p)
           last == Last(p)
<1>1. front \in Seq(Plain) /\ last \in Plain /\ p = Append(front, last)
  BY FrontLast
<1>2. front \in Seq(Name)
  <2>1. \A i \in 1..Len(front) : front[i] \in Name
    <3> HIDE DEF front
    <3>1. \A i \in 1..Len(front) : front[i] \in ToSet(front) /\ front[i] \in Plain
      BY <1>1 DEF ToSet
    <3> QED BY <3>1 DEF front, Plain
  <2> HIDE DEF front
  <2> QED BY <1>1, <2>1
<1>3. Names(front) = front
  <2> DEFINE drop == {Blank}
  <2>1. Name \cap drop = {}
    BY BlankIs
  <2> HIDE DEF drop, front
  <2>2. Without(front, drop) = front
    BY <1>2, <2>1, WithoutAll
  <2> QED BY <2>2 DEF drop, Names
<1>4. Names(p) = IF last = Blank THEN front ELSE p
  BY <1>1, <1>3, NamesEnd
<1>5. Cleared(p) = IF Names(p) = <<>> THEN <<Blank>> ELSE Names(p)
  BY PlainNormal
<1>6. Cleared(p) # p
  OBVIOUS
<1>7. last = Blank /\ Cleared(p) = front
  <2>1. CASE last # Blank
    BY <1>4, <1>5, <1>6, <2>1
  <2>2. CASE last = Blank /\ front = <<>>
    <3>1. p = <<Blank>>
      BY <1>1, <2>2
    <3> QED BY <1>4, <1>5, <1>6, <2>2, <3>1
  <2>3. CASE last = Blank /\ front # <<>>
    BY <1>4, <1>5, <2>3
  <2> QED BY <2>1, <2>2, <2>3
<1> HIDE DEF front, last
<1>8. front \in Seq(Segment) /\ Blank \in Segment
  <2>1. Name \subseteq Segment /\ Blank \in Segment
    BY DEF Segment
  <2> QED BY <1>2, <2>1, SeqOfMore
<1>9. Text(p) = Append(Text(front), "/") /\ Text(front) \in Seq(Token) /\ "/" \in Token
  <2>1. Text(front) \in Seq(Token) /\ "/" \in Token
    BY <1>8, TextType DEF Token
  <2>2. Text(p) = Text(front) \o Written(Blank)
    BY <1>1, <1>7, <1>8, TextAppend
  <2>3. Written(Blank) = <<"/">>
    BY DEF Written
  <2>4. Text(front) \o <<"/">> = Append(Text(front), "/")
    BY <2>1
  <2> QED BY <2>1, <2>2, <2>3, <2>4
<1> DEFINE text == Text(front)
           slash == "/"
<1>10. Allowed({allow}, {disallow}, text) /\ ~Allowed({allow}, {disallow}, Append(text, slash))
  BY <1>7, <1>9
<1> HIDE DEF text, slash
<1>11. Last(Without(disallow, {"*"})) = slash
  BY <1>9, <1>10, SlashDecides DEF text, slash
<1> QED BY <1>11 DEF slash

-----------------------------------------------------------------------------
(* Glob patterns: what they match, token by token.                           *)

Fit(c, t) == IF c = "?" THEN t # "/" ELSE c = t

(* Where the last p tokens of a pattern match, when those after the first of *)
(* them match at rest: by the code, and by its comment.                      *)
CodeFrom(pat, p, rest, text) ==
  LET n == Len(pat)
      c == pat[n + 1 - p]
      Stops(d, i) == {j \in i..Len(text) : text[j] = "/" \/ d \in {text[j], "?"}}
      Found(d, i) == CHOOSE j \in Stops(d, i) : \A k \in Stops(d, i) : j <= k
  IN {i \in 1..Len(text) + 2 :
        IF i > Len(text) THEN \A q \in n + 1 - p..n : pat[q] = "*"
        ELSE IF c = "*"
          THEN IF p = 1 THEN \A j \in i..Len(text) : text[j] # "/"
               ELSE Stops(pat[n + 2 - p], i) # {} /\ Found(pat[n + 2 - p], i) + 1 \in rest
        ELSE Fit(c, text[i]) /\ i + 1 \in rest}

MeantFrom(c, rest, text) ==
  {i \in 1..Len(text) + 1 :
     IF c \in {"*", "**"}
       THEN \E k \in rest : i <= k /\ (c = "**" \/ \A j \in i..k - 1 : text[j] # "/")
       ELSE /\ i <= Len(text) /\ i + 1 \in rest
            /\ c = text[i] \/ (c = "?" /\ text[i] # "/")}

CodeFroms(g, pat, text) ==
  g = [p \in 0..Len(pat) |-> IF p = 0 THEN {i \in 1..Len(text) + 2 : i > Len(text)}
                             ELSE CodeFrom(pat, p, g[p - 1], text)]
MeantFroms(m, pat, text) ==
  m = [p \in 0..Len(pat) |-> IF p = 0 THEN {Len(text) + 1}
                             ELSE MeantFrom(pat[Len(pat) + 1 - p], m[p - 1], text)]

CodeMatching(g, pat, text) ==
  /\ g[0] = {Len(text) + 1, Len(text) + 2}
  /\ \A p \in 1..Len(pat) : g[p] = CodeFrom(pat, p, g[p - 1], text)
  /\ \A p \in 0..Len(pat) : g[p] \in SUBSET (1..Len(text) + 2)
  /\ GlobMatchSimple(pat, text) <=> 1 \in g[Len(pat)]
MeantMatching(m, pat, text) ==
  /\ m[0] = {Len(text) + 1}
  /\ \A p \in 1..Len(pat) : m[p] = MeantFrom(pat[Len(pat) + 1 - p], m[p - 1], text)
  /\ \A p \in 0..Len(pat) : m[p] \in SUBSET (1..Len(text) + 1)
  /\ GlobMeans(pat, text) <=> 1 \in m[Len(pat)]

LEMMA GlobMatchSimpleIs ==
  ASSUME NEW T, NEW pat \in Seq(T), NEW U, NEW text \in Seq(U)
  PROVE  \E g : CodeMatching(g, pat, text)
<1> DEFINE n == Len(pat)
           all == 1..Len(text) + 2
           none == {i \in all : i > Len(text)}
           A == SUBSET all
           next == [p \in 1..n |-> [a \in A |-> CodeFrom(pat, p, a, text)]]
           g == CHOOSE g : CodeFroms(g, pat, text)
<1>1. n \in Nat /\ none \in A /\ 0 \in 0..n /\ none = {Len(text) + 1, Len(text) + 2}
  OBVIOUS
<1>2. \A p, a : CodeFrom(pat, p, a, text) \in A
  BY DEF CodeFrom
<1>3. PICK f : Follows(f, n, A, none, next)
  <2>1. next \in [1..n -> [A -> A]]
    <3> HIDE DEF A, n
    <3> QED BY <1>2
  <2> HIDE DEF A, n, next, none
  <2> QED BY <1>1, <2>1, StepByStep
<1>4. f \in [0..n -> A] /\ f[0] = none /\ \A i \in 1..n : f[i] = next[i][f[i - 1]]
  BY <1>3 DEF Follows
<1> HIDE DEF A, none
<1>5. CodeFroms(f, pat, text)
  <2>1. ASSUME NEW i \in 0..n PROVE f[i] = IF i = 0 THEN none ELSE CodeFrom(pat, i, f[i - 1], text)
    <3>1. CASE i = 0
      BY <1>4, <3>1
    <3>2. CASE i # 0
      <4>1. i \in 1..n /\ i - 1 \in 0..n /\ f[i - 1] \in A
        BY <1>1, <1>4, <3>2
      <4> QED BY <1>4, <3>2, <4>1
    <3> QED BY <3>1, <3>2
  <2> QED BY <1>4, <2>1 DEF CodeFroms, none
<1>6. CodeFroms(g, pat, text)
  BY <1>5
<1>7. GlobMatchSimple(pat, text) <=> 1 \in g[n]
  <2> DEFINE h == CHOOSE h : h = [p \in 0..n |->
               IF p = 0 THEN {i \in 1..Len(text) + 2 : i > Len(text)}
               ELSE CodeFrom(pat, p, h[p - 1], text)]
  <2>1. g = h
    BY DEF CodeFroms
  <2>2. GlobMatchSimple(pat, text) <=> 1 \in h[n]
    BY DEF GlobMatchSimple, CodeFrom, Fit
  <2> QED BY <2>1, <2>2
<1> HIDE DEF g
<1>8. \A i \in 0..n : g[i] = IF i = 0 THEN none ELSE CodeFrom(pat, i, g[i - 1], text)
  BY <1>6 DEF CodeFroms, none
<1>9. g[0] = none /\ \A i \in 1..n : g[i] = CodeFrom(pat, i, g[i - 1], text)
  <2>1. \A i \in 1..n : i \in 0..n /\ i # 0
    BY <1>1
  <2> QED BY <1>1, <1>8, <2>1
<1>10. \A i \in 0..n : g[i] \in A
  BY <1>1, <1>2, <1>8
<1> QED BY <1>1, <1>7, <1>9, <1>10 DEF A, CodeMatching

LEMMA GlobMeansIs ==
  ASSUME NEW T, NEW pat \in Seq(T), NEW U, NEW text \in Seq(U)
  PROVE  \E m : MeantMatching(m, pat, text)
<1> DEFINE n == Len(pat)
           all == 1..Len(text) + 1
           none == {Len(text) + 1}
           A == SUBSET all
           next == [p \in 1..n |-> [a \in A |-> MeantFrom(pat[n + 1 - p], a, text)]]
           m == CHOOSE m : MeantFroms(m, pat, text)
<1>1. n \in Nat /\ none \in A /\ 0 \in 0..n
  OBVIOUS
<1>2. \A c, a : MeantFrom(c, a, text) \in A
  BY DEF MeantFrom
<1>3. PICK f : Follows(f, n, A, none, next)
  <2>1. next \in [1..n -> [A -> A]]
    <3> HIDE DEF A, n
    <3> QED BY <1>2
  <2> HIDE DEF A, n, next, none
  <2> QED BY <1>1, <2>1, StepByStep
<1>4. f \in [0..n -> A] /\ f[0] = none /\ \A i \in 1..n : f[i] = next[i][f[i - 1]]
  BY <1>3 DEF Follows
<1> HIDE DEF A, none
<1>5. MeantFroms(f, pat, text)
  <2>1. ASSUME NEW i \in 0..n PROVE f[i] = IF i = 0 THEN none ELSE MeantFrom(pat[n + 1 - i], f[i - 1], text)
    <3>1. CASE i = 0
      BY <1>4, <3>1
    <3>2. CASE i # 0
      <4>1. i \in 1..n /\ i - 1 \in 0..n /\ f[i - 1] \in A
        BY <1>1, <1>4, <3>2
      <4> QED BY <1>4, <3>2, <4>1
    <3> QED BY <3>1, <3>2
  <2> QED BY <1>4, <2>1 DEF MeantFroms, none
<1>6. MeantFroms(m, pat, text)
  BY <1>5
<1>7. GlobMeans(pat, text) <=> 1 \in m[n]
  BY DEF GlobMeans, MeantFroms, MeantFrom
<1> HIDE DEF m
<1>8. \A i \in 0..n : m[i] = IF i = 0 THEN none ELSE MeantFrom(pat[n + 1 - i], m[i - 1], text)
  BY <1>6 DEF MeantFroms, none
<1>9. m[0] = none /\ \A i \in 1..n : m[i] = MeantFrom(pat[n + 1 - i], m[i - 1], text)
  <2>1. \A i \in 1..n : i \in 0..n /\ i # 0
    BY <1>1
  <2> QED BY <1>1, <1>8, <2>1
<1>10. \A i \in 0..n : m[i] \in A
  BY <1>1, <1>2, <1>8
<1> QED BY <1>7, <1>9, <1>10 DEF A, none, MeantMatching

(* No "**", and "*" at most at the end. *)
Short(pat) == \A q \in 1..Len(pat) : pat[q] # "**" /\ (pat[q] = "*" => q = Len(pat))

(* Such a pattern means what the code matches. *)
LEMMA ShortMeans ==
  ASSUME NEW T, NEW pat \in Seq(T), Short(pat), NEW U, NEW text \in Seq(U)
  PROVE  GlobMatchSimple(pat, text) <=> GlobMeans(pat, text)
<1> DEFINE n == Len(pat)
           l == Len(text)
<1>1. n \in Nat /\ n \in 0..n /\ l \in Nat
  OBVIOUS
<1>a. PICK g : CodeMatching(g, pat, text)
  BY GlobMatchSimpleIs
<1>b. PICK m : MeantMatching(m, pat, text)
  BY GlobMeansIs
<1>2. /\ g[0] = {l + 1, l + 2} /\ \A p \in 1..n : g[p] = CodeFrom(pat, p, g[p - 1], text)
      /\ GlobMatchSimple(pat, text) <=> 1 \in g[n]
  BY <1>a DEF CodeMatching
<1>3. /\ m[0] = {l + 1} /\ \A p \in 1..n : m[p] = MeantFrom(pat[n + 1 - p], m[p - 1], text)
      /\ \A p \in 0..n : m[p] \subseteq 1..l + 1
      /\ GlobMeans(pat, text) <=> 1 \in m[n]
  BY <1>b DEF MeantMatching
<1>4. \A q \in 1..n : pat[q] # "**" /\ (pat[q] = "*" => q = n)
  BY DEF Short
<1> DEFINE S == {p \in 0..n : \A i \in 1..l + 1 : i \in g[p] <=> i \in m[p]}
<1>5. 0 \in S
  BY <1>1, <1>2, <1>3
<1>6. ASSUME NEW p \in 1..n, p - 1 \in S PROVE p \in S
  <2> DEFINE q == n + 1 - p
             c == pat[q]
  <2>1. p \in 0..n /\ p - 1 \in 0..n /\ q \in 1..n /\ (q = n <=> p = 1) /\ p \in Nat
    BY <1>1
  <2>2. c # "**" /\ (c = "*" => p = 1)
    BY <1>4, <2>1
  <2>3. g[p] = CodeFrom(pat, p, g[p - 1], text) /\ m[p] = MeantFrom(c, m[p - 1], text)
    BY <1>2, <1>3
  <2>4. ASSUME NEW i \in 1..l + 1 PROVE i \in g[p] <=> i \in m[p]
    <3>1. CASE i = l + 1
      <4>1. i \in g[p] <=> \A r \in q..n : pat[r] = "*"
        BY <1>1, <2>3, <3>1 DEF CodeFrom
      <4>2. i \in m[p] <=> c = "*" /\ l + 1 \in m[p - 1]
        BY <1>1, <1>3, <2>1, <2>2, <2>3, <3>1 DEF MeantFrom
      <4>3. (\A r \in q..n : pat[r] = "*") <=> c = "*"
        <5>1. q \in q..n /\ (c = "*" => q = n)
          BY <2>1, <2>2
        <5> QED BY <1>1, <5>1
      <4>4. c = "*" => l + 1 \in m[p - 1]
        BY <1>3, <2>2
      <4> QED BY <4>1, <4>2, <4>3, <4>4
    <3>2. CASE i # l + 1 /\ c = "*"
      <4>1. i \in 1..l /\ p = 1
        BY <1>1, <2>2, <3>2
      <4>2. i \in g[p] <=> \A j \in i..l : text[j] # "/"
        BY <1>1, <2>3, <3>2, <4>1 DEF CodeFrom
      <4>3. m[p - 1] = {l + 1}
        BY <1>3, <4>1
      <4>4. i \in m[p] <=> \E k \in {l + 1} : i <= k /\ \A j \in i..k - 1 : text[j] # "/"
        BY <1>1, <2>2, <2>3, <3>2, <4>3 DEF MeantFrom
      <4>5. i..l + 1 - 1 = i..l /\ i <= l + 1
        BY <1>1, <4>1
      <4> QED BY <4>2, <4>4, <4>5
    <3>3. CASE i # l + 1 /\ c # "*"
      <4>1. i \in 1..l /\ i + 1 \in 1..l + 1
        BY <1>1, <3>3
      <4>2. i \in g[p] <=> Fit(c, text[i]) /\ i + 1 \in g[p - 1]
        BY <1>1, <2>3, <3>3, <4>1 DEF CodeFrom
      <4>3. i \in m[p] <=> i + 1 \in m[p - 1] /\ (c = text[i] \/ (c = "?" /\ text[i] # "/"))
        BY <1>1, <2>2, <2>3, <3>3, <4>1 DEF MeantFrom
      <4>4. Fit(c, text[i]) <=> c = text[i] \/ (c = "?" /\ text[i] # "/")
        BY DEF Fit
      <4>5. i + 1 \in g[p - 1] <=> i + 1 \in m[p - 1]
        BY <1>6, <4>1
      <4> QED BY <4>2, <4>3, <4>4, <4>5
    <3> QED BY <3>1, <3>2, <3>3
  <2> QED BY <2>1, <2>4
<1>7. n \in S
  <2> HIDE DEF S, n
  <2>1. 0..n \subseteq S
    BY <1>1, <1>5, <1>6, HandedOn
  <2> QED BY <1>1, <2>1
<1>8. 1 \in 1..l + 1
  BY <1>1
<1> QED BY <1>2, <1>3, <1>7, <1>8

(* What a pattern without "*" but at the end matches, token by token. *)
Fitting(pat, text) ==
  LET n == Len(pat)
      l == Len(text)
  IN /\ \A r \in 1..n : pat[r] # "*" => r <= l /\ Fit(pat[r], text[r])
     /\ pat[n] = "*" => n - 1 <= l /\ \A j \in n..l : text[j] # "/"
     /\ pat[n] # "*" => l = n

LEMMA MatchedFits ==
  ASSUME NEW T, NEW pat \in Seq(T), pat # <<>>, Short(pat), NEW U, NEW text \in Seq(U),
         GlobMatchSimple(pat, text)
  PROVE  Fitting(pat, text)
<1> DEFINE n == Len(pat)
           l == Len(text)
           last == n - 1
<1>1. n \in Nat /\ n >= 1 /\ l \in Nat /\ last \in Nat
  OBVIOUS
<1>a. PICK g : CodeMatching(g, pat, text)
  BY GlobMatchSimpleIs
<1>2. /\ g[0] = {l + 1, l + 2} /\ \A p \in 1..n : g[p] = CodeFrom(pat, p, g[p - 1], text)
      /\ 1 \in g[n]
  BY <1>a DEF CodeMatching
<1>3. \A q \in 1..n : pat[q] # "**" /\ (pat[q] = "*" => q = n)
  BY DEF Short
<1>4. ASSUME NEW q \in 1..n, q \in g[n + 1 - q], pat[q] # "*"
      PROVE  q <= l /\ Fit(pat[q], text[q]) /\ q + 1 \in g[n - q]
  <2> DEFINE p == n + 1 - q
  <2>1. p \in 1..n /\ n + 1 - p = q /\ p - 1 = n - q
    BY <1>1
  <2>2. q \in CodeFrom(pat, p, g[n - q], text)
    BY <1>2, <1>4, <2>1
  <2>3. q <= l
    <3>1. q \in q..n
      BY <1>1
    <3> HIDE DEF p
    <3> QED BY <1>1, <1>4, <2>1, <2>2, <3>1 DEF CodeFrom
  <2>4. Fit(pat[q], text[q]) /\ q + 1 \in g[n - q]
    <3> HIDE DEF p
    <3> QED BY <1>1, <1>4, <2>1, <2>2, <2>3 DEF CodeFrom
  <2> QED BY <2>3, <2>4
<1> DEFINE S == {k \in 0..last : k <= l /\ k + 1 \in g[n - k]
                                 /\ \A r \in 1..k : r <= l /\ Fit(pat[r], text[r])}
<1>5. 0 \in S
  BY <1>1, <1>2
<1>6. ASSUME NEW k \in 1..last, k - 1 \in S PROVE k \in S
  <2>1. k \in 1..n /\ k # n /\ k - 1 + 1 = k /\ n - (k - 1) = n + 1 - k /\ k \in 0..last
    BY <1>1
  <2>2. k \in g[n + 1 - k] /\ \A r \in 1..k - 1 : r <= l /\ Fit(pat[r], text[r])
    BY <1>6, <2>1
  <2>3. k <= l /\ Fit(pat[k], text[k]) /\ k + 1 \in g[n - k]
    BY <1>3, <1>4, <2>1, <2>2
  <2>4. \A r \in 1..k : r \in 1..k - 1 \/ r = k
    OBVIOUS
  <2> QED BY <2>1, <2>2, <2>3, <2>4
<1>7. last \in S
  <2>1. last \in 0..last
    BY <1>1
  <2> HIDE DEF S, last, n
  <2>2. 0..last \subseteq S
    BY <1>1, <1>5, <1>6, HandedOn
  <2> QED BY <2>1, <2>2
<1>8. n - 1 <= l /\ n \in g[1] /\ \A r \in 1..n - 1 : r <= l /\ Fit(pat[r], text[r])
  BY <1>1, <1>7
<1>9. n \in CodeFrom(pat, 1, g[0], text) /\ n \in 1..n /\ n + 1 - 1 = n /\ n - n = 0 /\ n + 1 - n = 1
  <2>1. n \in 1..n /\ 1 \in 1..n /\ 1 - 1 = 0 /\ n + 1 - 1 = n /\ n - n = 0 /\ n + 1 - n = 1
    BY <1>1
  <2>2. g[1] = CodeFrom(pat, 1, g[1 - 1], text)
    BY <1>2, <2>1
  <2> QED BY <1>8, <2>1, <2>2
<1>10. pat[n] = "*" => \A j \in n..l : text[j] # "/"
  <2>1. CASE n > l
    BY <1>1, <2>1
  <2>2. CASE n <= l
    BY <1>1, <1>9, <2>2 DEF CodeFrom
  <2> QED BY <1>1, <2>1, <2>2
<1>11. pat[n] # "*" => n = l /\ Fit(pat[n], text[n])
  <2> SUFFICES ASSUME pat[n] # "*" PROVE n = l /\ Fit(pat[n], text[n])
    OBVIOUS
  <2>1. n <= l /\ Fit(pat[n], text[n]) /\ n + 1 \in g[0]
    BY <1>4, <1>8, <1>9
  <2> QED BY <1>1, <1>2, <2>1
<1>12. \A r \in 1..n : r \in 1..n - 1 \/ r = n
  OBVIOUS
<1> QED BY <1>8, <1>10, <1>11, <1>12 DEF Fitting

(* A pattern means a text when its tokens can be placed in it, one after     *)
(* another: at[q] is where the token q begins.                               *)
LEMMA MeansBecause ==
  ASSUME NEW T, NEW pat \in Seq(T), pat # <<>>, NEW U, NEW text \in Seq(U),
         NEW at \in [1..Len(pat) -> 1..Len(text) + 1], at[1] = 1,
         \A q \in 1..Len(pat) - 1 :
           IF pat[q] = "**" THEN at[q] <= at[q + 1]
           ELSE /\ pat[q] # "*" /\ at[q] <= Len(text) /\ Fit(pat[q], text[at[q]])
                /\ at[q + 1] = at[q] + 1,
         \/ pat[Len(pat)] = "**"
         \/ pat[Len(pat)] = "*" /\ \A j \in at[Len(pat)]..Len(text) : text[j] # "/"
         \/ /\ pat[Len(pat)] \notin {"*", "**"}
            /\ at[Len(pat)] = Len(text) /\ Fit(pat[Len(pat)], text[Len(text)])
  PROVE  GlobMeans(pat, text)
<1> DEFINE n == Len(pat)
           l == Len(text)
           last == n - 1
<1>1. n \in Nat /\ n >= 1 /\ l \in Nat /\ last \in Nat
  OBVIOUS
<1>b. PICK m : MeantMatching(m, pat, text)
  BY GlobMeansIs
<1>3. /\ m[0] = {l + 1} /\ \A p \in 1..n : m[p] = MeantFrom(pat[n + 1 - p], m[p - 1], text)
      /\ \A p \in 0..n : m[p] \subseteq 1..l + 1
      /\ GlobMeans(pat, text) <=> 1 \in m[n]
  BY <1>b DEF MeantMatching
<1>4. \A q \in 1..n : at[q] \in 1..l + 1
  OBVIOUS
<1> DEFINE S == {k \in 0..last : at[n - k] \in m[k + 1]}
<1>5. 0 \in S
  <2>1. m[1] = MeantFrom(pat[n], {l + 1}, text) /\ at[n] \in 1..l + 1 /\ n - 0 = n
    <3>1. 1 \in 1..n /\ n \in 1..n /\ 1 - 1 = 0 /\ n + 1 - 1 = n /\ n - 0 = n
      BY <1>1
    <3>2. m[1] = MeantFrom(pat[n + 1 - 1], m[1 - 1], text)
      BY <1>3, <3>1
    <3> QED BY <1>3, <1>4, <3>1, <3>2
  <2>2. CASE pat[n] = "**"
    BY <1>1, <2>1, <2>2 DEF MeantFrom
  <2>3. CASE pat[n] = "*" /\ \A j \in at[n]..l : text[j] # "/"
    <3>1. \A j \in at[n]..l + 1 - 1 : text[j] # "/"
      BY <1>1, <2>1, <2>3
    <3> QED BY <1>1, <2>1, <2>3, <3>1 DEF MeantFrom
  <2>4. CASE pat[n] \notin {"*", "**"} /\ at[n] = l /\ Fit(pat[n], text[l])
    BY <1>1, <2>1, <2>4 DEF MeantFrom, Fit
  <2> QED BY <1>1, <2>1, <2>2, <2>3, <2>4
<1>6. ASSUME NEW k \in 1..last, k - 1 \in S PROVE k \in S
  <2> DEFINE q == n - k
  <2>1. q \in 1..n - 1 /\ q \in 1..n /\ q + 1 \in 1..n /\ n - (k - 1) = q + 1 /\ k - 1 + 1 = k
        /\ k \in 0..last /\ k + 1 \in 1..n /\ n + 1 - (k + 1) = q
    BY <1>1
  <2>2. at[q + 1] \in m[k]
    BY <1>6, <2>1
  <2>3. m[k + 1] = MeantFrom(pat[q], m[k], text)
    BY <1>3, <2>1
  <2>4. at[q] \in 1..l + 1 /\ at[q + 1] \in 1..l + 1
    BY <1>4, <2>1
  <2>5. IF pat[q] = "**" THEN at[q] <= at[q + 1]
        ELSE pat[q] # "*" /\ at[q] <= l /\ Fit(pat[q], text[at[q]]) /\ at[q + 1] = at[q] + 1
    BY <2>1
  <2>6. at[q] \in m[k + 1]
    <3> HIDE DEF q
    <3>1. CASE pat[q] = "**"
      BY <2>2, <2>3, <2>4, <2>5, <3>1 DEF MeantFrom
    <3>2. CASE pat[q] # "**"
      BY <2>2, <2>3, <2>4, <2>5, <3>2 DEF MeantFrom, Fit
    <3> QED BY <3>1, <3>2
  <2> QED BY <2>1, <2>6
<1>7. last \in S
  <2>1. last \in 0..last
    BY <1>1
  <2> HIDE DEF S, last, n
  <2>2. 0..last \subseteq S
    BY <1>1, <1>5, <1>6, HandedOn
  <2> QED BY <2>1, <2>2
<1>8. n - last = 1 /\ last + 1 = n
  BY <1>1
<1> QED BY <1>3, <1>7, <1>8

(* "**": the first one, the last one before p, and what a part takes.        *)
Stars(pat) == {p \in 1..Len(pat) : pat[p] = "**"}
FirstStar(pat) == CHOOSE p \in Stars(pat) : \A k \in Stars(pat) : p <= k
StarBefore(pat, p) == CHOOSE q \in Stars(pat) : q < p /\ \A k \in Stars(pat) : k < p => k <= q

Taken(from, part, text) == {j \in from..Len(text) : GlobMatchSimple(part, SubSeq(text, from + 1, j))}
Skipped(from, part, text) ==
  IF part = <<>> \/ from > Len(text) THEN from
  ELSE IF Taken(from, part, text) = {} THEN Len(text) + 1
  ELSE CHOOSE j \in Taken(from, part, text) : \A k \in Taken(from, part, text) : j <= k

EndAt(pat, p, before, text) ==
  IF p <= FirstStar(pat) THEN FirstStar(pat) - 1
  ELSE IF pat[p] # "**" THEN before
  ELSE Skipped(before, SubSeq(pat, StarBefore(pat, p) + 1, p - 1), text)

EndsAt(end, pat, text) ==
  end = [p \in 0..Len(pat) |-> IF p <= FirstStar(pat) THEN FirstStar(pat) - 1
                               ELSE IF pat[p] # "**" THEN end[p - 1]
                               ELSE Skipped(end[p - 1], SubSeq(pat, StarBefore(pat, p) + 1, p - 1), text)]

Ending(end, pat, text) ==
  LET n == Len(pat)
      first == FirstStar(pat)
      last == StarBefore(pat, n + 1)
  IN /\ \A p \in 0..n : end[p] \in Nat /\ (p <= first => end[p] = first - 1)
     /\ \A p \in 1..n : p > first => end[p] = EndAt(pat, p, end[p - 1], text)
     /\ DoubleStar(pat, text) <=>
          /\ first > 1 => GlobMatchSimple(SubSeq(pat, 1, first - 1), text)
          /\ end[n] <= Len(text)
          /\ last < n => GlobMatchSimple(SubSeq(pat, last + 1, n), SubSeq(text, end[n] + 1, Len(text)))

LEMMA FirstStarIs ==
  ASSUME NEW T, NEW pat \in Seq(T), "**" \in ToSet(pat)
  PROVE  /\ FirstStar(pat) \in 1..Len(pat) /\ pat[FirstStar(pat)] = "**"
         /\ \A k \in 1..Len(pat) : pat[k] = "**" => FirstStar(pat) <= k
<1>1. Stars(pat) \in SUBSET (0..Len(pat)) /\ Len(pat) \in Nat /\ Stars(pat) # {}
  BY DEF Stars, ToSet
<1>2. \E k \in Stars(pat) : \A j \in Stars(pat) : k <= j
  BY <1>1, SmallestIs
<1>3. FirstStar(pat) \in Stars(pat) /\ \A k \in Stars(pat) : FirstStar(pat) <= k
  BY <1>2 DEF FirstStar
<1> QED BY <1>3 DEF Stars

(* After the first one there is a last one before. *)
LEMMA StarBeforeIs ==
  ASSUME NEW T, NEW pat \in Seq(T), "**" \in ToSet(pat), NEW p \in 1..Len(pat) + 1, p > FirstStar(pat)
  PROVE  /\ StarBefore(pat, p) \in 1..p - 1 /\ StarBefore(pat, p) <= Len(pat)
         /\ pat[StarBefore(pat, p)] = "**"
         /\ \A k \in 1..Len(pat) : k < p /\ pat[k] = "**" => k <= StarBefore(pat, p)
         /\ FirstStar(pat) <= StarBefore(pat, p)
<1> DEFINE n == Len(pat)
           back == {j \in 0..n : j # n /\ pat[n - j] = "**" /\ n - j < p}
           f == FirstStar(pat)
<1>1. n \in Nat /\ back \in SUBSET (0..n) /\ f \in 1..n /\ pat[f] = "**"
  BY FirstStarIs
<1>2. n - f \in back
  <2>1. n - f \in 0..n /\ n - f # n /\ n - (n - f) = f
    BY <1>1
  <2> HIDE DEF n, f
  <2> QED BY <1>1, <2>1 DEF f
<1>3. PICK j \in back : \A k \in back : j <= k
  <2> HIDE DEF back
  <2> QED BY <1>1, <1>2, SmallestIs
<1> DEFINE q == n - j
<1>4. q \in 1..n /\ pat[q] = "**" /\ q < p
  BY <1>1, <1>3
<1>5. ASSUME NEW k \in 1..n, pat[k] = "**", k < p PROVE k <= q
  <2>1. n - k \in 0..n /\ n - k # n /\ n - (n - k) = k
    BY <1>1
  <2>2. n - k \in back
    BY <1>5, <2>1
  <2>3. j <= n - k /\ j \in 0..n
    BY <1>3, <2>2
  <2> QED BY <1>1, <2>3
<1>6. q \in Stars(pat) /\ q < p /\ \A k \in Stars(pat) : k < p => k <= q
  <2> HIDE DEF q
  <2> QED BY <1>4, <1>5 DEF Stars
<1> DEFINE s == StarBefore(pat, p)
<1>7. s \in Stars(pat) /\ s < p /\ \A k \in Stars(pat) : k < p => k <= s
  <2> HIDE DEF q
  <2> QED BY <1>6 DEF StarBefore
<1>8. s \in 1..n /\ pat[s] = "**" /\ s < p
  BY <1>7 DEF Stars
<1>9. \A k \in 1..n : k < p /\ pat[k] = "**" => k <= s
  BY <1>7 DEF Stars
<1>10. s \in 1..p - 1 /\ s <= n /\ f <= s
  BY <1>1, <1>8, <1>9
<1> QED BY <1>8, <1>9, <1>10

(* A part that is found begins where the one before ended. *)
LEMMA SkippedIs ==
  ASSUME NEW from \in Nat, NEW part, NEW text, Len(text) \in Nat
  PROVE  /\ Skipped(from, part, text) \in Nat
         /\ Skipped(from, part, text) <= Len(text) => from <= Len(text)
         /\ part = <<>> => Skipped(from, part, text) = from
         /\ part # <<>> /\ Skipped(from, part, text) <= Len(text) =>
              /\ from <= Skipped(from, part, text)
              /\ GlobMatchSimple(part, SubSeq(text, from + 1, Skipped(from, part, text)))
<1> DEFINE ends == Taken(from, part, text)
           skipped == Skipped(from, part, text)
<1>1. \A j \in ends : j \in Nat /\ from <= j /\ j <= Len(text) /\ GlobMatchSimple(part, SubSeq(text, from + 1, j))
  BY DEF Taken
<1>2. ends \in SUBSET (0..Len(text))
  BY <1>1
<1>3. skipped = IF part = <<>> \/ from > Len(text) THEN from
                ELSE IF ends = {} THEN Len(text) + 1
                ELSE CHOOSE j \in ends : \A k \in ends : j <= k
  BY DEF Skipped
<1> HIDE DEF ends, skipped
<1>4. ends # {} => (CHOOSE j \in ends : \A k \in ends : j <= k) \in ends
  BY <1>2, SmallestIs
<1>5. CASE part = <<>> \/ from > Len(text)
  BY <1>3, <1>5 DEF skipped
<1>6. CASE ~(part = <<>> \/ from > Len(text)) /\ ends = {}
  BY <1>3, <1>6 DEF skipped
<1>7. CASE ~(part = <<>> \/ from > Len(text)) /\ ends # {}
  <2>1. skipped \in ends
    BY <1>3, <1>4, <1>7
  <2> QED BY <1>1, <1>7, <2>1 DEF skipped
<1> QED BY <1>5, <1>6, <1>7

LEMMA DoubleStarIs ==
  ASSUME NEW T, NEW pat \in Seq(T), "**" \in ToSet(pat), NEW U, NEW text \in Seq(U)
  PROVE  \E end : Ending(end, pat, text)
<1> DEFINE n == Len(pat)
           first == FirstStar(pat)
           next == [p \in 1..n |-> [a \in Nat |-> EndAt(pat, p, a, text)]]
           e == CHOOSE e : EndsAt(e, pat, text)
<1>1. n \in Nat /\ 0 \in 0..n /\ Len(text) \in Nat /\ first \in 1..n /\ first - 1 \in Nat
  BY FirstStarIs
<1>2. \A p, a \in Nat : EndAt(pat, p, a, text) \in Nat
  BY <1>1, SkippedIs DEF EndAt
<1>3. PICK f : Follows(f, n, Nat, first - 1, next)
  <2>1. next \in [1..n -> [Nat -> Nat]]
    <3>1. \A p \in 1..n : p \in Nat
      BY <1>1
    <3> HIDE DEF n
    <3> QED BY <1>2, <3>1
  <2> HIDE DEF n, next, first
  <2> QED BY <1>1, <2>1, StepByStep
<1>4. f \in [0..n -> Nat] /\ f[0] = first - 1 /\ \A i \in 1..n : f[i] = next[i][f[i - 1]]
  BY <1>3 DEF Follows
<1>5. EndsAt(f, pat, text)
  <2>1. ASSUME NEW i \in 0..n
        PROVE  f[i] = IF i <= FirstStar(pat) THEN FirstStar(pat) - 1
                      ELSE IF pat[i] # "**" THEN f[i - 1]
                      ELSE Skipped(f[i - 1], SubSeq(pat, StarBefore(pat, i) + 1, i - 1), text)
    <3>1. CASE i = 0
      BY <1>1, <1>4, <3>1
    <3>2. CASE i # 0
      <4>1. i \in 1..n /\ i - 1 \in 0..n
        BY <1>1, <3>2
      <4>3. f[i - 1] \in Nat
        BY <1>4, <4>1
      <4>2. f[i] = EndAt(pat, i, f[i - 1], text)
        BY <1>4, <4>1, <4>3
      <4> QED BY <4>2 DEF EndAt
    <3> QED BY <3>1, <3>2
  <2> QED BY <1>4, <2>1 DEF EndsAt
<1>6. EndsAt(e, pat, text)
  BY <1>5
<1>7. DoubleStar(pat, text) <=>
        /\ first > 1 => GlobMatchSimple(SubSeq(pat, 1, first - 1), text)
        /\ e[n] <= Len(text)
        /\ StarBefore(pat, n + 1) < n =>
             GlobMatchSimple(SubSeq(pat, StarBefore(pat, n + 1) + 1, n), SubSeq(text, e[n] + 1, Len(text)))
  BY DEF DoubleStar, EndsAt, Skipped, Taken, FirstStar, StarBefore, Stars
<1> HIDE DEF e
<1>8. \A p \in 0..n : e[p] = IF p <= first THEN first - 1
                             ELSE IF pat[p] # "**" THEN e[p - 1]
                             ELSE Skipped(e[p - 1], SubSeq(pat, StarBefore(pat, p) + 1, p - 1), text)
  BY <1>6 DEF EndsAt
<1>9. \A p \in 0..n : p <= first => e[p] = first - 1
  BY <1>8
<1>10. \A p \in 1..n : p > first => e[p] = EndAt(pat, p, e[p - 1], text)
  <2>1. \A p \in 1..n : p \in 0..n
    BY <1>1
  <2> QED BY <1>8, <2>1 DEF EndAt
<1>11. \A p \in 0..n : e[p] \in Nat
  <2> DEFINE S == {p \in 0..n : e[p] \in Nat}
  <2>1. 0 \in S
    BY <1>1, <1>9
  <2>2. ASSUME NEW p \in 1..n, p - 1 \in S PROVE p \in S
    <3>1. p \in 0..n /\ p \in Nat /\ e[p - 1] \in Nat
      BY <1>1, <2>2
    <3>2. CASE p <= first
      <4>1. e[p] = first - 1
        BY <1>9, <3>1, <3>2
      <4> QED BY <1>1, <3>1, <4>1
    <3>3. CASE p > first
      <4>1. e[p] = EndAt(pat, p, e[p - 1], text)
        BY <1>10, <3>3
      <4> QED BY <1>2, <3>1, <4>1
    <3>4. p <= first \/ p > first
      <4> HIDE DEF first
      <4> QED BY <1>1, <3>1
    <3> QED BY <3>2, <3>3, <3>4
  <2> HIDE DEF S, n
  <2>3. 0..n \subseteq S
    BY <1>1, <2>1, <2>2, HandedOn
  <2> QED BY <2>3 DEF S
<1> QED BY <1>7, <1>9, <1>10, <1>11 DEF Ending

(* A part of a pattern that matches a part of the text. *)
PartFitting(pat, a, z, text, from, to) ==
  /\ \A q \in a..z : pat[q] # "*" =>
       from + q - a + 1 <= to /\ Fit(pat[q], text[from + q - a + 1])
  /\ pat[z] = "*" => z - a <= to - from /\ \A j \in from + z - a + 1..to : text[j] # "/"
  /\ pat[z] # "*" => to - from = z - a + 1

LEMMA PartFits ==
  ASSUME NEW T, NEW pat \in Seq(T), NEW a \in 1..Len(pat), NEW z \in a..Len(pat),
         \A q \in a..z : pat[q] # "**" /\ (pat[q] = "*" => q = Len(pat)),
         NEW U, NEW text \in Seq(U), NEW from \in 0..Len(text), NEW to \in from..Len(text),
         GlobMatchSimple(SubSeq(pat, a, z), SubSeq(text, from + 1, to))
  PROVE  PartFitting(pat, a, z, text, from, to)
<1> DEFINE part == SubSeq(pat, a, z)
           sub == SubSeq(text, from + 1, to)
           n == z - a + 1
           l == to - from
<1>1. Len(pat) \in Nat /\ Len(text) \in Nat /\ n \in Nat /\ n >= 1 /\ l \in Nat
      /\ a \in Nat /\ z \in Nat /\ from \in Nat /\ to \in Nat /\ z <= Len(pat) /\ a >= 1
  OBVIOUS
<1>2. part \in Seq(T) /\ Len(part) = n /\ \A r \in 1..n : part[r] = pat[a + r - 1]
  BY <1>1, SubSeqProperties
<1>3. sub \in Seq(U) /\ Len(sub) = l /\ \A r \in 1..l : sub[r] = text[from + r]
  <2>1. sub = [r \in 1..l |-> text[from + 1 + r - 1]]
    BY <1>1
  <2>2. \A r \in 1..l : text[from + 1 + r - 1] = text[from + r] /\ text[from + r] \in U
    BY <1>1
  <2> HIDE DEF sub, l
  <2> QED BY <1>1, <2>1, <2>2
<1> HIDE DEF part, sub
<1>4. Short(part)
  <2>1. \A r \in 1..n : a + r - 1 \in a..z /\ (a + r - 1 = Len(pat) => r = n)
    BY <1>1
  <2> HIDE DEF n
  <2> QED BY <1>2, <2>1 DEF Short
<1>5. part # <<>>
  BY <1>1, <1>2
<1>6. GlobMatchSimple(part, sub)
  BY DEF part, sub
<1>7. Fitting(part, sub)
  BY <1>2, <1>3, <1>4, <1>5, <1>6, MatchedFits
<1>8. /\ \A r \in 1..n : part[r] # "*" => r <= l /\ Fit(part[r], sub[r])
      /\ part[n] = "*" => n - 1 <= l /\ \A j \in n..l : sub[j] # "/"
      /\ part[n] # "*" => l = n
  BY <1>2, <1>3, <1>7 DEF Fitting
<1>9. ASSUME NEW q \in a..z, pat[q] # "*"
      PROVE  from + q - a + 1 <= to /\ Fit(pat[q], text[from + q - a + 1])
  <2> DEFINE r == q - a + 1
  <2>1. r \in 1..n /\ a + r - 1 = q /\ from + r = from + q - a + 1
    BY <1>1
  <2>2. part[r] = pat[q]
    BY <1>2, <2>1
  <2>3. r <= l /\ Fit(pat[q], sub[r])
    BY <1>8, <1>9, <2>1, <2>2
  <2>4. r \in 1..l /\ from + r <= to
    BY <1>1, <2>1, <2>3
  <2>5. sub[r] = text[from + r]
    BY <1>3, <2>4
  <2> QED BY <2>1, <2>3, <2>4, <2>5
<1>10. n \in 1..n /\ a + n - 1 = z
  BY <1>1
<1>11. part[n] = pat[z]
  BY <1>2, <1>10
<1>12. pat[z] = "*" => z - a <= l /\ \A j \in from + z - a + 1..to : text[j] # "/"
  <2> SUFFICES ASSUME pat[z] = "*", NEW j \in from + z - a + 1..to PROVE text[j] # "/"
    BY <1>1, <1>8, <1>11
  <2>1. j - from \in n..l /\ j - from \in 1..l /\ from + (j - from) = j
    BY <1>1
  <2>2. sub[j - from] # "/" /\ sub[j - from] = text[from + (j - from)]
    BY <1>3, <1>8, <1>11, <2>1
  <2> QED BY <2>1, <2>2
<1> QED BY <1>8, <1>9, <1>11, <1>12 DEF PartFitting

(* The last "**" before one token more. *)
LEMMA StarBeforeNext ==
  ASSUME NEW T, NEW pat \in Seq(T), "**" \in ToSet(pat), NEW p \in 1..Len(pat), p >= FirstStar(pat)
  PROVE  StarBefore(pat, p + 1) = IF pat[p] = "**" THEN p ELSE StarBefore(pat, p)
<1> DEFINE n == Len(pat)
           first == FirstStar(pat)
           b == StarBefore(pat, p)
           c == StarBefore(pat, p + 1)
<1>1. first \in 1..n /\ pat[first] = "**" /\ n \in Nat
  BY FirstStarIs
<1>2. p + 1 \in 1..n + 1 /\ p + 1 > first /\ p + 1 - 1 = p /\ p \in 1..n + 1
  BY <1>1
<1>3. c \in 1..p /\ c <= n /\ pat[c] = "**" /\ \A k \in 1..n : k < p + 1 /\ pat[k] = "**" => k <= c
  <2>1. ASSUME NEW x \in 1..n + 1, x > first
        PROVE  /\ StarBefore(pat, x) \in 1..x - 1 /\ StarBefore(pat, x) <= n
               /\ pat[StarBefore(pat, x)] = "**"
               /\ \A k \in 1..n : k < x /\ pat[k] = "**" => k <= StarBefore(pat, x)
    BY <2>1, StarBeforeIs
  <2> HIDE DEF n, first
  <2> QED BY <1>2, <2>1
<1>4. CASE pat[p] = "**"
  BY <1>1, <1>2, <1>3, <1>4
<1>5. CASE pat[p] # "**"
  <2>1. p > first
    BY <1>1, <1>5
  <2>2. b \in 1..p - 1 /\ b <= n /\ pat[b] = "**" /\ \A k \in 1..n : k < p /\ pat[k] = "**" => k <= b
    BY <1>2, <2>1, StarBeforeIs
  <2>3. c # p
    BY <1>3, <1>5
  <2>4. c <= b
    BY <1>1, <1>3, <2>2, <2>3
  <2>5. b <= c
    BY <1>1, <1>3, <2>2
  <2> HIDE DEF b, c
  <2> QED BY <1>2, <1>3, <1>5, <2>2, <2>4, <2>5 DEF b, c
<1> QED BY <1>4, <1>5

(* What is matched before a token is what was before the last "**". *)
LEMMA EndStays ==
  ASSUME NEW T, NEW pat \in Seq(T), "**" \in ToSet(pat), NEW text, NEW end, Ending(end, pat, text),
         NEW p \in FirstStar(pat)..Len(pat)
  PROVE  end[p] = end[StarBefore(pat, p + 1)]
<1> DEFINE n == Len(pat)
           first == FirstStar(pat)
           S == {k \in 0..n : k >= first => end[k] = end[StarBefore(pat, k + 1)]}
<1>1. first \in 1..n /\ pat[first] = "**" /\ n \in Nat
  BY FirstStarIs
<1>2. /\ \A k \in 0..n : k <= first => end[k] = first - 1
      /\ \A k \in 1..n : k > first => end[k] = EndAt(pat, k, end[k - 1], text)
  BY DEF Ending
<1>3. \A k \in 1..n : k >= first => StarBefore(pat, k + 1) = IF pat[k] = "**" THEN k ELSE StarBefore(pat, k)
  BY StarBeforeNext
<1> HIDE DEF n, first
<1>4. 0 \in S
  BY <1>1
<1>5. ASSUME NEW k \in 1..n, k - 1 \in S PROVE k \in S
  <2>1. k \in 0..n /\ k \in Nat
    BY <1>1
  <2>2. CASE k >= first /\ pat[k] = "**"
    BY <1>3, <2>1, <2>2
  <2>3. CASE k >= first /\ pat[k] # "**"
    <3>1. k > first /\ k - 1 >= first /\ k - 1 + 1 = k
      BY <1>1, <2>1, <2>3
    <3>2. end[k] = end[k - 1]
      BY <1>1, <1>2, <2>1, <2>3, <3>1 DEF EndAt, first
    <3>3. end[k - 1] = end[StarBefore(pat, k)]
      BY <1>5, <3>1
    <3> QED BY <1>3, <2>1, <2>3, <3>2, <3>3
  <2> QED BY <2>1, <2>2, <2>3
<1>6. 0..n \subseteq S
  <2> HIDE DEF S
  <2> QED BY <1>1, <1>4, <1>5, HandedOn
<1>7. p \in 0..n /\ p >= first
  BY <1>1 DEF n, first
<1> QED BY <1>6, <1>7

LEMMA EndWithin ==
  ASSUME NEW T, NEW pat \in Seq(T), "**" \in ToSet(pat), NEW text, Len(text) \in Nat,
         NEW end, Ending(end, pat, text), end[Len(pat)] <= Len(text), NEW p \in 0..Len(pat)
  PROVE  end[p] \in 0..Len(text)
<1> DEFINE n == Len(pat)
           l == Len(text)
           first == FirstStar(pat)
           S == {k \in 0..n : end[n - k] <= l}
<1>1. first \in 1..n /\ n \in Nat /\ l \in Nat
  BY FirstStarIs
<1>2. /\ \A k \in 0..n : end[k] \in Nat /\ (k <= first => end[k] = first - 1)
      /\ \A k \in 1..n : k > first => end[k] = EndAt(pat, k, end[k - 1], text)
  BY DEF Ending
<1> HIDE DEF n
<1>3. 0 \in S
  BY <1>1 DEF n
<1>4. ASSUME NEW k \in 1..n, k - 1 \in S PROVE k \in S
  <2> DEFINE q == n - k + 1
  <2>1. q \in 1..n /\ q \in 0..n /\ q - 1 \in 0..n /\ n - (k - 1) = q /\ n - k = q - 1 /\ k \in 0..n
    BY <1>1
  <2>2. end[q] <= l /\ end[q] \in Nat /\ end[q - 1] \in Nat
    BY <1>2, <1>4, <2>1
  <2> HIDE DEF q
  <2>3. CASE q <= first
    <3>1. q - 1 <= first
      BY <1>1, <2>1, <2>3
    <3> QED BY <1>2, <2>1, <2>2, <2>3, <3>1
  <2>4. CASE q > first /\ pat[q] # "**"
    <3>1. end[q] = end[q - 1]
      BY <1>1, <1>2, <2>1, <2>4 DEF EndAt
    <3> QED BY <2>1, <2>2, <3>1
  <2>5. CASE q > first /\ pat[q] = "**"
    <3>1. end[q] = Skipped(end[q - 1], SubSeq(pat, StarBefore(pat, q) + 1, q - 1), text)
      BY <1>1, <1>2, <2>1, <2>5 DEF EndAt
    <3>2. end[q - 1] <= l
      BY <2>2, <3>1, SkippedIs
    <3> QED BY <2>1, <3>2
  <2> QED BY <1>1, <2>1, <2>3, <2>4, <2>5
<1>5. 0..n \subseteq S
  <2> HIDE DEF S
  <2> QED BY <1>1, <1>3, <1>4, HandedOn
<1>6. n - p \in 0..n /\ n - (n - p) = p /\ p \in 0..n
  BY <1>1 DEF n
<1>7. end[n - (n - p)] <= l
  BY <1>5, <1>6
<1>8. end[p] \in Nat /\ end[p] <= l
  BY <1>2, <1>6, <1>7
<1> QED BY <1>1, <1>8

(* Between two "**" every token has its place. *)
LEMMA BetweenFits ==
  ASSUME NEW T, NEW pat \in Seq(T), "**" \in ToSet(pat), \A q \in 1..Len(pat) - 1 : pat[q] # "*",
         NEW U, NEW text \in Seq(U), NEW end, Ending(end, pat, text), end[Len(pat)] <= Len(text),
         NEW s \in 1..Len(pat), pat[s] = "**", s > FirstStar(pat)
  PROVE  LET b == StarBefore(pat, s)
         IN /\ end[s] = end[b] + (s - 1 - b)
            /\ \A q \in b + 1..s - 1 : end[b] + q - b <= Len(text) /\ Fit(pat[q], text[end[b] + q - b])
<1> DEFINE n == Len(pat)
           l == Len(text)
           b == StarBefore(pat, s)
           part == SubSeq(pat, b + 1, s - 1)
<1>1. n \in Nat /\ l \in Nat /\ FirstStar(pat) \in 1..n
  BY FirstStarIs
<1>2. b \in 1..s - 1 /\ b <= n /\ \A k \in 1..n : k < s /\ pat[k] = "**" => k <= b
  BY <1>1, StarBeforeIs
<1>3. end[s] = Skipped(end[s - 1], part, text)
  BY <1>1 DEF Ending, EndAt
<1>4. end[s - 1] = end[b]
  <2>1. s - 1 \in FirstStar(pat)..n /\ s - 1 + 1 = s
    BY <1>1
  <2> HIDE DEF n
  <2>2. ASSUME NEW p \in FirstStar(pat)..Len(pat) PROVE end[p] = end[StarBefore(pat, p + 1)]
    BY EndStays
  <2>3. end[s - 1] = end[StarBefore(pat, s - 1 + 1)]
    BY <2>1, <2>2 DEF n
  <2> QED BY <2>1, <2>3
<1>5. \A p \in 0..n : end[p] \in 0..l
  BY <1>1, EndWithin
<1>6. end[b] \in 0..l /\ end[s] \in 0..l
  <2>1. b \in 0..n /\ s \in 0..n
    BY <1>1, <1>2
  <2> QED BY <1>5, <2>1
<1>7. CASE b = s - 1
  <2>1. part = <<>>
    BY <1>1, <1>2, <1>7
  <2>2. end[s] = end[b]
    <3> HIDE DEF part, b
    <3> QED BY <1>1, <1>3, <1>4, <1>6, <2>1, SkippedIs
  <2> QED BY <1>1, <1>2, <1>6, <1>7, <2>2
<1>8. CASE b # s - 1
  <2> DEFINE a == b + 1
             z == s - 1
  <2>1. a \in 1..n /\ z \in a..n /\ z < n /\ a > b
    BY <1>1, <1>2, <1>8
  <2>2. part # <<>>
    <3>1. Len(part) = s - 1 - (b + 1) + 1
      BY <1>1, <2>1, SubSeqProperties
    <3>2. Len(part) # 0 /\ Len(<<>>) = 0
      BY <1>1, <1>2, <1>8, <3>1
    <3> HIDE DEF part, b
    <3> QED BY <3>2
  <2>3. end[b] <= end[s] /\ GlobMatchSimple(part, SubSeq(text, end[b] + 1, end[s]))
    <3> HIDE DEF part, b
    <3> QED BY <1>1, <1>3, <1>4, <1>6, <2>2, SkippedIs
  <2>4. \A q \in a..z : pat[q] # "**" /\ pat[q] # "*"
    BY <1>1, <1>2, <2>1
  <2>5. z \in a..z /\ end[s] \in end[b]..l
    BY <1>1, <1>6, <2>1, <2>3
  <2>6. GlobMatchSimple(SubSeq(pat, a, z), SubSeq(text, end[b] + 1, end[s]))
    BY <2>3
  <2> HIDE DEF a, z, b, part
  <2>7. /\ \A q \in a..z : end[b] + q - a + 1 <= end[s] /\ Fit(pat[q], text[end[b] + q - a + 1])
        /\ end[s] - end[b] = z - a + 1
    <3> DEFINE from == end[b]
               to == end[s]
    <3>1. from \in 0..Len(text) /\ to \in from..Len(text) /\ a \in 1..Len(pat) /\ z \in a..Len(pat)
      BY <1>6, <2>1, <2>5
    <3>2. GlobMatchSimple(SubSeq(pat, a, z), SubSeq(text, from + 1, to))
      BY <2>6
    <3> HIDE DEF from, to
    <3>3. \A q \in a..z : pat[q] # "**" /\ (pat[q] = "*" => q = Len(pat))
      BY <2>4
    <3>4. /\ \A q \in a..z : pat[q] # "*" =>
                from + q - a + 1 <= to /\ Fit(pat[q], text[from + q - a + 1])
          /\ pat[z] # "*" => to - from = z - a + 1
      BY <3>1, <3>2, <3>3, PartFits DEF PartFitting
    <3> QED BY <2>4, <2>5, <3>4 DEF from, to
  <2>8. end[s] = end[b] + (s - 1 - b)
    BY <1>1, <1>2, <1>6, <2>7 DEF a, z
  <2>9. ASSUME NEW q \in b + 1..s - 1
        PROVE  end[b] + q - b <= l /\ Fit(pat[q], text[end[b] + q - b])
    <3>1. q \in a..z
      BY DEF a, z
    <3>2. end[b] + q - a + 1 = end[b] + q - b
      BY <1>2, <1>6 DEF a
    <3>3. end[b] + q - b <= end[s] /\ Fit(pat[q], text[end[b] + q - b])
      BY <2>7, <3>1, <3>2
    <3> QED BY <1>1, <1>2, <1>6, <3>3
  <2> QED BY <2>8, <2>9 DEF b
<1> QED BY <1>7, <1>8

(* A pattern with "**" matches no more than it means. *)
LEMMA DoubleStarMeans ==
  ASSUME NEW T, NEW pat \in Seq(T), "**" \in ToSet(pat), \A q \in 1..Len(pat) - 1 : pat[q] # "*",
         NEW U, NEW text \in Seq(U), DoubleStar(pat, text)
  PROVE  GlobMeans(pat, text)
<1> DEFINE n == Len(pat)
           l == Len(text)
           first == FirstStar(pat)
           last == StarBefore(pat, n + 1)
<1>a. PICK end : Ending(end, pat, text)
  BY DoubleStarIs
<1>1. /\ n \in Nat /\ l \in Nat /\ first \in 1..n /\ pat[first] = "**" /\ pat # <<>>
      /\ \A k \in 1..n : pat[k] = "**" => first <= k
  BY FirstStarIs
<1>2. /\ first > 1 => GlobMatchSimple(SubSeq(pat, 1, first - 1), text)
      /\ end[n] <= l
      /\ last < n => GlobMatchSimple(SubSeq(pat, last + 1, n), SubSeq(text, end[n] + 1, l))
      /\ end[first] = first - 1
  BY <1>1, <1>a DEF Ending
<1>3. \A p \in 0..n : end[p] \in 0..l
  BY <1>1, <1>2, <1>a, EndWithin
<1>4. first <= l + 1
  BY <1>1, <1>2, <1>3
<1>5. \A q \in 1..n + 1 : q > first =>
        /\ StarBefore(pat, q) \in first..q - 1 /\ StarBefore(pat, q) \in 1..n
        /\ pat[StarBefore(pat, q)] = "**"
        /\ \A k \in 1..n : k < q /\ pat[k] = "**" => k <= StarBefore(pat, q)
  <2> SUFFICES ASSUME NEW q \in 1..n + 1, q > first
      PROVE /\ StarBefore(pat, q) \in first..q - 1 /\ StarBefore(pat, q) \in 1..n
            /\ pat[StarBefore(pat, q)] = "**"
            /\ \A k \in 1..n : k < q /\ pat[k] = "**" => k <= StarBefore(pat, q)
    OBVIOUS
  <2> QED BY <1>1, StarBeforeIs
<1>6. last \in first..n /\ pat[last] = "**" /\ \A k \in 1..n : pat[k] = "**" => k <= last
  <2>1. n + 1 \in 1..n + 1 /\ n + 1 > first /\ n + 1 - 1 = n /\ \A k \in 1..n : k < n + 1
    BY <1>1
  <2> HIDE DEF n, first
  <2> QED BY <1>5, <2>1
<1>7. end[n] = end[last]
  <2>1. n \in first..n
    BY <1>1
  <2> QED BY <1>a, <2>1, EndStays
<1>8. \A s \in 1..n : pat[s] = "**" /\ s > first =>
        /\ end[s] = end[StarBefore(pat, s)] + (s - 1 - StarBefore(pat, s))
        /\ \A q \in StarBefore(pat, s) + 1..s - 1 :
             /\ end[StarBefore(pat, s)] + q - StarBefore(pat, s) <= l
             /\ Fit(pat[q], text[end[StarBefore(pat, s)] + q - StarBefore(pat, s)])
  BY <1>2, <1>a, BetweenFits
<1> DEFINE Place(q) == IF q <= first THEN q ELSE end[StarBefore(pat, q)] + q - StarBefore(pat, q)
           at == [q \in 1..n |-> Place(q)]
           Fits(q) == pat[q] # "*" /\ Place(q) <= l /\ Fit(pat[q], text[Place(q)])
(* before the first "**" *)
<1>9. ASSUME NEW q \in 1..first - 1 PROVE Fits(q)
  <2> DEFINE a == 1
             z == first - 1
             from == 0
  <2>1. first > 1 /\ a \in 1..n /\ z \in a..n /\ z < n /\ from \in 0..l /\ l \in from..l /\ z \in Nat
    BY <1>1
  <2>2. GlobMatchSimple(SubSeq(pat, a, z), SubSeq(text, from + 1, l))
    <3>1. SubSeq(text, 1, l) = text
      BY SubSeqFull
    <3>2. from + 1 = 1 /\ GlobMatchSimple(SubSeq(pat, a, z), text)
      BY <1>2, <2>1
    <3> HIDE DEF a, z, from, l
    <3> QED BY <3>1, <3>2
  <2>3. \A r \in a..z : pat[r] # "**" /\ (pat[r] = "*" => r = n) /\ pat[r] # "*"
    BY <1>1, <2>1
  <2> HIDE DEF a, z, from
  <2>4. \A r \in a..z : pat[r] # "*" => from + r - a + 1 <= l /\ Fit(pat[r], text[from + r - a + 1])
    BY <2>1, <2>2, <2>3, PartFits DEF PartFitting
  <2>5. q \in a..z /\ from + q - a + 1 = q
    BY <1>1 DEF a, z, from
  <2>6. q <= l /\ Fit(pat[q], text[q])
    BY <2>3, <2>4, <2>5
  <2> QED BY <1>1, <2>3, <2>5, <2>6
(* between two of them *)
<1>10. ASSUME NEW q \in 1..n, q > first, q < last, pat[q] # "**" PROVE Fits(q)
  <2> DEFINE S == {s \in 1..n : q < s /\ pat[s] = "**"}
             b == StarBefore(pat, q)
  <2>1. S \in SUBSET (0..n) /\ last \in S
    BY <1>1, <1>6, <1>10
  <2>2. PICK s \in S : \A k \in S : s <= k
    <3> HIDE DEF S, n
    <3> QED BY <1>1, <2>1, SmallestIs
  <2>3. s \in 1..n /\ q < s /\ pat[s] = "**" /\ s > first
    BY <1>1, <1>10, <2>2
  <2>4. StarBefore(pat, s) = b /\ b < q
    <3> DEFINE c == StarBefore(pat, s)
    <3>1. /\ c \in first..s - 1 /\ c \in 1..n /\ pat[c] = "**"
          /\ \A k \in 1..n : k < s /\ pat[k] = "**" => k <= c
      BY <1>1, <1>5, <2>3
    <3>2. /\ b \in first..q - 1 /\ b \in 1..n /\ pat[b] = "**"
          /\ \A k \in 1..n : k < q /\ pat[k] = "**" => k <= b
      BY <1>1, <1>5, <1>10
    <3>3. ~(q < c)
      <4>1. c \notin S
        BY <1>1, <2>2, <2>3, <3>1
      <4> QED BY <3>1, <4>1
    <3> HIDE DEF b, c
    <3>4. c # q
      BY <1>10, <3>1
    <3>5. c <= b /\ b <= c
      BY <1>1, <2>3, <3>1, <3>2, <3>3, <3>4
    <3> QED BY <1>1, <3>1, <3>2, <3>5 DEF b, c
  <2>5. q \in StarBefore(pat, s) + 1..s - 1
    BY <1>1, <1>5, <1>10, <2>3, <2>4
  <2>6. end[b] + q - b <= l /\ Fit(pat[q], text[end[b] + q - b])
    BY <1>8, <2>3, <2>4, <2>5
  <2>7. pat[q] # "*" /\ Place(q) = end[b] + q - b
    BY <1>1, <1>6, <1>10
  <2> QED BY <2>6, <2>7
(* after the last *)
<1>11. ASSUME NEW q \in 1..n, q > last PROVE Place(q) = end[n] + q - last
  <2>1. q > first /\ q \in 1..n + 1
    BY <1>1, <1>6, <1>11
  <2>2. StarBefore(pat, q) = last
    <3> DEFINE c == StarBefore(pat, q)
    <3>1. c \in 1..n /\ pat[c] = "**" /\ \A k \in 1..n : k < q /\ pat[k] = "**" => k <= c
      BY <1>5, <2>1
    <3>2. last \in 1..n /\ last < q
      BY <1>1, <1>6, <1>11
    <3>3. c <= last /\ last <= c
      BY <1>6, <3>1, <3>2
    <3> HIDE DEF c, last
    <3> QED BY <1>1, <3>1, <3>2, <3>3 DEF c
  <2> QED BY <1>1, <1>7, <2>1, <2>2
<1>12. ASSUME last < n
       PROVE  /\ \A q \in last + 1..n : pat[q] # "*" =>
                   Place(q) <= l /\ Fit(pat[q], text[Place(q)])
              /\ pat[n] = "*" => Place(n) <= l + 1 /\ \A j \in Place(n)..l : text[j] # "/"
              /\ pat[n] # "*" => Place(n) = l
  <2> DEFINE a == last + 1
             from == end[n]
  <2>1. a \in 1..n /\ n \in a..n /\ from \in 0..l /\ l \in from..l /\ last \in Nat
    BY <1>1, <1>2, <1>3, <1>6, <1>12
  <2>2. GlobMatchSimple(SubSeq(pat, a, n), SubSeq(text, from + 1, l))
    BY <1>2, <1>12
  <2>3. \A r \in a..n : pat[r] # "**" /\ (pat[r] = "*" => r = n)
    BY <1>1, <1>6, <2>1
  <2>4. \A q \in a..n : Place(q) = from + q - a + 1
    <3>1. \A q \in a..n : q \in 1..n /\ q > last
      BY <1>1, <2>1
    <3> HIDE DEF Place
    <3> QED BY <1>11, <2>1, <3>1
  <2> HIDE DEF a, from, Place, n, last
  <2>5. /\ \A q \in a..n : pat[q] # "*" =>
             from + q - a + 1 <= l /\ Fit(pat[q], text[from + q - a + 1])
        /\ pat[n] = "*" => n - a <= l - from /\ \A j \in from + n - a + 1..l : text[j] # "/"
        /\ pat[n] # "*" => l - from = n - a + 1
    <3> DEFINE to == Len(text)
               z == Len(pat)
    <3>1. a \in 1..Len(pat) /\ z \in a..Len(pat) /\ from \in 0..Len(text) /\ to \in from..Len(text)
      BY <2>1 DEF n
    <3>2. GlobMatchSimple(SubSeq(pat, a, z), SubSeq(text, from + 1, to))
      BY <2>2 DEF n
    <3>3. \A q \in a..z : pat[q] # "**" /\ (pat[q] = "*" => q = Len(pat))
      BY <2>3 DEF n
    <3> HIDE DEF to, z
    <3>4. /\ \A q \in a..z : pat[q] # "*" =>
                from + q - a + 1 <= to /\ Fit(pat[q], text[from + q - a + 1])
          /\ pat[z] = "*" => z - a <= to - from /\ \A j \in from + z - a + 1..to : text[j] # "/"
          /\ pat[z] # "*" => to - from = z - a + 1
      <4>1. PartFitting(pat, a, z, text, from, to)
        BY <3>1, <3>2, <3>3, PartFits
      <4> QED BY <4>1 DEF PartFitting
    <3> QED BY <3>4 DEF n, to, z
  <2>6. pat[n] = "*" => Place(n) <= l + 1 /\ \A j \in Place(n)..l : text[j] # "/"
    BY <1>1, <2>1, <2>4, <2>5
  <2>7. pat[n] # "*" => Place(n) = l
    BY <1>1, <2>1, <2>4, <2>5
  <2>8. \A q \in a..n : pat[q] # "*" => Place(q) <= l /\ Fit(pat[q], text[Place(q)])
    BY <2>4, <2>5
  <2> QED BY <2>6, <2>7, <2>8 DEF a
<1>13. \A s \in 1..n : pat[s] = "**" => Place(s) = IF s = first THEN first ELSE end[s] + 1
  <2> SUFFICES ASSUME NEW s \in 1..n, pat[s] = "**" PROVE Place(s) = IF s = first THEN first ELSE end[s] + 1
    OBVIOUS
  <2>1. CASE s = first
    BY <1>1, <2>1
  <2>2. CASE s # first
    <3>1. s > first /\ s \in 1..n + 1
      BY <1>1, <2>2
    <3>2. StarBefore(pat, s) \in 1..n /\ end[s] = end[StarBefore(pat, s)] + (s - 1 - StarBefore(pat, s))
      BY <1>5, <1>8, <3>1
    <3>3. end[StarBefore(pat, s)] \in 0..l
      BY <1>1, <1>3, <3>2
    <3> QED BY <1>1, <2>2, <3>1, <3>2, <3>3
  <2> QED BY <2>1, <2>2
<1>14. ASSUME NEW q \in 1..n PROVE Place(q) \in 1..l + 1
  <2>1. CASE q <= first
    BY <1>1, <1>4, <2>1
  <2>2. CASE q > first
    <3>1. Place(q) \in Nat /\ Place(q) >= 1
      <4>1. StarBefore(pat, q) \in 1..n /\ StarBefore(pat, q) < q
        BY <1>1, <1>5, <2>2
      <4>2. end[StarBefore(pat, q)] \in 0..l
        BY <1>1, <1>3, <4>1
      <4> QED BY <1>1, <2>2, <4>1, <4>2
    <3>2. Place(q) <= l + 1
      <4>1. CASE pat[q] = "**"
        <5>1. Place(q) = end[q] + 1 /\ end[q] \in 0..l
          BY <1>1, <1>3, <1>13, <2>2, <4>1
        <5> QED BY <1>1, <5>1
      <4>2. CASE pat[q] # "**" /\ q < last
        <5>1. Place(q) <= l
          BY <1>10, <2>2, <4>2
        <5> HIDE DEF Place
        <5> QED BY <1>1, <3>1, <5>1
      <4>3. CASE q > last
        <5>1. last < n /\ q \in last + 1..n
          BY <1>1, <1>6, <4>3
        <5>2. Place(q) <= l \/ (pat[q] = "*" /\ q < n) \/ Place(q) <= l + 1
          BY <1>1, <1>12, <5>1
        <5> HIDE DEF Place
        <5> QED BY <1>1, <3>1, <5>2
      <4> QED BY <1>1, <1>6, <4>1, <4>2, <4>3
    <3> HIDE DEF Place
    <3> QED BY <1>1, <3>1, <3>2
  <2> QED BY <1>1, <2>1, <2>2
<1>15. ASSUME NEW q \in 1..n - 1
       PROVE  IF pat[q] = "**" THEN Place(q) <= Place(q + 1)
              ELSE Fits(q) /\ Place(q + 1) = Place(q) + 1
  <2>0. q \in 1..n /\ q + 1 \in 1..n /\ q \in Nat
    BY <1>1
  <2>1. q >= first => StarBefore(pat, q + 1) = IF pat[q] = "**" THEN q ELSE StarBefore(pat, q)
    BY <1>1, <2>0, StarBeforeNext
  <2>2. CASE pat[q] = "**"
    <3>1. q >= first /\ q + 1 > first /\ end[q] \in 0..l
      BY <1>1, <1>3, <2>0, <2>2
    <3>2. Place(q + 1) = end[q] + 1
      BY <1>1, <2>0, <2>1, <2>2, <3>1
    <3>3. Place(q) = end[q] + 1
      BY <1>1, <1>2, <1>13, <2>0, <2>2
    <3> HIDE DEF Place
    <3> QED BY <2>2, <3>1, <3>2, <3>3
  <2>3. CASE pat[q] # "**" /\ q < first
    <3>1. q \in 1..first - 1 /\ q + 1 <= first
      BY <1>1, <2>0, <2>3
    <3>2. Fits(q)
      BY <1>9, <3>1
    <3> QED BY <1>1, <2>0, <2>3, <3>1, <3>2
  <2>4. CASE pat[q] # "**" /\ q > first
    <3>1. Fits(q)
      <4>1. CASE q < last
        BY <1>10, <2>0, <2>4, <4>1
      <4>2. CASE q > last
        <5>1. last < n /\ q \in last + 1..n /\ pat[q] # "*"
          BY <1>1, <1>6, <2>0, <4>2
        <5> HIDE DEF Place
        <5> QED BY <1>12, <5>1
      <4> QED BY <1>1, <1>6, <2>0, <2>4, <4>1, <4>2
    <3>2. /\ Place(q) = end[StarBefore(pat, q)] + q - StarBefore(pat, q)
          /\ Place(q + 1) = end[StarBefore(pat, q)] + (q + 1) - StarBefore(pat, q)
      BY <1>1, <2>0, <2>1, <2>4
    <3>3. StarBefore(pat, q) \in 1..n
      BY <1>1, <1>5, <2>0, <2>4
    <3>4. end[StarBefore(pat, q)] \in 0..l
      BY <1>1, <1>3, <3>3
    <3>5. Place(q + 1) = Place(q) + 1
      BY <1>1, <2>0, <3>2, <3>3, <3>4
    <3> HIDE DEF Place
    <3> QED BY <2>4, <3>1, <3>5
  <2> QED BY <1>1, <2>0, <2>2, <2>3, <2>4
<1>16. \/ pat[n] = "**"
       \/ pat[n] = "*" /\ \A j \in Place(n)..l : text[j] # "/"
       \/ pat[n] \notin {"*", "**"} /\ Place(n) = l /\ Fit(pat[n], text[l])
  <2>1. CASE last = n
    BY <1>6, <2>1
  <2>2. CASE last # n
    <3>1. last < n /\ n \in last + 1..n
      BY <1>1, <1>6, <2>2
    <3> HIDE DEF Place
    <3> QED BY <1>12, <3>1
  <2> QED BY <2>1, <2>2
<1>17. Place(1) = 1 /\ 1 \in 1..n /\ n \in 1..n
  BY <1>1
<1> HIDE DEF Place
<1>18. /\ at \in [1..n -> 1..l + 1] /\ at[1] = 1 /\ at[n] = Place(n)
       /\ \A q \in 1..n - 1 : at[q] = Place(q) /\ at[q + 1] = Place(q + 1)
  BY <1>1, <1>14, <1>17
<1>19. \A q \in 1..n - 1 : IF pat[q] = "**" THEN at[q] <= at[q + 1]
                           ELSE /\ pat[q] # "*" /\ at[q] <= l /\ Fit(pat[q], text[at[q]])
                                /\ at[q + 1] = at[q] + 1
  <2> HIDE DEF at
  <2> QED BY <1>15, <1>18
<1>20. \/ pat[n] = "**"
       \/ pat[n] = "*" /\ \A j \in at[n]..l : text[j] # "/"
       \/ pat[n] \notin {"*", "**"} /\ at[n] = l /\ Fit(pat[n], text[l])
  <2> HIDE DEF at
  <2> QED BY <1>16, <1>18
<1> HIDE DEF at
<1> QED BY <1>1, <1>18, <1>19, <1>20, MeansBecause

-----------------------------------------------------------------------------
(* The theorems.                                                             *)

(* A glob pattern that the property is about. *)
LEMMA GlobsFor ==
  ASSUME NEW T, NEW pat \in Seq(T), "*" \notin ToSet(Front(pat)), NEW U, NEW text \in Seq(U)
  PROVE  IF "**" \in ToSet(pat) THEN GlobMatch(pat, text) => GlobMeans(pat, text)
         ELSE GlobMatch(pat, text) <=> GlobMeans(pat, text)
<1>1. \A q \in 1..Len(pat) - 1 : pat[q] # "*"
  <2> SUFFICES ASSUME NEW q \in 1..Len(pat) - 1 PROVE pat[q] # "*"
    OBVIOUS
  <2>1. pat # <<>>
    OBVIOUS
  <2>2. Front(pat) \in Seq(T) /\ Len(Front(pat)) = Len(pat) - 1 /\ \A i \in 1..Len(pat) - 1 : Front(pat)[i] = pat[i]
    BY <2>1, FrontLast
  <2>3. pat[q] \in ToSet(Front(pat))
    BY <2>2 DEF ToSet
  <2> QED BY <2>3
<1>2. CASE "**" \in ToSet(pat)
  BY <1>1, <1>2, DoubleStarMeans DEF GlobMatch
<1>3. CASE "**" \notin ToSet(pat)
  <2>1. Short(pat)
    <3> SUFFICES ASSUME NEW q \in 1..Len(pat) PROVE pat[q] # "**" /\ (pat[q] = "*" => q = Len(pat))
      BY DEF Short
    <3>1. pat[q] # "**"
      BY <1>3 DEF ToSet
    <3>2. q = Len(pat) \/ q \in 1..Len(pat) - 1
      OBVIOUS
    <3> QED BY <1>1, <3>1, <3>2
  <2> QED BY <1>3, <2>1, ShortMeans DEF GlobMatch
<1> QED BY <1>2, <1>3

(* What the rules are asked about is a path of segments. *)
PathInv == path \in Seq(Segment)

LEMMA PathStep == PathInv /\ [RulesNext]_uvars => PathInv'
<1> SUFFICES ASSUME PathInv, [RulesNext]_uvars PROVE PathInv'
  OBVIOUS
<1> USE DEF PathInv
<1>1. CASE AddSegment
  <2>1. PICK s \in Segment : path' = Append(path, s)
    BY <1>1 DEF AddSegment, Segment
  <2> QED BY <2>1
<1>2. CASE StartPath
  <2>1. PICK s \in Segment : path' = <<s>>
    BY <1>2 DEF StartPath, Segment
  <2> QED BY <2>1
<1>3. CASE AddLine
  BY <1>3 DEF AddLine
<1>4. CASE UNCHANGED uvars
  BY <1>4 DEF uvars
<1> QED BY <1>1, <1>2, <1>3, <1>4 DEF RulesNext

LEMMA PathGives == PathInv => RulesAgree
<1> SUFFICES ASSUME PathInv PROVE RulesAgree
  OBVIOUS
<1>1. path \in Seq(Segment) /\ Pattern \subseteq Seq(STRING)
  BY RulesAssumption DEF PathInv
<1>2. NormalForm
  <2> SUFFICES ASSUME path # <<>>
               PROVE  /\ Normal(path) = Tilded(Kept(path))
                      /\ Literal(path) => Normal(Parse(Normal(path))) = Normal(path)
    BY DEF NormalForm
  <2>1. Normal(path) = Tilded(Kept(path))
    BY <1>1, NormalIsKept DEF Normal
  <2>2. ASSUME Literal(path) PROVE Normal(Parse(Normal(path))) = Normal(path)
    <3>1. /\ Normal(path) = Cleared(path) /\ Parse(Normal(path)) = Cleared(path)
          /\ Cleared(path) \in Seq(Segment) /\ Cleared(path) # <<>> /\ Literal(Cleared(path))
      BY <1>1, <2>2, LiteralNormal
    <3>2. Normal(Cleared(path)) = Cleared(Cleared(path))
      BY <3>1, LiteralNormal
    <3> QED BY <1>1, <3>1, <3>2, NormalAgain
  <2> QED BY <2>1, <2>2
<1>3. ToSet(path) \subseteq Name \cup {Blank} => path \in Seq(Plain)
  BY <1>1, PlainPath DEF Plain
<1>4. RefusedInNormalForm
  <2> SUFFICES ASSUME path # <<>>, Literal(path), ToSet(path) \subseteq Name \cup {Blank},
                      NEW allow \in Pattern, NEW disallow \in Pattern,
                      Allowed({allow}, {disallow}, Text(Parse(Normal(path)))),
                      ~Allowed({allow}, {disallow}, Text(path)),
                      Blank \notin ToSet(Front(path))
               PROVE  Last(Without(disallow, {"*"})) = "/"
    BY DEF RefusedInNormalForm
  <2>1. path \in Seq(Plain) /\ allow \in Seq(STRING) /\ disallow \in Seq(STRING)
    BY <1>1, <1>3
  <2>2. Parse(Normal(path)) = Cleared(path)
    BY <1>1, LiteralNormal
  <2> QED BY <2>1, <2>2, RefusedFor
<1>5. FilesFit
  <2> SUFFICES ASSUME path # <<>>
               PROVE  LET file == PathForURL(path)
                          names == Without(path, {Blank})
                      IN /\ ".." \notin ToSet(file)
                         /\ Literal(path) /\ ToSet(path) \subseteq (Name \ Twice) \cup {Blank} =>
                              /\ PathForURL(UrlFromLocalPath(file)) = file
                              /\ \/ PathForURL(Parse(Normal(path))) = file
                                 \/ Last(path) = Blank /\ names # <<>> /\ Last(names) \in Dotted
                              /\ \A k \in 1..Len(path) - 1 :
                                   LET above == PathForURL(SubSeq(path, 1, k))
                                   IN IsStrictPrefix(above, file) => Last(above) \in Dotted
    BY DEF FilesFit
  <2>1. ".." \notin ToSet(PathForURL(path))
    BY <1>1, NoneOutside
  <2>2. ASSUME Literal(path), ToSet(path) \subseteq (Name \ Twice) \cup {Blank}
        PROVE  LET file == PathForURL(path)
                   names == Without(path, {Blank})
               IN /\ PathForURL(UrlFromLocalPath(file)) = file
                  /\ \/ PathForURL(Parse(Normal(path))) = file
                     \/ Last(path) = Blank /\ names # <<>> /\ Last(names) \in Dotted
                  /\ \A k \in 1..Len(path) - 1 :
                       LET above == PathForURL(SubSeq(path, 1, k))
                       IN IsStrictPrefix(above, file) => Last(above) \in Dotted
    <3>1. path \in Seq(Filed)
      <4>1. \A i \in 1..Len(path) : path[i] \in Filed
        BY <2>2 DEF ToSet, Filed, Single
      <4> QED BY <1>1, <4>1
    <3> DEFINE file == FileOf(path)
               names == Names(path)
    <3>2. /\ FileOf(UrlFromLocalPath(file)) = file
          /\ \/ FileOf(Cleared(path)) = file
             \/ Last(path) = Blank /\ names # <<>> /\ Last(names) \in Dotted
          /\ \A k \in 1..Len(path) - 1 :
               LET above == FileOf(SubSeq(path, 1, k))
               IN IsStrictPrefix(above, file) => Last(above) \in Dotted
      BY <3>1, FilesFitFor
    <3>3. PathForURL(path) = file /\ PathForURL(UrlFromLocalPath(file)) = FileOf(UrlFromLocalPath(file))
      BY <2>2, <3>1, LiteralFile DEF UrlFromLocalPath
    <3>4. PathForURL(Parse(Normal(path))) = FileOf(Cleared(path))
      <4>1. Parse(Normal(path)) = Cleared(path) /\ Cleared(path) \in Seq(Segment) /\ Literal(Cleared(path))
        BY <1>1, <2>2, LiteralNormal
      <4> QED BY <4>1, UnescapeLiteral DEF PathForURL
    <3>5. ASSUME NEW k \in 1..Len(path) - 1 PROVE PathForURL(SubSeq(path, 1, k)) = FileOf(SubSeq(path, 1, k))
      <4> DEFINE above == SubSeq(path, 1, k)
      <4>1. above \in Seq(Segment) /\ \A i \in 1..Len(above) : i \in 1..Len(path) /\ above[i] = path[i]
        <5>1. k \in Nat /\ 1 <= k /\ k <= Len(path) /\ \A i \in 1..k : path[i] \in Segment
          BY <1>1
        <5> QED BY <1>1, <5>1
      <4>2. ToSet(above) \subseteq ToSet(path)
        <5> HIDE DEF above
        <5> QED BY <4>1 DEF ToSet
      <4>3. Literal(above)
        BY <2>2, <4>2 DEF Literal
      <4> HIDE DEF above
      <4>4. Unescape(above) = above
        BY <4>1, <4>3, UnescapeLiteral
      <4> QED BY <4>4 DEF PathForURL, above
    <3> QED BY <3>2, <3>3, <3>4, <3>5 DEF Names
  <2> QED BY <2>1, <2>2
<1>6. GlobsMatchLess
  <2> SUFFICES ASSUME path # <<>>, NEW pat \in Pattern, "*" \notin ToSet(Front(pat))
               PROVE  IF "**" \in ToSet(pat) THEN GlobMatch(pat, Text(path)) => GlobMeans(pat, Text(path))
                      ELSE GlobMatch(pat, Text(path)) <=> GlobMeans(pat, Text(path))
    BY DEF GlobsMatchLess
  <2>1. Text(path) \in Seq(Token) /\ pat \in Seq(STRING)
    BY <1>1, TextType
  <2> QED BY <2>1, GlobsFor
<1> QED BY <1>2, <1>4, <1>5, <1>6 DEF RulesAgree

(* What is queued, refused, fetched and stored for one path is for that path *)
(* (normalizePath, matchPath, PathForURL and GlobMatch), however long the    *)
(* path and the patterns.                                                    *)
THEOREM RulesInAgreement == RulesSpec => []RulesAgree
<1>1. RulesInit => PathInv
  BY DEF RulesInit, PathInv
<1> QED BY <1>1, PathStep, PathGives, PTL DEF RulesSpec

-----------------------------------------------------------------------------
(* robots.txt: what is known after i lines, said without reading them one    *)
(* after another.                                                            *)

NamesUs(file, i) == \E j \in AgentBefore(file, i) : file[j].value = "us"

IsLast(file, i, j) == j \in AgentBefore(file, i) /\ \A k \in AgentBefore(file, i) : k <= j

(* The group that line i is in counts for us.                                *)
Ours(file, i) ==
  \E j \in AgentBefore(file, i) :
    /\ IsLast(file, i, j) /\ file[j].value \in {"us", "*"}
    /\ \A k \in AgentBefore(file, i) : k < j => file[k].value # "us"

RuleAt(file, i) == {k \in 1..i : file[k].key # "agent" /\ Ours(file, k)}
RulesOf(file, i) == {file[k].value : k \in RuleAt(file, i)}

KnownAt(file, i) == [specific |-> NamesUs(file, i), inOurs |-> Ours(file, i), rules |-> RulesOf(file, i)]

(* One line more. *)
LEMMA OneLine ==
  ASSUME NEW file, NEW i \in Nat \ {0}
  PROVE  /\ file[i].key = "agent" =>
              /\ NamesUs(file, i) <=> NamesUs(file, i - 1) \/ file[i].value = "us"
              /\ Ours(file, i) <=> ~NamesUs(file, i - 1) /\ file[i].value \in {"us", "*"}
              /\ RuleAt(file, i) = RuleAt(file, i - 1)
         /\ file[i].key # "agent" =>
              /\ NamesUs(file, i) <=> NamesUs(file, i - 1)
              /\ Ours(file, i) <=> Ours(file, i - 1)
              /\ RuleAt(file, i) = RuleAt(file, i - 1) \cup (IF Ours(file, i - 1) THEN {i} ELSE {})
<1> DEFINE before == AgentBefore(file, i - 1)
<1>1. 1..i = (1..i - 1) \cup {i} /\ i \notin 1..i - 1 /\ \A k \in 1..i - 1 : k \in Int /\ k < i
  OBVIOUS
<1>2. AgentBefore(file, i) = before \cup (IF file[i].key = "agent" THEN {i} ELSE {})
  BY <1>1 DEF AgentBefore
<1>3. \A k \in before : k \in Int /\ k < i
  BY <1>1 DEF AgentBefore
<1> HIDE DEF before
<1>4. NamesUs(file, i - 1) <=> \E j \in before : file[j].value = "us"
  BY DEF NamesUs, before
<1>5. CASE file[i].key = "agent"
  <2>1. NamesUs(file, i) <=> NamesUs(file, i - 1) \/ file[i].value = "us"
    BY <1>2, <1>4, <1>5 DEF NamesUs
  <2>2. \A j : IsLast(file, i, j) <=> j = i
    BY <1>2, <1>3, <1>5 DEF IsLast
  <2>3. Ours(file, i) <=> file[i].value \in {"us", "*"} /\ \A k \in before : file[k].value # "us"
    BY <1>2, <1>3, <1>5, <2>2 DEF Ours
  <2>4. RuleAt(file, i) = RuleAt(file, i - 1)
    BY <1>1, <1>5 DEF RuleAt
  <2> QED BY <1>4, <1>5, <2>1, <2>3, <2>4
<1>6. CASE file[i].key # "agent"
  <2>1. AgentBefore(file, i) = AgentBefore(file, i - 1)
    BY <1>2, <1>6 DEF before
  <2>2. (NamesUs(file, i) <=> NamesUs(file, i - 1)) /\ (Ours(file, i) <=> Ours(file, i - 1))
    BY <2>1 DEF NamesUs, Ours, IsLast
  <2>3. RuleAt(file, i) = RuleAt(file, i - 1) \cup (IF Ours(file, i - 1) THEN {i} ELSE {})
    BY <1>1, <1>6, <2>2 DEF RuleAt
  <2> QED BY <1>6, <2>2, <2>3
<1> QED BY <1>5, <1>6

(* ReadLine goes from what is known to what is known. *)
LEMMA ReadLineKnows ==
  ASSUME NEW file, NEW i \in Nat \ {0}
  PROVE  KnownAt(file, i) = ReadLine(KnownAt(file, i - 1), file[i])
<1> DEFINE n == NamesUs(file, i - 1)
           o == Ours(file, i - 1)
           r == RulesOf(file, i - 1)
<1>1. KnownAt(file, i - 1) = [specific |-> n, inOurs |-> o, rules |-> r]
  BY DEF KnownAt
<1>b. n \in BOOLEAN /\ o \in BOOLEAN /\ NamesUs(file, i) \in BOOLEAN /\ Ours(file, i) \in BOOLEAN
  BY DEF NamesUs, Ours
<1>2. CASE file[i].key = "agent"
  <2>1. /\ NamesUs(file, i) <=> n \/ file[i].value = "us"
        /\ Ours(file, i) <=> ~n /\ file[i].value \in {"us", "*"}
        /\ RulesOf(file, i) = r
    BY <1>2, OneLine DEF RulesOf
  <2>2. KnownAt(file, i) = [specific |-> NamesUs(file, i), inOurs |-> Ours(file, i), rules |-> RulesOf(file, i)]
    BY DEF KnownAt
  <2> HIDE DEF n, o, r
  <2>3. /\ NamesUs(file, i) = (n \/ file[i].value = "us")
        /\ Ours(file, i) = (~n /\ file[i].value \in {"us", "*"})
    BY <1>b, <2>1
  <2>4. ReadLine(KnownAt(file, i - 1), file[i]) =
          [specific |-> n \/ file[i].value = "us", inOurs |-> ~n /\ file[i].value \in {"us", "*"}, rules |-> r]
    BY <1>1, <1>2 DEF ReadLine
  <2> QED BY <2>1, <2>2, <2>3, <2>4
<1>3. CASE file[i].key # "agent"
  <2>1. RulesOf(file, i) = IF o THEN r \cup {file[i].value} ELSE r
    BY <1>3, OneLine DEF RulesOf
  <2>2. NamesUs(file, i) = n /\ Ours(file, i) = o
    BY <1>3, <1>b, OneLine
  <2>3. KnownAt(file, i) = [specific |-> NamesUs(file, i), inOurs |-> Ours(file, i), rules |-> RulesOf(file, i)]
    BY DEF KnownAt
  <2> HIDE DEF n, o, r
  <2> QED BY <1>1, <1>3, <2>1, <2>2, <2>3 DEF ReadLine
<1> QED BY <1>2, <1>3

NothingRead == [specific |-> FALSE, inOurs |-> FALSE, rules |-> {}]

(* Reading is the function its definition describes. *)
LEMMA ReadingStep ==
  ASSUME NEW file, Len(file) \in Nat
  PROVE  Reading(file) = [i \in 0..Len(file) |-> IF i = 0 THEN NothingRead
                                                 ELSE ReadLine(Reading(file)[i - 1], file[i])]
<1> DEFINE Meets(st) == st = [i \in 0..Len(file) |-> IF i = 0 THEN NothingRead ELSE ReadLine(st[i - 1], file[i])]
           known == [i \in 0..Len(file) |-> KnownAt(file, i)]
<1>1. KnownAt(file, 0) = NothingRead
  <2>1. AgentBefore(file, 0) = {} /\ RuleAt(file, 0) = {}
    BY DEF AgentBefore, RuleAt
  <2> QED BY <2>1 DEF KnownAt, NothingRead, NamesUs, Ours, RulesOf
<1>2. ASSUME NEW i \in 0..Len(file)
      PROVE  known[i] = IF i = 0 THEN NothingRead ELSE ReadLine(known[i - 1], file[i])
  <2>1. CASE i = 0
    BY <1>1, <2>1
  <2>2. CASE i # 0
    <3>1. i \in Nat \ {0} /\ known[i - 1] = KnownAt(file, i - 1) /\ known[i] = KnownAt(file, i)
      BY <2>2
    <3> QED BY <2>2, <3>1, ReadLineKnows
  <2> QED BY <2>1, <2>2
<1>3. Meets(known)
  BY <1>2
<1>4. Reading(file) = CHOOSE st : Meets(st)
  BY DEF Reading, NothingRead
<1> HIDE DEF Meets, known
<1>5. Meets(Reading(file))
  BY <1>3, <1>4
<1> QED BY <1>5 DEF Meets

(* What fetchRobots has read after i lines is what is known then.            *)
LEMMA ReadingKnows ==
  ASSUME NEW file, Len(file) \in Nat
  PROVE  \A i \in 0..Len(file) : Reading(file)[i] = KnownAt(file, i)
<1> DEFINE Wrong == {i \in 0..Len(file) : Reading(file)[i] # KnownAt(file, i)}
<1> SUFFICES ASSUME Wrong # {} PROVE FALSE
  OBVIOUS
<1>1. PICK k \in Wrong : \A j \in Wrong : k <= j
  BY SmallestIs
<1>2. k \in 0..Len(file) /\ Reading(file)[k] = IF k = 0 THEN NothingRead ELSE ReadLine(Reading(file)[k - 1], file[k])
  BY ReadingStep
<1>3. CASE k = 0
  <2>1. AgentBefore(file, 0) = {} /\ RuleAt(file, 0) = {}
    BY DEF AgentBefore, RuleAt
  <2>2. KnownAt(file, 0) = NothingRead
    BY <2>1 DEF KnownAt, NothingRead, NamesUs, Ours, RulesOf
  <2> QED BY <1>2, <1>3, <2>2
<1>4. CASE k # 0
  <2>1. k - 1 \in 0..Len(file) /\ k - 1 \notin Wrong /\ k \in Nat \ {0}
    BY <1>1, <1>2, <1>4
  <2>2. Reading(file)[k - 1] = KnownAt(file, k - 1)
    BY <2>1
  <2> QED BY <1>2, <1>4, <2>1, <2>2, ReadLineKnows
<1> QED BY <1>3, <1>4

(* Some agent line is the last of those before a line. *)
LEMMA LastAgentIs ==
  ASSUME NEW file, NEW i \in Nat, AgentBefore(file, i) # {}
  PROVE  \E j : IsLast(file, i, j)
<1> DEFINE S == {i - j : j \in AgentBefore(file, i)}
<1>1. AgentBefore(file, i) \subseteq 1..i
  BY DEF AgentBefore
<1>2. S \in SUBSET (0..i) /\ S # {}
  BY <1>1
<1>3. PICK k \in S : \A j \in S : k <= j
  BY <1>2, SmallestIs
<1>4. PICK j \in AgentBefore(file, i) : k = i - j
  OBVIOUS
<1>5. ASSUME NEW l \in AgentBefore(file, i) PROVE l <= j
  <2>1. i - l \in S /\ l \in 1..i /\ j \in 1..i
    BY <1>1
  <2>2. i - j <= i - l
    BY <1>3, <1>4, <2>1
  <2> QED BY <2>1, <2>2
<1> QED BY <1>5 DEF IsLast

(* A rule stands for its line.                                               *)
Line == [key : {"agent", "rule"}, value : {"us", "them", "*"} \cup Nat]

LinesInv == /\ lines \in Seq(Line)
            /\ \A i \in 1..Len(lines) : lines[i].key = "rule" => lines[i].value = i - 1

LEMMA LinesStep == LinesInv /\ [RulesNext]_uvars => LinesInv'
<1> SUFFICES ASSUME LinesInv, [RulesNext]_uvars PROVE LinesInv'
  OBVIOUS
<1>1. CASE UNCHANGED lines
  BY <1>1 DEF LinesInv
<1>2. CASE AddLine
  <2>1. lines \in Seq(Line) /\ Len(lines) \in Nat
    BY DEF LinesInv
  <2>2. PICK l \in [key : {"agent"}, value : {"us", "them", "*"}] \cup [key : {"rule"}, value : {Len(lines)}] :
             lines' = Append(lines, l)
    BY <1>2 DEF AddLine
  <2>3. l \in Line /\ (l.key = "rule" => l.value = Len(lines))
    BY <2>1, <2>2 DEF Line
  <2>4. lines' \in Seq(Line) /\ Len(lines') = Len(lines) + 1
    BY <2>1, <2>2, <2>3
  <2>5. ASSUME NEW i \in 1..Len(lines'), lines'[i].key = "rule" PROVE lines'[i].value = i - 1
    <3>1. CASE i = Len(lines) + 1
      BY <2>1, <2>2, <2>3, <2>5, <3>1
    <3>2. CASE i # Len(lines) + 1
      <4>1. i \in 1..Len(lines) /\ lines'[i] = lines[i]
        BY <2>1, <2>2, <2>3, <2>4, <3>2
      <4> QED BY <2>5, <4>1 DEF LinesInv
    <3> QED BY <3>1, <3>2
  <2> QED BY <2>4, <2>5 DEF LinesInv
<1> QED BY <1>1, <1>2 DEF RulesNext, AddSegment, StartPath, uvars

(* GroupsCount: fetchRobots takes a rule exactly when it is in the first     *)
(* group that names us, or is anybody's before that, for any file.           *)
THEOREM RulesGroupsCount == RulesSpec => []GroupsCount
<1>1. RulesInit => LinesInv
  BY DEF RulesInit, LinesInv
<1>2. LinesInv => GroupsCount
  <2> SUFFICES ASSUME LinesInv, NEW i \in DOMAIN lines, lines[i].key = "rule"
               PROVE  LET agents == AgentBefore(lines, i)
                          us == {j \in agents : lines[j].value = "us"}
                          last == CHOOSE j \in agents : \A k \in agents : k <= j
                      IN lines[i].value \in RulesRead(lines) <=>
                           agents # {} /\ (us = {last} \/ (us = {} /\ lines[last].value = "*"))
    BY DEF GroupsCount
  <2> DEFINE agents == AgentBefore(lines, i)
             us == {j \in agents : lines[j].value = "us"}
             last == CHOOSE j \in agents : \A k \in agents : k <= j
  <2>1. lines \in Seq(Line) /\ Len(lines) \in Nat /\ i \in 1..Len(lines) /\ lines[i].value = i - 1
    BY DEF LinesInv
  <2>2. RulesRead(lines) = RulesOf(lines, Len(lines))
    <3>1. Reading(lines)[Len(lines)] = KnownAt(lines, Len(lines))
      BY <2>1, ReadingKnows
    <3> QED BY <3>1 DEF RulesRead, KnownAt
  <2>3. lines[i].value \in RulesRead(lines) <=> Ours(lines, i)
    <3>1. ASSUME Ours(lines, i) PROVE lines[i].value \in RulesOf(lines, Len(lines))
      <4>1. i \in RuleAt(lines, Len(lines))
        BY <2>1, <3>1 DEF RuleAt
      <4> QED BY <4>1 DEF RulesOf
    <3>2. ASSUME lines[i].value \in RulesOf(lines, Len(lines)) PROVE Ours(lines, i)
      <4>1. PICK k \in RuleAt(lines, Len(lines)) : lines[k].value = lines[i].value
        BY <3>2 DEF RulesOf
      <4>2. k \in 1..Len(lines) /\ lines[k].key # "agent" /\ Ours(lines, k)
        BY DEF RuleAt
      <4>3. lines[k].value = k - 1
        <5>1. lines[k] \in Line
          BY <2>1, <4>2
        <5>2. lines[k].key = "rule"
          BY <4>2, <5>1 DEF Line
        <5> QED BY <4>2, <5>2 DEF LinesInv
      <4>4. k = i
        BY <2>1, <4>1, <4>2, <4>3
      <4> QED BY <4>2, <4>4
    <3> QED BY <2>2, <3>1, <3>2
  <2>4. Ours(lines, i) => agents # {}
    BY DEF Ours
  <2>5. ASSUME agents # {}
        PROVE  Ours(lines, i) <=> us = {last} \/ (us = {} /\ lines[last].value = "*")
    <3>1. PICK j : IsLast(lines, i, j)
      BY <2>1, <2>5, LastAgentIs
    <3>2. agents \subseteq 1..i
      BY DEF AgentBefore
    <3>3. last \in agents /\ \A k \in agents : k <= last
      BY <3>1 DEF IsLast
    <3>4. \A k \in agents : k \in Int /\ (k = last \/ k < last)
      BY <2>1, <3>2, <3>3
    <3> HIDE DEF last
    <3>5. \A k : IsLast(lines, i, k) <=> k = last
      BY <3>3, <3>4 DEF IsLast
    <3>6. Ours(lines, i) <=> /\ lines[last].value \in {"us", "*"}
                            /\ \A k \in agents : k < last => lines[k].value # "us"
      BY <3>3, <3>5 DEF Ours
    <3>7. (\A k \in agents : k < last => lines[k].value # "us") <=> us \subseteq {last}
      BY <3>3, <3>4
    <3> QED BY <3>3, <3>6, <3>7
  <2> QED BY <2>3, <2>4, <2>5
<1> QED BY <1>1, <1>2, LinesStep, PTL DEF RulesSpec
=============================================================================
