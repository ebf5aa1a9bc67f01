---------------------------- MODULE ListTheorems ----------------------------
(***************************************************************************)
(* What FlattenSeq and Picked return, for every list.  The library's       *)
(* induction theorems take a predicate and cannot be used, so that each    *)
(* induction is a proof about the least number that would go wrong.        *)
(***************************************************************************)
EXTENDS Lists, NaturalsInduction, WellFoundedInduction, SequenceTheorems, TLAPS

IsList(s) == \E S : s \in Seq(S)

\* A set of numbers has a least one.
LEMMA LeastNumber ==
  ASSUME NEW T \in SUBSET Nat, T # {}
  PROVE  \E m \in T : \A n \in T : m <= n
<1>1. PICK m \in T : \A n \in T : <<n, m>> \notin OpToRel(<, Nat)
  BY NatLessThanWellFounded, WFMin
<1>2. ASSUME NEW n \in T PROVE m <= n
  <2>1. ~(n < m)
    BY <1>1 DEF OpToRel
  <2> QED BY <2>1
<1> QED BY <1>2

\* What holds of 1, and of n + 1 when it holds of n, holds up to the end.
LEMMA UpTo ==
  ASSUME NEW n \in Nat, NEW H, 1 \in H,
         \A i \in 1 .. n - 1 : i \in H => i + 1 \in H
  PROVE  1 .. n \subseteq H
<1> DEFINE T == (1 .. n) \ H
<1>1. SUFFICES ASSUME T # {} PROVE FALSE
  OBVIOUS
<1>0. T \in SUBSET Nat
  OBVIOUS
<1>2. PICK m \in T : \A k \in T : m <= k
  BY <1>1, <1>0, LeastNumber
<1>3. m # 1 /\ m - 1 \in 1 .. n - 1 /\ m - 1 \notin T
  BY <1>2
<1>4. (m - 1) + 1 \in H
  BY <1>3
<1> QED BY <1>3, <1>4

\* The domain of a list is an interval.
LEMMA ListLength ==
  ASSUME NEW s, IsList(s)
  PROVE  Len(s) \in Nat /\ DOMAIN s = 1 .. Len(s)
BY DEF IsList

\* A function on an interval is a list.
LEMMA FunctionIsList ==
  ASSUME NEW n \in Nat, NEW t, t = [i \in 1 .. n |-> t[i]]
  PROVE  IsList(t) /\ Len(t) = n
<1>1. t \in [1 .. n -> ToSet(t)]
  BY DEF ToSet
<1>2. t \in Seq(ToSet(t))
  BY <1>1, SeqDef
<1> QED BY <1>1, <1>2, LenProperties DEF IsList

\* What a concatenation has, and where.
LEMMA Concatenated ==
  ASSUME NEW s, NEW t, IsList(s), IsList(t)
  PROVE  /\ IsList(s \o t)
         /\ Len(s \o t) = Len(s) + Len(t)
         /\ DOMAIN (s \o t) = 1 .. Len(s) + Len(t)
         /\ \A i \in 1 .. Len(s) : (s \o t)[i] = s[i]
         /\ \A i \in 1 .. Len(t) : (s \o t)[Len(s) + i] = t[i]
         /\ \A i \in DOMAIN (s \o t) :
              \/ i \in DOMAIN s /\ (s \o t)[i] = s[i]
              \/ i - Len(s) \in DOMAIN t /\ (s \o t)[i] = t[i - Len(s)]
         /\ ToSet(s \o t) = ToSet(s) \cup ToSet(t)
<1>1. PICK S : s \in Seq(S)
  BY DEF IsList
<1>2. PICK T : t \in Seq(T)
  BY DEF IsList
<1>3. s \in Seq(S \cup T) /\ t \in Seq(S \cup T)
  BY <1>1, <1>2
<1>4. /\ s \o t \in Seq(S \cup T)
      /\ Len(s \o t) = Len(s) + Len(t)
      /\ DOMAIN (s \o t) = 1 .. Len(s) + Len(t)
      /\ \A i \in 1 .. Len(s) + Len(t) :
           (s \o t)[i] = IF i <= Len(s) THEN s[i] ELSE t[i - Len(s)]
  BY <1>3, ConcatProperties, LenProperties
<1>5. /\ Len(s) \in Nat /\ DOMAIN s = 1 .. Len(s)
      /\ Len(t) \in Nat /\ DOMAIN t = 1 .. Len(t)
  BY ListLength
<1>6. \A i \in 1 .. Len(s) : (s \o t)[i] = s[i]
  BY <1>4, <1>5
<1>7. \A i \in 1 .. Len(t) : (s \o t)[Len(s) + i] = t[i]
  BY <1>4, <1>5
<1>8. \A i \in DOMAIN (s \o t) :
        \/ i \in DOMAIN s /\ (s \o t)[i] = s[i]
        \/ i - Len(s) \in DOMAIN t /\ (s \o t)[i] = t[i - Len(s)]
  BY <1>4, <1>5
<1>9. ToSet(s \o t) = ToSet(s) \cup ToSet(t)
  <2>1. ASSUME NEW x \in ToSet(s \o t) PROVE x \in ToSet(s) \cup ToSet(t)
    BY <2>1, <1>8 DEF ToSet
  <2>2. ASSUME NEW x \in ToSet(s) PROVE x \in ToSet(s \o t)
    <3>1. PICK i \in DOMAIN s : x = s[i]
      BY <2>2 DEF ToSet
    <3>2. i \in DOMAIN (s \o t) /\ (s \o t)[i] = x
      BY <3>1, <1>4, <1>5, <1>6
    <3> QED BY <3>2 DEF ToSet
  <2>3. ASSUME NEW x \in ToSet(t) PROVE x \in ToSet(s \o t)
    <3>1. PICK i \in DOMAIN t : x = t[i]
      BY <2>3 DEF ToSet
    <3>2. Len(s) + i \in DOMAIN (s \o t) /\ (s \o t)[Len(s) + i] = x
      BY <3>1, <1>4, <1>5, <1>7
    <3> QED BY <3>2 DEF ToSet
  <2> QED BY <2>1, <2>2, <2>3
<1> QED BY <1>4, <1>6, <1>7, <1>8, <1>9 DEF IsList

\* Two lists without duplicates and without a common entry make one without duplicates.
LEMMA ConcatInjective ==
  ASSUME NEW s, NEW t, IsList(s), IsList(t), IsInjective(s), IsInjective(t),
         ToSet(s) \cap ToSet(t) = {}
  PROVE  IsInjective(s \o t)
<1> DEFINE u == s \o t
<1>1. \A i \in DOMAIN u : \/ i \in DOMAIN s /\ u[i] = s[i]
                          \/ i - Len(s) \in DOMAIN t /\ u[i] = t[i - Len(s)]
  BY Concatenated
<1>2. Len(s) \in Int /\ DOMAIN u \subseteq Int
  <2>1. IsList(u) /\ Len(s) \in Nat
    BY Concatenated, ListLength
  <2>2. Len(u) \in Nat /\ DOMAIN u = 1 .. Len(u)
    <3> HIDE DEF u
    <3> QED BY <2>1, ListLength
  <2> QED BY <2>1, <2>2
<1> HIDE DEF u
<1>3. ASSUME NEW k \in DOMAIN s, NEW l \in DOMAIN t PROVE s[k] # t[l]
  BY DEF ToSet
<1>4. ASSUME NEW i \in DOMAIN u, NEW j \in DOMAIN u, u[i] = u[j] PROVE i = j
  <2>1. CASE i \in DOMAIN s /\ u[i] = s[i]
    <3>1. j \in DOMAIN s /\ u[j] = s[j]
      BY <1>1, <1>3, <1>4, <2>1
    <3> QED BY <1>4, <2>1, <3>1 DEF IsInjective
  <2>2. CASE i - Len(s) \in DOMAIN t /\ u[i] = t[i - Len(s)]
    <3>1. j - Len(s) \in DOMAIN t /\ u[j] = t[j - Len(s)]
      BY <1>1, <1>3, <1>4, <2>2
    <3>2. i - Len(s) = j - Len(s)
      BY <1>4, <2>2, <3>1 DEF IsInjective
    <3> QED BY <1>2, <3>2
  <2> QED BY <1>1, <2>1, <2>2
<1>5. IsInjective(u)
  BY <1>4 DEF IsInjective
<1> QED BY <1>5 DEF u

-----------------------------------------------------------------------------
(* FlattenSeq *)

\* The recursive function of FlattenSeq exists.
LEMMA FlattenSteps ==
  ASSUME NEW ss, IsList(ss), Len(ss) # 0
  PROVE  \E f : /\ f[1] = ss[1]
                /\ \A i \in 1 .. Len(ss) - 1 : f[i + 1] = f[i] \o ss[i + 1]
                /\ FlattenSeq(ss) = f[Len(ss)]
<1> DEFINE Steps(n, f) ==
             f = [i \in 1 .. n |-> IF i = 1 THEN ss[i] ELSE f[i - 1] \o ss[i]]
           H == {n \in 1 .. Len(ss) : \E f : Steps(n, f)}
           flatten == CHOOSE f : Steps(Len(ss), f)
<1>1. Len(ss) \in Nat /\ Len(ss) \in 1 .. Len(ss)
  BY ListLength
<1>2. 1 \in H
  <2>1. \E f : Steps(1, f)
    <3> DEFINE f == [i \in 1 .. 1 |-> ss[i]]
    <3>1. f = [i \in 1 .. 1 |-> IF i = 1 THEN ss[i] ELSE f[i - 1] \o ss[i]]
      OBVIOUS
    <3> QED BY <3>1
  <2> HIDE DEF Steps
  <2> QED BY <1>1, <2>1
<1>3. ASSUME NEW n \in 1 .. Len(ss) - 1, n \in H
      PROVE  n + 1 \in H
  <2>1. PICK f : Steps(n, f)
    BY <1>3
  <2> DEFINE g == [i \in 1 .. n + 1 |-> IF i = n + 1 THEN f[n] \o ss[i] ELSE f[i]]
  <2>2. ASSUME NEW i \in 1 .. n + 1
        PROVE  g[i] = IF i = 1 THEN ss[i] ELSE g[i - 1] \o ss[i]
    <3>1. CASE i = n + 1
      <4>1. i # 1 /\ i - 1 = n /\ n # n + 1 /\ n \in 1 .. n + 1
        BY <3>1, <1>1
      <4>2. g[i] = f[n] \o ss[i] /\ g[n] = f[n]
        BY <3>1, <4>1
      <4> QED BY <4>1, <4>2
    <3>2. CASE i # n + 1
      <4>1. i \in 1 .. n /\ (i # 1 => i - 1 \in 1 .. n)
        BY <3>2, <1>1
      <4>2. f[i] = IF i = 1 THEN ss[i] ELSE f[i - 1] \o ss[i]
        BY <4>1, <2>1
      <4>3. g[i] = f[i] /\ (i # 1 => g[i - 1] = f[i - 1])
        BY <3>2, <4>1, <1>1
      <4> QED BY <4>2, <4>3
    <3> QED BY <3>1, <3>2
  <2>3. Steps(n + 1, g)
    <3> HIDE DEF g
    <3>1. g = [i \in 1 .. n + 1 |-> g[i]]
      BY DEF g
    <3> QED BY <2>2, <3>1
  <2>4. n + 1 \in 1 .. Len(ss)
    BY <1>1
  <2>5. \E h : Steps(n + 1, h)
    <3> HIDE DEF g, Steps
    <3> QED BY <2>3
  <2> HIDE DEF Steps
  <2> QED BY <2>4, <2>5
<1>4. Len(ss) \in H
  <2> HIDE DEF H
  <2> QED BY <1>1, <1>2, <1>3, UpTo
<1>5. Steps(Len(ss), flatten)
  BY <1>4
<1>6. FlattenSeq(ss) = flatten[Len(ss)]
  BY DEF FlattenSeq
<1>7. flatten[1] = ss[1]
  <2>1. 1 \in 1 .. Len(ss)
    BY <1>1
  <2> HIDE DEF flatten
  <2> QED BY <1>5, <2>1
<1>8. ASSUME NEW i \in 1 .. Len(ss) - 1
      PROVE  flatten[i + 1] = flatten[i] \o ss[i + 1]
  <2>1. i + 1 \in 1 .. Len(ss) /\ i + 1 # 1 /\ (i + 1) - 1 = i
    BY <1>1
  <2> HIDE DEF flatten
  <2> QED BY <1>5, <2>1
<1> HIDE DEF flatten
<1> QED BY <1>6, <1>7, <1>8

\* No lists flattened are no entries.
LEMMA FlattenEmpty == FlattenSeq(<<>>) = <<>>
BY DEF FlattenSeq

\* A list of lists is flattened to a list of all their elements.
LEMMA FlattenElements ==
  ASSUME NEW ss, IsList(ss), \A i \in DOMAIN ss : IsList(ss[i])
  PROVE  /\ IsList(FlattenSeq(ss))
         /\ ToSet(FlattenSeq(ss)) = UNION {ToSet(ss[i]) : i \in DOMAIN ss}
<1>1. Len(ss) \in Nat /\ DOMAIN ss = 1 .. Len(ss)
  BY ListLength
<1>2. CASE Len(ss) = 0
  <2>1. ss = <<>> /\ DOMAIN ss = {}
    BY <1>1, <1>2, EmptySeq DEF IsList
  <2>2. FlattenSeq(ss) = <<>>
    BY <2>1, FlattenEmpty
  <2>3. ToSet(<<>>) = {}
    BY DEF ToSet
  <2> QED BY <2>1, <2>2, <2>3
<1>3. CASE Len(ss) # 0
  <2>1. PICK f : /\ f[1] = ss[1]
                 /\ \A i \in 1 .. Len(ss) - 1 : f[i + 1] = f[i] \o ss[i + 1]
                 /\ FlattenSeq(ss) = f[Len(ss)]
    BY <1>3, FlattenSteps
  <2> DEFINE H == {n \in 1 .. Len(ss) :
                     IsList(f[n]) /\ ToSet(f[n]) = UNION {ToSet(ss[i]) : i \in 1 .. n}}
  <2>2. 1 \in H
    <3>1. IsList(ss[1]) /\ 1 \in 1 .. Len(ss) /\ 1 .. 1 = {1}
      BY <1>1, <1>3
    <3> QED BY <2>1, <3>1
  <2>3. ASSUME NEW n \in 1 .. Len(ss) - 1, n \in H
        PROVE  n + 1 \in H
    <3>1. n + 1 \in 1 .. Len(ss) /\ 1 .. n + 1 = (1 .. n) \cup {n + 1}
      BY <1>1
    <3>2. IsList(ss[n + 1]) /\ IsList(f[n])
      BY <1>1, <2>3, <3>1
    <3>3. IsList(f[n + 1]) /\ ToSet(f[n + 1]) = ToSet(f[n]) \cup ToSet(ss[n + 1])
      <4>1. f[n + 1] = f[n] \o ss[n + 1]
        BY <2>1
      <4>2. /\ IsList(f[n] \o ss[n + 1])
            /\ ToSet(f[n] \o ss[n + 1]) = ToSet(f[n]) \cup ToSet(ss[n + 1])
        BY <3>2, Concatenated
      <4> QED BY <4>1, <4>2
    <3>4. UNION {ToSet(ss[i]) : i \in 1 .. n + 1}
            = (UNION {ToSet(ss[i]) : i \in 1 .. n}) \cup ToSet(ss[n + 1])
      BY <3>1
    <3> QED BY <2>3, <3>1, <3>3, <3>4
  <2>4. Len(ss) \in H
    <3> HIDE DEF H
    <3>1. 1 .. Len(ss) \subseteq H
      BY <1>1, <2>2, <2>3, UpTo
    <3> QED BY <1>1, <1>3, <3>1
  <2> QED BY <1>1, <2>1, <2>4
<1> QED BY <1>2, <1>3

\* Lists without repetition that have nothing in common are flattened to one
\* without repetition.
LEMMA FlattenInjective ==
  ASSUME NEW ss, IsList(ss),
         \A i \in DOMAIN ss : IsList(ss[i]) /\ IsInjective(ss[i]),
         \A i, j \in DOMAIN ss : i # j => ToSet(ss[i]) \cap ToSet(ss[j]) = {}
  PROVE  IsInjective(FlattenSeq(ss))
<1>1. Len(ss) \in Nat /\ DOMAIN ss = 1 .. Len(ss)
  BY ListLength
<1>2. CASE Len(ss) = 0
  <2>1. ss = <<>> /\ DOMAIN ss = {}
    BY <1>1, <1>2, EmptySeq DEF IsList
  <2> QED BY <2>1, FlattenEmpty DEF IsInjective
<1>3. CASE Len(ss) # 0
  <2>1. PICK f : /\ f[1] = ss[1]
                 /\ \A i \in 1 .. Len(ss) - 1 : f[i + 1] = f[i] \o ss[i + 1]
                 /\ FlattenSeq(ss) = f[Len(ss)]
    BY <1>3, FlattenSteps
  <2> DEFINE H == {n \in 1 .. Len(ss) :
                     /\ IsList(f[n]) /\ IsInjective(f[n])
                     /\ ToSet(f[n]) = UNION {ToSet(ss[i]) : i \in 1 .. n}}
  <2>2. 1 \in H
    <3>1. IsList(ss[1]) /\ IsInjective(ss[1]) /\ 1 \in 1 .. Len(ss) /\ 1 .. 1 = {1}
      BY <1>1, <1>3
    <3> QED BY <2>1, <3>1
  <2>3. ASSUME NEW n \in 1 .. Len(ss) - 1, n \in H
        PROVE  n + 1 \in H
    <3>1. n + 1 \in 1 .. Len(ss) /\ 1 .. n + 1 = (1 .. n) \cup {n + 1}
      BY <1>1
    <3>2. /\ IsList(ss[n + 1]) /\ IsInjective(ss[n + 1])
          /\ IsList(f[n]) /\ IsInjective(f[n])
      BY <1>1, <2>3, <3>1
    <3>3. f[n + 1] = f[n] \o ss[n + 1]
      BY <2>1
    <3>4. UNION {ToSet(ss[i]) : i \in 1 .. n + 1}
            = (UNION {ToSet(ss[i]) : i \in 1 .. n}) \cup ToSet(ss[n + 1])
      BY <3>1
    <3>5. ToSet(f[n]) \cap ToSet(ss[n + 1]) = {}
      <4>1. ASSUME NEW i \in 1 .. n PROVE ToSet(ss[i]) \cap ToSet(ss[n + 1]) = {}
        BY <1>1, <3>1
      <4> QED BY <2>3, <4>1
    <3>6. /\ IsList(f[n] \o ss[n + 1])
          /\ ToSet(f[n] \o ss[n + 1]) = ToSet(f[n]) \cup ToSet(ss[n + 1])
      BY <3>2, Concatenated
    <3>7. IsInjective(f[n] \o ss[n + 1])
      BY <3>2, <3>5, ConcatInjective
    <3> QED BY <2>3, <3>1, <3>3, <3>4, <3>6, <3>7
  <2>4. Len(ss) \in H
    <3> HIDE DEF H
    <3>1. 1 .. Len(ss) \subseteq H
      BY <1>1, <2>2, <2>3, UpTo
    <3> QED BY <1>1, <1>3, <3>1
  <2> QED BY <1>1, <2>1, <2>4
<1> QED BY <1>2, <1>3

-----------------------------------------------------------------------------
(* Picked *)

\* What is picked is picked at the positions, each once and in their order.
LEMMA PickedAt ==
  ASSUME NEW s, IsList(s), NEW P
  PROVE  /\ IsList(Picked(s, P))
         /\ \E at \in [DOMAIN Picked(s, P) -> P \cap DOMAIN s] :
              /\ \A k \in DOMAIN Picked(s, P) : Picked(s, P)[k] = s[at[k]]
              /\ \A k, l \in DOMAIN Picked(s, P) : k < l => at[k] < at[l]
              /\ \A i \in P \cap DOMAIN s : \E k \in DOMAIN Picked(s, P) : at[k] = i
<1> DEFINE ss == [i \in DOMAIN s |-> IF i \in P THEN <<s[i]>> ELSE <<>>]
           Fits(n, t, at) ==
             /\ IsList(t)
             /\ at \in [DOMAIN t -> P \cap (1 .. n)]
             /\ \A k \in DOMAIN t : t[k] = s[at[k]]
             /\ \A k, l \in DOMAIN t : k < l => at[k] < at[l]
             /\ \A i \in P \cap (1 .. n) : \E k \in DOMAIN t : at[k] = i
<1>1. /\ Len(s) \in Nat /\ DOMAIN s = 1 .. Len(s)
      /\ IsList(ss) /\ Len(ss) = Len(s)
  <2>1. PICK S : s \in Seq(S)
    BY DEF IsList
  <2>2. ss \in Seq({<<>>} \cup {<<x>> : x \in S})
    BY <2>1, LenProperties, IsASeq
  <2> QED BY <2>1, <2>2 DEF IsList
<1>2. CASE Len(s) = 0
  <2>1. DOMAIN s = {} /\ ss = <<>>
    BY <1>1, <1>2
  <2>2. Picked(s, P) = <<>> /\ DOMAIN Picked(s, P) = {} /\ IsList(<<>>)
    BY <2>1, FlattenEmpty DEF Picked, IsList
  <2>3. \E at : at \in [DOMAIN Picked(s, P) -> P \cap DOMAIN s]
    <3>1. [x \in {} |-> x] \in [{} -> P \cap DOMAIN s]
      OBVIOUS
    <3> QED BY <2>2, <3>1
  <2> QED BY <2>1, <2>2, <2>3
<1>3. CASE Len(s) # 0
  <2>1. PICK f : /\ f[1] = ss[1]
                 /\ \A i \in 1 .. Len(s) - 1 : f[i + 1] = f[i] \o ss[i + 1]
                 /\ Picked(s, P) = f[Len(s)]
    <3>1. PICK f : /\ f[1] = ss[1]
                   /\ \A i \in 1 .. Len(ss) - 1 : f[i + 1] = f[i] \o ss[i + 1]
                   /\ FlattenSeq(ss) = f[Len(ss)]
      <4> HIDE DEF ss
      <4> QED BY <1>1, <1>3, FlattenSteps
    <3> QED BY <1>1, <3>1 DEF Picked
  <2> DEFINE H == {n \in 1 .. Len(s) : \E at : Fits(n, f[n], at)}
  <2>2. 1 \in H
    <3>1. 1 \in 1 .. Len(s) /\ 1 .. 1 = {1} /\ IsList(<<s[1]>>) /\ IsList(<<>>)
      BY <1>1, <1>3 DEF IsList
    <3>2. f[1] = IF 1 \in P THEN <<s[1]>> ELSE <<>>
      BY <1>1, <2>1, <3>1
    <3>3. CASE 1 \in P
      <4>1. f[1] = <<s[1]>> /\ DOMAIN f[1] = {1} /\ f[1][1] = s[1]
        BY <3>2, <3>3
      <4>2. Fits(1, f[1], [k \in {1} |-> 1])
        BY <3>1, <3>3, <4>1
      <4> HIDE DEF Fits
      <4> QED BY <3>1, <4>2
    <3>4. CASE 1 \notin P
      <4>1. f[1] = <<>> /\ DOMAIN f[1] = {}
        BY <3>2, <3>4
      <4>2. Fits(1, f[1], [k \in {} |-> 1])
        BY <3>1, <3>4, <4>1
      <4> HIDE DEF Fits
      <4> QED BY <3>1, <4>2
    <3> QED BY <3>3, <3>4
  <2>3. ASSUME NEW n \in 1 .. Len(s) - 1, n \in H
        PROVE  n + 1 \in H
    <3>1. PICK at : Fits(n, f[n], at)
      BY <2>3
    <3>2. /\ n + 1 \in 1 .. Len(s) /\ n \in Nat /\ n + 1 \notin 1 .. n
          /\ 1 .. n + 1 = (1 .. n) \cup {n + 1}
      BY <1>1
    <3>3. f[n + 1] = f[n] \o (IF n + 1 \in P THEN <<s[n + 1]>> ELSE <<>>)
      BY <1>1, <2>1, <3>2
    <3>4. /\ IsList(f[n]) /\ Len(f[n]) \in Nat /\ DOMAIN f[n] = 1 .. Len(f[n])
      BY <3>1, ListLength
    <3>5. CASE n + 1 \notin P
      <4>1. f[n + 1] = f[n]
        <5>1. PICK S : f[n] \in Seq(S)
          BY <3>4 DEF IsList
        <5> QED BY <3>3, <3>5, <5>1, ConcatEmptySeq
      <4>2. P \cap (1 .. n + 1) = P \cap (1 .. n)
        BY <3>2, <3>5
      <4>3. Fits(n + 1, f[n + 1], at)
        BY <3>1, <4>1, <4>2
      <4> HIDE DEF Fits
      <4> QED BY <3>2, <4>3
    <3>6. CASE n + 1 \in P
      <4> DEFINE m == Len(f[n]) + 1
                 new == [k \in 1 .. m |-> IF k = m THEN n + 1 ELSE at[k]]
      <4>1. IsList(<<s[n + 1]>>) /\ Len(<<s[n + 1]>>) = 1 /\ <<s[n + 1]>>[1] = s[n + 1]
        BY DEF IsList
      <4>2. /\ IsList(f[n + 1]) /\ DOMAIN f[n + 1] = 1 .. m
            /\ \A k \in 1 .. Len(f[n]) : f[n + 1][k] = f[n][k]
            /\ f[n + 1][m] = s[n + 1]
        <5>1. f[n + 1] = f[n] \o <<s[n + 1]>>
          BY <3>3, <3>6
        <5>2. /\ IsList(f[n] \o <<s[n + 1]>>)
              /\ DOMAIN (f[n] \o <<s[n + 1]>>) = 1 .. Len(f[n]) + Len(<<s[n + 1]>>)
              /\ \A k \in 1 .. Len(f[n]) : (f[n] \o <<s[n + 1]>>)[k] = f[n][k]
              /\ \A k \in 1 .. Len(<<s[n + 1]>>) :
                   (f[n] \o <<s[n + 1]>>)[Len(f[n]) + k] = <<s[n + 1]>>[k]
          BY <3>4, <4>1, Concatenated
        <5> QED BY <4>1, <5>1, <5>2
      <4>3. /\ m \in Nat /\ m \in 1 .. m
            /\ \A k \in 1 .. m : k = m \/ k \in DOMAIN f[n]
            /\ \A k \in DOMAIN f[n] : k \in 1 .. m /\ k < m
        BY <3>4
      <4>4. \A k \in DOMAIN f[n] : /\ at[k] \in P \cap (1 .. n) /\ at[k] < n + 1
                                   /\ f[n][k] = s[at[k]]
        BY <3>1, <3>2
      <4>5. new[m] = n + 1 /\ \A k \in DOMAIN f[n] : new[k] = at[k]
        BY <4>3
      <4>6. new \in [1 .. m -> P \cap (1 .. n + 1)]
        BY <3>2, <3>6, <4>3, <4>4
      <4> HIDE DEF m, new
      <4>7. \A k \in 1 .. m : f[n + 1][k] = s[new[k]]
        BY <3>4, <4>2, <4>3, <4>4, <4>5
      <4>8. ASSUME NEW k \in 1 .. m, NEW l \in 1 .. m, k < l PROVE new[k] < new[l]
        <5>1. k # m /\ k \in DOMAIN f[n]
          BY <4>3, <4>8
        <5>2. CASE l = m
          BY <4>4, <4>5, <5>1, <5>2
        <5>3. CASE l \in DOMAIN f[n]
          BY <3>1, <4>5, <4>8, <5>1, <5>3
        <5> QED BY <4>3, <5>2, <5>3
      <4>9. ASSUME NEW i \in P \cap (1 .. n + 1) PROVE \E k \in 1 .. m : new[k] = i
        <5>1. CASE i = n + 1
          BY <4>3, <4>5, <5>1
        <5>2. CASE i \in 1 .. n
          <6>1. PICK k \in DOMAIN f[n] : at[k] = i
            BY <3>1, <4>9, <5>2
          <6> QED BY <4>3, <4>5, <6>1
        <5> QED BY <3>2, <4>9, <5>1, <5>2
      <4>10. Fits(n + 1, f[n + 1], new)
        BY <4>2, <4>6, <4>7, <4>8, <4>9
      <4> HIDE DEF Fits
      <4> QED BY <3>2, <4>10
    <3> QED BY <3>5, <3>6
  <2>4. Len(s) \in H
    <3> HIDE DEF H
    <3>1. 1 .. Len(s) \subseteq H
      BY <1>1, <2>2, <2>3, UpTo
    <3> QED BY <1>1, <1>3, <3>1
  <2>5. PICK at : Fits(Len(s), Picked(s, P), at)
    BY <2>1, <2>4
  <2> QED BY <1>1, <2>5
<1> QED BY <1>1, <1>2, <1>3

\* The elements of what is picked.
LEMMA PickedElements ==
  ASSUME NEW s, IsList(s), NEW P
  PROVE  /\ IsList(Picked(s, P))
         /\ ToSet(Picked(s, P)) = {s[i] : i \in P \cap DOMAIN s}
<1>1. PICK at \in [DOMAIN Picked(s, P) -> P \cap DOMAIN s] :
        /\ \A k \in DOMAIN Picked(s, P) : Picked(s, P)[k] = s[at[k]]
        /\ \A i \in P \cap DOMAIN s : \E k \in DOMAIN Picked(s, P) : at[k] = i
  BY PickedAt
<1>2. ASSUME NEW x \in ToSet(Picked(s, P)) PROVE x \in {s[i] : i \in P \cap DOMAIN s}
  <2>1. PICK k \in DOMAIN Picked(s, P) : x = Picked(s, P)[k]
    BY <1>2 DEF ToSet
  <2> QED BY <1>1, <2>1
<1>3. ASSUME NEW i \in P \cap DOMAIN s PROVE s[i] \in ToSet(Picked(s, P))
  <2>1. PICK k \in DOMAIN Picked(s, P) : Picked(s, P)[k] = s[i]
    BY <1>1
  <2> QED BY <2>1 DEF ToSet
<1> QED BY <1>2, <1>3, PickedAt

\* What is picked of a list without repetition has none.
LEMMA PickedInjective ==
  ASSUME NEW s, IsList(s), IsInjective(s), NEW P
  PROVE  IsInjective(Picked(s, P))
<1>1. PICK at \in [DOMAIN Picked(s, P) -> P \cap DOMAIN s] :
        /\ \A k \in DOMAIN Picked(s, P) : Picked(s, P)[k] = s[at[k]]
        /\ \A k, l \in DOMAIN Picked(s, P) : k < l => at[k] < at[l]
  BY PickedAt
<1>2. ASSUME NEW k \in DOMAIN Picked(s, P), NEW l \in DOMAIN Picked(s, P),
             Picked(s, P)[k] = Picked(s, P)[l]
      PROVE  k = l
  <2>1. at[k] = at[l]
    BY <1>1, <1>2 DEF IsInjective
  <2>2. /\ DOMAIN Picked(s, P) = 1 .. Len(Picked(s, P)) /\ DOMAIN s = 1 .. Len(s)
        /\ Len(Picked(s, P)) \in Nat /\ Len(s) \in Nat
    BY PickedAt, ListLength
  <2>3. at[k] \in Int /\ k \in Int /\ l \in Int
    BY <2>2
  <2> QED BY <1>1, <2>1, <2>3
<1> QED BY <1>2 DEF IsInjective

\* Numbers that grow from each to the next grow from each to every later one.
LEMMA GrowingNumbers ==
  ASSUME NEW n \in Nat, NEW b \in [1 .. n -> Int],
         \A k \in 1 .. n - 1 : b[k] < b[k + 1]
  PROVE  \A k, l \in 1 .. n : k < l => b[k] < b[l]
<1> DEFINE H == {m \in 1 .. n : \A k \in 1 .. m - 1 : b[k] < b[m]}
<1>1. CASE n = 0
  BY <1>1
<1>2. CASE n # 0
  <2>1. 1 \in H
    BY <1>2
  <2>2. ASSUME NEW m \in 1 .. n - 1, m \in H
        PROVE  m + 1 \in H
    <3>1. b[m] < b[m + 1] /\ m + 1 \in 1 .. n /\ b[m] \in Int /\ b[m + 1] \in Int
      OBVIOUS
    <3>2. ASSUME NEW k \in 1 .. (m + 1) - 1 PROVE b[k] < b[m + 1]
      <4>1. CASE k = m
        BY <3>1, <4>1
      <4>2. CASE k # m
        <5>1. k \in 1 .. m - 1 /\ b[k] \in Int
          BY <4>2
        <5>2. b[k] < b[m]
          BY <2>2, <5>1
        <5> QED BY <3>1, <5>1, <5>2
      <4> QED BY <4>1, <4>2
    <3> QED BY <3>1, <3>2
  <2>3. 1 .. n \subseteq H
    <3> HIDE DEF H
    <3> QED BY <2>1, <2>2, UpTo
  <2> QED BY <2>3
<1> QED BY <1>1, <1>2

\* Each of the n numbers a is one of the m numbers b.
Among(n, a, m, b) == \A k \in 1 .. n : \E l \in 1 .. m : a[k] = b[l]

\* What enumerates the same numbers in their order is at most as long and
\* agrees.
LEMMA EnumerationsAgree ==
  ASSUME NEW n \in Nat, NEW m \in Nat,
         NEW a \in [1 .. n -> Int], NEW b \in [1 .. m -> Int],
         \A k, l \in 1 .. n : k < l => a[k] < a[l],
         \A k, l \in 1 .. m : k < l => b[k] < b[l],
         Among(n, a, m, b), Among(m, b, n, a)
  PROVE  \A k \in 1 .. n : k \in 1 .. m /\ a[k] = b[k]
<1> DEFINE T == {k \in 1 .. n : ~(k \in 1 .. m /\ a[k] = b[k])}
<1>1. SUFFICES ASSUME T # {} PROVE FALSE
  OBVIOUS
<1>2. T \in SUBSET Nat
  OBVIOUS
<1>3. PICK k \in T : \A l \in T : k <= l
  BY <1>1, <1>2, LeastNumber
<1>4. k \in 1 .. n /\ ~(k \in 1 .. m /\ a[k] = b[k])
  OBVIOUS
<1>5. ASSUME NEW l \in 1 .. n, l < k
      PROVE  l \in 1 .. m /\ a[l] = b[l]
  <2>1. l \notin T
    <3> HIDE DEF T
    <3> QED BY <1>2, <1>3, <1>5
  <2> QED BY <2>1
<1>6. PICK j \in 1 .. m : a[k] = b[j]
  BY <1>4 DEF Among
<1>7. k <= j
  <2>1. ASSUME j < k PROVE FALSE
    <3>1. j \in 1 .. n /\ a[j] = b[j]
      BY <1>4, <1>5, <2>1
    <3>2. a[j] < a[k] /\ a[j] \in Int /\ a[k] \in Int
      BY <1>4, <2>1, <3>1
    <3> QED BY <1>6, <3>1, <3>2
  <2> QED BY <1>4, <2>1
<1>8. k \in 1 .. m
  BY <1>4, <1>7
<1>9. PICK i \in 1 .. n : b[k] = a[i]
  BY <1>8 DEF Among
<1>10. k <= i
  <2>1. ASSUME i < k PROVE FALSE
    <3>1. i \in 1 .. m /\ a[i] = b[i]
      BY <1>5, <2>1
    <3>2. b[i] < b[k] /\ b[i] \in Int /\ b[k] \in Int
      BY <1>8, <2>1, <3>1
    <3> QED BY <1>9, <3>1, <3>2
  <2> QED BY <1>4, <2>1
<1>11. a[k] <= a[i] /\ b[k] <= b[j] /\ a[k] \in Int /\ b[k] \in Int
  <2>1. a[k] \in Int /\ a[i] \in Int /\ b[k] \in Int /\ b[j] \in Int
    BY <1>4, <1>8
  <2>2. a[k] <= a[i]
    <3>1. k = i \/ a[k] < a[i]
      BY <1>4, <1>10
    <3> QED BY <2>1, <3>1
  <2>3. b[k] <= b[j]
    <3>1. k = j \/ b[k] < b[j]
      BY <1>4, <1>7, <1>8
    <3> QED BY <2>1, <3>1
  <2> QED BY <2>1, <2>2, <2>3
<1>12. a[k] = b[k]
  BY <1>6, <1>9, <1>11
<1> QED BY <1>4, <1>8, <1>12

PicksAt(s, P, t, at) ==
  /\ at \in [DOMAIN t -> P \cap DOMAIN s]
  /\ \A k \in DOMAIN t : t[k] = s[at[k]]
  /\ \A k, l \in DOMAIN t : k < l => at[k] < at[l]
  /\ \A i \in P \cap DOMAIN s : \E k \in DOMAIN t : at[k] = i

\* What is picked stands at increasing places of the list, which are all its places in P.
LEMMA PickedPositions ==
  ASSUME NEW s, IsList(s), NEW P
  PROVE  \E at : PicksAt(s, P, Picked(s, P), at)
<1>1. PICK at \in [DOMAIN Picked(s, P) -> P \cap DOMAIN s] :
        /\ \A k \in DOMAIN Picked(s, P) : Picked(s, P)[k] = s[at[k]]
        /\ \A k, l \in DOMAIN Picked(s, P) : k < l => at[k] < at[l]
        /\ \A i \in P \cap DOMAIN s : \E k \in DOMAIN Picked(s, P) : at[k] = i
  BY PickedAt
<1>2. PicksAt(s, P, Picked(s, P), at)
  BY <1>1, Zenon DEF PicksAt
<1> QED BY <1>2

\* The n numbers b are those in P, in their order.
Enumerates(n, b, P) ==
  /\ b \in [1 .. n -> P]
  /\ \A k \in 1 .. n - 1 : b[k] < b[k + 1]
  /\ \A i \in P : \E k \in 1 .. n : b[k] = i

\* Positions in their order, all of them, say what is picked.
LEMMA PickedIs ==
  ASSUME NEW s, IsList(s), NEW P \in SUBSET DOMAIN s,
         NEW n \in Nat, NEW b, Enumerates(n, b, P)
  PROVE  Picked(s, P) = [k \in 1 .. n |-> s[b[k]]]
<1> DEFINE t == Picked(s, P)
<1>1. PICK at : PicksAt(s, P, t, at)
  BY PickedPositions
<1>2. IsList(t)
  BY PickedElements
<1> HIDE DEF t
<1>3. /\ Len(t) \in Nat /\ DOMAIN t = 1 .. Len(t)
      /\ Len(s) \in Nat /\ DOMAIN s = 1 .. Len(s)
  BY <1>2, ListLength
<1>4. at \in [1 .. Len(t) -> Int] /\ b \in [1 .. n -> Int]
  BY <1>1, <1>3 DEF PicksAt, Enumerates
<1>5. \A k, l \in 1 .. n : k < l => b[k] < b[l]
  BY <1>4, GrowingNumbers DEF Enumerates
<1>6. Among(Len(t), at, n, b) /\ Among(n, b, Len(t), at)
  BY <1>1, <1>3 DEF Among, PicksAt, Enumerates
<1>7. /\ \A k, l \in 1 .. Len(t) : k < l => at[k] < at[l]
  BY <1>1, <1>3 DEF PicksAt
<1>8. \A k \in 1 .. Len(t) : k \in 1 .. n /\ at[k] = b[k]
  BY <1>3, <1>4, <1>5, <1>6, <1>7, EnumerationsAgree
<1>9. \A k \in 1 .. n : k \in 1 .. Len(t) /\ b[k] = at[k]
  BY <1>3, <1>4, <1>5, <1>6, <1>7, EnumerationsAgree
<1>10. 1 .. n = 1 .. Len(t)
  BY <1>8, <1>9
<1>11. t = [k \in 1 .. Len(t) |-> t[k]]
  <2>1. PICK S : t \in Seq(S)
    BY <1>2 DEF IsList
  <2> QED BY <2>1
<1>12. \A k \in 1 .. Len(t) : t[k] = s[b[k]]
  BY <1>1, <1>3, <1>8 DEF PicksAt
<1> QED BY <1>10, <1>11, <1>12 DEF t
=============================================================================
