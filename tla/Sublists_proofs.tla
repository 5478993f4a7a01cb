-------------------------- MODULE Sublists_proofs ---------------------------
(***************************************************************************)
(* What Kept returns, for all sequences and sets.  The induction behind it *)
(* is over sets of numbers and of sequences: a set that contains the first *)
(* and with each member the next contains all.                             *)
(***************************************************************************)
EXTENDS Sublists, SequenceTheorems, WellFoundedInduction, TLAPS

\* A set of naturals that is not empty has a smallest element.
LEMMA Smallest ==
  ASSUME NEW S \in SUBSET Nat, S # {}
  PROVE  \E u \in S : \A v \in S : u <= v
<1> DEFINE Less == {ss \in Nat \X Nat : ss[1] < ss[2]}
<1>1. Less = OpToRel(<, Nat)
  BY DEF OpToRel
<1>2. IsWellFoundedOn(Less, Nat)
  BY <1>1, NatLessThanWellFounded
<1>3. \A u, v \in Nat : v < u => <<v, u>> \in Less
  OBVIOUS
<1> HIDE DEF Less
<1>4. PICK u \in S : \A v \in S : <<v, u>> \notin Less
  BY <1>2, WFMin
<1>5. \A v \in S : u \in Nat /\ v \in Nat /\ ~(v < u)
  BY <1>3, <1>4
<1> QED BY <1>5

\* Induction over the naturals, for a property given as the set of those that
\* have it.
LEMMA SetOfAllNaturals ==
  ASSUME NEW P \in SUBSET Nat, 0 \in P, \A n \in P : n + 1 \in P
  PROVE  P = Nat
<1> SUFFICES ASSUME Nat \ P # {} PROVE FALSE
  OBVIOUS
<1>1. PICK u \in Nat \ P : \A v \in Nat \ P : u <= v
  BY Smallest
<1>2. u - 1 \in Nat \ P
  BY <1>1
<1> QED BY <1>1, <1>2

\* Induction over sequences that grow at their end.
LEMMA SetOfAllSequences ==
  ASSUME NEW S, NEW Q \in SUBSET Seq(S), <<>> \in Q,
         \A s \in Q, e \in S : Append(s, e) \in Q
  PROVE  Q = Seq(S)
<1> DEFINE P == {n \in Nat : \A s \in Seq(S) : Len(s) = n => s \in Q}
<1>1. 0 \in P
  BY EmptySeq
<1>2. \A n \in P : n + 1 \in P
  <2> SUFFICES ASSUME NEW n \in P, NEW s \in Seq(S), Len(s) = n + 1 PROVE s \in Q
    <3>1. \A n \in P : n + 1 \in Nat
      OBVIOUS
    <3> QED BY <3>1
  <2>1. s # <<>>
    <3>1. n + 1 # 0
      OBVIOUS
    <3> QED BY <3>1, EmptySeq
  <2>2. PICK t \in Seq(S), e \in S : s = Append(t, e)
    BY <2>1, SequenceEmptyOrAppend
  <2>3. Len(t) = n
    BY <2>2, AppendProperties, LenProperties
  <2> QED BY <2>2, <2>3
<1> HIDE DEF P
<1>3. P = Nat
  BY <1>1, <1>2, SetOfAllNaturals DEF P
<1> QED BY <1>3, LenProperties DEF P

\* The recurrence that defines Kept, on the first n elements.
Follows(g, s, U, n) ==
  g = [i \in 0 .. n |->
         IF i = 0 THEN <<>>
         ELSE IF s[i] \in U THEN Append(g[i - 1], s[i]) ELSE g[i - 1]]

LEMMA FollowsStep ==
  ASSUME NEW g, NEW s, NEW U, NEW n \in Nat, Follows(g, s, U, n)
  PROVE  /\ g[0] = <<>>
         /\ \A i \in 0 .. n - 1 :
              g[i + 1] = IF s[i + 1] \in U THEN Append(g[i], s[i + 1]) ELSE g[i]
<1>1. \A i \in 0 .. n :
        g[i] = IF i = 0 THEN <<>>
               ELSE IF s[i] \in U THEN Append(g[i - 1], s[i]) ELSE g[i - 1]
  BY DEF Follows
<1>2. ASSUME NEW i \in 0 .. n - 1
      PROVE  g[i + 1] = IF s[i + 1] \in U THEN Append(g[i], s[i + 1]) ELSE g[i]
  <2>1. i + 1 \in 0 .. n /\ i + 1 # 0 /\ (i + 1) - 1 = i
    OBVIOUS
  <2> QED BY <1>1, <2>1
<1> QED BY <1>1, <1>2

LEMMA RecurrenceHasSolution ==
  ASSUME NEW s, NEW U, NEW n \in Nat
  PROVE  \E g : Follows(g, s, U, n)
<1> DEFINE P == {m \in Nat : \E g : Follows(g, s, U, m)}
<1>1. 0 \in P
  <2> DEFINE g == [i \in 0 .. 0 |-> <<>>]
  <2>1. Follows(g, s, U, 0)
    BY DEF Follows
  <2> QED BY <2>1
<1>2. \A m \in P : m + 1 \in P
  <2> SUFFICES ASSUME NEW m \in P PROVE m + 1 \in P
    OBVIOUS
  <2>1. PICK g : Follows(g, s, U, m)
    OBVIOUS
  <2> DEFINE last == IF s[m + 1] \in U THEN Append(g[m], s[m + 1]) ELSE g[m]
             h    == [i \in 0 .. m + 1 |-> IF i = m + 1 THEN last ELSE g[i]]
  <2>2. \A i \in 0 .. m + 1 :
          h[i] = IF i = 0 THEN <<>>
                 ELSE IF s[i] \in U THEN Append(h[i - 1], s[i]) ELSE h[i - 1]
    <3> TAKE i \in 0 .. m + 1
    <3>1. CASE i = m + 1
      BY <3>1
    <3>2. CASE i # m + 1
      <4>1. i \in 0 .. m /\ h[i] = g[i] /\ (i # 0 => h[i - 1] = g[i - 1])
        BY <3>2
      <4> QED BY <2>1, <4>1 DEF Follows
    <3> QED BY <3>1, <3>2
  <2>3. Follows(h, s, U, m + 1)
    <3> DEFINE f == [i \in 0 .. m + 1 |->
                       IF i = 0 THEN <<>>
                       ELSE IF s[i] \in U THEN Append(h[i - 1], s[i]) ELSE h[i - 1]]
    <3>1. h = [i \in 0 .. m + 1 |-> h[i]]
      OBVIOUS
    <3> HIDE DEF h
    <3>2. h = f
      BY <2>2, <3>1
    <3> QED BY <3>2 DEF Follows
  <2> QED BY <2>3
<1> HIDE DEF P
<1>3. P = Nat
  BY <1>1, <1>2, SetOfAllNaturals DEF P
<1> QED BY <1>3 DEF P

\* The solution depends on the elements it has passed only.
LEMMA RecurrenceDetermines ==
  ASSUME NEW s, NEW t, NEW U, NEW m \in Nat, NEW n \in Nat, NEW g, NEW h,
         Follows(g, s, U, m), Follows(h, t, U, n),
         NEW k \in Nat, k <= m, k <= n, \A i \in 1 .. k : s[i] = t[i]
  PROVE  g[k] = h[k]
<1> DEFINE P == {j \in Nat : j <= k => g[j] = h[j]}
<1>1. 0 \in P
  BY DEF Follows
<1>2. \A j \in P : j + 1 \in P
  <2> SUFFICES ASSUME NEW j \in P, j + 1 <= k PROVE g[j + 1] = h[j + 1]
    OBVIOUS
  <2>1. s[j + 1] = t[j + 1] /\ g[j] = h[j]
    OBVIOUS
  <2>2. g[j + 1] = IF s[j + 1] \in U THEN Append(g[j], s[j + 1]) ELSE g[j]
    BY FollowsStep
  <2>3. h[j + 1] = IF t[j + 1] \in U THEN Append(h[j], t[j + 1]) ELSE h[j]
    BY FollowsStep
  <2> QED BY <2>1, <2>2, <2>3
<1> HIDE DEF P
<1>3. P = Nat
  BY <1>1, <1>2, SetOfAllNaturals DEF P
<1> QED BY <1>3 DEF P

LEMMA KeptByRecurrence ==
  ASSUME NEW s, Len(s) \in Nat, NEW U, NEW n \in Nat, NEW g, Follows(g, s, U, n),
         Len(s) <= n
  PROVE  Kept(s, U) = g[Len(s)]
<1> DEFINE f == CHOOSE f : Follows(f, s, U, Len(s))
<1>1. Follows(f, s, U, Len(s))
  BY RecurrenceHasSolution
<1>2. Kept(s, U) = f[Len(s)]
  BY DEF Kept, Follows
<1> HIDE DEF f
<1> QED BY <1>1, <1>2, RecurrenceDetermines

\* Nothing is kept of nothing.
LEMMA KeptEmpty == ASSUME NEW U PROVE Kept(<<>>, U) = <<>>
<1>1. PICK g : Follows(g, <<>>, U, 0)
  BY RecurrenceHasSolution
<1>2. Len(<<>>) = 0 /\ g[0] = <<>>
  BY <1>1 DEF Follows
<1> QED BY <1>1, <1>2, KeptByRecurrence

\* What comes last is kept or not, whatever was before it.
LEMMA KeptAppend ==
  ASSUME NEW S, NEW s \in Seq(S), NEW e, NEW U
  PROVE  Kept(Append(s, e), U) = IF e \in U THEN Append(Kept(s, U), e) ELSE Kept(s, U)
<1> DEFINE t == Append(s, e)
           n == Len(s)
<1>1. n \in Nat /\ Len(t) = n + 1 /\ t[n + 1] = e /\ \A i \in 1 .. n : t[i] = s[i]
  <2>1. s \in Seq(S \cup {e})
    BY SeqMonotonic
  <2> QED BY <2>1, AppendProperties, LenProperties
<1> HIDE DEF t
<1>2. PICK g : Follows(g, t, U, n + 1)
  <2>1. n + 1 \in Nat
    BY <1>1
  <2> QED BY <2>1, RecurrenceHasSolution
<1>3. PICK h : Follows(h, s, U, n)
  BY <1>1, RecurrenceHasSolution
<1>4. Kept(t, U) = g[n + 1] /\ Kept(s, U) = h[n]
  BY <1>1, <1>2, <1>3, KeptByRecurrence
<1>5. g[n] = h[n]
  BY <1>1, <1>2, <1>3, RecurrenceDetermines
<1>6. g[n + 1] = IF t[n + 1] \in U THEN Append(g[n], t[n + 1]) ELSE g[n]
  BY <1>1, <1>2, FollowsStep
<1> QED BY <1>1, <1>4, <1>5, <1>6 DEF t

\* h places k in s: the elements of s that are in U, in their order.
Places(h, k, s, U) ==
  /\ h \in [1 .. Len(k) -> 1 .. Len(s)]
  /\ \A i, j \in 1 .. Len(k) : i < j => h[i] < h[j]
  /\ \A i \in 1 .. Len(k) : k[i] = s[h[i]] /\ k[i] \in U
  /\ \A p \in 1 .. Len(s) : s[p] \in U => \E i \in 1 .. Len(k) : h[i] = p

LEMMA PlacesAppend ==
  ASSUME NEW S, NEW s \in Seq(S), NEW k \in Seq(S), NEW e \in S, NEW U, NEW h,
         Places(h, k, s, U)
  PROVE  /\ e \notin U => Places(h, k, Append(s, e), U)
         /\ e \in U => \E f : Places(f, Append(k, e), Append(s, e), U)
<1> DEFINE t == Append(s, e)
           l == Append(k, e)
           f == [i \in 1 .. Len(k) + 1 |-> IF i = Len(k) + 1 THEN Len(s) + 1 ELSE h[i]]
<1>1. /\ Len(s) \in Nat /\ Len(t) = Len(s) + 1 /\ t[Len(s) + 1] = e
      /\ \A i \in 1 .. Len(s) : t[i] = s[i]
  BY AppendProperties, LenProperties
<1>2. /\ Len(k) \in Nat /\ Len(l) = Len(k) + 1 /\ l[Len(k) + 1] = e
      /\ \A i \in 1 .. Len(k) : l[i] = k[i]
  BY AppendProperties, LenProperties
<1> HIDE DEF t, l
<1>3. ASSUME e \notin U PROVE Places(h, k, t, U)
  <2>1. h \in [1 .. Len(k) -> 1 .. Len(t)]
    BY <1>1 DEF Places
  <2>2. \A i \in 1 .. Len(k) : t[h[i]] = s[h[i]]
    BY <1>1 DEF Places
  <2>3. \A p \in 1 .. Len(t) : t[p] \in U => p \in 1 .. Len(s) /\ s[p] \in U
    BY <1>1, <1>3
  <2> QED BY <2>1, <2>2, <2>3 DEF Places
<1>4. ASSUME e \in U PROVE Places(f, l, t, U)
  <2>1. \A i \in 1 .. Len(k) : f[i] = h[i] /\ h[i] \in 1 .. Len(s)
    BY <1>2 DEF Places
  <2>2. f[Len(k) + 1] = Len(s) + 1
    BY <1>2
  <2>3. f \in [1 .. Len(l) -> 1 .. Len(t)]
    <3>1. ASSUME NEW i \in 1 .. Len(k) + 1
          PROVE  (IF i = Len(k) + 1 THEN Len(s) + 1 ELSE h[i]) \in 1 .. Len(s) + 1
      <4>1. CASE i = Len(k) + 1
        BY <1>1, <4>1
      <4>2. CASE i # Len(k) + 1
        <5>1. i \in 1 .. Len(k)
          BY <1>2, <4>2
        <5>2. h[i] \in 1 .. Len(s)
          BY <2>1, <5>1
        <5> QED BY <1>1, <4>2, <5>2
      <4> QED BY <4>1, <4>2
    <3> QED BY <1>1, <1>2, <3>1
  <2> HIDE DEF f
  <2>4. \A i, j \in 1 .. Len(l) : i < j => f[i] < f[j]
    <3> SUFFICES ASSUME NEW i \in 1 .. Len(l), NEW j \in 1 .. Len(l), i < j
                 PROVE  f[i] < f[j]
      OBVIOUS
    <3>1. i \in 1 .. Len(k) /\ f[i] = h[i] /\ f[i] \in 1 .. Len(s)
      BY <1>1, <1>2, <2>1
    <3>2. CASE j = Len(k) + 1
      BY <1>1, <2>2, <3>1, <3>2
    <3>3. CASE j # Len(k) + 1
      <4>1. j \in 1 .. Len(k)
        BY <1>2, <3>3
      <4> QED BY <2>1, <3>1, <4>1 DEF Places
    <3> QED BY <3>2, <3>3
  <2>5. \A i \in 1 .. Len(l) : l[i] = t[f[i]] /\ l[i] \in U
    <3> TAKE i \in 1 .. Len(l)
    <3>1. CASE i = Len(k) + 1
      BY <1>1, <1>2, <1>4, <2>2, <3>1
    <3>2. CASE i # Len(k) + 1
      <4>1. i \in 1 .. Len(k)
        BY <1>2, <3>2
      <4>2. l[i] = k[i] /\ k[i] = s[h[i]] /\ k[i] \in U /\ t[h[i]] = s[h[i]]
        BY <1>1, <1>2, <2>1, <4>1 DEF Places
      <4> QED BY <2>1, <4>1, <4>2
    <3> QED BY <3>1, <3>2
  <2>6. \A p \in 1 .. Len(t) : t[p] \in U => \E i \in 1 .. Len(l) : f[i] = p
    <3> SUFFICES ASSUME NEW p \in 1 .. Len(t), t[p] \in U
                 PROVE  \E i \in 1 .. Len(l) : f[i] = p
      OBVIOUS
    <3>1. CASE p = Len(s) + 1
      BY <1>2, <2>2, <3>1
    <3>2. CASE p # Len(s) + 1
      <4>1. p \in 1 .. Len(s) /\ s[p] \in U
        BY <1>1, <3>2
      <4>2. PICK i \in 1 .. Len(k) : h[i] = p
        BY <4>1 DEF Places
      <4>3. i \in 1 .. Len(l) /\ f[i] = p
        BY <1>2, <2>1, <4>2
      <4> QED BY <4>3
    <3> QED BY <3>1, <3>2
  <2> QED BY <2>3, <2>4, <2>5, <2>6 DEF Places
<1> QED BY <1>3, <1>4 DEF t, l

\* Kept returns a sublist: the elements that are in the set, in their order.
THEOREM KeptIsSublist ==
  ASSUME NEW S, NEW s \in Seq(S), NEW U
  PROVE  Kept(s, U) \in Seq(S) /\ \E h : Places(h, Kept(s, U), s, U)
<1> DEFINE Q == {t \in Seq(S) : Kept(t, U) \in Seq(S) /\ \E h : Places(h, Kept(t, U), t, U)}
<1>1. <<>> \in Q
  <2> DEFINE h == [i \in 1 .. 0 |-> 0]
  <2>1. Kept(<<>>, U) = <<>> /\ <<>> \in Seq(S) /\ Len(<<>>) = 0
    BY KeptEmpty, EmptySeq
  <2>2. Places(h, <<>>, <<>>, U)
    BY <2>1 DEF Places
  <2> QED BY <2>1, <2>2
<1>2. \A t \in Q, e \in S : Append(t, e) \in Q
  <2> SUFFICES ASSUME NEW t \in Q, NEW e \in S PROVE Append(t, e) \in Q
    OBVIOUS
  <2>1. PICK h : Places(h, Kept(t, U), t, U)
    OBVIOUS
  <2>2. /\ t \in Seq(S) /\ Kept(t, U) \in Seq(S)
        /\ Append(t, e) \in Seq(S) /\ Append(Kept(t, U), e) \in Seq(S)
    BY AppendProperties
  <2>3. Kept(Append(t, e), U) = IF e \in U THEN Append(Kept(t, U), e) ELSE Kept(t, U)
    BY <2>2, KeptAppend
  <2>4. \E f : Places(f, Kept(Append(t, e), U), Append(t, e), U)
    BY <2>1, <2>2, <2>3, PlacesAppend
  <2> QED BY <2>2, <2>3, <2>4
<1> HIDE DEF Q
<1>3. Q = Seq(S)
  BY <1>1, <1>2, SetOfAllSequences DEF Q
<1> QED BY <1>3 DEF Q

LEMMA ConcatAppend ==
  ASSUME NEW S, NEW s \in Seq(S), NEW t \in Seq(S), NEW e \in S
  PROVE  s \o Append(t, e) = Append(s \o t, e)
<1>1. <<e>> \in Seq(S) /\ s \o t \in Seq(S)
  BY ConcatProperties
<1>2. s \o (t \o <<e>>) = (s \o t) \o <<e>>
  BY <1>1, ConcatAssociative
<1> QED BY <1>1, <1>2, AppendIsConcat

\* Of two sequences in a row the second is kept behind the first.
LEMMA KeptConcat ==
  ASSUME NEW S, NEW s \in Seq(S), NEW t \in Seq(S), NEW U
  PROVE  Kept(s \o t, U) = Kept(s, U) \o Kept(t, U)
<1> DEFINE Q == {r \in Seq(S) : Kept(s \o r, U) = Kept(s, U) \o Kept(r, U)}
<1>1. \A r \in Seq(S) : Kept(r, U) \in Seq(S)
  BY KeptIsSublist
<1>2. <<>> \in Q
  BY <1>1, KeptEmpty, ConcatEmptySeq, EmptySeq
<1>3. \A r \in Q, e \in S : Append(r, e) \in Q
  <2> SUFFICES ASSUME NEW r \in Q, NEW e \in S PROVE Append(r, e) \in Q
    OBVIOUS
  <2>1. /\ r \in Seq(S) /\ Append(r, e) \in Seq(S) /\ s \o r \in Seq(S)
        /\ <<e>> \in Seq(S) /\ Kept(s, U) \in Seq(S) /\ Kept(r, U) \in Seq(S)
    BY <1>1, AppendProperties, ConcatProperties
  <2>2. s \o Append(r, e) = Append(s \o r, e)
    BY <2>1, ConcatAppend
  <2>3. Kept(s, U) \o Append(Kept(r, U), e) = Append(Kept(s, U) \o Kept(r, U), e)
    BY <2>1, ConcatAppend
  <2>4. Kept(Append(s \o r, e), U)
          = IF e \in U THEN Append(Kept(s \o r, U), e) ELSE Kept(s \o r, U)
    <3> DEFINE u == s \o r
    <3>1. u \in Seq(S)
      BY <2>1
    <3> HIDE DEF u
    <3>2. Kept(Append(u, e), U) = IF e \in U THEN Append(Kept(u, U), e) ELSE Kept(u, U)
      BY <3>1, KeptAppend
    <3> QED BY <3>2 DEF u
  <2>5. Kept(Append(r, e), U) = IF e \in U THEN Append(Kept(r, U), e) ELSE Kept(r, U)
    BY <2>1, KeptAppend
  <2> QED BY <2>1, <2>2, <2>3, <2>4, <2>5
<1> HIDE DEF Q
<1>4. Q = Seq(S)
  BY <1>2, <1>3, SetOfAllSequences DEF Q
<1> QED BY <1>4 DEF Q

\* Where nothing is in the set nothing is kept.
LEMMA KeptNone ==
  ASSUME NEW S, NEW s \in Seq(S), NEW U, \A i \in 1 .. Len(s) : s[i] \notin U
  PROVE  Kept(s, U) = <<>>
<1>1. PICK h : Places(h, Kept(s, U), s, U)
  BY KeptIsSublist
<1>2. Kept(s, U) \in Seq(S)
  BY KeptIsSublist
<1>3. 1 \notin 1 .. Len(Kept(s, U))
  BY <1>1 DEF Places
<1>4. Len(Kept(s, U)) \in Nat /\ (Kept(s, U) # <<>> => Len(Kept(s, U)) \in Nat \ {0})
  BY <1>2, EmptySeq, LenProperties
<1> QED BY <1>3, <1>4

\* What is kept of a queue is what is kept of its head and of the rest.
LEMMA KeptHead ==
  ASSUME NEW S, NEW s \in Seq(S), s # <<>>, NEW U
  PROVE  Len(Kept(s, U)) = Len(Kept(Tail(s), U)) + (IF Head(s) \in U THEN 1 ELSE 0)
<1> DEFINE h == <<Head(s)>>
<1>1. /\ Head(s) \in S /\ Tail(s) \in Seq(S) /\ Len(Tail(s)) = Len(s) - 1 /\ Len(s) \in Nat
      /\ Head(s) = s[1] /\ \A i \in 1 .. Len(Tail(s)) : Tail(s)[i] = s[i + 1]
  BY HeadTailProperties, LenProperties
<1>2. h \in Seq(S) /\ Len(h) = 1 /\ h[1] = Head(s)
  BY <1>1
<1>3. s = h \o Tail(s)
  <2>1. /\ h \o Tail(s) \in Seq(S) /\ Len(h \o Tail(s)) = Len(s)
        /\ \A i \in 1 .. Len(s) : (h \o Tail(s))[i] = IF i <= 1 THEN h[i] ELSE Tail(s)[i - 1]
    BY <1>1, <1>2, ConcatProperties
  <2>2. \A i \in 1 .. Len(s) : (h \o Tail(s))[i] = s[i]
    BY <1>1, <1>2, <2>1
  <2> QED BY <2>1, <2>2, SeqEqual
<1>4. Len(Kept(h, U)) = IF Head(s) \in U THEN 1 ELSE 0
  <2> DEFINE none == <<>>
  <2>1. h = Append(none, Head(s)) /\ none \in Seq(S) /\ Kept(none, U) = none
    BY <1>1, KeptEmpty
  <2>2. Len(none) = 0
    OBVIOUS
  <2> HIDE DEF none, h
  <2>3. Kept(Append(none, Head(s)), U)
          = IF Head(s) \in U THEN Append(Kept(none, U), Head(s)) ELSE Kept(none, U)
    BY SMTT(20), <2>1, KeptAppend
  <2> QED BY <1>2, <2>1, <2>2, <2>3
<1>5. Kept(h, U) \in Seq(S) /\ Kept(Tail(s), U) \in Seq(S)
  BY <1>1, <1>2, KeptIsSublist
<1>6. Kept(s, U) = Kept(h, U) \o Kept(Tail(s), U)
  <2> DEFINE t == Tail(s)
  <2>1. t \in Seq(S) /\ s = h \o t
    BY <1>1, <1>3
  <2> HIDE DEF h, t
  <2>2. Kept(h \o t, U) = Kept(h, U) \o Kept(t, U)
    BY <1>2, <2>1, KeptConcat
  <2> QED BY <2>1, <2>2 DEF t
<1>7. Len(Kept(h, U)) \in Nat /\ Len(Kept(Tail(s), U)) \in Nat
  BY <1>5, LenProperties
<1> QED BY <1>4, <1>5, <1>6, <1>7, ConcatProperties

\* What is cut off at the end without being in the set is not missed.
LEMMA KeptCut ==
  ASSUME NEW S, NEW s \in Seq(S), NEW U, NEW m \in 0 .. Len(s),
         \A i \in m + 1 .. Len(s) : s[i] \notin U
  PROVE  Kept(SubSeq(s, 1, m), U) = Kept(s, U)
<1> DEFINE r == SubSeq(s, 1, m)
           t == SubSeq(s, m + 1, Len(s))
<1>1. Len(s) \in Nat /\ \A i \in 1 .. Len(s) : s[i] \in S
  BY LenProperties, ElementOfSeq
<1>2. r \in Seq(S)
  <2>1. 1 \in Int /\ m \in Int /\ \A i \in 1 .. m : s[i] \in S
    BY <1>1
  <2> QED BY <2>1, SubSeqProperties
<1>3. t \in Seq(S) /\ \A i \in 1 .. Len(t) : t[i] \notin U
  <2>1. m + 1 \in Int /\ Len(s) \in Int /\ \A i \in m + 1 .. Len(s) : s[i] \in S
    BY <1>1
  <2>2. /\ t \in Seq(S) /\ Len(t) = IF m + 1 <= Len(s) THEN Len(s) - (m + 1) + 1 ELSE 0
        /\ \A i \in 1 .. Len(s) - (m + 1) + 1 : t[i] = s[(m + 1) + i - 1]
    BY <2>1, SubSeqProperties
  <2> QED BY <1>1, <2>2
<1>4. s = r \o t
  <2>1. /\ 1 \in 1 .. Len(s) + 1 /\ m \in 1 - 1 .. Len(s) /\ Len(s) \in m .. Len(s)
    BY <1>1
  <2>2. SubSeq(s, 1, m) \o SubSeq(s, m + 1, Len(s)) = SubSeq(s, 1, Len(s))
    BY <2>1, ConcatAdjacentSubSeq
  <2> QED BY <2>2, SubSeqFull
<1> HIDE DEF r, t
<1>5. Kept(r \o t, U) = Kept(r, U) \o Kept(t, U)
  BY <1>2, <1>3, KeptConcat
<1>6. Kept(t, U) = <<>> /\ Kept(r, U) \in Seq(S)
  BY <1>2, <1>3, KeptNone, KeptIsSublist
<1>7. Kept(r, U) \o <<>> = Kept(r, U)
  BY <1>6, ConcatEmptySeq
<1> QED BY <1>4, <1>5, <1>6, <1>7 DEF r
=============================================================================
