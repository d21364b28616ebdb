---------------------------- MODULE LayoutProofs ----------------------------
(***************************************************************************)
(* Every résumé is printed whole, whatever its texts: what wrapText,       *)
(* pushWrappedText, pushBulletParagraph, buildLayout and paginate make of  *)
(* a document, for documents of any length.                                *)
(*                                                                         *)
(* The layout is computed by recursion over the words, the texts and the   *)
(* items.  Induction is done over sets: a subset of 0..n that holds 0 and  *)
(* the next number of each holds them all, as the well-foundedness of <    *)
(* says.  From it follow what holds of a function defined by recursion     *)
(* (Iterates) and of the sequences built by Append (SequenceInduction).    *)
(***************************************************************************)
EXTENDS ResumeLayout, WellFoundedInduction, FiniteSetTheorems, SequenceTheorems, TLAPS

----------------------------------------------------------------------------
(* Induction, and the functions defined by recursion over an interval.     *)

Lt == {ss \in Nat \X Nat : ss[1] < ss[2]}

LEMMA LeastNat ==
  ASSUME NEW S \in SUBSET Nat, S # {}
  PROVE  \E m \in S : \A k \in S : m <= k
<1>1. IsWellFoundedOn(Lt, Nat)
  BY NatLessThanWellFounded DEF OpToRel, Lt
<1>2. PICK x \in S : \A y \in S : ~ (<<y, x>> \in Lt)
  BY <1>1, WFMin
<1>3. ASSUME NEW y \in S PROVE x <= y
  <2>. DEFINE ss == <<y, x>>
  <2>1. ss \in Nat \X Nat /\ ss[1] = y /\ ss[2] = x
    OBVIOUS
  <2>2. ss \notin Lt
    BY <1>2
  <2>. HIDE DEF ss
  <2>3. ~ (ss[1] < ss[2])
    BY <2>1, <2>2 DEF Lt
  <2>4. y \in Nat /\ x \in Nat
    OBVIOUS
  <2>. QED
    BY <2>1, <2>3, <2>4
<1>. QED
  BY <1>3

\* What holds of 0, and of a number below n when it holds of the one before, holds
\* up to n.
LEMMA Induction ==
  ASSUME NEW n \in Nat, NEW S \in SUBSET (0..n), 0 \in S,
         \A k \in 1..n : k - 1 \in S => k \in S
  PROVE  S = 0..n
<1>. SUFFICES ASSUME (0..n) \ S # {} PROVE FALSE
  OBVIOUS
<1>1. PICK m \in (0..n) \ S : \A k \in (0..n) \ S : m <= k
  <2>. DEFINE T == (0..n) \ S
  <2>1. T \in SUBSET Nat /\ T # {}
    OBVIOUS
  <2>. HIDE DEF T
  <2>2. \E m \in T : \A k \in T : m <= k
    BY <2>1, LeastNat
  <2>. QED
    BY <2>2 DEF T
<1>2. m # 0 /\ m \in 1..n /\ m - 1 \in 0..n /\ m - 1 \notin (0..n) \ S
  BY <1>1
<1>. QED
  BY <1>1, <1>2

\* Some function gives each number what a step makes of the value before.
Iterated(n, V, base, step) ==
  \E f \in [0..n -> V] : f[0] = base /\ \A i \in 1..n : f[i] = step[i][f[i - 1]]

LEMMA Iterates ==
  ASSUME NEW n \in Nat, NEW V, NEW base \in V, NEW step \in [1..n -> [V -> V]]
  PROVE  Iterated(n, V, base, step)
<1>. DEFINE Upto(k, f) == f[0] = base /\ \A i \in 1..k : f[i] = step[i][f[i - 1]]
            S == {k \in 0..n : \E f \in [0..k -> V] : Upto(k, f)}
<1>1. 0 \in S
  <2>. DEFINE f == [i \in 0..0 |-> base]
  <2>1. f \in [0..0 -> V] /\ Upto(0, f)
    OBVIOUS
  <2>. HIDE DEF f, Upto
  <2>. QED
    BY <2>1
<1>2. ASSUME NEW k \in 1..n, k - 1 \in S
      PROVE  k \in S
  <2>1. PICK f \in [0..(k - 1) -> V] : Upto(k - 1, f)
    BY <1>2
  <2>2. k \in Nat /\ k - 1 \in 0..(k - 1) /\ f[k - 1] \in V /\ k \in 1..n /\ step[k] \in [V -> V]
    OBVIOUS
  <2>. DEFINE g == [i \in 0..k |-> IF i = k THEN step[k][f[k - 1]] ELSE f[i]]
  <2>3. g \in [0..k -> V]
    BY <2>2
  <2>4. g[0] = base
    BY <2>1
  <2>5. ASSUME NEW i \in 1..k PROVE g[i] = step[i][g[i - 1]]
    <3>1. CASE i = k
      BY <3>1, <2>2
    <3>2. CASE i # k
      <4>1. i \in 1..(k - 1) /\ i - 1 \in 0..(k - 1) /\ i - 1 # k
        BY <3>2
      <4>. QED
        BY <4>1, <2>1, <3>2
    <3>. QED
      BY <3>1, <3>2
  <2>. HIDE DEF g
  <2>6. Upto(k, g)
    BY <2>4, <2>5
  <2>. HIDE DEF Upto
  <2>. QED
    BY <2>3, <2>6
<1>. HIDE DEF S
<1>3. S \in SUBSET (0..n)
  BY DEF S
<1>4. n \in S
  BY <1>1, <1>2, <1>3, Induction
<1>. QED
  BY <1>4 DEF S, Iterated

----------------------------------------------------------------------------
(* Sequences, built from their ends.                                       *)

LEMMA Appended ==
  ASSUME NEW T, NEW s \in Seq(T), NEW x \in T
  PROVE  /\ Append(s, x) \in Seq(T)
         /\ Len(Append(s, x)) = Len(s) + 1
         /\ \A i \in 1..Len(s) : Append(s, x)[i] = s[i]
         /\ Append(s, x)[Len(s) + 1] = x
         /\ Append(s, x) = s \o <<x>>
  OBVIOUS

LEMMA Shortened ==
  ASSUME NEW T, NEW s \in Seq(T), Len(s) # 0
  PROVE  \E t \in Seq(T) : s = Append(t, s[Len(s)]) /\ Len(t) = Len(s) - 1
<1>. DEFINE t == [i \in 1..(Len(s) - 1) |-> s[i]]
<1>1. /\ Len(s) \in Nat /\ Len(s) - 1 \in Nat /\ s[Len(s)] \in T
      /\ \A i \in 1..(Len(s) - 1) : i \in 1..Len(s) /\ s[i] \in T
  BY LenProperties, ElementOfSeq
<1>2. t \in Seq(T) /\ Len(t) = Len(s) - 1 /\ \A i \in 1..Len(t) : t[i] = s[i]
  BY <1>1
<1>. HIDE DEF t
<1>3. /\ Append(t, s[Len(s)]) \in Seq(T) /\ Len(Append(t, s[Len(s)])) = Len(s)
      /\ \A i \in 1..Len(s) : s[i] = Append(t, s[Len(s)])[i]
  BY <1>1, <1>2, Appended
<1>4. s = Append(t, s[Len(s)])
  BY <1>3, SeqEqual
<1>. QED
  BY <1>2, <1>4

\* What holds of the empty sequence, and of a longer one when it does of the
\* shorter, holds of every sequence.
LEMMA SequenceInduction ==
  ASSUME NEW T, NEW P \in SUBSET Seq(T), <<>> \in P,
         \A s \in P, x \in T : Append(s, x) \in P
  PROVE  P = Seq(T)
<1>. SUFFICES ASSUME NEW s \in Seq(T)
              PROVE  s \in P
  OBVIOUS
<1>1. PICK n \in Nat : n = Len(s)
  OBVIOUS
<1>. DEFINE S == {k \in 0..n : \A t \in Seq(T) : Len(t) = k => t \in P}
<1>2. 0 \in S
  <2>1. \A t \in Seq(T) : Len(t) = 0 => t = <<>>
    BY EmptySeq
  <2>. QED
    BY <1>1, <2>1
<1>3. ASSUME NEW k \in 1..n, k - 1 \in S
      PROVE  k \in S
  <2>1. ASSUME NEW t \in Seq(T), Len(t) = k
        PROVE  t \in P
    <3>0. Len(t) # 0
      BY <2>1
    <3>1. PICK u \in Seq(T) : t = Append(u, t[Len(t)]) /\ Len(u) = Len(t) - 1
      BY <3>0, Shortened
    <3>2. u \in P /\ t[Len(t)] \in T
      BY <1>3, <2>1, <3>1
    <3>. QED
      BY <3>1, <3>2
  <2>. QED
    BY <2>1
<1>4. S \in SUBSET (0..n)
  OBVIOUS
<1>. HIDE DEF S
<1>5. S = 0..n
  BY <1>2, <1>3, <1>4, Induction
<1>6. n \in S
  BY <1>5
<1>. QED
  BY <1>1, <1>6 DEF S

\* The sequences FlattenSeq makes of the first of a sequence's sequences.
Flattens(ss, T, g) ==
  /\ g \in [0..Len(ss) -> Seq(T)]
  /\ g[0] = <<>>
  /\ \A i \in 1..Len(ss) : g[i] = g[i - 1] \o ss[i]
  /\ FlattenSeq(ss) = g[Len(ss)]

LEMMA Flattened ==
  ASSUME NEW T, NEW ss \in Seq(Seq(T))
  PROVE  \E g : Flattens(ss, T, g)
<1>0. PICK n \in Nat : n = Len(ss)
  OBVIOUS
<1>. DEFINE step == [i \in 1..n |-> [s \in Seq(T) |-> s \o ss[i]]]
<1>1. n \in Nat /\ \A i \in 1..n : ss[i] \in Seq(T)
  BY <1>0
<1>2. step \in [1..n -> [Seq(T) -> Seq(T)]]
  BY <1>1
<1>3. \A i \in 1..n, s \in Seq(T) : step[i][s] = s \o ss[i]
  OBVIOUS
<1>. HIDE DEF step
<1>4. Iterated(n, Seq(T), <<>>, step)
  BY <1>1, <1>2, Iterates, EmptySeq
<1>5. PICK g \in [0..n -> Seq(T)] :
        g[0] = <<>> /\ \A i \in 1..n : g[i] = step[i][g[i - 1]]
  BY <1>4 DEF Iterated
<1>6. ASSUME NEW i \in 1..n PROVE g[i] = g[i - 1] \o ss[i]
  <2>1. i - 1 \in 0..n
    OBVIOUS
  <2>. QED
    BY <1>3, <1>5, <2>1
<1>7. FlattenSeq(ss) = g[n]
  <2>1. CASE n = 0
    <3>1. ss = <<>>
      BY <1>0, <2>1, EmptySeq
    <3>. QED
      BY <1>0, <1>5, <2>1, <3>1 DEF FlattenSeq
  <2>2. CASE n # 0
    <3>. DEFINE Body(h) == [i \in 1..n |-> IF i = 1 THEN ss[i] ELSE h[i - 1] \o ss[i]]
                flatten == CHOOSE h : h = Body(h)
                f == [i \in 1..n |-> g[i]]
    <3>1. FlattenSeq(ss) = flatten[n]
      BY <1>0, <2>2 DEF FlattenSeq
    <3>2. g[1] = ss[1]
      <4>1. 1 \in 1..n /\ 1 - 1 = 0
        BY <2>2
      <4>2. g[1] = <<>> \o ss[1]
        BY <1>5, <1>6, <4>1
      <4>. QED
        BY <1>1, <4>1, <4>2, ConcatEmptySeq
    <3>3. f = Body(f)
      <4>1. ASSUME NEW i \in 1..n PROVE f[i] = IF i = 1 THEN ss[i] ELSE f[i - 1] \o ss[i]
        <5>1. CASE i = 1
          BY <3>2, <5>1
        <5>2. CASE i # 1
          <6>1. i - 1 \in 1..n /\ f[i - 1] = g[i - 1] /\ f[i] = g[i]
            BY <5>2
          <6>. QED
            BY <1>6, <5>2, <6>1
        <5>. QED
          BY <5>1, <5>2
      <4>. HIDE DEF f
      <4>2. f = [i \in 1..n |-> f[i]]
        BY DEF f
      <4>. QED
        BY <4>1, <4>2
    <3>4. flatten = Body(flatten)
      <4>. HIDE DEF f, Body
      <4>. QED
        BY <3>3
    <3>. HIDE DEF flatten
    <3>5. \A i \in 1..n : flatten[i] = IF i = 1 THEN ss[i] ELSE flatten[i - 1] \o ss[i]
      BY <3>4
    <3>. DEFINE S == {0} \cup {i \in 1..n : flatten[i] = g[i]}
    <3>6. ASSUME NEW k \in 1..n, k - 1 \in S
          PROVE  k \in S
      <4>1. CASE k = 1
        BY <3>2, <3>5, <4>1
      <4>2. CASE k # 1
        <5>1. flatten[k - 1] = g[k - 1]
          BY <3>6, <4>2
        <5>2. flatten[k] = flatten[k - 1] \o ss[k] /\ g[k] = g[k - 1] \o ss[k]
          BY <1>6, <3>5, <4>2
        <5>. QED
          BY <5>1, <5>2
      <4>. QED
        BY <4>1, <4>2
    <3>7. 0 \in S /\ S \in SUBSET (0..n)
      BY <1>1
    <3>. HIDE DEF S
    <3>8. S = 0..n
      BY <3>6, <3>7, Induction
    <3>9. n \in S
      BY <3>8
    <3>. QED
      BY <2>2, <3>1, <3>9 DEF S
  <2>. QED
    BY <2>1, <2>2
<1>. QED
  BY <1>0, <1>5, <1>6, <1>7 DEF Flattens

LEMMA FlattenAppend ==
  ASSUME NEW T, NEW ss \in Seq(Seq(T)), NEW s \in Seq(T)
  PROVE  /\ FlattenSeq(ss) \in Seq(T)
         /\ FlattenSeq(Append(ss, s)) = FlattenSeq(ss) \o s
<1>0. PICK n \in Nat : n = Len(ss)
  OBVIOUS
<1>. DEFINE tt == Append(ss, s)
<1>1. PICK g : Flattens(ss, T, g)
  BY Flattened
<1>2. /\ tt \in Seq(Seq(T)) /\ Len(tt) = n + 1 /\ tt[n + 1] = s
      /\ \A i \in 1..n : tt[i] = ss[i]
  BY <1>0
<1>. HIDE DEF tt
<1>3. PICK h : Flattens(tt, T, h)
  BY <1>2, Flattened
<1>. DEFINE S == {i \in 0..n : h[i] = g[i]}
<1>4. 0 \in S
  BY <1>0, <1>1, <1>3 DEF Flattens
<1>5. ASSUME NEW k \in 1..n, k - 1 \in S
      PROVE  k \in S
  <2>1. k \in 1..(n + 1)
    OBVIOUS
  <2>2. h[k] = h[k - 1] \o tt[k] /\ g[k] = g[k - 1] \o ss[k]
    BY <1>0, <1>1, <1>2, <1>3, <2>1 DEF Flattens
  <2>3. tt[k] = ss[k] /\ h[k - 1] = g[k - 1]
    BY <1>2, <1>5
  <2>4. h[k] = g[k]
    BY <2>2, <2>3, Zenon
  <2>. QED
    BY <2>4
<1>6. S \in SUBSET (0..n)
  OBVIOUS
<1>. HIDE DEF S
<1>7. S = 0..n
  BY <1>4, <1>5, <1>6, Induction
<1>8. h[n + 1] = h[n] \o s
  <2>1. n + 1 \in 1..(n + 1) /\ (n + 1) - 1 = n
    BY <1>2
  <2>. QED
    BY <1>2, <1>3, <2>1 DEF Flattens
<1>9. n \in S
  BY <1>7
<1>10. FlattenSeq(ss) = g[n] /\ g[n] \in Seq(T) /\ FlattenSeq(tt) = h[n + 1]
  <2>1. FlattenSeq(ss) = g[n]
    BY <1>0, <1>1, Zenon DEF Flattens
  <2>2. FlattenSeq(tt) = h[n + 1]
    BY <1>2, <1>3, Zenon DEF Flattens
  <2>3. g[n] \in Seq(T)
    <3>1. g \in [0..n -> Seq(T)]
      BY <1>0, <1>1, Zenon DEF Flattens
    <3>. QED
      BY <3>1
  <2>. QED
    BY <2>1, <2>2, <2>3
<1>11. h[n] = g[n]
  BY <1>9 DEF S
<1>. QED
  BY <1>8, <1>10, <1>11 DEF tt

LEMMA FlattenType ==
  ASSUME NEW T, NEW ss \in Seq(Seq(T))
  PROVE  FlattenSeq(ss) \in Seq(T)
  BY FlattenAppend, EmptySeq

LEMMA FlattenEmpty == FlattenSeq(<<>>) = <<>>
  BY DEF FlattenSeq

\* A sequence put together begins as its first part does, and is as empty as its
\* parts are.
LEMMA ConcatEnds ==
  ASSUME NEW T, NEW s \in Seq(T), NEW t \in Seq(T)
  PROVE  /\ s \o t \in Seq(T)
         /\ s # <<>> => s \o t # <<>> /\ (s \o t)[1] = s[1]
         /\ s = <<>> => s \o t = t
         /\ t # <<>> => s \o t # <<>> /\ (s \o t)[Len(s \o t)] = t[Len(t)]
<1>1. \A u \in Seq(T) : u # <<>> => Len(u) \in Nat \ {0}
  BY EmptySeq
<1>2. /\ s \o t \in Seq(T) /\ Len(s \o t) = Len(s) + Len(t)
      /\ \A i \in 1..(Len(s) + Len(t)) :
           (s \o t)[i] = IF i <= Len(s) THEN s[i] ELSE t[i - Len(s)]
      /\ Len(s) \in Nat /\ Len(t) \in Nat
  BY ConcatProperties, LenProperties
<1>3. s = <<>> => s \o t = t
  BY ConcatEmptySeq
<1>4. s \o t = <<>> => Len(s \o t) = 0
  BY EmptySeq
<1>5. ASSUME s # <<>> PROVE s \o t # <<>> /\ (s \o t)[1] = s[1]
  BY <1>1, <1>2, <1>4, <1>5
<1>6. ASSUME t # <<>> PROVE s \o t # <<>> /\ (s \o t)[Len(s \o t)] = t[Len(t)]
  BY <1>1, <1>2, <1>4, <1>6
<1>. QED
  BY <1>2, <1>3, <1>5, <1>6

\* Where its members come from.
LEMMA ConcatPlaces ==
  ASSUME NEW T, NEW s \in Seq(T), NEW t \in Seq(T), NEW i \in DOMAIN (s \o t)
  PROVE  \/ i \in 1..Len(s) /\ (s \o t)[i] = s[i]
         \/ /\ i \in Nat /\ i > Len(s) /\ i - Len(s) \in 1..Len(t)
            /\ (s \o t)[i] = t[i - Len(s)]
<1>1. PICK m \in Nat, n \in Nat : m = Len(s) /\ n = Len(t)
  OBVIOUS
<1>2. /\ DOMAIN (s \o t) = 1..(m + n)
      /\ \A j \in 1..(m + n) : (s \o t)[j] = IF j <= m THEN s[j] ELSE t[j - m]
  BY <1>1, ConcatProperties, LenProperties
<1>. QED
  BY <1>1, <1>2

Joined(s, t, m, n, st) ==
  /\ DOMAIN st = 1..(m + n)
  /\ \A i \in 1..(m + n) : st[i] = IF i <= m THEN s[i] ELSE t[i - m]

LEMMA ConcatAt ==
  ASSUME NEW T, NEW s \in Seq(T), NEW t \in Seq(T)
  PROVE  Joined(s, t, Len(s), Len(t), s \o t)
  BY ConcatProperties, LenProperties DEF Joined

Associates(s, t, x) == Append(s \o t, x) = s \o Append(t, x)

LEMMA AppendBehind ==
  ASSUME NEW T, NEW s \in Seq(T), NEW t \in Seq(T), NEW x \in T
  PROVE  Associates(s, t, x)
<1>1. PICK m \in Nat, n \in Nat : m = Len(s) /\ n = Len(t)
  OBVIOUS
<1>. DEFINE u == Append(s \o t, x)
            tx == Append(t, x)
            v == s \o tx
<1>2. s \o t \in Seq(T) /\ Joined(s, t, m, n, s \o t) /\ Len(s \o t) = m + n
  BY <1>1, ConcatAt, ConcatProperties
<1>3. /\ u \in Seq(T) /\ Len(u) = m + n + 1
      /\ \A i \in 1..(m + n) : u[i] = (s \o t)[i]
      /\ u[m + n + 1] = x
  BY <1>2, Appended
<1>4. /\ tx \in Seq(T) /\ Len(tx) = n + 1
      /\ \A i \in 1..n : tx[i] = t[i]
      /\ tx[n + 1] = x
  BY <1>1, Appended
<1>. HIDE DEF u, tx
<1>5. v \in Seq(T) /\ Len(v) = m + (n + 1) /\ Joined(s, tx, m, n + 1, v)
  <2>1. v \in Seq(T) /\ Len(v) = Len(s) + Len(tx)
    BY <1>4, ConcatProperties
  <2>2. Joined(s, tx, Len(s), Len(tx), v)
    BY <1>4, ConcatAt
  <2>. HIDE DEF v
  <2>. QED
    BY <1>1, <1>4, <2>1, <2>2
<1>. HIDE DEF v
<1>6. ASSUME NEW i \in 1..(m + n + 1) PROVE u[i] = v[i]
  <2>0. i \in 1..(m + (n + 1)) /\ v[i] = IF i <= m THEN s[i] ELSE tx[i - m]
    BY <1>5 DEF Joined
  <2>1. CASE i = m + n + 1
    <3>1. i - m = n + 1 /\ ~(i <= m)
      BY <2>1
    <3>. QED
      BY <1>3, <1>4, <2>0, <2>1, <3>1
  <2>2. CASE i # m + n + 1
    <3>0. i \in 1..(m + n)
      BY <2>2
    <3>1. i \in 1..(m + n) /\ u[i] = IF i <= m THEN s[i] ELSE t[i - m]
      BY <1>2, <1>3, <3>0 DEF Joined
    <3>2. ~(i <= m) => i - m \in 1..n
      BY <3>1
    <3>. QED
      BY <1>4, <2>0, <3>1, <3>2
  <2>. QED
    BY <2>1, <2>2
<1>7. u = v
  <2>1. Len(u) = Len(v) /\ \A i \in 1..Len(u) : u[i] = v[i]
    BY <1>3, <1>5, <1>6
  <2>. QED
    BY <1>3, <1>5, <2>1, SeqEqual
<1>. QED
  BY <1>7 DEF u, v, tx, Associates

LEMMA FlattenNonempty ==
  ASSUME NEW T, NEW ss \in Seq(Seq(T)), NEW i \in 1..Len(ss), ss[i] # <<>>
  PROVE  FlattenSeq(ss) # <<>>
<1>. DEFINE P == {tt \in Seq(Seq(T)) :
                    (\E j \in 1..Len(tt) : tt[j] # <<>>) => FlattenSeq(tt) # <<>>}
<1>1. <<>> \in P
  BY EmptySeq
<1>2. ASSUME NEW tt \in P, NEW s \in Seq(T)
      PROVE  Append(tt, s) \in P
  <2>1. tt \in Seq(Seq(T))
    OBVIOUS
  <2>2. /\ Append(tt, s) \in Seq(Seq(T)) /\ Len(Append(tt, s)) = Len(tt) + 1
        /\ \A j \in 1..Len(tt) : Append(tt, s)[j] = tt[j]
        /\ Append(tt, s)[Len(tt) + 1] = s
        /\ Len(tt) \in Nat
    BY <2>1
  <2>3. ASSUME NEW j \in 1..Len(Append(tt, s)), Append(tt, s)[j] # <<>>
        PROVE  FlattenSeq(Append(tt, s)) # <<>>
    <3>1. FlattenSeq(tt) \in Seq(T) /\ FlattenSeq(Append(tt, s)) = FlattenSeq(tt) \o s
      BY <2>1, FlattenAppend
    <3>2. CASE j = Len(tt) + 1
      BY <2>2, <2>3, <3>1, <3>2, ConcatEnds
    <3>3. CASE j # Len(tt) + 1
      <4>1. j \in 1..Len(tt) /\ tt[j] # <<>>
        BY <2>2, <2>3, <3>3
      <4>2. FlattenSeq(tt) # <<>>
        BY <4>1
      <4>. QED
        BY <3>1, <4>2, ConcatEnds
    <3>. QED
      BY <3>2, <3>3
  <2>. QED
    BY <2>2, <2>3
<1>3. P \in SUBSET Seq(Seq(T))
  OBVIOUS
<1>. HIDE DEF P
<1>4. P = Seq(Seq(T))
  BY <1>1, <1>2, <1>3, SequenceInduction
<1>5. ss \in P
  BY <1>4
<1>. QED
  BY <1>5 DEF P

LEMMA FlattenHead ==
  ASSUME NEW T, NEW ss \in Seq(Seq(T)), ss # <<>>, ss[1] # <<>>
  PROVE  FlattenSeq(ss)[1] = ss[1][1]
<1>. DEFINE P == {tt \in Seq(Seq(T)) : tt # <<>> /\ tt[1] # <<>> =>
                    FlattenSeq(tt) # <<>> /\ FlattenSeq(tt)[1] = tt[1][1]}
<1>1. <<>> \in P
  BY EmptySeq
<1>2. ASSUME NEW tt \in P, NEW s \in Seq(T)
      PROVE  Append(tt, s) \in P
  <2>1. tt \in Seq(Seq(T))
    OBVIOUS
  <2>2. /\ Append(tt, s) \in Seq(Seq(T))
        /\ \A j \in 1..Len(tt) : Append(tt, s)[j] = tt[j]
        /\ Append(tt, s)[Len(tt) + 1] = s
    BY <2>1
  <2>3. FlattenSeq(tt) \in Seq(T) /\ FlattenSeq(Append(tt, s)) = FlattenSeq(tt) \o s
    BY <2>1, FlattenAppend
  <2>4. CASE tt = <<>>
    <3>1. Len(tt) = 0 /\ Append(tt, s)[1] = s
      BY <2>2, <2>4, EmptySeq
    <3>2. FlattenSeq(Append(tt, s)) = s
      BY <2>3, <2>4, FlattenEmpty, ConcatEnds
    <3>. QED
      BY <2>2, <3>1, <3>2
  <2>5. CASE tt # <<>>
    <3>1. Append(tt, s)[1] = tt[1]
      BY <2>1, <2>2, <2>5, EmptySeq
    <3>2. tt[1] # <<>> => FlattenSeq(tt) # <<>> /\ FlattenSeq(tt)[1] = tt[1][1]
      BY <2>5
    <3>3. tt[1] # <<>> => /\ FlattenSeq(Append(tt, s)) # <<>>
                          /\ FlattenSeq(Append(tt, s))[1] = tt[1][1]
      BY <2>3, <3>2, ConcatEnds
    <3>. QED
      BY <2>2, <3>1, <3>3
  <2>. QED
    BY <2>4, <2>5
<1>3. P \in SUBSET Seq(Seq(T))
  OBVIOUS
<1>. HIDE DEF P
<1>4. P = Seq(Seq(T))
  BY <1>1, <1>2, <1>3, SequenceInduction
<1>5. ss \in P
  BY <1>4
<1>. QED
  BY <1>5 DEF P

----------------------------------------------------------------------------
(* Counting the members of a set in a sequence.                            *)

Places(s, A) == {i \in DOMAIN s : s[i] \in A}
CountIn(s, A) == Cardinality(Places(s, A))

LEMMA PlacesAreFinite ==
  ASSUME NEW T, NEW s \in Seq(T), NEW A
  PROVE  IsFiniteSet(Places(s, A)) /\ CountIn(s, A) \in Nat
<1>1. DOMAIN s = 1..Len(s) /\ Len(s) \in Int
  BY LenProperties
<1>2. IsFiniteSet(DOMAIN s)
  BY <1>1, FS_Interval
<1>3. IsFiniteSet(Places(s, A))
  BY <1>2, FS_Subset DEF Places
<1>. QED
  BY <1>3, FS_CardinalityType DEF CountIn

LEMMA CountEmpty ==
  ASSUME NEW A
  PROVE  CountIn(<<>>, A) = 0
<1>1. Places(<<>>, A) = {}
  BY DEF Places
<1>. QED
  BY <1>1, FS_EmptySet DEF CountIn

LEMMA CountAppend ==
  ASSUME NEW T, NEW s \in Seq(T), NEW x \in T, NEW A
  PROVE  CountIn(Append(s, x), A) = CountIn(s, A) + (IF x \in A THEN 1 ELSE 0)
<1>. DEFINE n == Len(s) + 1
<1>1. /\ DOMAIN s = 1..Len(s) /\ DOMAIN Append(s, x) = 1..n /\ Len(s) \in Nat
      /\ \A i \in 1..Len(s) : Append(s, x)[i] = s[i]
      /\ Append(s, x)[n] = x
  BY LenProperties, Appended
<1>2. IsFiniteSet(Places(s, A)) /\ CountIn(s, A) \in Nat
  BY PlacesAreFinite
<1>3. n \notin Places(s, A)
  BY <1>1 DEF Places
<1>4. CASE x \in A
  <2>1. Places(Append(s, x), A) = Places(s, A) \cup {n}
    BY <1>1, <1>4 DEF Places
  <2>. HIDE DEF n
  <2>2. Cardinality(Places(s, A) \cup {n}) = Cardinality(Places(s, A)) + 1
    BY <1>2, <1>3, FS_AddElement
  <2>. QED
    BY <1>4, <2>1, <2>2 DEF CountIn
<1>5. CASE x \notin A
  <2>1. Places(Append(s, x), A) = Places(s, A)
    BY <1>1, <1>5 DEF Places
  <2>. QED
    BY <1>2, <1>5, <2>1 DEF CountIn
<1>. QED
  BY <1>4, <1>5

LEMMA CountConcat ==
  ASSUME NEW T, NEW s \in Seq(T), NEW t \in Seq(T), NEW A
  PROVE  CountIn(s \o t, A) = CountIn(s, A) + CountIn(t, A)
<1>. DEFINE P == {u \in Seq(T) : CountIn(s \o u, A) = CountIn(s, A) + CountIn(u, A)}
<1>1. <<>> \in P
  <2>1. s \o <<>> = s
    BY ConcatEmptySeq
  <2>2. CountIn(s, A) \in Nat
    BY PlacesAreFinite
  <2>. QED
    BY <2>1, <2>2, CountEmpty, EmptySeq
<1>2. ASSUME NEW u \in P, NEW x \in T
      PROVE  Append(u, x) \in P
  <2>1. u \in Seq(T) /\ Append(u, x) \in Seq(T) /\ s \o u \in Seq(T)
    BY Appended, ConcatEnds
  <2>2. s \o Append(u, x) = Append(s \o u, x)
    <3>1. Append(u, x) = u \o <<x>> /\ Append(s \o u, x) = (s \o u) \o <<x>> /\ <<x>> \in Seq(T)
      BY <2>1, Appended
    <3>. QED
      BY <2>1, <3>1, ConcatAssociative
  <2>3. /\ CountIn(Append(s \o u, x), A) = CountIn(s \o u, A) + (IF x \in A THEN 1 ELSE 0)
        /\ CountIn(Append(u, x), A) = CountIn(u, A) + (IF x \in A THEN 1 ELSE 0)
        /\ CountIn(s, A) \in Nat /\ CountIn(u, A) \in Nat
    BY <2>1, CountAppend, PlacesAreFinite
  <2>4. CountIn(s \o u, A) = CountIn(s, A) + CountIn(u, A)
    OBVIOUS
  <2>5. CountIn(s \o Append(u, x), A) = CountIn(Append(s \o u, x), A)
    BY <2>2
  <2>6. CountIn(s \o Append(u, x), A) = CountIn(s, A) + CountIn(Append(u, x), A)
    BY <2>3, <2>4, <2>5
  <2>. QED
    BY <2>1, <2>6
<1>3. P \in SUBSET Seq(T)
  OBVIOUS
<1>. HIDE DEF P
<1>4. P = Seq(T)
  BY <1>1, <1>2, <1>3, SequenceInduction
<1>5. t \in P
  BY <1>4
<1>. QED
  BY <1>5 DEF P

LEMMA CountNone ==
  ASSUME NEW T, NEW s \in Seq(T), NEW A, T \cap A = {}
  PROVE  CountIn(s, A) = 0
<1>1. Places(s, A) = {}
  BY ElementOfSeq, LenProperties DEF Places
<1>. QED
  BY <1>1, FS_EmptySet DEF CountIn

LEMMA CountOne ==
  ASSUME NEW T, NEW x \in T, NEW A
  PROVE  <<x>> \in Seq(T) /\ CountIn(<<x>>, A) = IF x \in A THEN 1 ELSE 0
<1>1. <<>> \in Seq(T) /\ <<x>> \in Seq(T) /\ Append(<<>>, x) = <<x>>
  OBVIOUS
<1>2. CountIn(Append(<<>>, x), A) = CountIn(<<>>, A) + (IF x \in A THEN 1 ELSE 0)
  BY <1>1, CountAppend
<1>. QED
  BY <1>1, <1>2, CountEmpty

\* Sequences whose parts count the same count the same.
SameCounts(ss, A, tt, B) ==
  Len(ss) = Len(tt) /\ \A i \in 1..Len(ss) : CountIn(ss[i], A) = CountIn(tt[i], B)

LEMMA CountFlattened ==
  ASSUME NEW T, NEW A, NEW U, NEW B, NEW ss \in Seq(Seq(T)), NEW tt \in Seq(Seq(U)),
         SameCounts(ss, A, tt, B)
  PROVE  CountIn(FlattenSeq(ss), A) = CountIn(FlattenSeq(tt), B)
<1>. DEFINE Alike(vv, ww) == /\ Len(vv) = Len(ww)
                             /\ \A i \in 1..Len(vv) : CountIn(vv[i], A) = CountIn(ww[i], B)
            P == {vv \in Seq(Seq(T)) : \A ww \in Seq(Seq(U)) : Alike(vv, ww) =>
                    CountIn(FlattenSeq(vv), A) = CountIn(FlattenSeq(ww), B)}
<1>1. <<>> \in P
  <2>1. \A ww \in Seq(Seq(U)) : Alike(<<>>, ww) => ww = <<>>
    BY EmptySeq
  <2>2. <<>> \in Seq(Seq(T))
    BY EmptySeq
  <2>. HIDE DEF Alike
  <2>. QED
    BY <2>1, <2>2, FlattenEmpty, CountEmpty
<1>2. ASSUME NEW vv \in P, NEW s \in Seq(T)
      PROVE  Append(vv, s) \in P
  <2>1. vv \in Seq(Seq(T))
    OBVIOUS
  <2>2. PICK n \in Nat : n = Len(vv)
    BY <2>1
  <2>3. /\ Append(vv, s) \in Seq(Seq(T)) /\ Len(Append(vv, s)) = n + 1
        /\ \A i \in 1..n : Append(vv, s)[i] = vv[i]
        /\ Append(vv, s)[n + 1] = s
    BY <2>1, <2>2
  <2>4. ASSUME NEW ww \in Seq(Seq(U)), Alike(Append(vv, s), ww)
        PROVE  CountIn(FlattenSeq(Append(vv, s)), A) = CountIn(FlattenSeq(ww), B)
    <3>1. Len(ww) = n + 1 /\ Len(ww) # 0 /\ ww[n + 1] \in Seq(U)
      BY <2>3, <2>4
    <3>2. PICK xx \in Seq(Seq(U)) : ww = Append(xx, ww[Len(ww)]) /\ Len(xx) = Len(ww) - 1
      BY <3>1, Shortened
    <3>3. /\ Len(xx) = n
          /\ \A i \in 1..n : ww[i] = xx[i]
          /\ ww = Append(xx, ww[n + 1])
      <4>1. PICK x \in Seq(U) : x = ww[n + 1]
        BY <3>1
      <4>2. ww = Append(xx, x) /\ Len(xx) = n
        BY <3>1, <3>2, <4>1
      <4>3. \A i \in 1..n : Append(xx, x)[i] = xx[i]
        BY <4>2, Appended
      <4>. QED
        BY <4>1, <4>2, <4>3
    <3>4. \A i \in 1..n : CountIn(vv[i], A) = CountIn(xx[i], B)
      <4>1. ASSUME NEW i \in 1..n PROVE CountIn(vv[i], A) = CountIn(xx[i], B)
        <5>1. i \in 1..(n + 1) /\ Append(vv, s)[i] = vv[i] /\ ww[i] = xx[i]
          BY <2>3, <3>3
        <5>. QED
          BY <2>3, <2>4, <5>1
      <4>. QED
        BY <4>1
    <3>5. Alike(vv, xx)
      BY <2>2, <3>3, <3>4
    <3>6. CountIn(s, A) = CountIn(ww[n + 1], B)
      BY <2>3, <2>4
    <3>. HIDE DEF Alike
    <3>7. CountIn(FlattenSeq(vv), A) = CountIn(FlattenSeq(xx), B)
      BY <3>5
    <3>8. /\ FlattenSeq(Append(vv, s)) = FlattenSeq(vv) \o s /\ FlattenSeq(vv) \in Seq(T)
          /\ FlattenSeq(ww) = FlattenSeq(xx) \o ww[n + 1] /\ FlattenSeq(xx) \in Seq(U)
      BY <2>1, <3>1, <3>3, FlattenAppend
    <3>9. /\ CountIn(FlattenSeq(vv) \o s, A) = CountIn(FlattenSeq(vv), A) + CountIn(s, A)
          /\ CountIn(FlattenSeq(xx) \o ww[n + 1], B)
               = CountIn(FlattenSeq(xx), B) + CountIn(ww[n + 1], B)
      BY <3>1, <3>8, CountConcat
    <3>. QED
      BY <3>6, <3>7, <3>8, <3>9
  <2>. HIDE DEF Alike
  <2>. QED
    BY <2>3, <2>4
<1>3. P \in SUBSET Seq(Seq(T))
  OBVIOUS
<1>. HIDE DEF P
<1>4. P = Seq(Seq(T))
  BY <1>1, <1>2, <1>3, SequenceInduction
<1>5. ss \in P /\ Alike(ss, tt)
  BY <1>4 DEF SameCounts
<1>. HIDE DEF Alike
<1>. QED
  BY <1>5 DEF P

----------------------------------------------------------------------------
(* Wrapped texts.                                                          *)

LEMMA LengthsAreNumbers ==
  ASSUME NEW words \in Words
  PROVE  TextLength(words) \in Nat
<1>1. PICK n \in Nat : n = Len(words) /\ words \in [1..n -> Nat \ {0}]
  BY LenProperties DEF Words
<1>. DEFINE More(i, l) == l + words[i] + (IF i = 1 THEN 0 ELSE 1)
            step == [i \in 1..n |-> [l \in Nat |-> More(i, l)]]
            Body(h) == [i \in 0..n |-> IF i = 0 THEN 0 ELSE More(i, h[i - 1])]
            upTo == CHOOSE h : h = Body(h)
<1>2. \A i \in 1..n, l \in Nat : More(i, l) \in Nat
  BY <1>1
<1>3. TextLength(words) = upTo[n]
  BY <1>1 DEF TextLength
<1>. HIDE DEF More
<1>4. step \in [1..n -> [Nat -> Nat]] /\ \A i \in 1..n, l \in Nat : step[i][l] = More(i, l)
  BY <1>2
<1>. HIDE DEF step
<1>5. Iterated(n, Nat, 0, step)
  BY <1>4, Iterates
<1>6. PICK f \in [0..n -> Nat] : f[0] = 0 /\ \A i \in 1..n : f[i] = step[i][f[i - 1]]
  BY <1>5 DEF Iterated
<1>7. f = Body(f)
  <2>1. ASSUME NEW i \in 0..n PROVE f[i] = IF i = 0 THEN 0 ELSE More(i, f[i - 1])
    <3>1. CASE i # 0
      <4>1. i \in 1..n /\ i - 1 \in 0..n
        BY <3>1
      <4>. QED
        BY <1>4, <1>6, <3>1, <4>1
    <3>. QED
      BY <1>6, <3>1
  <2>. QED
    BY <2>1
<1>8. upTo = Body(upTo)
  <2>. HIDE DEF Body
  <2>. QED
    BY <1>7
<1>. HIDE DEF upTo
<1>9. upTo[0] = 0 /\ \A i \in 1..n : upTo[i] = More(i, upTo[i - 1])
  <2>1. \A i \in 0..n : upTo[i] = IF i = 0 THEN 0 ELSE More(i, upTo[i - 1])
    BY <1>8
  <2>2. 0 \in 0..n /\ \A i \in 1..n : i \in 0..n /\ i # 0
    OBVIOUS
  <2>. QED
    BY <2>1, <2>2
<1>. DEFINE S == {i \in 0..n : upTo[i] \in Nat}
<1>10. ASSUME NEW k \in 1..n, k - 1 \in S PROVE k \in S
  <2>1. upTo[k - 1] \in Nat /\ upTo[k] = More(k, upTo[k - 1])
    BY <1>9, <1>10
  <2>2. upTo[k] \in Nat
    BY <1>2, <2>1
  <2>. QED
    BY <2>2
<1>11. 0 \in S /\ S \in SUBSET (0..n)
  BY <1>9
<1>. HIDE DEF S
<1>12. S = 0..n
  BY <1>10, <1>11, Induction
<1>13. n \in S
  BY <1>12
<1>. QED
  BY <1>3, <1>13 DEF S

LEMMA Quotients ==
  ASSUME NEW a \in Nat, NEW m \in Nat \ {0}
  PROVE  \E q \in Nat : q = a \div m /\ q * m <= a /\ a < q * m + m
  OBVIOUS

\* The lines of a text and its last one, still open.
Wrapped == [lines : Seq(Nat), current : Nat]

\* What a word makes of them.
Wraps(max, so, word, new) ==
  /\ new \in Wrapped /\ new.current > 0
  /\ so.current = 0 => new = [so EXCEPT !.current = word]
  /\ so.current # 0 => new.current <= max
  /\ \A i \in DOMAIN new.lines :
       \/ i \in DOMAIN so.lines /\ new.lines[i] = so.lines[i]
       \/ i = Len(so.lines) + 1 /\ new.lines[i] = so.current
       \/ i > Len(so.lines) + 1 /\ new.lines[i] = max

LEMMA WrapWordWraps ==
  ASSUME NEW max \in Nat \ {0}, NEW so \in Wrapped, NEW word \in Nat \ {0}
  PROVE  Wraps(max, so, word, WrapWord(max, so, word))
<1>1. so.lines \in Seq(Nat) /\ so.current \in Nat /\ Len(so.lines) \in Nat
  BY LenProperties DEF Wrapped
<1>2. CASE so.current = 0 \/ so.current + 1 + word <= max
  <2>1. /\ WrapWord(max, so, word).lines = so.lines
        /\ WrapWord(max, so, word).current =
             IF so.current = 0 THEN word ELSE so.current + 1 + word
        /\ WrapWord(max, so, word) = [so EXCEPT !.current =
             IF so.current = 0 THEN word ELSE so.current + 1 + word]
    BY <1>2 DEF WrapWord, Wrapped
  <2>2. WrapWord(max, so, word) \in Wrapped
    <3>1. (IF so.current = 0 THEN word ELSE so.current + 1 + word) \in Nat
      BY <1>1
    <3>. QED
      BY <1>1, <2>1, <3>1 DEF Wrapped
  <2>. QED
    BY <1>1, <1>2, <2>1, <2>2 DEF Wraps
<1>3. CASE ~(so.current = 0 \/ so.current + 1 + word <= max)
  <2>. DEFINE full == IF word > max THEN (word - 1) \div max ELSE 0
              more == [i \in 1..full |-> max]
  <2>1. full \in Nat /\ word - full * max \in Nat /\ word - full * max > 0
          /\ word - full * max <= max
    <3>1. CASE word > max
      <4>1. PICK q \in Nat : /\ q = (word - 1) \div max
                             /\ q * max <= word - 1 /\ word - 1 < q * max + max
        BY Quotients
      <4>2. PICK m \in Nat : m = q * max
        OBVIOUS
      <4>. QED
        BY <3>1, <4>1, <4>2
    <3>2. CASE ~(word > max)
      BY <3>2
    <3>. QED
      BY <3>1, <3>2
  <2>2. /\ WrapWord(max, so, word).lines = (so.lines \o <<so.current>>) \o more
        /\ WrapWord(max, so, word).current = word - full * max
        /\ WrapWord(max, so, word) = [lines |-> (so.lines \o <<so.current>>) \o more,
                                      current |-> word - full * max]
    BY <1>3 DEF WrapWord
  <2>. HIDE DEF full
  <2>3. /\ more \in Seq(Nat) /\ Len(more) = full /\ \A i \in 1..full : more[i] = max
        /\ <<so.current>> \in Seq(Nat) /\ Len(<<so.current>>) = 1
        /\ <<so.current>>[1] = so.current
    BY <1>1, <2>1
  <2>. HIDE DEF more
  <2>. DEFINE front == so.lines \o <<so.current>>
  <2>4. front \in Seq(Nat) /\ Len(front) = Len(so.lines) + 1
    BY <1>1, <2>3, ConcatProperties
  <2>5. ASSUME NEW i \in DOMAIN front
        PROVE  \/ i \in DOMAIN so.lines /\ front[i] = so.lines[i]
               \/ i = Len(so.lines) + 1 /\ front[i] = so.current
    <3>1. \/ i \in 1..Len(so.lines) /\ front[i] = so.lines[i]
          \/ /\ i \in Nat /\ i > Len(so.lines) /\ i - Len(so.lines) \in 1..1
             /\ front[i] = <<so.current>>[i - Len(so.lines)]
      BY <1>1, <2>3, ConcatPlaces
    <3>2. DOMAIN so.lines = 1..Len(so.lines)
      BY <1>1, LenProperties
    <3>. QED
      BY <1>1, <2>3, <3>1, <3>2
  <2>. HIDE DEF front
  <2>6. /\ WrapWord(max, so, word).lines = front \o more
        /\ WrapWord(max, so, word).current = word - full * max
        /\ WrapWord(max, so, word) \in Wrapped
    <3>1. front \o more \in Seq(Nat)
      BY <2>3, <2>4, ConcatProperties
    <3>. QED
      BY <2>1, <2>2, <3>1 DEF Wrapped, front
  <2>7. ASSUME NEW i \in DOMAIN (front \o more)
        PROVE  \/ i \in DOMAIN so.lines /\ (front \o more)[i] = so.lines[i]
               \/ i = Len(so.lines) + 1 /\ (front \o more)[i] = so.current
               \/ i > Len(so.lines) + 1 /\ (front \o more)[i] = max
    <3>1. \/ i \in 1..Len(front) /\ (front \o more)[i] = front[i]
          \/ /\ i \in Nat /\ i > Len(front) /\ i - Len(front) \in 1..Len(more)
             /\ (front \o more)[i] = more[i - Len(front)]
      BY <2>3, <2>4, ConcatPlaces
    <3>2. DOMAIN front = 1..Len(front)
      BY <2>4, LenProperties
    <3>. QED
      BY <2>3, <2>4, <2>5, <3>1, <3>2
  <2>. QED
    BY <1>3, <2>1, <2>6, <2>7 DEF Wraps
<1>. QED
  BY <1>2, <1>3

LEMMA WrappingSteps ==
  ASSUME NEW words \in Words, NEW max \in Nat \ {0}
  PROVE  /\ Wrapping(words, max)[0] = [lines |-> <<>>, current |-> 0]
         /\ \A i \in 1..Len(words) : /\ words[i] \in Nat \ {0}
                                     /\ Wrapping(words, max)[i - 1] \in Wrapped
                                     /\ Wrapping(words, max)[i] =
                                          WrapWord(max, Wrapping(words, max)[i - 1], words[i])
<1>1. PICK n \in Nat : n = Len(words) /\ words \in [1..n -> Nat \ {0}]
  BY LenProperties DEF Words
<1>. DEFINE none == [lines |-> <<>>, current |-> 0]
            More(i, so) == WrapWord(max, so, words[i])
            step == [i \in 1..n |-> [so \in Wrapped |-> More(i, so)]]
            Body(h) == [i \in 0..n |-> IF i = 0 THEN none ELSE More(i, h[i - 1])]
            all == CHOOSE h : h = Body(h)
<1>2. \A i \in 1..n, so \in Wrapped : More(i, so) \in Wrapped
  BY <1>1, WrapWordWraps DEF Wraps
<1>3. Wrapping(words, max) = all
  BY <1>1 DEF Wrapping
<1>4. none \in Wrapped
  BY EmptySeq DEF Wrapped
<1>. HIDE DEF More, none
<1>5. step \in [1..n -> [Wrapped -> Wrapped]]
      /\ \A i \in 1..n, so \in Wrapped : step[i][so] = More(i, so)
  BY <1>2
<1>. HIDE DEF step
<1>6. Iterated(n, Wrapped, none, step)
  BY <1>4, <1>5, Iterates
<1>7. PICK f \in [0..n -> Wrapped] : f[0] = none /\ \A i \in 1..n : f[i] = step[i][f[i - 1]]
  BY <1>6 DEF Iterated
<1>8. f = Body(f)
  <2>1. ASSUME NEW i \in 0..n PROVE f[i] = IF i = 0 THEN none ELSE More(i, f[i - 1])
    <3>1. CASE i # 0
      <4>1. i \in 1..n /\ i - 1 \in 0..n
        BY <3>1
      <4>. QED
        BY <1>5, <1>7, <3>1, <4>1
    <3>. QED
      BY <1>7, <3>1
  <2>. QED
    BY <2>1
<1>9. all = Body(all)
  <2>. HIDE DEF Body
  <2>. QED
    BY <1>8
<1>. HIDE DEF all
<1>10. all[0] = none /\ \A i \in 1..n : all[i] = More(i, all[i - 1])
  <2>1. \A i \in 0..n : all[i] = IF i = 0 THEN none ELSE More(i, all[i - 1])
    BY <1>9
  <2>2. 0 \in 0..n /\ \A i \in 1..n : i \in 0..n /\ i # 0
    OBVIOUS
  <2>. QED
    BY <2>1, <2>2
<1>. DEFINE S == {i \in 0..n : all[i] \in Wrapped}
<1>11. ASSUME NEW k \in 1..n, k - 1 \in S PROVE k \in S
  <2>1. all[k - 1] \in Wrapped /\ all[k] = More(k, all[k - 1])
    BY <1>10, <1>11
  <2>2. all[k] \in Wrapped
    BY <1>2, <2>1
  <2>. QED
    BY <2>2
<1>12. 0 \in S /\ S \in SUBSET (0..n)
  BY <1>4, <1>10
<1>. HIDE DEF S
<1>13. S = 0..n
  BY <1>11, <1>12, Induction
<1>14. \A i \in 1..n : all[i - 1] \in Wrapped
  <2>1. \A i \in 1..n : i - 1 \in S
    BY <1>13
  <2>. QED
    BY <2>1 DEF S
<1>. QED
  BY <1>1, <1>3, <1>10, <1>14 DEF none, More

\* A text is wrapped into lines that fit unless it starts with a word that does not;
\* only an empty one has no lines.
LEMMA WrappedText ==
  ASSUME NEW words \in Words, NEW max \in Nat \ {0}
  PROVE  /\ wrapText(words, max) \in Seq(Nat)
         /\ wrapText(words, max) = <<>> <=> words = <<>>
         /\ \A i \in DOMAIN wrapText(words, max) :
              \/ wrapText(words, max)[i] <= max
              \/ i = 1 /\ wrapText(words, max)[1] = words[1]
<1>1. PICK n \in Nat : n = Len(words) /\ words \in [1..n -> Nat \ {0}]
  BY LenProperties DEF Words
<1>. DEFINE so == Wrapping(words, max)
            Fine(i, line) == line <= max \/ (i = 1 /\ line = words[1])
            Good(i) == /\ so[i] \in Wrapped
                       /\ i = 0 => so[i] = [lines |-> <<>>, current |-> 0]
                       /\ i # 0 => so[i].current > 0
                       /\ \A j \in DOMAIN so[i].lines : Fine(j, so[i].lines[j])
                       /\ \/ so[i].current <= max
                          \/ so[i].lines = <<>> /\ so[i].current = words[1]
            S == {i \in 0..n : Good(i)}
<1>2. 0 \in S
  <2>1. so[0] = [lines |-> <<>>, current |-> 0]
    BY WrappingSteps
  <2>2. so[0] \in Wrapped /\ so[0].lines = <<>> /\ so[0].current = 0
    BY <2>1, EmptySeq DEF Wrapped
  <2>3. DOMAIN <<>> = {}
    OBVIOUS
  <2>. HIDE DEF so
  <2>. QED
    BY <2>1, <2>2, <2>3
<1>3. ASSUME NEW k \in 1..n, k - 1 \in S
      PROVE  k \in S
  <2>. DEFINE old == so[k - 1]
              new == so[k]
  <2>1. Good(k - 1)
    BY <1>3
  <2>2. words[k] \in Nat \ {0} /\ old \in Wrapped /\ new = WrapWord(max, old, words[k])
    BY <1>1, WrappingSteps
  <2>. HIDE DEF so
  <2>3. Wraps(max, old, words[k], new)
    <3>. HIDE DEF old, new
    <3>. QED
      BY <2>2, WrapWordWraps
  <2>4. CASE k = 1
    <3>1. old = [lines |-> <<>>, current |-> 0]
      BY <2>1, <2>4
    <3>2. new = [lines |-> <<>>, current |-> words[1]]
      BY <2>3, <2>4, <3>1 DEF Wraps
    <3>3. new.lines = <<>> /\ new.current = words[1] /\ DOMAIN <<>> = {}
      BY <3>2
    <3>. QED
      BY <2>3, <2>4, <3>3 DEF Wraps
  <2>5. CASE k # 1
    <3>1. old.current # 0
      BY <2>1, <2>5
    <3>2. old.lines = <<>> => Len(old.lines) = 0
      BY EmptySeq
    <3>3. max <= max /\ old.lines \in Seq(Nat)
      BY <2>2 DEF Wrapped
    <3>4. ASSUME NEW i \in DOMAIN new.lines PROVE Fine(i, new.lines[i])
      BY <2>1, <2>3, <3>2, <3>3 DEF Wraps
    <3>. QED
      BY <2>3, <2>5, <3>1, <3>4 DEF Wraps
  <2>. QED
    BY <2>4, <2>5
<1>4. S \in SUBSET (0..n)
  OBVIOUS
<1>. HIDE DEF S
<1>5. S = 0..n
  BY <1>2, <1>3, <1>4, Induction
<1>6. n \in S
  BY <1>5
<1>7. Good(n)
  BY <1>6 DEF S
<1>. DEFINE all == so[n]
<1>8. wrapText(words, max) = IF all.current = 0 THEN all.lines ELSE Append(all.lines, all.current)
  BY <1>1 DEF wrapText
<1>. HIDE DEF so
<1>9. all.lines \in Seq(Nat) /\ all.current \in Nat
  BY <1>7 DEF Wrapped
<1>10. CASE n = 0
  <2>1. all.lines = <<>> /\ all.current = 0
    BY <1>7, <1>10
  <2>2. words = <<>> /\ DOMAIN <<>> = {}
    BY <1>1, <1>10, EmptySeq DEF Words
  <2>. QED
    BY <1>8, <1>9, <2>1, <2>2
<1>11. CASE n # 0
  <2>. DEFINE text == Append(all.lines, all.current)
  <2>1. wrapText(words, max) = text
    BY <1>7, <1>8, <1>11
  <2>2. words # <<>>
    BY <1>1, <1>11, EmptySeq
  <2>3. PICK m \in Nat : m = Len(all.lines)
    BY <1>9
  <2>4. /\ text \in Seq(Nat) /\ Len(text) = m + 1
        /\ \A i \in 1..m : text[i] = all.lines[i]
        /\ text[m + 1] = all.current
    BY <1>9, <2>3, Appended
  <2>. HIDE DEF text
  <2>5. DOMAIN text = 1..(m + 1) /\ DOMAIN all.lines = 1..m
    BY <1>9, <2>3, <2>4, LenProperties
  <2>6. text # <<>>
    BY <2>4, EmptySeq
  <2>7. ASSUME NEW i \in 1..(m + 1)
        PROVE  Fine(i, text[i])
    <3>1. CASE i = m + 1
      <4>1. all.lines = <<>> => m = 0
        BY <2>3, EmptySeq
      <4>2. text[i] = all.current
        BY <2>4, <3>1
      <4>. QED
        BY <1>7, <3>1, <4>1, <4>2
    <3>2. CASE i # m + 1
      <4>1. i \in 1..m
        BY <3>2
      <4>2. text[i] = all.lines[i] /\ i \in DOMAIN all.lines
        BY <2>4, <2>5, <4>1
      <4>3. Fine(i, all.lines[i])
        BY <1>7, <4>2
      <4>. QED
        BY <4>2, <4>3
    <3>. QED
      BY <3>1, <3>2
  <2>8. \A i \in DOMAIN text : text[i] <= max \/ (i = 1 /\ text[1] = words[1])
    BY <2>5, <2>7
  <2>. QED
    BY <2>1, <2>2, <2>4, <2>6, <2>8
<1>. QED
  BY <1>10, <1>11

LEMMA FlattenSingles ==
  ASSUME NEW T, NEW s \in Seq(T)
  PROVE  /\ [i \in DOMAIN s |-> <<s[i]>>] \in Seq(Seq(T))
         /\ FlattenSeq([i \in DOMAIN s |-> <<s[i]>>]) = s
<1>. DEFINE Singles(t) == [i \in DOMAIN t |-> <<t[i]>>]
            P == {t \in Seq(T) : FlattenSeq(Singles(t)) = t}
<1>1. ASSUME NEW t \in Seq(T)
      PROVE  Singles(t) \in Seq(Seq(T)) /\ Len(Singles(t)) = Len(t)
  <2>1. PICK n \in Nat : n = Len(t) /\ DOMAIN t = 1..n
    BY LenProperties
  <2>2. \A i \in 1..n : <<t[i]>> \in Seq(T)
    BY <2>1
  <2>. QED
    BY <2>1, <2>2
<1>2. <<>> \in P
  <2>1. Singles(<<>>) = <<>>
    OBVIOUS
  <2>. HIDE DEF Singles
  <2>. QED
    BY <2>1, FlattenEmpty, EmptySeq
<1>3. ASSUME NEW t \in P, NEW x \in T
      PROVE  Append(t, x) \in P
  <2>1. t \in Seq(T) /\ FlattenSeq(Singles(t)) = t /\ <<x>> \in Seq(T)
    OBVIOUS
  <2>2. PICK n \in Nat : /\ n = Len(t) /\ DOMAIN t = 1..n
                         /\ Append(t, x) \in Seq(T) /\ DOMAIN Append(t, x) = 1..(n + 1)
                         /\ \A i \in 1..n : Append(t, x)[i] = t[i]
                         /\ Append(t, x)[n + 1] = x
    BY <2>1, Appended, LenProperties
  <2>3. /\ Singles(Append(t, x)) \in Seq(Seq(T)) /\ Len(Singles(Append(t, x))) = n + 1
        /\ Singles(t) \in Seq(Seq(T)) /\ Len(Singles(t)) = n
    <3>1. Len(Append(t, x)) = n + 1
      BY <2>1, <2>2, Appended
    <3>. HIDE DEF Singles
    <3>. QED
      BY <1>1, <2>1, <2>2, <3>1
  <2>4. /\ \A i \in 1..n : Singles(Append(t, x))[i] = Singles(t)[i]
        /\ Singles(Append(t, x))[n + 1] = <<x>>
    BY <2>2
  <2>. HIDE DEF Singles
  <2>5. Singles(Append(t, x)) = Append(Singles(t), <<x>>)
    <3>. DEFINE u == Singles(Append(t, x))
                v == Append(Singles(t), <<x>>)
    <3>1. /\ v \in Seq(Seq(T)) /\ Len(v) = n + 1 /\ v[n + 1] = <<x>>
          /\ \A i \in 1..n : v[i] = Singles(t)[i]
      BY <2>1, <2>3, Appended
    <3>. HIDE DEF v
    <3>2. ASSUME NEW i \in 1..(n + 1) PROVE u[i] = v[i]
      <4>1. CASE i = n + 1
        BY <2>4, <3>1, <4>1
      <4>2. CASE i # n + 1
        <5>1. i \in 1..n
          BY <4>2
        <5>. QED
          BY <2>4, <3>1, <5>1
      <4>. QED
        BY <4>1, <4>2
    <3>. HIDE DEF u
    <3>3. u \in Seq(Seq(T)) /\ Len(u) = n + 1
      BY <2>3 DEF u
    <3>4. u = v
      BY <3>1, <3>2, <3>3, SeqEqual
    <3>. QED
      BY <3>4 DEF u, v
  <2>6. FlattenSeq(Append(Singles(t), <<x>>)) = t \o <<x>>
    BY <2>1, <2>3, FlattenAppend
  <2>7. t \o <<x>> = Append(t, x)
    BY <2>1, Appended
  <2>. QED
    BY <2>2, <2>5, <2>6, <2>7
<1>4. P \in SUBSET Seq(T)
  OBVIOUS
<1>. HIDE DEF P
<1>5. P = Seq(T)
  BY <1>2, <1>3, <1>4, SequenceInduction
<1>6. s \in P
  BY <1>5
<1>. QED
  BY <1>1, <1>6 DEF P

----------------------------------------------------------------------------
(* The items of the layout.                                                *)

Kinds == {"name", "contact", "rule", "section", "row", "heading", "date", "line", "bullet",
          "spacer"}

\* An item fits an empty page and is lower than the top margin; a row keeps its date clear of its heading.
LayoutItem ==
  {x \in [kind : Kinds, section : Nat, before : Nat, height : Nat, after : Nat, chars : Nat,
          right : Nat, of : Nat] :
     /\ x.before + x.height <= PageTop - PageBottom
     /\ x.height <= 26000
     /\ x.kind = "row" => 5175 * x.chars <= 530000 - 4600 * x.right}

Solid(x) == x.kind \notin {"rule", "spacer"} /\ x.after = 0

\* The items below the rule, those an entry's spacer may follow, and those of them
\* that start no bullet.
BodyItem == {x \in LayoutItem : x.kind # "rule"}
SolidItem == {x \in BodyItem : Solid(x)}
PlainItem == {x \in SolidItem : x.of = 0}

LEMMA TextItem ==
  ASSUME NEW kind \in {"heading", "date", "line", "bullet"}, NEW section \in Nat,
         NEW before \in {0, 800}, NEW chars \in Nat
  PROVE  Item(kind, section, before, 0, chars) \in PlainItem
  BY DEF Item, Height, PlainItem, SolidItem, BodyItem, LayoutItem, Solid, Kinds, PageTop,
         PageBottom

LEMMA OneEach ==
  ASSUME NEW T, NEW U, NEW s \in Seq(U), NEW f, f \in [DOMAIN s -> T]
  PROVE  f \in Seq(T) /\ Len(f) = Len(s) /\ (f = <<>> <=> s = <<>>)
<1>1. PICK n \in Nat : n = Len(s) /\ DOMAIN s = 1..n
  BY LenProperties
<1>2. f \in Seq(T) /\ Len(f) = n
  BY <1>1
<1>. QED
  BY <1>1, <1>2, EmptySeq

\* The items a text is put on: none when it is empty.
ItemsOf(words, items) == items \in Seq(PlainItem) /\ (items = <<>> <=> words = <<>>)

LEMMA PushedText ==
  ASSUME NEW words \in Words, NEW kind \in {"heading", "date", "line"}, NEW section \in Nat,
         NEW before \in {0, 800}
  PROVE  ItemsOf(words, pushWrappedText(words, kind, section, before))
<1>. DEFINE lines == wrapText(words, Room[kind])
            pushed == pushWrappedText(words, kind, section, before)
<1>1. Room[kind] \in Nat \ {0}
  BY DEF Room
<1>2. lines \in Seq(Nat) /\ (lines = <<>> <=> words = <<>>)
  BY <1>1, WrappedText
<1>3. pushed = [i \in DOMAIN lines |->
                  Item(kind, section, IF i = 1 THEN before ELSE 0, 0, lines[i])]
  BY DEF pushWrappedText
<1>. HIDE DEF lines, pushed
<1>4. ASSUME NEW i \in DOMAIN lines
      PROVE  Item(kind, section, IF i = 1 THEN before ELSE 0, 0, lines[i]) \in PlainItem
  <2>1. lines[i] \in Nat
    BY <1>2, ElementOfSeq, LenProperties
  <2>2. (IF i = 1 THEN before ELSE 0) \in {0, 800}
    OBVIOUS
  <2>. QED
    BY <2>1, <2>2, TextItem
<1>5. pushed \in [DOMAIN lines -> PlainItem]
  BY <1>3, <1>4
<1>6. pushed \in Seq(PlainItem) /\ (pushed = <<>> <=> lines = <<>>)
  BY <1>2, <1>5, OneEach
<1>. QED
  BY <1>2, <1>6 DEF pushed, ItemsOf

\* Where the items that start bullets are.
Starts == {x \in LayoutItem : StartsBullet(x)}

\* The items a bullet is put on, of which the first alone starts it.
BulletOf(words, items) ==
  /\ items \in Seq(SolidItem) /\ (items = <<>> <=> words = <<>>)
  /\ CountIn(items, Starts) = IF words # <<>> THEN 1 ELSE 0

LEMMA PushedBullet ==
  ASSUME NEW words \in Words, NEW section \in Nat
  PROVE  BulletOf(words, pushBulletParagraph(words, section))
<1>. DEFINE lines == wrapText(words, Room.bullet)
            pushed == pushBulletParagraph(words, section)
<1>1. Room.bullet \in Nat \ {0}
  BY DEF Room
<1>2. lines \in Seq(Nat) /\ (lines = <<>> <=> words = <<>>)
  BY <1>1, WrappedText
<1>3. PICK n \in Nat : n = Len(lines) /\ DOMAIN lines = 1..n
  BY <1>2, LenProperties
<1>4. pushed = [i \in DOMAIN lines |->
        [Item("bullet", section, 0, 0, lines[i]) EXCEPT !.of = IF i = 1 THEN Len(lines) ELSE 0]]
  BY DEF pushBulletParagraph
<1>. HIDE DEF lines, pushed
<1>5. ASSUME NEW i \in 1..n
      PROVE  pushed[i] \in SolidItem /\ pushed[i].of = IF i = 1 THEN n ELSE 0
  <2>. DEFINE plain == Item("bullet", section, 0, 0, lines[i])
              of == IF i = 1 THEN n ELSE 0
  <2>1. lines[i] \in Nat
    BY <1>2, <1>3, ElementOfSeq
  <2>2. plain \in PlainItem
    BY <2>1, TextItem
  <2>3. pushed[i] = [plain EXCEPT !.of = of]
    BY <1>3, <1>4
  <2>4. of \in Nat
    OBVIOUS
  <2>. HIDE DEF plain, of
  <2>5. pushed[i] \in SolidItem /\ pushed[i].of = of
    BY <2>2, <2>3, <2>4 DEF PlainItem, SolidItem, BodyItem, LayoutItem, Solid
  <2>. QED
    BY <2>5 DEF of
<1>6. pushed \in [DOMAIN lines -> SolidItem]
  <2>1. \A i \in DOMAIN lines : pushed[i] \in SolidItem
    BY <1>3, <1>5
  <2>. QED
    BY <1>4, <2>1
<1>7. pushed \in Seq(SolidItem) /\ (pushed = <<>> <=> lines = <<>>) /\ DOMAIN pushed = 1..n
  <2>1. lines \in Seq(Nat)
    BY <1>2
  <2>2. pushed \in Seq(SolidItem) /\ (pushed = <<>> <=> lines = <<>>)
    BY <1>6, <2>1, OneEach
  <2>3. DOMAIN pushed = DOMAIN lines
    BY <1>6
  <2>. QED
    BY <1>3, <2>2, <2>3
<1>8. CASE n = 0
  <2>1. lines = <<>>
    BY <1>2, <1>3, <1>8, EmptySeq
  <2>2. pushed = <<>>
    BY <1>7, <2>1
  <2>. QED
    BY <1>2, <1>7, <2>1, <2>2, CountEmpty DEF pushed, BulletOf
<1>9. CASE n # 0
  <2>1. words # <<>>
    BY <1>2, <1>3, <1>9, EmptySeq
  <2>2. \A i \in 1..n : pushed[i] \in Starts <=> i = 1
    BY <1>5, <1>9 DEF Starts, StartsBullet, SolidItem, BodyItem
  <2>3. Places(pushed, Starts) = {1}
    BY <1>7, <1>9, <2>2 DEF Places
  <2>4. CountIn(pushed, Starts) = 1
    BY <2>3, FS_Singleton DEF CountIn
  <2>. QED
    BY <1>2, <1>7, <2>1, <2>4 DEF pushed, BulletOf
<1>. QED
  BY <1>8, <1>9

Entry == [heading : Words, date : Words, lines : Seq(Words), bullets : Seq(Words)]

LEMMA EntryHeadItems ==
  ASSUME NEW entry \in Entry, NEW section \in Nat
  PROVE  /\ EntryHead(entry, section) \in Seq(PlainItem)
         /\ EntryHead(entry, section) = <<>> <=> entry.heading = <<>> /\ entry.date = <<>>
<1>1. entry.heading \in Words /\ entry.date \in Words
  BY DEF Entry
<1>2. ASSUME NEW before \in {0, 800}
      PROVE  /\ ItemsOf(entry.heading, pushWrappedText(entry.heading, "heading", section, before))
             /\ ItemsOf(entry.date, pushWrappedText(entry.date, "date", section, before))
  <2>1. "heading" \in {"heading", "date", "line"} /\ "date" \in {"heading", "date", "line"}
    OBVIOUS
  <2>2. ItemsOf(entry.heading, pushWrappedText(entry.heading, "heading", section, before))
    BY <1>1, <2>1, PushedText
  <2>3. ItemsOf(entry.date, pushWrappedText(entry.date, "date", section, before))
    BY <1>1, <2>1, PushedText
  <2>. QED
    BY <2>2, <2>3
<1>3. CASE entry.heading # <<>> /\ entry.date # <<>> /\ ShareRow(entry.heading, entry.date)
  <2>. DEFINE h == TextLength(entry.heading)
              d == TextLength(entry.date)
              row == [Item("row", section, 800, 0, h) EXCEPT !.right = d]
  <2>1. h \in Nat /\ d \in Nat
    BY <1>1, LengthsAreNumbers
  <2>2. 5175 * h <= 530000 - 4600 * d
    BY <1>3 DEF ShareRow
  <2>3. EntryHead(entry, section) = <<row>>
    BY <1>3 DEF EntryHead
  <2>. HIDE DEF h, d
  <2>4. row = [kind |-> "row", section |-> section, before |-> 800, height |-> 10971,
               after |-> 0, chars |-> h, right |-> d, of |-> 0]
    BY DEF Item, Height
  <2>. HIDE DEF row
  <2>5. row \in PlainItem
    BY <2>1, <2>2, <2>4 DEF PlainItem, SolidItem, BodyItem, LayoutItem, Solid, Kinds,
                            PageTop, PageBottom
  <2>. QED
    BY <1>3, <2>3, <2>5
<1>4. CASE entry.heading # <<>> /\ entry.date # <<>> /\ ~ShareRow(entry.heading, entry.date)
  <2>1. EntryHead(entry, section) =
          pushWrappedText(entry.heading, "heading", section, 800)
            \o pushWrappedText(entry.date, "date", section, 0)
    BY <1>4 DEF EntryHead
  <2>. QED
    BY <1>2, <1>4, <2>1, ConcatEnds DEF ItemsOf
<1>5. CASE ~(entry.heading # <<>> /\ entry.date # <<>>)
  <2>1. EntryHead(entry, section) =
          pushWrappedText(entry.heading, "heading", section, 800)
            \o pushWrappedText(entry.date, "date", section, 800)
    BY <1>5 DEF EntryHead
  <2>. QED
    BY <1>2, <1>5, <2>1, ConcatEnds DEF ItemsOf
<1>. QED
  BY <1>3, <1>4, <1>5

Texts == Words \ {<<>>}

LEMMA PlainIsSolid ==
  /\ Seq(PlainItem) \subseteq Seq(SolidItem)
  /\ Seq(SolidItem) \subseteq Seq(BodyItem)
  /\ Seq(BodyItem) \subseteq Seq(LayoutItem)
  /\ PlainItem \cap Starts = {}
<1>1. PlainItem \subseteq SolidItem /\ SolidItem \subseteq BodyItem /\ BodyItem \subseteq LayoutItem
  BY DEF PlainItem, SolidItem, BodyItem
<1>2. PlainItem \cap Starts = {}
  BY DEF PlainItem, Starts, StartsBullet
<1>. QED
  BY <1>1, <1>2, SeqMonotonic

\* The lines of an entry, and its bullets, each of which starts once.
LEMMA EntryLines ==
  ASSUME NEW lines \in Seq(Words), NEW section \in Nat
  PROVE  LET items == FlattenSeq([i \in DOMAIN lines |->
                                    pushWrappedText(lines[i], "line", section, 0)])
         IN  /\ items \in Seq(PlainItem)
             /\ (\E i \in DOMAIN lines : lines[i] # <<>>) => items # <<>>
<1>. DEFINE each == [i \in DOMAIN lines |-> pushWrappedText(lines[i], "line", section, 0)]
<1>1. ASSUME NEW i \in DOMAIN lines
      PROVE  ItemsOf(lines[i], pushWrappedText(lines[i], "line", section, 0))
  <2>1. lines[i] \in Words
    BY ElementOfSeq, LenProperties
  <2>2. "line" \in {"heading", "date", "line"} /\ 0 \in {0, 800}
    OBVIOUS
  <2>. QED
    BY <2>1, <2>2, PushedText
<1>2. each \in [DOMAIN lines -> Seq(PlainItem)]
  BY <1>1 DEF ItemsOf
<1>3. \A i \in DOMAIN lines : lines[i] # <<>> => each[i] # <<>>
  BY <1>1 DEF ItemsOf
<1>. HIDE DEF each
<1>4. each \in Seq(Seq(PlainItem)) /\ Len(each) = Len(lines)
  BY <1>2, OneEach
<1>5. FlattenSeq(each) \in Seq(PlainItem)
  BY <1>4, FlattenType
<1>6. ASSUME NEW i \in DOMAIN lines, lines[i] # <<>>
      PROVE  FlattenSeq(each) # <<>>
  <2>1. i \in 1..Len(each) /\ each[i] # <<>>
    BY <1>3, <1>4, <1>6, LenProperties
  <2>. QED
    BY <1>4, <2>1, FlattenNonempty
<1>. QED
  BY <1>5, <1>6 DEF each

LEMMA EntryBullets ==
  ASSUME NEW bullets \in Seq(Words), NEW section \in Nat
  PROVE  LET items == FlattenSeq([i \in DOMAIN bullets |->
                                    pushBulletParagraph(bullets[i], section)])
         IN  /\ items \in Seq(SolidItem)
             /\ (\E i \in DOMAIN bullets : bullets[i] # <<>>) => items # <<>>
             /\ CountIn(items, Starts) = CountIn(bullets, Texts)
<1>. DEFINE each == [i \in DOMAIN bullets |-> pushBulletParagraph(bullets[i], section)]
            one == [i \in DOMAIN bullets |-> <<bullets[i]>>]
<1>1. PICK n \in Nat : n = Len(bullets) /\ DOMAIN bullets = 1..n
  BY LenProperties
<1>2. ASSUME NEW i \in 1..n
      PROVE  BulletOf(bullets[i], each[i]) /\ bullets[i] \in Words
  <2>1. bullets[i] \in Words
    BY <1>1, ElementOfSeq
  <2>2. each[i] = pushBulletParagraph(bullets[i], section)
    BY <1>1
  <2>. HIDE DEF each
  <2>. QED
    BY <2>1, <2>2, PushedBullet
<1>3. each \in [DOMAIN bullets -> Seq(SolidItem)]
  BY <1>1, <1>2 DEF BulletOf
<1>4. each \in Seq(Seq(SolidItem)) /\ Len(each) = n
  <2>. HIDE DEF each
  <2>. QED
    BY <1>1, <1>3, OneEach
<1>5. one \in Seq(Seq(Words)) /\ FlattenSeq(one) = bullets
  BY FlattenSingles
<1>6. Len(one) = n /\ \A i \in 1..n : one[i] = <<bullets[i]>>
  BY <1>1
<1>. HIDE DEF each, one
<1>7. ASSUME NEW i \in 1..n
      PROVE  CountIn(each[i], Starts) = CountIn(one[i], Texts)
  <2>1. CountIn(<<bullets[i]>>, Texts) = IF bullets[i] \in Texts THEN 1 ELSE 0
    BY <1>2, CountOne
  <2>2. bullets[i] \in Texts <=> bullets[i] # <<>>
    BY <1>2 DEF Texts
  <2>. QED
    BY <1>2, <1>6, <2>1, <2>2 DEF BulletOf
<1>8. CountIn(FlattenSeq(each), Starts) = CountIn(bullets, Texts)
  <2>1. CountIn(FlattenSeq(each), Starts) = CountIn(FlattenSeq(one), Texts)
    <3>1. SameCounts(each, Starts, one, Texts)
      BY <1>4, <1>6, <1>7 DEF SameCounts
    <3>. QED
      BY <1>4, <1>5, <3>1, CountFlattened
  <2>. QED
    BY <1>5, <2>1
<1>9. FlattenSeq(each) \in Seq(SolidItem)
  BY <1>4, FlattenType
<1>10. ASSUME NEW i \in DOMAIN bullets, bullets[i] # <<>>
       PROVE  FlattenSeq(each) # <<>>
  <2>1. i \in 1..Len(each) /\ each[i] # <<>>
    BY <1>1, <1>2, <1>4, <1>10 DEF BulletOf
  <2>. QED
    BY <1>4, <2>1, FlattenNonempty
<1>. QED
  BY <1>8, <1>9, <1>10 DEF each

\* A spacer follows an item that ends where its text does.
Tidy(items) ==
  \A i \in DOMAIN items : items[i].kind = "spacer" =>
    /\ i > 1 /\ Solid(items[i - 1])
    /\ items[i].before = 0 /\ items[i].height = 0

\* What an entry is laid out as.
Laid(entry, items) ==
  /\ items \in Seq(BodyItem)
  /\ CountIn(items, Starts) = CountIn(entry.bullets, Texts)
  /\ HasContent(entry) => Tidy(items)

LEMMA EntryLaid ==
  ASSUME NEW entry \in Entry, NEW section \in Nat
  PROVE  Laid(entry, EntryItems(entry, section))
<1>. DEFINE head == EntryHead(entry, section)
            lines == FlattenSeq([i \in DOMAIN entry.lines |->
                                   pushWrappedText(entry.lines[i], "line", section, 0)])
            bullets == FlattenSeq([i \in DOMAIN entry.bullets |->
                                     pushBulletParagraph(entry.bullets[i], section)])
            spacer == Item("spacer", section, 0, 1200, 0)
            front == head \o lines \o bullets
<1>1. /\ entry.heading \in Words /\ entry.date \in Words
      /\ entry.lines \in Seq(Words) /\ entry.bullets \in Seq(Words)
  BY DEF Entry
<1>2. /\ head \in Seq(PlainItem)
      /\ head = <<>> <=> entry.heading = <<>> /\ entry.date = <<>>
  BY EntryHeadItems
<1>3. /\ lines \in Seq(PlainItem)
      /\ (\E i \in DOMAIN entry.lines : entry.lines[i] # <<>>) => lines # <<>>
  BY <1>1, EntryLines
<1>4. /\ bullets \in Seq(SolidItem)
      /\ (\E i \in DOMAIN entry.bullets : entry.bullets[i] # <<>>) => bullets # <<>>
      /\ CountIn(bullets, Starts) = CountIn(entry.bullets, Texts)
  BY <1>1, EntryBullets
<1>5. /\ spacer \in BodyItem /\ spacer \notin Starts
      /\ spacer.kind = "spacer" /\ spacer.before = 0 /\ spacer.height = 0
  BY DEF Item, Height, BodyItem, LayoutItem, Kinds, PageTop, PageBottom, Starts, StartsBullet
<1>6. EntryItems(entry, section) = front \o <<spacer>>
  BY DEF EntryItems
<1>7. HasContent(entry) => \/ entry.heading # <<>> \/ entry.date # <<>>
                           \/ \E i \in DOMAIN entry.lines : entry.lines[i] # <<>>
                           \/ \E i \in DOMAIN entry.bullets : entry.bullets[i] # <<>>
  BY DEF HasContent
<1>. HIDE DEF head, lines, bullets, spacer
<1>8. /\ front \in Seq(SolidItem)
      /\ CountIn(front, Starts) = CountIn(entry.bullets, Texts)
      /\ head # <<>> \/ lines # <<>> \/ bullets # <<>> => front # <<>>
  <2>1. /\ head \o lines \in Seq(PlainItem)
        /\ head # <<>> \/ lines # <<>> => head \o lines # <<>>
    BY <1>2, <1>3, ConcatEnds
  <2>2. head \o lines \in Seq(SolidItem)
    BY <2>1, PlainIsSolid
  <2>3. CountIn(head \o lines, Starts) = 0
    BY <2>1, PlainIsSolid, CountNone
  <2>4. CountIn(front, Starts) = CountIn(head \o lines, Starts) + CountIn(bullets, Starts)
    BY <1>4, <2>2, CountConcat
  <2>5. CountIn(bullets, Starts) \in Nat
    BY <1>4, PlacesAreFinite
  <2>6. CountIn(front, Starts) = CountIn(entry.bullets, Texts)
    BY <1>4, <2>3, <2>4, <2>5
  <2>. QED
    BY <1>4, <2>1, <2>2, <2>6, ConcatEnds
<1>. HIDE DEF front
<1>9. front \in Seq(BodyItem) /\ front \o <<spacer>> = Append(front, spacer)
  <2>1. front \in Seq(BodyItem)
    BY <1>8, PlainIsSolid
  <2>. QED
    BY <1>5, <2>1, Appended
<1>10. PICK n \in Nat : /\ n = Len(front) /\ DOMAIN front = 1..n
                        /\ DOMAIN Append(front, spacer) = 1..(n + 1)
                        /\ Append(front, spacer) \in Seq(BodyItem)
                        /\ \A i \in 1..n : Append(front, spacer)[i] = front[i]
                        /\ Append(front, spacer)[n + 1] = spacer
  BY <1>5, <1>9, Appended, LenProperties
<1>11. CountIn(Append(front, spacer), Starts) = CountIn(front, Starts)
  <2>1. CountIn(front, Starts) \in Nat
    BY <1>9, PlacesAreFinite
  <2>. QED
    BY <1>5, <1>9, <2>1, CountAppend
<1>12. ASSUME HasContent(entry)
       PROVE  Tidy(Append(front, spacer))
  <2>1. n > 0
    <3>1. front # <<>>
      BY <1>2, <1>3, <1>4, <1>7, <1>8, <1>12
    <3>. QED
      BY <1>8, <1>10, <3>1, EmptySeq
  <2>2. \A i \in 1..n : front[i] \in SolidItem
    BY <1>8, <1>10, ElementOfSeq
  <2>3. \A i \in 1..n : front[i].kind # "spacer" /\ Solid(front[i])
    BY <2>2 DEF SolidItem, Solid
  <2>4. ASSUME NEW i \in 1..(n + 1), Append(front, spacer)[i].kind = "spacer"
        PROVE  i = n + 1
    BY <1>10, <2>3, <2>4
  <2>5. (n + 1) - 1 = n /\ n \in 1..n /\ n + 1 > 1
    BY <2>1
  <2>6. Append(front, spacer)[n] = front[n]
    BY <1>10, <2>5
  <2>. QED
    BY <1>5, <1>10, <2>3, <2>4, <2>5, <2>6 DEF Tidy
<1>. QED
  BY <1>6, <1>8, <1>9, <1>10, <1>11, <1>12 DEF Laid

LEMMA TidyConcat ==
  ASSUME NEW T, NEW s \in Seq(T), NEW t \in Seq(T), Tidy(s), Tidy(t)
  PROVE  Tidy(s \o t)
<1>1. PICK m \in Nat, n \in Nat : /\ m = Len(s) /\ n = Len(t)
                                  /\ DOMAIN s = 1..m /\ DOMAIN t = 1..n
  BY LenProperties
<1>. DEFINE st == s \o t
<1>2. /\ DOMAIN st = 1..(m + n)
      /\ \A j \in 1..(m + n) : st[j] = IF j <= m THEN s[j] ELSE t[j - m]
  BY <1>1, ConcatProperties, LenProperties
<1>. HIDE DEF st
<1>3. ASSUME NEW i \in 1..(m + n), st[i].kind = "spacer"
      PROVE  /\ i > 1 /\ Solid(st[i - 1])
             /\ st[i].before = 0 /\ st[i].height = 0
  <2>1. CASE i <= m
    <3>1. i \in 1..m /\ st[i] = s[i]
      BY <1>2, <2>1
    <3>2. i > 1 /\ Solid(s[i - 1]) /\ s[i].before = 0 /\ s[i].height = 0
      BY <1>1, <1>3, <3>1 DEF Tidy
    <3>3. st[i - 1] = s[i - 1]
      BY <1>2, <3>1, <3>2
    <3>. QED
      BY <3>1, <3>2, <3>3
  <2>2. CASE i > m
    <3>1. i - m \in 1..n /\ st[i] = t[i - m]
      BY <1>2, <2>2
    <3>2. i - m > 1 /\ Solid(t[(i - m) - 1]) /\ t[i - m].before = 0 /\ t[i - m].height = 0
      BY <1>1, <1>3, <3>1 DEF Tidy
    <3>3. i > 1 /\ i - 1 \in 1..(m + n) /\ ~(i - 1 <= m) /\ (i - 1) - m = (i - m) - 1
      BY <3>1, <3>2
    <3>4. st[i - 1] = t[(i - m) - 1]
      BY <1>2, <3>3
    <3>. QED
      BY <3>1, <3>2, <3>3, <3>4
  <2>. QED
    BY <2>1, <2>2
<1>. QED
  BY <1>2, <1>3 DEF st, Tidy

LEMMA TidyEmpty == Tidy(<<>>)
  BY DEF Tidy

AllTidy(ss) == \A i \in 1..Len(ss) : Tidy(ss[i])

LEMMA TidyFlattened ==
  ASSUME NEW T, NEW ss \in Seq(Seq(T)), AllTidy(ss)
  PROVE  Tidy(FlattenSeq(ss))
<1>. DEFINE P == {tt \in Seq(Seq(T)) : AllTidy(tt) => Tidy(FlattenSeq(tt))}
<1>1. <<>> \in P
  BY FlattenEmpty, TidyEmpty, EmptySeq
<1>2. ASSUME NEW tt \in P, NEW s \in Seq(T)
      PROVE  Append(tt, s) \in P
  <2>1. tt \in Seq(Seq(T)) /\ (AllTidy(tt) => Tidy(FlattenSeq(tt)))
    OBVIOUS
  <2>2. Append(tt, s) \in Seq(Seq(T))
    BY <2>1
  <2>3. AllTidy(Append(tt, s)) => AllTidy(tt) /\ Tidy(s)
    <3>1. PICK n \in Nat : /\ n = Len(tt) /\ Len(Append(tt, s)) = n + 1
                           /\ \A i \in 1..n : Append(tt, s)[i] = tt[i]
                           /\ Append(tt, s)[n + 1] = s
      BY <2>1
    <3>2. (n + 1) \in 1..(n + 1) /\ \A i \in 1..n : i \in 1..(n + 1)
      OBVIOUS
    <3>. QED
      BY <3>1, <3>2 DEF AllTidy
  <2>4. FlattenSeq(tt) \in Seq(T) /\ FlattenSeq(Append(tt, s)) = FlattenSeq(tt) \o s
    BY <2>1, FlattenAppend
  <2>5. AllTidy(Append(tt, s)) => Tidy(FlattenSeq(Append(tt, s)))
    BY <2>1, <2>3, <2>4, TidyConcat
  <2>. QED
    BY <2>2, <2>5
<1>3. P \in SUBSET Seq(Seq(T))
  OBVIOUS
<1>. HIDE DEF P
<1>4. P = Seq(Seq(T))
  BY <1>1, <1>2, <1>3, SequenceInduction
<1>5. ss \in P
  BY <1>4
<1>. QED
  BY <1>5 DEF P

Section == [title : Nat, entries : Seq(Entry)]

\* The bullets of a section, and what it is laid out as.
BulletsOf(entries) == FlattenSeq([e \in DOMAIN entries |-> entries[e].bullets])

SaysSomething(entries) == \A e \in DOMAIN entries : HasContent(entries[e])

LaidSection(entries, section, items) ==
  /\ items \in Seq(BodyItem) /\ items # <<>>
  /\ items[1].kind = "section" /\ items[1].height = Height.section
  /\ section = 1 => items[1].before = 0
  /\ CountIn(items, Starts) = CountIn(BulletsOf(entries), Texts)
  /\ SaysSomething(entries) => Tidy(items)

LEMMA SectionLaid ==
  ASSUME NEW length \in Nat, NEW entries \in Seq(Entry), NEW section \in Nat
  PROVE  LaidSection(entries, section, SectionItems(length, entries, section))
<1>. DEFINE each == [e \in DOMAIN entries |-> EntryItems(entries[e], section)]
            bullets == [e \in DOMAIN entries |-> entries[e].bullets]
            title == Item("section", section, IF section = 1 THEN 0 ELSE 3000, 3600, length)
<1>1. PICK n \in Nat : n = Len(entries) /\ DOMAIN entries = 1..n
  BY LenProperties
<1>2. ASSUME NEW e \in 1..n
      PROVE  Laid(entries[e], each[e]) /\ bullets[e] \in Seq(Words)
  <2>1. entries[e] \in Entry
    BY <1>1, ElementOfSeq
  <2>2. each[e] = EntryItems(entries[e], section) /\ bullets[e] = entries[e].bullets
    BY <1>1
  <2>3. entries[e].bullets \in Seq(Words)
    BY <2>1 DEF Entry
  <2>. HIDE DEF each, bullets
  <2>. QED
    BY <2>1, <2>2, <2>3, EntryLaid
<1>3. each \in [DOMAIN entries -> Seq(BodyItem)] /\ bullets \in [DOMAIN entries -> Seq(Words)]
  BY <1>1, <1>2 DEF Laid
<1>4. \A e \in 1..n : bullets[e] = entries[e].bullets
  BY <1>1
<1>5. /\ title \in BodyItem /\ title \notin Starts
      /\ title.kind = "section" /\ title.height = Height.section
      /\ section = 1 => title.before = 0
  BY DEF Item, Height, BodyItem, LayoutItem, Kinds, PageTop, PageBottom, Starts, StartsBullet
<1>6. /\ SectionItems(length, entries, section) = <<title>> \o FlattenSeq(each)
      /\ BulletsOf(entries) = FlattenSeq(bullets)
  BY DEF SectionItems, BulletsOf
<1>. HIDE DEF each, bullets, title
<1>7. /\ each \in Seq(Seq(BodyItem)) /\ Len(each) = n
      /\ bullets \in Seq(Seq(Words)) /\ Len(bullets) = n
  BY <1>1, <1>3, OneEach
<1>8. FlattenSeq(each) \in Seq(BodyItem)
  BY <1>7, FlattenType
<1>9. /\ <<title>> \in Seq(BodyItem) /\ <<title>> # <<>> /\ <<title>>[1] = title
      /\ CountIn(<<title>>, Starts) = 0
  BY <1>5, CountOne
<1>10. CountIn(FlattenSeq(each), Starts) = CountIn(FlattenSeq(bullets), Texts)
  <2>1. SameCounts(each, Starts, bullets, Texts)
    BY <1>2, <1>4, <1>7 DEF SameCounts, Laid
  <2>. QED
    BY <1>7, <2>1, CountFlattened
<1>11. CountIn(<<title>> \o FlattenSeq(each), Starts) = CountIn(FlattenSeq(bullets), Texts)
  <2>1. CountIn(<<title>> \o FlattenSeq(each), Starts)
          = CountIn(<<title>>, Starts) + CountIn(FlattenSeq(each), Starts)
    BY <1>8, <1>9, CountConcat
  <2>2. CountIn(FlattenSeq(each), Starts) \in Nat
    BY <1>8, PlacesAreFinite
  <2>. QED
    BY <1>9, <1>10, <2>1, <2>2
<1>12. ASSUME SaysSomething(entries)
       PROVE  Tidy(<<title>> \o FlattenSeq(each))
  <2>1. AllTidy(each)
    BY <1>1, <1>2, <1>7, <1>12 DEF AllTidy, SaysSomething, Laid
  <2>2. Tidy(FlattenSeq(each))
    BY <1>7, <2>1, TidyFlattened
  <2>3. Tidy(<<title>>)
    BY <1>5 DEF Tidy
  <2>. QED
    BY <1>8, <1>9, <2>2, <2>3, TidyConcat
<1>13. /\ <<title>> \o FlattenSeq(each) \in Seq(BodyItem)
       /\ <<title>> \o FlattenSeq(each) # <<>>
       /\ (<<title>> \o FlattenSeq(each))[1] = title
  BY <1>8, <1>9, ConcatEnds
<1>. QED
  BY <1>5, <1>6, <1>11, <1>12, <1>13 DEF LaidSection

\* The items above the rule.
HeadItem == {x \in LayoutItem : x.kind \in {"name", "contact"} /\ x.of = 0}

Rule == Item("rule", 0, 5500, 6000, 0)

\* The head of the page is lines of text and the rule.
LEMMA HeadLaid ==
  ASSUME NEW document \in Document
  PROVE  \E front \in Seq(HeadItem) : HeadItems(document) = front \o <<Rule>>
<1>. DEFINE lines == wrapText(document.name, Room.name)
            names == [i \in DOMAIN lines |->
                        Item("name", 0, 0, IF i = Len(lines) THEN 1500 ELSE 0, lines[i])]
            contacts == [i \in DOMAIN document.headerLines |->
                           Item("contact", 0, 0, 0, document.headerLines[i])]
<1>1. /\ document.name \in Words /\ document.headerLines \in Seq(Nat \ {0})
      /\ Room.name \in Nat \ {0}
  BY DEF Document, Room
<1>2. lines \in Seq(Nat)
  BY <1>1, WrappedText
<1>3. HeadItems(document) = names \o contacts \o <<Rule>>
  BY DEF HeadItems, Rule
<1>. HIDE DEF lines
<1>4. ASSUME NEW i \in DOMAIN lines
      PROVE  Item("name", 0, 0, IF i = Len(lines) THEN 1500 ELSE 0, lines[i]) \in HeadItem
  <2>1. lines[i] \in Nat
    BY <1>2, ElementOfSeq, LenProperties
  <2>2. PICK after \in Nat : after = IF i = Len(lines) THEN 1500 ELSE 0
    OBVIOUS
  <2>3. Item("name", 0, 0, after, lines[i]) \in HeadItem
    BY <2>1 DEF Item, Height, HeadItem, LayoutItem, Kinds, PageTop, PageBottom
  <2>. QED
    BY <2>2, <2>3
<1>5. names \in [DOMAIN lines -> HeadItem]
  BY <1>4
<1>6. \A n \in Nat : Item("contact", 0, 0, 0, n) \in HeadItem
  BY DEF Item, Height, HeadItem, LayoutItem, Kinds, PageTop, PageBottom
<1>7. contacts \in Seq(HeadItem)
  <2>1. ASSUME NEW i \in DOMAIN document.headerLines
        PROVE  document.headerLines[i] \in Nat
    BY <1>1, ElementOfSeq, LenProperties
  <2>2. contacts \in [DOMAIN document.headerLines -> HeadItem]
    BY <1>6, <2>1
  <2>. HIDE DEF contacts
  <2>. QED
    BY <1>1, <2>2, OneEach
<1>. HIDE DEF names, contacts
<1>8. names \in Seq(HeadItem)
  BY <1>2, <1>5, OneEach
<1>9. names \o contacts \in Seq(HeadItem)
  BY <1>7, <1>8, ConcatEnds
<1>. QED
  BY <1>3, <1>9

\* Below the rule is the first section.
RuleIsFollowed(items) ==
  \A i \in DOMAIN items : items[i].kind = "rule" =>
    /\ items[i] = Rule /\ i + 1 \in DOMAIN items
    /\ items[i + 1].kind = "section" /\ items[i + 1].before = 0
    /\ items[i + 1].height = Height.section

AllBullets(document) ==
  FlattenSeq([s \in DOMAIN document.sections |-> BulletsOf(document.sections[s].entries)])

IsFull(document) ==
  /\ document.sections # <<>>
  /\ \A s \in DOMAIN document.sections : SaysSomething(document.sections[s].entries)

LaidDocument(document, items) ==
  /\ items \in Seq(LayoutItem) /\ items # <<>>
  /\ CountIn(items, Starts) = CountIn(AllBullets(document), Texts)
  /\ IsFull(document) => Tidy(items) /\ RuleIsFollowed(items)

LEMMA BulletsAreTexts ==
  ASSUME NEW entries \in Seq(Entry)
  PROVE  BulletsOf(entries) \in Seq(Words)
<1>. DEFINE bullets == [e \in DOMAIN entries |-> entries[e].bullets]
<1>1. ASSUME NEW e \in DOMAIN entries PROVE entries[e].bullets \in Seq(Words)
  <2>1. entries[e] \in Entry
    BY ElementOfSeq, LenProperties
  <2>. QED
    BY <2>1 DEF Entry
<1>2. bullets \in [DOMAIN entries -> Seq(Words)]
  BY <1>1
<1>. HIDE DEF bullets
<1>3. bullets \in Seq(Seq(Words))
  BY <1>2, OneEach
<1>. QED
  BY <1>3, FlattenType DEF BulletsOf, bullets

LEMMA DocumentLaid ==
  ASSUME NEW document \in Document
  PROVE  /\ LaidDocument(document, buildLayout(document))
         /\ AllBullets(document) \in Seq(Words)
<1>. DEFINE sections == document.sections
            each == [s \in DOMAIN sections |->
                       SectionItems(sections[s].title, sections[s].entries, s)]
            bullets == [s \in DOMAIN sections |-> BulletsOf(sections[s].entries)]
            body == FlattenSeq(each)
<1>1. sections \in Seq(Section)
  BY DEF Document, Section, Entry
<1>2. /\ buildLayout(document) = HeadItems(document) \o body
      /\ AllBullets(document) = FlattenSeq(bullets)
  BY DEF buildLayout, AllBullets
<1>. HIDE DEF sections
<1>3. PICK n \in Nat : n = Len(sections) /\ DOMAIN sections = 1..n
  BY <1>1, LenProperties
<1>4. ASSUME NEW s \in 1..n
      PROVE  LaidSection(sections[s].entries, s, each[s]) /\ bullets[s] \in Seq(Words)
  <2>1. /\ sections[s].title \in Nat /\ sections[s].entries \in Seq(Entry) /\ s \in Nat
    <3>1. sections[s] \in Section
      BY <1>1, <1>3, ElementOfSeq
    <3>. QED
      BY <3>1 DEF Section
  <2>2. /\ each[s] = SectionItems(sections[s].title, sections[s].entries, s)
        /\ bullets[s] = BulletsOf(sections[s].entries)
    BY <1>3
  <2>. HIDE DEF each, bullets
  <2>. QED
    BY <2>1, <2>2, SectionLaid, BulletsAreTexts
<1>5. /\ each \in [DOMAIN sections -> Seq(BodyItem)]
      /\ bullets \in [DOMAIN sections -> Seq(Words)]
  BY <1>3, <1>4 DEF LaidSection
<1>6. \A s \in 1..n : bullets[s] = BulletsOf(sections[s].entries)
  BY <1>3
<1>. HIDE DEF each, bullets
<1>7. /\ each \in Seq(Seq(BodyItem)) /\ Len(each) = n
      /\ bullets \in Seq(Seq(Words)) /\ Len(bullets) = n
      /\ each = <<>> <=> sections = <<>>
  <2>1. each \in Seq(Seq(BodyItem)) /\ Len(each) = Len(sections) /\ (each = <<>> <=> sections = <<>>)
    BY <1>1, <1>5, OneEach
  <2>2. bullets \in Seq(Seq(Words)) /\ Len(bullets) = Len(sections)
    BY <1>1, <1>5, OneEach
  <2>. QED
    BY <1>3, <2>1, <2>2
<1>8. body \in Seq(BodyItem) /\ FlattenSeq(bullets) \in Seq(Words)
  BY <1>7, FlattenType
<1>9. CountIn(body, Starts) = CountIn(FlattenSeq(bullets), Texts)
  <2>1. SameCounts(each, Starts, bullets, Texts)
    BY <1>4, <1>6, <1>7 DEF SameCounts, LaidSection
  <2>. QED
    BY <1>7, <2>1, CountFlattened
<1>10. sections # <<>> => /\ body # <<>> /\ body[1].kind = "section" /\ body[1].before = 0
                          /\ body[1].height = Height.section
  <2>1. SUFFICES ASSUME sections # <<>>
                 PROVE  /\ body # <<>> /\ body[1].kind = "section" /\ body[1].before = 0
                        /\ body[1].height = Height.section
    OBVIOUS
  <2>2. 1 \in 1..n /\ each # <<>>
    BY <1>1, <1>3, <1>7, <2>1, EmptySeq
  <2>3. each[1] # <<>> /\ each[1][1].kind = "section" /\ each[1][1].before = 0
        /\ each[1][1].height = Height.section
    BY <1>4, <2>2 DEF LaidSection
  <2>4. body # <<>> /\ body[1] = each[1][1]
    BY <1>7, <2>2, <2>3, FlattenHead, FlattenNonempty
  <2>. QED
    BY <2>3, <2>4
<1>11. ASSUME IsFull(document)
       PROVE  Tidy(body)
  <2>1. AllTidy(each)
    BY <1>3, <1>4, <1>7, <1>11 DEF AllTidy, IsFull, LaidSection, sections
  <2>. QED
    BY <1>7, <2>1, TidyFlattened
<1>. HIDE DEF body
<1>12. PICK front \in Seq(HeadItem) : HeadItems(document) = front \o <<Rule>>
  BY HeadLaid
<1>13. Rule \in LayoutItem /\ Rule \notin Starts /\ Rule.kind = "rule"
  BY DEF Rule, Item, Height, LayoutItem, Kinds, PageTop, PageBottom, Starts, StartsBullet
<1>14. HeadItem \subseteq LayoutItem /\ HeadItem \cap Starts = {}
  BY DEF HeadItem, Starts, StartsBullet
<1>15. PICK m \in Nat : /\ m = Len(front) /\ front \in Seq(LayoutItem)
                        /\ \A i \in 1..m : front[i] \in HeadItem
  <2>1. front \in Seq(LayoutItem)
    BY <1>14, SeqMonotonic
  <2>2. Len(front) \in Nat /\ \A i \in 1..Len(front) : front[i] \in HeadItem
    BY ElementOfSeq, LenProperties
  <2>. QED
    BY <2>1, <2>2
<1>. DEFINE head == front \o <<Rule>>
<1>16. /\ head \in Seq(LayoutItem) /\ Len(head) = m + 1 /\ DOMAIN head = 1..(m + 1)
       /\ \A i \in 1..m : head[i] \in HeadItem
       /\ head[m + 1] = Rule /\ head # <<>>
       /\ CountIn(head, Starts) = 0
  <2>1. head = Append(front, Rule)
    BY <1>13, <1>15, Appended
  <2>2. /\ Append(front, Rule) \in Seq(LayoutItem) /\ Len(Append(front, Rule)) = m + 1
        /\ \A i \in 1..m : Append(front, Rule)[i] = front[i]
        /\ Append(front, Rule)[m + 1] = Rule
    BY <1>13, <1>15, Appended
  <2>3. CountIn(front, Starts) = 0
    BY <1>14, CountNone
  <2>4. CountIn(Append(front, Rule), Starts) = 0
    BY <1>13, <1>15, <2>3, CountAppend
  <2>5. DOMAIN Append(front, Rule) = 1..(m + 1) /\ Append(front, Rule) # <<>>
    BY <2>2, LenProperties, EmptySeq
  <2>. HIDE DEF head
  <2>. QED
    BY <1>15, <2>1, <2>2, <2>4, <2>5
<1>17. body \in Seq(LayoutItem)
  BY <1>8, PlainIsSolid
<1>. HIDE DEF head
<1>18. /\ head \o body \in Seq(LayoutItem) /\ head \o body # <<>>
       /\ CountIn(head \o body, Starts) = CountIn(FlattenSeq(bullets), Texts)
  <2>1. CountIn(head \o body, Starts) = CountIn(head, Starts) + CountIn(body, Starts)
    BY <1>16, <1>17, CountConcat
  <2>2. CountIn(body, Starts) \in Nat
    BY <1>17, PlacesAreFinite
  <2>. QED
    BY <1>9, <1>16, <1>17, <2>1, <2>2, ConcatEnds
<1>19. ASSUME IsFull(document)
       PROVE  Tidy(head \o body) /\ RuleIsFollowed(head \o body)
  <2>1. sections # <<>>
    BY <1>19 DEF IsFull, sections
  <2>2. Tidy(head)
    <3>1. ASSUME NEW i \in 1..(m + 1) PROVE head[i].kind # "spacer"
      BY <1>13, <1>16 DEF HeadItem
    <3>. QED
      BY <1>16, <3>1 DEF Tidy
  <2>3. Tidy(head \o body)
    BY <1>11, <1>16, <1>17, <1>19, <2>2, TidyConcat
  <2>4. PICK k \in Nat : /\ k = Len(body) /\ k > 0 /\ \A i \in 1..k : body[i].kind # "rule"
    <3>1. Len(body) \in Nat /\ Len(body) > 0
      BY <1>8, <1>10, <2>1, EmptySeq
    <3>2. \A i \in 1..Len(body) : body[i] \in BodyItem
      BY <1>8, ElementOfSeq
    <3>3. \A x \in BodyItem : x.kind # "rule"
      BY DEF BodyItem
    <3>. QED
      BY <3>1, <3>2, <3>3
  <2>. DEFINE all == head \o body
  <2>5. /\ DOMAIN all = 1..(m + 1 + k)
        /\ \A i \in 1..(m + 1 + k) : all[i] = IF i <= m + 1 THEN head[i] ELSE body[i - (m + 1)]
    <3>1. Joined(head, body, Len(head), Len(body), all)
      BY <1>16, <1>17, ConcatAt
    <3>. HIDE DEF all
    <3>2. Joined(head, body, m + 1, k, all)
      BY <1>16, <2>4, <3>1
    <3>. QED
      BY <3>2 DEF Joined
  <2>. HIDE DEF all
  <2>6. ASSUME NEW i \in 1..(m + 1 + k), all[i].kind = "rule"
        PROVE  i = m + 1
    <3>1. CASE i <= m
      <4>1. i \in 1..m /\ all[i] = head[i]
        BY <2>5, <3>1
      <4>2. \A x \in HeadItem : x.kind # "rule"
        BY DEF HeadItem
      <4>. QED
        BY <1>16, <2>6, <4>1, <4>2
    <3>2. CASE i > m + 1
      <4>1. i - (m + 1) \in 1..k /\ all[i] = body[i - (m + 1)]
        BY <2>5, <3>2
      <4>. QED
        BY <2>4, <2>6, <4>1
    <3>. QED
      BY <3>1, <3>2
  <2>7. all[m + 1] = Rule /\ all[m + 2] = body[1] /\ m + 2 \in 1..(m + 1 + k)
    <3>1. m + 1 \in 1..(m + 1 + k) /\ m + 2 \in 1..(m + 1 + k)
      BY <2>4
    <3>2. all[m + 1] = head[m + 1] /\ all[m + 2] = body[1]
      BY <2>5, <3>1
    <3>. QED
      BY <1>16, <3>1, <3>2
  <2>8. RuleIsFollowed(all)
    <3>1. ASSUME NEW i \in DOMAIN all, all[i].kind = "rule"
          PROVE  /\ all[i] = Rule /\ i + 1 \in DOMAIN all
                 /\ all[i + 1].kind = "section" /\ all[i + 1].before = 0
                 /\ all[i + 1].height = Height.section
      <4>1. i = m + 1 /\ i + 1 = m + 2
        BY <2>5, <2>6, <3>1
      <4>. QED
        BY <1>10, <2>1, <2>5, <2>7, <4>1
    <3>. QED
      BY <3>1 DEF RuleIsFollowed
  <2>. QED
    BY <2>3, <2>8 DEF all
<1>20. buildLayout(document) = head \o body
  BY <1>2, <1>12 DEF head
<1>. QED
  BY <1>2, <1>8, <1>18, <1>19, <1>20 DEF LaidDocument

----------------------------------------------------------------------------
(* The pages.                                                              *)

\* How far down a page the drawing gets.
Drawn(page, y) ==
  /\ y \in [0..Len(page) -> Int] /\ y[0] = PageTop
  /\ \A i \in 1..Len(page) : y[i] = Below(y[i - 1], page[i])
  /\ \A i \in 0..Len(page) : y[i] <= PageTop

LEMMA DrawingSteps ==
  ASSUME NEW page \in Seq(LayoutItem)
  PROVE  Drawn(page, Drawing(page))
<1>1. PICK n \in Nat : n = Len(page) /\ page \in [1..n -> LayoutItem]
  BY LenProperties
<1>. DEFINE V == {y \in Int : y <= PageTop}
            Lower(i, y) == Below(y, page[i])
            step == [i \in 1..n |-> [y \in V |-> Lower(i, y)]]
            Body(h) == [i \in 0..n |-> IF i = 0 THEN PageTop ELSE Lower(i, h[i - 1])]
            below == CHOOSE h : h = Body(h)
<1>2. ASSUME NEW i \in 1..n, NEW y \in V PROVE Lower(i, y) \in V
  <2>1. /\ page[i] \in LayoutItem /\ y \in Int /\ y <= PageTop /\ PageTop \in Int
    BY <1>1 DEF PageTop
  <2>2. page[i].before \in Nat /\ page[i].height \in Nat /\ page[i].after \in Nat
    BY <2>1 DEF LayoutItem
  <2>3. \A u, top \in Int : \A b, h, a \in Nat :
          u <= top => u - (b + h + a) \in Int /\ u - (b + h + a) <= top
    OBVIOUS
  <2>4. Below(y, page[i]) \in Int /\ Below(y, page[i]) <= PageTop
    BY <2>1, <2>2, <2>3 DEF Below
  <2>. QED
    BY <2>4
<1>3. Drawing(page) = below
  BY <1>1 DEF Drawing
<1>4. PageTop \in V
  BY DEF PageTop
<1>. HIDE DEF Lower, V
<1>5. step \in [1..n -> [V -> V]] /\ \A i \in 1..n, y \in V : step[i][y] = Lower(i, y)
  BY <1>2
<1>. HIDE DEF step
<1>6. Iterated(n, V, PageTop, step)
  BY <1>4, <1>5, Iterates
<1>7. PICK f \in [0..n -> V] : f[0] = PageTop /\ \A i \in 1..n : f[i] = step[i][f[i - 1]]
  BY <1>6 DEF Iterated
<1>8. f = Body(f)
  <2>1. ASSUME NEW i \in 0..n PROVE f[i] = IF i = 0 THEN PageTop ELSE Lower(i, f[i - 1])
    <3>1. CASE i # 0
      <4>1. i \in 1..n /\ i - 1 \in 0..n
        BY <3>1
      <4>. QED
        BY <1>5, <1>7, <3>1, <4>1
    <3>. QED
      BY <1>7, <3>1
  <2>. QED
    BY <2>1
<1>9. below = Body(below)
  <2>. HIDE DEF Body
  <2>. QED
    BY <1>8
<1>. HIDE DEF below
<1>10. /\ below[0] = PageTop /\ \A i \in 1..n : below[i] = Lower(i, below[i - 1])
       /\ below = [i \in 0..n |-> below[i]]
  <2>1. \A i \in 0..n : below[i] = IF i = 0 THEN PageTop ELSE Lower(i, below[i - 1])
    BY <1>9
  <2>2. below = [i \in 0..n |-> below[i]]
    BY <1>9
  <2>3. 0 \in 0..n /\ \A i \in 1..n : i \in 0..n /\ i # 0
    OBVIOUS
  <2>. QED
    BY <2>1, <2>2, <2>3
<1>. DEFINE S == {i \in 0..n : below[i] \in V}
<1>11. ASSUME NEW k \in 1..n, k - 1 \in S PROVE k \in S
  <2>1. below[k - 1] \in V /\ below[k] = Lower(k, below[k - 1])
    BY <1>10, <1>11
  <2>. QED
    BY <1>2, <2>1
<1>12. 0 \in S /\ S \in SUBSET (0..n)
  BY <1>4, <1>10
<1>. HIDE DEF S
<1>13. S = 0..n
  BY <1>11, <1>12, Induction
<1>14. \A i \in 0..n : below[i] \in V
  <2>1. \A i \in 0..n : i \in S
    BY <1>13
  <2>. QED
    BY <2>1 DEF S
<1>15. \A i \in 0..n : below[i] \in Int /\ below[i] <= PageTop
  BY <1>14 DEF V
<1>16. below \in [0..n -> Int]
  BY <1>10, <1>15
<1>. QED
  BY <1>1, <1>3, <1>10, <1>15, <1>16 DEF Drawn, Lower

\* An item put on a page leaves the items above where they are.
LEMMA DrawingAppend ==
  ASSUME NEW page \in Seq(LayoutItem), NEW x \in LayoutItem, NEW i \in 0..Len(page)
  PROVE  Drawing(Append(page, x))[i] = Drawing(page)[i]
<1>. DEFINE longer == Append(page, x)
            y == Drawing(page)
            z == Drawing(longer)
<1>1. PICK n \in Nat : /\ n = Len(page) /\ longer \in Seq(LayoutItem) /\ Len(longer) = n + 1
                       /\ \A j \in 1..n : longer[j] = page[j]
  BY Appended
<1>. HIDE DEF longer
<1>2. Drawn(page, y) /\ Drawn(longer, z)
  BY <1>1, DrawingSteps
<1>. HIDE DEF y, z
<1>. DEFINE S == {j \in 0..n : z[j] = y[j]}
<1>3. 0 \in S
  BY <1>2 DEF Drawn
<1>4. ASSUME NEW k \in 1..n, k - 1 \in S PROVE k \in S
  <2>1. z[k - 1] = y[k - 1] /\ k \in 1..(n + 1)
    BY <1>4
  <2>2. y[k] = Below(y[k - 1], page[k])
    BY <1>1, <1>2 DEF Drawn
  <2>3. z[k] = Below(z[k - 1], longer[k]) /\ longer[k] = page[k]
    BY <1>1, <1>2, <2>1 DEF Drawn
  <2>4. z[k] = y[k]
    BY <2>1, <2>2, <2>3
  <2>. QED
    BY <2>4
<1>5. S \in SUBSET (0..n)
  OBVIOUS
<1>. HIDE DEF S
<1>6. S = 0..n
  BY <1>3, <1>4, <1>5, Induction
<1>7. i \in S
  BY <1>1, <1>6
<1>. QED
  BY <1>7 DEF S, y, z, longer

InMargins(page) ==
  \A i \in 1..Len(page) :
    /\ Drawing(page)[i - 1] - page[i].before <= PageTop
    /\ Drawing(page)[i - 1] - page[i].before - page[i].height >= PageBottom

EndOf(page) == Drawing(page)[Len(page)]

LEMMA MarginsAppend ==
  ASSUME NEW page \in Seq(LayoutItem), NEW x \in LayoutItem, InMargins(page),
         Fits(EndOf(page), x)
  PROVE  /\ InMargins(Append(page, x))
         /\ EndOf(Append(page, x)) = Below(EndOf(page), x)
<1>. DEFINE longer == Append(page, x)
<1>1. PICK n \in Nat : /\ n = Len(page) /\ longer \in Seq(LayoutItem) /\ Len(longer) = n + 1
                       /\ \A j \in 1..n : longer[j] = page[j]
                       /\ longer[n + 1] = x
  BY Appended
<1>2. \A j \in 0..n : Drawing(longer)[j] = Drawing(page)[j]
  BY <1>1, DrawingAppend
<1>. HIDE DEF longer
<1>3. Drawn(page, Drawing(page)) /\ Drawn(longer, Drawing(longer))
  BY <1>1, DrawingSteps
<1>4. PICK end \in Int : end = Drawing(page)[n] /\ end <= PageTop /\ end = EndOf(page)
  <2>1. n \in 0..Len(page) /\ EndOf(page) = Drawing(page)[n]
    BY <1>1 DEF EndOf
  <2>2. Drawing(page)[n] \in Int /\ Drawing(page)[n] <= PageTop
    BY <1>3, <2>1 DEF Drawn
  <2>. QED
    BY <2>1, <2>2
<1>5. x.before \in Nat /\ x.height \in Nat
  BY DEF LayoutItem
<1>6. ASSUME NEW i \in 1..(n + 1)
      PROVE  /\ Drawing(longer)[i - 1] - longer[i].before <= PageTop
             /\ Drawing(longer)[i - 1] - longer[i].before - longer[i].height >= PageBottom
  <2>1. i - 1 \in 0..n /\ Drawing(longer)[i - 1] = Drawing(page)[i - 1]
    BY <1>2
  <2>2. CASE i = n + 1
    <3>0. i - 1 = n
      BY <2>2
    <3>1. longer[i] = x /\ Drawing(longer)[i - 1] = end
      BY <1>1, <1>4, <2>1, <2>2, <3>0
    <3>2. end - x.before <= PageTop /\ end - x.before - x.height >= PageBottom
      BY <1>4, <1>5 DEF Fits, PageTop, PageBottom
    <3>. QED
      BY <3>1, <3>2
  <2>3. CASE i # n + 1
    <3>1. i \in 1..n /\ longer[i] = page[i]
      BY <1>1, <2>3
    <3>. QED
      BY <1>1, <2>1, <3>1 DEF InMargins
  <2>. QED
    BY <2>2, <2>3
<1>7. Drawing(longer)[n + 1] = Below(end, x)
  <2>1. n + 1 \in 1..(n + 1) /\ (n + 1) - 1 = n /\ n \in 0..n
    OBVIOUS
  <2>2. Drawing(longer)[n + 1] = Below(Drawing(longer)[(n + 1) - 1], longer[n + 1])
    BY <1>1, <1>3, <2>1 DEF Drawn
  <2>. QED
    BY <1>1, <1>2, <1>4, <2>1, <2>2
<1>8. InMargins(longer)
  BY <1>1, <1>6 DEF InMargins
<1>9. EndOf(longer) = Below(EndOf(page), x)
  BY <1>1, <1>4, <1>7 DEF EndOf
<1>. QED
  BY <1>8, <1>9 DEF longer

LEMMA EmptyPage == <<>> \in Seq(LayoutItem) /\ InMargins(<<>>) /\ EndOf(<<>>) = PageTop
<1>1. <<>> \in Seq(LayoutItem) /\ Len(<<>>) = 0
  BY EmptySeq
<1>2. Drawing(<<>>)[0] = PageTop
  BY <1>1, DrawingSteps DEF Drawn
<1>. QED
  BY <1>1, <1>2 DEF InMargins, EndOf

Placed == [pages : Seq(Seq(LayoutItem)) \ {<<>>}, y : Int]

AtStart == [pages |-> <<(<<>>)>>, y |-> PageTop]

At(front, last, y) == [pages |-> Append(front, last), y |-> y]

LEMMA Replaced ==
  ASSUME NEW q, NEW u, NEW p, NEW z
  PROVE  [[pages |-> q, y |-> u] EXCEPT !.pages = p, !.y = z] = [pages |-> p, y |-> z]
<1>. DEFINE before == [pages |-> q, y |-> u]
            between == [before EXCEPT !.pages = p]
<1>1. between = [pages |-> p, y |-> u]
  OBVIOUS
<1>2. [[pages |-> p, y |-> u] EXCEPT !.y = z] = [pages |-> p, y |-> z]
  OBVIOUS
<1>. HIDE DEF before, between
<1>3. [between EXCEPT !.y = z] = [pages |-> p, y |-> z]
  BY <1>1, <1>2
<1>. QED
  BY <1>3 DEF before, between

\* An item is put on the last page or begins the next one.
LEMMA PutOnPages ==
  ASSUME NEW front \in Seq(Seq(LayoutItem)), NEW last \in Seq(LayoutItem), NEW y \in Int,
         NEW x \in LayoutItem
  PROVE  PutOn(At(front, last, y), x) =
           IF Fits(y, x) THEN At(front, Append(last, x), Below(y, x))
                         ELSE At(Append(front, last), <<x>>, Below(PageTop, x))
<1>. DEFINE pages == Append(front, last)
            new == Append(last, x)
<1>1. PICK n \in Nat : /\ n = Len(front) /\ pages \in Seq(Seq(LayoutItem)) /\ Len(pages) = n + 1
                       /\ DOMAIN pages = 1..(n + 1)
                       /\ \A i \in 1..n : pages[i] = front[i]
                       /\ pages[n + 1] = last
  BY Appended, LenProperties
<1>2. new \in Seq(LayoutItem)
  BY Appended
<1>3. /\ Append(front, new) \in Seq(Seq(LayoutItem)) /\ Len(Append(front, new)) = n + 1
      /\ \A i \in 1..n : Append(front, new)[i] = front[i]
      /\ Append(front, new)[n + 1] = new
  BY <1>1, <1>2, Appended
<1>4. At(front, last, y).pages = pages /\ At(front, last, y).y = y
  BY DEF At
<1>. HIDE DEF pages
<1>5. [pages EXCEPT ![n + 1] = Append(@, x)] = Append(front, new)
  <2>. DEFINE u == [pages EXCEPT ![n + 1] = Append(@, x)]
              v == Append(front, new)
  <2>1. u = [pages EXCEPT ![n + 1] = new]
    BY <1>1
  <2>2. n + 1 \in 1..Len(pages)
    BY <1>1
  <2>3. /\ u \in Seq(Seq(LayoutItem)) /\ Len(u) = n + 1
        /\ \A j \in 1..(n + 1) : u[j] = IF j = n + 1 THEN new ELSE pages[j]
    <3>. HIDE DEF new
    <3>1. /\ [pages EXCEPT ![n + 1] = new] \in Seq(Seq(LayoutItem))
          /\ Len([pages EXCEPT ![n + 1] = new]) = Len(pages)
          /\ \A j \in 1..Len(pages) :
               [pages EXCEPT ![n + 1] = new][j] = IF j = n + 1 THEN new ELSE pages[j]
      BY <1>1, <1>2, <2>2, ExceptSeq
    <3>. HIDE DEF u
    <3>. QED
      BY <1>1, <2>1, <3>1
  <2>. HIDE DEF u, new
  <2>4. ASSUME NEW j \in 1..(n + 1) PROVE u[j] = v[j]
    <3>1. CASE j = n + 1
      BY <1>3, <2>3, <3>1
    <3>2. CASE j # n + 1
      <4>1. j \in 1..n
        BY <3>2
      <4>. QED
        BY <1>1, <1>3, <2>3, <3>2, <4>1
    <3>. QED
      BY <3>1, <3>2
  <2>. HIDE DEF v
  <2>5. v \in Seq(Seq(LayoutItem)) /\ Len(v) = n + 1
    BY <1>3 DEF v
  <2>6. u = v
    BY <2>3, <2>4, <2>5, SeqEqual
  <2>. QED
    BY <2>6 DEF u, v
<1>6. PutOn(At(front, last, y), x) =
        IF Fits(y, x) THEN [pages |-> [pages EXCEPT ![n + 1] = Append(@, x)], y |-> Below(y, x)]
        ELSE [pages |-> Append(pages, <<x>>), y |-> Below(PageTop, x)]
  <2>1. At(front, last, y) = [pages |-> pages, y |-> y]
    BY DEF At, pages
  <2>2. \A p, z : [At(front, last, y) EXCEPT !.pages = p, !.y = z] = [pages |-> p, y |-> z]
    BY Zenon, <2>1, Replaced
  <2>3. OnLast(pages, x) = [pages EXCEPT ![n + 1] = Append(@, x)]
    BY <1>1 DEF OnLast
  <2>4. PutOn(At(front, last, y), x) =
          [At(front, last, y) EXCEPT
             !.pages = IF Fits(y, x) THEN OnLast(pages, x) ELSE Append(pages, <<x>>),
             !.y = Below(IF Fits(y, x) THEN y ELSE PageTop, x)]
    BY <1>4, Zenon DEF PutOn
  <2>5. CASE Fits(y, x)
    BY <2>2, <2>3, <2>4, <2>5
  <2>6. CASE ~Fits(y, x)
    BY <2>2, <2>4, <2>6
  <2>. QED
    BY <2>5, <2>6
<1>. QED
  BY <1>5, <1>6 DEF At, pages, new

LEMMA PlacedAt ==
  /\ \A at \in Placed : \E front \in Seq(Seq(LayoutItem)), last \in Seq(LayoutItem), y \in Int :
       at = At(front, last, y)
  /\ \A front \in Seq(Seq(LayoutItem)), last \in Seq(LayoutItem), y \in Int :
       At(front, last, y) \in Placed
<1>1. ASSUME NEW at \in Placed
      PROVE  \E front \in Seq(Seq(LayoutItem)), last \in Seq(LayoutItem), y \in Int :
               at = At(front, last, y)
  <2>1. /\ at.pages \in Seq(Seq(LayoutItem)) /\ at.pages # <<>> /\ at.y \in Int
        /\ at = [pages |-> at.pages, y |-> at.y]
    BY DEF Placed
  <2>2. Len(at.pages) \in Nat \ {0}
    BY <2>1, EmptySeq
  <2>3. PICK front \in Seq(Seq(LayoutItem)) : at.pages = Append(front, at.pages[Len(at.pages)])
    BY <2>1, <2>2, Shortened
  <2>4. PICK last \in Seq(LayoutItem) : last = at.pages[Len(at.pages)]
    BY <2>1, <2>2, ElementOfSeq
  <2>5. at = At(front, last, at.y)
    BY <2>1, <2>3, <2>4 DEF At
  <2>. QED
    BY <2>1, <2>5
<1>2. ASSUME NEW front \in Seq(Seq(LayoutItem)), NEW last \in Seq(LayoutItem), NEW y \in Int
      PROVE  At(front, last, y) \in Placed
  BY AppendProperties DEF At, Placed
<1>. QED
  BY <1>1, <1>2

LEMMA BelowIsInt ==
  ASSUME NEW y \in Int, NEW x \in LayoutItem
  PROVE  Below(y, x) \in Int
<1>1. x.before \in Nat /\ x.height \in Nat /\ x.after \in Nat
  BY DEF LayoutItem
<1>. QED
  BY <1>1 DEF Below

LEMMA TopIsInt == PageTop \in Int /\ PageBottom \in Int
  BY DEF PageTop, PageBottom

LEMMA PutOnPlaces ==
  ASSUME NEW at \in Placed, NEW x \in LayoutItem
  PROVE  PutOn(at, x) \in Placed
<1>1. PICK front \in Seq(Seq(LayoutItem)), last \in Seq(LayoutItem), y \in Int :
        at = At(front, last, y)
  BY PlacedAt
<1>2. /\ Append(front, last) \in Seq(Seq(LayoutItem)) /\ Append(last, x) \in Seq(LayoutItem)
      /\ <<x>> \in Seq(LayoutItem)
  OBVIOUS
<1>3. Below(y, x) \in Int /\ Below(PageTop, x) \in Int
  BY BelowIsInt, TopIsInt
<1>4. /\ At(front, Append(last, x), Below(y, x)) \in Placed
      /\ At(Append(front, last), <<x>>, Below(PageTop, x)) \in Placed
  BY <1>2, <1>3, PlacedAt
<1>. QED
  BY <1>1, <1>4, PutOnPages

LEMMA PaginatingSteps ==
  ASSUME NEW items \in Seq(LayoutItem)
  PROVE  /\ Paginating(items)[0] = AtStart
         /\ \A i \in 1..Len(items) : Paginating(items)[i] = PutOn(Paginating(items)[i - 1], items[i])
<1>1. PICK n \in Nat : n = Len(items) /\ items \in [1..n -> LayoutItem]
  BY LenProperties
<1>. DEFINE More(i, at) == PutOn(at, items[i])
            step == [i \in 1..n |-> [at \in Placed |-> More(i, at)]]
            Body(h) == [i \in 0..n |-> IF i = 0 THEN AtStart ELSE More(i, h[i - 1])]
            all == CHOOSE h : h = Body(h)
<1>2. \A i \in 1..n, at \in Placed : More(i, at) \in Placed
  BY <1>1, PutOnPlaces
<1>3. Paginating(items) = all
  BY <1>1 DEF Paginating, AtStart
<1>4. AtStart \in Placed
  <2>1. <<>> \in Seq(LayoutItem) /\ <<>> \in Seq(Seq(LayoutItem))
    BY EmptySeq
  <2>2. AtStart = At(<<>>, <<>>, PageTop)
    BY DEF AtStart, At
  <2>. QED
    BY <2>1, <2>2, PlacedAt, TopIsInt
<1>. HIDE DEF More
<1>5. step \in [1..n -> [Placed -> Placed]]
      /\ \A i \in 1..n, at \in Placed : step[i][at] = More(i, at)
  BY <1>2
<1>. HIDE DEF step
<1>6. Iterated(n, Placed, AtStart, step)
  BY <1>4, <1>5, Iterates
<1>7. PICK f \in [0..n -> Placed] : f[0] = AtStart /\ \A i \in 1..n : f[i] = step[i][f[i - 1]]
  BY <1>6 DEF Iterated
<1>8. f = Body(f)
  <2>1. ASSUME NEW i \in 0..n PROVE f[i] = IF i = 0 THEN AtStart ELSE More(i, f[i - 1])
    <3>1. CASE i # 0
      <4>1. i \in 1..n /\ i - 1 \in 0..n
        BY <3>1
      <4>. QED
        BY <1>5, <1>7, <3>1, <4>1
    <3>. QED
      BY <1>7, <3>1
  <2>. QED
    BY <2>1
<1>9. all = Body(all)
  <2>. HIDE DEF Body
  <2>. QED
    BY <1>8
<1>. HIDE DEF all
<1>10. all[0] = AtStart /\ \A i \in 1..n : all[i] = More(i, all[i - 1])
  <2>1. \A i \in 0..n : all[i] = IF i = 0 THEN AtStart ELSE More(i, all[i - 1])
    BY <1>9
  <2>2. 0 \in 0..n /\ \A i \in 1..n : i \in 0..n /\ i # 0
    OBVIOUS
  <2>. QED
    BY <2>1, <2>2
<1>. QED
  BY <1>1, <1>3, <1>10 DEF More

FullPage == {p \in Seq(LayoutItem) : p # <<>> /\ InMargins(p)}

Shows(page) == \E i \in DOMAIN page : isRenderableLineItem(page[i])

Ordered(items) == Tidy(items) /\ RuleIsFollowed(items)

First(items, k, s) == s \in Seq(LayoutItem) /\ Len(s) = k /\ \A i \in 1..k : s[i] = items[i]

AfterRule == PageTop - 12100

\* The first k items on pages: a page shows something when it is followed by
\* another; the last may yet hold the rule alone.
Paged(items, k, front, last, y) ==
  /\ front \in Seq(FullPage) /\ last \in Seq(LayoutItem) /\ y \in Int
  /\ InMargins(last) /\ y = EndOf(last)
  /\ First(items, k, FlattenSeq(front) \o last)
  /\ k = 0 => last = <<>>
  /\ k > 0 => last # <<>> /\ y + items[k].after >= PageBottom
  /\ Ordered(items) =>
       /\ \A p \in 1..Len(front) : Shows(front[p])
       /\ k > 0 => Shows(last) \/ (items[k].kind = "rule" /\ y = AfterRule)

LEMMA ItemsFitAPage ==
  ASSUME NEW x \in LayoutItem
  PROVE  Fits(PageTop, x)
<1>1. PICK b \in Nat, h \in Nat : b = x.before /\ h = x.height /\ b + h <= PageTop - PageBottom
  BY DEF LayoutItem
<1>2. \A top, bottom \in Int : b + h <= top - bottom => top - b - h >= bottom
  OBVIOUS
<1>. QED
  BY <1>1, <1>2, TopIsInt DEF Fits

LEMMA ShowsAppend ==
  ASSUME NEW page \in Seq(LayoutItem), NEW x \in LayoutItem,
         Shows(page) \/ isRenderableLineItem(x)
  PROVE  Shows(Append(page, x))
<1>1. PICK n \in Nat : /\ DOMAIN page = 1..n /\ DOMAIN Append(page, x) = 1..(n + 1)
                       /\ \A i \in 1..n : Append(page, x)[i] = page[i]
                       /\ Append(page, x)[n + 1] = x
  BY Appended, LenProperties
<1>2. n + 1 \in 1..(n + 1) /\ \A i \in 1..n : i \in 1..(n + 1)
  OBVIOUS
<1>3. CASE Shows(page)
  BY <1>1, <1>2, <1>3 DEF Shows
<1>4. CASE isRenderableLineItem(x)
  BY <1>1, <1>2, <1>4 DEF Shows
<1>. QED
  BY <1>3, <1>4

\* The last page shows something already, unless the item makes it do so.
LEMMA LastPageShows ==
  ASSUME NEW items \in Seq(LayoutItem), NEW k \in 1..Len(items), NEW front, NEW last, NEW y,
         Paged(items, k - 1, front, last, y), Ordered(items)
  PROVE  LET x == items[k] IN
         /\ k > 1 => Shows(last) \/ (isRenderableLineItem(x) /\ Fits(y, x))
         /\ x.kind = "spacer" => Shows(last) /\ Fits(y, x)
         /\ x.kind = "rule" => x = Rule /\ (Shows(last) \/ y = PageTop)
<1>. DEFINE x == items[k]
<1>1. PICK n \in Nat : /\ n = Len(items) /\ DOMAIN items = 1..n /\ k \in Nat /\ k >= 1
                       /\ \A i \in 1..n : items[i] \in LayoutItem
  BY LenProperties, ElementOfSeq
<1>2. y \in Int /\ y = EndOf(last)
  BY DEF Paged
<1>3. k > 1 => k - 1 \in 1..n /\ k - 1 > 0 /\ (k - 1) + 1 = k /\ k \in 1..n
  BY <1>1
<1>4. k > 1 => \/ Shows(last)
               \/ items[k - 1].kind = "rule" /\ y = AfterRule
  BY <1>3 DEF Paged
<1>5. ASSUME k > 1, items[k - 1].kind = "rule"
      PROVE  x.kind = "section" /\ x.before = 0 /\ x.height = Height.section
  <2>1. /\ items[(k - 1) + 1].kind = "section" /\ items[(k - 1) + 1].before = 0
        /\ items[(k - 1) + 1].height = Height.section
    BY <1>1, <1>3, <1>5 DEF Ordered, RuleIsFollowed
  <2>. QED
    BY <1>3, <1>5, <2>1
<1>6. ASSUME k > 1
      PROVE  Shows(last) \/ (isRenderableLineItem(x) /\ Fits(y, x))
  <2>1. CASE items[k - 1].kind = "rule" /\ y = AfterRule
    <3>1. x.kind = "section" /\ x.before = 0 /\ x.height = 11236
      BY <1>5, <1>6, <2>1 DEF Height
    <3>2. Fits(y, x)
      BY <2>1, <3>1, SMT DEF Fits, PageTop, PageBottom, AfterRule
    <3>. QED
      BY <3>1, <3>2 DEF isRenderableLineItem
  <2>. QED
    BY <1>4, <1>6, <2>1
<1>7. ASSUME x.kind = "spacer"
      PROVE  Shows(last) /\ Fits(y, x)
  <2>1. k > 1 /\ Solid(items[k - 1]) /\ x.before = 0 /\ x.height = 0
    BY <1>1, <1>7 DEF Ordered, Tidy
  <2>2. items[k - 1].kind # "rule" /\ items[k - 1].after = 0
    BY <2>1 DEF Solid
  <2>3. y + items[k - 1].after >= PageBottom
    BY <1>3, <2>1 DEF Paged
  <2>4. y >= PageBottom
    BY <1>2, <2>2, <2>3
  <2>5. Fits(y, x)
    BY <1>2, <2>1, <2>4, TopIsInt DEF Fits
  <2>. QED
    BY <1>4, <2>1, <2>2, <2>5
<1>8. ASSUME x.kind = "rule"
      PROVE  x = Rule /\ (Shows(last) \/ y = PageTop)
  <2>1. x = Rule
    BY <1>1, <1>8 DEF Ordered, RuleIsFollowed
  <2>2. CASE k > 1
    <3>1. items[k - 1].kind # "rule"
      BY <1>5, <1>8, <2>2
    <3>. QED
      BY <1>4, <2>1, <2>2, <3>1
  <2>3. CASE k = 1
    <3>1. last = <<>>
      BY <2>3 DEF Paged
    <3>. QED
      BY <1>2, <2>1, <3>1, EmptyPage
  <2>. QED
    BY <1>1, <2>2, <2>3
<1>. QED
  BY <1>6, <1>7, <1>8

\* An item more.
LEMMA FirstAppend ==
  ASSUME NEW items \in Seq(LayoutItem), NEW k \in 1..Len(items), NEW s, First(items, k - 1, s)
  PROVE  First(items, k, Append(s, items[k]))
<1>1. PICK n \in Nat : n = Len(items) /\ k \in 1..n /\ items[k] \in LayoutItem
  BY LenProperties, ElementOfSeq
<1>2. /\ s \in Seq(LayoutItem) /\ Len(s) = k - 1
      /\ \A i \in 1..(k - 1) : s[i] = items[i]
  BY DEF First
<1>3. /\ Append(s, items[k]) \in Seq(LayoutItem) /\ Len(Append(s, items[k])) = (k - 1) + 1
      /\ \A i \in 1..(k - 1) : Append(s, items[k])[i] = s[i]
      /\ Append(s, items[k])[(k - 1) + 1] = items[k]
  BY <1>1, <1>2, Appended
<1>4. (k - 1) + 1 = k
  BY <1>1
<1>5. ASSUME NEW i \in 1..k PROVE Append(s, items[k])[i] = items[i]
  <2>1. CASE i = k
    BY <1>3, <1>4, <2>1
  <2>2. CASE i # k
    <3>1. i \in 1..(k - 1)
      BY <1>1, <2>2
    <3>. QED
      BY <1>2, <1>3, <3>1
  <2>. QED
    BY <2>1, <2>2
<1>. QED
  BY <1>3, <1>4, <1>5 DEF First

LEMMA PagesAreItems ==
  ASSUME NEW front \in Seq(FullPage)
  PROVE  front \in Seq(Seq(LayoutItem)) /\ FlattenSeq(front) \in Seq(LayoutItem)
<1>1. FullPage \subseteq Seq(LayoutItem)
  BY DEF FullPage
<1>2. front \in Seq(Seq(LayoutItem))
  BY <1>1, SeqMonotonic
<1>. QED
  BY <1>2, FlattenType

\* An item that fits goes behind the others.
LEMMA PagedBehind ==
  ASSUME NEW items \in Seq(LayoutItem), NEW k \in 1..Len(items), NEW front, NEW last, NEW y,
         Paged(items, k - 1, front, last, y), Fits(y, items[k])
  PROVE  Paged(items, k, front, Append(last, items[k]), Below(y, items[k]))
<1>. DEFINE x == items[k]
<1>1. x \in LayoutItem /\ k \in Nat /\ k > 0
  BY ElementOfSeq, LenProperties
<1>2. /\ front \in Seq(FullPage) /\ last \in Seq(LayoutItem) /\ y \in Int
      /\ InMargins(last) /\ y = EndOf(last)
      /\ First(items, k - 1, FlattenSeq(front) \o last)
  BY DEF Paged
<1>3. First(items, k, Append(FlattenSeq(front) \o last, x))
  BY <1>2, FirstAppend
<1>. HIDE DEF x
<1>4. /\ Append(last, x) \in Seq(LayoutItem) /\ Append(last, x) # <<>>
      /\ Below(y, x) \in Int
  BY <1>1, <1>2, AppendProperties, BelowIsInt
<1>5. Append(FlattenSeq(front) \o last, x) = FlattenSeq(front) \o Append(last, x)
  <2>1. FlattenSeq(front) \in Seq(LayoutItem)
    BY <1>2, PagesAreItems
  <2>2. Associates(FlattenSeq(front), last, x)
    BY <1>1, <1>2, <2>1, AppendBehind
  <2>. QED
    BY <2>2 DEF Associates
<1>6. InMargins(Append(last, x)) /\ Below(y, x) = EndOf(Append(last, x))
  BY <1>1, <1>2, MarginsAppend DEF x
<1>7. Below(y, x) + x.after >= PageBottom
  <2>1. PICK b \in Nat, h \in Nat, a \in Nat : b = x.before /\ h = x.height /\ a = x.after
    BY <1>1 DEF LayoutItem
  <2>2. y - b - h >= PageBottom
    BY <2>1 DEF Fits, x
  <2>3. y - (b + h + a) + a = y - b - h
    BY <1>2
  <2>. QED
    BY <2>1, <2>2, <2>3 DEF Below
<1>8. ASSUME Ordered(items)
      PROVE  /\ \A p \in 1..Len(front) : Shows(front[p])
             /\ \/ Shows(Append(last, x))
                \/ x.kind = "rule" /\ Below(y, x) = AfterRule
  <2>1. \A p \in 1..Len(front) : Shows(front[p])
    BY <1>8 DEF Paged
  <2>2. CASE x.kind = "rule"
    <3>1. x = Rule /\ (Shows(last) \/ y = PageTop)
      BY <1>8, <2>2, LastPageShows DEF x
    <3>2. Below(PageTop, Rule) = AfterRule
      <4>1. Rule.before = 5500 /\ Rule.height = 600 /\ Rule.after = 6000
        BY DEF Rule, Item, Height
      <4>2. \A top \in Int : top - (5500 + 600 + 6000) = top - 12100
        OBVIOUS
      <4>. QED
        BY <4>1, <4>2, TopIsInt DEF Below, AfterRule
    <3>. QED
      BY <1>1, <1>2, <2>1, <2>2, <3>1, <3>2, ShowsAppend
  <2>3. CASE x.kind # "rule"
    <3>1. Shows(last) \/ isRenderableLineItem(x)
      BY <1>8, <2>3, LastPageShows DEF x, isRenderableLineItem
    <3>. QED
      BY <1>1, <1>2, <2>1, <3>1, ShowsAppend
  <2>. QED
    BY <2>2, <2>3
<1>9. First(items, k, FlattenSeq(front) \o Append(last, x))
  BY <1>3, <1>5 DEF x
<1>. QED
  BY <1>1, <1>2, <1>4, <1>6, <1>7, <1>8, <1>9 DEF Paged, x

\* Any other begins a page, and the page before shows something.
LEMMA PagedAfter ==
  ASSUME NEW items \in Seq(LayoutItem), NEW k \in 1..Len(items), NEW front, NEW last, NEW y,
         Paged(items, k - 1, front, last, y), ~Fits(y, items[k])
  PROVE  Paged(items, k, Append(front, last), <<items[k]>>, Below(PageTop, items[k]))
<1>. DEFINE x == items[k]
<1>1. x \in LayoutItem /\ k \in Nat /\ k > 0
  BY ElementOfSeq, LenProperties
<1>2. /\ front \in Seq(FullPage) /\ last \in Seq(LayoutItem) /\ y \in Int
      /\ InMargins(last) /\ y = EndOf(last)
      /\ First(items, k - 1, FlattenSeq(front) \o last)
      /\ k - 1 = 0 => last = <<>>
      /\ k - 1 > 0 => last # <<>>
  BY DEF Paged
<1>3. k > 1
  <2>1. k - 1 = 0 => Fits(y, x)
    BY <1>1, <1>2, EmptyPage, ItemsFitAPage
  <2>. QED
    BY <1>1, <2>1
<1>4. last \in FullPage
  BY <1>1, <1>2, <1>3 DEF FullPage
<1>5. PICK m \in Nat : /\ m = Len(front) /\ Append(front, last) \in Seq(FullPage)
                       /\ Len(Append(front, last)) = m + 1
                       /\ \A i \in 1..m : Append(front, last)[i] = front[i]
                       /\ Append(front, last)[m + 1] = last
  BY <1>2, <1>4, Appended
<1>6. First(items, k, Append(FlattenSeq(front) \o last, x))
  BY <1>2, FirstAppend
<1>. HIDE DEF x
<1>7. First(items, k, FlattenSeq(Append(front, last)) \o <<x>>)
  <2>1. FlattenSeq(front) \in Seq(LayoutItem) /\ front \in Seq(Seq(LayoutItem))
    BY <1>2, PagesAreItems
  <2>2. FlattenSeq(front) \o last \in Seq(LayoutItem)
    BY <1>2, <2>1, ConcatEnds
  <2>3. FlattenSeq(Append(front, last)) = FlattenSeq(front) \o last
    BY <1>2, <2>1, FlattenAppend
  <2>4. Append(FlattenSeq(front) \o last, x) = (FlattenSeq(front) \o last) \o <<x>>
    BY <1>1, <2>2, Appended
  <2>. QED
    BY <1>6, <2>3, <2>4 DEF x
<1>8. /\ <<x>> \in Seq(LayoutItem) /\ <<x>> # <<>> /\ Below(PageTop, x) \in Int
      /\ InMargins(<<x>>) /\ Below(PageTop, x) = EndOf(<<x>>)
      /\ Below(PageTop, x) + x.after >= PageBottom
  <2>1. Fits(PageTop, x)
    BY <1>1, ItemsFitAPage
  <2>2. Append(<<>>, x) = <<x>> /\ <<x>> \in Seq(LayoutItem) /\ <<x>> # <<>>
    BY <1>1
  <2>3. InMargins(<<x>>) /\ EndOf(<<x>>) = Below(PageTop, x)
    BY <1>1, <2>1, <2>2, EmptyPage, MarginsAppend
  <2>4. Below(PageTop, x) \in Int
    BY <1>1, BelowIsInt, TopIsInt
  <2>5. Below(PageTop, x) + x.after >= PageBottom
    <3>1. PICK b \in Nat, h \in Nat, a \in Nat : b = x.before /\ h = x.height /\ a = x.after
      BY <1>1 DEF LayoutItem
    <3>2. PageTop - b - h >= PageBottom
      BY <2>1, <3>1 DEF Fits
    <3>3. \A top \in Int : top - (b + h + a) + a = top - b - h
      OBVIOUS
    <3>. QED
      BY <3>1, <3>2, <3>3, TopIsInt DEF Below
  <2>. QED
    BY <2>2, <2>3, <2>4, <2>5
<1>9. ASSUME Ordered(items)
      PROVE  /\ \A p \in 1..(m + 1) : Shows(Append(front, last)[p])
             /\ \/ Shows(<<x>>)
                \/ x.kind = "rule" /\ Below(PageTop, x) = AfterRule
  <2>1. \A p \in 1..m : Shows(front[p])
    BY <1>5, <1>9 DEF Paged
  <2>2. Shows(last) /\ x.kind # "spacer" /\ (x.kind = "rule" => x = Rule)
    BY <1>3, <1>9, LastPageShows DEF x
  <2>3. ASSUME NEW p \in 1..(m + 1) PROVE Shows(Append(front, last)[p])
    <3>1. CASE p = m + 1
      BY <1>5, <2>2, <3>1
    <3>2. CASE p # m + 1
      <4>1. p \in 1..m
        BY <3>2
      <4>. QED
        BY <1>5, <2>1, <4>1
    <3>. QED
      BY <3>1, <3>2
  <2>4. ASSUME x.kind = "rule"
        PROVE  Below(PageTop, x) = AfterRule
    <3>1. x.before = 5500 /\ x.height = 600 /\ x.after = 6000
      BY <2>2, <2>4 DEF Rule, Item, Height
    <3>2. \A top \in Int : top - (5500 + 600 + 6000) = top - 12100
      OBVIOUS
    <3>. QED
      BY <3>1, <3>2, TopIsInt DEF Below, AfterRule
  <2>5. ASSUME x.kind # "rule"
        PROVE  Shows(<<x>>)
    <3>1. isRenderableLineItem(x)
      BY <2>2, <2>5 DEF isRenderableLineItem
    <3>2. 1 \in DOMAIN <<x>> /\ <<x>>[1] = x
      OBVIOUS
    <3>. QED
      BY <3>1, <3>2 DEF Shows
  <2>6. Shows(<<x>>) \/ (x.kind = "rule" /\ Below(PageTop, x) = AfterRule)
    BY <2>4, <2>5
  <2>7. \A p \in 1..(m + 1) : Shows(Append(front, last)[p])
    BY <2>3
  <2>. QED
    BY <2>6, <2>7, Zenon
<1>. DEFINE pages == Append(front, last)
            only == <<x>>
            end == Below(PageTop, x)
<1>10. Ordered(items) => /\ \A p \in 1..Len(pages) : Shows(pages[p])
                         /\ k > 0 => Shows(only) \/ (x.kind = "rule" /\ end = AfterRule)
  BY <1>5, <1>9
<1>11. /\ pages \in Seq(FullPage) /\ only \in Seq(LayoutItem) /\ end \in Int
       /\ InMargins(only) /\ end = EndOf(only) /\ only # <<>> /\ end + x.after >= PageBottom
       /\ First(items, k, FlattenSeq(pages) \o only)
  BY <1>5, <1>7, <1>8
<1>. HIDE DEF pages, only, end
<1>12. Paged(items, k, pages, only, end)
  BY <1>1, <1>10, <1>11 DEF Paged, x
<1>. QED
  BY <1>12 DEF pages, only, end, x

PagedSoFar(items, k) ==
  \E front \in Seq(FullPage), last \in Seq(LayoutItem), y \in Int :
    Paginating(items)[k] = At(front, last, y) /\ Paged(items, k, front, last, y)

LEMMA AllPaged ==
  ASSUME NEW items \in Seq(LayoutItem)
  PROVE  PagedSoFar(items, Len(items))
<1>1. PICK n \in Nat : n = Len(items) /\ \A i \in 1..n : items[i] \in LayoutItem
  BY LenProperties, ElementOfSeq
<1>. DEFINE S == {k \in 0..n : PagedSoFar(items, k)}
<1>2. 0 \in S
  <2>1. <<>> \in Seq(FullPage) /\ FlattenSeq(<<>>) \o <<>> = <<>>
    BY FlattenEmpty, EmptySeq, ConcatEmptySeq
  <2>2. First(items, 0, <<>>)
    BY EmptySeq DEF First
  <2>3. Paged(items, 0, <<>>, <<>>, PageTop)
    BY <2>1, <2>2, EmptyPage, TopIsInt, EmptySeq DEF Paged
  <2>4. Paginating(items)[0] = At(<<>>, <<>>, PageTop)
    BY PaginatingSteps DEF AtStart, At
  <2>5. <<>> \in Seq(LayoutItem)
    BY EmptySeq
  <2>6. PagedSoFar(items, 0)
    BY <2>1, <2>3, <2>4, <2>5, TopIsInt, Zenon DEF PagedSoFar
  <2>. QED
    BY <1>1, <2>6
<1>3. ASSUME NEW k \in 1..n, k - 1 \in S PROVE k \in S
  <2>1. PICK front \in Seq(FullPage), last \in Seq(LayoutItem), y \in Int :
          Paginating(items)[k - 1] = At(front, last, y) /\ Paged(items, k - 1, front, last, y)
    BY <1>3 DEF PagedSoFar
  <2>2. k \in 1..Len(items) /\ items[k] \in LayoutItem /\ front \in Seq(Seq(LayoutItem))
    BY <1>1, PagesAreItems
  <2>3. Paginating(items)[k] = PutOn(At(front, last, y), items[k])
    BY <2>1, <2>2, PaginatingSteps
  <2>4. CASE Fits(y, items[k])
    <3>1. Paginating(items)[k] = At(front, Append(last, items[k]), Below(y, items[k]))
      BY <2>2, <2>3, <2>4, PutOnPages
    <3>2. Paged(items, k, front, Append(last, items[k]), Below(y, items[k]))
      BY <2>1, <2>2, <2>4, PagedBehind
    <3>3. PagedSoFar(items, k)
      BY <3>1, <3>2 DEF PagedSoFar, Paged
    <3>. QED
      BY <3>3
  <2>5. CASE ~Fits(y, items[k])
    <3>1. Paginating(items)[k] =
            At(Append(front, last), <<items[k]>>, Below(PageTop, items[k]))
      BY <2>2, <2>3, <2>5, PutOnPages
    <3>2. Paged(items, k, Append(front, last), <<items[k]>>, Below(PageTop, items[k]))
      BY <2>1, <2>2, <2>5, PagedAfter
    <3>3. PagedSoFar(items, k)
      BY <3>1, <3>2 DEF PagedSoFar, Paged
    <3>. QED
      BY <3>3
  <2>. QED
    BY <2>4, <2>5
<1>4. S \in SUBSET (0..n)
  OBVIOUS
<1>. HIDE DEF S
<1>5. S = 0..n
  BY <1>2, <1>3, <1>4, Induction
<1>6. n \in S
  BY <1>5
<1>. QED
  BY <1>1, <1>6 DEF S

WellPaged(items, pages) ==
  /\ pages \in Seq(FullPage) /\ FlattenSeq(pages) = items
  /\ Ordered(items) => \A p \in DOMAIN pages : Shows(pages[p])

\* All the items are on pages, in order, within the margins; each page shows
\* something when the items are in the layout's order.
LEMMA Paginated ==
  ASSUME NEW items \in Seq(LayoutItem), items # <<>>
  PROVE  WellPaged(items, paginate(items))
<1>1. PICK n \in Nat : n = Len(items) /\ n > 0 /\ DOMAIN items = 1..n
  BY EmptySeq, LenProperties
<1>2. PICK front \in Seq(FullPage), last \in Seq(LayoutItem), y \in Int :
        Paginating(items)[n] = At(front, last, y) /\ Paged(items, n, front, last, y)
  BY <1>1, AllPaged DEF PagedSoFar
<1>. DEFINE pages == Append(front, last)
<1>3. last \in FullPage
  BY <1>1, <1>2 DEF Paged, FullPage
<1>4. PICK m \in Nat : /\ m = Len(front) /\ pages \in Seq(FullPage) /\ DOMAIN pages = 1..(m + 1)
                       /\ \A i \in 1..m : pages[i] = front[i]
                       /\ pages[m + 1] = last
  BY <1>3, Appended, LenProperties
<1>5. FlattenSeq(pages) = FlattenSeq(front) \o last
  <2>1. front \in Seq(Seq(LayoutItem))
    BY PagesAreItems
  <2>. QED
    BY <2>1, FlattenAppend
<1>6. (At(front, last, y)).pages = pages
  BY DEF At
<1>. HIDE DEF pages
<1>7. paginate(items) = pages
  <2>1. pages[1] # <<>>
    <3>1. pages[1] \in FullPage
      BY <1>4, ElementOfSeq, LenProperties
    <3>. QED
      BY <3>1 DEF FullPage
  <2>. QED
    BY <1>1, <1>2, <1>6, <2>1 DEF paginate
<1>8. FlattenSeq(pages) = items
  <2>1. First(items, n, FlattenSeq(pages))
    BY <1>2, <1>5 DEF Paged
  <2>. DEFINE flat == FlattenSeq(pages)
  <2>2. flat \in Seq(LayoutItem) /\ Len(flat) = Len(items)
        /\ \A i \in 1..Len(flat) : flat[i] = items[i]
    BY <1>1, <2>1 DEF First
  <2>. HIDE DEF flat
  <2>3. flat = items
    BY <2>2, SeqEqual
  <2>. QED
    BY <2>3 DEF flat
<1>9. ASSUME Ordered(items), NEW p \in 1..(m + 1) PROVE Shows(pages[p])
  <2>1. items[n].kind # "rule"
    <3>1. n \in DOMAIN items /\ n + 1 \notin DOMAIN items
      BY <1>1
    <3>. QED
      BY <1>9, <3>1 DEF Ordered, RuleIsFollowed
  <2>2. Shows(last) /\ \A i \in 1..m : Shows(front[i])
    BY <1>1, <1>2, <1>4, <1>9, <2>1 DEF Paged
  <2>3. CASE p = m + 1
    BY <1>4, <2>2, <2>3
  <2>4. CASE p # m + 1
    <3>1. p \in 1..m
      BY <2>4
    <3>. QED
      BY <1>4, <2>2, <3>1
  <2>. QED
    BY <2>3, <2>4
<1>. QED
  BY <1>4, <1>7, <1>8, <1>9 DEF WellPaged

----------------------------------------------------------------------------
(* The whole.                                                              *)

\* A page is drawn on the paper and above its bottom margin (pageContentStream).
LEMMA PagesStayOnPaper ==
  ASSUME NEW pages \in Seq(FullPage)
  PROVE  StaysOnPaper(pages)
<1>. SUFFICES ASSUME NEW p \in DOMAIN pages, NEW i \in DOMAIN pageContentStream(pages[p])
              PROVE  /\ pageContentStream(pages[p])[i] <= PageTop
                     /\ pageContentStream(pages[p])[i] - pages[p][i].height >= PageBottom
                     /\ pageContentStream(pages[p])[i] + pages[p][i].height <= PaperTop
  BY DEF StaysOnPaper
<1>1. pages[p] \in Seq(LayoutItem) /\ InMargins(pages[p])
  <2>1. pages[p] \in FullPage
    BY LenProperties, ElementOfSeq
  <2>. QED
    BY <2>1 DEF FullPage
<1>2. /\ DOMAIN pageContentStream(pages[p]) = DOMAIN pages[p]
      /\ pageContentStream(pages[p])[i] = Drawing(pages[p])[i - 1] - pages[p][i].before
  BY DEF pageContentStream
<1>3. i \in 1..Len(pages[p])
  BY <1>1, <1>2, LenProperties
<1>. DEFINE baseline == pageContentStream(pages[p])[i]
<1>4. baseline <= PageTop /\ baseline - pages[p][i].height >= PageBottom
  BY <1>1, <1>2, <1>3 DEF InMargins
<1>5. pages[p][i] \in LayoutItem
  BY <1>1, <1>3, ElementOfSeq
<1>6. /\ pages[p][i].height \in Nat /\ pages[p][i].height <= 26000
      /\ pages[p][i].before \in Nat
  BY <1>5 DEF LayoutItem
<1>8. baseline \in Int
  <2>1. Drawn(pages[p], Drawing(pages[p]))
    BY <1>1, DrawingSteps
  <2>2. Len(pages[p]) \in Nat
    BY <1>1, LenProperties
  <2>3. Drawing(pages[p])[i - 1] \in Int
    BY <1>3, <2>1, <2>2 DEF Drawn
  <2>. QED
    BY <1>2, <1>6, <2>3
<1>. HIDE DEF baseline
<1>7. baseline + pages[p][i].height <= PaperTop
  BY <1>4, <1>6, <1>8, SMT DEF PageTop, PaperTop
<1>. QED
  BY <1>4, <1>7 DEF baseline

\* A date ends where its row does, and starts clear of the heading or, when it is
\* long, less than a letter into it.
LEMMA RowsAreClear ==
  ASSUME NEW items \in Seq(LayoutItem)
  PROVE  DatesAreClear(items)
<1>. SUFFICES ASSUME NEW i \in DOMAIN items, items[i].kind = "row"
              PROVE  \/ 5175 * items[i].chars + 4761 * items[i].right <= 544000
                     \/ /\ items[i].right > 86
                        /\ 5175 * items[i].chars + 4761 * items[i].right < 544000 + 4761
  BY SMT DEF DatesAreClear
<1>1. items[i] \in LayoutItem
  BY LenProperties, ElementOfSeq
<1>2. /\ items[i].chars \in Nat /\ items[i].right \in Nat
      /\ 5175 * items[i].chars <= 530000 - 4600 * items[i].right
  BY <1>1 DEF LayoutItem
<1>3. PICK c \in Nat, r \in Nat : c = items[i].chars /\ r = items[i].right
  BY <1>2
<1>4. 5175 * c <= 530000 - 4600 * r
  BY <1>2, <1>3
<1>5. 5175 * c + 4761 * r <= 544000 \/ (r > 86 /\ 5175 * c + 4761 * r < 544000 + 4761)
  BY <1>4, SMT
<1>. QED
  BY <1>3, <1>5

LEMMA TextsWrapWell ==
  ASSUME NEW texts \in Seq(Words), NEW max \in Nat \ {0}
  PROVE  WrapsWell(texts, max)
<1>1. \A t \in DOMAIN texts : texts[t] \in Words
  BY LenProperties, ElementOfSeq
<1>. QED
  BY <1>1, WrappedText DEF WrapsWell

\* A résumé is printed whole, for every document (buildLayout, paginate,
\* pageContentStream, buildLayoutMetrics).
LEMMA DocumentsArePrintedWhole ==
  ASSUME NEW document \in Document
  PROVE  PrintedWhole(document)
<1>. DEFINE items == buildLayout(document)
            pages == paginate(items)
<1>1. LaidDocument(document, items) /\ AllBullets(document) \in Seq(Words)
  BY DocumentLaid
<1>2. items \in Seq(LayoutItem) /\ items # <<>>
  BY <1>1 DEF LaidDocument
<1>. HIDE DEF items
<1>3. WellPaged(items, pages)
  BY <1>2, Paginated
<1>. HIDE DEF pages
<1>4. NothingIsLost(document)
  BY <1>3 DEF NothingIsLost, WellPaged, items, pages
<1>5. StaysOnPaper(pages)
  BY <1>3, PagesStayOnPaper DEF WellPaged
<1>6. DatesAreClear(items)
  BY <1>2, RowsAreClear
<1>7. LinesFit(document)
  <2>1. \A words \in Words, max \in Nat \ {0} : WrapsWell(<<words>>, max)
    <3>1. \A words \in Words : <<words>> \in Seq(Words)
      OBVIOUS
    <3>. QED
      BY <3>1, TextsWrapWell
  <2>2. \A kind \in {"name", "heading", "date", "line", "bullet"} : Room[kind] \in Nat \ {0}
    BY DEF Room
  <2>3. WrapsWell(<<document.name>>, Room.name)
    <3>1. document.name \in Words
      BY DEF Document
    <3>. QED
      BY <2>1, <2>2, <3>1
  <2>4. ASSUME NEW s \in DOMAIN document.sections,
               NEW e \in DOMAIN document.sections[s].entries,
               NEW entry, entry = document.sections[s].entries[e]
        PROVE  /\ WrapsWell(<<entry.heading>>, Room.heading)
               /\ WrapsWell(<<entry.date>>, Room.date)
               /\ WrapsWell(entry.lines, Room.line) /\ WrapsWell(entry.bullets, Room.bullet)
    <3>1. document.sections \in Seq(Section)
      BY DEF Document, Section, Entry
    <3>2. document.sections[s] \in Section
      BY <3>1, LenProperties, ElementOfSeq
    <3>3. document.sections[s].entries \in Seq(Entry)
      BY <3>2 DEF Section
    <3>4. entry \in Entry
      BY <2>4, <3>3, LenProperties, ElementOfSeq
    <3>5. /\ entry.heading \in Words /\ entry.date \in Words
          /\ entry.lines \in Seq(Words) /\ entry.bullets \in Seq(Words)
      BY <3>4 DEF Entry
    <3>6. /\ WrapsWell(<<entry.heading>>, Room.heading)
          /\ WrapsWell(<<entry.date>>, Room.date)
      BY <2>1, <2>2, <3>5
    <3>7. WrapsWell(entry.lines, Room.line) /\ WrapsWell(entry.bullets, Room.bullet)
      BY <2>2, <3>5, TextsWrapWell
    <3>. QED
      BY <3>6, <3>7
  <2>. QED
    BY <2>3, <2>4 DEF LinesFit
<1>8. NoBlankPage(document)
  <2>1. SUFFICES ASSUME IsFull(document)
                 PROVE  \A p \in DOMAIN pages : Shows(pages[p])
    BY DEF NoBlankPage, IsFull, SaysSomething, Shows, pages, items
  <2>2. Ordered(items)
    BY <1>1, <2>1 DEF LaidDocument, Ordered
  <2>. QED
    BY <1>3, <2>2 DEF WellPaged
<1>9. BulletsAreCounted(document)
  <2>. DEFINE metrics == buildLayoutMetrics(pages)
              bullets == AllBullets(document)
  <2>1. FlattenSeq(pages) = items
    BY <1>3 DEF WellPaged
  <2>2. /\ metrics.bullets = CountOf(items, StartsBullet)
        /\ metrics.oneLineBullets = CountOf(items, LAMBDA item : item.of = 1)
    BY <2>1 DEF buildLayoutMetrics
  <2>3. CountOf(items, StartsBullet) = CountIn(items, Starts)
    <3>1. \A i \in DOMAIN items : items[i] \in LayoutItem
      BY <1>2, LenProperties, ElementOfSeq
    <3>2. {i \in DOMAIN items : StartsBullet(items[i])} = Places(items, Starts)
      BY <3>1 DEF Places, Starts
    <3>. QED
      BY <3>2 DEF CountOf, CountIn
  <2>4. CountOf(bullets, LAMBDA words : words # <<>>) = CountIn(bullets, Texts)
    <3>. HIDE DEF bullets
    <3>1. \A i \in DOMAIN bullets : bullets[i] \in Words
      BY <1>1, LenProperties, ElementOfSeq DEF bullets
    <3>2. {i \in DOMAIN bullets : bullets[i] # <<>>} = Places(bullets, Texts)
      BY <3>1 DEF Places, Texts
    <3>. QED
      BY <3>2 DEF CountOf, CountIn
  <2>5. CountIn(items, Starts) = CountIn(bullets, Texts)
    BY <1>1 DEF LaidDocument
  <2>6. metrics.oneLineBullets <= metrics.bullets
    <3>. DEFINE ones == {i \in DOMAIN items : items[i].of = 1}
                starts == {i \in DOMAIN items : StartsBullet(items[i])}
    <3>1. /\ metrics.oneLineBullets = Cardinality(ones)
          /\ metrics.bullets = Cardinality(starts)
      BY <2>2 DEF CountOf
    <3>2. ones \subseteq starts
      BY DEF StartsBullet
    <3>3. IsFiniteSet(starts)
      <4>1. DOMAIN items = 1..Len(items) /\ Len(items) \in Nat
        BY <1>2, LenProperties
      <4>2. IsFiniteSet(DOMAIN items)
        BY <4>1, FS_Interval
      <4>. QED
        BY <4>2, FS_Subset
    <3>. HIDE DEF ones, starts, metrics
    <3>4. Cardinality(ones) <= Cardinality(starts)
      BY <3>2, <3>3, FS_Subset
    <3>. QED
      BY <3>1, <3>4
  <2>7. metrics.bullets = CountOf(bullets, LAMBDA words : words # <<>>)
    BY <2>2, <2>3, <2>4, <2>5
  <2>. QED
    BY <2>6, <2>7 DEF BulletsAreCounted, AllBullets, BulletsOf, pages, items
<1>. QED
  BY <1>4, <1>5, <1>6, <1>7, <1>8, <1>9 DEF PrintedWhole, pages, items

==============================================================================
