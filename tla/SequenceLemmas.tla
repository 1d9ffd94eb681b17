----------------------------- MODULE SequenceLemmas -----------------------------
(* What the proofs of several components need to know of numbers, of sequences *)
(* that hold nothing twice, and of what is selected from a sequence.           *)
EXTENDS Naturals, Selection, SequencesExt, FiniteSetsExt, SequenceTheorems, WellFoundedInduction, TLAPS

\* A non-empty set of numbers up to n has a greatest one.
LEMMA GreatestExists ==
    ASSUME NEW n \in Nat, NEW S \in SUBSET (1..n), S # {}
    PROVE  Max(S) \in S
<1> DEFINE R == OpToRel(<, Nat)
           T == {n - i : i \in S}
<1>1. T \subseteq Nat /\ T # {}
  <2>1. PICK i \in S : TRUE
    OBVIOUS
  <2>2. n - i \in T
    BY <2>1
  <2>3. \A k \in S : n - k \in Nat
    OBVIOUS
  <2> QED
    BY <2>2, <2>3
<1>2. PICK x \in T : \A y \in T : ~(<<y, x>> \in R)
  <2> HIDE DEF R, T
  <2>1. IsWellFoundedOn(R, Nat)
    BY NatLessThanWellFounded DEF R
  <2> QED
    BY <1>1, <2>1, WFMin
<1>3. \A y \in T : x <= y
  <2> HIDE DEF T
  <2> SUFFICES ASSUME NEW y \in T PROVE x <= y
    OBVIOUS
  <2>1. x \in Nat /\ y \in Nat
    BY <1>1
  <2>2. y < x => <<y, x>> \in R
    BY <2>1 DEF OpToRel
  <2> HIDE DEF R
  <2> QED
    BY <1>2, <2>1, <2>2
<1>4. n - x \in S /\ \A i \in S : n - x >= i
  BY <1>3
<1> QED
  BY <1>4 DEF Max

\* What is taken out of a sequence leaves the others, in their order.
LEMMA RemoveAtProperties ==
    ASSUME NEW S, NEW s \in Seq(S), NEW i \in 1..Len(s)
    PROVE  /\ RemoveAt(s, i) \in Seq(S)
           /\ Len(RemoveAt(s, i)) = Len(s) - 1
           /\ \A k \in 1..(i - 1) : RemoveAt(s, i)[k] = s[k]
           /\ \A k \in i..(Len(s) - 1) : RemoveAt(s, i)[k] = s[k + 1]
<1> DEFINE a == SubSeq(s, 1, i - 1)
           b == SubSeq(s, i + 1, Len(s))
<1>1. /\ a \in Seq(S) /\ Len(a) = i - 1
      /\ \A k \in 1..(i - 1) : a[k] = s[k]
  BY SubSeqProperties
<1>2. /\ b \in Seq(S) /\ Len(b) = Len(s) - i
      /\ \A k \in 1..(Len(s) - i) : b[k] = s[i + k]
  BY SubSeqProperties
<1> HIDE DEF a, b
<1>3. RemoveAt(s, i) = a \o b
  BY DEF RemoveAt, a, b
<1>4. /\ a \o b \in Seq(S) /\ Len(a \o b) = Len(a) + Len(b)
      /\ \A k \in 1..(Len(a) + Len(b)) :
             (a \o b)[k] = IF k <= Len(a) THEN a[k] ELSE b[k - Len(a)]
  BY <1>1, <1>2, ConcatProperties
<1> QED
  BY <1>1, <1>2, <1>3, <1>4

\* If none occurs twice, the one that is taken out is gone.
LEMMA RemoveAtInjective ==
    ASSUME NEW S, NEW s \in Seq(S), IsInjective(s), NEW i \in 1..Len(s)
    PROVE  /\ RemoveAt(s, i) \in Seq(S) /\ DOMAIN RemoveAt(s, i) = 1..(Len(s) - 1)
           /\ ToSet(RemoveAt(s, i)) = ToSet(s) \ {s[i]} /\ IsInjective(RemoveAt(s, i))
           /\ \A k \in 1..(i - 1) : RemoveAt(s, i)[k] = s[k]
<1> DEFINE t == RemoveAt(s, i)
           n == Len(s)
           Old(k) == IF k < i THEN k ELSE k + 1
<1>1. /\ t \in Seq(S) /\ Len(t) = n - 1
      /\ \A k \in 1..(i - 1) : t[k] = s[k]
      /\ \A k \in i..(n - 1) : t[k] = s[k + 1]
  BY RemoveAtProperties
<1>2. n \in Nat /\ i \in 1..n /\ DOMAIN s = 1..n /\ \A j, k \in 1..n : s[j] = s[k] => j = k
  BY DEF IsInjective
<1> HIDE DEF t, n
<1>3. DOMAIN t = 1..(n - 1)
  BY <1>1, <1>2
<1>4. \A k \in 1..(n - 1) : Old(k) \in 1..n /\ Old(k) # i /\ t[k] = s[Old(k)]
  BY <1>1, <1>2
<1>5. \A k \in (1..n) \ {i} : \E j \in 1..(n - 1) : Old(j) = k
  <2> SUFFICES ASSUME NEW k \in (1..n) \ {i} PROVE \E j \in 1..(n - 1) : Old(j) = k
    OBVIOUS
  <2>1. CASE k < i
    <3>1. k \in 1..(n - 1) /\ Old(k) = k
      BY <1>2, <2>1
    <3> QED
      BY <3>1
  <2>2. CASE k > i
    <3>1. k - 1 \in 1..(n - 1) /\ Old(k - 1) = k
      BY <1>2, <2>2
    <3> QED
      BY <3>1
  <2> QED
    BY <1>2, <2>1, <2>2
<1>6. \A j, k \in 1..(n - 1) : Old(j) = Old(k) => j = k
  BY <1>2
<1> HIDE DEF Old
<1>7. ToSet(t) = ToSet(s) \ {s[i]}
  <2>1. \A k \in 1..(n - 1) : t[k] \in ToSet(s) \ {s[i]}
    BY <1>2, <1>4 DEF ToSet
  <2>2. \A k \in (1..n) \ {i} : s[k] \in ToSet(t)
    BY <1>3, <1>4, <1>5 DEF ToSet
  <2>3. ToSet(t) \subseteq ToSet(s) \ {s[i]}
    BY <1>3, <2>1 DEF ToSet
  <2>4. ToSet(s) \ {s[i]} \subseteq ToSet(t)
    BY <1>2, <2>2 DEF ToSet
  <2> QED
    BY <2>3, <2>4
<1>8. IsInjective(t)
  BY <1>2, <1>3, <1>4, <1>6 DEF IsInjective
<1> QED
  BY <1>1, <1>3, <1>7, <1>8 DEF t, n

\* The elements of a sequence are what its places hold.
LEMMA ToSetOfSeq ==
    ASSUME NEW S, NEW s \in Seq(S)
    PROVE  ToSet(s) \subseteq S /\ ToSet(s) = {s[i] : i \in 1..Len(s)}
BY DEF ToSet

\* What holds of 1 and passes from a number to the next holds up to n + 1.
LEMMA Climb ==
    ASSUME NEW n \in Nat, NEW S, 1 \in S, \A i \in 1..n : i \in S => i + 1 \in S
    PROVE  1..(n + 1) \subseteq S
<1> DEFINE R == OpToRel(<, Nat)
           T == (1..(n + 1)) \ S
<1> SUFFICES ASSUME T # {} PROVE FALSE
  OBVIOUS
<1>1. T \subseteq Nat
  OBVIOUS
<1>2. PICK x \in T : \A y \in T : ~(<<y, x>> \in R)
  <2> HIDE DEF R, T
  <2>1. IsWellFoundedOn(R, Nat)
    BY NatLessThanWellFounded DEF R
  <2> QED
    BY <1>1, <2>1, WFMin
<1>3. x \in 1..(n + 1) /\ x \notin S /\ x # 1
  OBVIOUS
<1>4. x - 1 \in 1..n /\ (x - 1) + 1 = x
  BY <1>3
<1>5. x - 1 \notin S
  BY <1>3, <1>4
<1>6. x - 1 \in T /\ <<x - 1, x>> \in R
  BY <1>3, <1>4, <1>5 DEF OpToRel
<1> HIDE DEF R, T
<1> QED
  BY <1>2, <1>6

\* A sequence one element longer.
LEMMA SubSeqGrows ==
    ASSUME NEW E, NEW s \in Seq(E), NEW k \in Nat, k < Len(s)
    PROVE  /\ SubSeq(s, 1, k) \in Seq(E) /\ s[k + 1] \in E
           /\ SubSeq(s, 1, k + 1) = Append(SubSeq(s, 1, k), s[k + 1])
<1>1. Len(s) \in Nat /\ k + 1 \in 1..Len(s)
  OBVIOUS
<1>2. /\ SubSeq(s, 1, k) \in Seq(E) /\ Len(SubSeq(s, 1, k)) = k
      /\ \A i \in 1..k : SubSeq(s, 1, k)[i] = s[i]
  BY <1>1, SubSeqProperties
<1>3. /\ SubSeq(s, 1, k + 1) \in Seq(E) /\ Len(SubSeq(s, 1, k + 1)) = k + 1
      /\ \A i \in 1..(k + 1) : SubSeq(s, 1, k + 1)[i] = s[i]
  BY <1>1, SubSeqProperties
<1> DEFINE a == SubSeq(s, 1, k)  b == SubSeq(s, 1, k + 1)  c == Append(a, s[k + 1])
<1>4. c \in Seq(E) /\ Len(c) = k + 1 /\ \A i \in 1..(k + 1) : c[i] = IF i <= k THEN a[i] ELSE s[k + 1]
  BY <1>1, <1>2
<1> HIDE DEF a, b, c
<1>5. b \in Seq(E) /\ Len(b) = Len(c) /\ \A i \in 1..Len(b) : b[i] = c[i]
  BY <1>2, <1>3, <1>4 DEF a, b
<1>6. b = c
  BY <1>4, <1>5, SeqEqual
<1> QED
  BY <1>1, <1>2, <1>6 DEF a, b, c

LEMMA ConcatAppend ==
    ASSUME NEW E, NEW a \in Seq(E), NEW s \in Seq(E), NEW e \in E
    PROVE  a \o Append(s, e) = Append(a \o s, e)
<1> DEFINE l == a \o Append(s, e)  r == Append(a \o s, e)
<1>1. /\ a \o s \in Seq(E) /\ Len(a \o s) = Len(a) + Len(s)
      /\ \A i \in 1..(Len(a) + Len(s)) : (a \o s)[i] = IF i <= Len(a) THEN a[i] ELSE s[i - Len(a)]
  BY ConcatProperties
<1>2. /\ Append(s, e) \in Seq(E) /\ Len(Append(s, e)) = Len(s) + 1
      /\ \A i \in 1..Len(s) : Append(s, e)[i] = s[i]
      /\ Append(s, e)[Len(s) + 1] = e
  OBVIOUS
<1>3. /\ l \in Seq(E) /\ Len(l) = Len(a) + Len(Append(s, e))
      /\ \A i \in 1..(Len(a) + Len(Append(s, e))) :
             l[i] = IF i <= Len(a) THEN a[i] ELSE Append(s, e)[i - Len(a)]
  BY <1>2, ConcatProperties
<1>4. /\ r \in Seq(E) /\ Len(r) = Len(a) + Len(s) + 1
      /\ \A i \in 1..(Len(a) + Len(s)) : r[i] = (a \o s)[i]
      /\ r[Len(a) + Len(s) + 1] = e
  BY <1>1
<1>5. Len(a) \in Nat /\ Len(s) \in Nat
  OBVIOUS
<1> HIDE DEF l, r
<1>6. \A i \in 1..Len(l) : l[i] = r[i]
  <2> SUFFICES ASSUME NEW i \in 1..Len(l) PROVE l[i] = r[i]
    OBVIOUS
  <2>1. CASE i <= Len(a)
    <3>1. i \in 1..(Len(a) + Len(s)) /\ i \in 1..(Len(a) + Len(Append(s, e)))
      BY <1>2, <1>3, <1>5, <2>1
    <3>2. l[i] = a[i] /\ r[i] = (a \o s)[i] /\ (a \o s)[i] = a[i]
      BY <1>1, <1>3, <1>4, <2>1, <3>1
    <3> QED
      BY <3>2
  <2>2. CASE i > Len(a) /\ i <= Len(a) + Len(s)
    <3>1. i - Len(a) \in 1..Len(s) /\ i \in 1..(Len(a) + Len(s)) /\ ~(i <= Len(a))
      BY <1>5, <2>2
    <3> QED
      BY <1>1, <1>2, <1>3, <1>4, <3>1
  <2>3. CASE i = Len(a) + Len(s) + 1
    <3>1. i - Len(a) = Len(s) + 1 /\ ~(i <= Len(a))
      BY <1>5, <2>3
    <3> QED
      BY <1>2, <1>3, <1>4, <2>3, <3>1
  <2> QED
    BY <1>2, <1>3, <1>5, <2>1, <2>2, <2>3
<1>7. l = r
  BY <1>2, <1>3, <1>4, <1>5, <1>6, SeqEqual
<1> QED
  BY <1>7 DEF l, r

LEMMA ConcatSame ==
    ASSUME NEW E, NEW a \in Seq(E), NEW s \in Seq(E), NEW t \in Seq(E), a \o s = a \o t
    PROVE  s = t
<1> DEFINE l == a \o s  r == a \o t
<1>1. /\ Len(l) = Len(a) + Len(s) /\ Len(r) = Len(a) + Len(t)
      /\ \A i \in 1..(Len(a) + Len(s)) : l[i] = IF i <= Len(a) THEN a[i] ELSE s[i - Len(a)]
      /\ \A i \in 1..(Len(a) + Len(t)) : r[i] = IF i <= Len(a) THEN a[i] ELSE t[i - Len(a)]
  BY ConcatProperties
<1>2. l = r
  OBVIOUS
<1>3. Len(a) \in Nat /\ Len(s) \in Nat /\ Len(t) \in Nat
  OBVIOUS
<1> HIDE DEF l, r
<1>4. Len(s) = Len(t)
  BY <1>1, <1>2, <1>3
<1>5. \A i \in 1..Len(s) : s[i] = t[i]
  <2> SUFFICES ASSUME NEW i \in 1..Len(s) PROVE s[i] = t[i]
    OBVIOUS
  <2> DEFINE j == Len(a) + i
  <2>1. j \in 1..(Len(a) + Len(s)) /\ ~(j <= Len(a)) /\ j - Len(a) = i
    BY <1>3
  <2> HIDE DEF j
  <2>2. l[j] = s[i] /\ r[j] = t[i]
    BY <1>1, <1>4, <2>1
  <2> QED
    BY <1>2, <2>2
<1> QED
  BY <1>4, <1>5, SeqEqual

LEMMA FrontAppend ==
    ASSUME NEW E, NEW s \in Seq(E), NEW e \in E
    PROVE  /\ Front(Append(s, e)) = s /\ Append(s, e) \in Seq(E) /\ Append(s, e) # <<>>
           /\ Len(Append(s, e)) = Len(s) + 1 /\ Append(s, e)[Len(Append(s, e))] = e
<1> DEFINE u == Append(s, e)
<1>1. /\ u \in Seq(E) /\ Len(u) = Len(s) + 1 /\ Len(s) \in Nat /\ u[Len(s) + 1] = e
      /\ \A i \in 1..Len(s) : u[i] = s[i]
  OBVIOUS
<1> HIDE DEF u
<1>2. Front(u) = SubSeq(u, 1, Len(s))
  BY <1>1 DEF Front
<1>3. /\ SubSeq(u, 1, Len(s)) \in Seq(E) /\ Len(SubSeq(u, 1, Len(s))) = Len(s)
      /\ \A i \in 1..Len(s) : SubSeq(u, 1, Len(s))[i] = u[i]
  BY <1>1, SubSeqProperties
<1>4. SubSeq(u, 1, Len(s)) = s
  BY <1>1, <1>3, SeqEqual
<1>5. u # <<>>
  BY <1>1
<1> QED
  BY <1>1, <1>2, <1>4, <1>5 DEF u

-------------------------------------------------------------------------------
(* Runs of an automaton: R holds its steps <<place, event, next place>>, and  *)
(* S its places.                                                              *)

\* The events lead from one place to another, by steps of R.
Leads(R, S, from, events, to) ==
    \E path \in [1..(Len(events) + 1) -> S] :
        /\ path[1] = from /\ path[Len(events) + 1] = to
        /\ \A i \in 1..Len(events) : <<path[i], events[i], path[i + 1]>> \in R

LEMMA LeadsEmpty ==
    ASSUME NEW R, NEW S, NEW place \in S
    PROVE  Leads(R, S, place, <<>>, place)
<1> DEFINE path == [i \in 1..1 |-> place]
<1>1. path \in [1..(0 + 1) -> S] /\ path[1] = place /\ path[0 + 1] = place
  OBVIOUS
<1>2. Len(<<>>) = 0 /\ \A i \in 1..0 : <<path[i], <<>>[i], path[i + 1]>> \in R
  OBVIOUS
<1> HIDE DEF path
<1> QED
  BY <1>1, <1>2 DEF Leads

LEMMA LeadsOne ==
    ASSUME NEW R, NEW S, NEW place \in S, NEW event, NEW next \in S, <<place, event, next>> \in R
    PROVE  Leads(R, S, place, <<event>>, next)
<1> DEFINE path == [i \in 1..2 |-> IF i = 1 THEN place ELSE next]
           events == <<event>>
<1>1. Len(events) = 1 /\ events[1] = event
  OBVIOUS
<1>2. path \in [1..2 -> S] /\ path[1] = place /\ path[2] = next
  OBVIOUS
<1> HIDE DEF path, events
<1>3. path \in [1..(Len(events) + 1) -> S] /\ path[Len(events) + 1] = next
  BY <1>1, <1>2
<1>4. \A i \in 1..Len(events) : <<path[i], events[i], path[i + 1]>> \in R
  BY <1>1, <1>2
<1>5. Leads(R, S, place, events, next)
  BY <1>2, <1>3, <1>4 DEF Leads
<1> QED
  BY <1>5 DEF events

\* One run after another.
LEMMA LeadsConcat ==
    ASSUME NEW R, NEW S, NEW E, NEW s \in Seq(E), NEW t \in Seq(E), NEW a, NEW b, NEW c,
           Leads(R, S, a, s, b), Leads(R, S, b, t, c)
    PROVE  Leads(R, S, a, s \o t, c)
<1> DEFINE m == Len(s)  n == Len(t)  u == s \o t
<1>1. m \in Nat /\ n \in Nat
  OBVIOUS
<1>2. PICK p \in [1..(m + 1) -> S] :
          p[1] = a /\ p[m + 1] = b /\ \A i \in 1..m : <<p[i], s[i], p[i + 1]>> \in R
  BY DEF Leads
<1>3. PICK q \in [1..(n + 1) -> S] :
          q[1] = b /\ q[n + 1] = c /\ \A i \in 1..n : <<q[i], t[i], q[i + 1]>> \in R
  BY DEF Leads
<1>4. /\ Len(u) = m + n
      /\ \A i \in 1..(m + n) : u[i] = IF i <= m THEN s[i] ELSE t[i - m]
  BY ConcatProperties
<1> HIDE DEF m, n, u
<1> DEFINE path == [i \in 1..(m + n + 1) |-> IF i <= m THEN p[i] ELSE q[i - m]]
<1>5. path \in [1..(m + n + 1) -> S]
  BY <1>1
<1>6. \A k \in 1..(m + n + 1) : path[k] = IF k <= m THEN p[k] ELSE q[k - m]
  BY Zenon
<1> HIDE DEF path
<1>7. path[1] = a /\ path[m + n + 1] = c
  <2>1. 1 \in 1..(m + n + 1) /\ m + n + 1 \in 1..(m + n + 1) /\ (m + n + 1) - m = n + 1
    BY <1>1
  <2>2. path[m + n + 1] = c
    BY <1>1, <1>3, <1>6, <2>1
  <2>3. CASE m = 0
    BY <1>1, <1>2, <1>3, <1>6, <2>1, <2>3
  <2>4. CASE m # 0
    <3>1. 1 <= m
      BY <1>1, <2>4
    <3>2. path[1] = p[1]
      BY <1>6, <2>1, <3>1
    <3> QED
      BY <1>2, <2>2, <3>2
  <2> QED
    BY <2>2, <2>3, <2>4
<1>8. \A i \in 1..(m + n) : <<path[i], u[i], path[i + 1]>> \in R
  <2> SUFFICES ASSUME NEW i \in 1..(m + n) PROVE <<path[i], u[i], path[i + 1]>> \in R
    OBVIOUS
  <2>1. i \in 1..(m + n + 1) /\ i + 1 \in 1..(m + n + 1)
    BY <1>1
  <2>2. path[i] = (IF i <= m THEN p[i] ELSE q[i - m]) /\ u[i] = (IF i <= m THEN s[i] ELSE t[i - m])
    BY <1>4, <1>6, <2>1
  <2>3. path[i + 1] = IF i + 1 <= m THEN p[i + 1] ELSE q[(i + 1) - m]
    <3> DEFINE j == i + 1
    <3>1. j \in 1..(m + n + 1)
      BY <2>1
    <3> HIDE DEF j
    <3>2. path[j] = IF j <= m THEN p[j] ELSE q[j - m]
      BY <1>6, <3>1
    <3> QED
      BY <3>2 DEF j
  <2>4. CASE i < m
    <3>1. i \in 1..m /\ i + 1 <= m /\ i <= m
      BY <1>1, <2>4
    <3>2. path[i] = p[i] /\ path[i + 1] = p[i + 1] /\ u[i] = s[i]
      BY <2>2, <2>3, <3>1
    <3> QED
      BY <1>2, <3>1, <3>2
  <2>5. CASE i = m
    <3>1. i \in 1..m /\ (i + 1) - m = 1 /\ ~(i + 1 <= m) /\ i <= m
      BY <1>1, <2>5
    <3>2. path[i] = p[i] /\ path[i + 1] = q[1] /\ u[i] = s[i]
      BY <2>2, <2>3, <3>1
    <3> QED
      BY <1>2, <1>3, <2>5, <3>1, <3>2
  <2>6. CASE i > m
    <3>1. i - m \in 1..n /\ (i + 1) - m = (i - m) + 1 /\ ~(i + 1 <= m) /\ ~(i <= m)
      BY <1>1, <2>6
    <3>2. path[i] = q[i - m] /\ path[i + 1] = q[(i - m) + 1] /\ u[i] = t[i - m]
      BY <2>2, <2>3, <3>1
    <3> QED
      BY <1>3, <3>1, <3>2
  <2> QED
    BY <1>1, <2>4, <2>5, <2>6
<1>9. Leads(R, S, a, u, c)
  <2>1. path \in [1..(Len(u) + 1) -> S] /\ path[Len(u) + 1] = c
    BY <1>4, <1>5, <1>7
  <2>2. \A i \in 1..Len(u) : <<path[i], u[i], path[i + 1]>> \in R
    BY <1>4, <1>8
  <2> QED
    BY <1>7, <2>1, <2>2 DEF Leads
<1> QED
  BY <1>9 DEF u

\* What is left of a run after its first event.
LEMMA LeadsTail ==
    ASSUME NEW R, NEW S, NEW E, NEW s \in Seq(E), s # <<>>, NEW a, NEW b, Leads(R, S, a, s, b)
    PROVE  \E next \in S : /\ a \in S /\ <<a, Head(s), next>> \in R
                           /\ Leads(R, S, next, Tail(s), b)
<1> DEFINE n == Len(s)  t == Tail(s)
<1>1. n \in Nat /\ n > 0 /\ Head(s) = s[1]
  OBVIOUS
<1>2. PICK p \in [1..(n + 1) -> S] :
          p[1] = a /\ p[n + 1] = b /\ \A i \in 1..n : <<p[i], s[i], p[i + 1]>> \in R
  BY DEF Leads
<1>3. t \in Seq(E) /\ Len(t) = n - 1 /\ \A i \in 1..(n - 1) : t[i] = s[i + 1]
  BY HeadTailProperties
<1> HIDE DEF n, t
<1>4. a \in S /\ p[2] \in S /\ <<a, Head(s), p[2]>> \in R
  <2>1. 1 \in 1..n /\ 1 \in 1..(n + 1) /\ 2 \in 1..(n + 1) /\ 1 + 1 = 2
    BY <1>1
  <2>2. <<p[1], s[1], p[1 + 1]>> \in R
    BY <1>2, <2>1
  <2> QED
    BY <1>1, <1>2, <2>1, <2>2
<1> DEFINE path == [i \in 1..n |-> p[i + 1]]
<1>5. path \in [1..n -> S]
  BY <1>1
<1>6. path[1] = p[2] /\ path[n] = b
  <2>1. 1 \in 1..n /\ n \in 1..n /\ 1 + 1 = 2
    BY <1>1
  <2>2. path[1] = p[1 + 1] /\ path[n] = p[n + 1]
    BY <2>1
  <2> QED
    BY <1>2, <2>1, <2>2
<1>7. \A i \in 1..(n - 1) : <<path[i], t[i], path[i + 1]>> \in R
  <2> SUFFICES ASSUME NEW i \in 1..(n - 1) PROVE <<path[i], t[i], path[i + 1]>> \in R
    OBVIOUS
  <2>1. i \in 1..n /\ i + 1 \in 1..n
    BY <1>1
  <2>2. path[i] = p[i + 1] /\ path[i + 1] = p[(i + 1) + 1]
    BY <2>1
  <2>3. <<p[i + 1], s[i + 1], p[(i + 1) + 1]>> \in R
    BY <1>2, <2>1
  <2> QED
    BY <1>3, <2>2, <2>3
<1> HIDE DEF path
<1>8. Leads(R, S, p[2], t, b)
  <2>1. n - 1 + 1 = n
    BY <1>1
  <2>2. path \in [1..(Len(t) + 1) -> S] /\ path[Len(t) + 1] = b
    BY <1>3, <1>5, <1>6, <2>1
  <2>3. \A i \in 1..Len(t) : <<path[i], t[i], path[i + 1]>> \in R
    BY <1>3, <1>7
  <2> QED
    BY <1>6, <2>2, <2>3 DEF Leads
<1> QED
  BY <1>4, <1>8 DEF t

LEMMA LeadsEnds ==
    ASSUME NEW R, NEW S, NEW a, NEW b, Leads(R, S, a, <<>>, b)
    PROVE  a \in S /\ b = a
<1>1. Len(<<>>) = 0
  OBVIOUS
<1>2. PICK p \in [1..(0 + 1) -> S] : p[1] = a /\ p[0 + 1] = b
  BY <1>1 DEF Leads
<1> QED
  BY <1>2

-------------------------------------------------------------------------------
(* Filters.                                                                   *)

\* f is the filtering of s, place by place.
Selects(f, s, K) ==
    /\ DOMAIN f = 0..Len(s) /\ f[0] = <<>>
    /\ \A i \in 1..Len(s) : f[i] = IF s[i] \in K THEN Append(f[i - 1], s[i]) ELSE f[i - 1]

LEMMA SelectsExists ==
    ASSUME NEW S, NEW s \in Seq(S), NEW K
    PROVE  \E f \in [0..Len(s) -> Seq(S \cap K)] : Selects(f, s, K)
<1> DEFINE n == Len(s)
           T == Seq(S \cap K)
           Fits(f, k) == f[0] = <<>> /\ \A i \in 1..(k - 1) :
                             f[i] = IF s[i] \in K THEN Append(f[i - 1], s[i]) ELSE f[i - 1]
           G == {k \in Nat : \E f \in [0..(k - 1) -> T] : Fits(f, k)}
<1>1. n \in Nat /\ \A i \in 1..n : s[i] \in S
  OBVIOUS
<1>2. 1 \in G
  <2> DEFINE f == [i \in 0..(1 - 1) |-> <<>>]
  <2>1. <<>> \in T
    OBVIOUS
  <2>2. f \in [0..(1 - 1) -> T] /\ f[0] = <<>>
    BY <2>1
  <2>3. Fits(f, 1)
    BY <2>2
  <2> QED
    BY <2>2, <2>3
<1>3. ASSUME NEW k \in 1..n, k \in G PROVE k + 1 \in G
  <2>1. PICK f \in [0..(k - 1) -> T] : Fits(f, k)
    BY <1>3
  <2> DEFINE e == IF s[k] \in K THEN Append(f[k - 1], s[k]) ELSE f[k - 1]
             g == [i \in 0..((k + 1) - 1) |-> IF i = k THEN e ELSE f[i]]
  <2>2. f[k - 1] \in T /\ e \in T
    <3>1. k - 1 \in 0..(k - 1)
      BY <1>1
    <3>2. f[k - 1] \in T
      BY <3>1
    <3> QED
      BY <1>1, <3>2
  <2>3. \A i \in 0..k : i # k => i \in 0..(k - 1)
    BY <1>1
  <2>4. (k + 1) - 1 = k /\ k \in Nat /\ k + 1 \in Nat
    BY <1>1
  <2> HIDE DEF e, T
  <2>5. g \in [0..((k + 1) - 1) -> T]
    BY <2>2, <2>3, <2>4
  <2>6. g[k] = e /\ \A i \in 0..(k - 1) : g[i] = f[i]
    BY <2>4
  <2> HIDE DEF g
  <2>7. g[0] = <<>>
    BY <1>1, <2>1, <2>6
  <2>8. ASSUME NEW i \in 1..((k + 1) - 1)
        PROVE  g[i] = IF s[i] \in K THEN Append(g[i - 1], s[i]) ELSE g[i - 1]
    <3>1. CASE i = k
      <4>1. g[i - 1] = f[k - 1]
        BY <1>1, <2>6, <3>1
      <4> QED
        BY <2>6, <3>1, <4>1 DEF e
    <3>2. CASE i # k
      <4>1. i \in 1..(k - 1) /\ i \in 0..(k - 1) /\ i - 1 \in 0..(k - 1)
        BY <1>1, <3>2
      <4>2. g[i] = f[i] /\ g[i - 1] = f[i - 1]
        BY <2>6, <4>1
      <4> QED
        BY <2>1, <4>1, <4>2
    <3> QED
      BY <3>1, <3>2
  <2>9. Fits(g, k + 1)
    BY <2>7, <2>8
  <2> HIDE DEF Fits
  <2> QED
    BY <2>4, <2>5, <2>9
<1>4. n + 1 \in G
  <2> HIDE DEF G
  <2>1. \A i \in 1..n : i \in G => i + 1 \in G
    BY <1>3
  <2>2. 1..(n + 1) \subseteq G
    BY <1>1, <1>2, <2>1, Climb
  <2> QED
    BY <1>1, <2>2
<1>5. PICK f \in [0..((n + 1) - 1) -> T] : Fits(f, n + 1)
  BY <1>4
<1>6. (n + 1) - 1 = n
  BY <1>1
<1> QED
  BY <1>5, <1>6 DEF Selects

LEMMA SelectsUnique ==
    ASSUME NEW S, NEW s \in Seq(S), NEW K, NEW f, NEW g, Selects(f, s, K), Selects(g, s, K)
    PROVE  f[Len(s)] = g[Len(s)]
<1> DEFINE n == Len(s)
           G == {k \in Nat : f[k - 1] = g[k - 1]}
<1>1. n \in Nat
  OBVIOUS
<1>2. 1 \in G
  BY DEF Selects
<1>3. ASSUME NEW k \in 1..n, k \in G PROVE k + 1 \in G
  <2>1. k + 1 \in Nat /\ (k + 1) - 1 = k
    BY <1>1
  <2>2. f[k - 1] = g[k - 1]
    BY <1>3
  <2>3. f[k] = g[k]
    BY <2>2 DEF Selects
  <2> QED
    BY <2>1, <2>3
<1>4. n + 1 \in G
  <2> HIDE DEF G
  <2>1. \A i \in 1..n : i \in G => i + 1 \in G
    BY <1>3
  <2>2. 1..(n + 1) \subseteq G
    BY <1>1, <1>2, <2>1, Climb
  <2> QED
    BY <1>1, <2>2
<1>5. (n + 1) - 1 = n
  BY <1>1
<1> QED
  BY <1>4, <1>5

\* A function that filters s place by place ends in what is selected.
LEMMA SelectedIs ==
    ASSUME NEW S, NEW s \in Seq(S), NEW K, NEW f, Selects(f, s, K)
    PROVE  Selected(s, K) = f[Len(s)]
<1> DEFINE n == Len(s)
           Step(h) == [i \in 0..n |-> IF i = 0 THEN <<>>
                                      ELSE IF s[i] \in K THEN Append(h[i - 1], s[i]) ELSE h[i - 1]]
           upTo == CHOOSE h : h = Step(h)
<1>1. Selected(s, K) = upTo[n]
  BY DEF Selected
<1>2. n \in Nat
  OBVIOUS
<1>3. f[0] = <<>> /\ \A i \in 1..n : f[i] = IF s[i] \in K THEN Append(f[i - 1], s[i]) ELSE f[i - 1]
  BY DEF Selects
<1> HIDE DEF n
<1> DEFINE h == [i \in 0..n |-> f[i]]
<1>4. h = Step(h)
  <2> DEFINE g == Step(h)
  <2>1. \A i \in 0..n : h[i] = g[i]
    <3> SUFFICES ASSUME NEW i \in 0..n PROVE h[i] = g[i]
      OBVIOUS
    <3>1. CASE i = 0
      BY <1>2, <1>3, <3>1
    <3>2. CASE i # 0
      <4>1. i - 1 \in 0..n /\ i \in 1..n
        BY <1>2, <3>2
      <4>2. h[i - 1] = f[i - 1] /\ h[i] = f[i]
        BY <4>1
      <4>3. g[i] = IF s[i] \in K THEN Append(h[i - 1], s[i]) ELSE h[i - 1]
        BY <3>2
      <4> HIDE DEF h, g
      <4> QED
        BY <1>3, <4>1, <4>2, <4>3
    <3> QED
      BY <3>1, <3>2
  <2>2. h = [i \in 0..n |-> h[i]] /\ g = [i \in 0..n |-> g[i]]
    OBVIOUS
  <2> HIDE DEF h, g
  <2>3. h = g
    BY <2>1, <2>2
  <2> QED
    BY <2>3 DEF g
<1> HIDE DEF h
<1>5. upTo = Step(upTo)
  <2> HIDE DEF Step
  <2> QED
    BY <1>4
<1> HIDE DEF upTo
<1>6. Selects(upTo, s, K)
  <2>1. DOMAIN upTo = 0..n
    BY <1>5
  <2>2. \A i \in 0..n : upTo[i] = IF i = 0 THEN <<>>
                                  ELSE IF s[i] \in K THEN Append(upTo[i - 1], s[i]) ELSE upTo[i - 1]
    BY <1>5
  <2>3. upTo[0] = <<>>
    BY <1>2, <2>2
  <2>4. \A i \in 1..n : upTo[i] = IF s[i] \in K THEN Append(upTo[i - 1], s[i]) ELSE upTo[i - 1]
    <3> SUFFICES ASSUME NEW i \in 1..n
                 PROVE  upTo[i] = IF s[i] \in K THEN Append(upTo[i - 1], s[i]) ELSE upTo[i - 1]
      OBVIOUS
    <3>1. i \in 0..n /\ i # 0
      BY <1>2
    <3> QED
      BY <2>2, <3>1
  <2> QED
    BY <2>1, <2>3, <2>4 DEF Selects, n
<1>7. upTo[n] = f[n]
  BY <1>6, SelectsUnique DEF n
<1> QED
  BY <1>1, <1>7 DEF n

LEMMA SelectedType ==
    ASSUME NEW S, NEW s \in Seq(S), NEW K
    PROVE  Selected(s, K) \in Seq(S \cap K) /\ Selected(s, K) \in Seq(S)
<1>1. PICK f \in [0..Len(s) -> Seq(S \cap K)] : Selects(f, s, K)
  BY SelectsExists
<1>2. Selected(s, K) = f[Len(s)]
  BY <1>1, SelectedIs
<1>3. Len(s) \in 0..Len(s)
  OBVIOUS
<1>4. Selected(s, K) \in Seq(S \cap K)
  BY <1>1, <1>2, <1>3
<1>5. \A t \in Seq(S \cap K) : t \in Seq(S)
  OBVIOUS
<1> QED
  BY <1>4, <1>5

LEMMA SelectedConcat ==
    ASSUME NEW S, NEW a \in Seq(S), NEW b \in Seq(S), NEW K
    PROVE  Selected(a \o b, K) = Selected(a, K) \o Selected(b, K)
<1> DEFINE m == Len(a)  n == Len(b)  c == a \o b
           T == Seq(S \cap K)
<1>1. PICK f \in [0..m -> T] : Selects(f, a, K)
  BY SelectsExists
<1>2. PICK g \in [0..n -> T] : Selects(g, b, K)
  BY SelectsExists
<1>3. /\ m \in Nat /\ n \in Nat /\ c \in Seq(S) /\ Len(c) = m + n
      /\ \A i \in 1..m : c[i] = a[i]
      /\ \A i \in 1..n : c[m + i] = b[i]
  OBVIOUS
<1>4. Selected(a, K) = f[m] /\ Selected(b, K) = g[n]
  BY <1>1, <1>2, SelectedIs
<1>5. /\ f[0] = <<>> /\ \A i \in 1..m : f[i] = IF a[i] \in K THEN Append(f[i - 1], a[i]) ELSE f[i - 1]
      /\ g[0] = <<>> /\ \A i \in 1..n : g[i] = IF b[i] \in K THEN Append(g[i - 1], b[i]) ELSE g[i - 1]
  BY <1>1, <1>2 DEF Selects
<1>6. f[m] \in T /\ \A i \in 0..n : g[i] \in T
  <2> HIDE DEF T, m, n
  <2>1. m \in 0..m
    BY <1>3
  <2> QED
    BY <1>1, <1>2, <2>1
<1>7. \A x, y \in T, e \in S \cap K : x \o Append(y, e) = Append(x \o y, e)
  OBVIOUS
<1>8. \A x \in T : x \o <<>> = x
  OBVIOUS
<1>9. \A i \in 1..n : b[i] \in S
  OBVIOUS
<1> HIDE DEF m, n, c, T
<1> DEFINE h == [i \in 0..(m + n) |-> IF i <= m THEN f[i] ELSE f[m] \o g[i - m]]
<1>10. DOMAIN h = 0..(m + n)
  OBVIOUS
<1>11. \A i \in 0..m : h[i] = f[i]
  BY <1>3
<1>12. \A j \in 0..n : h[m + j] = f[m] \o g[j]
  <2> SUFFICES ASSUME NEW j \in 0..n PROVE h[m + j] = f[m] \o g[j]
    OBVIOUS
  <2>1. CASE j = 0
    <3>1. m + j = m /\ m \in 0..m
      BY <1>3, <2>1
    <3>2. h[m] = f[m]
      BY <1>11, <3>1
    <3> QED
      BY <1>5, <1>6, <1>8, <2>1, <3>1, <3>2
  <2>2. CASE j # 0
    <3>1. m + j \in 0..(m + n) /\ ~(m + j <= m) /\ (m + j) - m = j
      BY <1>3, <2>2
    <3> QED
      BY <3>1
  <2> QED
    BY <2>1, <2>2
<1> HIDE DEF h
<1>13. h[0] = <<>>
  BY <1>3, <1>5, <1>11
<1>14. ASSUME NEW i \in 1..(m + n)
       PROVE  h[i] = IF c[i] \in K THEN Append(h[i - 1], c[i]) ELSE h[i - 1]
  <2>1. CASE i <= m
    <3>1. i \in 1..m /\ i \in 0..m /\ i - 1 \in 0..m
      BY <1>3, <2>1
    <3>2. h[i] = f[i] /\ h[i - 1] = f[i - 1] /\ c[i] = a[i]
      BY <1>3, <1>11, <3>1
    <3> QED
      BY <1>5, <3>1, <3>2
  <2>2. CASE ~(i <= m)
    <3> DEFINE j == i - m
    <3>1. j \in 1..n /\ j \in 0..n /\ j - 1 \in 0..n /\ m + j = i /\ m + (j - 1) = i - 1
      BY <1>3, <2>2
    <3> HIDE DEF j
    <3>2. h[i] = f[m] \o g[j] /\ h[i - 1] = f[m] \o g[j - 1] /\ c[i] = b[j]
      BY <1>3, <1>12, <3>1
    <3>3. g[j] = IF b[j] \in K THEN Append(g[j - 1], b[j]) ELSE g[j - 1]
      BY <1>5, <3>1
    <3>4. CASE b[j] \in K
      <4>1. b[j] \in S \cap K /\ g[j - 1] \in T
        BY <1>6, <1>9, <3>1, <3>4
      <4>2. f[m] \o Append(g[j - 1], b[j]) = Append(f[m] \o g[j - 1], b[j])
        BY <1>6, <1>7, <4>1
      <4> QED
        BY <3>2, <3>3, <3>4, <4>2
    <3>5. CASE b[j] \notin K
      BY <3>2, <3>3, <3>5
    <3> QED
      BY <3>4, <3>5
  <2> QED
    BY <2>1, <2>2
<1>15. Selects(h, c, K)
  BY <1>3, <1>10, <1>13, <1>14 DEF Selects
<1>16. Selected(c, K) = h[m + n]
  BY <1>3, <1>15, SelectedIs
<1>17. n \in 0..n
  BY <1>3
<1>18. h[m + n] = f[m] \o g[n]
  BY <1>12, <1>17
<1> QED
  BY <1>4, <1>16, <1>18 DEF c

LEMMA SelectedEmpty == \A K : Selected(<<>>, K) = <<>>
<1> SUFFICES ASSUME NEW K PROVE Selected(<<>>, K) = <<>>
  OBVIOUS
<1>1. <<>> \in Seq({}) /\ Len(<<>>) = 0
  OBVIOUS
<1>2. PICK f \in [0..Len(<<>>) -> Seq({} \cap K)] : Selects(f, <<>>, K)
  BY <1>1, SelectsExists
<1> QED
  BY <1>1, <1>2, SelectedIs DEF Selects

LEMMA SelectedOne ==
    ASSUME NEW S, NEW e \in S, NEW K
    PROVE  Selected(<<e>>, K) = IF e \in K THEN <<e>> ELSE <<>>
<1>1. <<e>> \in Seq(S) /\ Len(<<e>>) = 1 /\ <<e>>[1] = e /\ Append(<<>>, e) = <<e>>
  OBVIOUS
<1>2. PICK f \in [0..Len(<<e>>) -> Seq(S \cap K)] : Selects(f, <<e>>, K)
  BY <1>1, SelectsExists
<1>3. f[1] = IF e \in K THEN Append(f[1 - 1], e) ELSE f[1 - 1]
  BY <1>1, <1>2 DEF Selects
<1>4. f[1 - 1] = <<>>
  BY <1>2 DEF Selects
<1> QED
  BY <1>1, <1>2, <1>3, <1>4, SelectedIs

LEMMA SelectedAppend ==
    ASSUME NEW S, NEW s \in Seq(S), NEW e \in S, NEW K
    PROVE  Selected(Append(s, e), K) = IF e \in K THEN Append(Selected(s, K), e) ELSE Selected(s, K)
<1>1. Append(s, e) = s \o <<e>> /\ <<e>> \in Seq(S)
  OBVIOUS
<1>2. Selected(Append(s, e), K) = Selected(s, K) \o Selected(<<e>>, K)
  <2> DEFINE t == <<e>>
  <2>1. t \in Seq(S)
    BY <1>1
  <2> HIDE DEF t
  <2>2. Selected(s \o t, K) = Selected(s, K) \o Selected(t, K)
    BY <2>1, SelectedConcat
  <2> QED
    BY <1>1, <2>2, Zenon DEF t
<1>3. Selected(s, K) \in Seq(S)
  BY SelectedType
<1>4. \A t \in Seq(S) : t \o <<>> = t /\ t \o <<e>> = Append(t, e)
  OBVIOUS
<1> QED
  BY <1>2, <1>3, <1>4, SelectedOne

LEMMA FrontLast ==
    ASSUME NEW S, NEW s \in Seq(S), s # <<>>
    PROVE  /\ Front(s) \in Seq(S) /\ Len(Front(s)) = Len(s) - 1
           /\ Last(s) \in S /\ s = Append(Front(s), Last(s))
           /\ \A i \in 1..(Len(s) - 1) : Front(s)[i] = s[i]
<1>1. Len(s) \in Nat \ {0} /\ \A i \in 1..Len(s) : s[i] \in S
  OBVIOUS
<1>2. Front(s) = SubSeq(s, 1, Len(s) - 1) /\ Last(s) = s[Len(s)]
  BY DEF Front, Last
<1>3. 1 \in 1..(Len(s) + 1) /\ Len(s) - 1 \in 0..Len(s) /\ Len(s) \in 1..Len(s)
  BY <1>1
<1>4. /\ Front(s) \in Seq(S) /\ Len(Front(s)) = Len(s) - 1
      /\ \A i \in 1..(Len(s) - 1) : Front(s)[i] = s[i]
  <2> DEFINE k == Len(s) - 1
  <2>1. k \in Nat /\ k <= Len(s) /\ \A i \in 1..k : i \in 1..Len(s)
    BY <1>1
  <2>2. \A i \in 1..k : s[i] \in S
    BY <1>1, <2>1
  <2> HIDE DEF k
  <2>3. /\ SubSeq(s, 1, k) \in Seq(S) /\ Len(SubSeq(s, 1, k)) = k
        /\ \A i \in 1..k : SubSeq(s, 1, k)[i] = s[i]
    BY <2>1, <2>2, SubSeqProperties
  <2> QED
    BY <1>2, <2>3 DEF k
<1>5. Last(s) \in S
  BY <1>1, <1>2, <1>3
<1>6. s = Append(Front(s), Last(s))
  <2> DEFINE u == Append(Front(s), Last(s))
  <2>1. u \in Seq(S) /\ Len(u) = Len(s) /\ u[Len(s)] = Last(s)
        /\ \A i \in 1..(Len(s) - 1) : u[i] = Front(s)[i]
    BY <1>1, <1>4, <1>5, AppendProperties
  <2> HIDE DEF u
  <2>2. \A i \in 1..Len(s) : u[i] = s[i]
    BY <1>1, <1>2, <1>4, <2>1
  <2>3. u = s
    BY <2>1, <2>2, SeqEqual
  <2> QED
    BY <2>3 DEF u
<1> QED
  BY <1>4, <1>5, <1>6

\* What is filtered out at the end does not matter.
LEMMA SelectedFront ==
    ASSUME NEW S, NEW s \in Seq(S), s # <<>>, NEW K, Last(s) \notin K
    PROVE  Selected(Front(s), K) = Selected(s, K)
<1>1. Front(s) \in Seq(S) /\ Last(s) \in S /\ s = Append(Front(s), Last(s))
  BY FrontLast
<1>2. Selected(Append(Front(s), Last(s)), K) = Selected(Front(s), K)
  BY <1>1, SelectedAppend
<1> QED
  BY <1>1, <1>2, Zenon

\* A non-empty set of numbers has a least one.
LEMMA LeastExists ==
    ASSUME NEW S \in SUBSET Nat, S # {}
    PROVE  \E x \in S : \A y \in S : x <= y
<1> DEFINE R == OpToRel(<, Nat)
<1>1. PICK x \in S : \A y \in S : ~(<<y, x>> \in R)
  <2> HIDE DEF R
  <2>1. IsWellFoundedOn(R, Nat)
    BY NatLessThanWellFounded DEF R
  <2> QED
    BY <2>1, WFMin
<1>2. ASSUME NEW y \in S PROVE x <= y
  <2>1. x \in Nat /\ y \in Nat
    OBVIOUS
  <2>2. y < x => <<y, x>> \in R
    BY <2>1 DEF OpToRel
  <2> HIDE DEF R
  <2> QED
    BY <1>1, <2>1, <2>2
<1> QED
  BY <1>2

\* Of the numbers up to n, in their order, those of a set: each of them, once.
LEMMA NumbersSelected ==
    ASSUME NEW n \in Nat, NEW K
    PROVE  LET s == Selected([i \in 1..n |-> i], K)
           IN  s \in Seq(1..n) /\ ToSet(s) = K \cap (1..n) /\ IsInjective(s)
<1> DEFINE a == [i \in 1..n |-> i]
           T == Seq((1..n) \cap K)
<1>1. a \in Seq(1..n) /\ Len(a) = n /\ \A i \in 1..n : a[i] = i
  OBVIOUS
<1> HIDE DEF a
<1>2. PICK f \in [0..n -> T] : Selects(f, a, K)
  BY <1>1, SelectsExists
<1>3. f[0] = <<>> /\ \A i \in 1..n : f[i] = IF i \in K THEN Append(f[i - 1], i) ELSE f[i - 1]
  BY <1>1, <1>2 DEF Selects
<1> DEFINE Fine(s, i) == s \in Seq(1..n) /\ ToSet(s) = K \cap (1..i) /\ IsInjective(s)
           G == {k \in Nat : Fine(f[k - 1], k - 1)}
<1>4. 1 \in G
  <2>1. <<>> \in Seq(1..n) /\ DOMAIN <<>> = {}
    OBVIOUS
  <2>2. ToSet(<<>>) = {} /\ IsInjective(<<>>)
    BY <2>1 DEF ToSet, IsInjective
  <2>3. 1..0 = {}
    OBVIOUS
  <2>4. Fine(f[0], 0)
    BY <1>3, <2>1, <2>2, <2>3
  <2> QED
    BY <2>4
<1>5. ASSUME NEW k \in 1..n, k \in G PROVE k + 1 \in G
  <2> DEFINE s == f[k - 1]  t == Append(s, k)
  <2>1. /\ s \in Seq(1..n) /\ ToSet(s) = K \cap (1..(k - 1)) /\ IsInjective(s)
        /\ k \in Nat /\ (k + 1) - 1 = k
    BY <1>5
  <2>2. f[k] = IF k \in K THEN t ELSE s
    BY <1>3
  <2> SUFFICES Fine(f[k], k)
    BY <2>1
  <2> HIDE DEF s
  <2>3. CASE k \notin K
    <3>1. K \cap (1..k) = K \cap (1..(k - 1))
      BY <2>1, <2>3
    <3> QED
      BY <2>1, <2>2, <2>3, <3>1
  <2>4. CASE k \in K
    <3>1. /\ t \in Seq(1..n) /\ Len(t) = Len(s) + 1 /\ Len(s) \in Nat
          /\ t[Len(s) + 1] = k /\ \A i \in 1..Len(s) : t[i] = s[i]
      BY <2>1
    <3>2. \A i \in 1..Len(s) : s[i] \in K \cap (1..(k - 1))
      <4>1. \A i \in 1..Len(s) : s[i] \in ToSet(s)
        BY <2>1 DEF ToSet
      <4> QED
        BY <2>1, <4>1
    <3> HIDE DEF t
    <3>3. DOMAIN t = 1..(Len(s) + 1) /\ DOMAIN s = 1..Len(s)
      BY <2>1, <3>1
    <3>4. ToSet(t) = ToSet(s) \cup {k}
      <4>1. ASSUME NEW e \in ToSet(t) PROVE e \in ToSet(s) \cup {k}
        <5>1. PICK i \in 1..(Len(s) + 1) : e = t[i]
          BY <3>3 DEF ToSet
        <5>2. i \in 1..Len(s) \/ i = Len(s) + 1
          BY <3>1
        <5> QED
          BY <3>1, <3>3, <5>1, <5>2 DEF ToSet
      <4>2. ASSUME NEW e \in ToSet(s) PROVE e \in ToSet(t)
        <5>1. PICK i \in 1..Len(s) : e = s[i]
          BY <3>3 DEF ToSet
        <5>2. i \in 1..(Len(s) + 1) /\ t[i] = e
          BY <3>1, <5>1
        <5> QED
          BY <3>3, <5>2 DEF ToSet
      <4>3. k \in ToSet(t)
        <5>1. Len(s) + 1 \in 1..(Len(s) + 1)
          BY <3>1
        <5> QED
          BY <3>1, <3>3, <5>1 DEF ToSet
      <4> QED
        BY <4>1, <4>2, <4>3
    <3>5. K \cap (1..k) = (K \cap (1..(k - 1))) \cup {k}
      BY <2>1, <2>4
    <3>6. ToSet(t) = K \cap (1..k)
      BY <2>1, <3>4, <3>5
    <3>7. IsInjective(t)
      <4>1. ASSUME NEW i \in 1..(Len(s) + 1), NEW j \in 1..(Len(s) + 1), t[i] = t[j] PROVE i = j
        <5>1. \A x \in 1..Len(s) : t[x] # k
          <6>1. \A e \in K \cap (1..(k - 1)) : e # k
            BY <2>1
          <6>2. \A x \in 1..Len(s) : t[x] \in K \cap (1..(k - 1))
            BY <3>1, <3>2
          <6> QED
            BY <6>1, <6>2
        <5>2. (i \in 1..Len(s) \/ i = Len(s) + 1) /\ (j \in 1..Len(s) \/ j = Len(s) + 1)
          BY <3>1
        <5>3. i \in 1..Len(s) /\ j \in 1..Len(s) => i = j
          BY <2>1, <3>1, <3>3, <4>1 DEF IsInjective
        <5> QED
          BY <3>1, <4>1, <5>1, <5>2, <5>3
      <4> QED
        BY <3>3, <4>1 DEF IsInjective
    <3> QED
      BY <2>2, <2>4, <3>1, <3>6, <3>7
  <2> QED
    BY <2>3, <2>4
<1>6. n + 1 \in G
  <2>1. \A i \in 1..n : i \in G => i + 1 \in G
    BY <1>5
  <2> HIDE DEF G
  <2>2. 1..(n + 1) \subseteq G
    BY <1>4, <2>1, Climb
  <2> QED
    BY <2>2
<1>7. Fine(f[n], n)
  <2>1. (n + 1) - 1 = n
    OBVIOUS
  <2> QED
    BY <1>6, <2>1
<1>8. Selected(a, K) = f[n]
  BY <1>1, <1>2, SelectedIs
<1> QED
  BY <1>7, <1>8 DEF a

\* A part of a sequence.
LEMMA PartOf ==
    ASSUME NEW S, NEW s \in Seq(S), NEW a \in 0..Len(s), NEW b \in a..Len(s)
    PROVE  /\ SubSeq(s, a + 1, b) \in Seq(S) /\ Len(SubSeq(s, a + 1, b)) = b - a
           /\ \A i \in 1..(b - a) : SubSeq(s, a + 1, b)[i] = s[a + i]
           /\ ToSet(SubSeq(s, a + 1, b)) \subseteq ToSet(s)
<1> DEFINE u == SubSeq(s, a + 1, b)
<1>1. Len(s) \in Nat /\ a \in Nat /\ b \in Nat /\ a <= b /\ b <= Len(s) /\ DOMAIN s = 1..Len(s)
  OBVIOUS
<1>2. \A i \in (a + 1)..b : s[i] \in S
  OBVIOUS
<1>3. /\ u \in Seq(S) /\ Len(u) = IF a + 1 <= b THEN b - (a + 1) + 1 ELSE 0
      /\ \A i \in 1..(b - (a + 1) + 1) : u[i] = s[(a + 1) + i - 1]
  BY <1>1, <1>2, SubSeqProperties
<1> HIDE DEF u
<1>4. Len(u) = b - a
  BY <1>1, <1>3
<1>5. \A i \in 1..(b - a) : u[i] = s[a + i]
  BY <1>1, <1>3
<1>6. ToSet(u) \subseteq ToSet(s)
  <2>1. ToSet(u) = {u[i] : i \in 1..Len(u)} /\ ToSet(s) = {s[i] : i \in 1..Len(s)}
    BY <1>3, ToSetOfSeq
  <2>2. \A i \in 1..Len(u) : a + i \in 1..Len(s) /\ u[i] = s[a + i]
    BY <1>1, <1>4, <1>5
  <2> QED
    BY <2>1, <2>2
<1> QED
  BY <1>3, <1>4, <1>5, <1>6 DEF u

================================================================================
