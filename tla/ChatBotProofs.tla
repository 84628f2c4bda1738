---------------------------- MODULE ChatBotProofs ----------------------------
(***************************************************************************)
(* What the chat bot promises, for every set of rooms, commands and alerts *)
(* and every bound on the failures: what is announced in a room is said    *)
(* there once and in order, and a bot at rest is in its rooms.             *)
(***************************************************************************)
EXTENDS ChatBot, SequenceFacts, SequenceTheorems

-----------------------------------------------------------------------------
(* Sequences without repetition, and what comes before what in them.       *)

\* Something new at the end leaves a sequence without repetition, and comes
\* after all that it held.
LEMMA AppendNew ==
  ASSUME NEW S, NEW s \in Seq(S), NEW e \in S, e \notin Range(s), IsInjective(s)
  PROVE  /\ IsInjective(Append(s, e))
         /\ \A a, b : Before(Append(s, e), a, b)
                        <=> Before(s, a, b) \/ (a \in Range(s) /\ b = e)
<1> DEFINE w == Append(s, e)
<1>1. /\ Len(s) \in Nat
      /\ DOMAIN s = 1..Len(s)
      /\ DOMAIN w = 1..(Len(s) + 1)
      /\ \A i \in 1..Len(s) : w[i] = s[i]
      /\ w[Len(s) + 1] = e
  OBVIOUS
<1>2. \A i \in 1..Len(s) : s[i] # e
  BY RangeFacts
<1>3. \A i \in 1..(Len(s) + 1) : i = Len(s) + 1 \/ i \in 1..Len(s)
  BY <1>1
<1> HIDE DEF w
<1>4. IsInjective(w)
  BY <1>1, <1>2, <1>3 DEF IsInjective
<1>5. ASSUME NEW a, NEW b, Before(w, a, b)
      PROVE  Before(s, a, b) \/ (a \in Range(s) /\ b = e)
  <2>1. PICK i \in 1..(Len(s) + 1), j \in 1..(Len(s) + 1) :
          i < j /\ w[i] = a /\ w[j] = b
    BY <1>1, <1>5 DEF Before
  <2>2. i \in 1..Len(s) /\ s[i] = a
    BY <1>1, <2>1
  <2>3. a \in Range(s)
    BY <2>2, RangeFacts
  <2>4. CASE j = Len(s) + 1
    BY <1>1, <2>1, <2>3, <2>4
  <2>5. CASE j \in 1..Len(s)
    BY <1>1, <2>1, <2>2, <2>5 DEF Before
  <2> QED
    BY <1>3, <2>1, <2>4, <2>5
<1>6. ASSUME NEW a, NEW b, Before(s, a, b)
      PROVE  Before(w, a, b)
  <2>1. PICK i \in 1..Len(s), j \in 1..Len(s) : i < j /\ s[i] = a /\ s[j] = b
    BY <1>1, <1>6 DEF Before
  <2>2. i \in 1..(Len(s) + 1) /\ j \in 1..(Len(s) + 1)
    BY <1>1
  <2> QED
    BY <1>1, <2>1, <2>2 DEF Before
<1>7. ASSUME NEW a \in Range(s)
      PROVE  Before(w, a, e)
  <2>1. PICK i \in 1..Len(s) : s[i] = a
    BY <1>7, RangeFacts
  <2>2. i \in 1..(Len(s) + 1) /\ Len(s) + 1 \in 1..(Len(s) + 1) /\ i < Len(s) + 1
    BY <1>1
  <2> QED
    BY <1>1, <2>1, <2>2 DEF Before
<1> QED
  BY <1>4, <1>5, <1>6, <1>7 DEF w

\* What is removed leaves the rest as it was.
LEMMA RemoveAtFacts ==
  ASSUME NEW S, NEW s \in Seq(S), NEW i \in 1..Len(s)
  PROVE  /\ RemoveAt(s, i) \in Seq(S)
         /\ IsInjective(s) => /\ IsInjective(RemoveAt(s, i))
                              /\ Range(RemoveAt(s, i)) = Range(s) \ {s[i]}
         /\ \A a, b : Before(s, a, b) /\ a # s[i] /\ b # s[i]
                        => Before(RemoveAt(s, i), a, b)
<1> DEFINE r == RemoveAt(s, i)
           Old(k) == IF k < i THEN k ELSE k + 1
           New(k) == IF k < i THEN k ELSE k - 1
<1>1. /\ Len(s) \in Nat /\ i \in Nat
      /\ DOMAIN s = 1..Len(s)
  OBVIOUS
<1>2. /\ SubSeq(s, 1, i - 1) \in Seq(S)
      /\ Len(SubSeq(s, 1, i - 1)) = i - 1
      /\ \A k \in 1..(i - 1) : SubSeq(s, 1, i - 1)[k] = s[k]
  BY <1>1
<1> DEFINE p == SubSeq(s, 1, i - 1)
           q == SubSeq(s, i + 1, Len(s))
<1>3. /\ q \in Seq(S)
      /\ Len(q) = Len(s) - i
      /\ \A k \in 1..(Len(s) - i) : q[k] = s[i + k]
  <2>1. i + 1 \in Int /\ Len(s) \in Int /\ \A k \in (i + 1)..Len(s) : s[k] \in S
    BY <1>1
  <2>2. /\ q \in Seq(S)
        /\ Len(q) = IF i + 1 <= Len(s) THEN Len(s) - (i + 1) + 1 ELSE 0
        /\ \A k \in 1..(Len(s) - (i + 1) + 1) : q[k] = s[(i + 1) + k - 1]
    BY <2>1, SubSeqProperties
  <2> HIDE DEF q
  <2>3. ASSUME NEW k \in 1..(Len(s) - i)
        PROVE  q[k] = s[i + k]
    <3>1. k \in 1..(Len(s) - (i + 1) + 1) /\ (i + 1) + k - 1 = i + k
      BY <1>1
    <3> QED
      BY <2>2, <3>1, Zenon
  <2>4. Len(q) = Len(s) - i
    <3>1. CASE i + 1 <= Len(s)
      <4>1. Len(q) = Len(s) - (i + 1) + 1
        BY <2>2, <3>1
      <4> QED
        BY <1>1, <4>1
    <3>2. CASE i = Len(s)
      <4>1. Len(q) = 0
        BY <1>1, <2>2, <3>2
      <4> QED
        BY <1>1, <3>2, <4>1
    <3>3. i + 1 <= Len(s) \/ i = Len(s)
      <4>1. \A n \in Nat : \A k \in 1..n : k + 1 <= n \/ k = n
        OBVIOUS
      <4> QED
        BY <1>1, <4>1, Zenon
    <3> QED
      BY <3>1, <3>2, <3>3, Zenon
  <2> QED
    BY <2>2, <2>3, <2>4
<1>4. /\ r \in Seq(S)
      /\ Len(r) = Len(s) - 1
      /\ \A k \in 1..(Len(s) - 1) : r[k] = s[Old(k)]
  <2>1. r = p \o q
    BY DEF RemoveAt
  <2> HIDE DEF p, q
  <2>2. r \in Seq(S) /\ Len(r) = (i - 1) + (Len(s) - i)
    <3>1. p \in Seq(S) /\ q \in Seq(S) /\ Len(p) = i - 1 /\ Len(q) = Len(s) - i
      BY <1>2, <1>3 DEF p
    <3>2. r \in Seq(S) /\ Len(r) = Len(p) + Len(q)
      BY <2>1, <3>1, ConcatProperties, Zenon
    <3> QED
      BY <3>1, <3>2
  <2>3. ASSUME NEW k \in 1..(Len(s) - 1), k < i
        PROVE  r[k] = s[k]
    <3>1. p \in Seq(S) /\ q \in Seq(S) /\ Len(p) = i - 1 /\ Len(q) = Len(s) - i
      BY <1>2, <1>3 DEF p
    <3>2. k \in 1..(i - 1) /\ k \in 1..(Len(p) + Len(q)) /\ k <= Len(p)
      BY <1>1, <2>3, <3>1
    <3>3. r[k] = p[k]
      <4>1. \A n \in 1..(Len(p) + Len(q)) :
              (p \o q)[n] = IF n <= Len(p) THEN p[n] ELSE q[n - Len(p)]
        BY <3>1, ConcatProperties, Zenon
      <4>2. (p \o q)[k] = p[k]
        BY <3>2, <4>1, Zenon
      <4> QED
        BY <2>1, <4>2, Zenon
    <3>4. p[k] = s[k]
      BY <1>2, <3>2 DEF p
    <3> QED
      BY <3>3, <3>4, Zenon
  <2>4. ASSUME NEW k \in 1..(Len(s) - 1), ~(k < i)
        PROVE  r[k] = s[k + 1]
    <3>1. k - (i - 1) \in 1..(Len(s) - i) /\ i + (k - (i - 1)) = k + 1
      BY <1>1, <2>4
    <3>2. Len(p) = i - 1
      BY <1>2 DEF p
    <3>3. r[k] = q[k - (i - 1)]
      BY <1>1, <1>2, <1>3, <2>1, <2>4, <3>1, <3>2 DEF p
    <3> QED
      BY <1>3, <3>1, <3>3
  <2> QED
    BY <1>1, <2>2, <2>3, <2>4
<1>5. DOMAIN r = 1..(Len(s) - 1)
  BY <1>4
<1> HIDE DEF r
<1>6. /\ \A k \in 1..(Len(s) - 1) : Old(k) \in 1..Len(s) /\ Old(k) # i
      /\ \A k \in 1..Len(s) : k # i => New(k) \in 1..(Len(s) - 1) /\ Old(New(k)) = k
      /\ \A k, l \in 1..(Len(s) - 1) : Old(k) = Old(l) => k = l
      /\ \A k, l \in 1..Len(s) : k # i /\ l # i /\ k < l => New(k) < New(l)
  BY <1>1
<1>7. \A k \in 1..Len(s) : k # i => r[New(k)] = s[k]
  BY <1>4, <1>6
<1> HIDE DEF Old, New
<1>8. ASSUME IsInjective(s)
      PROVE  Range(r) = Range(s) \ {s[i]}
  <2>1. ASSUME NEW x \in Range(r)
        PROVE  x \in Range(s) \ {s[i]}
    <3>1. PICK k \in 1..(Len(s) - 1) : x = r[k]
      BY <1>5, <2>1 DEF Range
    <3>2. x = s[Old(k)] /\ Old(k) \in 1..Len(s) /\ Old(k) # i
      BY <1>4, <1>6, <3>1
    <3> QED
      BY <1>1, <1>8, <3>2 DEF Range, IsInjective
  <2>2. ASSUME NEW x \in Range(s) \ {s[i]}
        PROVE  x \in Range(r)
    <3>1. PICK k \in 1..Len(s) : x = s[k]
      BY <1>1, <2>2 DEF Range
    <3>2. New(k) \in 1..(Len(s) - 1) /\ r[New(k)] = x
      BY <1>6, <1>7, <2>2, <3>1
    <3> QED
      BY <1>5, <3>2 DEF Range
  <2> QED
    BY <2>1, <2>2
<1>9. ASSUME IsInjective(s)
      PROVE  IsInjective(r)
  <2>1. ASSUME NEW k \in 1..(Len(s) - 1), NEW l \in 1..(Len(s) - 1), r[k] = r[l]
        PROVE  k = l
    <3>1. s[Old(k)] = s[Old(l)] /\ Old(k) \in 1..Len(s) /\ Old(l) \in 1..Len(s)
      BY <1>4, <1>6, <2>1
    <3>2. Old(k) = Old(l)
      BY <1>1, <1>9, <3>1 DEF IsInjective
    <3> QED
      BY <1>6, <3>2
  <2> QED
    BY <1>5, <2>1 DEF IsInjective
<1>10. ASSUME NEW a, NEW b, Before(s, a, b), a # s[i], b # s[i]
       PROVE  Before(r, a, b)
  <2>1. PICK k \in 1..Len(s), l \in 1..Len(s) : k < l /\ s[k] = a /\ s[l] = b
    BY <1>1, <1>10 DEF Before
  <2>2. k # i /\ l # i
    BY <1>10, <2>1
  <2>3. /\ New(k) \in 1..(Len(s) - 1) /\ New(l) \in 1..(Len(s) - 1)
        /\ New(k) < New(l)
        /\ r[New(k)] = a /\ r[New(l)] = b
    BY <1>6, <1>7, <2>1, <2>2
  <2> QED
    BY <1>5, <2>3 DEF Before
<1> QED
  BY <1>4, <1>8, <1>9, <1>10 DEF r

\* The last of the indices, and those before it.
LEMMA Indices ==
  \A n \in Nat \ {0} :
    /\ n \in 1..n
    /\ \A k \in 1..n : k = n \/ k \in 1..(n - 1)
    /\ \A k \in 1..(n - 1) : k \in 1..n /\ k # n
  OBVIOUS

\* The last element and what comes before it.
LEMMA FrontFacts ==
  ASSUME NEW S, NEW s \in Seq(S), s # <<>>
  PROVE  /\ Front(s) \in Seq(S)
         /\ Len(s) \in Nat \ {0}
         /\ Len(Front(s)) = Len(s) - 1
         /\ \A k \in 1..(Len(s) - 1) : Front(s)[k] = s[k]
         /\ Last(s) = s[Len(s)]
         /\ Last(s) \in S
         /\ Range(s) = Range(Front(s)) \cup {Last(s)}
         /\ IsInjective(s) => /\ IsInjective(Front(s))
                              /\ Last(s) \notin Range(Front(s))
<1> DEFINE f == Front(s)
<1>1. Len(s) \in Nat \ {0} /\ DOMAIN s = 1..Len(s)
  OBVIOUS
<1>2. /\ f \in Seq(S)
      /\ Len(f) = Len(s) - 1
      /\ \A k \in 1..(Len(s) - 1) : f[k] = s[k]
  BY <1>1 DEF Front
<1>3. DOMAIN f = 1..(Len(s) - 1)
  BY <1>2
<1>4. Last(s) = s[Len(s)] /\ Last(s) \in S
  BY <1>1 DEF Last
<1> HIDE DEF f
<1>5. /\ Len(s) \in 1..Len(s)
      /\ \A k \in 1..Len(s) : k = Len(s) \/ k \in 1..(Len(s) - 1)
      /\ \A k \in 1..(Len(s) - 1) : k \in 1..Len(s) /\ k # Len(s)
  BY <1>1, Indices
<1>6. Range(s) = Range(f) \cup {Last(s)}
  <2>1. Range(f) \cup {Last(s)} \subseteq Range(s)
    BY <1>1, <1>2, <1>3, <1>4, <1>5 DEF Range
  <2>2. Range(s) \subseteq Range(f) \cup {Last(s)}
    BY <1>1, <1>2, <1>3, <1>4, <1>5 DEF Range
  <2> QED
    BY <2>1, <2>2
<1>7. ASSUME IsInjective(s)
      PROVE  IsInjective(f) /\ Last(s) \notin Range(f)
  <2>1. IsInjective(f)
    BY <1>1, <1>2, <1>3, <1>5, <1>7 DEF IsInjective
  <2>2. \A k \in 1..(Len(s) - 1) : f[k] # s[Len(s)]
    BY <1>1, <1>2, <1>5, <1>7 DEF IsInjective
  <2> QED
    BY <1>3, <1>4, <2>1, <2>2 DEF Range
<1> QED
  BY <1>1, <1>2, <1>4, <1>6, <1>7 DEF f

\* A sequence and another, in reverse, behind it.
LEMMA ReverseFacts ==
  ASSUME NEW S, NEW s \in Seq(S), NEW t \in Seq(S)
  PROVE  /\ s \o Reverse(t) \in Seq(S)
         /\ Range(s \o Reverse(t)) = Range(s) \cup Range(t)
         /\ IsInjective(s) /\ IsInjective(t) /\ Range(s) \cap Range(t) = {}
              => IsInjective(s \o Reverse(t))
         /\ \A a, b : Before(s, a, b) => Before(s \o Reverse(t), a, b)
<1> DEFINE r == Reverse(t)
           w == s \o r
           Old(k) == Len(t) - (k - Len(s)) + 1
<1>1. /\ Len(s) \in Nat /\ DOMAIN s = 1..Len(s)
      /\ Len(t) \in Nat /\ DOMAIN t = 1..Len(t)
  OBVIOUS
<1>2. \A k \in 1..Len(t) : (Len(t) - k) + 1 \in 1..Len(t)
  BY <1>1
<1>3. /\ r \in Seq(S)
      /\ Len(r) = Len(t)
      /\ \A k \in 1..Len(t) : r[k] = t[(Len(t) - k) + 1]
  <2>1. r = [k \in 1..Len(t) |-> t[(Len(t) - k) + 1]]
    BY DEF Reverse
  <2>2. \A k \in 1..Len(t) : t[(Len(t) - k) + 1] \in S
    BY <1>1, <1>2
  <2> HIDE DEF r
  <2>3. r \in [1..Len(t) -> S]
    BY <2>1, <2>2
  <2>4. r \in Seq(S) /\ Len(r) = Len(t)
    BY <1>1, <2>3
  <2> QED
    BY <2>1, <2>4
<1> HIDE DEF r
<1>4. /\ w \in Seq(S)
      /\ Len(w) = Len(s) + Len(t)
      /\ DOMAIN w = 1..(Len(s) + Len(t))
      /\ \A k \in 1..Len(s) : w[k] = s[k]
      /\ \A k \in 1..Len(t) : w[Len(s) + k] = r[k]
  <2>1. /\ w \in Seq(S)
        /\ Len(w) = Len(s) + Len(r)
        /\ \A k \in 1..(Len(s) + Len(r)) :
             w[k] = IF k <= Len(s) THEN s[k] ELSE r[k - Len(s)]
    <3>1. r \in Seq(S)
      BY <1>3
    <3> QED
      BY <3>1, ConcatProperties, Zenon
  <2> HIDE DEF w
  <2>2. \A k \in 1..Len(s) : w[k] = s[k]
    BY <1>1, <1>3, <2>1
  <2>3. ASSUME NEW k \in 1..Len(t)
        PROVE  w[Len(s) + k] = r[k]
    <3>1. Len(s) + k \in 1..(Len(s) + Len(t)) /\ ~(Len(s) + k <= Len(s))
          /\ (Len(s) + k) - Len(s) = k
      BY <1>1
    <3> QED
      BY <1>1, <1>3, <2>1, <3>1
  <2> QED
    BY <1>3, <2>1, <2>2, <2>3
<1> HIDE DEF w
<1>5. ASSUME NEW k \in 1..(Len(s) + Len(t))
      PROVE  \/ k \in 1..Len(s) /\ w[k] = s[k]
             \/ k > Len(s) /\ Old(k) \in 1..Len(t) /\ w[k] = t[Old(k)]
  <2>1. CASE k \in 1..Len(s)
    BY <1>4, <2>1
  <2>2. CASE k \notin 1..Len(s)
    <3>1. k - Len(s) \in 1..Len(t) /\ Len(s) + (k - Len(s)) = k
      BY <1>1, <2>2
    <3>2. w[k] = r[k - Len(s)]
      BY <1>4, <3>1
    <3>3. w[k] = t[Old(k)]
      BY <1>3, <3>1, <3>2
    <3> QED
      BY <1>1, <2>2, <3>1, <3>3
  <2> QED
    BY <2>1, <2>2
<1>6. ASSUME NEW k \in 1..Len(t)
      PROVE  /\ Len(s) + ((Len(t) - k) + 1) \in 1..(Len(s) + Len(t))
             /\ w[Len(s) + ((Len(t) - k) + 1)] = t[k]
  <2>1. /\ (Len(t) - k) + 1 \in 1..Len(t)
        /\ (Len(t) - ((Len(t) - k) + 1)) + 1 = k
    BY <1>1
  <2>2. w[Len(s) + ((Len(t) - k) + 1)] = r[(Len(t) - k) + 1]
    BY <1>4, <2>1
  <2>3. r[(Len(t) - k) + 1] = t[k]
    BY <1>3, <2>1
  <2> QED
    BY <1>1, <2>1, <2>2, <2>3
<1>7. Range(w) = Range(s) \cup Range(t)
  <2>1. ASSUME NEW x \in Range(w)
        PROVE  x \in Range(s) \cup Range(t)
    <3>1. PICK k \in 1..(Len(s) + Len(t)) : x = w[k]
      BY <1>4, <2>1 DEF Range
    <3> QED
      BY <1>1, <1>5, <3>1 DEF Range
  <2>2. \A k \in 1..Len(s) : k \in 1..(Len(s) + Len(t))
    BY <1>1
  <2>3. Range(s) \subseteq Range(w)
    BY <1>1, <1>4, <2>2 DEF Range
  <2>4. ASSUME NEW x \in Range(t)
        PROVE  x \in Range(w)
    <3>1. PICK k \in 1..Len(t) : x = t[k]
      BY <1>1, <2>4 DEF Range
    <3> QED
      BY <1>4, <1>6, <3>1 DEF Range
  <2> QED
    BY <2>1, <2>3, <2>4
<1>8. ASSUME IsInjective(s), IsInjective(t), Range(s) \cap Range(t) = {},
             NEW k \in 1..(Len(s) + Len(t)), NEW l \in 1..(Len(s) + Len(t)),
             w[k] = w[l]
      PROVE  k = l
  <2>1. \A m \in 1..Len(s), n \in 1..Len(t) : s[m] # t[n]
    BY <1>1, <1>8 DEF Range
  <2>2. CASE k \in 1..Len(s) /\ w[k] = s[k]
    <3>1. CASE l \in 1..Len(s) /\ w[l] = s[l]
      BY <1>1, <1>8, <2>2, <3>1 DEF IsInjective
    <3>2. CASE Old(l) \in 1..Len(t) /\ w[l] = t[Old(l)]
      BY <1>8, <2>1, <2>2, <3>2, Zenon
    <3> QED
      BY <1>5, <3>1, <3>2, Zenon
  <2>3. CASE Old(k) \in 1..Len(t) /\ w[k] = t[Old(k)] /\ k > Len(s)
    <3>1. Old(l) \in 1..Len(t) /\ w[l] = t[Old(l)]
      BY <1>5, <1>8, <2>1, <2>3
    <3>2. Old(k) = Old(l)
      BY <1>1, <1>8, <2>3, <3>1 DEF IsInjective
    <3> QED
      BY <1>1, <3>2
  <2> QED
    BY <1>5, <2>2, <2>3
<1>9. ASSUME NEW a, NEW b, Before(s, a, b)
      PROVE  Before(w, a, b)
  <2>1. PICK k \in 1..Len(s), l \in 1..Len(s) : k < l /\ s[k] = a /\ s[l] = b
    BY <1>1, <1>9 DEF Before
  <2>2. k \in 1..(Len(s) + Len(t)) /\ l \in 1..(Len(s) + Len(t))
    BY <1>1
  <2> QED
    BY <1>4, <2>1, <2>2 DEF Before
<1>10. IsInjective(s) /\ IsInjective(t) /\ Range(s) \cap Range(t) = {} => IsInjective(w)
  BY <1>4, <1>8 DEF IsInjective
<1> QED
  BY <1>4, <1>7, <1>9, <1>10 DEF w, r
\* A sequence in which no element of C is twice, its tail, and one that is
\* longer.
Once(s, C) == \A i, j \in DOMAIN s : s[i] = s[j] /\ s[i] \in C => i = j

LEMMA TailOnce ==
  ASSUME NEW S, NEW s \in Seq(S), s # <<>>, NEW C, Once(s, C)
  PROVE  /\ Once(Tail(s), C)
         /\ Head(s) \in C => Head(s) \notin Range(Tail(s))
<1> DEFINE t == Tail(s)
<1>1. /\ Head(s) = s[1]
      /\ t \in Seq(S)
      /\ Len(s) \in Nat \ {0}
      /\ Len(t) = Len(s) - 1
      /\ \A i \in 1..(Len(s) - 1) : t[i] = s[i + 1]
  BY PopFacts
<1> HIDE DEF t
<1>2. DOMAIN t = 1..(Len(s) - 1) /\ DOMAIN s = 1..Len(s)
  BY <1>1
<1>3. /\ 1 \in 1..Len(s)
      /\ \A i \in 1..(Len(s) - 1) : i + 1 \in 1..Len(s) /\ i + 1 # 1
      /\ \A i, j \in 1..(Len(s) - 1) : i + 1 = j + 1 => i = j
  BY <1>1
<1>4. Once(t, C)
  BY <1>1, <1>2, <1>3 DEF Once
<1>5. ASSUME Head(s) \in C, Head(s) \in Range(t)
      PROVE  FALSE
  <2>1. PICK i \in 1..(Len(s) - 1) : Head(s) = t[i]
    BY <1>2, <1>5 DEF Range
  <2>2. s[1] = s[i + 1] /\ i + 1 \in 1..Len(s) /\ i + 1 # 1
    BY <1>1, <1>3, <2>1
  <2>3. PICK j \in 1..Len(s) : s[1] = s[j] /\ j # 1
    BY <2>2, Zenon
  <2> QED
    BY <1>1, <1>2, <1>3, <1>5, <2>3 DEF Once
<1> QED
  BY <1>4, <1>5 DEF t

LEMMA AppendOnce ==
  ASSUME NEW S, NEW s \in Seq(S), NEW e \in S, NEW C, Once(s, C),
         e \notin C \/ e \notin Range(s)
  PROVE  Once(Append(s, e), C)
<1> DEFINE w == Append(s, e)
<1>1. /\ Len(s) \in Nat /\ DOMAIN s = 1..Len(s)
      /\ DOMAIN w = 1..(Len(s) + 1)
      /\ \A i \in 1..Len(s) : w[i] = s[i]
      /\ w[Len(s) + 1] = e
  OBVIOUS
<1>2. e \in C => \A i \in 1..Len(s) : s[i] # e
  BY RangeFacts
<1>3. \A i \in 1..(Len(s) + 1) : i = Len(s) + 1 \/ i \in 1..Len(s)
  BY <1>1
<1> HIDE DEF w
<1>4. Once(w, C)
  BY <1>1, <1>2, <1>3 DEF Once
<1> QED
  BY <1>4 DEF w

-----------------------------------------------------------------------------
(* The types, and where the thread of the bot can be.                      *)

JoinPhases == {"asking", "joining", "retrying"}

\* There is an attempt left for what the bot is about to try, it waits only
\* once it has joined, and it announces only with a connection.
PlaceInv ==
  /\ pc \in {"asking", "retrying"} => tries > 0
  /\ pc \in {"connecting", "resting"} => attempts > 0 /\ ~joined
  /\ pc \in JoinPhases /\ ~again => ~joined
  /\ pc = "waiting" => joined
  /\ pc = "announcing" => seen

\* The rooms of the configuration, by their index.
LEMMA RoomFacts ==
  /\ Len(RoomList) \in Nat \ {0}
  /\ \A k \in 1..Len(RoomList) : RoomList[k] \in Rooms
  /\ \A r \in Rooms : \E k \in 1..Len(RoomList) : r = RoomList[k]
  /\ \A k, l \in 1..Len(RoomList) : RoomList[k] = RoomList[l] => k = l
<1>1. RoomList \in Seq(Rooms) /\ RoomList # <<>> /\ IsInjective(RoomList)
  BY ChatAssumption
<1>2. Len(RoomList) \in Nat \ {0} /\ DOMAIN RoomList = 1..Len(RoomList)
  BY <1>1
<1> QED
  BY <1>1, <1>2 DEF Rooms, Range, IsInjective

\* The bot begins at the top of its loop, with empty buffers.
LEMMA TypeInit == Init => TypeOK /\ PlaceInv
<1> SUFFICES ASSUME Init PROVE TypeOK /\ PlaceInv
  OBVIOUS
<1>1. Len(RoomList) \in Nat \ {0}
  BY RoomFacts
<1>2. TypeOK
  <2>1. \A S : <<>> \in Seq(S)
    OBVIOUS
  <2>2. Attempts \in 0..Attempts /\ 0 \in 0..MaxDrops /\ 0 \in 0..MaxRefusals
    BY ChatAssumption
  <2>3. /\ states \in Seq({"announce", "say", "leave", "rejoin"})
        /\ announces \in Seq(Texts) /\ says \in Seq(Texts)
        /\ made \in Seq(Texts) /\ sent \in Seq(Texts)
        /\ incoming \in Seq(Commands \cup Answers) /\ messages \in Seq(Commands)
    BY <2>1, Zenon DEF Init
  <2>4. /\ room \in 1..Len(RoomList) /\ tries \in 0..Attempts /\ attempts \in 0..Attempts
        /\ drops \in 0..MaxDrops /\ refusals \in 0..MaxRefusals
    BY <1>1, <2>2 DEF Init
  <2>5. {again, seen, joined, quit, connected, named, iquit, iended, mixed}
          \subseteq BOOLEAN
    BY DEF Init
  <2> QED
    BY <2>3, <2>4, <2>5 DEF Init, TypeOK, Working
<1>3. PlaceInv
  BY DEF Init, PlaceInv, JoinPhases
<1> QED
  BY <1>2, <1>3

\* What is counted, up or down, stays within its bounds.
LEMMA Bounds ==
  /\ \A n \in 0..Attempts : n > 0 => n - 1 \in 0..Attempts
  /\ Attempts \in 0..Attempts
  /\ 1 \in 1..Len(RoomList)
  /\ \A n \in 1..Len(RoomList) : n < Len(RoomList) => n + 1 \in 1..Len(RoomList)
  /\ \A n \in 0..MaxRefusals : n < MaxRefusals => n + 1 \in 0..MaxRefusals
<1>1. Attempts \in Nat /\ MaxRefusals \in Nat /\ Len(RoomList) \in Nat \ {0}
  BY ChatAssumption, RoomFacts
<1> QED
  BY <1>1

\* Every step keeps the types: attempts are only counted down where there is
\* one left.
LEMMA TypeStep ==
  ASSUME TypeOK, PlaceInv, [Next]_vars
  PROVE  TypeOK'
<1> USE ChatAssumption DEF TypeOK
<1> USE DEF BotOnly, botVars, buffers, chatVars, interpreterVars, otherVars
<1>e. <<>> \in Seq(Commands \cup Answers) /\ <<>> \in Seq(Texts)
  OBVIOUS
<1>a. \A S : \A s \in Seq(S), e \in S : Append(s, e) \in Seq(S)
  BY AppendFacts
<1>r. /\ Len(RoomList) \in Nat \ {0}
      /\ \A k \in 1..Len(RoomList) : RoomList[k] \in Rooms
  BY RoomFacts
<1>1. CASE Top
  BY <1>1 DEF Top, Working, Asleep
<1>2. CASE WakeUp
  BY <1>2 DEF WakeUp, Working, Asleep
<1>3. CASE Connect
  <2>1. attempts' \in 0..Attempts
    <3>1. attempts \in 0..Attempts /\ attempts > 0
      BY <1>3 DEF Connect, PlaceInv
    <3>2. attempts' \in {attempts, attempts - 1}
      BY <1>3 DEF Connect
    <3> QED
      BY <3>1, <3>2, Bounds, Zenon
  <2>2. /\ room' \in 1..Len(RoomList) /\ tries' \in 0..Attempts
        /\ refusals' \in 0..MaxRefusals
    <3>1. /\ room' \in {room, 1} /\ tries' \in {tries, Attempts}
          /\ refusals' = refusals \/ (refusals < MaxRefusals /\ refusals' = refusals + 1)
      BY <1>3 DEF Connect, ConnectAndAsk, Refused
    <3>2. room \in 1..Len(RoomList) /\ tries \in 0..Attempts /\ refusals \in 0..MaxRefusals
      BY Zenon
    <3> QED
      BY <3>1, <3>2, Bounds, Zenon
  <2>3. incoming' \in Seq(Commands \cup Answers) /\ active' = active
    BY <1>3, <1>e DEF Connect, ConnectAndAsk, Refused
  <2>4. pc' \in Working
    BY <1>3 DEF Connect, ConnectAndAsk, Refused, Working
  <2>5. again' \in BOOLEAN /\ connected' \in BOOLEAN /\ named' \in BOOLEAN
    BY <1>3 DEF Connect, ConnectAndAsk, Refused
  <2> QED
    BY <1>3, <2>1, <2>2, <2>3, <2>4, <2>5 DEF Connect
<1>4. CASE Ask
  BY <1>4 DEF Ask, PlaceInv, Working
<1>5. CASE Join
  <2>1. incoming' \in Seq(Commands \cup Answers)
    BY <1>5, PopFacts DEF Join
  <2>2. active' \in SUBSET Rooms
    BY <1>5, <1>r DEF Join
  <2>3. room' \in 1..Len(RoomList) /\ tries' \in 0..Attempts
    <3>1. tries' = Attempts
      BY <1>5 DEF Join
    <3>2. room' = 1 \/ (room < Len(RoomList) /\ room' = room + 1)
      BY <1>5 DEF Join, JoinEnds
    <3>3. room \in 1..Len(RoomList)
      BY Zenon
    <3> QED
      BY <3>1, <3>2, <3>3, Bounds, Zenon
  <2> QED
    BY <1>5, <2>1, <2>2, <2>3 DEF Join, JoinEnds, Working
<1>6. CASE JoinRefused
  <2>1. incoming' \in Seq(Commands \cup Answers)
    <3>1. CASE incoming' = incoming
      BY <3>1
    <3>2. CASE incoming # <<>> /\ incoming' = Tail(incoming)
      BY <3>2, PopFacts
    <3> QED
      BY <1>6, <3>1, <3>2 DEF JoinRefused
  <2>2. room' \in 1..Len(RoomList) /\ tries' \in 0..Attempts
    <3>1. room' \in {room, 1} /\ tries' \in {tries, Attempts}
      BY <1>6 DEF JoinRefused, JoinEnds
    <3>2. room \in 1..Len(RoomList) /\ tries \in 0..Attempts
      BY Zenon
    <3> QED
      BY <3>1, <3>2, Bounds, Zenon
  <2>3. active' \in SUBSET Rooms
    BY <1>6 DEF JoinRefused
  <2> QED
    BY <1>6, <2>1, <2>2, <2>3 DEF JoinRefused, JoinEnds, Working, Asleep, Gone
<1>7. CASE Turn
  <2>1. seen' \in BOOLEAN
    BY <1>7 DEF Turn
  <2>2. pc' \in Working \cup Asleep \cup Gone
    BY <1>7 DEF Turn, Working, Leaving, Gone
  <2> QED
    BY <1>7, <2>1, <2>2 DEF Turn
<1>8. CASE HandleState
  <2>1. states' \in Seq({"announce", "say", "leave", "rejoin"})
    BY <1>8, FrontFacts DEF HandleState
  <2>2. announces' \in Seq(Texts) /\ says' \in Seq(Texts) /\ sent' \in Seq(Texts)
    <3>1. says' \in {says, <<>>} /\ sent' \in {sent, sent \o Reverse(says)}
          /\ UNCHANGED announces
      BY <1>8 DEF HandleState, Say
    <3>2. sent \o Reverse(says) \in Seq(Texts)
      BY ReverseFacts
    <3> QED
      BY <1>e, <3>1, <3>2
  <2>3. room' \in 1..Len(RoomList) /\ tries' \in 0..Attempts /\ refusals' \in 0..MaxRefusals
    <3>1. /\ room' \in {room, 1} /\ tries' \in {tries, Attempts}
          /\ refusals' = refusals \/ (refusals < MaxRefusals /\ refusals' = refusals + 1)
      BY <1>8 DEF HandleState, ConnectAndAsk, Refused
    <3>2. room \in 1..Len(RoomList) /\ tries \in 0..Attempts /\ refusals \in 0..MaxRefusals
      BY Zenon
    <3> QED
      BY <3>1, <3>2, Bounds, Zenon
  <2>4. incoming' \in Seq(Commands \cup Answers) /\ active' \in SUBSET Rooms
    <3>1. incoming' \in {incoming, <<>>} /\ active' \in {active, {}}
      BY <1>8 DEF HandleState, ConnectAndAsk, Refused
    <3> QED
      BY <1>e, <3>1
  <2>5. pc' \in Working \cup Asleep \cup Gone
    BY <1>8 DEF HandleState, ConnectAndAsk, Refused, Working, Leaving, Gone
  <2>6. {again, seen, joined, quit, connected, named, iquit, iended, mixed}'
          \subseteq BOOLEAN
    BY <1>8 DEF HandleState, ConnectAndAsk, Refused
  <2>7. UNCHANGED <<attempts, leaving, rejoining, messages, answering, given, made,
                    drops>>
    BY <1>8 DEF HandleState
  <2> QED
    BY <2>1, <2>2, <2>3, <2>4, <2>5, <2>6, <2>7
<1>9. CASE Announce
  <2>1. PICK i \in Ready : /\ sent' = Append(sent, announces[i])
                           /\ announces' = RemoveAt(announces, i)
    BY <1>9 DEF Announce
  <2>2. i \in 1..Len(announces)
    <3>1. i \in DOMAIN announces
      BY <2>1 DEF Ready
    <3>2. DOMAIN announces = 1..Len(announces)
      OBVIOUS
    <3> QED
      BY <3>1, <3>2
  <2>3. announces' \in Seq(Texts)
    BY <2>1, <2>2, RemoveAtFacts
  <2>4. sent' \in Seq(Texts)
    <3>1. announces[i] \in Texts /\ sent \in Seq(Texts)
      BY <2>2
    <3> QED
      BY <1>a, <2>1, <3>1, Zenon
  <2> QED
    BY <1>9, <2>3, <2>4 DEF Announce
<1>10. CASE Announced \/ Handled
  BY <1>10 DEF Announced, Handled, Working
<1>11. CASE Identify
  BY <1>11 DEF Identify
<1>12. CASE ReceiveMessage
  <2>1. incoming' \in Seq(Commands \cup Answers)
    BY <1>12, PopFacts DEF ReceiveMessage, NextIsCommand
  <2>2. messages' \in Seq(Commands)
    BY <1>12, AppendFacts DEF ReceiveMessage, NextIsCommand
  <2> QED
    BY <1>12, <2>1, <2>2 DEF ReceiveMessage
<1>13. CASE Interpret
  BY <1>13, FrontFacts DEF Interpret
<1>14. CASE Answer
  <2>1. messages' \in Seq(Commands) /\ answering' \in Commands \cup {Nil}
    <3>1. CASE answering' = Nil /\ UNCHANGED messages
      BY <3>1
    <3>2. CASE messages # <<>> /\ answering' = Last(messages) /\ messages' = Front(messages)
      BY <3>2, FrontFacts
    <3> QED
      BY <1>14, <3>1, <3>2 DEF Answer
  <2>2. /\ states' \in Seq({"announce", "say", "leave", "rejoin"})
        /\ announces' \in Seq(Texts) /\ says' \in Seq(Texts) /\ made' \in Seq(Texts)
    <3> DEFINE t == answering
    <3>1. t \in Texts
      BY <1>14 DEF Answer, Texts
    <3>2. /\ states' \in {Append(states, "announce"), Append(states, "say")}
          /\ announces' \in {announces, Append(announces, t)}
          /\ says' \in {says, Append(says, t)}
          /\ made' = Append(made, t)
      BY <1>14 DEF Answer, AddAnnouncement, AddSaying
    <3> HIDE DEF t
    <3>3. /\ Append(announces, t) \in Seq(Texts) /\ Append(says, t) \in Seq(Texts)
          /\ Append(made, t) \in Seq(Texts)
      BY <1>a, <3>1, Zenon
    <3>4. \A e \in {"announce", "say", "leave", "rejoin"} :
            Append(states, e) \in Seq({"announce", "say", "leave", "rejoin"})
      BY <1>a, Zenon
    <3> QED
      BY <3>2, <3>3, <3>4
  <2>3. iended' \in BOOLEAN
    BY <1>14 DEF Answer
  <2> QED
    BY <1>14, <2>1, <2>2, <2>3 DEF Answer, AddAnnouncement, AddSaying
<1>15. CASE EndInterpreter \/ StopBot \/ StopInterpreter
  BY <1>15 DEF EndInterpreter, StopBot, StopInterpreter
<1>16. CASE BufferLeave \/ BufferRejoin
  <2>1. states' \in Seq({"announce", "say", "leave", "rejoin"})
    <3>1. states' \in {states, Append(states, "leave"), Append(states, "rejoin")}
      BY <1>16 DEF BufferLeave, BufferRejoin
    <3>2. \A e \in {"announce", "say", "leave", "rejoin"} :
            Append(states, e) \in Seq({"announce", "say", "leave", "rejoin"})
      BY <1>a, Zenon
    <3> QED
      BY <3>1, <3>2
  <2>2. leaving' \in Nat /\ rejoining' \in Nat
    <3>1. \A n \in Nat : n + 1 \in Nat /\ (n > 0 => n - 1 \in Nat)
      OBVIOUS
    <3>2. CASE BufferLeave
      <4>1. leaving' \in Nat
        BY <3>1, <3>2 DEF BufferLeave
      <4>2. rejoining' \in Nat
        BY <3>1, <3>2 DEF BufferLeave
      <4> QED
        BY <4>1, <4>2
    <3>3. CASE BufferRejoin
      BY <3>1, <3>3 DEF BufferRejoin
    <3> QED
      BY <1>16, <3>2, <3>3
  <2>3. mixed' \in BOOLEAN
    BY <1>16 DEF BufferLeave, BufferRejoin, Mixes, Contains
  <2> QED
    BY <1>16, <2>1, <2>2, <2>3 DEF BufferLeave, BufferRejoin
<1>17. CASE ServerAnswers
  <2>1. incoming' \in Seq(Commands \cup Answers)
    <3>1. PICK a \in Answers : incoming' = Append(incoming, a)
      BY <1>17 DEF ServerAnswers, Answers
    <3>2. a \in Commands \cup Answers
      OBVIOUS
    <3> QED
      BY <1>a, <3>1, <3>2, Zenon
  <2>2. refusals' \in 0..MaxRefusals
    <3>1. refusals' = refusals \/ (refusals < MaxRefusals /\ refusals' = refusals + 1)
      BY <1>17 DEF ServerAnswers
    <3>2. refusals \in 0..MaxRefusals
      BY Zenon
    <3> QED
      BY <3>1, <3>2, Bounds, Zenon
  <2> QED
    BY <1>17, <2>1, <2>2 DEF ServerAnswers
<1>18. CASE Drop
  <2>1. incoming' \in Seq(Commands \cup Answers)
    BY <1>18, <1>e DEF Drop
  <2>2. drops' \in 0..MaxDrops /\ leaving' \in Nat
    BY <1>18 DEF Drop
  <2> QED
    BY <1>18, <2>1, <2>2 DEF Drop
<1>19. CASE \E c \in Commands : ServerSays(c)
  BY <1>19 DEF ServerSays
<1>20. CASE \E a \in Alerts : AnnounceAlert(a)
  BY <1>20 DEF AnnounceAlert, AddAnnouncement, Texts
<1>21. CASE AlreadyActive \/ LeaveFails
  BY <1>21 DEF AlreadyActive, LeaveFails, Gone
<1>22. CASE LeaveRoom
  <2>1. incoming' \in Seq(Commands \cup Answers)
    BY <1>22, PopFacts DEF LeaveRoom
  <2>2. active' \in SUBSET Rooms
    BY <1>22 DEF LeaveRoom
  <2> QED
    BY <1>22, <2>1, <2>2 DEF LeaveRoom
<1>23. CASE Close
  BY <1>23, <1>e DEF Close, LeaveEnds, Working, Gone
<1>24. CASE UNCHANGED vars
  BY <1>24 DEF vars
<1> QED
  BY <1>1, <1>2, <1>3, <1>4, <1>5, <1>6, <1>7, <1>8, <1>9, <1>10, <1>11, <1>12,
     <1>13, <1>14, <1>15, <1>16, <1>17, <1>18, <1>19, <1>20, <1>21, <1>22, <1>23,
     <1>24 DEF Next, BotStep, LibraryStep, InterpreterStep, HandlerStep

\* Every step keeps the bot in its place.
LEMMA PlaceStep ==
  ASSUME TypeOK, PlaceInv, [Next]_vars
  PROVE  PlaceInv'
<1> USE ChatAssumption DEF PlaceInv, JoinPhases
<1>t. /\ Attempts > 0
      /\ attempts \in Nat /\ tries \in Nat
  BY DEF TypeOK
<1>1. CASE Top
  BY <1>1, <1>t DEF Top
<1>2. CASE WakeUp
  BY <1>2 DEF WakeUp
<1>3. CASE Connect
  BY <1>3, <1>t DEF Connect, ConnectAndAsk, Refused
<1>4. CASE Ask
  BY <1>4, <1>t DEF Ask
<1>5. CASE Join
  BY <1>5, <1>t DEF Join, JoinEnds
<1>6. CASE JoinRefused
  BY <1>6, <1>t DEF JoinRefused, JoinEnds
<1>7. CASE Turn
  BY <1>7 DEF Turn
<1>8. CASE HandleState
  BY <1>8, <1>t DEF HandleState, ConnectAndAsk, Refused
<1>9. CASE Announced \/ Handled
  BY <1>9 DEF Announced, Handled
<1>10. CASE UNCHANGED botVars
  BY <1>10 DEF botVars
<1>11. CASE Announce
  BY <1>11 DEF Announce, botVars
<1>12. CASE AlreadyActive \/ LeaveFails
  BY <1>12 DEF AlreadyActive, LeaveFails
<1>13. CASE LeaveRoom
  BY <1>13 DEF LeaveRoom, botVars
<1>14. CASE Close
  BY <1>14 DEF Close, LeaveEnds
<1>15. BotStep \/ UNCHANGED botVars
  BY DEF Next, LibraryStep, Identify, ReceiveMessage, InterpreterStep,
         Interpret, Answer, EndInterpreter, HandlerStep, BufferLeave,
         BufferRejoin, ServerAnswers, Drop, StopBot, StopInterpreter,
         ServerSays, AnnounceAlert, vars
<1> HIDE DEF PlaceInv
<1> QED
  BY <1>1, <1>2, <1>3, <1>4, <1>5, <1>6, <1>7, <1>8, <1>9, <1>10, <1>11, <1>12,
     <1>13, <1>14, <1>15 DEF BotStep

-----------------------------------------------------------------------------
(* The way of a command: the server's stream, the messages of the          *)
(* interpreter, the one being answered, the answer.                        *)

Coming == Range(incoming) \cap Commands

\* A text is in one place of its way at most, and there once.
TextInv ==
  /\ Coming \cup Range(messages) \cup (Range(made) \cap Commands) \subseteq given
  /\ answering \in given \cup {Nil}
  /\ Coming \cap (Range(messages) \cup {answering} \cup Range(made)) = {}
  /\ Range(messages) \cap ({answering} \cup Range(made)) = {}
  /\ answering \notin Range(made)
  /\ Once(incoming, Commands)
  /\ IsInjective(messages)
  /\ IsInjective(made)

\* What the steps do to it.
LEMMA Travels ==
  ASSUME TypeOK, [Next]_vars
  PROVE  \/ /\ \/ UNCHANGED incoming \/ incoming' = <<>>
               \/ incoming # <<>> /\ incoming' = Tail(incoming)
               \/ \E a \in Answers : incoming' = Append(incoming, a)
            /\ UNCHANGED <<messages, answering, given, made>>
         \/ \E c \in Commands : ServerSays(c)
         \/ ReceiveMessage
         \/ Interpret
         \/ Answer
         \/ \E a \in Alerts : AnnounceAlert(a)
<1> USE DEF BotOnly, buffers, chatVars, interpreterVars, otherVars
<1>1. CASE Connect \/ HandleState \/ Close \/ Drop
  BY <1>1 DEF Connect, ConnectAndAsk, Refused, HandleState, Close, Drop
<1>2. CASE Join \/ JoinRefused \/ LeaveRoom
  BY <1>2 DEF Join, JoinRefused, LeaveRoom
<1>3. CASE ServerAnswers
  BY <1>3 DEF ServerAnswers, Answers
<1>4. CASE \/ Top \/ WakeUp \/ Ask \/ AlreadyActive \/ LeaveFails
           \/ Turn \/ Announce \/ Announced \/ Handled
  BY <1>4 DEF Top, WakeUp, Ask, AlreadyActive, LeaveFails, Turn, Announce,
              Announced, Handled
<1>5. CASE Identify \/ EndInterpreter \/ StopBot \/ StopInterpreter
  BY <1>5 DEF Identify, EndInterpreter, StopBot, StopInterpreter
<1>6. CASE BufferLeave \/ BufferRejoin
  BY <1>6 DEF BufferLeave, BufferRejoin
<1>7. CASE UNCHANGED vars
  BY <1>7 DEF vars
<1> QED
  BY <1>1, <1>2, <1>3, <1>4, <1>5, <1>6, <1>7
     DEF Next, BotStep, LibraryStep, InterpreterStep, HandlerStep

LEMMA TextInit == Init => TextInv
  BY ChatAssumption DEF Init, TextInv, Coming, Once, IsInjective, Range

\* Every step keeps a text in one place.
LEMMA TextStep ==
  ASSUME TypeOK, TextInv, [Next]_vars
  PROVE  TextInv'
<1> USE DEF TextInv, Coming
<1>t. /\ incoming \in Seq(Commands \cup Answers) /\ messages \in Seq(Commands)
      /\ made \in Seq(Texts) /\ answering \in Commands \cup {Nil}
      /\ given \subseteq Commands
  BY DEF TypeOK
<1>r. Range(messages) \subseteq Commands /\ Range(made) \subseteq Texts
  BY <1>t, RangeFacts
<1>s. /\ Commands \cap Answers = {} /\ Commands \cap Alerts = {}
      /\ Nil \notin Commands /\ Nil \notin Texts /\ Commands \subseteq Texts
  BY ChatAssumption DEF Texts
<1> USE <1>s
<1>1. CASE /\ \/ UNCHANGED incoming \/ incoming' = <<>>
              \/ incoming # <<>> /\ incoming' = Tail(incoming)
              \/ \E a \in Answers : incoming' = Append(incoming, a)
           /\ UNCHANGED <<messages, answering, given, made>>
  <2>1. Once(incoming', Commands) /\ Coming' \subseteq Coming
    <3>1. CASE UNCHANGED incoming
      BY <3>1
    <3>2. CASE incoming' = <<>>
      BY <3>2 DEF Once, Range
    <3>3. CASE incoming # <<>> /\ incoming' = Tail(incoming)
      BY <1>t, <3>3, TailOnce, TailAddsNothing
    <3>4. ASSUME NEW a \in Answers, incoming' = Append(incoming, a)
          PROVE  Once(incoming', Commands) /\ Coming' \subseteq Coming
      <4>1. a \in Commands \cup Answers /\ a \notin Commands
        OBVIOUS
      <4>2. Range(incoming') = Range(incoming) \cup {a}
        BY <1>t, <3>4, <4>1, AppendFacts
      <4>3. Once(incoming', Commands)
        BY <1>t, <3>4, <4>1, AppendOnce
      <4> QED
        BY <4>1, <4>2, <4>3
    <3> QED
      BY <1>1, <3>1, <3>2, <3>3, <3>4
  <2> QED
    BY <1>1, <2>1
<1>2. ASSUME NEW c \in Commands, ServerSays(c)
      PROVE  TextInv'
  <2>1. /\ incoming' = Append(incoming, c) /\ given' = given \cup {c}
        /\ c \notin given
        /\ UNCHANGED <<messages, answering, made>>
    BY <1>2 DEF ServerSays, buffers, interpreterVars
  <2>2. c \in Commands \cup Answers /\ c \notin Range(incoming)
    BY <2>1
  <2>3. Range(incoming') = Range(incoming) \cup {c}
    BY <1>t, <2>1, <2>2, AppendFacts
  <2>4. Once(incoming', Commands)
    BY <1>t, <2>1, <2>2, AppendOnce
  <2> QED
    BY <2>1, <2>3, <2>4
<1>3. CASE ReceiveMessage
  <2> DEFINE c == Head(incoming)
  <2>1. /\ incoming # <<>> /\ c \in Commands
        /\ messages' = Append(messages, c) /\ incoming' = Tail(incoming)
        /\ answering = Nil
        /\ UNCHANGED <<answering, given, made>>
    BY <1>3 DEF ReceiveMessage, NextIsCommand, InterpreterLockFree, buffers, otherVars
  <2>2. /\ Once(incoming', Commands) /\ c \notin Range(incoming')
        /\ Range(incoming) = {c} \cup Range(incoming')
    BY <1>t, <2>1, TailOnce, TailAddsNothing
  <2>3. c \notin Range(messages) /\ c \notin Range(made) /\ c \in given
    BY <2>1, <2>2
  <2> HIDE DEF c
  <2>4. IsInjective(messages') /\ Range(messages') = Range(messages) \cup {c}
    BY <1>t, <2>1, <2>3, AppendNew, AppendFacts
  <2> QED
    BY <1>r, <2>1, <2>2, <2>3, <2>4
<1>4. CASE Interpret
  <2>1. /\ messages # <<>> /\ answering = Nil
        /\ answering' = Last(messages) /\ messages' = Front(messages)
        /\ UNCHANGED <<incoming, given, made>>
    BY <1>4 DEF Interpret, buffers, chatVars, otherVars
  <2>2. /\ Range(messages) = Range(messages') \cup {answering'}
        /\ IsInjective(messages') /\ answering' \notin Range(messages')
    BY <1>t, <2>1, FrontFacts
  <2> QED
    BY <1>r, <2>1, <2>2
<1>5. CASE Answer
  <2>1. /\ answering # Nil /\ made' = Append(made, answering)
        /\ UNCHANGED <<incoming, given>>
    BY <1>5 DEF Answer, AddAnnouncement, AddSaying, chatVars, otherVars
  <2>2. answering \in Texts /\ answering \in Commands
    BY <1>t, <2>1
  <2>3. IsInjective(made') /\ Range(made') = Range(made) \cup {answering}
    BY <1>t, <2>1, <2>2, AppendNew, AppendFacts
  <2>4. CASE answering' = Nil /\ UNCHANGED messages
    BY <1>r, <2>1, <2>2, <2>3, <2>4
  <2>5. CASE messages # <<>> /\ answering' = Last(messages) /\ messages' = Front(messages)
    <3>1. /\ Range(messages) = Range(messages') \cup {answering'}
          /\ IsInjective(messages') /\ answering' \notin Range(messages')
      BY <1>t, <2>5, FrontFacts
    <3> QED
      BY <1>r, <2>1, <2>2, <2>3, <3>1
  <2> QED
    BY <1>5, <2>4, <2>5 DEF Answer
<1>6. ASSUME NEW a \in Alerts, AnnounceAlert(a)
      PROVE  TextInv'
  <2>1. /\ ~Contains(made, a) /\ made' = Append(made, a)
        /\ UNCHANGED <<incoming, messages, answering, given>>
    BY <1>6 DEF AnnounceAlert, AddAnnouncement, chatVars, interpreterVars, otherVars
  <2>2. a \in Texts /\ a \notin Commands /\ a # Nil
    BY DEF Texts
  <2>3. a \notin Range(made)
    BY <1>t, <2>1, RangeFacts DEF Contains
  <2>4. IsInjective(made') /\ Range(made') = Range(made) \cup {a}
    BY <1>t, <2>1, <2>2, <2>3, AppendNew, AppendFacts
  <2> QED
    BY <1>r, <1>t, <2>1, <2>2, <2>4
<1> HIDE DEF TextInv
<1> QED
  BY <1>1, <1>2, <1>3, <1>4, <1>5, <1>6, Travels

-----------------------------------------------------------------------------
(* What is announced and what is said.                                     *)

\* What was made is said, or waits in one of the buffers: what belongs in a
\* room among the announcements, what does not among the sayings.
SplitInv ==
  /\ Range(made) = Range(sent) \cup Range(announces) \cup Range(says)
  /\ Range(sent) \cap (Range(announces) \cup Range(says)) = {}
  /\ IsInjective(sent)
  /\ IsInjective(announces)
  /\ IsInjective(says)
  /\ \A t \in Range(announces) : RoomOf[t] # Nil
  /\ \A t \in Range(says) : RoomOf[t] = Nil

SameRoom(t, e) == RoomOf[t] # Nil /\ RoomOf[e] = RoomOf[t]

\* Within a room, what is said comes after all that was made before it, and
\* the announcements wait in the order in which they were made.
OrderInv ==
  /\ \A t \in Range(sent), e \in Range(made) :
       SameRoom(t, e) /\ Before(made, e, t) => Before(sent, e, t)
  /\ \A t, e \in Range(announces) :
       SameRoom(t, e) /\ Before(made, e, t) => Before(announces, e, t)

\* What the steps do to it.
LEMMA Speaks ==
  ASSUME TypeOK, TextInv, [Next]_vars
  PROVE  \/ UNCHANGED <<made, sent, announces, says>>
         \/ Announce
         \/ Say /\ UNCHANGED <<made, announces>>
         \/ \E t \in Texts \ Range(made) :
              /\ made' = Append(made, t)
              /\ UNCHANGED sent
              /\ \/ /\ RoomOf[t] # Nil
                    /\ announces' = Append(announces, t)
                    /\ UNCHANGED says
                 \/ /\ RoomOf[t] = Nil
                    /\ says' = Append(says, t)
                    /\ UNCHANGED announces
<1> USE DEF BotOnly, buffers, chatVars, interpreterVars, otherVars
<1>1. CASE HandleState
  BY <1>1 DEF HandleState
<1>2. CASE Answer
  <2>1. answering \in Texts \ Range(made)
    BY <1>2 DEF Answer, TypeOK, TextInv, Texts
  <2> QED
    BY <1>2, <2>1 DEF Answer, AddAnnouncement, AddSaying
<1>3. ASSUME NEW a \in Alerts, AnnounceAlert(a)
      PROVE  /\ a \in Texts \ Range(made)
             /\ made' = Append(made, a)
             /\ UNCHANGED sent
             /\ RoomOf[a] # Nil
             /\ announces' = Append(announces, a)
             /\ UNCHANGED says
  <2>1. a \notin Range(made)
    <3>1. made \in Seq(Texts) /\ ~\E k \in 1..Len(made) : made[k] = a
      BY <1>3 DEF AnnounceAlert, Contains, TypeOK
    <3> QED
      BY <3>1, RangeFacts
  <2>2. a \in Texts /\ RoomOf[a] # Nil
    BY ChatAssumption DEF Texts
  <2> QED
    BY <1>3, <2>1, <2>2 DEF AnnounceAlert, AddAnnouncement
<1>4. CASE Top \/ WakeUp \/ Connect \/ Ask \/ Join \/ JoinRefused
  BY <1>4 DEF Top, WakeUp, Connect, Ask, Join, JoinRefused
<1>5. CASE Turn \/ Announced \/ Handled \/ AlreadyActive
  BY <1>5 DEF Turn, Announced, Handled, AlreadyActive
<1>6. CASE LibraryStep \/ Interpret \/ EndInterpreter
  BY <1>6 DEF LibraryStep, Identify, ReceiveMessage, Interpret, EndInterpreter
<1>7. CASE BufferLeave \/ BufferRejoin \/ ServerAnswers \/ Drop
  BY <1>7 DEF BufferLeave, BufferRejoin, ServerAnswers, Drop
<1>8. CASE StopBot \/ StopInterpreter \/ \E c \in Commands : ServerSays(c)
  BY <1>8 DEF StopBot, StopInterpreter, ServerSays
<1>9. CASE LeaveRoom \/ LeaveFails \/ Close
  BY <1>9 DEF LeaveRoom, LeaveFails, Close
<1>10. CASE UNCHANGED vars
  BY <1>10 DEF vars
<1> QED
  BY <1>1, <1>2, <1>3, <1>4, <1>5, <1>6, <1>7, <1>8, <1>9, <1>10
     DEF Next, BotStep, InterpreterStep, HandlerStep

LEMMA SplitInit == Init => SplitInv /\ OrderInv
  BY DEF Init, SplitInv, OrderInv, IsInjective, Range

\* What comes before something in a sequence is in it.
LEMMA BeforeRange ==
  ASSUME NEW s, NEW a, NEW b, Before(s, a, b)
  PROVE  a \in Range(s) /\ b \in Range(s)
  BY DEF Before, Range

\* The first announcement whose room is active: what was made in its room
\* before it is said.
LEMMA FirstReady ==
  ASSUME TypeOK, SplitInv, OrderInv,
         NEW i \in Ready, \A k \in Ready : i <= k,
         NEW e \in Range(made), SameRoom(announces[i], e), Before(made, e, announces[i])
  PROVE  e \in Range(sent)
<1> DEFINE t == announces[i]
<1>1. /\ i \in 1..Len(announces) /\ DOMAIN announces = 1..Len(announces)
      /\ RoomOf[t] \in active
      /\ t \in Range(announces)
  BY DEF Ready, TypeOK, Range
<1>2. e \notin Range(says)
  BY <1>1 DEF SplitInv, SameRoom
<1>3. ASSUME e \in Range(announces)
      PROVE  FALSE
  <2>1. Before(announces, e, t)
    BY <1>1, <1>3 DEF OrderInv
  <2>2. PICK k \in 1..Len(announces), l \in 1..Len(announces) :
          k < l /\ announces[k] = e /\ announces[l] = t
    BY <1>1, <2>1 DEF Before
  <2>3. l = i
    BY <1>1, <2>2 DEF SplitInv, IsInjective
  <2>4. k \in Ready
    BY <1>1, <2>2 DEF Ready, SameRoom
  <2> QED
    BY <1>1, <2>2, <2>3, <2>4
<1> QED
  BY <1>2, <1>3 DEF SplitInv

\* Every step keeps what is said and what waits apart, and in order.
LEMMA SplitStep ==
  ASSUME TypeOK, TextInv, SplitInv, OrderInv, [Next]_vars
  PROVE  SplitInv' /\ OrderInv'
<1>t. /\ announces \in Seq(Texts) /\ says \in Seq(Texts)
      /\ made \in Seq(Texts) /\ sent \in Seq(Texts)
      /\ IsInjective(made)
  BY DEF TypeOK, TextInv
<1>1. CASE UNCHANGED <<made, sent, announces, says>>
  BY <1>1 DEF SplitInv, OrderInv, SameRoom
<1>2. CASE Announce
  <2>1. PICK i \in Ready : /\ \A k \in Ready : i <= k
                           /\ sent' = Append(sent, announces[i])
                           /\ announces' = RemoveAt(announces, i)
    BY <1>2 DEF Announce
  <2> DEFINE t0 == announces[i]
  <2>2. i \in 1..Len(announces) /\ UNCHANGED <<made, says>>
    <3>1. DOMAIN announces = 1..Len(announces)
      BY <1>t
    <3>2. i \in DOMAIN announces
      BY <2>1 DEF Ready
    <3>3. UNCHANGED <<made, says>>
      BY <1>2 DEF Announce
    <3> QED
      BY <3>1, <3>2, <3>3
  <2>3. t0 \in Range(announces) /\ t0 \in Texts /\ t0 \notin Range(sent)
    BY <1>t, <2>2, RangeFacts DEF SplitInv
  <2>4. /\ IsInjective(announces')
        /\ Range(announces') = Range(announces) \ {t0}
        /\ \A a, b : Before(announces, a, b) /\ a # t0 /\ b # t0
                       => Before(announces', a, b)
    BY <1>t, <2>1, <2>2, RemoveAtFacts DEF SplitInv
  <2>5. /\ IsInjective(sent')
        /\ Range(sent') = Range(sent) \cup {t0}
        /\ \A a, b : Before(sent', a, b)
                       <=> Before(sent, a, b) \/ (a \in Range(sent) /\ b = t0)
    BY <1>t, <2>1, <2>3, AppendNew, AppendFacts DEF SplitInv
  <2>6. \A e \in Range(made) : SameRoom(t0, e) /\ Before(made, e, t0) => e \in Range(sent)
    BY <2>1, FirstReady
  <2> HIDE DEF t0
  <2>7. SplitInv'
    <3>1. t0 \notin Range(says)
      BY <2>3 DEF SplitInv
    <3> QED
      BY <2>2, <2>3, <2>4, <2>5, <3>1 DEF SplitInv
  <2>8. ASSUME NEW t \in Range(sent'), NEW e \in Range(made'),
               SameRoom(t, e)', Before(made', e, t)
        PROVE  Before(sent', e, t)
    <3>1. SameRoom(t, e) /\ Before(made, e, t) /\ e \in Range(made)
      BY <2>2, <2>8 DEF SameRoom
    <3>2. CASE t \in Range(sent)
      BY <2>5, <3>1, <3>2 DEF OrderInv
    <3>3. CASE t = t0
      BY <2>5, <2>6, <3>1, <3>3
    <3> QED
      BY <2>5, <3>2, <3>3
  <2>9. ASSUME NEW t \in Range(announces'), NEW e \in Range(announces'),
               SameRoom(t, e)', Before(made', e, t)
        PROVE  Before(announces', e, t)
    <3>1. /\ SameRoom(t, e) /\ Before(made, e, t)
          /\ t \in Range(announces) /\ e \in Range(announces) /\ t # t0 /\ e # t0
      BY <2>2, <2>4, <2>9 DEF SameRoom
    <3> QED
      BY <2>4, <3>1 DEF OrderInv
  <2> QED
    BY <2>7, <2>8, <2>9 DEF OrderInv
<1>3. CASE Say /\ UNCHANGED <<made, announces>>
  <2>1. sent' = sent \o Reverse(says) /\ says' = <<>>
    BY <1>3 DEF Say
  <2>2. /\ Range(sent') = Range(sent) \cup Range(says)
        /\ IsInjective(sent')
        /\ \A a, b : Before(sent, a, b) => Before(sent', a, b)
    BY <1>t, <2>1, ReverseFacts DEF SplitInv
  <2>3. Range(says') = {} /\ IsInjective(says')
    BY <2>1 DEF Range, IsInjective
  <2>4. SplitInv'
    <3>1. Range(says) \cap Range(announces) = {}
      BY DEF SplitInv
    <3> QED
      BY <1>3, <2>2, <2>3, <3>1 DEF SplitInv
  <2>5. OrderInv'
    BY <1>3, <2>2 DEF OrderInv, SplitInv, SameRoom
  <2> QED
    BY <2>4, <2>5
<1>4. ASSUME NEW n \in Texts \ Range(made),
             made' = Append(made, n), UNCHANGED sent
      PROVE  /\ Range(made') = Range(made) \cup {n}
             /\ n \notin Range(sent) /\ n \notin Range(announces) /\ n \notin Range(says)
             /\ \A t \in Range(sent'), e \in Range(made') :
                  SameRoom(t, e) /\ Before(made', e, t) => Before(sent', e, t)
             /\ \A a, b : Before(made', a, b)
                            <=> Before(made, a, b) \/ (a \in Range(made) /\ b = n)
  <2>1. /\ Range(made') = Range(made) \cup {n}
        /\ \A a, b : Before(made', a, b)
                       <=> Before(made, a, b) \/ (a \in Range(made) /\ b = n)
    BY <1>t, <1>4, AppendNew, AppendFacts
  <2>2. n \notin Range(sent) /\ n \notin Range(announces) /\ n \notin Range(says)
    BY DEF SplitInv
  <2>3. ASSUME NEW t \in Range(sent'), NEW e \in Range(made'),
               SameRoom(t, e), Before(made', e, t)
        PROVE  Before(sent', e, t)
    <3>1. Before(made, e, t)
      BY <1>4, <2>1, <2>2, <2>3
    <3>2. e \in Range(made)
      BY <3>1, BeforeRange
    <3> QED
      BY <1>4, <2>3, <3>1, <3>2 DEF OrderInv
  <2> QED
    BY <2>1, <2>2, <2>3
<1>5. ASSUME NEW n \in Texts \ Range(made),
             made' = Append(made, n), UNCHANGED sent,
             RoomOf[n] # Nil, announces' = Append(announces, n), UNCHANGED says
      PROVE  SplitInv' /\ OrderInv'
  <2>1. /\ Range(made') = Range(made) \cup {n}
        /\ n \notin Range(sent) /\ n \notin Range(announces) /\ n \notin Range(says)
        /\ \A t \in Range(sent'), e \in Range(made') :
             SameRoom(t, e) /\ Before(made', e, t) => Before(sent', e, t)
        /\ \A a, b : Before(made', a, b)
                       <=> Before(made, a, b) \/ (a \in Range(made) /\ b = n)
    BY <1>4, <1>5
  <2>2. /\ IsInjective(announces')
        /\ Range(announces') = Range(announces) \cup {n}
        /\ \A a, b : Before(announces', a, b)
                       <=> Before(announces, a, b) \/ (a \in Range(announces) /\ b = n)
    BY <1>t, <1>5, <2>1, AppendNew, AppendFacts DEF SplitInv
  <2>3. SplitInv'
    BY <1>5, <2>1, <2>2 DEF SplitInv
  <2>4. ASSUME NEW t \in Range(announces'), NEW e \in Range(announces'),
               SameRoom(t, e), Before(made', e, t)
        PROVE  Before(announces', e, t)
    <3>1. CASE Before(made, e, t)
      <4>1. t # n /\ e # n
        BY <3>1, BeforeRange
      <4>2. t \in Range(announces) /\ e \in Range(announces)
        BY <2>2, <4>1
      <4> QED
        BY <2>2, <2>4, <3>1, <4>2 DEF OrderInv
    <3>2. CASE e \in Range(made) /\ t = n
      <4>1. e \in Range(announces)
        BY <2>2, <3>2
      <4> QED
        BY <2>2, <3>2, <4>1
    <3> QED
      BY <2>1, <2>4, <3>1, <3>2
  <2>5. OrderInv'
    BY <2>1, <2>4 DEF OrderInv, SameRoom
  <2> QED
    BY <2>3, <2>5
<1>6. ASSUME NEW n \in Texts \ Range(made),
             made' = Append(made, n), UNCHANGED sent,
             RoomOf[n] = Nil, says' = Append(says, n), UNCHANGED announces
      PROVE  SplitInv' /\ OrderInv'
  <2>1. /\ Range(made') = Range(made) \cup {n}
        /\ n \notin Range(sent) /\ n \notin Range(announces) /\ n \notin Range(says)
        /\ \A t \in Range(sent'), e \in Range(made') :
             SameRoom(t, e) /\ Before(made', e, t) => Before(sent', e, t)
        /\ \A a, b : Before(made', a, b)
                       <=> Before(made, a, b) \/ (a \in Range(made) /\ b = n)
    BY <1>4, <1>6
  <2>2. IsInjective(says') /\ Range(says') = Range(says) \cup {n}
    BY <1>t, <1>6, <2>1, AppendNew, AppendFacts DEF SplitInv
  <2>3. SplitInv'
    BY <1>6, <2>1, <2>2 DEF SplitInv
  <2>4. ASSUME NEW t \in Range(announces), NEW e \in Range(announces),
               SameRoom(t, e), Before(made', e, t)
        PROVE  Before(announces, e, t)
    BY <2>1, <2>4 DEF OrderInv
  <2>5. OrderInv'
    BY <1>6, <2>1, <2>4 DEF OrderInv, SameRoom
  <2> QED
    BY <2>3, <2>5
<1> QED
  BY <1>1, <1>2, <1>3, <1>5, <1>6, Speaks

-----------------------------------------------------------------------------
(* Whether the bot is in its rooms.                                        *)

Kinds == {"announce", "say", "leave", "rejoin"}

\* The leaves and rejoins that wait in a buffer of changes.
Changes(s) == {i \in DOMAIN s : s[i] \in {"leave", "rejoin"}}

\* The bot is in the rooms that its join has behind it.
JoinedSoFar ==
  pc \in JoinPhases => \A k \in 1..(room - 1) : RoomList[k] \in active

\* A bot that has joined, and has a connection, is in all its rooms, unless it
\* is about to leave them or to join them again.
InAllRooms ==
  joined /\ connected /\ pc \notin JoinPhases \cup Leaving \cup Gone
    => active = Rooms

\* A leave is not taken by a connection that was read before a rejoin.
NoLateLeave ==
  pc \in {"handling", "announcing"} /\ ~seen /\ connected
    => ~Contains(states, "leave")

\* A rejoin is the last change there was.
NoChangeLeft == pc \in JoinPhases /\ again => Changes(states) = {}

OneChange == \A i, j \in Changes(states) : i = j

RoomInv ==
  /\ JoinedSoFar
  /\ ~mixed => InAllRooms /\ NoLateLeave /\ NoChangeLeft /\ OneChange

\* A change more.
LEMMA ChangesAppend ==
  ASSUME NEW s \in Seq(Kinds), NEW e \in Kinds
  PROVE  /\ e \in {"announce", "say"} =>
              /\ Changes(Append(s, e)) = Changes(s)
              /\ Contains(Append(s, e), "leave") => Contains(s, "leave")
         /\ Changes(s) = {} => \A i, j \in Changes(Append(s, e)) : i = j
<1>1. /\ Len(s) \in Nat /\ DOMAIN s = 1..Len(s)
      /\ Len(Append(s, e)) = Len(s) + 1
      /\ DOMAIN Append(s, e) = 1..(Len(s) + 1)
      /\ \A i \in 1..Len(s) : Append(s, e)[i] = s[i]
      /\ Append(s, e)[Len(s) + 1] = e
  OBVIOUS
<1>2. \A i \in 1..(Len(s) + 1) : i = Len(s) + 1 \/ i \in 1..Len(s)
  BY <1>1
<1>3. \A i \in 1..Len(s) : i \in 1..(Len(s) + 1)
  BY <1>1
<1>4. ASSUME e \in {"announce", "say"}
      PROVE  /\ Changes(Append(s, e)) = Changes(s)
             /\ Contains(Append(s, e), "leave") => Contains(s, "leave")
  <2>1. e \notin {"leave", "rejoin"}
    BY <1>4
  <2> QED
    BY <1>1, <1>2, <1>3, <2>1 DEF Changes, Contains
<1>5. ASSUME Changes(s) = {}
      PROVE  \A i, j \in Changes(Append(s, e)) : i = j
  BY <1>1, <1>2, <1>5 DEF Changes
<1> QED
  BY <1>4, <1>5

\* The last change is taken out.
LEMMA ChangesFront ==
  ASSUME NEW s \in Seq(Kinds), s # <<>>
  PROVE  /\ Changes(Front(s)) = Changes(s) \ {Len(s)}
         /\ Contains(Front(s), "leave") => Contains(s, "leave")
         /\ Last(s) \in {"leave", "rejoin"} => Len(s) \in Changes(s)
         /\ Last(s) = "leave" => Contains(s, "leave")
<1>1. /\ Front(s) \in Seq(Kinds)
      /\ Len(s) \in Nat \ {0} /\ DOMAIN s = 1..Len(s)
      /\ Len(Front(s)) = Len(s) - 1
      /\ \A k \in 1..(Len(s) - 1) : Front(s)[k] = s[k]
      /\ Last(s) = s[Len(s)]
  BY FrontFacts
<1>2. DOMAIN Front(s) = 1..(Len(s) - 1)
  BY <1>1
<1>3. /\ Len(s) \in 1..Len(s)
      /\ \A k \in 1..Len(s) : k = Len(s) \/ k \in 1..(Len(s) - 1)
      /\ \A k \in 1..(Len(s) - 1) : k \in 1..Len(s) /\ k # Len(s)
  BY <1>1, Indices
<1> QED
  BY <1>1, <1>2, <1>3 DEF Changes, Contains

\* No leave and no rejoin waits.
LEMMA ChangesNone ==
  ASSUME NEW s \in Seq(Kinds), ~Contains(s, "leave"), ~Contains(s, "rejoin")
  PROVE  Changes(s) = {}
<1>1. DOMAIN s = 1..Len(s)
  OBVIOUS
<1> QED
  BY <1>1 DEF Changes, Contains

LEMMA RoomInit == Init => RoomInv
<1> SUFFICES ASSUME Init PROVE RoomInv
  OBVIOUS
<1>1. JoinedSoFar /\ InAllRooms /\ NoLateLeave /\ NoChangeLeft
  BY DEF Init, JoinedSoFar, InAllRooms, NoLateLeave, NoChangeLeft, JoinPhases
<1>2. OneChange
  BY DEF Init, OneChange, Changes
<1> QED
  BY <1>1, <1>2 DEF RoomInv

LEMMA RoomStep ==
  ASSUME TypeOK, PlaceInv, RoomInv, [Next]_vars
  PROVE  RoomInv'
<1> USE DEF RoomInv, JoinedSoFar, InAllRooms, NoLateLeave, NoChangeLeft,
            OneChange, JoinPhases, Leaving, Gone
<1> USE DEF BotOnly, botVars, buffers, chatVars, interpreterVars, otherVars
<1>t. states \in Seq(Kinds)
  BY DEF TypeOK, Kinds
<1>1. CASE Top \/ WakeUp \/ Ask
  BY <1>1 DEF Top, WakeUp, Ask
<1>2. CASE Connect
  BY <1>2 DEF Connect, ConnectAndAsk, Refused, PlaceInv
<1>3. CASE Join
  <2>1. /\ pc = "joining" /\ active' = active \cup {RoomList[room]}
        /\ UNCHANGED <<states, seen, mixed, connected>>
    BY <1>3 DEF Join
  <2>2. room \in Nat /\ Len(RoomList) \in Nat /\ room <= Len(RoomList)
    BY RoomFacts DEF TypeOK
  <2>3. \A k \in 1..room : RoomList[k] \in active'
    <3>1. \A k \in 1..room : k \in 1..(room - 1) \/ k = room
      BY <2>2
    <3> QED
      BY <2>1, <3>1
  <2>4. CASE room < Len(RoomList) /\ pc' = "asking" /\ room' = room + 1
             /\ UNCHANGED <<joined, again>>
    <3>1. room' - 1 = room
      BY <2>2, <2>4
    <3> QED
      BY <2>1, <2>3, <2>4, <3>1
  <2>5. CASE /\ room = Len(RoomList) /\ again' = FALSE
             /\ pc' = IF again THEN "handling" ELSE "turning"
    <3>1. active' = Rooms
      BY <2>1, <2>3, <2>5, RoomFacts DEF TypeOK
    <3>2. again /\ ~mixed => ~Contains(states, "leave")
      BY <1>t, <2>1 DEF Contains, Changes
    <3> QED
      BY <2>1, <2>5, <3>1, <3>2
  <2>6. \/ /\ room < Len(RoomList) /\ pc' = "asking" /\ room' = room + 1
           /\ UNCHANGED <<joined, again>>
        \/ /\ ~(room < Len(RoomList)) /\ again' = FALSE
           /\ pc' = IF again THEN "handling" ELSE "turning"
    BY <1>3 DEF Join, JoinEnds
  <2>7. ~(room < Len(RoomList)) => room = Len(RoomList)
    BY <2>2
  <2> HIDE DEF RoomInv
  <2> QED
    BY <2>4, <2>5, <2>6, <2>7
<1>4. CASE JoinRefused
  <2>1. JoinedSoFar'
    <3>1. pc = "joining" /\ (active' = active \/ active' = active \ {RoomList[room]})
      BY <1>4 DEF JoinRefused
    <3>2. \A k \in 1..(room - 1) : RoomList[k] # RoomList[room]
      BY RoomFacts DEF TypeOK
    <3>3. room' = room \/ room' = 1
      BY <1>4 DEF JoinRefused, JoinEnds
    <3> QED
      BY <3>1, <3>2, <3>3
  <2>2. ~mixed => InAllRooms' /\ NoLateLeave' /\ NoChangeLeft' /\ OneChange'
    BY <1>4 DEF JoinRefused, JoinEnds, PlaceInv
  <2> QED
    BY <1>4, <2>1, <2>2 DEF JoinRefused
<1>5. CASE Turn
  <2>1. /\ pc = "turning" /\ UNCHANGED <<states, mixed, connected, joined, active>>
        /\ \/ pc' \in {"closing", "ended", "top"}
           \/ pc' = "handling" /\ (connected => seen')
    BY <1>5 DEF Turn
  <2> QED
    BY <2>1
<1>6. CASE HandleState
  <2>1. /\ pc = "handling" /\ states # <<>> /\ states' = Front(states)
        /\ UNCHANGED <<seen, mixed>>
    BY <1>6 DEF HandleState
  <2>2. /\ Changes(states') = Changes(states) \ {Len(states)}
        /\ Contains(states', "leave") => Contains(states, "leave")
        /\ Last(states) \in {"leave", "rejoin"} => Len(states) \in Changes(states)
        /\ Last(states) = "leave" => Contains(states, "leave")
    BY <1>t, <2>1, ChangesFront
  <2>3. ~mixed => OneChange'
    BY <2>2
  <2>4. CASE pc' \in {"handling", "announcing"} /\ UNCHANGED chatVars
             /\ UNCHANGED joined /\ (pc' = "announcing" => seen)
    BY <2>1, <2>2, <2>3, <2>4
  <2>5. CASE Last(states) = "leave" /\ UNCHANGED <<connected, joined>>
             /\ (pc' = "leaving" \/ (~seen /\ UNCHANGED pc))
    BY <2>1, <2>2, <2>3, <2>5
  <2>6. CASE Last(states) = "rejoin" /\ (ConnectAndAsk \/ Refused("failed"))
    <3>1. ~mixed => Changes(states') = {}
      BY <2>2, <2>6
    <3> QED
      BY <2>1, <2>2, <2>3, <2>6, <3>1 DEF ConnectAndAsk, Refused
  <2> QED
    BY <1>6, <2>1, <2>4, <2>5, <2>6 DEF HandleState
<1>7. CASE Announce \/ Announced \/ Handled
  BY <1>7 DEF Announce, Announced, Handled
<1>8. CASE LibraryStep \/ Interpret \/ EndInterpreter
  BY <1>8 DEF LibraryStep, Identify, ReceiveMessage, Interpret, EndInterpreter
<1>9. ASSUME NEW e \in {"announce", "say"}, states' = Append(states, e),
             UNCHANGED <<botVars, mixed, connected, active>>
      PROVE  RoomInv'
  BY <1>t, <1>9, ChangesAppend DEF Kinds
<1>10. CASE Answer
  BY <1>9, <1>10 DEF Answer, AddAnnouncement, AddSaying
<1>11. CASE \E a \in Alerts : AnnounceAlert(a)
  BY <1>9, <1>11 DEF AnnounceAlert, AddAnnouncement
<1>12. CASE BufferLeave \/ BufferRejoin
  <2>1. /\ BotLockFree
        /\ UNCHANGED <<botVars, connected, active>>
        /\ \/ UNCHANGED <<states, mixed>>
           \/ /\ \E e \in {"leave", "rejoin"} : states' = Append(states, e)
              /\ mixed' = (mixed \/ Mixes)
    BY <1>12 DEF BufferLeave, BufferRejoin
  <2>2. CASE UNCHANGED <<states, mixed>>
    BY <2>1, <2>2
  <2>3. ASSUME NEW e \in {"leave", "rejoin"}, states' = Append(states, e),
               mixed' = (mixed \/ Mixes)
        PROVE  RoomInv'
    <3>1. ~mixed' => ~mixed /\ pc # "retrying" /\ Changes(states) = {}
      BY <1>t, <2>3, ChangesNone DEF Mixes
    <3>2. ~mixed' => OneChange'
      BY <1>t, <2>3, <3>1, ChangesAppend DEF Kinds
    <3>3. ~mixed' => pc \notin JoinPhases \cup {"handling", "announcing"}
      BY <2>1, <3>1 DEF BotLockFree, Asleep
    <3> QED
      BY <2>1, <3>1, <3>2, <3>3
  <2> QED
    BY <2>1, <2>2, <2>3
<1>13. CASE ServerAnswers \/ Drop \/ StopBot \/ StopInterpreter
  BY <1>13 DEF ServerAnswers, Drop, StopBot, StopInterpreter
<1>14. CASE \E c \in Commands : ServerSays(c)
  BY <1>14 DEF ServerSays
<1>15. CASE LeaveRoom
  <2>1. pc \in Leaving /\ UNCHANGED <<pc, states, seen, mixed, connected, joined>>
    BY <1>15 DEF LeaveRoom
  <2> QED
    BY <2>1
<1>16. CASE Close
  BY <1>16 DEF Close, LeaveEnds
<1>17. CASE AlreadyActive \/ LeaveFails
  BY <1>17 DEF AlreadyActive, LeaveFails
<1>18. CASE UNCHANGED vars
  BY <1>18 DEF vars
<1> HIDE DEF RoomInv
<1> QED
  BY <1>1, <1>2, <1>3, <1>4, <1>5, <1>6, <1>7, <1>8, <1>10, <1>11, <1>12, <1>13,
     <1>14, <1>15, <1>16, <1>17, <1>18 DEF Next, BotStep, InterpreterStep, HandlerStep

-----------------------------------------------------------------------------
(* The invariant of every step, and what follows from it.                  *)

Inv ==
  TypeOK /\ PlaceInv /\ TextInv /\ SplitInv /\ OrderInv /\ RoomInv

LEMMA Inductive == Spec => []Inv
<1>1. Init => Inv
  BY TypeInit, TextInit, SplitInit, RoomInit DEF Inv
<1>2. Inv /\ [Next]_vars => Inv'
  BY TypeStep, PlaceStep, TextStep, SplitStep, RoomStep DEF Inv
<1> QED
  BY <1>1, <1>2, PTL DEF Spec

\* TypeOK, for every number of rooms, commands, alerts and failures.
THEOREM TypeCorrect == Spec => []TypeOK
<1>1. Inv => TypeOK
  BY DEF Inv
<1> QED
  BY <1>1, Inductive, PTL

\* SaidInOrder: what announce has put into the buffer is said in its room once
\* and in that order, although _announce leaves behind what belongs in a room
\* that is not active, and joins, leaves, exceptions and stops come between.
THEOREM RoomsHearInOrder == Spec => []SaidInOrder
<1>1. Inv => SaidInOrder
  BY DEF Inv, SplitInv, OrderInv, SameRoom, SaidInOrder
<1> QED
  BY <1>1, Inductive, PTL

\* IdleInItsRooms: a bot that waits for a change with a connection is in every
\* room of the configuration, unless a leave or a rejoin was put behind one
\* that was not yet dealt with.
THEOREM RestsInItsRooms == Spec => []IdleInItsRooms
<1>1. Inv => IdleInItsRooms
  BY DEF Inv, PlaceInv, RoomInv, InAllRooms, IdleInItsRooms, JoinPhases, Leaving,
         Gone
<1> QED
  BY <1>1, Inductive, PTL

-----------------------------------------------------------------------------
(* What is not lost, and what does not pass.                               *)

\* Once the interpreter has a command, it has it still, or is answering it, or
\* has given the answer to the bot.
Received(c) == answering = c \/ c \in Range(messages) \/ c \in Range(made)

ReceivedIsKept == [][\A c \in Commands : Received(c) => Received(c)']_vars

\* What is announced or said waits for the bot until it is said.
MadeIsKept == Range(made) = Range(sent) \cup Range(announces) \cup Range(says)

\* No command is lost on the way from the interpreter to the server, whatever
\* stops, exceptions and failures of the connection come between: a command that
\* is not answered still waits in one of the buffers.
THEOREM NothingIsLost == Spec => ReceivedIsKept /\ []MadeIsKept
<1>1. Inv => MadeIsKept
  BY DEF Inv, SplitInv, MadeIsKept
<1>2. ASSUME Inv, [Next]_vars, NEW c \in Commands, Received(c)
      PROVE  Received(c)'
  <2>t. /\ messages \in Seq(Commands) /\ made \in Seq(Texts)
        /\ answering \in Commands \cup {Nil} /\ Commands \subseteq Texts
        /\ c # Nil
    BY <1>2, ChatAssumption DEF Inv, TypeOK, Texts
  <2>1. CASE UNCHANGED <<messages, answering, made>>
    BY <1>2, <2>1 DEF Received
  <2>2. CASE \E d \in Commands : ServerSays(d)
    BY <1>2, <2>2 DEF Received, ServerSays, interpreterVars, buffers
  <2>3. CASE ReceiveMessage
    <3>1. /\ messages' = Append(messages, Head(incoming)) /\ Head(incoming) \in Commands
          /\ UNCHANGED <<answering, made>>
      BY <2>3 DEF ReceiveMessage, NextIsCommand, buffers
    <3>2. Range(messages) \subseteq Range(messages')
      BY <2>t, <3>1, AppendFacts
    <3> QED
      BY <1>2, <3>1, <3>2 DEF Received
  <2>4. CASE Interpret
    <3>1. /\ messages # <<>> /\ answering = Nil
          /\ answering' = Last(messages) /\ messages' = Front(messages)
          /\ UNCHANGED made
      BY <2>4 DEF Interpret, buffers
    <3>2. Range(messages) = Range(messages') \cup {answering'}
      BY <2>t, <3>1, FrontFacts
    <3> QED
      BY <1>2, <2>t, <3>1, <3>2 DEF Received
  <2>5. CASE Answer
    <3>1. answering # Nil /\ made' = Append(made, answering)
      BY <2>5 DEF Answer, AddAnnouncement, AddSaying
    <3>2. Range(made') = Range(made) \cup {answering}
      BY <2>t, <3>1, AppendFacts
    <3>3. CASE UNCHANGED messages
      BY <1>2, <3>2, <3>3 DEF Received
    <3>4. CASE messages # <<>> /\ answering' = Last(messages) /\ messages' = Front(messages)
      <4>1. Range(messages) = Range(messages') \cup {answering'}
        BY <2>t, <3>4, FrontFacts
      <4> QED
        BY <1>2, <3>2, <4>1 DEF Received
    <3> QED
      BY <2>5, <3>3, <3>4 DEF Answer
  <2>6. CASE \E a \in Alerts : AnnounceAlert(a)
    <3>1. PICK a \in Alerts : made' = Append(made, a) /\ UNCHANGED <<messages, answering>>
      BY <2>6 DEF AnnounceAlert, AddAnnouncement, interpreterVars
    <3>2. a \in Texts
      BY DEF Texts
    <3>3. Range(made) \subseteq Range(made')
      BY <2>t, <3>1, <3>2, AppendFacts
    <3> QED
      BY <1>2, <3>1, <3>3 DEF Received
  <2>7. TypeOK
    BY <1>2 DEF Inv
  <2> QED
    BY <1>2, <2>1, <2>2, <2>3, <2>4, <2>5, <2>6, <2>7, Travels
<1>3. Inv /\ [Next]_vars => [\A c \in Commands : Received(c) => Received(c)']_vars
  BY <1>2
<1> QED
  BY <1>1, <1>3, Inductive, PTL DEF Spec, ReceivedIsKept

\* A bot that was told to stop while it waited to try a room again turns in the
\* inner loop of _join for good.
SpinsForGood == [](Spinning => []Spinning)

\* The bot, which joins a room or leaves it, and the chat library's thread wait
\* for each other until the connection fails: neither the server, the
\* interpreter, an exception with the connection still there nor a stop frees
\* them.
StuckUntilCutOff == [][Stuck => Stuck' \/ ~connected']_vars

\* The two ways in which the bot hangs do not pass by themselves.
THEOREM HangsForGood == Spec => SpinsForGood /\ StuckUntilCutOff
<1>1. ASSUME [Next]_vars, Spinning
      PROVE  Spinning'
  <2> USE <1>1 DEF Spinning, botVars
  <2>1. CASE BotStep
    BY <2>1 DEF BotStep, Top, WakeUp, Connect, Ask, AlreadyActive, Join,
                JoinRefused, Turn, HandleState, Announce, Announced, Handled,
                LeaveRoom, LeaveFails, Close, Leaving
  <2>2. CASE LibraryStep \/ InterpreterStep
    BY <2>2 DEF LibraryStep, Identify, ReceiveMessage, InterpreterStep,
                Interpret, Answer, EndInterpreter
  <2>3. CASE BufferLeave \/ BufferRejoin \/ ServerAnswers \/ Drop
    BY <2>3 DEF BufferLeave, BufferRejoin, ServerAnswers, Drop
  <2>4. CASE StopBot \/ StopInterpreter
    BY <2>4 DEF StopBot, StopInterpreter
  <2>5. CASE (\E c \in Commands : ServerSays(c)) \/ (\E a \in Alerts : AnnounceAlert(a))
    BY <2>5 DEF ServerSays, AnnounceAlert
  <2>6. CASE UNCHANGED vars
    BY <2>6 DEF vars
  <2> QED
    BY <2>1, <2>2, <2>3, <2>4, <2>5, <2>6 DEF Next, HandlerStep
<1>2. ASSUME TypeOK, [Next]_vars, Stuck, connected'
      PROVE  Stuck'
  <2>1. /\ Waits /\ incoming # <<>> /\ Head(incoming) \in Commands
        /\ (RoomOf[Head(incoming)] # Nil /\ ~named) \/ answering # Nil
        /\ pc \notin Gone /\ ~BotLockFree
    BY <1>2 DEF Stuck, Waits, Leaving, NextIsCommand, BotLockFree, Asleep, Gone
  <2>2. Head(incoming) \notin Answers
    BY <2>1, ChatAssumption
  <2>3. incoming \in Seq(Commands \cup Answers) /\ Len(incoming) \in Nat \ {0}
    BY <1>2, <2>1 DEF TypeOK
  <2>4. ~BotStep
    BY <1>2, <2>1, <2>2 DEF BotStep, Top, WakeUp, Connect, Ask, AlreadyActive,
       Join, JoinRefused, Turn, HandleState, Announce, Announced, Handled,
       LeaveRoom, LeaveFails, Close, Waits, Leaving, Answers, chatVars
  <2>5. CASE ReceiveMessage \/ Identify \/ Answer
    BY <2>1, <2>5 DEF ReceiveMessage, Identify, Answer, InterpreterLockFree
  <2>6. CASE Interpret
    <3>1. messages # <<>> /\ answering' = Last(messages)
          /\ UNCHANGED <<pc, active, incoming, named>>
      BY <2>6 DEF Interpret, botVars, chatVars
    <3>2. answering' \in Commands
      BY <1>2, <3>1, FrontFacts DEF TypeOK
    <3>3. answering' # Nil
      BY <3>2, ChatAssumption DEF Texts
    <3> QED
      BY <2>1, <3>1, <3>3 DEF Stuck, Waits, NextIsCommand
  <2>7. CASE EndInterpreter \/ Drop \/ UNCHANGED vars
    <3>1. UNCHANGED <<pc, active, incoming, named, answering>>
      BY <1>2, <2>7 DEF EndInterpreter, Drop, vars, botVars, chatVars, interpreterVars
    <3> QED
      BY <2>1, <3>1 DEF Stuck, Waits, NextIsCommand
  <2>8. CASE BufferLeave \/ BufferRejoin \/ StopBot \/ StopInterpreter
             \/ \E a \in Alerts : AnnounceAlert(a)
    BY <2>1, <2>8 DEF BufferLeave, BufferRejoin, StopBot, StopInterpreter,
       AnnounceAlert
  <2>9. ASSUME NEW e \in Commands \cup Answers, incoming' = Append(incoming, e),
               UNCHANGED <<pc, active, named, answering>>
        PROVE  Stuck'
    <3>1. incoming' # <<>> /\ Head(incoming') = Head(incoming)
      BY <2>3, <2>9
    <3> QED
      BY <2>1, <2>9, <3>1 DEF Stuck, Waits, NextIsCommand
  <2>10. CASE ServerAnswers \/ \E c \in Commands : ServerSays(c)
    <3>1. \E e \in Commands \cup Answers : incoming' = Append(incoming, e)
      BY <2>10 DEF ServerAnswers, ServerSays, Answers
    <3>2. UNCHANGED <<pc, active, named, answering>>
      BY <2>10 DEF ServerAnswers, ServerSays, botVars, interpreterVars
    <3> QED
      BY <2>9, <3>1, <3>2
  <2> QED
    BY <1>2, <2>4, <2>5, <2>6, <2>7, <2>8, <2>10
       DEF Next, LibraryStep, InterpreterStep, HandlerStep
<1>3. [Next]_vars => (Spinning => Spinning')
  BY <1>1
<1>4. Inv /\ [Next]_vars => [Stuck => Stuck' \/ ~connected']_vars
  BY <1>2 DEF Inv
<1> QED
  BY <1>3, <1>4, Inductive, PTL DEF Spec, SpinsForGood, StuckUntilCutOff

=============================================================================
