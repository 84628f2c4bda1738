--------------------------- MODULE SequenceFacts ---------------------------
(***************************************************************************)
(* What the proofs about the queues and the chat bot use of Append, Head, Tail and Range.    *)
(***************************************************************************)
EXTENDS Naturals, Sequences, Functions, TLAPS

\* Append adds one element, at the end.
LEMMA AppendFacts ==
  ASSUME NEW S, NEW s \in Seq(S), NEW e \in S
  PROVE  /\ Append(s, e) \in Seq(S)
         /\ Len(Append(s, e)) = Len(s) + 1
         /\ \A i \in 1..Len(s) : Append(s, e)[i] = s[i]
         /\ Append(s, e)[Len(s) + 1] = e
         /\ Range(Append(s, e)) = Range(s) \cup {e}
<1>1. /\ Append(s, e) \in Seq(S)
      /\ Len(Append(s, e)) = Len(s) + 1
      /\ \A i \in 1..Len(s) : Append(s, e)[i] = s[i]
      /\ Append(s, e)[Len(s) + 1] = e
  OBVIOUS
<1>2. DOMAIN s = 1..Len(s) /\ DOMAIN Append(s, e) = 1..(Len(s) + 1)
  OBVIOUS
<1>3. Range(Append(s, e)) = Range(s) \cup {e}
  BY <1>1, <1>2 DEF Range
<1> QED
  BY <1>1, <1>3

\* Tail removes one element, from the front.
LEMMA PopFacts ==
  ASSUME NEW S, NEW s \in Seq(S), s # <<>>
  PROVE  /\ Head(s) \in S
         /\ Head(s) = s[1]
         /\ Tail(s) \in Seq(S)
         /\ Len(s) \in Nat \ {0}
         /\ Len(Tail(s)) = Len(s) - 1
         /\ \A i \in 1..(Len(s) - 1) : Tail(s)[i] = s[i + 1]
  OBVIOUS

\* Range is the set of elements.
LEMMA RangeFacts ==
  ASSUME NEW S, NEW s \in Seq(S), NEW x
  PROVE  /\ x \in Range(s) <=> \E i \in 1..Len(s) : x = s[i]
         /\ Range(s) \subseteq S
  BY DEF Range

\* An element other than the head stays in the tail.
LEMMA TailKeeps ==
  ASSUME NEW S, NEW s \in Seq(S), s # <<>>,
         NEW x \in Range(s), x # Head(s)
  PROVE  x \in Range(Tail(s))
<1>1. PICK i \in 1..Len(s) : x = s[i]
  BY RangeFacts
<1>2. /\ Len(s) \in Nat \ {0}
      /\ Head(s) = s[1]
      /\ Tail(s) \in Seq(S)
      /\ Len(Tail(s)) = Len(s) - 1
      /\ \A j \in 1..(Len(s) - 1) : Tail(s)[j] = s[j + 1]
  BY PopFacts
<1>3. i - 1 \in 1..(Len(s) - 1) /\ (i - 1) + 1 = i
  BY <1>1, <1>2
<1>4. Tail(s)[i - 1] = x
  BY <1>1, <1>2, <1>3
<1>5. \E j \in 1..Len(Tail(s)) : x = Tail(s)[j]
  BY <1>2, <1>3, <1>4
<1> QED
  BY <1>2, <1>5, RangeFacts

\* The tail holds nothing new.
LEMMA TailAddsNothing ==
  ASSUME NEW S, NEW s \in Seq(S), s # <<>>
  PROVE  Range(s) = {Head(s)} \cup Range(Tail(s))
<1>1. /\ Len(s) \in Nat \ {0}
      /\ Head(s) = s[1]
      /\ Tail(s) \in Seq(S)
      /\ Len(Tail(s)) = Len(s) - 1
      /\ \A j \in 1..(Len(s) - 1) : Tail(s)[j] = s[j + 1]
  BY PopFacts
<1>2. Head(s) \in Range(s)
  BY <1>1, RangeFacts
<1>3. ASSUME NEW x \in Range(Tail(s))
      PROVE  x \in Range(s)
  <2>1. PICK j \in 1..Len(Tail(s)) : x = Tail(s)[j]
    <3>1. \A t \in Seq(S) : x \in Range(t) => \E j \in 1..Len(t) : x = t[j]
      BY RangeFacts
    <3> QED
      BY <1>1, <1>3, <3>1
  <2>2. x = s[j + 1] /\ j + 1 \in 1..Len(s)
    BY <1>1, <2>1
  <2> QED
    BY <2>2, RangeFacts
<1> QED
  BY <1>2, <1>3, TailKeeps

-----------------------------------------------------------------------------
(* A queue and its history: what was taken and what is queued are, end to   *)
(* end, what was sent, and nothing was sent twice.                          *)

Split(whole, front, back) ==
  /\ Len(whole) = Len(front) + Len(back)
  /\ \A i \in 1..Len(front) : front[i] = whole[i]
  /\ \A i \in 1..Len(back) : back[i] = whole[Len(front) + i]
  /\ \A i, j \in 1..Len(whole) : whole[i] = whole[j] => i = j

\* Sending something new keeps the split.
LEMMA SplitSend ==
  ASSUME NEW S, NEW whole \in Seq(S), NEW front \in Seq(S), NEW back \in Seq(S),
         Split(whole, front, back), NEW e \in S, e \notin Range(whole)
  PROVE  Split(Append(whole, e), front, Append(back, e))
<1> DEFINE w == Append(whole, e)
           b == Append(back, e)
<1>1. /\ Len(w) = Len(whole) + 1
      /\ \A i \in 1..Len(whole) : w[i] = whole[i]
      /\ w[Len(whole) + 1] = e
  BY AppendFacts
<1>2. /\ Len(b) = Len(back) + 1
      /\ \A i \in 1..Len(back) : b[i] = back[i]
      /\ b[Len(back) + 1] = e
  BY AppendFacts
<1>3. Len(whole) \in Nat /\ Len(front) \in Nat /\ Len(back) \in Nat
  OBVIOUS
<1>4. \A i \in 1..Len(whole) : whole[i] # e
  BY RangeFacts
<1> HIDE DEF w, b
<1>5. Len(w) = Len(front) + Len(b)
  BY <1>1, <1>2, <1>3 DEF Split
<1>6. \A i \in 1..Len(front) : front[i] = w[i]
  BY <1>1, <1>3 DEF Split
<1>7. ASSUME NEW i \in 1..Len(b)
      PROVE  b[i] = w[Len(front) + i]
  <2>1. i = Len(back) + 1 \/ i \in 1..Len(back)
    BY <1>2, <1>3
  <2>2. CASE i = Len(back) + 1
    BY <2>2, <1>1, <1>2, <1>3 DEF Split
  <2>3. CASE i \in 1..Len(back)
    <3>1. b[i] = whole[Len(front) + i] /\ Len(front) + i \in 1..Len(whole)
      BY <2>3, <1>2, <1>3 DEF Split
    <3> QED
      BY <3>1, <1>1
  <2> QED
    BY <2>1, <2>2, <2>3
<1>8. ASSUME NEW i \in 1..Len(w), NEW j \in 1..Len(w), w[i] = w[j]
      PROVE  i = j
  <2>1. \A k \in 1..Len(w) : k = Len(whole) + 1 \/ k \in 1..Len(whole)
    BY <1>1, <1>3
  <2>2. CASE i \in 1..Len(whole) /\ j \in 1..Len(whole)
    <3>1. whole[i] = whole[j]
      BY <2>2, <1>1, <1>8
    <3> QED
      BY <2>2, <3>1 DEF Split
  <2>3. CASE i = Len(whole) + 1 /\ j \in 1..Len(whole)
    BY <2>3, <1>1, <1>4, <1>8
  <2>4. CASE j = Len(whole) + 1 /\ i \in 1..Len(whole)
    BY <2>4, <1>1, <1>4, <1>8
  <2> QED
    BY <2>1, <2>2, <2>3, <2>4
<1>9. Split(w, front, b)
  BY <1>5, <1>6, <1>7, <1>8 DEF Split
<1> QED
  BY <1>9 DEF w, b

\* Taking the head keeps the split, and the head is new to those taken.
LEMMA SplitTake ==
  ASSUME NEW S, NEW whole \in Seq(S), NEW front \in Seq(S), NEW back \in Seq(S),
         Split(whole, front, back), back # <<>>
  PROVE  /\ Split(whole, Append(front, Head(back)), Tail(back))
         /\ Head(back) \notin Range(front)
         /\ Len(front) < Len(whole)
         /\ Head(back) = whole[Len(front) + 1]
<1> DEFINE e == Head(back)
           f == Append(front, e)
           b == Tail(back)
<1>1. /\ e \in S
      /\ e = back[1]
      /\ Len(back) \in Nat \ {0}
      /\ Len(b) = Len(back) - 1
      /\ \A i \in 1..(Len(back) - 1) : b[i] = back[i + 1]
  BY PopFacts
<1>2. /\ Len(f) = Len(front) + 1
      /\ \A i \in 1..Len(front) : f[i] = front[i]
      /\ f[Len(front) + 1] = e
  BY <1>1, AppendFacts
<1>3. Len(whole) \in Nat /\ Len(front) \in Nat
  OBVIOUS
<1> HIDE DEF e, f, b
<1>4. Len(front) < Len(whole) /\ e = whole[Len(front) + 1]
  BY <1>1, <1>3 DEF Split
<1>5. Len(whole) = Len(f) + Len(b)
  <2>1. Len(whole) = Len(front) + Len(back)
    BY DEF Split
  <2> QED
    BY <2>1, <1>1, <1>2, <1>3
<1>6. \A i \in 1..Len(f) : f[i] = whole[i]
  <2>1. \A i \in 1..Len(f) : i \in 1..Len(front) \/ i = Len(front) + 1
    BY <1>2, <1>3
  <2>2. \A i \in 1..Len(front) : front[i] = whole[i]
    BY DEF Split
  <2> QED
    BY <1>2, <1>4, <2>1, <2>2, Zenon
<1>7. ASSUME NEW i \in 1..Len(b)
      PROVE  b[i] = whole[Len(f) + i]
  <2>1. b[i] = back[i + 1] /\ i + 1 \in 1..Len(back)
    BY <1>1
  <2>2. back[i + 1] = whole[Len(front) + (i + 1)]
    BY <2>1 DEF Split
  <2>3. Len(front) + (i + 1) = Len(f) + i
    BY <1>1, <1>2, <1>3
  <2> QED
    BY <2>1, <2>2, <2>3
<1>8. Split(whole, f, b)
  BY <1>5, <1>6, <1>7 DEF Split
<1>9. e \notin Range(front)
  <2>1. ASSUME NEW i \in 1..Len(front)
        PROVE  front[i] # e
    BY <1>3, <1>4 DEF Split
  <2> QED
    BY <2>1, RangeFacts
<1> QED
  BY <1>4, <1>8, <1>9 DEF e, f, b

\* Everything sent is taken or queued, never both.
LEMMA SplitRanges ==
  ASSUME NEW S, NEW whole \in Seq(S), NEW front \in Seq(S), NEW back \in Seq(S),
         Split(whole, front, back)
  PROVE  /\ Range(whole) = Range(front) \cup Range(back)
         /\ Range(front) \cap Range(back) = {}
<1>1. Len(whole) \in Nat /\ Len(front) \in Nat /\ Len(back) \in Nat
  OBVIOUS
<1>2. ASSUME NEW x \in Range(whole)
      PROVE  x \in Range(front) \cup Range(back)
  <2>1. PICK i \in 1..Len(whole) : x = whole[i]
    BY RangeFacts
  <2>2. CASE i \in 1..Len(front)
    BY <2>1, <2>2, RangeFacts DEF Split
  <2>3. CASE i \notin 1..Len(front)
    <3>1. i - Len(front) \in 1..Len(back) /\ Len(front) + (i - Len(front)) = i
      BY <2>3, <1>1 DEF Split
    <3>2. back[i - Len(front)] = x
      BY <2>1, <3>1 DEF Split
    <3> QED
      BY <3>1, <3>2, RangeFacts
  <2> QED
    BY <2>2, <2>3
<1>3. ASSUME NEW x \in Range(front)
      PROVE  x \in Range(whole) /\ x \notin Range(back)
  <2>1. PICK i \in 1..Len(front) : x = front[i]
    BY RangeFacts
  <2>2. x = whole[i] /\ i \in 1..Len(whole)
    BY <2>1, <1>1 DEF Split
  <2>3. ASSUME NEW j \in 1..Len(back)
        PROVE  x # back[j]
    <3>1. back[j] = whole[Len(front) + j]
      BY DEF Split
    <3>2. Len(front) + j \in 1..Len(whole) /\ i # Len(front) + j
      BY <1>1 DEF Split
    <3> QED
      BY <2>2, <3>1, <3>2 DEF Split
  <2> QED
    BY <2>2, <2>3, RangeFacts
<1>4. ASSUME NEW x \in Range(back)
      PROVE  x \in Range(whole)
  <2>1. PICK j \in 1..Len(back) : x = back[j]
    BY RangeFacts
  <2>2. x = whole[Len(front) + j] /\ Len(front) + j \in 1..Len(whole)
    BY <2>1, <1>1 DEF Split
  <2> QED
    BY <2>2, RangeFacts
<1> QED
  BY <1>2, <1>3, <1>4

=============================================================================
