----------------------------- MODULE QueueLemmas -----------------------------
(***************************************************************************)
(* Facts about the concatenation of a loop's local vector and its queue,   *)
(* and about the indices of a queue, that the proofs about functors share. *)
(***************************************************************************)
EXTENDS Naturals, Sequences, SequenceTheorems, TLAPS

(* Taking the head of a concatenation takes it from the first part.        *)
LEMMA ConcatHeadTail ==
  ASSUME NEW S, NEW s \in Seq(S), NEW u \in Seq(S), s # <<>>
  PROVE  /\ s \o u # <<>>
         /\ Head(s \o u) = Head(s)
         /\ Tail(s \o u) = Tail(s) \o u
  OBVIOUS

(* Appending to a concatenation appends to the second part.                *)
LEMMA ConcatAppend ==
  ASSUME NEW S, NEW s \in Seq(S), NEW u \in Seq(S), NEW e \in S
  PROVE  s \o Append(u, e) = Append(s \o u, e)
  OBVIOUS

(* What stands where after an Append.                                      *)
LEMMA AppendIndices ==
  ASSUME NEW S, NEW s \in Seq(S), NEW e \in S
  PROVE  /\ Len(s) \in Nat /\ DOMAIN s = 1..Len(s)
         /\ DOMAIN Append(s, e) = 1..(Len(s) + 1)
         /\ \A i \in 1..Len(s) : Append(s, e)[i] = s[i]
         /\ Append(s, e)[Len(s) + 1] = e
  OBVIOUS

(* What stands where in a Tail.                                            *)
LEMMA TailIndices ==
  ASSUME NEW S, NEW s \in Seq(S), s # <<>>
  PROVE  /\ Len(s) \in Nat \ {0} /\ DOMAIN s = 1..Len(s)
         /\ Head(s) = s[1] /\ Head(s) \in S
         /\ Tail(s) \in Seq(S) /\ Len(Tail(s)) = Len(s) - 1
         /\ DOMAIN Tail(s) = 1..(Len(s) - 1)
         /\ \A i \in 1..(Len(s) - 1) : Tail(s)[i] = s[i + 1]
<1>1. /\ Len(s) \in Nat \ {0} /\ DOMAIN s = 1..Len(s)
      /\ Head(s) = s[1] /\ Head(s) \in S /\ Tail(s) \in Seq(S)
  OBVIOUS
<1>2. Len(Tail(s)) = Len(s) - 1 /\ DOMAIN Tail(s) = 1..(Len(s) - 1)
  BY <1>1
<1>3. \A i \in 1..(Len(s) - 1) : Tail(s)[i] = s[i + 1]
  BY <1>1
<1> QED
  BY <1>1, <1>2, <1>3

(* What stands in a concatenation, and where each part stands in it.       *)
LEMMA ConcatIndices ==
  ASSUME NEW S, NEW s \in Seq(S), NEW u \in Seq(S)
  PROVE  /\ \A i \in DOMAIN (s \o u) :
              \/ i \in DOMAIN s /\ (s \o u)[i] = s[i]
              \/ i - Len(s) \in DOMAIN u /\ (s \o u)[i] = u[i - Len(s)]
         /\ \A i \in DOMAIN s : i \in DOMAIN (s \o u) /\ (s \o u)[i] = s[i]
         /\ \A i \in DOMAIN u : i + Len(s) \in DOMAIN (s \o u)
                                /\ (s \o u)[i + Len(s)] = u[i]
         /\ Len(s) \in Nat /\ DOMAIN s = 1..Len(s) /\ DOMAIN u = 1..Len(u)
<1>1. /\ Len(s) \in Nat /\ Len(u) \in Nat
      /\ DOMAIN s = 1..Len(s) /\ DOMAIN u = 1..Len(u)
      /\ DOMAIN (s \o u) = 1..(Len(s) + Len(u))
      /\ \A i \in 1..(Len(s) + Len(u)) :
           (s \o u)[i] = IF i <= Len(s) THEN s[i] ELSE u[i - Len(s)]
  OBVIOUS
<1> QED
  BY <1>1

(* Concatenation is associative.                                           *)
Associate(s, t, u) == (s \o t) \o u = s \o (t \o u)
LEMMA AssociateAll ==
  ASSUME NEW S, NEW s \in Seq(S), NEW t \in Seq(S), NEW u \in Seq(S)
  PROVE  Associate(s, t, u)
BY ConcatAssociative DEF Associate

(* Of x \o y the part x goes behind w, the part y behind b.                *)
Distribute(w, b, x, y) ==
  /\ (w \o x) \o (b \o y) = (w \o b) \o (x \o y)
  /\ (w \o x) \o b = (w \o b) \o x
  /\ (w \o x) \o y = w \o (x \o y)

LEMMA ConcatParts ==
  ASSUME NEW S, NEW w \in Seq(S), NEW b \in Seq(S), NEW x \in Seq(S),
         NEW y \in Seq(S), x = <<>> \/ b = <<>>
  PROVE  Distribute(w, b, x, y)
<1>1. (w \o x) \o y = w \o (x \o y) /\ (w \o b) \o y = w \o (b \o y)
  <2>1. Associate(w, x, y) /\ Associate(w, b, y)
    BY AssociateAll
  <2> QED
    BY <2>1, Zenon DEF Associate
<1>2. /\ w \o <<>> = w /\ (w \o b) \o <<>> = w \o b /\ <<>> \o y = y
      /\ (w \o x) \o <<>> = w \o x
  OBVIOUS
<1>3. CASE x = <<>>
  BY <1>1, <1>2, <1>3, Zenon DEF Distribute
<1>4. CASE b = <<>>
  BY <1>1, <1>2, <1>4, Zenon DEF Distribute
<1> QED
  BY <1>3, <1>4
==============================================================================
