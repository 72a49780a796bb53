--------------------------- MODULE SequenceFacts ---------------------------
(***************************************************************************)
(* Facts about sequences whatever their elements are, which the proofs     *)
(* about the gateway's queues and histories share.                         *)
(***************************************************************************)
EXTENDS Integers, Sequences, SequenceTheorems, TLAPS

\* A value is a sequence of something.
IsSequence(s) == Len(s) \in Nat /\ s = [i \in 1..Len(s) |-> s[i]]

\* The elements of a sequence.
Elements(s) == {s[i] : i \in 1..Len(s)}

\* A sequence of something is a sequence over its elements, and the other way round.
LEMMA SequenceOfElements ==
  ASSUME NEW s, IsSequence(s)
  PROVE  s \in Seq(Elements(s)) /\ DOMAIN s = 1..Len(s)
BY DEF IsSequence, Elements

LEMMA SeqIsSequence ==
  ASSUME NEW S, NEW s \in Seq(S)
  PROVE  IsSequence(s) /\ \A i \in 1..Len(s) : s[i] \in S
BY LenProperties DEF IsSequence

LEMMA SameSequence ==
  ASSUME NEW s, NEW t, IsSequence(s), IsSequence(t), Len(s) = Len(t),
         \A i \in 1..Len(s) : s[i] = t[i]
  PROVE  s = t
BY DEF IsSequence

LEMMA SequenceInSeq ==
  ASSUME NEW S, NEW s, IsSequence(s), \A i \in 1..Len(s) : s[i] \in S
  PROVE  s \in Seq(S)
BY DEF IsSequence

\* What Append, Head, Tail, concatenation and a prefix do to length and elements.
LEMMA AppendSequence ==
  ASSUME NEW s, IsSequence(s), NEW x
  PROVE  /\ IsSequence(Append(s, x)) /\ Len(Append(s, x)) = Len(s) + 1
         /\ \A i \in 1..Len(s) : Append(s, x)[i] = s[i]
         /\ Append(s, x)[Len(s) + 1] = x
<1> DEFINE S == Elements(s) \cup {x}
<1>1. s \in Seq(S)
  BY DEF IsSequence, Elements
<1>2. x \in S
  OBVIOUS
<1> HIDE DEF S
<1>3. /\ Append(s, x) \in Seq(S) /\ Len(Append(s, x)) = Len(s) + 1
      /\ \A i \in 1..Len(s) : Append(s, x)[i] = s[i]
      /\ Append(s, x)[Len(s) + 1] = x
  BY <1>1, <1>2, AppendProperties
<1>4. IsSequence(Append(s, x))
  BY <1>3, SeqIsSequence
<1> QED
  BY <1>3, <1>4

LEMMA TailSequence ==
  ASSUME NEW s, IsSequence(s), s # <<>>
  PROVE  /\ Len(s) \in Nat \ {0} /\ Head(s) = s[1]
         /\ IsSequence(Tail(s)) /\ Len(Tail(s)) = Len(s) - 1
         /\ \A i \in 1..Len(Tail(s)) : Tail(s)[i] = s[i + 1]
<1> DEFINE S == Elements(s)
<1>1. s \in Seq(S)
  BY SequenceOfElements
<1> HIDE DEF S
<1>2. Len(s) \in Nat \ {0}
  BY <1>1, EmptySeq
<1>3. Head(s) = s[1]
  BY <1>1
<1> QED
  BY <1>1, <1>2, <1>3, HeadTailProperties, SeqIsSequence

LEMMA ConcatSequence ==
  ASSUME NEW s, IsSequence(s), NEW t, IsSequence(t)
  PROVE  /\ IsSequence(s \o t) /\ Len(s \o t) = Len(s) + Len(t)
         /\ \A i \in 1..Len(s) : (s \o t)[i] = s[i]
         /\ \A i \in (Len(s) + 1)..(Len(s) + Len(t)) : (s \o t)[i] = t[i - Len(s)]
<1> DEFINE S == Elements(s) \cup Elements(t)
<1>1. s \in Seq(S) /\ t \in Seq(S)
  BY DEF IsSequence, Elements
<1> HIDE DEF S
<1>2. Len(s) \in Nat /\ Len(t) \in Nat
  BY DEF IsSequence
<1>3. /\ s \o t \in Seq(S) /\ Len(s \o t) = Len(s) + Len(t)
      /\ \A i \in 1..Len(s) + Len(t) : (s \o t)[i] = IF i <= Len(s) THEN s[i] ELSE t[i - Len(s)]
  BY <1>1, ConcatProperties
<1>4. IsSequence(s \o t)
  BY <1>3, SeqIsSequence
<1> QED
  BY <1>2, <1>3, <1>4

LEMMA PrefixSequence ==
  ASSUME NEW s, IsSequence(s), NEW k \in 0..Len(s)
  PROVE  /\ IsSequence(SubSeq(s, 1, k)) /\ Len(SubSeq(s, 1, k)) = k
         /\ \A i \in 1..k : SubSeq(s, 1, k)[i] = s[i]
<1>1. Len(s) \in Nat /\ k \in Int /\ \A i \in 1..k : s[i] \in Elements(s)
  BY DEF IsSequence, Elements
<1> DEFINE S == Elements(s)
<1> HIDE DEF S
<1>2. /\ SubSeq(s, 1, k) \in Seq(S)
      /\ Len(SubSeq(s, 1, k)) = IF 1 <= k THEN k - 1 + 1 ELSE 0
      /\ \A i \in 1..k - 1 + 1 : SubSeq(s, 1, k)[i] = s[1 + i - 1]
  BY <1>1, SubSeqProperties DEF S
<1>3. IsSequence(SubSeq(s, 1, k))
  BY <1>2, SeqIsSequence
<1>4. Len(SubSeq(s, 1, k)) = k
  BY <1>2
<1>5. \A i \in 1..k : i \in 1..k - 1 + 1 /\ 1 + i - 1 = i
  OBVIOUS
<1> QED
  BY <1>2, <1>3, <1>4, <1>5
=============================================================================
