----------------------------- MODULE QueueLemmas -----------------------------
(***************************************************************************)
(* What sends and receives do to a channel, a sequence here: the facts the *)
(* proofs about the pool, the poller and the news share.                   *)
(***************************************************************************)
EXTENDS Integers, Sequences, Functions, SequenceTheorems, TLAPS

\* What a receive does to a channel of distinct values: one of them, the head,
\* leaves and the others stay, each once.
LEMMA ReceiveRange ==
  ASSUME NEW S, NEW q \in Seq(S), q # <<>>, IsInjective(q)
  PROVE  /\ IsInjective(Tail(q))
         /\ Head(q) \in Range(q)
         /\ Range(Tail(q)) = Range(q) \ {Head(q)}
<1>1. /\ Len(q) \in Nat \ {0}
      /\ DOMAIN q = 1..Len(q)
      /\ Head(q) = q[1]
  BY EmptySeq, LenProperties
<1>2. /\ Tail(q) \in Seq(S)
      /\ Len(Tail(q)) = Len(q) - 1
      /\ DOMAIN Tail(q) = 1..(Len(q) - 1)
      /\ \A i \in 1..(Len(q) - 1) : Tail(q)[i] = q[i + 1]
  BY HeadTailProperties, LenProperties
<1>3. \A i \in 1..(Len(q) - 1) : i + 1 \in 1..Len(q) /\ i + 1 # 1
  BY <1>1
<1>4. \A i \in 1..Len(q) : i # 1 => i - 1 \in 1..(Len(q) - 1) /\ (i - 1) + 1 = i
  BY <1>1
<1>5. IsInjective(Tail(q))
  BY <1>1, <1>2, <1>3 DEF IsInjective
<1>6. Head(q) \in Range(q)
  BY <1>1 DEF Range
<1>7. Range(Tail(q)) = Range(q) \ {Head(q)}
  <2>1. Range(Tail(q)) \subseteq Range(q) \ {Head(q)}
    BY <1>1, <1>2, <1>3 DEF Range, IsInjective
  <2>2. Range(q) \ {Head(q)} \subseteq Range(Tail(q))
    <3> SUFFICES ASSUME NEW i \in 1..Len(q), i # 1 PROVE q[i] \in Range(Tail(q))
      BY <1>1 DEF Range
    <3>1. i - 1 \in DOMAIN Tail(q)
      BY <1>2, <1>4
    <3>2. Tail(q)[i - 1] = q[i]
      BY <1>2, <1>4
    <3> QED
      BY <3>1, <3>2 DEF Range
  <2> QED
    BY <2>1, <2>2
<1> QED
  BY <1>5, <1>6, <1>7

\* What a send does: the value joins the others, each of them once.
LEMMA SendRange ==
  ASSUME NEW S, NEW q \in Seq(S), NEW g \in S, IsInjective(q), g \notin Range(q)
  PROVE  /\ IsInjective(Append(q, g))
         /\ Range(Append(q, g)) = Range(q) \union {g}
<1>1. /\ Len(q) \in Nat
      /\ DOMAIN q = 1..Len(q)
  BY LenProperties
<1>2. /\ DOMAIN Append(q, g) = 1..(Len(q) + 1)
      /\ \A i \in 1..Len(q) : Append(q, g)[i] = q[i]
      /\ Append(q, g)[Len(q) + 1] = g
  BY AppendProperties, LenProperties
<1>3. 1..(Len(q) + 1) = 1..Len(q) \union {Len(q) + 1}
  BY <1>1
<1>4. IsInjective(Append(q, g))
  BY <1>1, <1>2, <1>3 DEF IsInjective, Range
<1>5. Range(Append(q, g)) = Range(q) \union {g}
  BY <1>1, <1>2, <1>3 DEF Range
<1> QED
  BY <1>4, <1>5
\* What a send appends to a channel it appends to all that is on the way.
LEMMA SendLast ==
  ASSUME NEW S, NEW p \in Seq(S), NEW q \in Seq(S), NEW x \in S
  PROVE  p \o Append(q, x) = Append(p \o q, x)
<1>1. Append(q, x) = q \o <<x>> /\ Append(p \o q, x) = (p \o q) \o <<x>>
  BY AppendIsConcat, ConcatProperties
<1> QED
  BY <1>1, ConcatAssociative

\* What a receive takes from a channel comes right after what was taken before.
LEMMA ReceiveFirst ==
  ASSUME NEW S, NEW q \in Seq(S), q # <<>>
  PROVE  /\ Head(q) \in S /\ Tail(q) \in Seq(S)
         /\ Len(Tail(q)) = Len(q) - 1
         /\ <<Head(q)>> \o Tail(q) = q
         /\ \A p \in Seq(S) : /\ Append(p, Head(q)) \o Tail(q) = p \o q
                             /\ (p \o <<Head(q)>>) \o Tail(q) = p \o q
<1>1. /\ Head(q) \in S /\ Tail(q) \in Seq(S) /\ <<Head(q)>> \in Seq(S)
      /\ Len(Tail(q)) = Len(q) - 1
  BY HeadTailProperties
<1>2. <<Head(q)>> \o Tail(q) = q
  <2>1. /\ Len(<<Head(q)>>) = 1 /\ <<Head(q)>>[1] = q[1]
        /\ Len(q) \in Nat \ {0}
    BY EmptySeq, LenProperties
  <2>2. /\ <<Head(q)>> \o Tail(q) \in Seq(S)
        /\ Len(<<Head(q)>> \o Tail(q)) = Len(q)
    BY <1>1, <2>1, ConcatProperties
  <2>3. ASSUME NEW i \in 1..Len(q) PROVE (<<Head(q)>> \o Tail(q))[i] = q[i]
    <3>1. CASE i = 1
      BY <1>1, <2>1, <3>1, ConcatProperties
    <3>2. CASE i # 1
      <4>1. i - 1 \in 1..Len(Tail(q)) /\ (i - 1) + 1 = i
        BY <1>1, <2>1, <3>2
      <4>2. Tail(q)[i - 1] = q[i]
        BY <4>1, HeadTailProperties
      <4> QED
        BY <1>1, <2>1, <3>2, <4>2, ConcatProperties
    <3> QED
      BY <3>1, <3>2
  <2> QED
    BY <2>2, <2>3, SeqEqual
<1>3. ASSUME NEW p \in Seq(S)
      PROVE  /\ Append(p, Head(q)) \o Tail(q) = p \o q
             /\ (p \o <<Head(q)>>) \o Tail(q) = p \o q
  BY <1>1, <1>2, AppendIsConcat, ConcatAssociative
<1> QED
  BY <1>1, <1>2, <1>3
\* Of two sequences in a row, the first keeps its places and the second follows.
LEMMA InARow ==
  ASSUME NEW S, NEW p \in Seq(S), NEW q \in Seq(S)
  PROVE  /\ p \o q \in Seq(S)
         /\ Len(p) \in Nat /\ Len(q) \in Nat
         /\ Len(p \o q) = Len(p) + Len(q)
         /\ \A i \in 1..Len(p) : (p \o q)[i] = p[i]
         /\ \A i \in 1..Len(q) : (p \o q)[Len(p) + i] = q[i]
<1>1. Len(p) \in Nat /\ Len(q) \in Nat
  BY LenProperties
<1>2. /\ p \o q \in Seq(S) /\ Len(p \o q) = Len(p) + Len(q)
      /\ \A i \in 1..(Len(p) + Len(q)) :
            (p \o q)[i] = IF i <= Len(p) THEN p[i] ELSE q[i - Len(p)]
  BY ConcatProperties
<1>3. \A i \in 1..Len(p) : i \in 1..(Len(p) + Len(q)) /\ i <= Len(p)
  BY <1>1
<1>4. \A i \in 1..Len(q) : /\ Len(p) + i \in 1..(Len(p) + Len(q))
                           /\ ~(Len(p) + i <= Len(p))
                           /\ (Len(p) + i) - Len(p) = i
  BY <1>1
<1> QED
  BY <1>1, <1>2, <1>3, <1>4
=============================================================================
