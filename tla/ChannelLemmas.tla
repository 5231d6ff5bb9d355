---------------------------- MODULE ChannelLemmas ----------------------------
(* Go channels and batches are sequences here: what a send and a receive do  *)
(* to the set of their elements.                                             *)
EXTENDS Sequences, FiniteSetTheorems, TLAPS

\* A send adds its element to the channel, and nothing else.
LEMMA AppendedRange ==
  ASSUME NEW S, NEW s \in Seq(S), NEW x \in S
  PROVE  /\ Append(s, x) \in Seq(S)
         /\ Range(Append(s, x)) = Range(s) \cup {x}
         /\ Len(Append(s, x)) = Len(s) + 1
         /\ IsInjective(s) /\ x \notin Range(s) => IsInjective(Append(s, x))
<1> DEFINE t == Append(s, x)
<1>1. /\ t \in Seq(S) /\ Len(t) = Len(s) + 1 /\ Len(s) \in Nat
      /\ DOMAIN t = 1..(Len(s) + 1) /\ DOMAIN s = 1..Len(s)
      /\ t[Len(s) + 1] = x /\ \A i \in 1..Len(s) : t[i] = s[i]
  OBVIOUS
<1> HIDE DEF t
<1>2. Range(t) = Range(s) \cup {x}
  <2>1. \A i \in DOMAIN t : t[i] \in Range(s) \cup {x}
    BY <1>1 DEF Range
  <2>2. \A i \in DOMAIN s : s[i] \in Range(t)
    BY <1>1 DEF Range
  <2>3. x \in Range(t)
    BY <1>1 DEF Range
  <2>4. QED
    BY <2>1, <2>2, <2>3 DEF Range
<1>3. IsInjective(s) /\ x \notin Range(s) => IsInjective(t)
  BY <1>1 DEF Range, IsInjective
<1>4. QED
  BY <1>1, <1>2, <1>3 DEF t

\* A receive takes one element off the channel and leaves the others.
LEMMA ReceivedRange ==
  ASSUME NEW S, NEW s \in Seq(S), s # << >>
  PROVE  /\ Head(s) \in S /\ Tail(s) \in Seq(S)
         /\ Len(Tail(s)) = Len(s) - 1
         /\ Range(s) = {Head(s)} \cup Range(Tail(s))
         /\ IsInjective(s) => IsInjective(Tail(s)) /\ Head(s) \notin Range(Tail(s))
<1> DEFINE t == Tail(s)
<1>1. /\ Head(s) \in S /\ t \in Seq(S) /\ Len(s) \in Nat \ {0} /\ Len(t) = Len(s) - 1
      /\ DOMAIN t = 1..(Len(s) - 1) /\ DOMAIN s = 1..Len(s)
      /\ Head(s) = s[1] /\ \A i \in 1..(Len(s) - 1) : t[i] = s[i + 1]
  OBVIOUS
<1> HIDE DEF t
<1>2. Range(s) = {Head(s)} \cup Range(t)
  <2>1. \A i \in DOMAIN s : s[i] \in {Head(s)} \cup Range(t)
    <3>1. TAKE i \in DOMAIN s
    <3>2. CASE i = 1
      BY <1>1, <3>2
    <3>3. CASE i # 1
      <4>1. i - 1 \in DOMAIN t /\ s[i] = t[i - 1]
        BY <1>1, <3>3
      <4>2. QED
        BY <4>1 DEF Range
    <3>4. QED
      BY <3>2, <3>3
  <2>2. \A i \in DOMAIN t : t[i] \in Range(s)
    <3>1. TAKE i \in DOMAIN t
    <3>2. i + 1 \in DOMAIN s /\ t[i] = s[i + 1]
      BY <1>1
    <3>3. QED
      BY <3>2 DEF Range
  <2>3. Head(s) \in Range(s)
    BY <1>1 DEF Range
  <2>4. QED
    BY <2>1, <2>2, <2>3 DEF Range
<1>3. ASSUME IsInjective(s) PROVE IsInjective(t) /\ Head(s) \notin Range(t)
  <2>1. \A i, j \in 1..Len(s) : s[i] = s[j] => i = j
    BY <1>1, <1>3 DEF IsInjective
  <2>2. \A i \in 1..(Len(s) - 1) : i + 1 \in 1..Len(s) /\ i + 1 # 1
    BY <1>1
  <2>3. IsInjective(t)
    <3>1. SUFFICES ASSUME NEW i \in 1..(Len(s) - 1), NEW j \in 1..(Len(s) - 1), t[i] = t[j]
                   PROVE  i = j
      BY <1>1 DEF IsInjective
    <3>2. s[i + 1] = s[j + 1]
      BY <1>1, <3>1
    <3>3. i + 1 = j + 1
      BY <2>1, <2>2, <3>2
    <3>4. QED
      BY <3>3
  <2>4. Head(s) \notin Range(t)
    <3>1. SUFFICES ASSUME NEW i \in 1..(Len(s) - 1), t[i] = s[1]
                   PROVE  FALSE
      BY <1>1 DEF Range
    <3>2. s[i + 1] = s[1] /\ 1 \in 1..Len(s)
      BY <1>1, <3>1
    <3>3. QED
      BY <2>1, <2>2, <3>2
  <2>5. QED
    BY <2>3, <2>4
<1>4. QED
  BY <1>1, <1>2, <1>3 DEF t

\* A channel that holds no element twice holds as many as it is long: n different
\* ones are in it exactly if it is n long or longer.
LEMMA FullChannel ==
  ASSUME NEW S, NEW s \in Seq(S), IsInjective(s), NEW n \in Nat
  PROVE  n <= Len(s) <=> \E q \in [1..n -> Range(s)] :
                           \A j, k \in 1..n : q[j] = q[k] => j = k
<1>1. Len(s) \in Nat /\ DOMAIN s = 1..Len(s)
  OBVIOUS
<1>2. ASSUME n <= Len(s)
      PROVE  \E q \in [1..n -> Range(s)] : \A j, k \in 1..n : q[j] = q[k] => j = k
  <2> DEFINE q == [j \in 1..n |-> s[j]]
  <2>1. 1..n \subseteq DOMAIN s
    BY <1>1, <1>2
  <2>2. q \in [1..n -> Range(s)]
    BY <2>1 DEF Range
  <2>3. \A j, k \in 1..n : q[j] = q[k] => j = k
    BY <2>1 DEF IsInjective
  <2> QED
    BY <2>2, <2>3
<1>3. ASSUME Len(s) < n, NEW q \in [1..n -> Range(s)]
      PROVE  \E j, k \in 1..n : j # k /\ q[j] = q[k]
  <2>1. s \in Bijection(1..Len(s), Range(s))
    <3>1. s \in [1..Len(s) -> Range(s)] /\ \A t \in Range(s) : \E i \in 1..Len(s) : s[i] = t
      BY <1>1 DEF Range
    <3>2. \A i, j \in 1..Len(s) : s[i] = s[j] => i = j
      BY <1>1 DEF IsInjective
    <3> QED
      BY <3>1, <3>2 DEF Bijection, Injection, Surjection
  <2>2. IsFiniteSet(Range(s)) /\ Cardinality(Range(s)) = Len(s)
    BY <1>1, <2>1, FS_CountingElements, FS_NatBijection DEF ExistsBijection
  <2>3. IsFiniteSet(1..n) /\ Cardinality(1..n) = n
    BY <1>1, <1>3, FS_Interval
  <2> QED
    BY <1>3, <2>2, <2>3, FS_PigeonHole
<1> QED
  BY <1>1, <1>2, <1>3

\* An empty channel or batch holds nothing.
LEMMA EmptyRange == Range(<< >>) = {} /\ IsInjective(<< >>)
BY DEF Range, IsInjective
==============================================================================
