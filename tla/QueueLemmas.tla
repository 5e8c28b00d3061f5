---------------------------- MODULE QueueLemmas ----------------------------
(***************************************************************************)
(* Facts the proofs cite: about sequences used as FIFO queues, about the   *)
(* least of some numbers, induction over sets of numbers, and functions    *)
(* defined by recursion on an interval.                                    *)
(***************************************************************************)
EXTENDS Naturals, Sequences, NaturalsInduction, WellFoundedInduction, TLAPS

\* What is left after the first element of a queue is taken.
LEMMA TakeFirst ==
  ASSUME NEW S, NEW s \in Seq(S), s # <<>>
  PROVE  /\ Head(s) \in S
         /\ Tail(s) \in Seq(S)
         /\ DOMAIN s = 1 .. Len(s) /\ Len(s) \in Nat \ {0}
         /\ DOMAIN Tail(s) = 1 .. (Len(s) - 1)
         /\ Head(s) = s[1]
         /\ \A i \in DOMAIN Tail(s) : Tail(s)[i] = s[i + 1]
<1>1. /\ Head(s) \in S /\ Tail(s) \in Seq(S) /\ Head(s) = s[1]
      /\ DOMAIN s = 1 .. Len(s) /\ Len(s) \in Nat \ {0}
  OBVIOUS
<1>2. /\ DOMAIN Tail(s) = 1 .. (Len(s) - 1)
      /\ \A i \in DOMAIN Tail(s) : Tail(s)[i] = s[i + 1]
  OBVIOUS
<1> QED BY <1>1, <1>2

\* An element that is not the first one is still there when the first is taken.
LEMMA StaysBehind ==
  ASSUME NEW S, NEW s \in Seq(S), NEW i \in DOMAIN s, s[i] # Head(s)
  PROVE  \E j \in DOMAIN Tail(s) : Tail(s)[j] = s[i]
<1>1. s # <<>> /\ i \in 1 .. Len(s) /\ i # 1
  OBVIOUS
<1>2. i - 1 \in DOMAIN Tail(s) /\ (i - 1) + 1 = i
  BY <1>1, TakeFirst
<1>3. Tail(s)[i - 1] = s[i]
  BY <1>1, <1>2, TakeFirst
<1> QED BY <1>2, <1>3

\* What a queue holds after an element was appended.
LEMMA PutLast ==
  ASSUME NEW S, NEW s \in Seq(S), NEW x \in S
  PROVE  /\ Append(s, x) \in Seq(S)
         /\ Len(Append(s, x)) = Len(s) + 1
         /\ DOMAIN s = 1 .. Len(s) /\ Len(s) \in Nat
         /\ DOMAIN Append(s, x) = 1 .. (Len(s) + 1)
         /\ Append(s, x)[Len(s) + 1] = x
         /\ \A i \in DOMAIN s : i \in DOMAIN Append(s, x) /\ Append(s, x)[i] = s[i]
         /\ \A i \in DOMAIN Append(s, x) : i # Len(s) + 1 => i \in DOMAIN s
  OBVIOUS
-----------------------------------------------------------------------------
\* The least of some numbers.
LEMMA SmallestExists ==
  ASSUME NEW ps \in SUBSET Nat, ps # {}
  PROVE  \E p \in ps : \A q \in ps : p <= q
<1> DEFINE R == {ss \in Nat \X Nat : ss[1] < ss[2]}
<1>1. IsWellFoundedOn(R, Nat)
  BY NatLessThanWellFounded DEF OpToRel
<1>2. \A q, p \in Nat : q < p => <<q, p>> \in R
  OBVIOUS
<1> HIDE DEF R
<1>3. PICK p \in ps : \A q \in ps : ~ (<<q, p>> \in R)
  BY <1>1, WFMin, Zenon
<1>4. ASSUME NEW q \in ps PROVE p <= q
  <2>1. q \in Nat /\ p \in Nat
    OBVIOUS
  <2>2. ~ (q < p)
    BY <1>2, <1>3, <2>1, Zenon
  <2> QED
    BY <2>1, <2>2
<1> QED
  BY <1>4

\* What holds of 0 and passes from each number below n to the next holds up to n.
LEMMA UpTo ==
  ASSUME NEW n \in Nat, NEW S, 0 \in S, \A i \in 0 .. (n - 1) : i \in S => i + 1 \in S
  PROVE  0 .. n \subseteq S
<1> SUFFICES ASSUME NEW m \in 0 .. n, m \notin S PROVE FALSE
  OBVIOUS
<1> DEFINE bad == {i \in 0 .. n : i \notin S}
<1>1. bad \in SUBSET Nat /\ bad # {}
  OBVIOUS
<1>2. PICK p \in bad : \A q \in bad : p <= q
  BY <1>1, SmallestExists
<1>3. p - 1 \in 0 .. (n - 1) /\ p - 1 \in S
  BY <1>2
<1>4. (p - 1) + 1 = p
  BY <1>2
<1> QED BY <1>2, <1>3, <1>4

\* The function g begins with base and takes each value from the one before it.
Iterates(g, S, base, n, step) ==
  /\ g \in [0 .. n -> S]
  /\ g[0] = base
  /\ \A i \in 1 .. n : g[i] = step[<<g[i - 1], i>>]

\* There is such a function, if no step leads out of S.
LEMMA Recursion ==
  ASSUME NEW S, NEW base, NEW n, NEW step, base \in S, n \in Nat,
         \A x \in S, i \in 1 .. n : step[<<x, i>>] \in S
  PROVE  \E g : Iterates(g, S, base, n, step)
<1> DEFINE Upto(k) == {g \in [0 .. k -> S] :
                         g[0] = base /\ \A i \in 1 .. k : g[i] = step[<<g[i - 1], i>>]}
           K == {k \in 0 .. n : Upto(k) # {}}
<1>1. 0 \in K
  <2>1. [j \in 0 .. 0 |-> base] \in Upto(0)
    OBVIOUS
  <2> QED BY <2>1
<1>2. ASSUME NEW k \in 0 .. (n - 1), k \in K PROVE k + 1 \in K
  <2>1. PICK g : g \in Upto(k)
    BY <1>2
  <2>2. k + 1 \in 1 .. n /\ k \in 0 .. k
    OBVIOUS
  <2> DEFINE last == step[<<g[k], k + 1>>]
             h == [j \in 0 .. (k + 1) |-> IF j = k + 1 THEN last ELSE g[j]]
  <2>3. g \in [0 .. k -> S] /\ g[0] = base
        /\ \A i \in 1 .. k : g[i] = step[<<g[i - 1], i>>]
    BY <2>1
  <2>4. last \in S
    BY <2>2, <2>3
  <2> HIDE DEF last
  <2>5. h \in [0 .. (k + 1) -> S]
    BY <2>3, <2>4
  <2>6. h[0] = base
    BY <2>3
  <2>7. ASSUME NEW i \in 1 .. (k + 1) PROVE h[i] = step[<<h[i - 1], i>>]
    <3>1. i - 1 \in 0 .. (k + 1) /\ i - 1 # k + 1 /\ i \in 0 .. (k + 1)
      OBVIOUS
    <3>2. h[i - 1] = g[i - 1]
      BY <3>1
    <3>3. CASE i = k + 1
      BY <3>1, <3>2, <3>3 DEF last
    <3>4. CASE i # k + 1
      <4>1. i \in 1 .. k
        BY <3>4
      <4>2. h[i] = g[i]
        BY <3>1, <3>4
      <4> QED BY <2>3, <3>2, <4>1, <4>2
    <3> QED BY <3>3, <3>4
  <2>8. h \in Upto(k + 1)
    BY <2>5, <2>6, <2>7
  <2> QED BY <2>2, <2>8
<1> HIDE DEF K
<1>3. n \in K
  BY <1>1, <1>2, UpTo
<1> QED BY <1>3 DEF K, Iterates
=============================================================================
