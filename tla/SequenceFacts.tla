---------------------------- MODULE SequenceFacts ----------------------------
(***************************************************************************)
(* Lemmas about sequences and remainders that the proofs about the         *)
(* components share.                                                       *)
(***************************************************************************)
EXTENDS Integers, Sequences, TLAPS, SequenceTheorems

\* A function on 1..n is a sequence of length n.
LEMMA SeqOfFunction ==
    ASSUME NEW S, NEW n \in Nat, NEW f \in [1..n -> S]
    PROVE  f \in Seq(S) /\ Len(f) = n
  OBVIOUS

\* The first k elements of a sequence, and the others.
LEMMA Prefix ==
    ASSUME NEW S, NEW s \in Seq(S), NEW k \in 0..Len(s)
    PROVE  /\ SubSeq(s, 1, k) \in Seq(S) /\ Len(SubSeq(s, 1, k)) = k
           /\ SubSeq(s, k + 1, Len(s)) \in Seq(S)
           /\ Len(SubSeq(s, k + 1, Len(s))) = Len(s) - k
           /\ SubSeq(s, 1, k) \o SubSeq(s, k + 1, Len(s)) = s
  <1>1. Len(s) \in Nat /\ k \in Int /\ k + 1 \in Int
    BY LenProperties
  <1>2. \A i \in 1..Len(s) : s[i] \in S
    BY ElementOfSeq
  <1>3. SubSeq(s, 1, k) \in Seq(S) /\ Len(SubSeq(s, 1, k)) = k
    <2>1. \A i \in 1..k : s[i] \in S
      BY <1>1, <1>2
    <2> QED
      BY <1>1, <2>1, SubSeqProperties
  <1>4. /\ SubSeq(s, k + 1, Len(s)) \in Seq(S)
        /\ Len(SubSeq(s, k + 1, Len(s))) = Len(s) - k
    <2>1. \A i \in (k + 1)..Len(s) : s[i] \in S
      BY <1>1, <1>2
    <2> QED
      BY <1>1, <2>1, SubSeqProperties
  <1>5. SubSeq(s, 1, k) \o SubSeq(s, k + 1, Len(s)) = SubSeq(s, 1, Len(s))
    <2>1. /\ 1 \in 1..(Len(s) + 1) /\ k \in (1 - 1)..Len(s)
          /\ Len(s) \in k..Len(s)
      BY <1>1
    <2> QED
      BY <2>1, ConcatAdjacentSubSeq, Zenon
  <1> QED
    BY <1>3, <1>4, <1>5, SubSeqFull

\* Bytes were moved from the front of t to the end of s, none lost or doubled.
Moved(S, s, t, s2, t2) ==
    s2 \in Seq(S) /\ t2 \in Seq(S) /\ s2 \o t2 = s \o t

\* Appending the first k elements of t to s and keeping the others is a move.
LEMMA TakeFrom ==
    ASSUME NEW S, NEW s \in Seq(S), NEW t \in Seq(S), NEW k \in 0..Len(t)
    PROVE  /\ Moved(S, s, t, s \o SubSeq(t, 1, k), SubSeq(t, k + 1, Len(t)))
           /\ Len(s \o SubSeq(t, 1, k)) = Len(s) + k
           /\ Len(SubSeq(t, k + 1, Len(t))) = Len(t) - k
  <1> DEFINE head == SubSeq(t, 1, k)
             tail == SubSeq(t, k + 1, Len(t))
  <1>1. /\ head \in Seq(S) /\ Len(head) = k
        /\ tail \in Seq(S) /\ Len(tail) = Len(t) - k
        /\ head \o tail = t
    BY Prefix
  <1> HIDE DEF head, tail
  <1>2. s \o head \in Seq(S) /\ Len(s \o head) = Len(s) + k
    BY <1>1, ConcatProperties
  <1>3. (s \o head) \o tail = s \o (head \o tail)
    <2>1. head \in Seq(S) /\ tail \in Seq(S)
      BY <1>1
    <2> QED
      BY <2>1, ConcatAssociative, SMTT(60)
  <1>4. Moved(S, s, t, s \o head, tail)
    BY <1>1, <1>2, <1>3 DEF Moved
  <1> QED
    BY <1>1, <1>2, <1>4 DEF head, tail

\* A sequence put together can be taken apart again.
LEMMA SplitAt ==
    ASSUME NEW S, NEW s \in Seq(S), NEW t \in Seq(S)
    PROVE  /\ s = SubSeq(s \o t, 1, Len(s))
           /\ t = SubSeq(s \o t, Len(s) + 1, Len(s \o t))
           /\ Len(s \o t) >= Len(s)
  <1> DEFINE u == s \o t
             head == SubSeq(u, 1, Len(s))
             tail == SubSeq(u, Len(s) + 1, Len(u))
  <1>1. Len(s) \in Nat /\ Len(t) \in Nat
    BY LenProperties
  <1>2. /\ u \in Seq(S) /\ Len(u) = Len(s) + Len(t)
        /\ \A i \in 1..Len(s) : u[i] = s[i]
        /\ \A i \in (Len(s) + 1)..(Len(s) + Len(t)) : u[i] = t[i - Len(s)]
    BY ConcatProperties
  <1> HIDE DEF u
  <1>3. /\ head \in Seq(S) /\ Len(head) = Len(s)
        /\ \A i \in 1..Len(s) : head[i] = u[i]
    BY <1>1, <1>2, SubSeqProperties
  <1>4. /\ tail \in Seq(S) /\ Len(tail) = Len(t)
        /\ \A i \in 1..Len(t) : tail[i] = u[i + Len(s)]
    BY <1>1, <1>2, SubSeqProperties
  <1> HIDE DEF head, tail
  <1>5. s = head
    BY <1>1, <1>2, <1>3, SeqEqual
  <1>6. t = tail
    <2>1. ASSUME NEW i \in 1..Len(t) PROVE t[i] = tail[i]
      <3>1. /\ i + Len(s) \in (Len(s) + 1)..(Len(s) + Len(t))
            /\ (i + Len(s)) - Len(s) = i
        BY <1>1
      <3> QED
        BY <1>2, <1>4, <2>1, <3>1
    <2> QED
      BY <1>4, <2>1, SeqEqual
  <1> QED
    BY <1>1, <1>2, <1>5, <1>6 DEF u, head, tail

\* The elements of v are those of u but for the n behind the a-th.
Embeds(v, u, a, n) ==
    \A i \in 1..Len(v) :
        LET k == IF i <= a THEN i ELSE i + n
        IN  k \in 1..Len(u) /\ v[i] = u[k]

\* Forgetting the middle of a sequence.
LEMMA DropMiddle ==
    ASSUME NEW S, NEW s \in Seq(S), NEW m \in Seq(S), NEW t \in Seq(S)
    PROVE  Embeds(s \o t, s \o (m \o t), Len(s), Len(m))
  <1> DEFINE mt == m \o t
             v == s \o t
             u == s \o mt
  <1>1. Len(s) \in Nat /\ Len(m) \in Nat /\ Len(t) \in Nat
    BY LenProperties
  <1>2. /\ mt \in Seq(S) /\ Len(mt) = Len(m) + Len(t)
        /\ \A i \in 1..(Len(m) + Len(t)) :
             mt[i] = IF i <= Len(m) THEN m[i] ELSE t[i - Len(m)]
    BY ConcatProperties
  <1>3. /\ Len(v) = Len(s) + Len(t)
        /\ \A i \in 1..(Len(s) + Len(t)) :
             v[i] = IF i <= Len(s) THEN s[i] ELSE t[i - Len(s)]
    BY ConcatProperties
  <1> HIDE DEF mt
  <1>4. /\ Len(u) = Len(s) + Len(mt)
        /\ \A i \in 1..(Len(s) + Len(mt)) :
             u[i] = IF i <= Len(s) THEN s[i] ELSE mt[i - Len(s)]
    <2>1. mt \in Seq(S)
      BY <1>2
    <2> QED
      BY <2>1, ConcatProperties
  <1> HIDE DEF u, v
  <1>5. ASSUME NEW i \in 1..Len(v), i <= Len(s)
        PROVE  i \in 1..Len(u) /\ v[i] = u[i]
    <2>1. i \in 1..(Len(s) + Len(t)) /\ i \in 1..(Len(s) + Len(mt))
      BY <1>1, <1>2, <1>3, <1>5
    <2> QED
      BY <1>3, <1>4, <1>5, <2>1
  <1>6. ASSUME NEW i \in 1..Len(v), ~(i <= Len(s))
        PROVE  i + Len(m) \in 1..Len(u) /\ v[i] = u[i + Len(m)]
    <2> DEFINE k == i + Len(m)
    <2>1. /\ i \in 1..(Len(s) + Len(t)) /\ k \in 1..(Len(s) + Len(mt))
          /\ ~(k <= Len(s)) /\ k - Len(s) \in 1..(Len(m) + Len(t))
          /\ ~(k - Len(s) <= Len(m)) /\ (k - Len(s)) - Len(m) = i - Len(s)
      BY <1>1, <1>2, <1>3, <1>6
    <2> HIDE DEF k
    <2>2. v[i] = t[i - Len(s)]
      BY <1>3, <1>6, <2>1
    <2>3. u[k] = mt[k - Len(s)]
      BY <1>4, <2>1
    <2>4. mt[k - Len(s)] = t[(k - Len(s)) - Len(m)]
      BY <1>2, <2>1
    <2>5. k \in 1..Len(u) /\ v[i] = u[k]
      BY <1>4, <2>1, <2>2, <2>3, <2>4
    <2> QED
      BY <2>5 DEF k
  <1>7. Embeds(v, u, Len(s), Len(m))
    BY <1>5, <1>6 DEF Embeds
  <1> QED
    BY <1>7 DEF u, v, mt

-----------------------------------------------------------------------------
\* n bytes of a file or stream in which bytes are named by their place, the
\* first of them at place a + 1.
Run(a, n) == [i \in 1..n |-> a + i]

\* A run is a sequence of numbers.
LEMMA RunType ==
    ASSUME NEW a \in Nat, NEW n \in Nat
    PROVE  /\ Run(a, n) \in Seq(Nat) /\ Len(Run(a, n)) = n
           /\ \A i \in 1..n : Run(a, n)[i] = a + i
  <1>1. Run(a, n) \in [1..n -> Nat]
    BY DEF Run
  <1>2. \A i \in 1..n : Run(a, n)[i] = a + i
    BY DEF Run
  <1> QED
    BY <1>1, <1>2, SeqOfFunction

\* The sequence s is a run from place a + 1 on.
IsRun(a, s) == s = Run(a, Len(s))

\* A sequence with the elements of a run is that run.
LEMMA RunUnique ==
    ASSUME NEW a \in Nat, NEW s \in Seq(Nat),
           \A i \in 1..Len(s) : s[i] = a + i
    PROVE  s = Run(a, Len(s))
  <1>1. Len(s) \in Nat
    BY LenProperties
  <1>2. /\ Run(a, Len(s)) \in Seq(Nat) /\ Len(Run(a, Len(s))) = Len(s)
        /\ \A i \in 1..Len(s) : Run(a, Len(s))[i] = a + i
    BY <1>1, RunType
  <1> QED
    BY <1>2, SeqEqual

\* A run goes on where it ends.
LEMMA RunGoesOn ==
    ASSUME NEW a \in Nat, NEW m \in Nat, NEW k \in Nat
    PROVE  Run(a, m) \o Run(a + m, k) = Run(a, m + k)
  <1> DEFINE s == Run(a, m)
             t == Run(a + m, k)
  <1>1. /\ s \in Seq(Nat) /\ Len(s) = m
        /\ \A i \in 1..m : s[i] = a + i
    BY RunType
  <1>2. /\ t \in Seq(Nat) /\ Len(t) = k
        /\ \A i \in 1..k : t[i] = (a + m) + i
    <2>1. a + m \in Nat
      OBVIOUS
    <2> QED
      BY <2>1, RunType
  <1> HIDE DEF s, t
  <1>3. /\ s \o t \in Seq(Nat) /\ Len(s \o t) = m + k
        /\ \A i \in 1..(m + k) :
             (s \o t)[i] = IF i <= m THEN s[i] ELSE t[i - m]
    BY <1>1, <1>2, ConcatProperties, SMTT(60), ZenonT(60)
  <1>4. ASSUME NEW i \in 1..(m + k) PROVE (s \o t)[i] = a + i
    <2>1. CASE i <= m
      <3>1. i \in 1..m
        BY <2>1
      <3>2. (s \o t)[i] = s[i]
        BY <1>3, <2>1
      <3> QED
        BY <1>1, <3>1, <3>2
    <2>2. CASE ~(i <= m)
      <3>1. i - m \in 1..k
        BY <2>2
      <3>2. (s \o t)[i] = t[i - m]
        BY <1>3, <2>2
      <3>3. t[i - m] = (a + m) + (i - m)
        BY <1>2, <3>1
      <3> QED
        BY <3>2, <3>3
    <2> QED
      BY <2>1, <2>2
  <1>5. s \o t = Run(a, Len(s \o t))
    BY <1>3, <1>4, RunUnique
  <1> QED
    BY <1>3, <1>5 DEF s, t

\* The beginning of a run is a run.
LEMMA RunBegins ==
    ASSUME NEW a \in Nat, NEW s \in Seq(Nat), NEW t \in Seq(Nat),
           NEW n \in Nat, s \o t = Run(a, n)
    PROVE  IsRun(a, s) /\ Len(s) \in 0..n
  <1>1. Len(s) \in Nat /\ Len(t) \in Nat
    BY LenProperties
  <1>2. /\ Len(s \o t) = Len(s) + Len(t)
        /\ \A i \in 1..(Len(s) + Len(t)) :
             (s \o t)[i] = IF i <= Len(s) THEN s[i] ELSE t[i - Len(s)]
    BY ConcatProperties
  <1>3. /\ Len(Run(a, n)) = n /\ \A i \in 1..n : Run(a, n)[i] = a + i
    BY RunType
  <1>4. n = Len(s) + Len(t)
    BY <1>2, <1>3
  <1>5. ASSUME NEW i \in 1..Len(s) PROVE s[i] = a + i
    <2>1. i \in 1..n /\ i <= Len(s)
      BY <1>1, <1>4
    <2>2. (s \o t)[i] = s[i]
      BY <1>2, <1>4, <2>1
    <2> QED
      BY <1>3, <2>1, <2>2
  <1> QED
    BY <1>1, <1>4, <1>5, RunUnique DEF IsRun

\* The first k elements of a run.
LEMMA RunPrefix ==
    ASSUME NEW a \in Nat, NEW n \in Nat, NEW k \in 0..n
    PROVE  SubSeq(Run(a, n), 1, k) = Run(a, k)
  <1>1. Run(a, n) \in Seq(Nat) /\ Len(Run(a, n)) = n
    BY RunType
  <1> DEFINE s == SubSeq(Run(a, n), 1, k)
             t == SubSeq(Run(a, n), k + 1, n)
  <1>2. /\ s \in Seq(Nat) /\ Len(s) = k /\ t \in Seq(Nat)
        /\ s \o t = Run(a, n)
    BY <1>1, Prefix
  <1> HIDE DEF s, t
  <1>3. s = Run(a, Len(s))
    BY <1>2, RunBegins DEF IsRun
  <1> QED
    BY <1>2, <1>3 DEF s

\* The file f holds a beginning of the n bytes that were put out, and if all is
\* well all of them.
Holds(f, well, n) ==
    f = Run(0, Len(f)) /\ Len(f) <= n /\ (well => Len(f) = n)

\* Writing the next u bytes, or the first k of them.
LEMMA HoldsMore ==
    ASSUME NEW n \in Nat, NEW u \in Nat, NEW f, Holds(f, TRUE, n)
    PROVE  /\ Holds(f \o Run(n, u), TRUE, n + u)
           /\ \A k \in 0..u : Holds(f \o SubSeq(Run(n, u), 1, k), FALSE, n + u)
  <1>1. f = Run(0, n)
    BY DEF Holds
  <1>2. ASSUME NEW k \in 0..u
        PROVE  /\ f \o Run(n, k) = Run(0, n + k) /\ Len(Run(0, n + k)) = n + k
               /\ n + k <= n + u
    <2>1. k \in Nat /\ n + k \in Nat /\ 0 + n = n /\ n + k <= n + u
      OBVIOUS
    <2>2. Run(0, n) \o Run(0 + n, k) = Run(0, n + k)
      BY <2>1, RunGoesOn
    <2>3. Len(Run(0, n + k)) = n + k
      BY <2>1, RunType
    <2> QED
      BY <1>1, <2>1, <2>2, <2>3
  <1>3. ASSUME NEW k \in 0..u
        PROVE  Holds(f \o SubSeq(Run(n, u), 1, k), FALSE, n + u)
    <2>1. SubSeq(Run(n, u), 1, k) = Run(n, k)
      BY RunPrefix
    <2> QED
      BY <1>2, <2>1 DEF Holds
  <1>4. Holds(f \o Run(n, u), TRUE, n + u)
    <2>1. u \in 0..u
      OBVIOUS
    <2> QED
      BY <1>2, <2>1 DEF Holds
  <1> QED
    BY <1>3, <1>4

-----------------------------------------------------------------------------
\* A remainder is below the divisor.
LEMMA Remainder ==
    ASSUME NEW n \in Int, NEW d \in Nat \ {0}
    PROVE  n % d \in 0..(d - 1)
  OBVIOUS

\* Quotient and remainder are unique.
LEMMA RemainderUnique ==
    ASSUME NEW q \in Nat, NEW d \in Nat \ {0}, NEW p \in 0..(d - 1)
    PROVE  (q * d + p) % d = p
  OBVIOUS

\* A remainder is less than what it is taken by.
LEMMA RemainderLess ==
    ASSUME NEW n \in Nat, NEW d \in Nat \ {0}
    PROVE  n % d <= n /\ (n < d => n % d = n)
  OBVIOUS

\* n is a multiple of d.
Multiple(n, d) == \E q \in Nat : n = q * d

\* The multiples of d: sums, differences, and how far two are apart.
LEMMA Multiples ==
    ASSUME NEW d \in Nat \ {0}, NEW m, NEW n, Multiple(m, d), Multiple(n, d)
    PROVE  /\ m \in Nat /\ n \in Nat
           /\ Multiple(m + n, d)
           /\ n <= m => Multiple(m - n, d)
           /\ n <= m /\ m - n < d => m = n
  <1>1. PICK p \in Nat, q \in Nat : m = p * d /\ n = q * d
    BY DEF Multiple
  <1>2. m \in Nat /\ n \in Nat
    BY <1>1
  <1>3. m + n = (p + q) * d /\ m - n = (p - q) * d
    BY <1>1
  <1>4. n <= m => p - q \in Nat
    <2> SUFFICES ASSUME n <= m, p < q PROVE FALSE
      BY <1>1
    <2>1. PICK e \in Nat : q = p + 1 + e
      BY <1>1
    <2>2. n = m + d + e * d
      BY <1>1, <2>1
    <2>3. e * d \in Nat
      OBVIOUS
    <2> QED
      BY <1>2, <2>2, <2>3
  <1>5. n <= m /\ m - n < d => m = n
    <2> SUFFICES ASSUME n <= m, m - n < d, p - q # 0 PROVE FALSE
      BY <1>1
    <2>1. PICK e \in Nat : p - q = 1 + e
      BY <1>1, <1>4
    <2>2. m - n = d + e * d
      BY <1>3, <2>1
    <2>3. e * d \in Nat
      OBVIOUS
    <2> QED
      BY <1>2, <2>2, <2>3
  <1>6. Multiple(m + n, d)
    <2>1. p + q \in Nat
      OBVIOUS
    <2> QED
      BY <1>3, <2>1, Zenon DEF Multiple
  <1>7. n <= m => Multiple(m - n, d)
    BY <1>3, <1>4, Zenon DEF Multiple
  <1> QED
    BY <1>2, <1>5, <1>6, <1>7

\* A product grows with a factor.
LEMMA ProductGrows ==
    ASSUME NEW a \in Nat, NEW m \in Nat, NEW n \in Nat, m <= n
    PROVE  a * m \in Nat /\ a * n \in Nat /\ a * m <= a * n
  <1>1. PICK d \in Nat : n = m + d
    <2>1. n - m \in Nat /\ n = m + (n - m)
      OBVIOUS
    <2> QED
      BY <2>1
  <1>2. a * n = a * m + a * d
    BY <1>1
  <1>3. a * d \in Nat /\ a * m \in Nat /\ a * n \in Nat
    OBVIOUS
  <1> QED
    BY <1>2, <1>3
=============================================================================
