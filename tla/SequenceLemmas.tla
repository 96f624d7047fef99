---------------------------- MODULE SequenceLemmas ----------------------------
(***************************************************************************)
(* Facts about sequences that the library does not have, or not in this    *)
(* form: induction over the length of a sequence, functions that are       *)
(* defined by recursion over one, and parts of sequences.                  *)
(***************************************************************************)
EXTENDS SequenceTheorems, FiniteSetTheorems, TLAPS

\* A set of numbers that is not empty has a least one.  It is the form of
\* induction that mentions no predicate: the least counterexample.
LEMMA LeastNumber ==
  ASSUME NEW T, T \subseteq Nat, T # {}
  PROVE  \E m \in T : \A k \in T : m <= k
<1> DEFINE U == {1 .. n : n \in T}
<1>1. IsWellFoundedOn(StrictSubsetOrdering(Nat), FiniteSubsetsOf(Nat))
  BY FS_StrictSubsetOrderingWellFounded
<1>2. U \subseteq FiniteSubsetsOf(Nat) /\ U # {}
  <2>1. ASSUME NEW n \in T PROVE 1 .. n \in FiniteSubsetsOf(Nat)
    <3>1. n \in Nat /\ IsFiniteSet(1 .. n) /\ 1 .. n \subseteq Nat
      BY FS_Interval
    <3> QED BY <3>1 DEF FiniteSubsetsOf
  <2> QED BY <2>1
<1>3. \E x \in U : \A y \in U : ~ (<<y, x>> \in StrictSubsetOrdering(Nat))
  BY <1>1, <1>2, WFMin
<1>4. PICK m \in T : \A k \in T : ~ (<<1 .. k, 1 .. m>> \in StrictSubsetOrdering(Nat))
  BY <1>3
<1>5. ASSUME NEW k \in T, k < m PROVE FALSE
  <2>1. 1 .. k \subseteq 1 .. m /\ 1 .. k # 1 .. m /\ 1 .. m \subseteq Nat
    <3>1. m \in 1 .. m /\ ~(m \in 1 .. k)
      BY <1>5
    <3> QED BY <1>5, <3>1
  <2> QED BY <2>1, <1>4 DEF StrictSubsetOrdering
<1> QED BY <1>4, <1>5

\* So has a set of sequences one that is no longer than any other.
LEMMA ShortestSequence ==
  ASSUME NEW S, NEW T, T \subseteq Seq(S), T # {}
  PROVE  \E s \in T : \A t \in T : Len(s) <= Len(t)
<1>1. {Len(t) : t \in T} \subseteq Nat /\ {Len(t) : t \in T} # {}
  BY LenProperties
<1>2. \E m \in {Len(t) : t \in T} : \A k \in {Len(t) : t \in T} : m <= k
  BY <1>1, LeastNumber
<1> QED BY <1>2
------------------------------------------------------------------------------
(***************************************************************************)
(* Facts of the library in the form in which they are applied to terms     *)
(* that are themselves concatenations.                                     *)
(***************************************************************************)

\* Concatenation is associative.
LEMMA Regroup ==
  ASSUME NEW S
  PROVE  \A p, q, r \in Seq(S) : (p \o q) \o r = p \o (q \o r)
BY ConcatAssociative

\* The two parts together are a sequence.
LEMMA ConcatIsSeq ==
  ASSUME NEW S
  PROVE  \A p, q \in Seq(S) : p \o q \in Seq(S)
BY ConcatProperties

\* An element put at the end can be taken back.
LEMMA SameAppend ==
  ASSUME NEW S
  PROVE  \A p, q \in Seq(S), x, y \in S : Append(p, x) = Append(q, y) => p = q /\ x = y
BY AppendInjective

\* One element is a sequence, and to append it is to concatenate that.
LEMMA Appended ==
  ASSUME NEW S
  PROVE  \A p \in Seq(S), x \in S :
           /\ <<x>> \in Seq(S) /\ Append(p, x) = p \o <<x>> /\ Append(p, x) \in Seq(S)
           /\ p \o <<>> = p /\ <<>> \o p = p
BY AppendIsConcat, AppendProperties, ConcatEmptySeq

\* A sequence of five parts is the first and the other four.
FirstApart(S, p, q, r, v, w) ==
  /\ (((p \o q) \o r) \o v) \o w = p \o (((q \o r) \o v) \o w)
  /\ ((q \o r) \o v) \o w \in Seq(S)

\* The parts may be grouped anew.
LEMMA FirstAndRest ==
  ASSUME NEW S
  PROVE  \A p, q, r, v, w \in Seq(S) : FirstApart(S, p, q, r, v, w)
<1>1. \A a, b, c \in Seq(S) : (a \o b) \o c = a \o (b \o c)
  BY Regroup
<1>2. \A a, b \in Seq(S) : a \o b \in Seq(S)
  BY ConcatIsSeq
<1>3. SUFFICES ASSUME NEW p, NEW q, NEW r, NEW v, NEW w, p \in Seq(S), q \in Seq(S),
                      r \in Seq(S), v \in Seq(S), w \in Seq(S)
               PROVE  FirstApart(S, p, q, r, v, w)
  BY Zenon
<1> DEFINE qr == q \o r
           qrv == qr \o v
<1>4. p \in Seq(S) /\ q \in Seq(S) /\ r \in Seq(S)
  BY <1>3
<1>5. p \in Seq(S) /\ v \in Seq(S)
  BY <1>3
<1>6. p \in Seq(S) /\ w \in Seq(S)
  BY <1>3
<1>7. qr \in Seq(S)
  BY <1>2, <1>4, Zenon
<1>8. (p \o q) \o r = p \o qr
  BY <1>1, <1>4, Zenon
<1> HIDE DEF qr
<1>9. qrv \in Seq(S)
  BY <1>2, <1>5, <1>7, Zenon
<1>10. (p \o qr) \o v = p \o qrv
  BY <1>1, <1>5, <1>7, Zenon
<1> HIDE DEF qrv
<1>11. qrv \o w \in Seq(S)
  BY <1>2, <1>6, <1>9, Zenon
<1>12. (p \o qrv) \o w = p \o (qrv \o w)
  BY <1>1, <1>6, <1>9, Zenon
<1> QED BY <1>8, <1>10, <1>11, <1>12, Zenon DEF qr, qrv, FirstApart

\* An element put at the end of the second part is at the end of the whole.
LEMMA AppendToConcat ==
  ASSUME NEW S
  PROVE  \A p, q \in Seq(S), x \in S : p \o Append(q, x) = Append(p \o q, x)
<1> SUFFICES ASSUME NEW p \in Seq(S), NEW q \in Seq(S), NEW x \in S
             PROVE  p \o Append(q, x) = Append(p \o q, x)
  OBVIOUS
<1>1. <<x>> \in Seq(S) /\ Append(q, x) = q \o <<x>>
  BY Appended
<1>2. p \o q \in Seq(S)
  BY ConcatIsSeq
<1>3. (p \o q) \o <<x>> = p \o (q \o <<x>>)
  <2>1. \A a, b, c \in Seq(S) : (a \o b) \o c = a \o (b \o c)
    BY Regroup
  <2> QED BY <1>1, <2>1, Zenon
<1>4. Append(p \o q, x) = (p \o q) \o <<x>>
  BY <1>2, AppendIsConcat
<1> QED BY <1>1, <1>3, <1>4, Zenon
------------------------------------------------------------------------------
(***************************************************************************)
(* Functions that put a sequence in the place of each element, as byte     *)
(* stuffing does: g says which, f is defined by recursion from it.  That   *)
(* there is such a function has to be proved before it can be used.        *)
(***************************************************************************)

\* f spreads each sequence of D, one element at a time.
Spreads(f, g, D) ==
  \A s \in D : f[s] = IF s = <<>> THEN <<>> ELSE g[Head(s)] \o f[Tail(s)]

\* The form in which a recursive definition is given to the prover.
IsSpread(f, g, S) ==
  f = [s \in Seq(S) |-> IF s = <<>> THEN <<>> ELSE g[Head(s)] \o f[Tail(s)]]

\* Everywhere, for sequences of S and with values that are sequences of R.
SpreadsTo(f, g, S, R) == Spreads(f, g, Seq(S)) /\ \A x \in S : g[x] \in Seq(R)

\* The sequences of at most n elements.
UpTo(S, n) == {s \in Seq(S) : Len(s) <= n}

\* What a step of the recursion goes down to.
LEMMA TailIsShorter ==
  ASSUME NEW S, NEW s \in Seq(S), s # <<>>
  PROVE  /\ Head(s) \in S /\ Tail(s) \in Seq(S) /\ Len(s) \in Nat /\ Len(Tail(s)) \in Nat
         /\ Len(s) > 0 /\ Len(Tail(s)) = Len(s) - 1
BY HeadTailProperties, LenProperties, EmptySeq

\* There is such a function on the sequences up to any length.
LEMMA SpreadUpTo ==
  ASSUME NEW S, NEW g, NEW n \in Nat
  PROVE  \E f : Spreads(f, g, UpTo(S, n))
<1> DEFINE T == {m \in Nat : ~ \E f : Spreads(f, g, UpTo(S, m))}
<1> SUFFICES ASSUME T # {} PROVE FALSE
  OBVIOUS
<1>1. PICK m \in T : \A k \in T : m <= k
  <2>1. T \subseteq Nat
    OBVIOUS
  <2> HIDE DEF T
  <2> QED BY <2>1, LeastNumber
<1>2. m \in Nat /\ ~ \E f : Spreads(f, g, UpTo(S, m))
  OBVIOUS
<1>3. CASE m = 0
  <2>1. \A s \in UpTo(S, 0) : s = <<>>
    BY EmptySeq, LenProperties DEF UpTo
  <2>2. Spreads([s \in UpTo(S, 0) |-> <<>>], g, UpTo(S, 0))
    BY <2>1 DEF Spreads
  <2> QED BY <1>2, <1>3, <2>2
<1>4. CASE m # 0
  <2>1. m - 1 \in Nat /\ m - 1 \notin T
    BY <1>1, <1>2, <1>4
  <2>2. PICK f : Spreads(f, g, UpTo(S, m - 1))
    BY <2>1
  <2> DEFINE h == [s \in UpTo(S, m) |-> IF s = <<>> THEN <<>> ELSE g[Head(s)] \o f[Tail(s)]]
  <2>3. \A s \in UpTo(S, m) : h[s] = IF s = <<>> THEN <<>> ELSE g[Head(s)] \o f[Tail(s)]
    OBVIOUS
  <2> HIDE DEF h, T
  <2>4. ASSUME NEW s \in UpTo(S, m), s # <<>> PROVE h[Tail(s)] = f[Tail(s)]
    <3>1. s \in Seq(S) /\ Len(s) <= m
      BY DEF UpTo
    <3>2. Tail(s) \in Seq(S) /\ Len(Tail(s)) <= m - 1 /\ Len(Tail(s)) <= m
      BY <1>2, <2>4, <3>1, TailIsShorter
    <3>3. Tail(s) \in UpTo(S, m - 1) /\ Tail(s) \in UpTo(S, m)
      BY <3>2 DEF UpTo
    <3> QED BY <2>2, <2>3, <3>3 DEF Spreads
  <2>5. Spreads(h, g, UpTo(S, m))
    BY <2>3, <2>4 DEF Spreads
  <2> QED BY <1>2, <2>5
<1> QED BY <1>3, <1>4

\* Where two such functions are both defined they agree.
LEMMA SpreadsAgree ==
  ASSUME NEW S, NEW g, NEW f, NEW h, NEW n \in Nat, NEW m \in Nat, n <= m,
         Spreads(f, g, UpTo(S, n)), Spreads(h, g, UpTo(S, m))
  PROVE  \A s \in UpTo(S, n) : f[s] = h[s]
<1> DEFINE T == {s \in UpTo(S, n) : f[s] # h[s]}
<1> SUFFICES ASSUME T # {} PROVE FALSE
  OBVIOUS
<1>1. T \subseteq Seq(S)
  BY DEF UpTo
<1>2. \A s \in T : s \in UpTo(S, n) /\ f[s] # h[s]
  OBVIOUS
<1>3. \A s \in UpTo(S, n) : f[s] # h[s] => s \in T
  OBVIOUS
<1> HIDE DEF T
<1>4. PICK s \in T : \A t \in T : Len(s) <= Len(t)
  BY <1>1, ShortestSequence
<1>5. s \in Seq(S) /\ Len(s) <= n /\ s \in UpTo(S, n) /\ s \in UpTo(S, m)
  <2>1. s \in Seq(S) /\ Len(s) <= n
    BY <1>2, <1>4 DEF UpTo
  <2> QED BY <2>1, LenProperties DEF UpTo
<1>6. s # <<>>
  BY <1>2, <1>5 DEF Spreads
<1>7. Tail(s) \in Seq(S) /\ Len(Tail(s)) < Len(s) /\ Len(Tail(s)) <= n
  BY <1>5, <1>6, TailIsShorter
<1>8. Tail(s) \in UpTo(S, n) /\ Tail(s) \notin T
  <2>1. ~(Len(s) <= Len(Tail(s)))
    BY <1>5, <1>7, LenProperties
  <2> QED BY <1>4, <1>7, <2>1 DEF UpTo
<1>9. f[Tail(s)] = h[Tail(s)]
  BY <1>3, <1>8
<1> QED BY <1>2, <1>5, <1>6, <1>9 DEF Spreads

\* There is such a function on all sequences.
LEMMA SpreadExists ==
  ASSUME NEW S, NEW g
  PROVE  \E f : IsSpread(f, g, S)
<1> DEFINE Part(n) == CHOOSE f : Spreads(f, g, UpTo(S, n))
           f == [s \in Seq(S) |-> Part(Len(s))[s]]
<1>1. \A n \in Nat : Spreads(Part(n), g, UpTo(S, n))
  BY SpreadUpTo
<1>2. \A s \in Seq(S) : f[s] = Part(Len(s))[s]
  OBVIOUS
<1>3. f = [s \in Seq(S) |-> f[s]]
  OBVIOUS
<1> HIDE DEF Part, f
<1>4. ASSUME NEW s \in Seq(S)
      PROVE  f[s] = IF s = <<>> THEN <<>> ELSE g[Head(s)] \o f[Tail(s)]
  <2>1. Len(s) \in Nat /\ s \in UpTo(S, Len(s))
    BY LenProperties DEF UpTo
  <2>2. f[s] = IF s = <<>> THEN <<>> ELSE g[Head(s)] \o Part(Len(s))[Tail(s)]
    BY <1>1, <1>2, <2>1 DEF Spreads
  <2>3. ASSUME s # <<>> PROVE Part(Len(s))[Tail(s)] = f[Tail(s)]
    <3>1. Tail(s) \in Seq(S) /\ Len(Tail(s)) \in Nat /\ Len(Tail(s)) <= Len(s)
      BY <2>3, TailIsShorter
    <3>2. Tail(s) \in UpTo(S, Len(Tail(s)))
      BY <3>1 DEF UpTo
    <3>3. /\ Spreads(Part(Len(Tail(s))), g, UpTo(S, Len(Tail(s))))
          /\ Spreads(Part(Len(s)), g, UpTo(S, Len(s)))
      BY <1>1, <2>1, <3>1
    <3>4. Part(Len(Tail(s)))[Tail(s)] = Part(Len(s))[Tail(s)]
      BY <2>1, <3>1, <3>2, <3>3, SpreadsAgree
    <3> QED BY <1>2, <3>1, <3>4
  <2> QED BY <2>2, <2>3
<1> QED BY <1>3, <1>4 DEF IsSpread

\* Its values are sequences if those of g are.
LEMMA SpreadType ==
  ASSUME NEW S, NEW R, NEW g, NEW f, SpreadsTo(f, g, S, R)
  PROVE  \A s \in Seq(S) : f[s] \in Seq(R)
<1>0. Spreads(f, g, Seq(S)) /\ \A x \in S : g[x] \in Seq(R)
  BY DEF SpreadsTo
<1> DEFINE T == {s \in Seq(S) : f[s] \notin Seq(R)}
<1> SUFFICES ASSUME T # {} PROVE FALSE
  OBVIOUS
<1>1. T \subseteq Seq(S) /\ (\A s \in T : f[s] \notin Seq(R))
      /\ \A s \in Seq(S) : f[s] \notin Seq(R) => s \in T
  OBVIOUS
<1> HIDE DEF T
<1>2. PICK s \in T : \A t \in T : Len(s) <= Len(t)
  BY <1>1, ShortestSequence
<1>3. s \in Seq(S) /\ f[s] \notin Seq(R)
  BY <1>1, <1>2
<1>4. s # <<>>
  BY <1>0, <1>3, EmptySeq DEF Spreads
<1>5. Head(s) \in S /\ Tail(s) \in Seq(S) /\ ~(Len(s) <= Len(Tail(s)))
  BY <1>3, <1>4, TailIsShorter
<1>6. f[Tail(s)] \in Seq(R) /\ g[Head(s)] \in Seq(R)
  BY <1>0, <1>1, <1>2, <1>5
<1>7. f[s] = g[Head(s)] \o f[Tail(s)]
  BY <1>0, <1>3, <1>4 DEF Spreads
<1> QED BY <1>3, <1>6, <1>7, ConcatProperties

\* The rest of an extended sequence is the extended rest.
LEMMA HeadTailOfAppend ==
  ASSUME NEW S, NEW s \in Seq(S), NEW x \in S
  PROVE  /\ Append(s, x) \in Seq(S) /\ Append(s, x) # <<>>
         /\ s = <<>> => Head(Append(s, x)) = x /\ Tail(Append(s, x)) = <<>>
         /\ s # <<>> => Head(Append(s, x)) = Head(s) /\ Tail(Append(s, x)) = Append(Tail(s), x)
BY HeadTailAppend, AppendProperties

\* The recursion may as well take the last element off.
FromTheEnd(f, g, S) ==
  \A s \in Seq(S), x \in S : f[Append(s, x)] = f[s] \o g[x]

\* What spreads from the front spreads from the end.
LEMMA SpreadAppend ==
  ASSUME NEW S, NEW R, NEW g, NEW f, SpreadsTo(f, g, S, R)
  PROVE  FromTheEnd(f, g, S)
<1>0. Spreads(f, g, Seq(S)) /\ \A x \in S : g[x] \in Seq(R)
  BY DEF SpreadsTo
<1> SUFFICES ASSUME NEW x \in S PROVE \A s \in Seq(S) : f[Append(s, x)] = f[s] \o g[x]
  BY Zenon DEF FromTheEnd
<1> DEFINE T == {s \in Seq(S) : f[Append(s, x)] # f[s] \o g[x]}
<1> SUFFICES ASSUME T # {} PROVE FALSE
  OBVIOUS
<1>1. T \subseteq Seq(S) /\ (\A s \in T : f[Append(s, x)] # f[s] \o g[x])
      /\ \A s \in Seq(S) : f[Append(s, x)] # f[s] \o g[x] => s \in T
  OBVIOUS
<1> HIDE DEF T
<1>2. PICK s \in T : \A t \in T : Len(s) <= Len(t)
  BY <1>1, ShortestSequence
<1>3. s \in Seq(S) /\ f[Append(s, x)] # f[s] \o g[x]
  BY <1>1, <1>2
<1>4. /\ s = <<>> => Head(Append(s, x)) = x /\ Tail(Append(s, x)) = <<>>
      /\ s # <<>> => Head(Append(s, x)) = Head(s) /\ Tail(Append(s, x)) = Append(Tail(s), x)
      /\ Append(s, x) \in Seq(S) /\ Append(s, x) # <<>>
  BY <1>3, HeadTailOfAppend
<1>5. g[x] \in Seq(R) /\ f[<<>>] = <<>>
  BY <1>0, EmptySeq DEF Spreads
<1>6. f[Append(s, x)] = g[Head(Append(s, x))] \o f[Tail(Append(s, x))]
  BY <1>0, <1>4, Zenon DEF Spreads
<1>7. CASE s = <<>>
  <2>1. f[Append(s, x)] = g[x] \o <<>>
    BY <1>4, <1>5, <1>6, <1>7, Zenon
  <2>2. f[s] \o g[x] = <<>> \o g[x]
    BY <1>5, <1>7, Zenon
  <2>3. g[x] \o <<>> = g[x] /\ <<>> \o g[x] = g[x]
    BY <1>5, ConcatEmptySeq, Zenon
  <2> QED BY <1>3, <2>1, <2>2, <2>3, Zenon
<1>8. CASE s # <<>>
  <2>1. Head(s) \in S /\ Tail(s) \in Seq(S) /\ ~(Len(s) <= Len(Tail(s)))
    BY <1>3, <1>8, TailIsShorter
  <2>2. f[Append(Tail(s), x)] = f[Tail(s)] \o g[x]
    BY <1>1, <1>2, <2>1
  <2>3. f[Append(s, x)] = g[Head(s)] \o (f[Tail(s)] \o g[x])
    BY <1>4, <1>6, <1>8, <2>2, Zenon
  <2>4. g[Head(s)] \in Seq(R) /\ f[Tail(s)] \in Seq(R)
    BY <1>0, <2>1, SpreadType
  <2>5. f[s] = g[Head(s)] \o f[Tail(s)]
    BY <1>0, <1>3, <1>8, Zenon DEF Spreads
  <2>6. (g[Head(s)] \o f[Tail(s)]) \o g[x] = g[Head(s)] \o (f[Tail(s)] \o g[x])
    <3>1. \A p, q, r \in Seq(R) : (p \o q) \o r = p \o (q \o r)
      BY Regroup
    <3> QED BY <1>5, <2>4, <3>1, Zenon
  <2> QED BY <1>3, <2>3, <2>5, <2>6, Zenon
<1> QED BY <1>7, <1>8
------------------------------------------------------------------------------
(***************************************************************************)
(* Parts of sequences.                                                     *)
(***************************************************************************)

\* The first m elements, and one more.
LEMMA LongerPrefix ==
  ASSUME NEW S, NEW s \in Seq(S), NEW m \in 0 .. Len(s)
  PROVE  /\ SubSeq(s, 1, m) \in Seq(S) /\ Len(SubSeq(s, 1, m)) = m
         /\ m < Len(s) => s[m + 1] \in S /\ SubSeq(s, 1, m + 1) = Append(SubSeq(s, 1, m), s[m + 1])
<1>1. Len(s) \in Nat /\ \A i \in 1 .. Len(s) : s[i] \in S
  BY LenProperties, ElementOfSeq
<1>2. SubSeq(s, 1, m) \in Seq(S) /\ Len(SubSeq(s, 1, m)) = m
  <2>1. m \in Int /\ 1 \in Int /\ \A i \in 1 .. m : s[i] \in S
    BY <1>1
  <2>2. /\ SubSeq(s, 1, m) \in Seq(S)
        /\ Len(SubSeq(s, 1, m)) = IF 1 <= m THEN m - 1 + 1 ELSE 0
    BY <2>1, SubSeqProperties
  <2> QED BY <1>1, <2>2
<1>3. ASSUME m < Len(s)
      PROVE  s[m + 1] \in S /\ SubSeq(s, 1, m + 1) = Append(SubSeq(s, 1, m), s[m + 1])
  <2>1. 1 \in 1 .. Len(s) /\ m + 1 \in 1 .. Len(s) /\ (m + 1) - 1 = m
    BY <1>1, <1>3
  <2>2. SubSeq(s, 1, m + 1) = SubSeq(s, 1, (m + 1) - 1) \o <<s[m + 1]>>
    BY <2>1, SubSeqRecursiveSecond
  <2>3. s[m + 1] \in S
    BY <1>1, <2>1
  <2> QED BY <1>2, <2>1, <2>2, <2>3, AppendIsConcat
<1> QED BY <1>2, <1>3

\* s is the end of t.
EndsWith(S, t, s) == \E p \in Seq(S) : t = p \o s

\* The end of an end of a sequence that has grown by one element is an end of
\* what the sequence was.
LEMMA EndBefore ==
  ASSUME NEW S
  PROVE  \A t, u, s \in Seq(S), x, y \in S :
           EndsWith(S, Append(t, x), u) /\ EndsWith(S, u, Append(s, y))
             => x = y /\ EndsWith(S, t, s)
<1>1. \A a, b \in Seq(S) : a \o b \in Seq(S)
  BY ConcatIsSeq
<1>2. \A a, b, c \in Seq(S) : (a \o b) \o c = a \o (b \o c)
  BY Regroup
<1>3. \A a, b \in Seq(S), z \in S : a \o Append(b, z) = Append(a \o b, z)
  BY AppendToConcat
<1>4. \A a, b \in Seq(S), v, z \in S : Append(a, v) = Append(b, z) => a = b /\ v = z
  BY SameAppend
<1>5. SUFFICES ASSUME NEW t, NEW u, NEW s, NEW x, NEW y,
                      t \in Seq(S), u \in Seq(S), s \in Seq(S), x \in S, y \in S,
                      EndsWith(S, Append(t, x), u), EndsWith(S, u, Append(s, y))
               PROVE  x = y /\ EndsWith(S, t, s)
  BY Zenon
<1>6. PICK p : p \in Seq(S) /\ Append(t, x) = p \o u
  BY <1>5, Zenon DEF EndsWith
<1>7. PICK q : q \in Seq(S) /\ u = q \o Append(s, y)
  BY <1>5, Zenon DEF EndsWith
<1>8. q \o s \in Seq(S) /\ p \o q \in Seq(S)
  BY <1>5, <1>1, <1>6, <1>7, Zenon
<1>9. p \o (q \o s) \in Seq(S)
  BY <1>1, <1>6, <1>8, Zenon
<1>10. u = Append(q \o s, y)
  BY <1>5, <1>3, <1>7, Zenon
<1>11. Append(t, x) = Append(p \o (q \o s), y)
  BY <1>5, <1>3, <1>6, <1>8, <1>10, Zenon
<1>12. t = p \o (q \o s) /\ x = y
  <2> DEFINE r == p \o (q \o s)
  <2>1. t \in Seq(S) /\ r \in Seq(S) /\ x \in S /\ y \in S /\ Append(t, x) = Append(r, y)
    BY <1>5, <1>9, <1>11, Zenon
  <2> HIDE DEF r
  <2>2. t = r /\ x = y
    BY <2>1, <1>4
  <2> QED BY <2>2, Zenon DEF r
<1>13. (p \o q) \o s = p \o (q \o s)
  BY <1>5, <1>2, <1>6, <1>7, Zenon
<1> QED BY <1>8, <1>12, <1>13, Zenon DEF EndsWith

\* The last n elements are an end.
LEMMA LastOnes ==
  ASSUME NEW S, NEW t \in Seq(S), NEW n \in 0 .. Len(t)
  PROVE  /\ SubSeq(t, Len(t) - n + 1, Len(t)) \in Seq(S)
         /\ EndsWith(S, t, SubSeq(t, Len(t) - n + 1, Len(t)))
<1> DEFINE k == Len(t) - n
<1>1. Len(t) \in Nat /\ \A i \in 1 .. Len(t) : t[i] \in S
  BY LenProperties, ElementOfSeq
<1>2. k \in 0 .. Len(t) /\ k + 1 \in Int /\ 1 \in 1 .. Len(t) + 1 /\ k \in 1 - 1 .. Len(t)
      /\ Len(t) \in k .. Len(t) /\ \A i \in k + 1 .. Len(t) : i \in 1 .. Len(t)
  BY <1>1
<1> HIDE DEF k
<1>3. SubSeq(t, 1, k) \in Seq(S)
  BY <1>2, LongerPrefix
<1>4. SubSeq(t, k + 1, Len(t)) \in Seq(S)
  BY <1>1, <1>2, SubSeqProperties
<1>5. SubSeq(t, 1, k) \o SubSeq(t, k + 1, Len(t)) = SubSeq(t, 1, Len(t))
  BY <1>2, ConcatAdjacentSubSeq
<1>6. t = SubSeq(t, 1, k) \o SubSeq(t, k + 1, Len(t))
  BY <1>5, SubSeqFull
<1>7. EndsWith(S, t, SubSeq(t, k + 1, Len(t)))
  BY <1>3, <1>6 DEF EndsWith
<1> QED BY <1>4, <1>7 DEF k

\* The first element of a sequence and the rest make the sequence.
LEMMA HeadThenTail ==
  ASSUME NEW S, NEW s \in Seq(S), s # <<>>
  PROVE  s = <<Head(s)>> \o Tail(s)
<1>1. Len(s) \in Nat \ {0} /\ 1 \in 1 .. Len(s) /\ Len(s) \in 1 .. Len(s)
  BY EmptySeq
<1>2. SubSeq(s, 1, Len(s)) = <<s[1]>> \o SubSeq(s, 1 + 1, Len(s))
  BY <1>1, SubSeqRecursiveFirst
<1>3. Head(s) = s[1] /\ Tail(s) = SubSeq(s, 2, Len(s)) /\ SubSeq(s, 1, Len(s)) = s
  BY SubSeqFull, TailIsSubSeq
<1> QED BY <1>2, <1>3

\* What is left after the first m elements.
LEMMA LaterPart ==
  ASSUME NEW S, NEW s \in Seq(S), NEW n \in 0 .. Len(s), NEW m \in 0 .. n
  PROVE  /\ SubSeq(s, m + 1, n) \in Seq(S) /\ Len(SubSeq(s, m + 1, n)) = n - m
         /\ m < n => /\ SubSeq(s, m + 1, n) # <<>> /\ s[m + 1] \in S
                     /\ Head(SubSeq(s, m + 1, n)) = s[m + 1]
                     /\ Tail(SubSeq(s, m + 1, n)) = SubSeq(s, m + 2, n)
<1>1. Len(s) \in Nat /\ \A i \in 1 .. Len(s) : s[i] \in S
  BY LenProperties, ElementOfSeq
<1>2. m + 1 \in Int /\ n \in Int /\ \A i \in m + 1 .. n : s[i] \in S
  BY <1>1
<1>3. /\ SubSeq(s, m + 1, n) \in Seq(S)
      /\ Len(SubSeq(s, m + 1, n)) = IF m + 1 <= n THEN n - (m + 1) + 1 ELSE 0
  BY <1>2, SubSeqProperties
<1>4. Len(SubSeq(s, m + 1, n)) = n - m
  BY <1>1, <1>3
<1>5. ASSUME m < n
      PROVE  /\ SubSeq(s, m + 1, n) # <<>> /\ s[m + 1] \in S
             /\ Head(SubSeq(s, m + 1, n)) = s[m + 1]
             /\ Tail(SubSeq(s, m + 1, n)) = SubSeq(s, m + 2, n)
  <2>1. m + 1 \in 1 .. Len(s) /\ n \in m + 1 .. Len(s) /\ (m + 1) + 1 = m + 2
    BY <1>1, <1>5
  <2>2. /\ Head(SubSeq(s, m + 1, n)) = s[m + 1]
        /\ Tail(SubSeq(s, m + 1, n)) = SubSeq(s, (m + 1) + 1, n)
    BY <2>1, HeadTailOfSubSeq
  <2>3. SubSeq(s, m + 1, n) # <<>>
    BY <1>4, <1>5, EmptySeq
  <2> QED BY <1>1, <2>1, <2>2, <2>3
<1> QED BY <1>3, <1>4, <1>5

\* Sequences that begin with an element are equal when the elements and the
\* rests are.
LEMMA SameCons ==
  ASSUME NEW S
  PROVE  \A p, q \in Seq(S), x, y \in S : <<x>> \o p = <<y>> \o q => x = y /\ p = q
<1> SUFFICES ASSUME NEW p \in Seq(S), NEW q \in Seq(S), NEW x \in S, NEW y \in S,
                    <<x>> \o p = <<y>> \o q
             PROVE  x = y /\ p = q
  OBVIOUS
<1>1. \A z \in S : <<z>> \in Seq(S) /\ Len(<<z>>) = 1 /\ <<z>>[1] = z
  OBVIOUS
<1>2. Len(p) \in Nat /\ Len(q) \in Nat
  BY LenProperties
<1>3. (<<x>> \o p)[1] = x
  BY <1>1, <1>2, ConcatProperties
<1>4. (<<y>> \o q)[1] = y
  BY <1>1, <1>2, ConcatProperties
<1>5. x = y
  BY <1>3, <1>4
<1>6. /\ Len(<<x>> \o p) = 1 + Len(p) /\ Len(<<y>> \o q) = 1 + Len(q)
      /\ \A i \in 1 .. 1 + Len(p) : (<<x>> \o p)[i] = IF i <= 1 THEN <<x>>[i] ELSE p[i - 1]
      /\ \A i \in 1 .. 1 + Len(q) : (<<y>> \o q)[i] = IF i <= 1 THEN <<y>>[i] ELSE q[i - 1]
  BY <1>1, ConcatProperties
<1>7. Len(p) = Len(q)
  BY <1>2, <1>6
<1>8. ASSUME NEW i \in 1 .. Len(p) PROVE p[i] = q[i]
  <2>1. i + 1 \in 1 .. 1 + Len(p) /\ ~(i + 1 <= 1) /\ (i + 1) - 1 = i
    BY <1>2
  <2> QED BY <1>6, <1>7, <2>1
<1>9. p = q
  BY <1>7, <1>8, SeqEqual
<1> QED BY <1>5, <1>9
===============================================================================
