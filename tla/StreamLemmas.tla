----------------------------- MODULE StreamLemmas -----------------------------
(***************************************************************************)
(* FlattenSeq of the community modules concatenates a sequence of          *)
(* sequences by a recursion over its length.  What the proofs about byte   *)
(* streams need of it, that it turns a concatenation of queues into the    *)
(* concatenation of what they carry, is proved here by induction.          *)
(***************************************************************************)
EXTENDS CmuxTypes, Integers, SequenceTheorems, FiniteSetTheorems, FunctionTheorems,
        TLAPS

-----------------------------------------------------------------------------
(* Induction over the naturals, on a set: a number outside S would make    *)
(* i -> i + 1 an injection of the members of S up to it into fewer.        *)

LEMMA SetInduction ==
  ASSUME NEW S, 0 \in S, \A n \in Nat : n \in S => n + 1 \in S
  PROVE  Nat \subseteq S
<1>1. SUFFICES ASSUME NEW x \in Nat, x \notin S PROVE FALSE
  OBVIOUS
<1> DEFINE A == {i \in 0 .. x : i \in S}
           f == [i \in A |-> i + 1]
<1>2. IsFiniteSet(0 .. x) /\ A \subseteq 0 .. x
  BY FS_Interval
<1>3. IsFiniteSet(A) /\ IsFiniteSet(A \ {0})
  BY <1>2, FS_Subset
<1>4. f \in [A -> A \ {0}] /\ \A i, j \in A : f[i] = f[j] => i = j
  BY <1>1
<1>5. f \in Injection(A, A \ {0})
  BY <1>4, Fun_IsInj
<1>6. Cardinality(A) <= Cardinality(A \ {0})
  BY <1>3, <1>5, FS_Injection
<1>7. Cardinality(A \ {0}) = Cardinality(A) - 1
  BY <1>3, FS_RemoveElement
<1>8. QED
  BY <1>3, <1>6, <1>7, FS_CardinalityType

-----------------------------------------------------------------------------
(* The recursion behind FlattenSeq.                                        *)

\* g[i] is the concatenation of the first i elements of s.
Flat(g, s) ==
  \A i \in 1 .. Len(s) : g[i] = IF i = 1 THEN s[i] ELSE g[i - 1] \o s[i]

LEMMA FlatExists ==
  ASSUME NEW T, NEW s \in Seq(Seq(T))
  PROVE  \E g \in [1 .. Len(s) -> Seq(T)] : Flat(g, s)
<1> DEFINE Step(g, i) == g[i] = IF i = 1 THEN s[i] ELSE g[i - 1] \o s[i]
           P(n) == \E g \in [1 .. n -> Seq(T)] : \A i \in 1 .. n : Step(g, i)
           S == {n \in Nat : n <= Len(s) => P(n)}
<1>1. P(0)
  <2> DEFINE g == [i \in 1 .. 0 |-> <<>>]
  <2>1. g \in [1 .. 0 -> Seq(T)] /\ 1 .. 0 = {}
    OBVIOUS
  <2> HIDE DEF g, Step
  <2>2. QED
    BY <2>1
<1>2. ASSUME NEW n \in Nat, n + 1 <= Len(s), P(n) PROVE P(n + 1)
  <2>1. PICK g \in [1 .. n -> Seq(T)] : \A i \in 1 .. n : Step(g, i)
    BY <1>2
  <2> DEFINE x == IF n = 0 THEN s[1] ELSE g[n] \o s[n + 1]
             h == [i \in 1 .. n + 1 |-> IF i = n + 1 THEN x ELSE g[i]]
  <2>2. x \in Seq(T)
    <3>1. s[n + 1] \in Seq(T)
      BY <1>2
    <3>2. n # 0 => g[n] \in Seq(T)
      OBVIOUS
    <3>3. QED
      BY <3>1, <3>2
  <2> HIDE DEF x
  <2>3. h \in [1 .. n + 1 -> Seq(T)]
    BY <2>2
  <2>4. \A i \in 1 .. n : h[i] = g[i]
    OBVIOUS
  <2>5. h[n + 1] = x
    OBVIOUS
  <2> HIDE DEF h
  <2>6. ASSUME NEW i \in 1 .. n + 1 PROVE Step(h, i)
    <3>1. CASE i = n + 1
      <4>1. n # 0 => h[n] = g[n]
        BY <2>4
      <4>2. QED
        BY <2>5, <3>1, <4>1 DEF x
    <3>2. CASE i # n + 1
      <4>1. i \in 1 .. n /\ (i # 1 => i - 1 \in 1 .. n)
        BY <3>2
      <4>2. Step(g, i) /\ h[i] = g[i] /\ (i # 1 => h[i - 1] = g[i - 1])
        BY <2>1, <2>4, <4>1
      <4>3. QED
        BY <4>2
    <3>3. QED
      BY <3>1, <3>2
  <2> HIDE DEF Step
  <2>7. QED
    BY <2>3, <2>6
<1> HIDE DEF P
<1>3. 0 \in S
  BY <1>1
<1>4. \A n \in Nat : n \in S => n + 1 \in S
  BY <1>2
<1> HIDE DEF S
<1>5. Nat \subseteq S
  BY <1>3, <1>4, SetInduction
<1>6. P(Len(s))
  <2>1. Len(s) \in Nat /\ Len(s) \in S
    BY <1>5
  <2>2. QED
    BY <2>1 DEF S
<1>7. QED
  BY <1>6 DEF P, Flat

LEMMA FlatUnique ==
  ASSUME NEW s, NEW n \in Nat, Len(s) = n, NEW g, NEW h, Flat(g, s), Flat(h, s)
  PROVE  \A i \in 1 .. n : g[i] = h[i]
<1> DEFINE S == {i \in Nat : i \in 1 .. n => g[i] = h[i]}
<1>1. ASSUME NEW i \in Nat, i \in S PROVE i + 1 \in S
  <2>1. SUFFICES ASSUME i + 1 \in 1 .. n PROVE g[i + 1] = h[i + 1]
    OBVIOUS
  <2>2. i # 0 => g[i] = h[i]
    BY <1>1, <2>1
  <2>3. QED
    BY <2>1, <2>2 DEF Flat
<1>2. 0 \in S
  OBVIOUS
<1> HIDE DEF S
<1>3. Nat \subseteq S
  BY <1>1, <1>2, SetInduction
<1>4. QED
  BY <1>3 DEF S

LEMMA FlattenIs ==
  ASSUME NEW T, NEW s \in Seq(Seq(T)), s # <<>>, NEW g, Flat(g, s)
  PROVE  FlattenSeq(s) = g[Len(s)]
<1> DEFINE D(h) == [i \in 1 .. Len(s) |-> IF i = 1 THEN s[i] ELSE h[i - 1] \o s[i]]
           f == CHOOSE h : h = D(h)
<1>1. FlattenSeq(s) = f[Len(s)]
  BY DEF FlattenSeq
<1>2. PICK h \in [1 .. Len(s) -> Seq(T)] : Flat(h, s)
  BY FlatExists
<1>3. h = D(h)
  BY <1>2 DEF Flat
<1>4. f = D(f)
  BY <1>3, Zenon
<1> HIDE DEF f
<1>5. Flat(f, s)
  BY <1>4 DEF Flat
<1>6. Len(s) \in Nat /\ Len(s) \in 1 .. Len(s)
  OBVIOUS
<1>7. g[Len(s)] = f[Len(s)]
  BY <1>5, <1>6, FlatUnique
<1>8. QED
  BY <1>1, <1>7

LEMMA FlattenEmpty == FlattenSeq(<<>>) = <<>>
  BY DEF FlattenSeq

LEMMA FlattenOne ==
  ASSUME NEW T, NEW e \in Seq(T)
  PROVE  FlattenSeq(<<e>>) = e
<1> DEFINE g == [i \in 1 .. 1 |-> e]
<1>1. Flat(g, <<e>>) /\ g[1] = e
  BY DEF Flat
<1>2. <<e>> \in Seq(Seq(T)) /\ <<e>> # <<>> /\ Len(<<e>>) = 1
  OBVIOUS
<1> HIDE DEF g
<1>3. QED
  BY <1>1, <1>2, FlattenIs

LEMMA FlattenType ==
  ASSUME NEW T, NEW s \in Seq(Seq(T))
  PROVE  FlattenSeq(s) \in Seq(T)
<1>1. CASE s = <<>>
  <2>1. FlattenSeq(s) = <<>>
    BY <1>1, FlattenEmpty, Zenon
  <2>2. QED
    BY <2>1
<1>2. CASE s # <<>>
  <2>1. PICK g \in [1 .. Len(s) -> Seq(T)] : Flat(g, s)
    BY FlatExists
  <2>2. FlattenSeq(s) = g[Len(s)]
    BY <1>2, <2>1, FlattenIs
  <2>3. Len(s) \in 1 .. Len(s)
    BY <1>2
  <2>4. QED
    BY <2>2, <2>3
<1>3. QED
  BY <1>1, <1>2

-----------------------------------------------------------------------------
(* The flattening of a concatenation.                                      *)

\* Concatenation, folded: the provers take it for what the lemmas say of it.
Cat(a, b) == a \o b

LEMMA ConcatAssociates ==
  ASSUME NEW T
  PROVE  \A a, b, c \in Seq(T) : Cat(a, Cat(b, c)) = Cat(Cat(a, b), c)
<1> TAKE a, b, c \in Seq(T)
<1> QED
  BY DEF Cat

LEMMA JoinedIndex ==
  ASSUME NEW m \in Nat \ {0}, NEW n \in Nat \ {0}, NEW i \in 1 .. m + n
  PROVE  \/ i \in 1 .. m /\ (i # 1 => i - 1 \in 1 .. m)
         \/ /\ i - m = 1 /\ i - 1 = m /\ i \in m + 1 .. m + n /\ i # 1
            /\ m \in 1 .. m /\ 1 \in 1 .. n
         \/ /\ i - m \in 1 .. n /\ i - m - 1 \in 1 .. n /\ i - m # 1 /\ i # 1
            /\ i - 1 - m = i - m - 1
            /\ i \in m + 1 .. m + n /\ i - 1 \in m + 1 .. m + n /\ m \in 1 .. m
  OBVIOUS

\* Flat up to n.
Runs(g, s, n) ==
  \A i \in 1 .. n : g[i] = IF i = 1 THEN s[i] ELSE Cat(g[i - 1], s[i])

\* k and st are g and s followed by what h and t add.
Joined(k, st, g, s, h, t, m, n) ==
  /\ \A i \in 1 .. m : st[i] = s[i] /\ k[i] = g[i]
  /\ \A i \in m + 1 .. m + n : st[i] = t[i - m] /\ k[i] = Cat(g[m], h[i - m])

Typed(T, g, n) == \A i \in 1 .. n : g[i] \in Seq(T)

\* Two recursions joined: the second goes on from the last value of the first.
LEMMA FlatJoin ==
  ASSUME NEW T, NEW m \in Nat \ {0}, NEW n \in Nat \ {0},
         NEW s, NEW t, NEW st, NEW g, NEW h, NEW k,
         Runs(g, s, m), Runs(h, t, n), Typed(T, g, m), Typed(T, h, n), Typed(T, t, n),
         Joined(k, st, g, s, h, t, m, n)
  PROVE  Runs(k, st, m + n)
<1> USE DEF Runs, Typed, Joined
<1> SUFFICES ASSUME NEW i \in 1 .. m + n
             PROVE  k[i] = IF i = 1 THEN st[i] ELSE Cat(k[i - 1], st[i])
  OBVIOUS
<1>1. CASE i \in 1 .. m /\ (i # 1 => i - 1 \in 1 .. m)
  BY <1>1
<1>2. CASE /\ i - m = 1 /\ i - 1 = m /\ i \in m + 1 .. m + n /\ i # 1
           /\ m \in 1 .. m /\ 1 \in 1 .. n
  <2>1. k[i] = Cat(g[m], h[1]) /\ st[i] = t[1]
    BY <1>2
  <2>2. k[m] = g[m] /\ h[1] = t[1]
    BY <1>2
  <2>3. QED
    BY <1>2, <2>1, <2>2
<1>3. CASE /\ i - m \in 1 .. n /\ i - m - 1 \in 1 .. n /\ i - m # 1 /\ i # 1
           /\ i - 1 - m = i - m - 1
           /\ i \in m + 1 .. m + n /\ i - 1 \in m + 1 .. m + n /\ m \in 1 .. m
  <2> DEFINE j == i - m
  <2>1. k[i] = Cat(g[m], h[j]) /\ st[i] = t[j]
    BY <1>3
  <2>2. k[i - 1] = Cat(g[m], h[j - 1])
    BY <1>3
  <2>3. j \in 1 .. n /\ j - 1 \in 1 .. n /\ j # 1 /\ i # 1 /\ m \in 1 .. m
    BY <1>3
  <2> HIDE DEF j
  <2>4. h[j] = Cat(h[j - 1], t[j])
    BY <2>3
  <2>5. g[m] \in Seq(T) /\ h[j - 1] \in Seq(T) /\ t[j] \in Seq(T)
    BY <2>3
  <2>6. Cat(g[m], Cat(h[j - 1], t[j])) = Cat(Cat(g[m], h[j - 1]), t[j])
    BY <2>5, ConcatAssociates
  <2>7. QED
    BY <2>1, <2>2, <2>3, <2>4, <2>6
<1>4. QED
  BY <1>1, <1>2, <1>3, JoinedIndex

LEMMA FlatConcat ==
  ASSUME NEW T, NEW s \in Seq(Seq(T)), NEW t \in Seq(Seq(T)),
         s # <<>>, t # <<>>,
         NEW g, Flat(g, s), Typed(T, g, Len(s)),
         NEW h, Flat(h, t), Typed(T, h, Len(t))
  PROVE  FlattenSeq(Cat(s, t)) = Cat(g[Len(s)], h[Len(t)])
<1>0. PICK m \in Nat \ {0}, n \in Nat \ {0} : m = Len(s) /\ n = Len(t)
  OBVIOUS
<1> USE <1>0
<1> DEFINE kk == [i \in 1 .. m + n |-> IF i <= m THEN g[i] ELSE Cat(g[m], h[i - m])]
<1> SUFFICES ASSUME NEW k, k = kk
             PROVE  FlattenSeq(Cat(s, t)) = Cat(g[Len(s)], h[Len(t)])
  OBVIOUS
<1>1. \A i \in 1 .. m : i \in 1 .. m + n /\ i <= m
  OBVIOUS
<1>2. \A i \in m + 1 .. m + n : i \in 1 .. m + n /\ ~(i <= m)
  OBVIOUS
<1>3. \A i \in 1 .. m : k[i] = g[i]
  BY <1>1
<1>4. \A i \in m + 1 .. m + n : k[i] = Cat(g[m], h[i - m])
  BY <1>2
<1> HIDE DEF kk
<1>5. PICK st : st = s \o t
  OBVIOUS
<1>6. /\ Len(st) = m + n
      /\ \A i \in 1 .. m : st[i] = s[i]
      /\ \A i \in m + 1 .. m + n : st[i] = t[i - m]
  BY <1>5
<1>7. Runs(g, s, m) /\ Runs(h, t, n)
  BY DEF Flat, Cat, Runs
<1>9. Typed(T, t, n)
  BY DEF Typed
<1>10. Joined(k, st, g, s, h, t, m, n)
  BY <1>3, <1>4, <1>6 DEF Joined
<1>11. Runs(k, st, m + n)
  BY <1>7, <1>9, <1>10, FlatJoin
<1>12. Flat(k, st)
  BY <1>6, <1>11 DEF Flat, Cat, Runs
<1>13. k[m + n] = Cat(g[m], h[n])
  <2> DEFINE i == m + n
  <2>1. i \in m + 1 .. m + n /\ i - m = n
    OBVIOUS
  <2> HIDE DEF i
  <2>2. k[i] = Cat(g[m], h[i - m])
    BY <1>4, <2>1, Zenon
  <2>3. k[i] = Cat(g[m], h[n])
    BY <2>1, <2>2, Zenon
  <2>4. QED
    BY <2>3 DEF i
<1>14. s \o t \in Seq(Seq(T)) /\ s \o t # <<>> /\ Len(s \o t) = m + n
  OBVIOUS
<1>15. FlattenSeq(s \o t) = k[Len(s \o t)]
  BY <1>5, <1>12, <1>14, FlattenIs
<1>16. QED
  BY <1>13, <1>14, <1>15 DEF Cat

LEMMA FlattenConcat ==
  ASSUME NEW T, NEW s \in Seq(Seq(T)), NEW t \in Seq(Seq(T))
  PROVE  FlattenSeq(s \o t) = FlattenSeq(s) \o FlattenSeq(t)
<1>1. CASE s = <<>>
  <2>1. s \o t = t /\ <<>> \o FlattenSeq(t) = FlattenSeq(t)
    BY <1>1, FlattenType
  <2>2. QED
    BY <1>1, <2>1, FlattenEmpty
<1>2. CASE t = <<>>
  <2>1. s \o t = s /\ FlattenSeq(s) \o <<>> = FlattenSeq(s)
    BY <1>2, FlattenType
  <2>2. QED
    BY <1>2, <2>1, FlattenEmpty
<1>3. CASE s # <<>> /\ t # <<>>
  <2>1. PICK g \in [1 .. Len(s) -> Seq(T)] : Flat(g, s)
    BY FlatExists
  <2>2. PICK h \in [1 .. Len(t) -> Seq(T)] : Flat(h, t)
    BY FlatExists
  <2>3. Typed(T, g, Len(s)) /\ Typed(T, h, Len(t))
    BY DEF Typed
  <2>4. FlattenSeq(Cat(s, t)) = Cat(g[Len(s)], h[Len(t)])
    BY <1>3, <2>1, <2>2, <2>3, FlatConcat, SMTT(30), ZenonT(30)
  <2>5. FlattenSeq(s) = g[Len(s)] /\ FlattenSeq(t) = h[Len(t)]
    BY <1>3, <2>1, <2>2, FlattenIs
  <2>6. QED
    BY <2>4, <2>5 DEF Cat
<1>4. QED
  BY <1>1, <1>2, <1>3

-----------------------------------------------------------------------------
(* Sequences.                                                              *)

\* Cat is kept folded below: it is all these laws say of it.
LEMMA CatLaws ==
  ASSUME NEW T
  PROVE
  /\ \A a, b \in Seq(T) : Cat(a, b) \in Seq(T)
  /\ \A a, b, c \in Seq(T) : Cat(a, Cat(b, c)) = Cat(Cat(a, b), c)
  /\ \A a \in Seq(T) : Cat(a, <<>>) = a /\ Cat(<<>>, a) = a
<1>1. \A a, b \in Seq(T) : Cat(a, b) \in Seq(T)
  BY DEF Cat
<1>2. \A a, b, c \in Seq(T) : Cat(a, Cat(b, c)) = Cat(Cat(a, b), c)
  BY ConcatAssociates
<1>3. \A a \in Seq(T) : Cat(a, <<>>) = a /\ Cat(<<>>, a) = a
  BY DEF Cat
<1>4. QED
  BY <1>1, <1>2, <1>3

LEMMA CatFour ==
  ASSUME NEW T
  PROVE
  \A a, b, c, e \in Seq(T) :
    /\ Cat(Cat(a, b), Cat(c, e)) = Cat(a, Cat(Cat(b, c), e))
    /\ Cat(a, Cat(b, Cat(c, e))) = Cat(Cat(a, Cat(b, c)), e)
    /\ Cat(a, Cat(b, Cat(c, e))) = Cat(Cat(a, b), Cat(c, e))
<1> TAKE a, b, c, e \in Seq(T)
<1>1. /\ Cat(a, b) \in Seq(T) /\ Cat(b, c) \in Seq(T) /\ Cat(c, e) \in Seq(T)
  BY CatLaws
<1>2. /\ Cat(a, Cat(b, Cat(c, e))) = Cat(Cat(a, b), Cat(c, e))
      /\ Cat(b, Cat(c, e)) = Cat(Cat(b, c), e)
      /\ Cat(a, Cat(Cat(b, c), e)) = Cat(Cat(a, Cat(b, c)), e)
  BY <1>1, CatLaws
<1>3. QED
  BY <1>2

LEMMA CutFront ==
  ASSUME NEW T, NEW a \in Seq(T), NEW c \in Seq(T), a # <<>>
  PROVE  /\ Len(a) \in 1 .. Len(a \o c)
         /\ (a \o c)[Len(a)] = a[Len(a)]
         /\ SubSeq(a \o c, Len(a) + 1, Len(a \o c)) = c
<1>1. Len(a) \in 1 .. Len(a \o c) /\ Len(a \o c) = Len(a) + Len(c)
  OBVIOUS
<1>2. \A i \in 1 .. Len(a) : (a \o c)[i] = a[i]
  OBVIOUS
<1>3. \A i \in 1 .. Len(c) : (a \o c)[Len(a) + i] = c[i]
  OBVIOUS
<1>4. SubSeq(a \o c, Len(a) + 1, Len(a \o c)) = c
  OBVIOUS
<1>5. QED
  BY <1>1, <1>2, <1>4

\* g is f without one of its runs.
CutRun(f, g) ==
  \E i, j \in 1 .. Len(f) :
    i <= j /\ g = SubSeq(f, 1, i - 1) \o SubSeq(f, j + 1, Len(f))

LEMMA CutMiddle ==
  ASSUME NEW T, NEW a \in Seq(T), NEW b \in Seq(T), NEW c \in Seq(T), b # <<>>
  PROVE  CutRun(Cat(a, Cat(b, c)), Cat(a, c))
<1> DEFINE f == a \o (b \o c)
           i == Len(a) + 1
           j == Len(a) + Len(b)
<1>1. f \in Seq(T) /\ Len(f) = Len(a) + Len(b) + Len(c) /\ Len(b) \in Nat \ {0}
  OBVIOUS
<1>2. i \in 1 .. Len(f) /\ j \in 1 .. Len(f) /\ i <= j
  BY <1>1
<1>3. SubSeq(f, 1, i - 1) = a
  OBVIOUS
<1>4. SubSeq(f, j + 1, Len(f)) = c
  OBVIOUS
<1> HIDE DEF f, i, j
<1>5. CutRun(f, a \o c)
  BY <1>2, <1>3, <1>4 DEF CutRun
<1>6. QED
  BY <1>5 DEF f, Cat

LEMMA Singleton ==
  ASSUME NEW T, NEW s \in Seq(T), s # <<>>, Len(s) <= 1
  PROVE  Head(s) \in T /\ s = <<Head(s)>>
<1> DEFINE t == <<Head(s)>>
<1>1. Len(s) = 1 /\ Head(s) \in T
  OBVIOUS
<1>2. t \in Seq(T) /\ Len(t) = 1 /\ t[1] = s[1]
  BY <1>1
<1>3. s = t
  BY <1>1, <1>2, SeqEqual
<1>4. QED
  BY <1>1, <1>3

LEMMA CutBack ==
  ASSUME NEW T, NEW s \in Seq(T), NEW k \in 0 .. Len(s)
  PROVE  /\ SubSeq(s, 1, k) \in Seq(T) /\ SubSeq(s, k + 1, Len(s)) \in Seq(T)
         /\ SubSeq(s, 1, k) \o SubSeq(s, k + 1, Len(s)) = s
         /\ Len(SubSeq(s, 1, k)) = k
<1>1. SubSeq(s, 1, k) \in Seq(T) /\ Len(SubSeq(s, 1, k)) = k
  OBVIOUS
<1>2. SubSeq(s, k + 1, Len(s)) \in Seq(T)
  OBVIOUS
<1>3. 1 \in 1 .. Len(s) + 1 /\ k \in 1 - 1 .. Len(s) /\ Len(s) \in k .. Len(s)
  OBVIOUS
<1>4. SubSeq(s, 1, k) \o SubSeq(s, k + 1, Len(s)) = SubSeq(s, 1, Len(s))
  BY <1>3, ConcatAdjacentSubSeq
<1>5. QED
  BY <1>1, <1>2, <1>4, SubSeqFull

-----------------------------------------------------------------------------
(* The payload of a queue.                                                 *)

\* What an element of a queue carries for DLC d.
Own(e, d) == IF e.dlci = d THEN e.info ELSE <<>>

Carries(F, B) == \A e \in F : e.info \in Seq(B)

LEMMA PayloadType ==
  ASSUME NEW B, NEW F, Carries(F, B), NEW s \in Seq(F), NEW d
  PROVE  /\ [i \in DOMAIN s |-> Own(s[i], d)] \in Seq(Seq(B))
         /\ Payload(s, d) = FlattenSeq([i \in DOMAIN s |-> Own(s[i], d)])
         /\ Payload(s, d) \in Seq(B)
<1> DEFINE r == [i \in DOMAIN s |-> Own(s[i], d)]
<1>1. \A i \in 1 .. Len(s) : s[i] \in F
  OBVIOUS
<1>2. \A e \in F : Own(e, d) \in Seq(B)
  BY DEF Own, Carries
<1>3. r \in Seq(Seq(B))
  <2>1. \A i \in 1 .. Len(s) : Own(s[i], d) \in Seq(B)
    BY <1>1, <1>2
  <2>2. r = [i \in 1 .. Len(s) |-> Own(s[i], d)] /\ Len(s) \in Nat
    OBVIOUS
  <2> HIDE DEF r
  <2>3. QED
    BY <2>1, <2>2
<1>4. Payload(s, d) = FlattenSeq(r)
  BY DEF Payload, Own
<1> HIDE DEF r
<1>5. Payload(s, d) \in Seq(B)
  BY <1>3, <1>4, FlattenType
<1>6. QED
  BY <1>3, <1>4, <1>5 DEF r

LEMMA PayloadEmpty == ASSUME NEW d PROVE Payload(<<>>, d) = <<>>
<1>1. [i \in DOMAIN <<>> |-> IF <<>>[i].dlci = d THEN <<>>[i].info ELSE <<>>] = <<>>
  OBVIOUS
<1>2. QED
  BY <1>1, FlattenEmpty, Zenon DEF Payload

LEMMA PayloadOne ==
  ASSUME NEW B, NEW e, e.info \in Seq(B), NEW d
  PROVE  Payload(<<e>>, d) = Own(e, d)
<1>1. [i \in DOMAIN <<e>> |-> IF <<e>>[i].dlci = d THEN <<e>>[i].info ELSE <<>>]
        = <<Own(e, d)>>
  BY DEF Own
<1>2. Own(e, d) \in Seq(B)
  BY DEF Own
<1>3. QED
  BY <1>1, <1>2, FlattenOne DEF Payload

LEMMA PayloadConcat ==
  ASSUME NEW B, NEW F, Carries(F, B),
         NEW s \in Seq(F), NEW t \in Seq(F), NEW d
  PROVE  Payload(s \o t, d) = Payload(s, d) \o Payload(t, d)
<1> DEFINE R(q) == [i \in DOMAIN q |-> Own(q[i], d)]
<1>1. s \o t \in Seq(F)
  OBVIOUS
<1>2. /\ R(s) \in Seq(Seq(B)) /\ R(t) \in Seq(Seq(B))
      /\ Payload(s, d) = FlattenSeq(R(s)) /\ Payload(t, d) = FlattenSeq(R(t))
  BY PayloadType
<1>3. Payload(s \o t, d) = FlattenSeq(R(s \o t))
  BY <1>1, PayloadType
<1>4. R(s \o t) = R(s) \o R(t)
  <2>1. R(s) = [i \in 1 .. Len(s) |-> Own(s[i], d)] /\ R(t) = [i \in 1 .. Len(t) |-> Own(t[i], d)]
    OBVIOUS
  <2>2. R(s \o t) = [i \in 1 .. Len(s) + Len(t) |-> Own((s \o t)[i], d)]
    OBVIOUS
  <2>3. /\ \A i \in 1 .. Len(s) : (s \o t)[i] = s[i]
        /\ \A i \in Len(s) + 1 .. Len(s) + Len(t) : (s \o t)[i] = t[i - Len(s)]
    OBVIOUS
  <2>4. QED
    BY <2>1, <2>2, <2>3
<1> HIDE DEF R
<1>5. FlattenSeq(R(s) \o R(t)) = FlattenSeq(R(s)) \o FlattenSeq(R(t))
  BY <1>2, FlattenConcat
<1>6. QED
  BY <1>2, <1>3, <1>4, <1>5

\* The same with Cat folded.
LEMMA PayloadCat ==
  ASSUME NEW B, NEW F, Carries(F, B),
         NEW s \in Seq(F), NEW t \in Seq(F), NEW d
  PROVE  Payload(Cat(s, t), d) = Cat(Payload(s, d), Payload(t, d))
  BY PayloadConcat DEF Cat

LEMMA PayloadAppend ==
  ASSUME NEW B, NEW F, Carries(F, B), NEW s \in Seq(F), NEW e \in F, NEW d
  PROVE  Payload(Append(s, e), d) = Cat(Payload(s, d), Own(e, d))
<1> DEFINE t == <<e>>
<1>0. t \in Seq(F)
  OBVIOUS
<1>1. Payload(t, d) = Own(e, d)
  BY PayloadOne DEF Carries
<1>2. Append(s, e) = s \o t
  BY AppendIsConcat
<1> HIDE DEF t
<1>3. Payload(s \o t, d) = Payload(s, d) \o Payload(t, d)
  BY <1>0, PayloadConcat
<1>4. QED
  BY <1>1, <1>2, <1>3 DEF Cat

LEMMA PayloadHead ==
  ASSUME NEW B, NEW F, Carries(F, B), NEW s \in Seq(F), s # <<>>, NEW d
  PROVE  Payload(s, d) = Cat(Own(Head(s), d), Payload(Tail(s), d))
<1> DEFINE h == <<Head(s)>>
           t == Tail(s)
<1>1. Head(s) \in F
  OBVIOUS
<1>2. h \in Seq(F) /\ t \in Seq(F) /\ s = h \o t
  OBVIOUS
<1>3. Payload(h, d) = Own(Head(s), d)
  BY <1>1, PayloadOne DEF Carries
<1> HIDE DEF h, t
<1>4. Payload(h \o t, d) = Payload(h, d) \o Payload(t, d)
  BY <1>2, PayloadConcat
<1>5. QED
  BY <1>2, <1>3, <1>4 DEF t, Cat
=============================================================================
