-------------------------- MODULE DataMode_proofs --------------------------
(***************************************************************************)
(* Data mode for every size of the pipes, buffers and accumulators, any    *)
(* number of lines sent unasked, of answers that come late and of frames   *)
(* that the line loses.                                                    *)
(***************************************************************************)
EXTENDS DataMode, StreamLemmas

-----------------------------------------------------------------------------
(* Numbers.                                                                *)

\* What the lemmas need of a set of elements.
Numbered(E) == \A e \in E : e.of \in Nat

Number(e, K) == IF e.text \in K THEN <<e.of>> ELSE <<>>

LEMMA NumbersType ==
  ASSUME NEW E, Numbered(E), NEW s \in Seq(E), NEW K
  PROVE  /\ [i \in DOMAIN s |-> Number(s[i], K)] \in Seq(Seq(Nat))
         /\ Numbers(s, K) = FlattenSeq([i \in DOMAIN s |-> Number(s[i], K)])
         /\ Numbers(s, K) \in Seq(Nat)
<1> DEFINE r == [i \in DOMAIN s |-> Number(s[i], K)]
<1>1. \A i \in 1 .. Len(s) : s[i] \in E
  OBVIOUS
<1>2. \A e \in E : Number(e, K) \in Seq(Nat)
  BY DEF Number, Numbered
<1>3. r \in Seq(Seq(Nat))
  <2>1. \A i \in 1 .. Len(s) : Number(s[i], K) \in Seq(Nat)
    BY <1>1, <1>2
  <2>2. r = [i \in 1 .. Len(s) |-> Number(s[i], K)] /\ Len(s) \in Nat
    OBVIOUS
  <2> HIDE DEF r
  <2>3. QED
    BY <2>1, <2>2
<1>4. Numbers(s, K) = FlattenSeq(r)
  BY DEF Numbers, Number
<1> HIDE DEF r
<1>5. QED
  BY <1>3, <1>4, FlattenType DEF r

LEMMA NumbersEmpty == ASSUME NEW K PROVE Numbers(<<>>, K) = <<>>
<1>1. [i \in DOMAIN <<>> |-> IF <<>>[i].text \in K THEN <<(<<>>)[i].of>> ELSE <<>>] = <<>>
  OBVIOUS
<1>2. QED
  BY <1>1, FlattenEmpty, Zenon DEF Numbers

LEMMA NumbersOne ==
  ASSUME NEW e, e.of \in Nat, NEW K
  PROVE  Numbers(<<e>>, K) = Number(e, K)
<1>1. [i \in DOMAIN <<e>> |-> IF <<e>>[i].text \in K THEN <<(<<e>>)[i].of>> ELSE <<>>]
        = <<Number(e, K)>>
  BY DEF Number
<1>2. Number(e, K) \in Seq(Nat)
  BY DEF Number
<1>3. QED
  BY <1>1, <1>2, FlattenOne DEF Numbers

LEMMA NumbersConcat ==
  ASSUME NEW E, Numbered(E), NEW K
  PROVE  \A s, t \in Seq(E) : Numbers(s \o t, K) = Numbers(s, K) \o Numbers(t, K)
<1> TAKE s, t \in Seq(E)
<1> DEFINE R(q) == [i \in DOMAIN q |-> Number(q[i], K)]
<1>1. s \o t \in Seq(E)
  OBVIOUS
<1>2. /\ R(s) \in Seq(Seq(Nat)) /\ R(t) \in Seq(Seq(Nat))
      /\ Numbers(s, K) = FlattenSeq(R(s)) /\ Numbers(t, K) = FlattenSeq(R(t))
  BY NumbersType
<1>3. Numbers(s \o t, K) = FlattenSeq(R(s \o t))
  BY <1>1, NumbersType
<1>4. R(s \o t) = R(s) \o R(t)
  <2>1. /\ R(s) = [i \in 1 .. Len(s) |-> Number(s[i], K)]
        /\ R(t) = [i \in 1 .. Len(t) |-> Number(t[i], K)]
    OBVIOUS
  <2>2. R(s \o t) = [i \in 1 .. Len(s) + Len(t) |-> Number((s \o t)[i], K)]
    OBVIOUS
  <2>3. /\ \A i \in 1 .. Len(s) : (s \o t)[i] = s[i]
        /\ \A i \in Len(s) + 1 .. Len(s) + Len(t) : (s \o t)[i] = t[i - Len(s)]
    OBVIOUS
  <2>4. QED
    BY <2>1, <2>2, <2>3
<1> HIDE DEF R
<1>5. FlattenSeq(R(s) \o R(t)) = FlattenSeq(R(s)) \o FlattenSeq(R(t))
  BY <1>2, FlattenConcat
<1>6. QED
  BY <1>2, <1>3, <1>4, <1>5

LEMMA NumbersCat ==
  ASSUME NEW E, Numbered(E), NEW K
  PROVE  \A s, t \in Seq(E) : Numbers(Cat(s, t), K) = Cat(Numbers(s, K), Numbers(t, K))
  BY NumbersConcat DEF Cat

\* x occurs in s.
Has(s, x) == \E i \in 1 .. Len(s) : s[i] = x

\* An element of s with a text in K has the number n.
Mentions(s, K, n) == \E i \in 1 .. Len(s) : s[i].text \in K /\ s[i].of = n

LEMMA Push ==
  ASSUME NEW T, NEW m \in Seq(T), NEW v \in T
  PROVE  /\ m \o <<v>> \in Seq(T)
         /\ Len(m \o <<v>>) = Len(m) + 1 /\ (m \o <<v>>)[Len(m) + 1] = v
         /\ \A i \in 1 .. Len(m) : (m \o <<v>>)[i] = m[i]
  OBVIOUS

\* The first n elements of s, as those before the last and the last.
LEMMA Grow ==
  ASSUME NEW E, NEW s \in Seq(E), NEW n \in Nat, n + 1 <= Len(s)
  PROVE  /\ SubSeq(s, 1, n + 1) = SubSeq(s, 1, n) \o <<s[n + 1]>>
         /\ SubSeq(s, 1, n) \in Seq(E) /\ Len(SubSeq(s, 1, n)) = n
         /\ s[n + 1] \in E
         /\ Len(SubSeq(s, 1, n + 1)) = n + 1
         /\ \A i \in 1 .. n : SubSeq(s, 1, n + 1)[i] = SubSeq(s, 1, n)[i]
         /\ SubSeq(s, 1, n + 1)[n + 1] = s[n + 1]
<1>1. SubSeq(s, 1, n) \in Seq(E) /\ Len(SubSeq(s, 1, n)) = n
  OBVIOUS
<1>2. SubSeq(s, 1, n + 1) \in Seq(E) /\ Len(SubSeq(s, 1, n + 1)) = n + 1
  OBVIOUS
<1>3. s[n + 1] \in E
  OBVIOUS
<1>4. /\ \A i \in 1 .. n : SubSeq(s, 1, n + 1)[i] = SubSeq(s, 1, n)[i]
      /\ SubSeq(s, 1, n + 1)[n + 1] = s[n + 1]
  OBVIOUS
<1>5. SubSeq(s, 1, n + 1) = SubSeq(s, 1, n) \o <<s[n + 1]>>
  <2> DEFINE a == SubSeq(s, 1, n)
             b == SubSeq(s, 1, n + 1)
             c == a \o <<s[n + 1]>>
  <2>1. Len(c) = n + 1 /\ c \in Seq(E) /\ c[n + 1] = s[n + 1] /\ \A i \in 1 .. n : c[i] = a[i]
    BY <1>1, <1>3
  <2> HIDE DEF a, b, c
  <2>2. \A i \in 1 .. n + 1 : c[i] = b[i]
    BY <1>4, <2>1 DEF a, b
  <2>3. b = c
    BY <1>2, <2>1, <2>2, SeqEqual DEF b
  <2>4. QED
    BY <2>3 DEF a, b, c
<1>6. QED
  BY <1>1, <1>2, <1>3, <1>4, <1>5

LEMMA HasConcat ==
  ASSUME NEW T, NEW a \in Seq(T), NEW b \in Seq(T), NEW x
  PROVE  Has(a \o b, x) <=> Has(a, x) \/ Has(b, x)
<1>1. /\ Len(a \o b) = Len(a) + Len(b) /\ Len(a) \in Nat /\ Len(b) \in Nat
      /\ \A i \in 1 .. Len(a) : (a \o b)[i] = a[i]
      /\ \A i \in 1 .. Len(a) + Len(b) : i > Len(a) => (a \o b)[i] = b[i - Len(a)]
  OBVIOUS
<1>2. ASSUME Has(b, x) PROVE Has(a \o b, x)
  <2>1. PICK i \in 1 .. Len(b) : b[i] = x
    BY <1>2 DEF Has
  <2>2. Len(a) + i \in 1 .. Len(a) + Len(b) /\ Len(a) + i > Len(a) /\ Len(a) + i - Len(a) = i
    BY <1>1
  <2>3. (a \o b)[Len(a) + i] = x
    BY <1>1, <2>1, <2>2
  <2>4. QED
    BY <1>1, <2>2, <2>3 DEF Has
<1>3. ASSUME Has(a, x) PROVE Has(a \o b, x)
  BY <1>1, <1>3 DEF Has
<1>4. ASSUME Has(a \o b, x) PROVE Has(a, x) \/ Has(b, x)
  <2>1. PICK i \in 1 .. Len(a) + Len(b) : (a \o b)[i] = x
    BY <1>1, <1>4 DEF Has
  <2>2. i \in 1 .. Len(a) \/ (i > Len(a) /\ i - Len(a) \in 1 .. Len(b))
    BY <1>1
  <2>3. QED
    BY <1>1, <2>1, <2>2 DEF Has
<1>5. QED
  BY <1>2, <1>3, <1>4

LEMMA HasCat ==
  ASSUME NEW T
  PROVE  \A a, b \in Seq(T) : \A x : Has(Cat(a, b), x) <=> Has(a, x) \/ Has(b, x)
  BY HasConcat DEF Cat

\* Numbers keeps exactly the numbers of the elements asked for.
LEMMA NumbersMention ==
  ASSUME NEW E, Numbered(E), NEW s \in Seq(E), NEW K, NEW x
  PROVE  Has(Numbers(s, K), x) <=> Mentions(s, K, x)
<1> DEFINE t(n) == SubSeq(s, 1, n)
           P(n) == Has(Numbers(t(n), K), x) <=> Mentions(t(n), K, x)
           S == {n \in Nat : n <= Len(s) => P(n)}
<1>1. P(0)
  <2>1. t(0) = <<>>
    OBVIOUS
  <2>2. Numbers(t(0), K) = <<>>
    BY <2>1, NumbersEmpty
  <2>3. QED
    BY <2>1, <2>2 DEF Has, Mentions
<1>2. ASSUME NEW n \in Nat, n + 1 <= Len(s), P(n) PROVE P(n + 1)
  <2> DEFINE e == s[n + 1]
             a == t(n)
             b == t(n + 1)
             o == <<e>>
  <2>1. /\ b = a \o o /\ a \in Seq(E) /\ e \in E /\ Len(a) = n /\ Len(b) = n + 1
        /\ b[n + 1] = e /\ \A i \in 1 .. n : b[i] = a[i]
    BY <1>2, Grow
  <2>2. o \in Seq(E) /\ e.of \in Nat
    BY <2>1 DEF Numbered
  <2>3. Numbers(o, K) = Number(e, K)
    BY <2>2, NumbersOne
  <2> HIDE DEF o
  <2>4. Numbers(a \o o, K) = Numbers(a, K) \o Numbers(o, K)
    BY <2>1, <2>2, NumbersConcat
  <2>5. Numbers(a, K) \in Seq(Nat) /\ Number(e, K) \in Seq(Nat)
    <3>1. Numbers(a, K) \in Seq(Nat)
      BY <2>1, NumbersType
    <3>2. Number(e, K) \in Seq(Nat)
      BY <2>2 DEF Number
    <3>3. QED
      BY <3>1, <3>2
  <2>6. Has(Number(e, K), x) <=> e.text \in K /\ e.of = x
    BY DEF Has, Number
  <2> HIDE DEF e, a, b
  <2>7. Has(Numbers(b, K), x) <=> Has(Numbers(a, K), x) \/ Has(Number(e, K), x)
    BY <2>1, <2>3, <2>4, <2>5, HasConcat
  <2>8. Mentions(b, K, x) <=> Mentions(a, K, x) \/ (e.text \in K /\ e.of = x)
    <3>1. Mentions(b, K, x) <=> \E i \in 1 .. n + 1 : b[i].text \in K /\ b[i].of = x
      BY <2>1 DEF Mentions
    <3>2. Mentions(a, K, x) <=> \E i \in 1 .. n : b[i].text \in K /\ b[i].of = x
      BY <2>1 DEF Mentions
    <3>3. n + 1 \in 1 .. n + 1 /\ \A i \in 1 .. n + 1 : i \in 1 .. n \/ i = n + 1
      OBVIOUS
    <3>4. \A i \in 1 .. n : i \in 1 .. n + 1
      OBVIOUS
    <3>5. b[n + 1] = e
      BY <2>1
    <3>6. QED
      BY <3>1, <3>2, <3>3, <3>4, <3>5, Zenon
  <2>9. QED
    BY <1>2, <2>6, <2>7, <2>8 DEF a, b
<1> HIDE DEF P
<1>3. 0 \in S
  BY <1>1
<1>4. \A n \in Nat : n \in S => n + 1 \in S
  BY <1>2
<1> HIDE DEF S
<1>5. Nat \subseteq S
  BY <1>3, <1>4, SetInduction
<1>6. P(Len(s))
  <2>1. Len(s) \in Nat /\ Len(s) \in S
    BY <1>5
  <2>2. QED
    BY <2>1 DEF S
<1>7. SubSeq(s, 1, Len(s)) = s
  OBVIOUS
<1>8. QED
  BY <1>6, <1>7 DEF P

LEMMA NumbersNone ==
  ASSUME NEW E, Numbered(E), NEW s \in Seq(E), NEW K,
         \A i \in 1 .. Len(s) : s[i].text \notin K
  PROVE  Numbers(s, K) = <<>>
<1> DEFINE N == Numbers(s, K)
<1>1. N \in Seq(Nat)
  BY NumbersType
<1>2. ~Has(N, N[1])
  BY NumbersMention DEF Mentions
<1> HIDE DEF N
<1>3. N = <<>>
  BY <1>1, <1>2 DEF Has
<1>4. QED
  BY <1>3 DEF N

\* Where every element is asked for, each has its place.
LEMMA NumbersAll ==
  ASSUME NEW E, Numbered(E), NEW s \in Seq(E), NEW K,
         \A i \in 1 .. Len(s) : s[i].text \in K
  PROVE  /\ Len(Numbers(s, K)) = Len(s)
         /\ \A i \in 1 .. Len(s) : Numbers(s, K)[i] = s[i].of
<1> DEFINE t(n) == SubSeq(s, 1, n)
           N(n) == Numbers(t(n), K)
           P(n) == Len(N(n)) = n /\ \A i \in 1 .. n : N(n)[i] = s[i].of
           S == {n \in Nat : n <= Len(s) => P(n)}
<1>1. P(0)
  <2>1. t(0) = <<>>
    OBVIOUS
  <2>2. N(0) = <<>>
    BY <2>1, NumbersEmpty
  <2>3. QED
    BY <2>2
<1>2. ASSUME NEW n \in Nat, n + 1 <= Len(s), P(n) PROVE P(n + 1)
  <2> DEFINE e == s[n + 1]
             a == t(n)
             b == t(n + 1)
             o == <<e>>
  <2>1. b = a \o o /\ a \in Seq(E) /\ e \in E
    BY <1>2, Grow
  <2>2. o \in Seq(E) /\ e.of \in Nat /\ e.text \in K
    <3>1. n + 1 \in 1 .. Len(s)
      BY <1>2
    <3>2. e.text \in K
      BY <3>1
    <3> HIDE DEF e
    <3>3. e \in E
      BY <2>1
    <3>4. o \in Seq(E)
      BY <3>3
    <3>5. e.of \in Nat
      BY <3>3 DEF Numbered
    <3>6. QED
      BY <3>2, <3>4, <3>5
  <2>3. Numbers(o, K) = <<e.of>>
    BY <2>2, NumbersOne DEF Number
  <2> HIDE DEF o
  <2>4. Numbers(a \o o, K) = Numbers(a, K) \o Numbers(o, K)
    BY <2>1, <2>2, NumbersConcat
  <2>5. Numbers(a, K) \in Seq(Nat)
    BY <2>1, NumbersType
  <2>6. N(n) = Numbers(a, K) /\ N(n + 1) = Numbers(a, K) \o <<e.of>>
    BY <2>1, <2>3, <2>4
  <2> HIDE DEF t, N, a, b
  <2>7. Len(N(n)) = n /\ \A i \in 1 .. n : N(n)[i] = s[i].of
    BY <1>2
  <2>8. N(n) \in Seq(Nat) /\ N(n + 1) = N(n) \o <<e.of>> /\ e.of \in Nat
    BY <2>2, <2>5, <2>6
  <2> HIDE DEF e
  <2>9. Len(N(n + 1)) = n + 1 /\ N(n + 1)[n + 1] = e.of /\ \A i \in 1 .. n : N(n + 1)[i] = N(n)[i]
    <3> DEFINE m == N(n)
               q == N(n + 1)
    <3>1. m \in Seq(Nat) /\ q = m \o <<e.of>> /\ Len(m) = n /\ e.of \in Nat
      BY <2>7, <2>8
    <3> HIDE DEF m, q
    <3>2. Len(q) = n + 1 /\ q[n + 1] = e.of /\ \A i \in 1 .. n : q[i] = m[i]
      BY <3>1, Push, SMTT(30), ZenonT(30)
    <3>3. QED
      BY <3>2 DEF m, q
  <2>10. \A i \in 1 .. n + 1 : i \in 1 .. n \/ i = n + 1
    OBVIOUS
  <2>11. QED
    BY <2>7, <2>9, <2>10 DEF e
<1> HIDE DEF P
<1>3. 0 \in S
  BY <1>1
<1>4. \A n \in Nat : n \in S => n + 1 \in S
  BY <1>2
<1> HIDE DEF S
<1>5. Nat \subseteq S
  BY <1>3, <1>4, SetInduction
<1>6. P(Len(s))
  <2>1. Len(s) \in Nat /\ Len(s) \in S
    BY <1>5
  <2>2. QED
    BY <2>1 DEF S
<1>7. SubSeq(s, 1, Len(s)) = s
  OBVIOUS
<1>8. QED
  BY <1>6, <1>7 DEF P

-----------------------------------------------------------------------------
(* What every variable holds.                                              *)

Texts == {"RING", "CONNECT", "ERROR", "LF", "ppp",
          "+CSQ:", "OK", "+CME ERROR", "RDY", "noise"}
Elements == [text : Texts, of : Nat, fields : {<<>>}]
Frames == [kind : {"Uih"}, dlci : DataDlcs, info : Seq(Elements)]
Numberings == 0 .. Numbering - 1

RxShape ==
  /\ toHost \in Seq(Frames) /\ pending \in Frames
  /\ pipe \in [DataDlcs -> Seq(Elements)]
  /\ Len(pipe[1]) <= DLC1_PIPE_BYTES /\ Len(pipe[2]) <= DLC2_PIPE_BYTES
PppShape ==
  /\ ppp \in {"call", "reply", "connected", "timeout", "failed", "io"}
  /\ held \in Seq(Elements)
NetShape ==
  /\ buf \in Seq(Elements) /\ Len(buf) <= BUF /\ pos \in 0 .. Len(buf)
  /\ lastOut \in Elements /\ exited \in BOOLEAN
StatusShape ==
  /\ status \in {"off", "drain", "poll", "pause"}
  /\ (status # "off" <=> ppp = "connected")
  /\ acc \in Seq(Elements) /\ Len(acc) <= ACC
  /\ dropped \in BOOLEAN /\ robbed \in BOOLEAN /\ nsent \in Numberings
ModemShape ==
  /\ out \in Seq(Numberings)
  /\ dlc2 \in {"at", "said", "data", "refused", "unasked"}
  /\ garbled \in BOOLEAN /\ pppSent \in Nat /\ faults \in Nat /\ lost \in Nat
Shape == RxShape /\ PppShape /\ NetShape /\ StatusShape /\ ModemShape

LEMMA Constants ==
  /\ BUF \in Nat \ {0} /\ ACC \in Nat /\ Numbering \in Nat \ {0}
  /\ DLC1_PIPE_BYTES \in Nat \ {0} /\ DLC2_PIPE_BYTES \in Nat \ {0}
  /\ MAX_INFO_LEN \in Nat \ {0} /\ MaxPpp \in Nat
  BY DataModeAssumption

LEMMA LineTypes ==
  /\ \A t \in Texts : Text(t) \in Elements
  /\ \A t \in Texts, n \in Nat : Answer(t, n) \in Elements
  /\ \A n \in Nat : Byte(n) \in Elements
  /\ Ppp!LF \in Elements
  BY DEF Text, Answer, Byte, Ppp!Line, Ppp!LF, Elements, Texts

LEMMA Types ==
  /\ Numbered(Elements) /\ Carries(Frames, Elements)
  /\ \A f \in Frames : f.dlci \in DataDlcs /\ f.info \in Seq(Elements) /\ f.kind = "Uih"
  /\ \A d \in DataDlcs, s \in Seq(Elements) : Uih(d, s) \in Frames
  BY DEF Numbered, Carries, Frames, Elements, Uih

LEMMA ShapeInit == Init => Shape
<1> SUFFICES ASSUME Init PROVE Shape
  OBVIOUS
<1> USE DEF Init
<1>0. /\ <<>> \in Seq(Elements) /\ Len(<<>>) = 0 /\ 0 \in 0 .. 0
      /\ 0 <= BUF /\ 0 <= ACC
  BY Constants
<1>1. RxShape
  <2>1. Uih(1, <<>>) \in Frames
    BY DEF Uih, Frames, DataDlcs
  <2>2. pipe \in [DataDlcs -> Seq(Elements)] /\ pipe[1] = <<>> /\ pipe[2] = <<>>
    BY DEF DataDlcs
  <2>3. QED
    BY <2>1, <2>2, Constants DEF RxShape
<1>2. PppShape
  BY DEF Ppp!Init, PppShape
<1>3. NetShape
  <2>1. Byte(0) \in Elements
    BY LineTypes
  <2>2. buf = <<>> /\ pos = 0
    BY DEF Net!Init
  <2>3. QED
    BY <1>0, <2>1, <2>2 DEF NetShape
<1>4. StatusShape
  <2>1. /\ status = "off" /\ ppp = "call" /\ acc = <<>> /\ nsent = 0 /\ dropped = FALSE
        /\ robbed = FALSE
    BY DEF Status!Init, Ppp!Init
  <2>2. 0 \in Numberings
    BY Constants DEF Numberings
  <2>3. QED
    BY <1>0, <2>1, <2>2 DEF StatusShape
<1>5. ModemShape
  <2>1. <<>> \in Seq(Numberings)
    OBVIOUS
  <2>2. /\ out = <<>> /\ dlc2 = "at" /\ garbled = FALSE
        /\ pppSent = 0 /\ faults = 0 /\ lost = 0
    OBVIOUS
  <2>3. 0 \in Nat
    OBVIOUS
  <2>4. QED
    BY <2>1, <2>2, <2>3, Zenon DEF ModemShape
<1>6. QED
  BY <1>1, <1>2, <1>3, <1>4, <1>5 DEF Shape

-----------------------------------------------------------------------------
(* The receiving side.                                                     *)

\* A reader takes the first k elements of a pipe.
Takes(d, k) ==
  /\ k \in 1 .. Len(pipe[d])
  /\ pipe' = [pipe EXCEPT ![d] = SubSeq(@, k + 1, Len(@))]
  /\ toHost' = toHost /\ pending' = pending

LEMMA ReadPipeTakes ==
  ASSUME NEW d, ReadPipe(d)
  PROVE  \E k \in 1 .. Len(pipe[d]) : Takes(d, k)
  BY DEF ReadPipe, Takes

LEMMA TakesShape ==
  ASSUME RxShape, NEW d \in DataDlcs, NEW k, Takes(d, k)
  PROVE  /\ RxShape'
         /\ k \in Nat /\ Len(pipe[d]) \in Nat
         /\ SubSeq(pipe[d], 1, k) \in Seq(Elements) /\ Len(SubSeq(pipe[d], 1, k)) = k
         /\ pipe'[d] = SubSeq(pipe[d], k + 1, Len(pipe[d]))
         /\ Len(pipe'[d]) = Len(pipe[d]) - k
         /\ pipe[d] = Cat(SubSeq(pipe[d], 1, k), pipe'[d])
         /\ \A e \in DataDlcs : e # d => pipe'[e] = pipe[e]
<1> USE DEF Takes, RxShape
<1>1. pipe[d] \in Seq(Elements)
  OBVIOUS
<1>2. /\ SubSeq(pipe[d], k + 1, Len(pipe[d])) \in Seq(Elements)
      /\ Len(SubSeq(pipe[d], k + 1, Len(pipe[d]))) = Len(pipe[d]) - k
  BY <1>1
<1>3. k \in Nat /\ Len(pipe[d]) \in Nat /\ k \in 0 .. Len(pipe[d])
  BY <1>1
<1>4. /\ pipe'[d] = SubSeq(pipe[d], k + 1, Len(pipe[d]))
      /\ \A e \in DataDlcs : e # d => pipe'[e] = pipe[e]
      /\ pipe' \in [DataDlcs -> Seq(Elements)]
  BY <1>2
<1>5. /\ SubSeq(pipe[d], 1, k) \in Seq(Elements) /\ Len(SubSeq(pipe[d], 1, k)) = k
      /\ pipe[d] = Cat(SubSeq(pipe[d], 1, k), pipe'[d])
  BY <1>1, <1>3, <1>4, CutBack DEF Cat
<1>6. \A e \in DataDlcs : Len(pipe'[e]) <= Len(pipe[e])
  BY <1>2, <1>3, <1>4
<1>7. RxShape'
  <2>1. 1 \in DataDlcs /\ 2 \in DataDlcs
    BY DEF DataDlcs
  <2>2. \A e \in DataDlcs : Len(pipe'[e]) \in Nat /\ Len(pipe[e]) \in Nat
    BY <1>4
  <2>3. /\ Len(pipe'[1]) <= DLC1_PIPE_BYTES /\ Len(pipe'[2]) <= DLC2_PIPE_BYTES
    BY <1>6, <2>1, <2>2, Constants
  <2>4. QED
    BY <1>4, <2>3
<1>8. QED
  BY <1>2, <1>3, <1>4, <1>5, <1>7

\* Coming by its parts: what the pipe p, the payload f being written to it and
\* the frames s on the line hold for d.
Whole(p, f, s, d) == p \o Payload(<<f>> \o s, d)
Parts(p, f, s, d) == Cat(p, Cat(Own(f, d), Payload(s, d)))

LEMMA WholeIsParts ==
  ASSUME NEW p \in Seq(Elements), NEW f \in Frames, NEW s \in Seq(Frames), NEW d
  PROVE  /\ Whole(p, f, s, d) = Parts(p, f, s, d)
         /\ Own(f, d) \in Seq(Elements) /\ Payload(s, d) \in Seq(Elements)
         /\ Parts(p, f, s, d) \in Seq(Elements)
<1> DEFINE q == <<f>>
<1>1. q \in Seq(Frames) /\ Carries(Frames, Elements)
  BY Types
<1>2. Own(f, d) \in Seq(Elements)
  BY <1>1 DEF Own, Carries
<1>3. Payload(q, d) = Own(f, d)
  BY <1>1, PayloadOne DEF Carries
<1> HIDE DEF q
<1>4. Payload(q \o s, d) = Payload(q, d) \o Payload(s, d)
  BY <1>1, PayloadConcat
<1>5. Payload(s, d) \in Seq(Elements)
  BY <1>1, PayloadType
<1>6. Whole(p, f, s, d) = Parts(p, f, s, d)
  BY <1>3, <1>4, <1>5 DEF q, Whole, Parts, Cat
<1>7. Parts(p, f, s, d) \in Seq(Elements)
  BY <1>2, <1>5, CatLaws DEF Parts
<1>8. QED
  BY <1>2, <1>5, <1>6, <1>7

LEMMA ComingIs ==
  ASSUME RxShape, NEW d \in DataDlcs
  PROVE  /\ Coming(d) = Parts(pipe[d], pending, toHost, d)
         /\ Coming(d) \in Seq(Elements) /\ pipe[d] \in Seq(Elements)
         /\ Own(pending, d) \in Seq(Elements) /\ Payload(toHost, d) \in Seq(Elements)
<1>1. pending \in Frames /\ toHost \in Seq(Frames) /\ pipe[d] \in Seq(Elements)
  BY DEF RxShape
<1>2. Coming(d) = Whole(pipe[d], pending, toHost, d)
  BY DEF Coming, Whole
<1>3. QED
  BY <1>1, <1>2, WholeIsParts

LEMMA ComingSoon ==
  ASSUME RxShape', NEW d \in DataDlcs
  PROVE  /\ Coming(d)' = Parts(pipe'[d], pending', toHost', d)
         /\ Coming(d)' \in Seq(Elements) /\ pipe'[d] \in Seq(Elements)
         /\ Own(pending', d) \in Seq(Elements) /\ Payload(toHost', d) \in Seq(Elements)
<1>1. pending' \in Frames /\ toHost' \in Seq(Frames) /\ pipe'[d] \in Seq(Elements)
  BY DEF RxShape
<1>2. Coming(d)' = Whole(pipe'[d], pending', toHost', d)
  BY DEF Coming, Whole
<1>3. QED
  BY <1>1, <1>2, WholeIsParts

LEMMA NothingMoves ==
  ASSUME UNCHANGED <<toHost, pipe, pending>>
  PROVE  (RxShape => RxShape') /\ \A d : Coming(d)' = Coming(d)
  BY DEF RxShape, Coming

\* What is taken from a pipe is what was coming first.
LEMMA TakesComing ==
  ASSUME RxShape, NEW d \in DataDlcs, NEW k, Takes(d, k)
  PROVE  /\ Coming(d) = Cat(SubSeq(pipe[d], 1, k), Coming(d)')
         /\ \A e \in DataDlcs : e # d => Coming(e)' = Coming(e)
<1>1. RxShape' /\ toHost' = toHost /\ pending' = pending
  BY TakesShape DEF Takes
<1> DEFINE u == SubSeq(pipe[d], 1, k)
           v == pipe'[d]
           r == Cat(Own(pending, d), Payload(toHost, d))
<1>2. u \in Seq(Elements) /\ pipe[d] = Cat(u, v)
  BY TakesShape
<1>3. v \in Seq(Elements) /\ Coming(d)' = Parts(v, pending, toHost, d)
  BY <1>1, ComingSoon
<1>4. Coming(d) = Parts(pipe[d], pending, toHost, d)
  BY ComingIs
<1>5. r \in Seq(Elements)
  BY ComingIs, CatLaws
<1> HIDE DEF u, v
<1>6. Coming(d) = Cat(Cat(u, v), r) /\ Coming(d)' = Cat(v, r)
  BY <1>2, <1>3, <1>4 DEF Parts
<1> HIDE DEF r
<1>7. Cat(Cat(u, v), r) = Cat(u, Cat(v, r))
  BY <1>2, <1>3, <1>5, CatLaws
<1>8. ASSUME NEW e \in DataDlcs, e # d PROVE Coming(e)' = Coming(e)
  <2>1. pipe'[e] = pipe[e]
    BY <1>8, TakesShape
  <2>2. QED
    BY <1>1, <2>1, ComingIs, ComingSoon
<1>9. QED
  BY <1>6, <1>7, <1>8 DEF u

\* The dispatcher changes nothing of what is coming.
LEMMA RxMoves ==
  ASSUME RxShape, Rx!ToPipe \/ Rx!WritePipe
  PROVE  /\ RxShape' /\ \A d \in DataDlcs : Coming(d)' = Coming(d)
         /\ \A d \in DataDlcs : Len(pipe[d]) = PIPE_BYTES(d) => pipe'[d] = pipe[d]
<1>1. /\ toHost \in Seq(Frames) /\ pending \in Frames
      /\ pipe \in [DataDlcs -> Seq(Elements)]
  BY DEF RxShape
<1>2. CASE Rx!ToPipe
  <2>1. /\ pending.info = <<>> /\ toHost # <<>> /\ pending' = Head(toHost)
        /\ toHost' = Tail(toHost) /\ pipe' = pipe
    BY <1>2 DEF Rx!ToPipe, Rx!TakeFrame, Rx!Idle
  <2>2. Head(toHost) \in Frames /\ Tail(toHost) \in Seq(Frames)
    BY <1>1, <2>1
  <2>3. RxShape'
    BY <2>1, <2>2 DEF RxShape
  <2>4. ASSUME NEW d \in DataDlcs PROVE Coming(d)' = Coming(d)
    <3>1. Payload(toHost, d) = Cat(Own(Head(toHost), d), Payload(Tail(toHost), d))
      BY <1>1, <2>1, Types, PayloadHead
    <3>2. Own(pending, d) = <<>>
      BY <2>1 DEF Own
    <3>3. Cat(<<>>, Payload(toHost, d)) = Payload(toHost, d)
      BY ComingIs, CatLaws
    <3>4. QED
      BY <2>1, <2>3, <3>1, <3>2, <3>3, ComingIs, ComingSoon DEF Parts
  <2>5. QED
    BY <2>1, <2>3, <2>4
<1>3. CASE Rx!WritePipe
  <2> DEFINE h == pending.dlci
             b == pending.info
             n == Len(b)
             room == PIPE_BYTES(h) - Len(pipe[h])
             k == IF n < room THEN n ELSE room
             u == SubSeq(b, 1, k)
             v == SubSeq(b, k + 1, n)
  <2>1. /\ h \in DataDlcs /\ b \in Seq(Elements) /\ n \in Nat
        /\ PIPE_BYTES(h) \in Nat /\ Len(pipe[h]) \in Nat
    BY <1>1, Types, Constants DEF PIPE_BYTES
  <2>2. room > 0
    BY <1>3 DEF Rx!WritePipe, Rx!PIPE_BYTES, PIPE_BYTES
  <2>3. k \in 0 .. n /\ k + Len(pipe[h]) <= PIPE_BYTES(h)
    BY <2>1, <2>2
  <2>4. /\ pipe' = [pipe EXCEPT ![h] = @ \o u]
        /\ pending' = [pending EXCEPT !.info = v]
        /\ toHost' = toHost
    BY <1>3 DEF Rx!WritePipe, Rx!leftover, Rx!PIPE_BYTES, PIPE_BYTES
  <2> HIDE DEF k
  <2>5. u \in Seq(Elements) /\ v \in Seq(Elements) /\ Cat(u, v) = b /\ Len(u) = k
    BY <2>1, <2>3, CutBack DEF Cat
  <2>6. /\ pending' \in Frames /\ pending'.dlci = h /\ pending'.info = v
    BY <1>1, <2>4, <2>5 DEF Frames
  <2>7. /\ pipe'[h] = Cat(pipe[h], u) /\ pipe' \in [DataDlcs -> Seq(Elements)]
        /\ \A e \in DataDlcs : e # h => pipe'[e] = pipe[e]
    <3> HIDE DEF u
    <3>1. pipe[h] \o u \in Seq(Elements)
      BY <1>1, <2>1, <2>5
    <3>2. QED
      BY <1>1, <2>1, <2>4, <3>1 DEF Cat
  <2>8. Len(pipe'[h]) <= PIPE_BYTES(h)
    <3>1. Len(pipe'[h]) = Len(pipe[h]) + k
      BY <1>1, <2>1, <2>5, <2>7 DEF Cat
    <3>2. QED
      BY <2>1, <2>3, <3>1
  <2>9. RxShape'
    BY <2>1, <2>4, <2>6, <2>7, <2>8, SMTT(30), ZenonT(30) DEF RxShape, PIPE_BYTES, DataDlcs
  <2> HIDE DEF u, v
  <2>10. ASSUME NEW d \in DataDlcs PROVE Coming(d)' = Coming(d)
    <3> DEFINE P == Payload(toHost, d)
    <3>1. pipe[d] \in Seq(Elements) /\ P \in Seq(Elements)
      BY ComingIs
    <3>2. CASE h = d
      <4>1. Own(pending, d) = b /\ Own(pending', d) = v
        BY <2>6, <3>2 DEF Own
      <4>2. Cat(Cat(pipe[d], u), Cat(v, P)) = Cat(pipe[d], Cat(Cat(u, v), P))
        BY <2>5, <3>1, CatFour
      <4>3. Coming(d) = Cat(pipe[d], Cat(b, P))
        BY <4>1, ComingIs DEF Parts
      <4>4. Coming(d)' = Cat(pipe'[d], Cat(Own(pending', d), P))
        BY <2>4, <2>9, ComingSoon DEF Parts
      <4>5. pipe'[d] = Cat(pipe[d], u) /\ Cat(u, v) = b
        BY <2>5, <2>7, <3>2
      <4>6. QED
        BY <4>1, <4>2, <4>3, <4>4, <4>5
    <3>3. CASE h # d
      <4>1. Own(pending, d) = <<>> /\ Own(pending', d) = <<>> /\ pipe'[d] = pipe[d]
        BY <2>6, <2>7, <3>3 DEF Own
      <4>2. QED
        BY <2>4, <2>9, <4>1, ComingIs, ComingSoon DEF Parts
    <3>4. QED
      BY <3>2, <3>3
  <2>11. ASSUME NEW d \in DataDlcs, Len(pipe[d]) = PIPE_BYTES(d) PROVE pipe'[d] = pipe[d]
    <3>1. d # h
      BY <2>1, <2>2, <2>11
    <3>2. QED
      BY <2>7, <3>1
  <2>12. QED
    BY <2>9, <2>10, <2>11
<1>4. QED
  BY <1>2, <1>3

\* The modem sends a frame.
LEMMA ToHostComing ==
  ASSUME RxShape, NEW d \in DataDlcs, NEW s \in Seq(Elements), ToHost(d, s)
  PROVE  /\ RxShape' /\ pipe' = pipe /\ pending' = pending
         /\ Coming(d)' = Cat(Coming(d), s)
         /\ \A e \in DataDlcs : e # d => Coming(e)' = Coming(e)
<1> DEFINE f == Uih(d, s)
<1>1. toHost' = Append(toHost, f) /\ pipe' = pipe /\ pending' = pending
  BY DEF ToHost
<1>2. f \in Frames /\ f.dlci = d /\ f.info = s
  BY Types DEF Uih
<1> HIDE DEF f
<1>3. RxShape'
  BY <1>1, <1>2 DEF RxShape
<1>4. toHost \in Seq(Frames)
  BY DEF RxShape
<1>5. ASSUME NEW e \in DataDlcs
      PROVE  Coming(e)' = Cat(Coming(e), Own(f, e)) /\ Coming(e) \in Seq(Elements)
  <2> DEFINE a == pipe[e]
             b == Own(pending, e)
             c == Payload(toHost, e)
             g == Own(f, e)
  <2>1. Payload(toHost', e) = Cat(c, g)
    BY <1>1, <1>2, <1>4, Types, PayloadAppend
  <2>2. /\ a \in Seq(Elements) /\ b \in Seq(Elements) /\ c \in Seq(Elements)
        /\ Coming(e) \in Seq(Elements)
    BY ComingIs
  <2>3. g \in Seq(Elements)
    BY <1>2 DEF Own
  <2>4. Coming(e) = Cat(a, Cat(b, c)) /\ Coming(e)' = Cat(a, Cat(b, Cat(c, g)))
    BY <1>1, <1>3, <2>1, ComingIs, ComingSoon DEF Parts
  <2> HIDE DEF a, b, c, g
  <2>5. Cat(a, Cat(b, Cat(c, g))) = Cat(Cat(a, Cat(b, c)), g)
    BY <2>2, <2>3, CatFour
  <2>6. QED
    BY <2>2, <2>4, <2>5 DEF g
<1>6. Coming(d)' = Cat(Coming(d), s)
  BY <1>2, <1>5 DEF Own
<1>7. ASSUME NEW e \in DataDlcs, e # d PROVE Coming(e)' = Coming(e)
  <2>1. Own(f, e) = <<>>
    BY <1>2, <1>7 DEF Own
  <2>2. QED
    BY <1>5, <2>1, CatLaws
<1>8. QED
  BY <1>1, <1>3, <1>6, <1>7

-----------------------------------------------------------------------------
(* The steps, each with all that it does.                                  *)

KeepRx == UNCHANGED <<toHost, pipe, pending>>
KeepPpp == UNCHANGED <<ppp, held>>
KeepNet == UNCHANGED <<buf, pos, lastOut, exited>>
KeepStatus == UNCHANGED <<status, acc, dropped, nsent, robbed>>
KeepModem == UNCHANGED <<dlc2, pppSent, garbled>>
KeepCounts == UNCHANGED <<faults, lost>>

\* start_ppp().
Calls ==
  /\ ppp = "call" /\ ppp' = "reply" /\ held' = held
  /\ KeepRx /\ KeepNet /\ KeepStatus /\ KeepModem /\ UNCHANGED out /\ KeepCounts
ReadsMore(k) ==
  /\ ppp = "reply" /\ ppp' = ppp /\ ~Ppp!HasLine
  /\ Takes(2, k) /\ held' = held \o SubSeq(pipe[2], 1, k)
  /\ KeepNet /\ KeepStatus /\ KeepModem /\ UNCHANGED out /\ KeepCounts
ReadsLine ==
  /\ ppp = "reply" /\ Ppp!HasLine /\ ppp' = Ppp!verdict
  /\ held' = IF ppp' = "reply" THEN Ppp!after ELSE <<>>
  /\ status' = IF ppp' = "connected" THEN "drain" ELSE status
  /\ KeepRx /\ KeepNet /\ KeepModem
  /\ UNCHANGED <<acc, dropped, nsent, robbed, out>> /\ KeepCounts
ReadsNoText ==
  /\ ppp = "reply" /\ ppp' = "io" /\ Ppp!Unreadable /\ held' = <<>>
  /\ KeepRx /\ KeepNet /\ KeepStatus /\ KeepModem /\ UNCHANGED out /\ KeepCounts
GivesUp ==
  /\ ppp = "reply" /\ ppp' = "timeout" /\ ~Ppp!HasLine /\ pipe[2] = <<>> /\ held' = <<>>
  /\ \/ faults' = faults /\ (~ConnectComing \/ Blocked(1))
     \/ faults' = faults + 1
  /\ KeepRx /\ KeepNet /\ KeepStatus /\ KeepModem /\ UNCHANGED <<out, lost>>

\* ppp_task.
Fills(k) ==
  /\ ppp = "connected" /\ pos >= Len(buf)
  /\ Takes(2, k) /\ k <= BUF /\ buf' = SubSeq(pipe[2], 1, k) /\ pos' = 0
  /\ UNCHANGED <<lastOut, exited>>
  /\ KeepPpp /\ KeepStatus /\ KeepModem /\ UNCHANGED out /\ KeepCounts
ReadsPast(k) ==
  /\ ppp = "connected" /\ pos >= Len(buf)
  /\ Takes(2, k) /\ lastOut' = pipe[2][k]
  /\ UNCHANGED <<buf, pos, exited>>
  /\ KeepPpp /\ KeepStatus /\ KeepModem /\ UNCHANGED out /\ KeepCounts
Consumes(n) ==
  /\ ppp = "connected" /\ n \in 1 .. Len(buf) - pos
  /\ pos' = pos + n /\ lastOut' = buf[pos + n]
  /\ UNCHANGED <<buf, exited>>
  /\ KeepRx /\ KeepPpp /\ KeepStatus /\ KeepModem /\ UNCHANGED out /\ KeepCounts
Exits ==
  /\ ppp = "connected" /\ exited' = TRUE /\ UNCHANGED <<buf, pos, lastOut>>
  /\ KeepRx /\ KeepPpp /\ KeepStatus /\ KeepModem /\ UNCHANGED out /\ KeepCounts

\* status_task.
Drains(k) ==
  /\ status = "drain" /\ Takes(1, k)
  /\ KeepPpp /\ KeepNet /\ KeepStatus /\ KeepModem /\ UNCHANGED out /\ KeepCounts
Drained ==
  /\ status = "drain" /\ status' = "pause"
  /\ KeepRx /\ KeepPpp /\ KeepNet /\ KeepModem
  /\ UNCHANGED <<acc, dropped, nsent, robbed, out>> /\ KeepCounts
Polls ==
  /\ status = "pause" /\ status' = "poll"
  /\ nsent' = (nsent + 1) % Numbering /\ out' = Append(out, nsent')
  /\ acc' = <<>> /\ dropped' = FALSE /\ robbed' = FALSE
  /\ KeepRx /\ KeepPpp /\ KeepNet /\ KeepModem /\ KeepCounts
PollReads(k) ==
  /\ status = "poll" /\ Takes(1, k)
  /\ \/ /\ Len(acc) + k <= ACC /\ dropped' = dropped
        /\ acc' = acc \o SubSeq(pipe[1], 1, k)
     \/ acc' = acc /\ dropped' = TRUE
  /\ status' = IF Status!Ends(acc') THEN "pause" ELSE "poll"
  /\ KeepPpp /\ KeepNet /\ KeepModem /\ UNCHANGED <<nsent, robbed, out>> /\ KeepCounts
PollFails ==
  /\ status = "poll" /\ status' = "pause"
  /\ \/ faults' = faults /\ (~AnswerComing \/ (exited /\ Blocked(2)))
     \/ faults' = faults + 1
  /\ KeepRx /\ KeepPpp /\ KeepNet /\ KeepModem
  /\ UNCHANGED <<acc, dropped, nsent, robbed, out, lost>>

\* The dispatcher, and the modem.
Dispatches ==
  /\ Rx!ToPipe \/ Rx!WritePipe
  /\ KeepPpp /\ KeepNet /\ KeepStatus /\ KeepModem /\ UNCHANGED out /\ KeepCounts
ModemSends(d, lines) ==
  /\ ToHost(d, lines) /\ KeepPpp /\ KeepNet /\ KeepStatus /\ KeepCounts
PppBytes(n) == [i \in 1 .. n |-> Byte(pppSent + i)]
Speaks ==
  /\ ppp # "call" /\ UNCHANGED <<out, pppSent>>
  /\ \/ /\ dlc2 = "at" /\ dlc2' = "said"
        /\ \E t \in {"RING", "noise"} :
             ModemSends(2, <<Text(t), Ppp!LF>>) /\ garbled' = (t = "noise")
     \/ /\ dlc2 \in {"at", "said"} /\ garbled' = garbled
        /\ \/ ModemSends(2, <<Text("CONNECT"), Ppp!LF>>) /\ dlc2' = "data"
           \/ ModemSends(2, <<Text("ERROR"), Ppp!LF>>) /\ dlc2' = "refused"
Streams(n) ==
  /\ dlc2 = "data" /\ UNCHANGED <<dlc2, garbled>> /\ n \in Nat \ {0}
  /\ ModemSends(2, PppBytes(n)) /\ pppSent' = pppSent + n /\ out' = out
Answers ==
  /\ out # <<>> /\ out' = Tail(out) /\ KeepModem
  /\ \/ ModemSends(1, <<Answer("+CSQ:", Head(out)), Answer("OK", Head(out))>>)
     \/ ModemSends(1, <<Answer("+CME ERROR", Head(out))>>)
Chatters ==
  /\ \E t \in {"RDY", "noise"} : ModemSends(1, <<Text(t), Text("RDY")>>)
  /\ KeepModem /\ out' = out

\* The line.
Loses ==
  /\ KeepPpp /\ KeepNet /\ UNCHANGED <<status, acc, dropped, nsent, pipe, pending>>
  /\ UNCHANGED <<pppSent, garbled, faults>> /\ lost' = lost + 1
LosesFrame ==
  /\ Loses /\ toHost # <<>> /\ toHost' = Tail(toHost) /\ UNCHANGED <<out, dlc2>>
  /\ robbed' = (robbed \/ \E i \in DOMAIN Head(toHost).info :
                            Ending(Head(toHost).info[i], nsent))
LosesCommand ==
  /\ Loses /\ out # <<>> /\ out' = Front(out) /\ UNCHANGED <<toHost, dlc2>>
  /\ robbed' = (robbed \/ Last(out) = nsent)
LosesCgdata ==
  /\ Loses /\ ppp # "call" /\ dlc2 \in {"at", "said"} /\ dlc2' = "unasked"
  /\ UNCHANGED <<toHost, out, robbed>>

Stays ==
  KeepRx /\ KeepPpp /\ KeepNet /\ KeepStatus /\ KeepModem /\ UNCHANGED out /\ KeepCounts

PppSteps ==
  Calls \/ (\E k \in Nat : ReadsMore(k)) \/ ReadsLine \/ ReadsNoText \/ GivesUp
NetSteps ==
  (\E k \in Nat : Fills(k) \/ ReadsPast(k)) \/ (\E n \in Nat : Consumes(n)) \/ Exits
StatusSteps ==
  (\E k \in Nat : Drains(k) \/ PollReads(k)) \/ Drained \/ Polls \/ PollFails
ModemSteps == Speaks \/ (\E n \in Nat : Streams(n)) \/ Answers \/ Chatters
LossSteps == LosesFrame \/ LosesCommand \/ LosesCgdata

LEMMA SameCut ==
  ASSUME NEW T, NEW s \in Seq(T), NEW j \in 1 .. Len(s), NEW k \in 1 .. Len(s),
         SubSeq(s, j + 1, Len(s)) = SubSeq(s, k + 1, Len(s))
  PROVE  j = k
<1>1. /\ Len(SubSeq(s, j + 1, Len(s))) = Len(s) - j
      /\ Len(SubSeq(s, k + 1, Len(s))) = Len(s) - k
  OBVIOUS
<1>2. QED
  BY <1>1

\* The adapter and the line reader read what leaves the pipe.
LEMMA TakesWhat ==
  ASSUME RxShape, NEW d \in DataDlcs, NEW j \in 1 .. Len(pipe[d]), Takes(d, j),
         NEW k \in 1 .. Len(pipe[d]), pipe'[d] = SubSeq(pipe[d], k + 1, Len(pipe[d]))
  PROVE  Takes(d, k) /\ k \in Nat
<1>1. pipe[d] \in Seq(Elements)
  BY DEF RxShape
<1>2. pipe'[d] = SubSeq(pipe[d], j + 1, Len(pipe[d]))
  BY TakesShape
<1>3. j = k
  BY <1>1, <1>2, SameCut
<1>4. QED
  BY <1>1, <1>3

LEMMA PppStepIs ==
  ASSUME RxShape, MainStep, Quiet
  PROVE  PppSteps
<1> USE DEF KeepRx, KeepPpp, KeepNet, KeepStatus, KeepModem, KeepCounts, Quiet, rxVars, netVars, modemVars
<1>1. UNCHANGED <<netVars, acc, dropped, nsent, robbed, out, modemVars>>
  BY DEF MainStep
<1>2. CASE UNCHANGED <<rxVars, status>> /\ Ppp!Send
  BY <1>1, <1>2 DEF Ppp!Send, PppSteps, Calls
<1>3. CASE ReadPipe(2) /\ Ppp!Read /\ UNCHANGED status
  <2>1. 2 \in DataDlcs
    BY DEF DataDlcs
  <2>2. PICK j \in 1 .. Len(pipe[2]) : Takes(2, j)
    BY <1>3, ReadPipeTakes
  <2>3. PICK k \in 1 .. Len(pipe[2]) :
          /\ held' = held \o SubSeq(pipe[2], 1, k)
          /\ pipe'[2] = SubSeq(pipe[2], k + 1, Len(pipe[2]))
    BY <1>3 DEF Ppp!Read, Ppp!ReadSome
  <2>4. Takes(2, k) /\ k \in Nat
    BY <2>1, <2>2, <2>3, TakesWhat
  <2>5. ReadsMore(k)
    BY <1>1, <1>3, <2>3, <2>4 DEF Ppp!Read, Ppp!ReadSome, ReadsMore
  <2>6. QED
    BY <2>4, <2>5 DEF PppSteps
<1>4. CASE /\ UNCHANGED rxVars /\ Ppp!ReadLine
           /\ IF ppp' = "connected" THEN Status!Spawn ELSE UNCHANGED status
  BY <1>1, <1>4 DEF Ppp!ReadLine, Status!Spawn, PppSteps, ReadsLine
<1>5. CASE UNCHANGED <<rxVars, status>> /\ Ppp!ReadFails
  BY <1>1, <1>5 DEF Ppp!ReadFails, PppSteps, ReadsNoText
<1>6. QED
  BY <1>2, <1>3, <1>4, <1>5 DEF MainStep

LEMMA NetStepIs ==
  ASSUME RxShape, PppTask \/ PppExits, Quiet
  PROVE  NetSteps
<1> USE DEF KeepRx, KeepPpp, KeepNet, KeepStatus, KeepModem, KeepCounts, Quiet,
            rxVars, pppVars, netVars, statusVars, modemVars
<1>1. CASE PppExits
  BY <1>1 DEF PppExits, NetSteps, Exits
<1>2. CASE PppTask
  <2>0. /\ ppp = "connected"
        /\ UNCHANGED <<pppVars, exited, statusVars, out, modemVars>>
    BY <1>2 DEF PppTask
  <2>1. CASE UNCHANGED rxVars /\ \E amt \in 1 .. Len(buf) : Net!consume(amt)
    <3>1. PICK amt \in 1 .. Len(buf) : Net!consume(amt)
      BY <2>1
    <3>2. Consumes(amt) /\ amt \in Nat
      BY <2>0, <2>1, <3>1 DEF Net!consume, Consumes
    <3>3. QED
      BY <3>2 DEF NetSteps
  <2>2. CASE ReadPipe(2) /\ (Net!fill_buf \/ Net!read)
    <3>1. 2 \in DataDlcs
      BY DEF DataDlcs
    <3>2. PICK j \in 1 .. Len(pipe[2]) : Takes(2, j)
      BY <2>2, ReadPipeTakes
    <3>3. CASE Net!fill_buf
      <4>1. PICK k \in 1 .. Len(pipe[2]) :
              /\ k <= BUF /\ buf' = SubSeq(pipe[2], 1, k)
              /\ pipe'[2] = SubSeq(pipe[2], k + 1, Len(pipe[2]))
        BY <3>3 DEF Net!fill_buf
      <4>2. Takes(2, k) /\ k \in Nat
        BY <3>1, <3>2, <4>1, TakesWhat
      <4>3. Fills(k)
        BY <2>0, <3>3, <4>1, <4>2 DEF Net!fill_buf, Fills
      <4>4. QED
        BY <4>2, <4>3 DEF NetSteps
    <3>4. CASE Net!read
      <4>1. PICK k \in 1 .. Len(pipe[2]) :
              /\ lastOut' = pipe[2][k]
              /\ pipe'[2] = SubSeq(pipe[2], k + 1, Len(pipe[2]))
        BY <3>4 DEF Net!read
      <4>2. Takes(2, k) /\ k \in Nat
        BY <3>1, <3>2, <4>1, TakesWhat
      <4>3. ReadsPast(k)
        BY <2>0, <3>4, <4>1, <4>2 DEF Net!read, ReadsPast
      <4>4. QED
        BY <4>2, <4>3 DEF NetSteps
    <3>5. QED
      BY <2>2, <3>3, <3>4
  <2>3. QED
    BY <1>2, <2>1, <2>2 DEF PppTask
<1>3. QED
  BY <1>1, <1>2

LEMMA StatusStepIs ==
  ASSUME Shape, StatusStep, Quiet
  PROVE  StatusSteps
<1> USE DEF KeepRx, KeepPpp, KeepNet, KeepStatus, KeepModem, KeepCounts, Quiet,
            rxVars, pppVars, netVars, statusVars, modemVars
<1>1. UNCHANGED <<pppVars, netVars, modemVars>>
  BY DEF StatusStep
<1>2. 1 \in DataDlcs /\ RxShape
  BY DEF DataDlcs, Shape
<1>3. CASE ReadPipe(1) /\ Status!DrainSome /\ UNCHANGED robbed
  <2>1. PICK k \in 1 .. Len(pipe[1]) : Takes(1, k)
    BY <1>3, ReadPipeTakes
  <2>2. Drains(k)
    BY <1>1, <1>3, <2>1 DEF Status!DrainSome, Drains
  <2>3. k \in Nat
    BY <1>2, <2>1, TakesShape
  <2>4. QED
    BY <2>2, <2>3 DEF StatusSteps
<1>4. CASE ReadPipe(1) /\ Status!PollRead /\ UNCHANGED robbed
  <2>1. PICK j \in 1 .. Len(pipe[1]) : Takes(1, j)
    BY <1>4, ReadPipeTakes
  <2>2. PICK k \in 1 .. Len(pipe[1]) :
          /\ pipe'[1] = SubSeq(pipe[1], k + 1, Len(pipe[1]))
          /\ acc' = IF Len(acc) + k <= ACC THEN acc \o SubSeq(pipe[1], 1, k) ELSE acc
          /\ dropped' = (dropped \/ ~(Len(acc) + k <= ACC))
    BY <1>4 DEF Status!PollRead
  <2>3. Takes(1, k) /\ k \in Nat
    BY <1>2, <2>1, <2>2, TakesWhat
  <2>4. /\ status = "poll" /\ UNCHANGED <<nsent, robbed, out>>
        /\ status' = IF Status!Ends(acc') THEN "pause" ELSE "poll"
    BY <1>4 DEF Status!PollRead
  <2>5. \/ /\ Len(acc) + k <= ACC /\ dropped' = dropped
           /\ acc' = acc \o SubSeq(pipe[1], 1, k)
        \/ acc' = acc /\ dropped' = TRUE
    <3>1. dropped \in BOOLEAN
      BY DEF Shape, StatusShape
    <3>2. CASE Len(acc) + k <= ACC
      BY <2>2, <3>1, <3>2
    <3>3. CASE ~(Len(acc) + k <= ACC)
      BY <2>2, <3>1, <3>3
    <3>4. QED
      BY <3>2, <3>3
  <2>6. PollReads(k)
    BY <1>1, <2>3, <2>4, <2>5 DEF PollReads
  <2>7. QED
    BY <2>3, <2>6 DEF StatusSteps
<1>5. CASE UNCHANGED <<rxVars, robbed>> /\ Status!DrainEnds
  BY <1>1, <1>5 DEF Status!DrainEnds, StatusSteps, Drained
<1>6. CASE UNCHANGED rxVars /\ Status!Poll /\ robbed' = FALSE
  BY <1>1, <1>6 DEF Status!Poll, StatusSteps, Polls
<1>7. QED
  BY <1>3, <1>4, <1>5, <1>6 DEF StatusStep

\* A timer expires: for nothing to come, behind a blocked dispatcher, or early.
LEMMA TimerIs ==
  ASSUME HostTimers \/ Fault
  PROVE  GivesUp \/ PollFails
<1> USE DEF KeepRx, KeepPpp, KeepNet, KeepStatus, KeepModem, KeepCounts, Quiet,
            rxVars, pppVars, netVars, statusVars, modemVars
<1>1. ASSUME PppTimeout,
             \/ faults' = faults /\ (~ConnectComing \/ Blocked(1))
             \/ faults' = faults + 1,
             lost' = lost
      PROVE  GivesUp
  BY <1>1 DEF PppTimeout, Ppp!Timeout, Ppp!Cancel, GivesUp
<1>2. ASSUME StatusDeadline,
             \/ faults' = faults /\ (~AnswerComing \/ (exited /\ Blocked(2)))
             \/ faults' = faults + 1,
             lost' = lost
      PROVE  PollFails
  BY <1>2 DEF StatusDeadline, Status!Deadline, PollFails
<1>3. QED
  BY <1>1, <1>2 DEF HostTimers, Fault

LEMMA MinIs ==
  ASSUME NEW a \in Nat \ {0}, NEW b \in Nat \ {0}
  PROVE  Min({a, b}) \in {a, b}
<1>1. \E x \in {a, b} : \A y \in {a, b} : x <= y
  OBVIOUS
<1>2. QED
  BY <1>1 DEF Min

LEMMA ModemStepIs ==
  ASSUME Shape, ModemStep, Quiet
  PROVE  ModemSteps
<1> USE DEF KeepRx, KeepPpp, KeepNet, KeepStatus, KeepModem, KeepCounts, Quiet, ModemSends,
            rxVars, pppVars, netVars, statusVars, modemVars
<1>1. CASE AnswerCgdata
  BY <1>1 DEF AnswerCgdata, ToHost, ModemSteps, Speaks
<1>2. CASE SendPpp
  <2> DEFINE n == Min({MAX_INFO_LEN, MaxPpp - pppSent})
  <2>1. n \in Nat \ {0}
    <3>1. MaxPpp - pppSent \in Nat \ {0}
      BY <1>2, Constants DEF SendPpp, Shape, ModemShape
    <3>2. QED
      BY <3>1, Constants, MinIs
  <2>2. /\ dlc2 = "data" /\ ToHost(2, PppBytes(n)) /\ pppSent' = pppSent + n
        /\ UNCHANGED <<out, dlc2, garbled>>
    BY <1>2 DEF SendPpp, PppBytes
  <2> HIDE DEF n
  <2>3. Streams(n)
    BY <2>1, <2>2 DEF ToHost, Streams
  <2>4. QED
    BY <2>1, <2>3 DEF ModemSteps
<1>3. CASE AnswerStatus
  BY <1>3 DEF AnswerStatus, ToHost, ModemSteps, Answers
<1>4. CASE SendUrc
  BY <1>4 DEF SendUrc, ToHost, ModemSteps, Chatters
<1>5. QED
  BY <1>1, <1>2, <1>3, <1>4 DEF ModemStep

LEMMA LossIs ==
  ASSUME Lose
  PROVE  LossSteps
<1>1. Loses
  BY DEF Lose, Loses, KeepPpp, KeepNet, pppVars, netVars
<1>2. QED
  BY <1>1 DEF Lose, LoseToHost, LoseCommand, LoseCgdata,
              LossSteps, LosesFrame, LosesCommand, LosesCgdata

LEMMA StepIs ==
  ASSUME Shape, [Next]_vars
  PROVE  \/ PppSteps \/ NetSteps \/ StatusSteps \/ Dispatches \/ ModemSteps
         \/ LossSteps \/ Stays
<1>0. RxShape
  BY DEF Shape
<1>1. CASE UNCHANGED vars
  BY <1>1 DEF vars, rxVars, pppVars, netVars, statusVars, modemVars,
              Stays, KeepRx, KeepPpp, KeepNet, KeepStatus, KeepModem, KeepCounts, Quiet
<1>2. CASE HostTimers \/ Fault
  BY <1>2, TimerIs DEF PppSteps, StatusSteps
<1>3. CASE RxStep /\ Quiet
  BY <1>3 DEF RxStep, Dispatches, pppVars, netVars, statusVars, modemVars,
              KeepPpp, KeepNet, KeepStatus, KeepModem, KeepCounts, Quiet
<1>4. QED
  BY <1>0, <1>1, <1>2, <1>3, PppStepIs, NetStepIs, StatusStepIs, ModemStepIs, LossIs
  DEF Next, Host

-----------------------------------------------------------------------------
(* What start_ppp() waits for.                                             *)

\* The body of a line, other than PPP.
Body(e) == e.text \in {"RING", "noise", "CONNECT", "ERROR"}

\* PPP bytes, and lines with their ends.
Paired(w) ==
  \A i \in 1 .. Len(w) :
    /\ w[i] = Ppp!LF \/ w[i].text = "ppp" \/ Body(w[i])
    /\ Body(w[i]) => i + 1 <= Len(w) /\ w[i + 1] = Ppp!LF
    /\ w[i] = Ppp!LF => i > 1 /\ Body(w[i - 1])

\* Nothing but PPP after the first byte of PPP, nor after a result.
Ordered(w) ==
  \A i, j \in 1 .. Len(w) :
    /\ w[i].text = "ppp" /\ i < j => w[j].text = "ppp"
    /\ w[i].text \in {"CONNECT", "ERROR"} /\ i + 1 < j => w[j].text = "ppp"

\* What can be on its way, by what the modem (m, g) has said.
Tied(m, g, w) ==
  \A i \in 1 .. Len(w) :
    /\ w[i].text \in {"CONNECT", "ppp"} => m = "data"
    /\ w[i].text = "ERROR" => m = "refused"
    /\ w[i].text = "noise" => g = TRUE

\* What start_ppp() has not got through of what the modem has sent.
Waiting(m, g, w) == Paired(w) /\ Ordered(w) /\ Tied(m, g, w)

\* Where the line has lost nothing, the result is in it.
Mentioned(w, t) == \E i \in 1 .. Len(w) : w[i].text = t
Arrives(m, w) ==
  /\ m = "data" => Mentioned(w, "CONNECT")
  /\ m = "refused" => Mentioned(w, "ERROR")
  /\ m # "unasked"

AllPpp(s) == \A i \in 1 .. Len(s) : s[i].text = "ppp"

PppInv ==
  /\ lastOut.text = "ppp"
  /\ ppp # "connected" => buf = <<>> /\ pos = 0
  /\ ppp = "call" => dlc2 = "at" /\ held = <<>> /\ Coming(2) = <<>>
  /\ ppp = "reply" =>
       /\ Waiting(dlc2, garbled, Cat(held, Coming(2)))
       /\ lost = 0 => Arrives(dlc2, Cat(held, Coming(2)))
  /\ ppp = "connected" =>
       dlc2 = "data" /\ held = <<>> /\ AllPpp(buf) /\ AllPpp(Coming(2))
  /\ ppp \in {"timeout", "failed", "io"} => held = <<>>
  /\ dlc2 = "at" => garbled = FALSE
  /\ StartPppIsExplained

LEMMA LfText == Ppp!LF.text = "LF"
  BY DEF Ppp!LF, Ppp!Line

\* read_line() returns the body without its end, and keeps what follows.
LEMMA LineIs ==
  ASSUME NEW c \in Seq(Elements), held \in Seq(Elements),
         Paired(Cat(held, c)), Ordered(Cat(held, c)), Ppp!HasLine
  PROVE  /\ Len(held) >= 2 /\ Ppp!line = held[1] /\ Body(held[1]) /\ held[2] = Ppp!LF
         /\ Ppp!after = SubSeq(held, 3, Len(held))
<1> DEFINE w == Cat(held, c)
<1>1. PICK i \in 1 .. Len(held) : held[i] = Ppp!LF
  BY DEF Ppp!HasLine, Ppp!ToSet
<1>2. w \in Seq(Elements) /\ Len(held) <= Len(w) /\ \A j \in 1 .. Len(held) : w[j] = held[j]
  BY DEF Cat
<1>3. Paired(w) /\ Ordered(w)
  OBVIOUS
<1> HIDE DEF w
<1>4. 1 \in 1 .. Len(w) /\ i \in 1 .. Len(w) /\ w[i] = Ppp!LF /\ w[1] = held[1]
  BY <1>1, <1>2
<1>5. w[1] # Ppp!LF /\ i > 1
  BY <1>3, <1>4 DEF Paired
<1>6. Body(w[1])
  <2>1. w[1].text = "ppp" => w[i].text = "ppp"
    BY <1>3, <1>4, <1>5 DEF Ordered
  <2>2. QED
    BY <1>3, <1>4, <1>5, <2>1, LfText DEF Paired
<1>7. Len(held) >= 2 /\ held[2] = Ppp!LF /\ held[1] # Ppp!LF /\ Body(held[1])
  <2>1. w[1 + 1] = Ppp!LF
    BY <1>3, <1>4, <1>6 DEF Paired
  <2>2. QED
    BY <1>1, <1>2, <1>4, <1>5, <1>6, <2>1
<1>8. Ppp!line = held[1]
  BY <1>7 DEF Ppp!line
<1> DEFINE I == {j \in 1 .. Len(held) : held[j] = Ppp!LF}
<1>9. 2 \in I /\ \A j \in I : 2 <= j
  BY <1>7
<1>10. Ppp!Min(I) = 2
  <2>1. \A j \in I : j \in Int
    OBVIOUS
  <2> HIDE DEF I
  <2>2. QED
    BY <1>9, <2>1 DEF Ppp!Min
<1>11. Ppp!after = SubSeq(held, 3, Len(held))
  <2>1. {j \in DOMAIN held : held[j] = Ppp!LF} = I
    OBVIOUS
  <2> HIDE DEF I
  <2>2. Ppp!after = SubSeq(held, Ppp!Min(I) + 1, Len(held))
    BY <2>1, Zenon DEF Ppp!after
  <2>3. 2 + 1 = 3
    OBVIOUS
  <2>4. QED
    BY <1>10, <2>2, <2>3, Zenon
<1>12. QED
  BY <1>7, <1>8, <1>11

-----------------------------------------------------------------------------
(* Every step keeps the shape.                                             *)

LEMMA ModRange ==
  ASSUME NEW a \in Nat, NEW n \in Nat \ {0}
  PROVE  a % n \in 0 .. n - 1
  OBVIOUS

LEMMA ShapeKept ==
  ASSUME Shape
  PROVE  /\ KeepRx => RxShape'
         /\ KeepPpp => PppShape'
         /\ KeepNet => NetShape'
         /\ KeepStatus /\ (ppp' = "connected" <=> ppp = "connected") => StatusShape'
         /\ KeepModem /\ UNCHANGED out /\ faults' \in Nat /\ lost' \in Nat => ModemShape'
<1> USE DEF Shape
<1>1. KeepRx => RxShape'
  BY DEF KeepRx, RxShape
<1>2. KeepPpp => PppShape'
  BY DEF KeepPpp, PppShape
<1>3. KeepNet => NetShape'
  BY DEF KeepNet, NetShape
<1>4. KeepStatus /\ (ppp' = "connected" <=> ppp = "connected") => StatusShape'
  BY DEF KeepStatus, StatusShape
<1>5. KeepModem /\ UNCHANGED out /\ faults' \in Nat /\ lost' \in Nat => ModemShape'
  BY DEF KeepModem, ModemShape
<1>6. QED
  BY <1>1, <1>2, <1>3, <1>4, <1>5

LEMMA PppShapeStep ==
  ASSUME Shape, PppInv, PppSteps
  PROVE  Shape'
<1>0. faults \in Nat /\ faults' \in Nat /\ lost' \in Nat
  <2>1. faults \in Nat /\ lost \in Nat
    BY DEF Shape, ModemShape
  <2>2. (faults' = faults \/ faults' = faults + 1) /\ lost' = lost
    BY DEF PppSteps, Calls, ReadsMore, ReadsLine, ReadsNoText, GivesUp, KeepCounts
  <2>3. QED
    BY <2>1, <2>2
<1>1. CASE Calls
  <2>1. PppShape'
    BY <1>1 DEF Calls, Shape, PppShape
  <2>2. QED
    BY <1>0, <1>1, <2>1, ShapeKept DEF Calls, Shape
<1>2. CASE \E k \in Nat : ReadsMore(k)
  <2>1. PICK k \in Nat : ReadsMore(k)
    BY <1>2
  <2>2. 2 \in DataDlcs /\ RxShape /\ Takes(2, k)
    BY <2>1 DEF DataDlcs, Shape, ReadsMore
  <2>3. RxShape' /\ SubSeq(pipe[2], 1, k) \in Seq(Elements)
    BY <2>2, TakesShape
  <2>4. PppShape'
    BY <2>1, <2>3 DEF ReadsMore, Shape, PppShape
  <2>5. QED
    BY <1>0, <2>1, <2>3, <2>4, ShapeKept DEF ReadsMore, Shape
<1>3. CASE ReadsLine
  <2>1. held \in Seq(Elements) /\ RxShape /\ Coming(2) \in Seq(Elements)
    <3>1. 2 \in DataDlcs
      BY DEF DataDlcs
    <3>2. QED
      BY <3>1, ComingIs DEF Shape, PppShape
  <2>2. Paired(Cat(held, Coming(2))) /\ Ordered(Cat(held, Coming(2))) /\ Ppp!HasLine
    BY <1>3 DEF ReadsLine, PppInv, Waiting
  <2>3. Ppp!after = SubSeq(held, 3, Len(held))
    BY <2>1, <2>2, LineIs
  <2>4. Ppp!after \in Seq(Elements)
    BY <2>1, <2>3
  <2>5. ppp' \in {"connected", "failed", "reply"}
    BY <1>3 DEF ReadsLine, Ppp!verdict
  <2>6. PppShape'
    BY <1>3, <2>4, <2>5 DEF ReadsLine, PppShape
  <2>7. StatusShape'
    <3>1. status = "off"
      BY <1>3 DEF ReadsLine, Shape, StatusShape
    <3>2. QED
      BY <1>3, <2>5, <3>1 DEF ReadsLine, Shape, StatusShape
  <2>8. QED
    BY <1>0, <1>3, <2>6, <2>7, ShapeKept DEF ReadsLine, Shape
<1>4. CASE ReadsNoText \/ GivesUp
  <2>1. PppShape'
    <3>1. ppp' \in {"io", "timeout"} /\ held' = <<>>
      BY <1>4 DEF ReadsNoText, GivesUp
    <3>2. QED
      BY <3>1 DEF PppShape
  <2>2. QED
    BY <1>0, <1>4, <2>1, ShapeKept DEF ReadsNoText, GivesUp, Shape
<1>5. QED
  BY <1>1, <1>2, <1>3, <1>4 DEF PppSteps

LEMMA NetShapeStep ==
  ASSUME Shape, NetSteps
  PROVE  Shape'
<1>0. /\ ppp' = ppp /\ KeepPpp /\ KeepStatus /\ KeepModem /\ UNCHANGED <<out, faults, lost>>
  BY DEF NetSteps, Fills, ReadsPast, Consumes, Exits, KeepPpp, KeepCounts
<1>1. PppShape' /\ StatusShape' /\ ModemShape'
  BY <1>0, ShapeKept DEF Shape, ModemShape
<1>2. 2 \in DataDlcs /\ RxShape
  BY DEF DataDlcs, Shape
<1>3. CASE \E k \in Nat : Fills(k) \/ ReadsPast(k)
  <2>1. PICK k \in Nat : Fills(k) \/ ReadsPast(k)
    BY <1>3
  <2>2. Takes(2, k)
    BY <2>1 DEF Fills, ReadsPast
  <2> DEFINE u == SubSeq(pipe[2], 1, k)
  <2>3. RxShape' /\ u \in Seq(Elements) /\ Len(u) = k
    BY <1>2, <2>2, TakesShape
  <2>4. pipe[2][k] \in Elements
    BY <1>2, <2>2 DEF RxShape, Takes
  <2> HIDE DEF u
  <2>5. NetShape'
    <3>1. CASE Fills(k)
      <4>1. buf' = u /\ k <= BUF /\ pos' = 0 /\ UNCHANGED <<lastOut, exited>>
        BY <3>1 DEF Fills, u
      <4>2. QED
        BY <2>3, <4>1 DEF Shape, NetShape
    <3>2. CASE ReadsPast(k)
      BY <2>4, <3>2 DEF ReadsPast, Shape, NetShape
    <3>3. QED
      BY <2>1, <3>1, <3>2
  <2>6. QED
    BY <1>1, <2>3, <2>5 DEF Shape
<1>4. CASE \E n \in Nat : Consumes(n)
  <2>1. PICK n \in Nat : Consumes(n)
    BY <1>4
  <2>2. NetShape
    BY DEF Shape
  <2>3. pos + n \in 1 .. Len(buf) /\ pos + n \in 0 .. Len(buf)
    BY <2>1, <2>2 DEF Consumes, NetShape
  <2>4. buf[pos + n] \in Elements
    BY <2>2, <2>3 DEF NetShape
  <2>5. NetShape'
    BY <2>1, <2>2, <2>3, <2>4 DEF Consumes, NetShape
  <2>6. QED
    BY <1>1, <2>1, <2>5, ShapeKept DEF Consumes, Shape
<1>5. CASE Exits
  <2>1. NetShape'
    BY <1>5 DEF Exits, Shape, NetShape
  <2>2. QED
    BY <1>1, <1>5, <2>1, ShapeKept DEF Exits, Shape
<1>6. QED
  BY <1>3, <1>4, <1>5 DEF NetSteps

LEMMA StatusShapeStep ==
  ASSUME Shape, StatusSteps
  PROVE  Shape'
<1>0. /\ ppp' = ppp /\ KeepPpp /\ KeepNet /\ KeepModem
      /\ status # "off" /\ ppp = "connected"
      /\ faults' = faults \/ faults' = faults + 1
      /\ lost' = lost
  BY DEF StatusSteps, Drains, PollReads, Drained, Polls, PollFails, KeepPpp, KeepCounts,
         Shape, StatusShape
<1>1. faults' \in Nat /\ lost' \in Nat
  <2>1. faults \in Nat /\ lost \in Nat
    BY DEF Shape, ModemShape
  <2>2. QED
    BY <1>0, <2>1
<1>2. PppShape' /\ NetShape'
  BY <1>0, ShapeKept DEF Shape
<1>3. 1 \in DataDlcs /\ RxShape
  BY DEF DataDlcs, Shape
<1>4. CASE \E k \in Nat : Drains(k)
  <2>1. PICK k \in Nat : Drains(k)
    BY <1>4
  <2>2. RxShape'
    BY <1>3, <2>1, TakesShape DEF Drains
  <2>3. QED
    BY <1>0, <1>1, <1>2, <2>1, <2>2, ShapeKept DEF Drains, Shape
<1>5. CASE \E k \in Nat : PollReads(k)
  <2>1. PICK k \in Nat : PollReads(k)
    BY <1>5
  <2>2. /\ RxShape' /\ SubSeq(pipe[1], 1, k) \in Seq(Elements)
        /\ Len(SubSeq(pipe[1], 1, k)) = k
    BY <1>3, <2>1, TakesShape DEF PollReads
  <2>3. /\ acc \in Seq(Elements) /\ Len(acc) <= ACC /\ dropped \in BOOLEAN
        /\ robbed' \in BOOLEAN /\ nsent \in Numberings
    BY <2>1 DEF PollReads, Shape, StatusShape
  <2>4. acc' \in Seq(Elements) /\ Len(acc') <= ACC /\ dropped' \in BOOLEAN
    <3>1. CASE acc' = acc /\ dropped' = TRUE
      BY <2>3, <3>1
    <3>2. CASE /\ Len(acc) + k <= ACC /\ dropped' = dropped
               /\ acc' = acc \o SubSeq(pipe[1], 1, k)
      BY <2>2, <2>3, <3>2
    <3>3. QED
      BY <2>1, <3>1, <3>2 DEF PollReads
  <2>5. status' \in {"pause", "poll"} /\ nsent' = nsent
    BY <2>1 DEF PollReads
  <2>6. StatusShape'
    BY <1>0, <2>3, <2>4, <2>5 DEF StatusShape
  <2>7. ModemShape'
    BY <1>0, <1>1, <2>1, ShapeKept DEF PollReads
  <2>8. QED
    BY <1>2, <2>2, <2>6, <2>7 DEF Shape
<1>6. CASE Drained \/ PollFails
  <2>1. StatusShape'
    BY <1>0, <1>6 DEF Drained, PollFails, Shape, StatusShape
  <2>2. QED
    BY <1>0, <1>1, <1>2, <1>6, <2>1, ShapeKept DEF Drained, PollFails, Shape
<1>7. CASE Polls
  <2>1. nsent' \in Numberings
    <3>1. nsent + 1 \in Nat
      BY Constants DEF Shape, StatusShape, Numberings
    <3>2. QED
      BY <1>7, <3>1, Constants, ModRange DEF Polls, Numberings
  <2>2. StatusShape'
    <3>1. <<>> \in Seq(Elements) /\ Len(<<>>) <= ACC
      BY Constants
    <3>2. QED
      BY <1>0, <1>7, <2>1, <3>1 DEF Polls, StatusShape
  <2>3. out' \in Seq(Numberings)
    BY <1>7, <2>1 DEF Polls, Shape, ModemShape
  <2>4. ModemShape'
    BY <1>0, <1>1, <2>3 DEF KeepModem, Shape, ModemShape
  <2>5. QED
    BY <1>2, <1>7, <2>2, <2>4, ShapeKept DEF Polls, Shape
<1>8. QED
  BY <1>4, <1>5, <1>6, <1>7 DEF StatusSteps

\* What the modem sends is made of elements.
LEMMA Sent ==
  ASSUME Shape
  PROVE  /\ \A t \in {"RING", "noise", "CONNECT", "ERROR"} :
              <<Text(t), Ppp!LF>> \in Seq(Elements)
         /\ \A n \in Nat : PppBytes(n) \in Seq(Elements) /\ AllPpp(PppBytes(n))
         /\ \A t \in {"RDY", "noise"} : <<Text(t), Text("RDY")>> \in Seq(Elements)
         /\ out # <<>> =>
              /\ Head(out) \in Numberings /\ Tail(out) \in Seq(Numberings)
              /\ <<Answer("+CSQ:", Head(out)), Answer("OK", Head(out))>> \in Seq(Elements)
              /\ <<Answer("+CME ERROR", Head(out))>> \in Seq(Elements)
<1>1. ASSUME NEW t \in Texts PROVE Text(t) \in Elements
  BY LineTypes
<1>2. ASSUME NEW t \in {"RING", "noise", "CONNECT", "ERROR"}
      PROVE  <<Text(t), Ppp!LF>> \in Seq(Elements)
  <2>1. Text(t) \in Elements /\ Ppp!LF \in Elements
    BY LineTypes DEF Texts
  <2>2. QED
    BY <2>1
<1>3. ASSUME NEW n \in Nat PROVE PppBytes(n) \in Seq(Elements) /\ AllPpp(PppBytes(n))
  <2>1. pppSent \in Nat
    BY DEF Shape, ModemShape
  <2>2. \A i \in 1 .. n : Byte(pppSent + i) \in Elements
    BY <2>1, LineTypes
  <2>3. PppBytes(n) \in Seq(Elements) /\ Len(PppBytes(n)) = n
    BY <2>2 DEF PppBytes
  <2>4. \A i \in 1 .. n : PppBytes(n)[i].text = "ppp"
    BY DEF PppBytes, Byte, Ppp!Line
  <2>5. QED
    BY <2>3, <2>4 DEF AllPpp
<1>4. ASSUME NEW t \in {"RDY", "noise"} PROVE <<Text(t), Text("RDY")>> \in Seq(Elements)
  <2>1. Text(t) \in Elements /\ Text("RDY") \in Elements
    BY LineTypes DEF Texts
  <2>2. QED
    BY <2>1
<1>5. ASSUME out # <<>>
      PROVE  /\ Head(out) \in Numberings /\ Tail(out) \in Seq(Numberings)
             /\ <<Answer("+CSQ:", Head(out)), Answer("OK", Head(out))>> \in Seq(Elements)
             /\ <<Answer("+CME ERROR", Head(out))>> \in Seq(Elements)
  <2>1. out \in Seq(Numberings)
    BY DEF Shape, ModemShape
  <2>2. Head(out) \in Numberings /\ Tail(out) \in Seq(Numberings)
    BY <1>5, <2>1
  <2>3. Head(out) \in Nat
    BY <2>2, Constants DEF Numberings
  <2> DEFINE a == Answer("+CSQ:", Head(out))
             b == Answer("OK", Head(out))
             c == Answer("+CME ERROR", Head(out))
  <2>4. a \in Elements /\ b \in Elements /\ c \in Elements
    BY <2>3, LineTypes DEF Texts
  <2> HIDE DEF a, b, c
  <2>5. <<a, b>> \in Seq(Elements) /\ <<c>> \in Seq(Elements)
    BY <2>4
  <2>6. QED
    BY <2>2, <2>5 DEF a, b, c
<1>6. QED
  BY <1>2, <1>3, <1>4, <1>5

\* Every step of the modem puts one frame on the line.
LEMMA ModemSendsOne ==
  ASSUME Shape, ModemSteps
  PROVE  \E d \in DataDlcs, s \in Seq(Elements) : ModemSends(d, s)
<1>0. 1 \in DataDlcs /\ 2 \in DataDlcs
  BY DEF DataDlcs
<1>1. CASE Speaks
  BY <1>0, <1>1, Sent DEF Speaks
<1>2. CASE \E n \in Nat : Streams(n)
  BY <1>0, <1>2, Sent DEF Streams
<1>3. CASE Answers
  BY <1>0, <1>3, Sent DEF Answers
<1>4. CASE Chatters
  BY <1>0, <1>4, Sent DEF Chatters
<1>5. QED
  BY <1>1, <1>2, <1>3, <1>4 DEF ModemSteps

LEMMA ModemShapeStep ==
  ASSUME Shape, ModemSteps
  PROVE  Shape'
<1>1. PICK d \in DataDlcs, s \in Seq(Elements) : ModemSends(d, s)
  BY ModemSendsOne
<1>2. RxShape'
  BY <1>1, ToHostComing DEF ModemSends, Shape
<1>3. KeepPpp /\ KeepNet /\ KeepStatus /\ UNCHANGED <<faults, lost>>
  BY <1>1 DEF ModemSends, KeepCounts
<1>4. PppShape' /\ NetShape' /\ StatusShape'
  BY <1>3, ShapeKept DEF KeepPpp, Shape
<1>5. ModemShape
  BY DEF Shape
<1>6. ModemShape'
  <2>1. CASE Speaks
    BY <1>3, <1>5, <2>1 DEF Speaks, ModemShape
  <2>2. CASE \E n \in Nat : Streams(n)
    BY <1>3, <1>5, <2>2 DEF Streams, ModemShape
  <2>3. CASE Answers
    BY <1>3, <1>5, <2>3, Sent DEF Answers, KeepModem, ModemShape
  <2>4. CASE Chatters
    BY <1>3, <1>5, <2>4 DEF Chatters, KeepModem, ModemShape
  <2>5. QED
    BY <2>1, <2>2, <2>3, <2>4 DEF ModemSteps
<1>7. QED
  BY <1>2, <1>4, <1>6 DEF Shape

LEMMA FrontType ==
  ASSUME NEW T, NEW s \in Seq(T), s # <<>>
  PROVE  /\ Front(s) \in Seq(T) /\ Last(s) \in T
         /\ s = Cat(Front(s), Cat(<<Last(s)>>, <<>>))
<1> DEFINE n == Len(s)
<1>1. n \in Nat \ {0} /\ n \in 1 .. n /\ n - 1 \in 0 .. n
  OBVIOUS
<1>2. /\ SubSeq(s, 1, n - 1) \in Seq(T) /\ SubSeq(s, (n - 1) + 1, n) \in Seq(T)
      /\ SubSeq(s, 1, n - 1) \o SubSeq(s, (n - 1) + 1, n) = s
  BY <1>1, CutBack
<1>3. SubSeq(s, (n - 1) + 1, n) = <<s[n]>> /\ s[n] \in T
  <2>1. (n - 1) + 1 = n
    BY <1>1
  <2>2. s[n] \in T
    BY <1>1
  <2>3. Len(SubSeq(s, n, n)) = 1 /\ SubSeq(s, n, n)[1] = s[n] /\ SubSeq(s, n, n) \in Seq(T)
    BY <1>1
  <2>4. SubSeq(s, n, n) = <<s[n]>>
    <3> DEFINE h == SubSeq(s, n, n)
    <3>1. h \in Seq(T) /\ Len(h) = 1 /\ h[1] = s[n]
      BY <2>3
    <3> HIDE DEF h
    <3>2. h # <<>> /\ Len(h) <= 1 /\ Head(h) = h[1]
      BY <3>1
    <3>3. h = <<Head(h)>>
      BY <3>1, <3>2, Singleton
    <3>4. QED
      BY <3>1, <3>2, <3>3 DEF h
  <2>5. QED
    BY <2>1, <2>2, <2>4
<1>4. Front(s) = SubSeq(s, 1, n - 1) /\ Last(s) = s[n]
  BY DEF Front, Last
<1>5. Cat(<<s[n]>>, <<>>) = <<s[n]>>
  BY <1>3 DEF Cat
<1>6. QED
  BY <1>2, <1>3, <1>4, <1>5, Zenon DEF Cat

LEMMA LossShapeStep ==
  ASSUME Shape, LossSteps
  PROVE  Shape'
<1>1. Loses
  BY DEF LossSteps, LosesFrame, LosesCommand, LosesCgdata
<1>2. PppShape' /\ NetShape'
  BY <1>1, ShapeKept DEF Loses, Shape
<1>3. RxShape'
  <2>1. toHost' \in Seq(Frames)
    <3>1. toHost \in Seq(Frames)
      BY DEF Shape, RxShape
    <3>2. toHost' = toHost \/ (toHost # <<>> /\ toHost' = Tail(toHost))
      BY DEF LossSteps, LosesFrame, LosesCommand, LosesCgdata
    <3>3. QED
      BY <3>1, <3>2
  <2>2. QED
    BY <1>1, <2>1 DEF Loses, Shape, RxShape
<1>4. StatusShape'
  <2>1. robbed' \in BOOLEAN
    BY DEF LossSteps, LosesFrame, LosesCommand, LosesCgdata, Shape, StatusShape
  <2>2. QED
    BY <1>1, <2>1 DEF Loses, KeepPpp, Shape, StatusShape
<1>5. ModemShape'
  <2>1. out' \in Seq(Numberings)
    <3>1. out \in Seq(Numberings)
      BY DEF Shape, ModemShape
    <3>2. out' = out \/ (out # <<>> /\ out' = Front(out))
      BY DEF LossSteps, LosesFrame, LosesCommand, LosesCgdata
    <3>3. QED
      BY <3>1, <3>2, FrontType
  <2>2. dlc2' \in {"at", "said", "data", "refused", "unasked"}
    BY DEF LossSteps, LosesFrame, LosesCommand, LosesCgdata, Shape, ModemShape
  <2>3. lost' \in Nat
    BY <1>1 DEF Loses, Shape, ModemShape
  <2>4. QED
    BY <1>1, <2>1, <2>2, <2>3 DEF Loses, Shape, ModemShape
<1>6. QED
  BY <1>2, <1>3, <1>4, <1>5 DEF Shape

LEMMA ShapeStep ==
  ASSUME Shape, PppInv, [Next]_vars
  PROVE  Shape'
<1>1. CASE Dispatches
  <2>1. RxShape'
    BY <1>1, RxMoves DEF Dispatches, Shape
  <2>2. QED
    BY <1>1, <2>1, ShapeKept DEF Dispatches, KeepPpp, KeepCounts, Shape, ModemShape
<1>2. CASE Stays
  BY <1>2, ShapeKept DEF Stays, KeepPpp, KeepCounts, Shape, ModemShape
<1>3. QED
  BY <1>1, <1>2, StepIs, PppShapeStep, NetShapeStep, StatusShapeStep, ModemShapeStep,
     LossShapeStep

-----------------------------------------------------------------------------
(* The invariant of start_ppp() and of the PPP bytes.                      *)

LEMMA PppInvInit == Init => PppInv
<1> SUFFICES ASSUME Init PROVE PppInv
  OBVIOUS
<1>1. /\ lastOut.text = "ppp" /\ ppp = "call" /\ held = <<>> /\ buf = <<>> /\ pos = 0
      /\ dlc2 = "at" /\ garbled = FALSE
  BY DEF Init, Ppp!Init, Net!Init, Byte, Ppp!Line
<1>2. Coming(2) = <<>>
  <2>1. 2 \in DataDlcs /\ RxShape
    BY ShapeInit DEF DataDlcs, Shape
  <2>2. pipe[2] = <<>> /\ toHost = <<>> /\ Own(pending, 2) = <<>>
    BY <2>1 DEF Init, Own, Uih
  <2>3. Payload(toHost, 2) = <<>>
    BY <2>2, PayloadEmpty
  <2>4. Cat(<<>>, <<>>) = <<>>
    BY DEF Cat
  <2>5. QED
    BY <2>1, <2>2, <2>3, <2>4, ComingIs DEF Parts
<1>3. QED
  BY <1>1, <1>2 DEF PppInv, StartPppIsExplained

\* StartPppIsExplained is kept by what changes neither start_ppp() nor the modem.
LEMMA ExplainedKept ==
  ASSUME Shape, PppInv, UNCHANGED <<ppp, dlc2, garbled>>,
         faults' = faults \/ faults' = faults + 1, lost' = lost \/ lost' = lost + 1,
         Len(pipe[1]) = DLC1_PIPE_BYTES => pipe'[1] = pipe[1]
  PROVE  StartPppIsExplained'
<1>1. faults \in Nat /\ lost \in Nat
  BY DEF Shape, ModemShape
<1> DEFINE f == faults'
           l == lost'
<1>2. (f = faults \/ f = faults + 1) /\ (l = lost \/ l = lost + 1)
  OBVIOUS
<1>3. /\ ppp = "timeout" => faults + lost > 0 \/ Len(pipe[1]) = DLC1_PIPE_BYTES
      /\ ppp = "io" => garbled \/ lost > 0
      /\ ppp = "connected" => dlc2 = "data"
      /\ ppp = "failed" => dlc2 = "refused"
  BY DEF PppInv, StartPppIsExplained
<1> HIDE DEF f, l
<1>4. (faults + lost > 0 => f + l > 0) /\ (lost > 0 => l > 0)
  BY <1>1, <1>2
<1>5. QED
  BY <1>3, <1>4 DEF StartPppIsExplained, f, l

\* A step that changes none of what it speaks of.
LEMMA PppInvKept ==
  ASSUME Shape, PppInv, UNCHANGED <<ppp, held, buf, pos, lastOut>>, UNCHANGED <<dlc2, garbled>>,
         Coming(2)' = Coming(2), faults' = faults \/ faults' = faults + 1,
         lost' = lost \/ lost' = lost + 1,
         Len(pipe[1]) = DLC1_PIPE_BYTES => pipe'[1] = pipe[1]
  PROVE  PppInv'
<1>1. StartPppIsExplained'
  BY ExplainedKept
<1>2. lost' = 0 => lost = 0
  <2>1. lost \in Nat
    BY DEF Shape, ModemShape
  <2>2. lost + 1 # 0
    BY <2>1
  <2>3. QED
    BY <2>2
<1>3. QED
  BY <1>1, <1>2 DEF PppInv, AllPpp

\* The elements of a concatenation.
Joins(a, b, c) ==
  /\ c \in Seq(Elements) /\ Len(c) = Len(a) + Len(b) /\ Len(a) \in Nat /\ Len(b) \in Nat
  /\ \A i \in 1 .. Len(a) : c[i] = a[i]
  /\ \A i \in 1 .. Len(b) : c[Len(a) + i] = b[i]
  /\ \A i \in 1 .. Len(a) + Len(b) : i > Len(a) => c[i] = b[i - Len(a)]

LEMMA JoinIndex == \A a, b \in Seq(Elements) : Joins(a, b, Cat(a, b))
  BY DEF Cat, Joins

\* A concatenation is PPP where its parts are.
LEMMA AllPppCat ==
  ASSUME NEW a \in Seq(Elements), NEW b \in Seq(Elements)
  PROVE  AllPpp(Cat(a, b)) <=> AllPpp(a) /\ AllPpp(b)
<1> DEFINE c == Cat(a, b)
<1>0. Joins(a, b, c)
  BY JoinIndex
<1> HIDE DEF c
<1>1. ASSUME AllPpp(c) PROVE AllPpp(a)
  <2>1. \A i \in 1 .. Len(a) : i \in 1 .. Len(c) /\ c[i] = a[i]
    BY <1>0 DEF Joins
  <2>2. QED
    BY <1>1, <2>1 DEF AllPpp
<1>2. ASSUME AllPpp(c) PROVE AllPpp(b)
  <2>1. \A i \in 1 .. Len(b) : Len(a) + i \in 1 .. Len(c) /\ c[Len(a) + i] = b[i]
    BY <1>0 DEF Joins
  <2>2. QED
    BY <1>2, <2>1 DEF AllPpp
<1>3. ASSUME AllPpp(a), AllPpp(b) PROVE AllPpp(c)
  <2> SUFFICES ASSUME NEW i \in 1 .. Len(c) PROVE c[i].text = "ppp"
    BY DEF AllPpp
  <2>1. /\ i \in 1 .. Len(a) + Len(b) /\ Len(a) \in Nat /\ Len(b) \in Nat
        /\ i \in 1 .. Len(a) => c[i] = a[i]
        /\ i > Len(a) => c[i] = b[i - Len(a)]
    BY <1>0 DEF Joins
  <2>2. i \in 1 .. Len(a) \/ (i > Len(a) /\ i - Len(a) \in 1 .. Len(b))
    BY <2>1
  <2>3. QED
    BY <1>3, <2>1, <2>2 DEF AllPpp
<1>4. QED
  BY <1>1, <1>2, <1>3 DEF c

LEMMA DropTwo ==
  ASSUME NEW s \in Seq(Elements), Len(s) >= 2
  PROVE  /\ SubSeq(s, 3, Len(s)) \in Seq(Elements) /\ Len(SubSeq(s, 3, Len(s))) = Len(s) - 2
         /\ \A i \in 1 .. Len(s) - 2 : SubSeq(s, 3, Len(s))[i] = s[i + 2]
<1>1. PICK n \in Nat : n = Len(s)
  OBVIOUS
<1>2. SubSeq(s, 3, n) \in Seq(Elements)
  BY <1>1
<1>3. Len(SubSeq(s, 3, n)) = n - 2
  BY <1>1
<1>4. \A i \in 1 .. n - 2 : SubSeq(s, 3, n)[i] = s[i + 2]
  BY <1>1
<1>5. QED
  BY <1>1, <1>2, <1>3, <1>4

\* What start_ppp() still waits for once the first line is read.
LEMMA WaitingNext ==
  ASSUME NEW m, NEW g, NEW w \in Seq(Elements), NEW v \in Seq(Elements),
         Len(w) >= 2, Len(v) = Len(w) - 2, \A i \in 1 .. Len(v) : v[i] = w[i + 2],
         w[2] = Ppp!LF, Waiting(m, g, w)
  PROVE  /\ Waiting(m, g, v)
         /\ Arrives(m, w) /\ w[1].text \notin {"CONNECT", "ERROR"} => Arrives(m, v)
<1>1. \A i \in 1 .. Len(v) : i + 2 \in 1 .. Len(w) /\ v[i] = w[i + 2]
  OBVIOUS
<1>2. Paired(v)
  <2> SUFFICES ASSUME NEW i \in 1 .. Len(v)
               PROVE  /\ v[i] = Ppp!LF \/ v[i].text = "ppp" \/ Body(v[i])
                      /\ Body(v[i]) => i + 1 <= Len(v) /\ v[i + 1] = Ppp!LF
                      /\ v[i] = Ppp!LF => i > 1 /\ Body(v[i - 1])
    BY DEF Paired
  <2>1. /\ w[i + 2] = Ppp!LF \/ w[i + 2].text = "ppp" \/ Body(w[i + 2])
        /\ Body(w[i + 2]) => (i + 2) + 1 <= Len(w) /\ w[(i + 2) + 1] = Ppp!LF
        /\ w[i + 2] = Ppp!LF => i + 2 > 1 /\ Body(w[(i + 2) - 1])
    BY <1>1 DEF Waiting, Paired
  <2>2. (i + 2) + 1 = (i + 1) + 2 /\ (i + 2) - 1 = i + 1 /\ i \in Nat
    OBVIOUS
  <2>3. Body(v[i]) => i + 1 <= Len(v) /\ v[i + 1] = Ppp!LF
    <3>1. Body(v[i]) => i + 1 \in 1 .. Len(v)
      BY <1>1, <2>1, <2>2
    <3>2. QED
      BY <1>1, <2>1, <2>2, <3>1
  <2>4. ASSUME v[i] = Ppp!LF PROVE i > 1 /\ Body(v[i - 1])
    <3>1. Body(w[i + 1])
      BY <1>1, <2>1, <2>2, <2>4
    <3>2. i # 1
      BY <3>1, LfText DEF Body
    <3>3. i - 1 \in 1 .. Len(v) /\ (i - 1) + 2 = i + 1 /\ i > 1
      BY <3>2
    <3>4. QED
      BY <1>1, <3>1, <3>3
  <2>5. QED
    BY <1>1, <2>1, <2>3, <2>4
<1>3. Ordered(v)
  <2> SUFFICES ASSUME NEW i \in 1 .. Len(v), NEW j \in 1 .. Len(v)
               PROVE  /\ v[i].text = "ppp" /\ i < j => v[j].text = "ppp"
                      /\ v[i].text \in {"CONNECT", "ERROR"} /\ i + 1 < j => v[j].text = "ppp"
    BY DEF Ordered
  <2>1. /\ w[i + 2].text = "ppp" /\ i + 2 < j + 2 => w[j + 2].text = "ppp"
        /\ w[i + 2].text \in {"CONNECT", "ERROR"} /\ (i + 2) + 1 < j + 2 => w[j + 2].text = "ppp"
    BY <1>1 DEF Waiting, Ordered
  <2>2. QED
    BY <1>1, <2>1
<1>4. Tied(m, g, v)
  BY <1>1 DEF Waiting, Tied
<1>5. ASSUME NEW t \in {"CONNECT", "ERROR"}, w[1].text # t, Mentioned(w, t)
      PROVE  Mentioned(v, t)
  <2>1. PICK i \in 1 .. Len(w) : w[i].text = t
    BY <1>5 DEF Mentioned
  <2>2. i # 1 /\ i # 2
    BY <1>5, <2>1, LfText
  <2>3. i - 2 \in 1 .. Len(v) /\ (i - 2) + 2 = i
    BY <2>2
  <2>4. v[i - 2].text = t
    BY <2>1, <2>3
  <2>5. QED
    BY <2>3, <2>4 DEF Mentioned
<1>6. QED
  BY <1>2, <1>3, <1>4, <1>5 DEF Waiting, Arrives

LEMMA PppInvReadsLine ==
  ASSUME Shape, PppInv, ReadsLine
  PROVE  PppInv'
<1> DEFINE c == Coming(2)
           w == Cat(held, c)
<1>1. held \in Seq(Elements) /\ c \in Seq(Elements)
  <2>1. 2 \in DataDlcs
    BY DEF DataDlcs
  <2>2. QED
    BY <2>1, ComingIs DEF Shape, PppShape
<1>2. /\ Waiting(dlc2, garbled, w) /\ Paired(w) /\ Ordered(w) /\ Tied(dlc2, garbled, w)
      /\ Ppp!HasLine /\ (lost = 0 => Arrives(dlc2, w))
  BY DEF ReadsLine, PppInv, Waiting
<1>3. c' = c
  BY NothingMoves DEF ReadsLine, KeepRx
<1> HIDE DEF c, w
<1>4. Joins(held, c, w)
  BY <1>1, JoinIndex DEF w
<1>5. /\ Len(held) >= 2 /\ Ppp!line = held[1] /\ Body(held[1]) /\ held[2] = Ppp!LF
      /\ Ppp!after = SubSeq(held, 3, Len(held))
  BY <1>1, <1>2, LineIs DEF w
<1>6. w \in Seq(Elements) /\ Len(w) >= 2 /\ w[1] = held[1] /\ w[2] = Ppp!LF
  BY <1>4, <1>5 DEF Joins
<1>7. ppp' = IF w[1].text = "CONNECT" THEN "connected"
             ELSE IF w[1].text = "ERROR" THEN "failed" ELSE "reply"
  BY <1>5, <1>6 DEF ReadsLine, Ppp!verdict
<1>8. /\ buf = <<>> /\ pos = 0 /\ lastOut.text = "ppp" /\ (dlc2 = "at" => garbled = FALSE)
      /\ UNCHANGED <<buf, pos, lastOut, dlc2, garbled, lost>>
  BY DEF ReadsLine, PppInv, KeepNet, KeepModem, KeepCounts
<1>9. CASE w[1].text = "CONNECT"
  <2>1. ppp' = "connected" /\ held' = <<>>
    BY <1>7, <1>9 DEF ReadsLine
  <2>2. dlc2 = "data" /\ 1 \in 1 .. Len(w)
    BY <1>2, <1>6, <1>9 DEF Tied
  <2>3. AllPpp(c)
    <3>1. \A i \in 1 .. Len(c) :
            /\ Len(held) + i \in 1 .. Len(w) /\ 1 + 1 < Len(held) + i
            /\ w[Len(held) + i] = c[i]
      BY <1>4, <1>5 DEF Joins
    <3>2. QED
      BY <1>2, <1>9, <2>2, <3>1 DEF Ordered, AllPpp
  <2>4. AllPpp(buf') /\ AllPpp(Coming(2)')
    BY <1>3, <1>8, <2>3 DEF AllPpp, c
  <2>5. QED
    BY <1>8, <2>1, <2>2, <2>4 DEF PppInv, StartPppIsExplained
<1>10. CASE w[1].text = "ERROR"
  <2>1. ppp' = "failed" /\ held' = <<>>
    BY <1>7, <1>10 DEF ReadsLine
  <2>2. dlc2 = "refused"
    <3>1. 1 \in 1 .. Len(w)
      BY <1>6
    <3>2. QED
      BY <1>2, <1>10, <3>1 DEF Tied
  <2>3. QED
    BY <1>8, <2>1, <2>2 DEF PppInv, StartPppIsExplained
<1>11. CASE w[1].text \notin {"CONNECT", "ERROR"}
  <2> DEFINE h == SubSeq(held, 3, Len(held))
             v == Cat(h, c)
  <2>1. ppp' = "reply" /\ held' = h
    BY <1>5, <1>7, <1>11 DEF ReadsLine
  <2>2. /\ h \in Seq(Elements) /\ Len(h) = Len(held) - 2
        /\ \A i \in 1 .. Len(h) : h[i] = held[i + 2]
    BY <1>1, <1>5, DropTwo
  <2> HIDE DEF h, v
  <2>3. Joins(h, c, v)
    BY <1>1, <2>2, JoinIndex DEF v
  <2>4. v \in Seq(Elements) /\ Len(v) = Len(w) - 2
    BY <1>4, <2>2, <2>3 DEF Joins
  <2>5. ASSUME NEW i \in 1 .. Len(v) PROVE v[i] = w[i + 2]
    <3>1. CASE i \in 1 .. Len(h)
      <4>1. i + 2 \in 1 .. Len(held)
        BY <1>4, <2>2, <3>1 DEF Joins
      <4>2. QED
        BY <1>4, <2>2, <2>3, <3>1, <4>1 DEF Joins
    <3>2. CASE i \notin 1 .. Len(h)
      <4> DEFINE j == i - Len(h)
      <4>1. i > Len(h) /\ j \in 1 .. Len(c) /\ i + 2 = Len(held) + j /\ i \in 1 .. Len(h) + Len(c)
        BY <2>2, <2>3, <3>2 DEF Joins
      <4>2. v[i] = c[j]
        BY <2>3, <4>1 DEF Joins
      <4> HIDE DEF j
      <4>3. w[Len(held) + j] = c[j]
        BY <1>4, <4>1 DEF Joins
      <4>4. QED
        BY <4>1, <4>2, <4>3
    <3>3. QED
      BY <3>1, <3>2
  <2>6. Waiting(dlc2, garbled, v) /\ (Arrives(dlc2, w) => Arrives(dlc2, v))
    BY <1>2, <1>6, <1>11, <2>4, <2>5, WaitingNext
  <2>7. Cat(held', Coming(2)') = v
    BY <1>3, <2>1 DEF c, v
  <2>8. QED
    BY <1>2, <1>8, <2>1, <2>6, <2>7 DEF PppInv, StartPppIsExplained
<1>12. QED
  BY <1>9, <1>10, <1>11

\* start_ppp() gives up only where StartPppIsExplained says.
LEMMA PppInvEnds ==
  ASSUME Shape, PppInv, ReadsNoText \/ GivesUp
  PROVE  PppInv'
<1> DEFINE c == Coming(2)
           w == Cat(held, c)
<1>1. /\ held \in Seq(Elements) /\ c \in Seq(Elements) /\ faults \in Nat /\ lost \in Nat
      /\ dlc2 \in {"at", "said", "data", "refused", "unasked"}
  <2>1. 2 \in DataDlcs
    BY DEF DataDlcs
  <2>2. QED
    BY <2>1, ComingIs DEF Shape, PppShape, ModemShape
<1>2. /\ Paired(w) /\ Ordered(w) /\ Tied(dlc2, garbled, w)
      /\ (lost = 0 => Arrives(dlc2, w))
      /\ buf = <<>> /\ pos = 0 /\ lastOut.text = "ppp" /\ (dlc2 = "at" => garbled = FALSE)
  BY DEF ReadsNoText, GivesUp, PppInv, Waiting
<1>3. /\ UNCHANGED <<buf, pos, lastOut, dlc2, garbled, lost, pipe>>
      /\ held' = <<>> /\ ppp' \in {"io", "timeout"}
  BY DEF ReadsNoText, GivesUp, KeepNet, KeepModem, KeepRx, KeepCounts
<1> HIDE DEF c
<1>4. Joins(held, c, w)
  BY <1>1, JoinIndex
<1> HIDE DEF w
<1>5. CASE ReadsNoText
  <2>1. held # <<>> /\ Head(held).text \in {"noise", "ppp"} /\ ppp' = "io"
    BY <1>5 DEF ReadsNoText, Ppp!Unreadable
  <2>2. 1 \in 1 .. Len(w) /\ w[1].text \in {"noise", "ppp"}
    <3>1. Head(held) = held[1] /\ 1 \in 1 .. Len(held)
      BY <1>1, <2>1
    <3>2. w[1] = held[1] /\ 1 \in 1 .. Len(w)
      BY <1>4, <3>1 DEF Joins
    <3>3. QED
      BY <2>1, <3>1, <3>2
  <2>3. CASE w[1].text = "noise"
    <3>1. garbled = TRUE
      BY <1>2, <2>2, <2>3 DEF Tied
    <3>2. QED
      BY <1>2, <1>3, <2>1, <3>1 DEF PppInv, StartPppIsExplained
  <2>4. CASE w[1].text = "ppp"
    <3>1. dlc2 = "data"
      BY <1>2, <2>2, <2>4 DEF Tied
    <3>2. ASSUME lost = 0 PROVE FALSE
      <4>1. PICK i \in 1 .. Len(w) : w[i].text = "CONNECT"
        BY <1>2, <3>1, <3>2 DEF Arrives, Mentioned
      <4>2. i # 1 /\ 1 < i
        BY <2>4, <4>1
      <4>3. QED
        BY <1>2, <2>2, <2>4, <4>1, <4>2 DEF Ordered
    <3>3. lost > 0
      BY <1>1, <3>2
    <3>4. QED
      BY <1>2, <1>3, <2>1, <3>3 DEF PppInv, StartPppIsExplained
  <2>5. QED
    BY <2>2, <2>3, <2>4
<1>6. CASE GivesUp
  <2>1. ppp' = "timeout" /\ ~Ppp!HasLine
    BY <1>6 DEF GivesUp
  <2>2. ASSUME lost = 0, ~ConnectComing PROVE FALSE
    <3>1. dlc2 \notin {"at", "said"} /\ c = <<>>
      BY <2>2 DEF ConnectComing, c
    <3>2. w = held
      BY <1>1, <3>1, CatLaws DEF w
    <3>3. PICK t \in {"CONNECT", "ERROR"} : Mentioned(w, t)
      BY <1>1, <1>2, <2>2, <3>1 DEF Arrives
    <3>4. PICK i \in 1 .. Len(w) : w[i].text = t
      BY <3>3 DEF Mentioned
    <3>5. i + 1 <= Len(w) /\ w[i + 1] = Ppp!LF
      BY <1>2, <3>4 DEF Paired, Body
    <3>6. i + 1 \in DOMAIN held /\ held[i + 1] = Ppp!LF
      BY <1>1, <3>2, <3>5
    <3>7. Ppp!HasLine
      BY <3>6 DEF Ppp!HasLine, Ppp!ToSet
    <3>8. QED
      BY <2>1, <3>7
  <2>3. /\ faults' = faults + 1 \/ (faults' = faults /\ (~ConnectComing \/ Blocked(1)))
    BY <1>6 DEF GivesUp
  <2>4. Blocked(1) => Len(pipe[1]) = DLC1_PIPE_BYTES
    BY DEF Blocked, PIPE_BYTES
  <2>5. faults' + lost > 0 \/ Len(pipe[1]) = DLC1_PIPE_BYTES
    <3>1. CASE Blocked(1)
      BY <2>4, <3>1
    <3>2. CASE faults' = faults + 1
      BY <1>1, <3>2
    <3>3. CASE faults' = faults /\ ~ConnectComing
      BY <1>1, <2>2, <3>3
    <3>4. QED
      BY <2>3, <3>1, <3>2, <3>3
  <2>6. StartPppIsExplained'
    BY <1>3, <2>1, <2>5 DEF StartPppIsExplained
  <2>7. QED
    BY <1>2, <1>3, <2>1, <2>6 DEF PppInv
<1>7. QED
  BY <1>5, <1>6

\* start_ppp().
LEMMA PppInvStart ==
  ASSUME Shape, PppInv, Calls \/ \E k \in Nat : ReadsMore(k)
  PROVE  PppInv'
<1>0. 2 \in DataDlcs /\ RxShape /\ held \in Seq(Elements) /\ Coming(2) \in Seq(Elements)
  <2>1. 2 \in DataDlcs
    BY DEF DataDlcs
  <2>2. QED
    BY <2>1, ComingIs DEF Shape, PppShape
<1>1. /\ UNCHANGED <<buf, pos, lastOut, dlc2, garbled, lost>> /\ ppp # "connected"
      /\ ppp' = "reply"
  BY DEF Calls, ReadsMore, KeepNet, KeepModem, KeepCounts
<1>2. /\ Waiting(dlc2, garbled, Cat(held', Coming(2)'))
      /\ lost = 0 => Arrives(dlc2, Cat(held', Coming(2)'))
  <2>1. CASE Calls
    <3>1. Coming(2)' = Coming(2) /\ held' = <<>> /\ Coming(2) = <<>> /\ dlc2 = "at"
      BY <2>1, NothingMoves DEF Calls, KeepRx, PppInv
    <3>2. Cat(<<>>, <<>>) = <<>> /\ Len(<<>>) = 0 /\ 1 .. 0 = {}
      BY DEF Cat
    <3>3. Waiting(dlc2, garbled, <<>>) /\ Arrives("at", <<>>)
      BY <3>2 DEF Waiting, Paired, Ordered, Tied, Arrives
    <3>4. QED
      BY <3>1, <3>2, <3>3
  <2>2. CASE \E k \in Nat : ReadsMore(k)
    <3>1. PICK k \in Nat : ReadsMore(k)
      BY <2>2
    <3> DEFINE u == SubSeq(pipe[2], 1, k)
               c == Coming(2)'
    <3>2. u \in Seq(Elements) /\ Coming(2) = Cat(u, c) /\ held' = Cat(held, u)
      BY <1>0, <3>1, TakesShape, TakesComing DEF ReadsMore, Cat
    <3>3. c \in Seq(Elements)
      <4>1. RxShape'
        BY <1>0, <3>1, TakesShape DEF ReadsMore
      <4>2. QED
        BY <1>0, <4>1, ComingSoon
    <3>4. /\ Waiting(dlc2, garbled, Cat(held, Coming(2)))
          /\ lost = 0 => Arrives(dlc2, Cat(held, Coming(2)))
      BY <3>1 DEF ReadsMore, PppInv
    <3> HIDE DEF u, c
    <3>5. Cat(held, Cat(u, c)) = Cat(Cat(held, u), c)
      BY <1>0, <3>2, <3>3, CatLaws
    <3>6. QED
      BY <3>2, <3>4, <3>5 DEF c
  <2>3. QED
    BY <2>1, <2>2
<1>3. QED
  BY <1>1, <1>2 DEF PppInv, StartPppIsExplained

LEMMA PppInvNet ==
  ASSUME Shape, PppInv, NetSteps
  PROVE  PppInv'
<1>0. /\ ppp = "connected" /\ UNCHANGED <<ppp, held, dlc2, garbled, lost>>
  BY DEF NetSteps, Fills, ReadsPast, Consumes, Exits, KeepPpp, KeepModem, KeepCounts
<1>1. /\ dlc2 = "data" /\ held = <<>> /\ AllPpp(buf) /\ AllPpp(Coming(2))
      /\ lastOut.text = "ppp"
  BY <1>0 DEF PppInv
<1>2. SUFFICES AllPpp(buf') /\ AllPpp(Coming(2)') /\ lastOut'.text = "ppp"
  BY <1>0, <1>1 DEF PppInv, StartPppIsExplained, AllPpp
<1>3. CASE \E k \in Nat : Fills(k) \/ ReadsPast(k)
  <2>1. PICK k \in Nat : Fills(k) \/ ReadsPast(k)
    BY <1>3
  <2>2. 2 \in DataDlcs /\ RxShape /\ Takes(2, k)
    BY <2>1 DEF DataDlcs, Shape, Fills, ReadsPast
  <2> DEFINE u == SubSeq(pipe[2], 1, k)
             c == Coming(2)'
  <2>3. u \in Seq(Elements) /\ Len(u) = k /\ Coming(2) = Cat(u, c) /\ RxShape'
    BY <2>2, TakesShape, TakesComing
  <2>4. c \in Seq(Elements)
    BY <2>2, <2>3, ComingSoon
  <2>5. k \in 1 .. k /\ u[k] = pipe[2][k]
    BY <2>2 DEF RxShape, Takes
  <2> HIDE DEF u, c
  <2>6. AllPpp(u) /\ AllPpp(c)
    BY <1>1, <2>3, <2>4, AllPppCat
  <2>7. u[k].text = "ppp"
    BY <2>3, <2>5, <2>6 DEF AllPpp
  <2>8. CASE Fills(k)
    BY <1>1, <2>6, <2>8 DEF Fills, AllPpp, u, c
  <2>9. CASE ReadsPast(k)
    BY <1>1, <2>5, <2>6, <2>7, <2>9 DEF ReadsPast, AllPpp, c
  <2>10. QED
    BY <2>1, <2>8, <2>9
<1>4. CASE \E n \in Nat : Consumes(n)
  <2>1. PICK n \in Nat : Consumes(n)
    BY <1>4
  <2>2. pos + n \in 1 .. Len(buf)
    BY <2>1 DEF Consumes, Shape, NetShape
  <2>3. Coming(2)' = Coming(2) /\ buf' = buf /\ lastOut' = buf[pos + n]
    BY <2>1, NothingMoves DEF Consumes, KeepRx
  <2>4. QED
    BY <1>1, <2>2, <2>3 DEF AllPpp
<1>5. CASE Exits
  <2>1. Coming(2)' = Coming(2) /\ buf' = buf /\ lastOut' = lastOut
    BY <1>5, NothingMoves DEF Exits, KeepRx
  <2>2. QED
    BY <1>1, <2>1 DEF AllPpp
<1>6. QED
  BY <1>3, <1>4, <1>5 DEF NetSteps

LEMMA PppInvStatus ==
  ASSUME Shape, PppInv, StatusSteps
  PROVE  PppInv'
<1>0. /\ UNCHANGED <<ppp, held, buf, pos, lastOut, dlc2, garbled>> /\ ppp = "connected"
      /\ faults' = faults \/ faults' = faults + 1
  BY DEF StatusSteps, Drains, PollReads, Drained, Polls, PollFails,
         KeepPpp, KeepNet, KeepModem, KeepCounts, Shape, StatusShape
<1>1. Coming(2)' = Coming(2)
  <2>1. 1 \in DataDlcs /\ 2 \in DataDlcs /\ RxShape
    BY DEF DataDlcs, Shape
  <2>2. CASE \E k \in Nat : Drains(k) \/ PollReads(k)
    <3>1. PICK k \in Nat : Takes(1, k)
      BY <2>2 DEF Drains, PollReads
    <3>2. QED
      BY <2>1, <3>1, TakesComing
  <2>3. CASE Drained \/ Polls \/ PollFails
    BY <2>3, NothingMoves DEF Drained, Polls, PollFails, KeepRx
  <2>4. QED
    BY <2>2, <2>3 DEF StatusSteps
<1>2. QED
  BY <1>0, <1>1 DEF PppInv, StartPppIsExplained, AllPpp

LEMMA PairedCat ==
  ASSUME NEW a \in Seq(Elements), NEW b \in Seq(Elements), Paired(a), Paired(b)
  PROVE  Paired(Cat(a, b))
<1> DEFINE c == Cat(a, b)
           m == Len(a)
<1>0. Joins(a, b, c)
  BY JoinIndex
<1> HIDE DEF c
<1> SUFFICES ASSUME NEW i \in 1 .. Len(c)
             PROVE  /\ c[i] = Ppp!LF \/ c[i].text = "ppp" \/ Body(c[i])
                    /\ Body(c[i]) => i + 1 <= Len(c) /\ c[i + 1] = Ppp!LF
                    /\ c[i] = Ppp!LF => i > 1 /\ Body(c[i - 1])
  BY DEF Paired, c
<1>1. m \in Nat /\ Len(b) \in Nat /\ Len(c) = m + Len(b) /\ i \in Nat
  BY <1>0 DEF Joins
<1>2. CASE i \in 1 .. m
  <2>1. /\ c[i] = a[i] /\ (i + 1 <= m => c[i + 1] = a[i + 1])
        /\ (i > 1 => c[i - 1] = a[i - 1])
    <3>1. (i + 1 <= m => i + 1 \in 1 .. m) /\ (i > 1 => i - 1 \in 1 .. m)
      BY <1>1, <1>2
    <3>2. QED
      BY <1>0, <1>2, <3>1 DEF Joins
  <2>2. /\ a[i] = Ppp!LF \/ a[i].text = "ppp" \/ Body(a[i])
        /\ Body(a[i]) => i + 1 <= m /\ a[i + 1] = Ppp!LF
        /\ a[i] = Ppp!LF => i > 1 /\ Body(a[i - 1])
    BY <1>2 DEF Paired
  <2>3. i + 1 <= m => i + 1 <= Len(c)
    BY <1>1
  <2>4. QED
    BY <2>1, <2>2, <2>3
<1>3. CASE i > m
  <2>1. PICK j \in 1 .. Len(b) : i = m + j
    <3>1. i - m \in 1 .. Len(b) /\ i = m + (i - m)
      BY <1>1, <1>3
    <3>2. QED
      BY <3>1
  <2>2. /\ c[i] = b[j] /\ (j + 1 <= Len(b) => c[i + 1] = b[j + 1])
        /\ (j > 1 => c[i - 1] = b[j - 1])
    <3>1. /\ (j + 1 <= Len(b) => j + 1 \in 1 .. Len(b)) /\ (j > 1 => j - 1 \in 1 .. Len(b))
          /\ i + 1 = m + (j + 1) /\ i - 1 = m + (j - 1)
      BY <1>1, <2>1
    <3>2. QED
      BY <1>0, <2>1, <3>1 DEF Joins
  <2>3. /\ b[j] = Ppp!LF \/ b[j].text = "ppp" \/ Body(b[j])
        /\ Body(b[j]) => j + 1 <= Len(b) /\ b[j + 1] = Ppp!LF
        /\ b[j] = Ppp!LF => j > 1 /\ Body(b[j - 1])
    BY DEF Paired
  <2>4. (j + 1 <= Len(b) => i + 1 <= Len(c)) /\ (j > 1 => i > 1)
    BY <1>1, <2>1
  <2>5. QED
    BY <2>2, <2>3, <2>4
<1>4. QED
  BY <1>1, <1>2, <1>3

\* An element of a concatenation is one of its parts.
LEMMA CatParts ==
  ASSUME NEW a \in Seq(Elements), NEW b \in Seq(Elements), NEW i \in 1 .. Len(Cat(a, b))
  PROVE  \/ i \in 1 .. Len(a) /\ Cat(a, b)[i] = a[i]
         \/ \E j \in 1 .. Len(b) : i = Len(a) + j /\ Cat(a, b)[i] = b[j]
<1> DEFINE c == Cat(a, b)
<1>0. Joins(a, b, c)
  BY JoinIndex
<1> HIDE DEF c
<1>1. /\ i \in 1 .. Len(a) + Len(b) /\ Len(a) \in Nat /\ Len(b) \in Nat
      /\ (i \in 1 .. Len(a) => c[i] = a[i])
  BY <1>0 DEF Joins, c
<1>2. CASE i > Len(a)
  <2>1. i - Len(a) \in 1 .. Len(b) /\ i = Len(a) + (i - Len(a))
    BY <1>1, <1>2
  <2>2. c[Len(a) + (i - Len(a))] = b[i - Len(a)]
    BY <1>0, <2>1 DEF Joins
  <2>3. QED
    BY <2>1, <2>2 DEF c
<1>3. QED
  BY <1>1, <1>2 DEF c

LEMMA CatHas ==
  ASSUME NEW a \in Seq(Elements), NEW b \in Seq(Elements)
  PROVE  /\ \A i \in 1 .. Len(a) : i \in 1 .. Len(Cat(a, b)) /\ Cat(a, b)[i] = a[i]
         /\ \A i \in 1 .. Len(b) :
              Len(a) + i \in 1 .. Len(Cat(a, b)) /\ Cat(a, b)[Len(a) + i] = b[i]
<1> DEFINE c == Cat(a, b)
<1>0. Joins(a, b, c)
  BY JoinIndex
<1> HIDE DEF c
<1>1. /\ \A i \in 1 .. Len(a) : i \in 1 .. Len(c) /\ c[i] = a[i]
      /\ \A i \in 1 .. Len(b) : Len(a) + i \in 1 .. Len(c) /\ c[Len(a) + i] = b[i]
  BY <1>0 DEF Joins
<1>2. QED
  BY <1>1 DEF c

LEMMA MentionedCat ==
  ASSUME NEW a \in Seq(Elements), NEW b \in Seq(Elements), NEW t,
         Mentioned(a, t) \/ Mentioned(b, t)
  PROVE  Mentioned(Cat(a, b), t)
<1>1. CASE Mentioned(a, t)
  <2>1. PICK i \in 1 .. Len(a) : a[i].text = t
    BY <1>1 DEF Mentioned
  <2>2. i \in 1 .. Len(Cat(a, b)) /\ Cat(a, b)[i].text = t
    BY <2>1, CatHas
  <2>3. QED
    BY <2>2 DEF Mentioned
<1>2. CASE Mentioned(b, t)
  <2>1. PICK i \in 1 .. Len(b) : b[i].text = t
    BY <1>2 DEF Mentioned
  <2>2. Len(a) + i \in 1 .. Len(Cat(a, b)) /\ Cat(a, b)[Len(a) + i].text = t
    BY <2>1, CatHas
  <2>3. QED
    BY <2>2 DEF Mentioned
<1>3. QED
  BY <1>1, <1>2

LEMMA TiedCat ==
  ASSUME NEW m, NEW g, NEW a \in Seq(Elements), NEW b \in Seq(Elements),
         Tied(m, g, a), Tied(m, g, b)
  PROVE  Tied(m, g, Cat(a, b))
<1> SUFFICES ASSUME NEW i \in 1 .. Len(Cat(a, b))
             PROVE  /\ Cat(a, b)[i].text \in {"CONNECT", "ppp"} => m = "data"
                    /\ Cat(a, b)[i].text = "ERROR" => m = "refused"
                    /\ Cat(a, b)[i].text = "noise" => g = TRUE
  BY DEF Tied
<1>1. \/ \E j \in 1 .. Len(a) : Cat(a, b)[i] = a[j]
      \/ \E j \in 1 .. Len(b) : Cat(a, b)[i] = b[j]
  BY CatParts
<1>2. QED
  BY <1>1 DEF Tied

\* Neither a result nor PPP.
Silent(w) == \A i \in 1 .. Len(w) : w[i].text \notin {"ppp", "CONNECT", "ERROR"}

LEMMA OrderedCat ==
  ASSUME NEW a \in Seq(Elements), NEW b \in Seq(Elements),
         Ordered(a), Ordered(b), Silent(a) \/ AllPpp(b)
  PROVE  Ordered(Cat(a, b))
<1> DEFINE c == Cat(a, b)
<1> SUFFICES ASSUME NEW i \in 1 .. Len(c), NEW j \in 1 .. Len(c)
             PROVE  /\ c[i].text = "ppp" /\ i < j => c[j].text = "ppp"
                    /\ c[i].text \in {"CONNECT", "ERROR"} /\ i + 1 < j => c[j].text = "ppp"
  BY DEF Ordered
<1>0. /\ \/ i \in 1 .. Len(a) /\ c[i] = a[i]
         \/ \E k \in 1 .. Len(b) : i = Len(a) + k /\ c[i] = b[k]
      /\ \/ j \in 1 .. Len(a) /\ c[j] = a[j]
         \/ \E k \in 1 .. Len(b) : j = Len(a) + k /\ c[j] = b[k]
      /\ Len(a) \in Nat /\ Len(b) \in Nat /\ i \in Nat /\ j \in Nat
  <2>1. \/ i \in 1 .. Len(a) /\ c[i] = a[i]
        \/ \E k \in 1 .. Len(b) : i = Len(a) + k /\ c[i] = b[k]
    BY CatParts
  <2>2. \/ j \in 1 .. Len(a) /\ c[j] = a[j]
        \/ \E k \in 1 .. Len(b) : j = Len(a) + k /\ c[j] = b[k]
    BY CatParts
  <2>3. Len(a) \in Nat /\ Len(b) \in Nat /\ i \in Nat /\ j \in Nat
    OBVIOUS
  <2>4. QED
    BY <2>1, <2>2, <2>3
<1> HIDE DEF c
<1>1. CASE i \in 1 .. Len(a) /\ c[i] = a[i] /\ j \in 1 .. Len(a) /\ c[j] = a[j]
  BY <1>1 DEF Ordered
<1>2. CASE i \in 1 .. Len(a) /\ c[i] = a[i]
           /\ \E k \in 1 .. Len(b) : j = Len(a) + k /\ c[j] = b[k]
  BY <1>2 DEF Silent, AllPpp
<1>3. ASSUME NEW h \in 1 .. Len(b), i = Len(a) + h, c[i] = b[h],
             j \in 1 .. Len(a)
      PROVE  ~(i < j)
  BY <1>0, <1>3
<1>4. ASSUME NEW h \in 1 .. Len(b), i = Len(a) + h, c[i] = b[h],
             NEW k \in 1 .. Len(b), j = Len(a) + k, c[j] = b[k]
      PROVE  /\ c[i].text = "ppp" /\ i < j => c[j].text = "ppp"
             /\ c[i].text \in {"CONNECT", "ERROR"} /\ i + 1 < j => c[j].text = "ppp"
  <2>1. (i < j => h < k) /\ (i + 1 < j => h + 1 < k)
    BY <1>0, <1>4
  <2>2. QED
    BY <1>4, <2>1 DEF Ordered
<1>5. CASE j \in 1 .. Len(a) /\ \E k \in 1 .. Len(b) : i = Len(a) + k /\ c[i] = b[k]
  <2>1. ~(i < j) /\ ~(i + 1 < j)
    BY <1>0, <1>3, <1>5
  <2>2. QED
    BY <2>1
<1>6. QED
  BY <1>0, <1>1, <1>2, <1>4, <1>5

\* PPP bytes, or a line, are what the modem sends.
LEMMA SentShape ==
  /\ \A x \in Seq(Elements) : AllPpp(x) => Paired(x) /\ Ordered(x)
  /\ \A t \in {"RING", "noise", "CONNECT", "ERROR"} :
       /\ Paired(<<Text(t), Ppp!LF>>) /\ Ordered(<<Text(t), Ppp!LF>>)
       /\ Mentioned(<<Text(t), Ppp!LF>>, t)
       /\ \A m, g : /\ t = "CONNECT" => m = "data"
                    /\ t = "ERROR" => m = "refused"
                    /\ t = "noise" => g = TRUE
                    => Tied(m, g, <<Text(t), Ppp!LF>>)
<1>1. ASSUME NEW x \in Seq(Elements), AllPpp(x) PROVE Paired(x) /\ Ordered(x)
  <2>1. \A i \in 1 .. Len(x) : x[i].text = "ppp" /\ ~Body(x[i]) /\ x[i] # Ppp!LF
    BY <1>1, LfText DEF AllPpp, Body
  <2>2. QED
    BY <2>1 DEF Paired, Ordered
<1>2. ASSUME NEW t \in {"RING", "noise", "CONNECT", "ERROR"}
      PROVE  /\ Paired(<<Text(t), Ppp!LF>>) /\ Ordered(<<Text(t), Ppp!LF>>)
             /\ Mentioned(<<Text(t), Ppp!LF>>, t)
             /\ \A m, g : /\ t = "CONNECT" => m = "data"
                          /\ t = "ERROR" => m = "refused"
                          /\ t = "noise" => g = TRUE
                          => Tied(m, g, <<Text(t), Ppp!LF>>)
  <2> DEFINE x == <<Text(t), Ppp!LF>>
  <2>1. Len(x) = 2 /\ x[1].text = t /\ x[2] = Ppp!LF /\ 1 .. Len(x) = {1, 2}
    BY DEF Text, Ppp!Line
  <2> HIDE DEF x
  <2>2. Body(x[1]) /\ ~Body(x[2]) /\ x[2].text = "LF" /\ x[1] # Ppp!LF
    BY <2>1, LfText DEF Body
  <2>3. Paired(x)
    BY <2>1, <2>2 DEF Paired
  <2>4. Ordered(x)
    BY <2>1, <2>2 DEF Ordered
  <2>5. Mentioned(x, t)
    BY <2>1 DEF Mentioned
  <2>6. ASSUME NEW m, NEW g, t = "CONNECT" => m = "data", t = "ERROR" => m = "refused",
               t = "noise" => g = TRUE
        PROVE  Tied(m, g, x)
    BY <2>1, <2>2, <2>6 DEF Tied
  <2>7. QED
    BY <2>3, <2>4, <2>5, <2>6 DEF x
<1>3. QED
  BY <1>1, <1>2

\* What the modem adds to what start_ppp() waits for.
LEMMA WaitingGrows ==
  ASSUME NEW w \in Seq(Elements), NEW x \in Seq(Elements), NEW m, NEW g, NEW n, NEW h,
         Waiting(m, g, w), Paired(x), Ordered(x), Tied(n, h, x),
         \/ m = "data" /\ n = m /\ h = g /\ AllPpp(x)
         \/ m \in {"at", "said"} /\ (h = g \/ g = FALSE)
  PROVE  Waiting(n, h, Cat(w, x))
<1>1. Paired(w) /\ Ordered(w) /\ Tied(m, g, w)
  BY DEF Waiting
<1>2. CASE m = "data" /\ n = m /\ h = g /\ AllPpp(x)
  BY <1>1, <1>2, PairedCat, OrderedCat, TiedCat DEF Waiting
<1>3. CASE m \in {"at", "said"} /\ (h = g \/ g = FALSE)
  <2>1. Silent(w)
    BY <1>1, <1>3 DEF Tied, Silent
  <2>2. Tied(n, h, w)
    BY <1>1, <1>3, <2>1 DEF Tied, Silent
  <2>3. QED
    BY <1>1, <2>1, <2>2, PairedCat, OrderedCat, TiedCat DEF Waiting
<1>4. QED
  BY <1>2, <1>3

LEMMA PppInvModem ==
  ASSUME Shape, PppInv, ModemSteps
  PROVE  PppInv'
<1>0. /\ 1 \in DataDlcs /\ 2 \in DataDlcs /\ RxShape
      /\ held \in Seq(Elements) /\ Coming(2) \in Seq(Elements)
  <2>1. 1 \in DataDlcs /\ 2 \in DataDlcs
    BY DEF DataDlcs
  <2>2. QED
    BY <2>1, ComingIs DEF Shape, PppShape
<1>1. UNCHANGED <<ppp, held, buf, pos, lastOut, faults, lost>>
  BY ModemSendsOne DEF ModemSends, KeepPpp, KeepNet, KeepCounts
<1> DEFINE w == Cat(held, Coming(2))
<1>2. /\ w \in Seq(Elements)
      /\ ppp = "reply" => Waiting(dlc2, garbled, w) /\ (lost = 0 => Arrives(dlc2, w))
  BY <1>0, CatLaws DEF PppInv
<1>3. ASSUME NEW x \in Seq(Elements), ModemSends(2, x)
      PROVE  /\ pipe' = pipe /\ Coming(2)' = Cat(Coming(2), x)
             /\ Cat(held', Coming(2)') = Cat(w, x)
  <2>1. pipe' = pipe /\ Coming(2)' = Cat(Coming(2), x)
    BY <1>0, <1>3, ToHostComing DEF ModemSends
  <2>2. Cat(Cat(held, Coming(2)), x) = Cat(held, Cat(Coming(2), x))
    BY <1>0, <1>3, CatLaws
  <2>3. QED
    BY <1>1, <2>1, <2>2
<1> HIDE DEF w
<1>4. CASE Speaks
  <2>1. /\ ppp # "call" /\ dlc2 \in {"at", "said"} /\ dlc2' \in {"said", "data", "refused"}
        /\ \E t \in {"RING", "noise", "CONNECT", "ERROR"} :
             /\ ModemSends(2, <<Text(t), Ppp!LF>>)
             /\ t = "CONNECT" <=> dlc2' = "data"
             /\ t = "ERROR" <=> dlc2' = "refused"
             /\ t = "noise" => garbled' = TRUE
             /\ (dlc2 = "at" \/ garbled' = garbled)
    BY <1>4 DEF Speaks
  <2>2. PICK t \in {"RING", "noise", "CONNECT", "ERROR"} :
             /\ ModemSends(2, <<Text(t), Ppp!LF>>)
             /\ t = "CONNECT" <=> dlc2' = "data"
             /\ t = "ERROR" <=> dlc2' = "refused"
             /\ t = "noise" => garbled' = TRUE
             /\ (dlc2 = "at" \/ garbled' = garbled)
    BY <2>1
  <2> DEFINE x == <<Text(t), Ppp!LF>>
  <2>3. /\ x \in Seq(Elements) /\ Paired(x) /\ Ordered(x) /\ Mentioned(x, t)
        /\ Tied(dlc2', garbled', x)
    BY <2>2, Sent, SentShape
  <2> HIDE DEF x
  <2>4. ModemSends(2, x)
    BY <2>2 DEF x
  <2>5. garbled = FALSE \/ garbled' = garbled
    BY <2>2 DEF PppInv
  <2>6. Cat(held', Coming(2)') = Cat(w, x) /\ pipe' = pipe
    BY <1>3, <2>3, <2>4
  <2>7. ppp = "reply" => Waiting(dlc2', garbled', Cat(w, x))
    <3> DEFINE n == dlc2'
               h == garbled'
    <3>1. Tied(n, h, x) /\ (garbled = FALSE \/ h = garbled)
      BY <2>3, <2>5
    <3> HIDE DEF n, h
    <3>2. ppp = "reply" => Waiting(n, h, Cat(w, x))
      BY <1>2, <2>1, <2>3, <3>1, WaitingGrows
    <3>3. QED
      BY <3>2 DEF n, h
  <2>8. Arrives(dlc2', Cat(w, x))
    <3>1. Mentioned(Cat(w, x), t)
      BY <1>2, <2>3, MentionedCat
    <3>2. QED
      BY <2>1, <2>2, <3>1 DEF Arrives
  <2>9. ppp \notin {"call", "connected", "failed"}
    BY <2>1 DEF PppInv, StartPppIsExplained
  <2>10. StartPppIsExplained'
    BY <1>1, <2>5, <2>6, <2>9 DEF PppInv, StartPppIsExplained
  <2>11. QED
    BY <1>1, <2>1, <2>6, <2>7, <2>8, <2>9, <2>10 DEF PppInv
<1>5. CASE \E n \in Nat : Streams(n)
  <2>1. PICK n \in Nat : Streams(n)
    BY <1>5
  <2> DEFINE x == PppBytes(n)
  <2>2. x \in Seq(Elements) /\ AllPpp(x)
    BY Sent
  <2>3. dlc2 = "data" /\ dlc2' = "data" /\ ModemSends(2, x) /\ garbled' = garbled
    BY <2>1 DEF Streams
  <2> HIDE DEF x
  <2>4. pipe' = pipe /\ Coming(2)' = Cat(Coming(2), x) /\ Cat(held', Coming(2)') = Cat(w, x)
    BY <1>3, <2>2, <2>3
  <2>5. Paired(x) /\ Ordered(x) /\ Tied("data", garbled, x)
    BY <2>2, SentShape DEF AllPpp, Tied
  <2>6. ppp = "reply" => Waiting(dlc2', garbled', Cat(w, x))
    BY <1>2, <2>2, <2>3, <2>5, WaitingGrows
  <2>7. ppp = "reply" /\ lost = 0 => Arrives(dlc2', Cat(w, x))
    BY <1>2, <2>2, <2>3, MentionedCat DEF Arrives
  <2>8. ppp = "connected" => AllPpp(Coming(2)')
    BY <1>0, <2>2, <2>4, AllPppCat DEF PppInv
  <2>9. ppp # "call"
    BY <2>3 DEF PppInv
  <2>10. ppp = "connected" => AllPpp(buf')
    BY <1>1 DEF PppInv, AllPpp
  <2>11. StartPppIsExplained'
    BY <1>1, <2>3, <2>4 DEF PppInv, StartPppIsExplained
  <2>12. QED
    BY <1>1, <2>3, <2>4, <2>6, <2>7, <2>8, <2>9, <2>10, <2>11 DEF PppInv
<1>6. CASE Answers \/ Chatters
  <2>1. PICK s \in Seq(Elements) : ModemSends(1, s)
    BY <1>6, Sent DEF Answers, Chatters
  <2>2. Coming(2)' = Coming(2) /\ pipe' = pipe
    BY <1>0, <2>1, ToHostComing DEF ModemSends
  <2>3. UNCHANGED <<dlc2, garbled>>
    BY <1>6 DEF Answers, Chatters, KeepModem
  <2>4. QED
    BY <1>1, <2>2, <2>3, PppInvKept
<1>7. QED
  BY <1>4, <1>5, <1>6 DEF ModemSteps

-----------------------------------------------------------------------------
(* The frames on the line.                                                 *)

Answering == {"OK", "ERROR", "+CME ERROR"}

\* On DLC2 a frame holds whole lines or PPP; on DLC1 it ends one poll at most.
Sound(f) ==
  /\ f.dlci = 2 => Paired(f.info)
  /\ f.dlci = 1 => Len(Numbers(f.info, Answering)) <= 1
LineInv == \A i \in 1 .. Len(toHost) : Sound(toHost[i])

LEMMA Pair ==
  ASSUME NEW T, NEW a \in T, NEW b \in T
  PROVE  <<a, b>> = Cat(<<a>>, <<b>>)
<1> DEFINE s == <<a, b>>
           h == <<Head(s)>>
           t == Tail(s)
<1>1. Head(s) = a /\ Tail(s) = <<b>> /\ s \in Seq(T) /\ s # <<>>
  OBVIOUS
<1> HIDE DEF s
<1>2. h \in Seq(T) /\ t \in Seq(T) /\ s = h \o t
  BY <1>1
<1> HIDE DEF h, t
<1>3. h = <<a>> /\ t = <<b>>
  BY <1>1 DEF h, t
<1>4. QED
  BY <1>2, <1>3 DEF s, Cat

\* What the modem sends on DLC1 answers the first command it has not come to,
\* or none.
LEMMA SentAnswers ==
  ASSUME Shape
  PROVE  /\ \A t \in {"RDY", "noise"} : Numbers(<<Text(t), Text("RDY")>>, Answering) = <<>>
         /\ out # <<>> =>
              /\ Numbers(<<Answer("+CSQ:", Head(out)), Answer("OK", Head(out))>>, Answering)
                   = <<Head(out)>>
              /\ Numbers(<<Answer("+CME ERROR", Head(out))>>, Answering) = <<Head(out)>>
<1>0. Numbered(Elements)
  BY Types
<1>1. ASSUME NEW t \in {"RDY", "noise"}
      PROVE  Numbers(<<Text(t), Text("RDY")>>, Answering) = <<>>
  <2> DEFINE x == <<Text(t), Text("RDY")>>
  <2>1. x \in Seq(Elements)
    BY Sent
  <2>2. \A i \in 1 .. Len(x) : x[i].text \notin Answering
    <3>1. Len(x) = 2 /\ x[1] = Text(t) /\ x[2] = Text("RDY")
      OBVIOUS
    <3>2. Text(t).text = t /\ Text("RDY").text = "RDY"
      BY DEF Text, Ppp!Line
    <3> HIDE DEF x
    <3>3. \A i \in 1 .. Len(x) : x[i].text \in {"RDY", "noise"}
      BY <3>1, <3>2
    <3>4. QED
      BY <3>3 DEF Answering
  <2> HIDE DEF x
  <2>3. Numbers(x, Answering) = <<>>
    BY <1>0, <2>1, <2>2, NumbersNone
  <2>4. QED
    BY <2>3 DEF x
<1>2. ASSUME out # <<>>
      PROVE  /\ Numbers(<<Answer("+CSQ:", Head(out)), Answer("OK", Head(out))>>, Answering)
                  = <<Head(out)>>
             /\ Numbers(<<Answer("+CME ERROR", Head(out))>>, Answering) = <<Head(out)>>
  <2> DEFINE h == Head(out)
             a == Answer("+CSQ:", h)
             b == Answer("OK", h)
             e == Answer("+CME ERROR", h)
             r == <<h>>
             f == <<a>>
             g == <<b>>
  <2>1. h \in Nat
    <3>1. h \in Numberings
      BY <1>2, Sent
    <3> HIDE DEF h
    <3>2. QED
      BY <3>1, Constants DEF Numberings
  <2>2. /\ a.of = h /\ a.text = "+CSQ:" /\ b.of = h /\ b.text = "OK"
        /\ e.of = h /\ e.text = "+CME ERROR"
    BY DEF Answer, Ppp!Line
  <2>3. a \in Elements /\ b \in Elements
    BY <2>1, LineTypes DEF Texts
  <2> HIDE DEF a, b, e, h
  <2>4. /\ Numbers(f, Answering) = <<>> /\ Numbers(g, Answering) = r
        /\ Numbers(<<e>>, Answering) = r
    BY <2>1, <2>2, NumbersOne DEF Number, Answering
  <2>5. <<a, b>> = Cat(f, g) /\ f \in Seq(Elements) /\ g \in Seq(Elements)
    BY <2>3, Pair
  <2> HIDE DEF f, g
  <2>6. Numbers(Cat(f, g), Answering) = Cat(Numbers(f, Answering), Numbers(g, Answering))
    BY <1>0, <2>5, NumbersCat
  <2>7. r \in Seq(Nat)
    BY <2>1
  <2> HIDE DEF r
  <2>8. Cat(<<>>, r) = r
    BY <2>7, CatLaws
  <2>9. Numbers(<<a, b>>, Answering) = r
    BY <2>4, <2>5, <2>6, <2>8
  <2>10. QED
    BY <2>4, <2>9 DEF a, b, e, h, r
<1>3. QED
  BY <1>1, <1>2

LEMMA ModemSendsSound ==
  ASSUME Shape, ModemSteps
  PROVE  \E d \in DataDlcs, s \in Seq(Elements) : ModemSends(d, s) /\ Sound(Uih(d, s))
<1>0. 1 \in DataDlcs /\ 2 \in DataDlcs
  BY DEF DataDlcs
<1>1. \A s \in Seq(Elements) :
        /\ Paired(s) => Sound(Uih(2, s))
        /\ Len(Numbers(s, Answering)) <= 1 => Sound(Uih(1, s))
  BY DEF Sound, Uih
<1>2. CASE Speaks
  <2>1. PICK t \in {"RING", "noise", "CONNECT", "ERROR"} : ModemSends(2, <<Text(t), Ppp!LF>>)
    BY <1>2 DEF Speaks
  <2>2. <<Text(t), Ppp!LF>> \in Seq(Elements) /\ Paired(<<Text(t), Ppp!LF>>)
    BY Sent, SentShape
  <2>3. QED
    BY <1>0, <1>1, <2>1, <2>2
<1>3. CASE \E n \in Nat : Streams(n)
  <2>1. PICK n \in Nat : Streams(n)
    BY <1>3
  <2>2. PppBytes(n) \in Seq(Elements) /\ Paired(PppBytes(n))
    BY Sent, SentShape
  <2>3. ModemSends(2, PppBytes(n))
    BY <2>1 DEF Streams
  <2>4. QED
    BY <1>0, <1>1, <2>2, <2>3
<1>4. Len(<<>>) <= 1 /\ \A h : Len(<<h>>) <= 1
  OBVIOUS
<1>5. CASE Answers \/ Chatters
  <2>1. PICK s \in Seq(Elements) : ModemSends(1, s) /\ Len(Numbers(s, Answering)) <= 1
    BY <1>4, <1>5, Sent, SentAnswers DEF Answers, Chatters
  <2>2. QED
    BY <1>0, <1>1, <2>1
<1>6. QED
  BY <1>2, <1>3, <1>5 DEF ModemSteps

LEMMA LineInvInit == Init => LineInv
  BY DEF Init, LineInv

LEMMA LineInvStep ==
  ASSUME Shape, LineInv, [Next]_vars
  PROVE  LineInv'
<1>0. toHost \in Seq(Frames)
  BY DEF Shape, RxShape
<1>1. CASE ModemSteps
  <2>1. PICK d \in DataDlcs, s \in Seq(Elements) : ModemSends(d, s) /\ Sound(Uih(d, s))
    BY <1>1, ModemSendsSound
  <2> DEFINE f == Uih(d, s)
             v == toHost'
  <2>2. v = Append(toHost, f) /\ Sound(f) /\ f \in Frames
    BY <2>1, Types DEF ModemSends, ToHost
  <2> HIDE DEF f, v
  <2>3. \A i \in 1 .. Len(v) : v[i] = f \/ (i \in 1 .. Len(toHost) /\ v[i] = toHost[i])
    BY <1>0, <2>2
  <2>4. \A i \in 1 .. Len(v) : Sound(v[i])
    BY <2>2, <2>3 DEF LineInv
  <2>5. QED
    BY <2>4 DEF LineInv, v
<1>2. CASE toHost # <<>> /\ toHost' = Tail(toHost)
  <2> DEFINE v == toHost'
  <2>1. v = Tail(toHost)
    BY <1>2
  <2> HIDE DEF v
  <2>2. \A i \in 1 .. Len(v) : i + 1 \in 1 .. Len(toHost) /\ v[i] = toHost[i + 1]
    BY <1>0, <1>2, <2>1
  <2>3. \A i \in 1 .. Len(v) : Sound(v[i])
    BY <2>2 DEF LineInv
  <2>4. QED
    BY <2>3 DEF LineInv, v
<1>3. CASE toHost' = toHost
  BY <1>3 DEF LineInv
<1>4. CASE LossSteps
  BY <1>2, <1>3, <1>4 DEF LossSteps, LosesFrame, LosesCommand, LosesCgdata
<1>5. CASE Dispatches
  <2>1. toHost' = toHost \/ (toHost # <<>> /\ toHost' = Tail(toHost))
    BY <1>5 DEF Dispatches, Rx!ToPipe, Rx!TakeFrame, Rx!WritePipe
  <2>2. QED
    BY <1>2, <1>3, <2>1
<1>6. CASE PppSteps \/ NetSteps \/ StatusSteps \/ Stays
  <2>1. PppSteps => KeepRx \/ \E k \in Nat : Takes(2, k)
    BY DEF PppSteps, Calls, ReadsMore, ReadsLine, ReadsNoText, GivesUp
  <2>2. NetSteps => KeepRx \/ \E k \in Nat : Takes(2, k)
    BY DEF NetSteps, Fills, ReadsPast, Consumes, Exits
  <2>3. StatusSteps \/ Stays => KeepRx \/ \E k \in Nat : Takes(1, k)
    BY DEF StatusSteps, Drains, Drained, Polls, PollReads, PollFails, Stays
  <2>4. (KeepRx => toHost' = toHost) /\ \A d, k : Takes(d, k) => toHost' = toHost
    BY DEF KeepRx, Takes
  <2>5. QED
    BY <1>3, <1>6, <2>1, <2>2, <2>3, <2>4
<1>7. QED
  BY <1>1, <1>4, <1>5, <1>6, StepIs

\* What the line loses is taken out of what is coming.
LEMMA LosesComing ==
  ASSUME Shape, LineInv, LosesFrame, NEW d \in DataDlcs
  PROVE  \E a, f, r \in Seq(Elements) :
           /\ f = Own(Head(toHost), d)
           /\ Coming(d) = Cat(a, Cat(f, r)) /\ Coming(d)' = Cat(a, r)
           /\ d = 2 => Paired(f)
           /\ d = 1 => Len(Numbers(f, Answering)) <= 1
<1> DEFINE h == Head(toHost)
           t == Tail(toHost)
           a == Cat(pipe[d], Own(pending, d))
           f == Own(h, d)
           r == Payload(t, d)
<1>1. /\ toHost # <<>> /\ toHost' = t /\ pipe' = pipe /\ pending' = pending
      /\ toHost \in Seq(Frames) /\ RxShape
  BY DEF LosesFrame, Loses, Shape, RxShape
<1>2. /\ h \in Frames /\ t \in Seq(Frames) /\ h = toHost[1] /\ 1 \in 1 .. Len(toHost)
      /\ Carries(Frames, Elements)
  BY <1>1, Types
<1>3. RxShape'
  BY <1>1, <1>2 DEF RxShape
<1>4. /\ pipe[d] \in Seq(Elements) /\ Own(pending, d) \in Seq(Elements)
      /\ Coming(d) = Cat(pipe[d], Cat(Own(pending, d), Payload(toHost, d)))
      /\ Coming(d)' = Cat(pipe[d], Cat(Own(pending, d), r))
  BY <1>1, <1>3, ComingIs, ComingSoon DEF Parts
<1>5. Payload(toHost, d) = Cat(f, r) /\ r \in Seq(Elements)
  BY <1>1, <1>2, PayloadHead, PayloadType
<1>6. f \in Seq(Elements)
  BY <1>2 DEF Own, Carries
<1>7. /\ d = 2 => Paired(f)
      /\ d = 1 => Len(Numbers(f, Answering)) <= 1
  <2>1. Sound(h)
    BY <1>2 DEF LineInv
  <2>2. Paired(<<>>) /\ Len(Numbers(<<>>, Answering)) <= 1
    BY NumbersEmpty DEF Paired
  <2> HIDE DEF h
  <2>3. QED
    BY <2>1, <2>2 DEF Sound, Own
<1> DEFINE p == pipe[d]
           o == Own(pending, d)
<1> HIDE DEF h, t, f, r, p, o
<1>8. p \in Seq(Elements) /\ o \in Seq(Elements) /\ Cat(f, r) \in Seq(Elements)
  BY <1>4, <1>5, <1>6, CatLaws DEF p, o
<1>9. /\ Cat(p, Cat(o, Cat(f, r))) = Cat(Cat(p, o), Cat(f, r))
      /\ Cat(p, Cat(o, r)) = Cat(Cat(p, o), r)
      /\ Cat(p, o) \in Seq(Elements)
  BY <1>5, <1>8, CatLaws
<1>10. /\ Coming(d) = Cat(a, Cat(f, r)) /\ Coming(d)' = Cat(a, r) /\ a \in Seq(Elements)
  BY <1>4, <1>5, <1>9 DEF p, o
<1>11. QED
  BY <1>5, <1>6, <1>7, <1>10 DEF f, h

\* The line loses nothing of another DLC's.
LEMMA LossElsewhere ==
  ASSUME LosesCommand \/ LosesCgdata
  PROVE  \A d : Coming(d)' = Coming(d)
  BY NothingMoves DEF LosesCommand, LosesCgdata, Loses

\* Where the elements of v stand in w, when those from a on were moved by n.
Moved(v, w, a, n) ==
  \A i \in 1 .. Len(v) :
    /\ i <= a => i \in 1 .. Len(w) /\ v[i] = w[i]
    /\ i > a => i + n \in 1 .. Len(w) /\ v[i] = w[i + n]

LEMMA WaitingLess ==
  ASSUME NEW m, NEW g, NEW a \in Seq(Elements), NEW f \in Seq(Elements),
         NEW r \in Seq(Elements), Paired(f), Waiting(m, g, Cat(a, Cat(f, r)))
  PROVE  Waiting(m, g, Cat(a, r))
<1> DEFINE b == Cat(f, r)
           w == Cat(a, b)
           v == Cat(a, r)
           A == Len(a)
           n == Len(f)
<1>0. Paired(w) /\ Ordered(w) /\ Tied(m, g, w)
  BY DEF Waiting
<1>1. Joins(f, r, b) /\ Joins(a, r, v)
  BY JoinIndex
<1>2. b \in Seq(Elements)
  BY <1>1 DEF Joins
<1> HIDE DEF b
<1>3. Joins(a, b, w)
  BY <1>2, JoinIndex
<1> HIDE DEF v, w
<1>4. /\ A \in Nat /\ n \in Nat /\ Len(r) \in Nat
      /\ Len(v) = A + Len(r) /\ Len(w) = A + n + Len(r)
      /\ \A i \in 1 .. A : v[i] = a[i] /\ w[i] = a[i]
  BY <1>1, <1>3 DEF Joins
<1>5. \A i \in 1 .. n : A + i \in 1 .. Len(w) /\ w[A + i] = f[i]
  <2>1. \A i \in 1 .. n : i \in 1 .. Len(b) /\ b[i] = f[i]
    BY <1>1, <1>4 DEF Joins
  <2>2. QED
    BY <1>3, <1>4, <2>1 DEF Joins
<1>6. \A i \in 1 .. Len(r) : v[A + i] = r[i] /\ w[(A + n) + i] = r[i]
  <2> SUFFICES ASSUME NEW i \in 1 .. Len(r) PROVE v[A + i] = r[i] /\ w[(A + n) + i] = r[i]
    OBVIOUS
  <2>1. v[A + i] = r[i]
    BY <1>1 DEF Joins
  <2>2. b[n + i] = r[i] /\ n + i \in 1 .. Len(b)
    BY <1>1, <1>4 DEF Joins
  <2>3. w[A + (n + i)] = b[n + i] /\ A + (n + i) = (A + n) + i
    BY <1>3, <1>4, <2>2 DEF Joins
  <2>4. QED
    BY <2>1, <2>2, <2>3
<1>7. Moved(v, w, A, n)
  <2> SUFFICES ASSUME NEW i \in 1 .. Len(v)
               PROVE  /\ i <= A => i \in 1 .. Len(w) /\ v[i] = w[i]
                      /\ i > A => i + n \in 1 .. Len(w) /\ v[i] = w[i + n]
    BY DEF Moved
  <2>1. i <= A => i \in 1 .. A /\ i \in 1 .. Len(w)
    BY <1>4
  <2>2. ASSUME i > A PROVE i + n \in 1 .. Len(w) /\ v[i] = w[i + n]
    <3> DEFINE j == i - A
    <3>1. j \in 1 .. Len(r) /\ A + j = i /\ (A + n) + j = i + n /\ i + n \in 1 .. Len(w)
      BY <1>4, <2>2
    <3> HIDE DEF j
    <3>2. QED
      BY <1>6, <3>1
  <2>3. QED
    BY <1>4, <2>1, <2>2
<1>8. CASE n = 0
  <2>1. \A i \in 1 .. Len(v) : i + n = i /\ (i <= A \/ i > A) /\ i \in 1 .. Len(w)
    BY <1>4, <1>8
  <2>2. \A i \in 1 .. Len(v) : v[i] = w[i]
    BY <1>7, <2>1 DEF Moved
  <2>3. Len(v) = Len(w) /\ v \in Seq(Elements) /\ w \in Seq(Elements)
    BY <1>1, <1>3, <1>4, <1>8 DEF Joins
  <2>4. v = w
    BY <2>2, <2>3
  <2>5. QED
    BY <2>4 DEF v, w, b
<1>9. CASE n > 0
  \* f begins with no LF and ends with no body.
  <2>1. w[A + 1] # Ppp!LF /\ ~Body(w[A + n]) /\ A + 1 \in 1 .. Len(w) /\ A + n \in 1 .. Len(w)
    <3>1. 1 \in 1 .. n /\ n \in 1 .. n /\ ~(n + 1 <= n) /\ ~(1 > 1)
      BY <1>4, <1>9
    <3>2. f[1] # Ppp!LF /\ ~Body(f[n])
      BY <3>1 DEF Paired
    <3>3. QED
      BY <1>5, <3>1, <3>2
  <2>2. Paired(v)
    <3> SUFFICES ASSUME NEW i \in 1 .. Len(v)
                 PROVE  /\ v[i] = Ppp!LF \/ v[i].text = "ppp" \/ Body(v[i])
                        /\ Body(v[i]) => i + 1 <= Len(v) /\ v[i + 1] = Ppp!LF
                        /\ v[i] = Ppp!LF => i > 1 /\ Body(v[i - 1])
      BY DEF Paired
    <3>0. i \in Nat /\ (i <= A \/ i > A)
      BY <1>4
    <3>1. CASE i <= A
      <4>1. i \in 1 .. Len(w) /\ v[i] = w[i]
        BY <1>7, <3>1 DEF Moved
      <4>2. /\ w[i] = Ppp!LF \/ w[i].text = "ppp" \/ Body(w[i])
            /\ Body(w[i]) => i + 1 <= Len(w) /\ w[i + 1] = Ppp!LF
            /\ w[i] = Ppp!LF => i > 1 /\ Body(w[i - 1])
        BY <1>0, <4>1 DEF Paired
      <4>3. ASSUME Body(v[i]) PROVE i + 1 <= Len(v) /\ v[i + 1] = Ppp!LF
        <5>1. w[i + 1] = Ppp!LF
          BY <4>1, <4>2, <4>3
        <5>2. i # A
          BY <2>1, <5>1
        <5>3. i + 1 <= A /\ i + 1 \in 1 .. Len(v)
          BY <1>4, <3>0, <3>1, <5>2
        <5>4. v[i + 1] = w[i + 1]
          BY <1>7, <5>3 DEF Moved
        <5>5. QED
          BY <5>1, <5>3, <5>4
      <4>4. ASSUME v[i] = Ppp!LF PROVE i > 1 /\ Body(v[i - 1])
        <5>1. i > 1 /\ Body(w[i - 1])
          BY <4>1, <4>2, <4>4
        <5>2. i - 1 <= A /\ i - 1 \in 1 .. Len(v)
          BY <1>4, <3>0, <3>1, <5>1
        <5>3. v[i - 1] = w[i - 1]
          BY <1>7, <5>2 DEF Moved
        <5>4. QED
          BY <5>1, <5>3
      <4>5. QED
        BY <4>1, <4>2, <4>3, <4>4
    <3>2. CASE i > A
      <4>1. i + n \in 1 .. Len(w) /\ v[i] = w[i + n]
        BY <1>7, <3>2 DEF Moved
      <4>2. /\ w[i + n] = Ppp!LF \/ w[i + n].text = "ppp" \/ Body(w[i + n])
            /\ Body(w[i + n]) => (i + n) + 1 <= Len(w) /\ w[(i + n) + 1] = Ppp!LF
            /\ w[i + n] = Ppp!LF => i + n > 1 /\ Body(w[(i + n) - 1])
        BY <1>0, <4>1 DEF Paired
      <4>3. ASSUME Body(v[i]) PROVE i + 1 <= Len(v) /\ v[i + 1] = Ppp!LF
        <5>1. (i + n) + 1 <= Len(w) /\ w[(i + n) + 1] = Ppp!LF
          BY <4>1, <4>2, <4>3
        <5>2. i + 1 > A /\ i + 1 \in 1 .. Len(v) /\ (i + 1) + n = (i + n) + 1
          BY <1>4, <3>0, <3>2, <5>1
        <5>3. v[i + 1] = w[(i + 1) + n]
          BY <1>7, <5>2 DEF Moved
        <5>4. QED
          BY <5>1, <5>2, <5>3
      <4>4. ASSUME v[i] = Ppp!LF PROVE i > 1 /\ Body(v[i - 1])
        <5>1. Body(w[(i + n) - 1])
          BY <4>1, <4>2, <4>4
        <5>2. i # A + 1
          <6>1. (A + 1 + n) - 1 = A + n
            BY <1>4
          <6>2. QED
            BY <2>1, <5>1, <6>1
        <5>3. i - 1 > A /\ i - 1 \in 1 .. Len(v) /\ (i - 1) + n = (i + n) - 1 /\ i > 1
          BY <1>4, <3>0, <3>2, <5>2
        <5>4. v[i - 1] = w[(i - 1) + n]
          BY <1>7, <5>3 DEF Moved
        <5>5. QED
          BY <5>1, <5>3, <5>4
      <4>5. QED
        BY <4>1, <4>2, <4>3, <4>4
    <3>3. QED
      BY <3>0, <3>1, <3>2
  <2>3. Ordered(v)
    <3> SUFFICES ASSUME NEW i \in 1 .. Len(v), NEW j \in 1 .. Len(v)
                 PROVE  /\ v[i].text = "ppp" /\ i < j => v[j].text = "ppp"
                        /\ v[i].text \in {"CONNECT", "ERROR"} /\ i + 1 < j => v[j].text = "ppp"
      BY DEF Ordered
    <3> DEFINE s(k) == IF k <= A THEN k ELSE k + n
    <3>1. \A k \in 1 .. Len(v) : s(k) \in 1 .. Len(w) /\ v[k] = w[s(k)]
      <4>1. \A k \in 1 .. Len(v) : k <= A \/ k > A
        BY <1>4
      <4>2. QED
        BY <1>7, <4>1 DEF Moved
    <3>2. (i < j => s(i) < s(j)) /\ (i + 1 < j => s(i) + 1 < s(j))
      BY <1>4
    <3> DEFINE x == s(i)
               y == s(j)
    <3>3. x \in 1 .. Len(w) /\ y \in 1 .. Len(w) /\ v[i] = w[x] /\ v[j] = w[y]
      BY <3>1
    <3> HIDE DEF x, y
    <3>4. /\ w[x].text = "ppp" /\ x < y => w[y].text = "ppp"
          /\ w[x].text \in {"CONNECT", "ERROR"} /\ x + 1 < y => w[y].text = "ppp"
      BY <1>0, <3>3 DEF Ordered
    <3>5. (i < j => x < y) /\ (i + 1 < j => x + 1 < y)
      BY <3>2 DEF x, y
    <3>6. QED
      BY <3>3, <3>4, <3>5
  <2>4. Tied(m, g, v)
    <3>1. \A i \in 1 .. Len(v) : \E j \in 1 .. Len(w) : v[i] = w[j]
      <4>1. \A i \in 1 .. Len(v) : i <= A \/ i > A
        BY <1>4
      <4>2. QED
        BY <1>7, <4>1 DEF Moved
    <3>2. QED
      BY <1>0, <3>1 DEF Tied
  <2>5. QED
    BY <2>2, <2>3, <2>4 DEF Waiting, v
<1>10. QED
  BY <1>4, <1>8, <1>9

LEMMA PppInvLoss ==
  ASSUME Shape, PppInv, LineInv, LossSteps
  PROVE  PppInv'
<1>1. /\ Loses /\ UNCHANGED <<ppp, held, buf, pos, lastOut, garbled, faults, pipe>>
      /\ lost' = lost + 1 /\ lost \in Nat /\ lost' # 0
  <2>1. Loses
    BY DEF LossSteps, LosesFrame, LosesCommand, LosesCgdata
  <2>2. lost \in Nat /\ lost + 1 # 0
    <3>1. lost \in Nat
      BY DEF Shape, ModemShape
    <3>2. QED
      BY <3>1
  <2>3. QED
    BY <2>1, <2>2 DEF Loses, KeepPpp, KeepNet
<1>2. CASE LosesCommand
  BY <1>1, <1>2, LossElsewhere, PppInvKept DEF LosesCommand
<1>3. CASE LosesCgdata
  <2>1. /\ dlc2 \in {"at", "said"} /\ dlc2' = "unasked" /\ ppp # "call"
        /\ Coming(2)' = Coming(2)
    BY <1>3, LossElsewhere DEF LosesCgdata
  <2>2. ppp \notin {"connected", "failed"}
    BY <2>1 DEF PppInv, StartPppIsExplained
  <2>3. \A w : Waiting(dlc2, garbled, w) => Waiting("unasked", garbled, w)
    BY <2>1 DEF Waiting, Tied
  <2>4. ppp = "timeout" => faults' + lost' > 0 \/ Len(pipe'[1]) = DLC1_PIPE_BYTES
    <3>1. faults \in Nat
      BY DEF Shape, ModemShape
    <3>2. faults + (lost + 1) > 0
      BY <1>1, <3>1
    <3>3. QED
      BY <1>1, <3>2
  <2>5. lost' > 0
    BY <1>1
  <2>6. StartPppIsExplained'
    BY <1>1, <2>1, <2>2, <2>4, <2>5 DEF StartPppIsExplained
  <2>7. QED
    BY <1>1, <2>1, <2>2, <2>3, <2>6 DEF PppInv
<1>4. CASE LosesFrame
  <2>1. 2 \in DataDlcs /\ held \in Seq(Elements)
    BY DEF DataDlcs, Shape, PppShape
  <2>2. PICK a, f, r \in Seq(Elements) :
          /\ Coming(2) = Cat(a, Cat(f, r)) /\ Coming(2)' = Cat(a, r) /\ Paired(f)
    BY <1>4, <2>1, LosesComing
  <2>3. /\ Cat(f, r) \in Seq(Elements) /\ Cat(held, a) \in Seq(Elements)
        /\ Cat(held, Cat(a, Cat(f, r))) = Cat(Cat(held, a), Cat(f, r))
        /\ Cat(held, Cat(a, r)) = Cat(Cat(held, a), r)
    <3>1. Cat(f, r) \in Seq(Elements) /\ Cat(held, a) \in Seq(Elements)
      BY <2>1, CatLaws
    <3>2. QED
      BY <2>1, <3>1, CatLaws
  <2>4. ASSUME ppp = "reply" PROVE Waiting(dlc2, garbled, Cat(held, Coming(2)'))
    <3>1. Waiting(dlc2, garbled, Cat(Cat(held, a), Cat(f, r)))
      BY <2>2, <2>3, <2>4 DEF PppInv
    <3>2. Waiting(dlc2, garbled, Cat(Cat(held, a), r))
      BY <2>2, <2>3, <3>1, WaitingLess
    <3>3. QED
      BY <2>2, <2>3, <3>2
  <2>5. ASSUME ppp = "connected" PROVE AllPpp(Coming(2)')
    <3>1. AllPpp(Cat(a, Cat(f, r)))
      BY <2>2, <2>5 DEF PppInv
    <3>2. AllPpp(a) /\ AllPpp(r)
      BY <2>3, <3>1, AllPppCat
    <3>3. QED
      BY <2>2, <3>2, AllPppCat
  <2>6. ASSUME ppp = "call" PROVE Coming(2)' = <<>>
    <3>1. Cat(a, Cat(f, r)) = <<>>
      BY <2>2, <2>6 DEF PppInv
    <3>2. Len(Cat(a, Cat(f, r))) = Len(a) + (Len(f) + Len(r)) /\ Len(Cat(a, r)) = Len(a) + Len(r)
      BY DEF Cat
    <3>3. Len(Cat(a, r)) = 0 /\ Cat(a, r) \in Seq(Elements)
      <4>0. Cat(a, r) \in Seq(Elements)
        BY CatLaws
      <4>1. Cat(a, r) \in Seq(Elements) /\ Len(a) \in Nat /\ Len(f) \in Nat /\ Len(r) \in Nat
        BY <4>0
      <4>2. Len(<<>>) = 0
        OBVIOUS
      <4>3. QED
        BY <3>1, <3>2, <4>1, <4>2
    <3>4. QED
      BY <2>2, <3>3
  <2>7. dlc2' = dlc2
    BY <1>4 DEF LosesFrame
  <2>8. StartPppIsExplained'
    BY <1>1, <2>7, ExplainedKept
  <2>9. AllPpp(buf) => AllPpp(buf')
    BY <1>1
  <2>10. QED
    BY <1>1, <2>4, <2>5, <2>6, <2>7, <2>8, <2>9 DEF PppInv
<1>5. QED
  BY <1>2, <1>3, <1>4 DEF LossSteps

LEMMA PppInvStep ==
  ASSUME Shape, PppInv, LineInv, [Next]_vars
  PROVE  PppInv'
<1>1. CASE Dispatches
  <2>1. 1 \in DataDlcs /\ 2 \in DataDlcs /\ RxShape /\ PIPE_BYTES(1) = DLC1_PIPE_BYTES
    BY DEF DataDlcs, Shape, PIPE_BYTES
  <2>2. /\ Coming(2)' = Coming(2)
        /\ Len(pipe[1]) = DLC1_PIPE_BYTES => pipe'[1] = pipe[1]
    BY <1>1, <2>1, RxMoves DEF Dispatches
  <2>3. QED
    BY <1>1, <2>2, PppInvKept DEF Dispatches, KeepPpp, KeepNet, KeepModem, KeepCounts
<1>2. CASE Stays
  BY <1>2, NothingMoves, PppInvKept DEF Stays, KeepRx, KeepPpp, KeepNet, KeepModem, KeepCounts
<1>3. QED
  BY <1>1, <1>2, StepIs, PppInvStart, PppInvReadsLine, PppInvEnds, PppInvNet,
     PppInvStatus, PppInvModem, PppInvLoss DEF PppSteps

LEMMA ShapeAlways == FairSpec => [](Shape /\ PppInv /\ LineInv)
<1>1. Init => Shape /\ PppInv /\ LineInv
  BY ShapeInit, PppInvInit, LineInvInit
<1>2. Shape /\ PppInv /\ LineInv /\ [Next]_vars => Shape' /\ PppInv' /\ LineInv'
  BY ShapeStep, PppInvStep, LineInvStep
<1>3. QED
  BY <1>1, <1>2, PTL DEF FairSpec

\* TypeOK: the pipes and buffers never hold more than they can, status_task
\* exists exactly from CONNECT on, and what the PPP runner gets is PPP.
THEOREM DataModeTypeOK == FairSpec => []TypeOK
<1>1. Shape /\ PppInv => TypeOK
  BY DEF Shape, RxShape, PppShape, NetShape, StatusShape, ModemShape, PppInv, TypeOK,
         Numberings
<1>2. QED
  BY <1>1, ShapeAlways, PTL

\* StartPppIsExplained: start_ppp() connects only to a modem in data mode and
\* fails only where the modem refused; it times out only if something was late
\* or lost, or because nobody reads DLC1 and its pipe is full; it returns an I/O
\* error only after a line that is no text or a loss.
THEOREM DataModeStartPpp == FairSpec => []StartPppIsExplained
<1>1. PppInv => StartPppIsExplained
  BY DEF PppInv
<1>2. QED
  BY <1>1, ShapeAlways, PTL

-----------------------------------------------------------------------------
(* How old an answer is.                                                   *)

\* How many polls the one numbered x lies behind the one numbered n.
Lag(n, x) == (n + Numbering - x) % Numbering

LEMMA ModSmall ==
  /\ \A a \in 0 .. Numbering - 1 : a % Numbering = a
  /\ \A a \in 0 .. Numbering - 1 : (a + Numbering) % Numbering = a
<1>1. Numbering \in Nat \ {0}
  BY Constants
<1>2. \A a \in 0 .. Numbering - 1 : a % Numbering = a
  BY <1>1
<1>3. \A a \in 0 .. Numbering - 1 : (a + Numbering) % Numbering = a
  BY <1>1
<1>4. QED
  BY <1>2, <1>3

LEMMA LagIs ==
  ASSUME NEW n \in Numberings, NEW x \in Numberings
  PROVE  Lag(n, x) = IF x <= n THEN n - x ELSE n + Numbering - x
<1>1. Numbering \in Nat \ {0} /\ n \in 0 .. Numbering - 1 /\ x \in 0 .. Numbering - 1
  BY Constants DEF Numberings
<1>2. CASE x <= n
  <2>1. n - x \in 0 .. Numbering - 1 /\ n + Numbering - x = (n - x) + Numbering
    BY <1>1, <1>2
  <2>2. ((n - x) + Numbering) % Numbering = n - x
    BY <2>1, ModSmall
  <2>3. QED
    BY <1>2, <2>1, <2>2 DEF Lag
<1>3. CASE ~(x <= n)
  <2>1. n + Numbering - x \in 0 .. Numbering - 1
    BY <1>1, <1>3
  <2>2. QED
    BY <1>3, <2>1, ModSmall DEF Lag
<1>4. QED
  BY <1>2, <1>3

LEMMA LagLaws ==
  /\ \A n, x \in Numberings : Lag(n, x) \in Nat /\ (Lag(n, x) <= 0 => x = n)
  /\ \A n \in Numberings : Lag(n, n) = 0
  /\ \A n, x \in Numberings :
       /\ (n + 1) % Numbering \in Numberings
       /\ Lag((n + 1) % Numbering, x) <= Lag(n, x) + 1
<1>0. Numbering \in Nat \ {0} /\ Numberings = 0 .. Numbering - 1
  BY Constants DEF Numberings
<1>1. ASSUME NEW n \in Numberings, NEW x \in Numberings
      PROVE  Lag(n, x) \in Nat /\ (Lag(n, x) <= 0 => x = n)
  BY <1>0, LagIs
<1>2. ASSUME NEW n \in Numberings PROVE Lag(n, n) = 0
  BY <1>0, LagIs
<1>3. ASSUME NEW n \in Numberings, NEW x \in Numberings
      PROVE  /\ (n + 1) % Numbering \in Numberings
             /\ Lag((n + 1) % Numbering, x) <= Lag(n, x) + 1
  <2> DEFINE m == (n + 1) % Numbering
  <2>1. CASE n + 1 < Numbering
    <3>1. m = n + 1
      BY <1>0, <2>1, ModSmall
    <3> HIDE DEF m
    <3>2. m \in Numberings
      BY <1>0, <2>1, <3>1
    <3>3. /\ Lag(m, x) = IF x <= m THEN m - x ELSE m + Numbering - x
          /\ Lag(n, x) = IF x <= n THEN n - x ELSE n + Numbering - x
      BY <3>2, LagIs
    <3> DEFINE p == Lag(m, x)
               q == Lag(n, x)
    <3> HIDE DEF p, q
    <3>4. p <= q + 1
      BY <1>0, <2>1, <3>1, <3>3 DEF p, q
    <3>5. Lag(m, x) <= Lag(n, x) + 1
      BY <3>4 DEF p, q
    <3>6. QED
      BY <3>2, <3>5 DEF m
  <2>2. CASE n + 1 = Numbering
    <3>1. m = 0
      <4>1. 0 + Numbering = n + 1 /\ 0 \in 0 .. Numbering - 1
        BY <1>0, <2>2
      <4>2. QED
        BY <4>1, ModSmall
    <3> HIDE DEF m
    <3>2. m \in Numberings
      BY <1>0, <3>1
    <3>3. /\ Lag(m, x) = IF x <= m THEN m - x ELSE m + Numbering - x
          /\ Lag(n, x) = IF x <= n THEN n - x ELSE n + Numbering - x
      BY <3>2, LagIs
    <3> DEFINE p == Lag(m, x)
               q == Lag(n, x)
    <3> HIDE DEF p, q
    <3>4. p <= q + 1
      BY <1>0, <2>2, <3>1, <3>3 DEF p, q
    <3>5. Lag(m, x) <= Lag(n, x) + 1
      BY <3>4 DEF p, q
    <3>6. QED
      BY <3>2, <3>5 DEF m
  <2>3. QED
    BY <1>0, <2>1, <2>2
<1>4. QED
  BY <1>1, <1>2, <1>3

\* The polls in w are behind the one numbered n by no more than their distance
\* from the end, and s that are missing.
Fresh(w, n, s) ==
  \A i \in 1 .. Len(w) : w[i] \in Numberings /\ Lag(n, w[i]) <= (Len(w) - i) + s

LEMMA FreshDrop ==
  ASSUME NEW a \in Seq(Nat), NEW b \in Seq(Nat), NEW n, NEW s, Fresh(Cat(a, b), n, s)
  PROVE  Fresh(b, n, s)
<1> DEFINE c == Cat(a, b)
<1>1. /\ Len(a) \in Nat /\ Len(b) \in Nat /\ Len(c) = Len(a) + Len(b)
      /\ \A i \in 1 .. Len(b) : c[Len(a) + i] = b[i]
  BY DEF Cat
<1> HIDE DEF c
<1>2. ASSUME NEW i \in 1 .. Len(b) PROVE b[i] \in Numberings /\ Lag(n, b[i]) <= (Len(b) - i) + s
  <2> DEFINE j == Len(a) + i
  <2>1. j \in 1 .. Len(c) /\ Len(c) - j = Len(b) - i /\ c[j] = b[i]
    BY <1>1
  <2> HIDE DEF j
  <2>2. c[j] \in Numberings /\ Lag(n, c[j]) <= (Len(c) - j) + s
    BY <2>1 DEF Fresh, c
  <2>3. QED
    BY <2>1, <2>2
<1>3. QED
  BY <1>2 DEF Fresh

LEMMA FreshGrow ==
  ASSUME NEW w \in Seq(Nat), NEW n \in Numberings, NEW s \in Nat, Fresh(w, n, s),
         NEW m, m = (n + 1) % Numbering
  PROVE  Fresh(w \o <<m>>, m, s)
<1> DEFINE c == w \o <<m>>
<1>0. m \in Numberings /\ Lag(m, m) = 0
  BY LagLaws
<1>1. Len(w) \in Nat /\ Len(c) = Len(w) + 1 /\ c[Len(w) + 1] = m /\ \A i \in 1 .. Len(w) : c[i] = w[i]
  OBVIOUS
<1> HIDE DEF c
<1>2. ASSUME NEW i \in 1 .. Len(w) PROVE c[i] \in Numberings /\ Lag(m, c[i]) <= (Len(c) - i) + s
  <2> DEFINE x == w[i]
  <2>1. x \in Numberings /\ Lag(n, x) <= (Len(w) - i) + s /\ c[i] = x
    BY <1>1 DEF Fresh
  <2> HIDE DEF x
  <2>2. Lag(n, x) \in Nat /\ Lag(m, x) \in Nat /\ Lag(m, x) <= Lag(n, x) + 1
    BY <1>0, <2>1, LagLaws
  <2>3. QED
    BY <1>1, <2>1, <2>2
<1>3. \A i \in 1 .. Len(c) : i \in 1 .. Len(w) \/ i = Len(w) + 1
  BY <1>1
<1>4. ASSUME NEW i \in 1 .. Len(c) PROVE c[i] \in Numberings /\ Lag(m, c[i]) <= (Len(c) - i) + s
  <2>1. CASE i \in 1 .. Len(w)
    BY <1>2, <2>1
  <2>2. CASE i = Len(w) + 1
    BY <1>0, <1>1, <2>2
  <2>3. QED
    BY <1>3, <2>1, <2>2
<1>5. QED
  BY <1>4 DEF Fresh, c

LEMMA CatLen ==
  ASSUME NEW T, NEW a \in Seq(T), NEW b \in Seq(T)
  PROVE  /\ Len(Cat(a, b)) = Len(a) + Len(b) /\ Len(a) \in Nat /\ Len(b) \in Nat
         /\ \A i \in 1 .. Len(a) : Cat(a, b)[i] = a[i]
         /\ \A i \in 1 .. Len(b) : Cat(a, b)[Len(a) + i] = b[i]
  BY DEF Cat

LEMMA CatIndex ==
  \A x, y \in Seq(Nat) :
    /\ Len(Cat(x, y)) = Len(x) + Len(y)
    /\ \A i \in 1 .. Len(x) : Cat(x, y)[i] = x[i]
    /\ \A i \in 1 .. Len(y) : Cat(x, y)[Len(x) + i] = y[i]
<1>1. ASSUME NEW x \in Seq(Nat), NEW y \in Seq(Nat)
      PROVE  /\ Len(Cat(x, y)) = Len(x) + Len(y)
             /\ \A i \in 1 .. Len(x) : Cat(x, y)[i] = x[i]
             /\ \A i \in 1 .. Len(y) : Cat(x, y)[Len(x) + i] = y[i]
  BY DEF Cat
<1>2. QED
  BY <1>1

\* Where one of the polls goes, those before it are one place nearer to the end.
LEMMA FreshLess ==
  ASSUME NEW a \in Seq(Nat), NEW f \in Seq(Nat), NEW r \in Seq(Nat), Len(f) <= 1,
         NEW n \in Numberings, NEW s \in Nat, Fresh(Cat(a, Cat(f, r)), n, s)
  PROVE  /\ Fresh(Cat(a, r), n, s + 1)
         /\ Len(Cat(a, r)) = Len(Cat(a, Cat(f, r))) - Len(f)
<1> DEFINE b == Cat(f, r)
           w == Cat(a, b)
           v == Cat(a, r)
           A == Len(a)
           F == Len(f)
           R == Len(r)
<1>0. b \in Seq(Nat) /\ w \in Seq(Nat) /\ v \in Seq(Nat) /\ F \in {0, 1}
  <2>1. b \in Seq(Nat)
    BY CatLaws
  <2> HIDE DEF b
  <2>2. w \in Seq(Nat) /\ v \in Seq(Nat)
    BY <2>1, CatLaws
  <2>3. F \in {0, 1}
    <3>1. F \in Nat /\ F <= 1
      OBVIOUS
    <3> HIDE DEF F
    <3>2. QED
      BY <3>1
  <2>4. QED
    BY <2>1, <2>2, <2>3
<1>1. /\ Len(b) = F + R /\ \A i \in 1 .. R : b[F + i] = r[i]
      /\ A \in Nat /\ F \in {0, 1} /\ R \in Nat
  BY <1>0, CatLen
<1> HIDE DEF b
<1>2. /\ Len(w) = A + (F + R) /\ (\A i \in 1 .. A : w[i] = a[i])
      /\ \A i \in 1 .. F + R : w[A + i] = b[i]
  <2>1. /\ Len(w) = A + Len(b) /\ (\A i \in 1 .. A : w[i] = a[i])
        /\ \A i \in 1 .. Len(b) : w[A + i] = b[i]
    BY <1>0, CatIndex
  <2>2. QED
    BY <1>1, <2>1
<1>3. /\ Len(v) = A + R /\ (\A i \in 1 .. A : v[i] = a[i])
      /\ \A i \in 1 .. R : v[A + i] = r[i]
  BY CatLen
<1> HIDE DEF w, v, A, F, R
<1>4. \A i \in 1 .. Len(w) : w[i] \in Numberings /\ Lag(n, w[i]) <= (Len(w) - i) + s
  BY DEF Fresh, w, b
<1> DEFINE W == Len(w)
           V == Len(v)
<1>L. /\ W = A + (F + R) /\ V = A + R
      /\ A \in Nat /\ (F = 0 \/ F = 1) /\ R \in Nat
  BY <1>1, <1>2, <1>3
<1>5. ASSUME NEW i \in 1 .. Len(v)
      PROVE  v[i] \in Numberings /\ Lag(n, v[i]) <= (Len(v) - i) + (s + 1)
  <2> DEFINE j == IF i <= A THEN i ELSE i + F
  <2>0. i \in 1 .. V
    OBVIOUS
  <2> HIDE DEF W, V
  <2>1. j \in 1 .. W /\ W - j <= (V - i) + 1
    <3>1. CASE i <= A
      <4>1. j = i
        BY <3>1
      <4> HIDE DEF j
      <4>2. QED
        BY <1>L, <2>0, <3>1, <4>1
    <3>2. CASE i > A
      <4>0. i \in Nat /\ ~(i <= A)
        BY <1>L, <2>0, <3>2
      <4>1. j = i + F
        BY <4>0
      <4> HIDE DEF j
      <4>2. QED
        BY <1>L, <2>0, <3>2, <4>1
    <3>3. QED
      BY <1>L, <2>0, <3>1, <3>2
  <2> USE DEF W, V
  <2>2. v[i] = w[j]
    <3>1. CASE i <= A
      BY <1>1, <1>2, <1>3, <3>1
    <3>2. CASE i > A
      <4> DEFINE k == i - A
      <4>0. i \in Nat /\ i <= A + R /\ j = i + F
        BY <1>1, <1>3, <3>2
      <4>1. k \in 1 .. R /\ F + k \in 1 .. F + R /\ i = A + k /\ j = A + (F + k)
        <5> HIDE DEF j
        <5>1. QED
          BY <1>1, <3>2, <4>0
      <4> HIDE DEF k, j
      <4>2. v[i] = r[k] /\ w[j] = b[F + k] /\ b[F + k] = r[k]
        BY <1>1, <1>2, <1>3, <4>1
      <4>3. QED
        BY <4>2
    <3>3. QED
      BY <1>1, <3>1, <3>2
  <2> HIDE DEF j
  <2> DEFINE x == v[i]
  <2>3. x \in Numberings /\ Lag(n, x) <= (Len(w) - j) + s
    BY <1>4, <2>1, <2>2
  <2>4. Lag(n, x) \in Nat
    BY <2>3, LagLaws
  <2> HIDE DEF x
  <2>5. Lag(n, x) <= (V - i) + (s + 1)
    <3>1. Lag(n, x) <= (W - j) + s
      BY <2>3
    <3> DEFINE y == Lag(n, x)
    <3>2. y \in Nat
      BY <2>4
    <3> HIDE DEF y, W, V
    <3>3. W - j \in Int /\ V - i \in Int
      BY <1>L, <2>0, <2>1
    <3> DEFINE d == W - j
               e == V - i
    <3>4. d <= e + 1 /\ y <= d + s
      BY <2>1, <3>1 DEF y
    <3> HIDE DEF d, e
    <3>5. d \in Int /\ e \in Int
      BY <3>3 DEF d, e
    <3>6. y <= e + (s + 1)
      BY <3>2, <3>4, <3>5
    <3>7. QED
      BY <3>6 DEF y, e
  <2>6. QED
    BY <2>3, <2>5 DEF x
<1>6. Len(v) = Len(w) - F
  <2> HIDE DEF W, V
  <2>1. V = W - F
    BY <1>L
  <2>2. QED
    BY <2>1 DEF W, V
<1>7. QED
  BY <1>5, <1>6 DEF Fresh, w, v, b, F

LEMMA FreshWiden ==
  ASSUME NEW w \in Seq(Nat), NEW n \in Numberings, NEW s \in Nat, Fresh(w, n, s)
  PROVE  Fresh(w, n, s + 1)
<1>0. <<>> \in Seq(Nat) /\ Len(<<>>) <= 1
  OBVIOUS
<1>1. w = Cat(w, Cat(<<>>, <<>>)) /\ w = Cat(w, <<>>) /\ <<>> \in Seq(Nat) /\ Len(<<>>) <= 1
  <2>1. Cat(<<>>, <<>>) = <<>> /\ Cat(w, <<>>) = w
    BY <1>0, CatLaws
  <2>2. QED
    BY <1>0, <2>1
<1>2. Fresh(Cat(w, Cat(<<>>, <<>>)), n, s)
  BY <1>1
<1>3. Fresh(Cat(w, <<>>), n, s + 1)
  BY <1>1, <1>2, FreshLess
<1>4. QED
  BY <1>1, <1>3

-----------------------------------------------------------------------------
(* The polls that are not answered yet.                                    *)

Done == {"OK", "ERROR"}

Unanswered == Numbers(Coming(1), Answering)
Owed == Cat(Unanswered, out)

\* The poll that is going on, where its answer is owed.
Open == IF status = "poll" /\ Has(Owed, nsent) THEN 1 ELSE 0

StatusInv ==
  /\ ~exited =>
       /\ Fresh(Owed, nsent, lost)
       /\ Len(Owed) <= faults + Open
       /\ \A i \in 1 .. Len(acc) : acc[i].text \in Done =>
            /\ acc[i].of \in Numberings /\ Lag(nsent, acc[i].of) <= faults + lost
            /\ status = "poll" => Len(Owed) <= faults
  /\ status = "poll" =>
       /\ ~Status!Ends(acc)
       /\ \/ Has(Owed, nsent) \/ dropped \/ robbed
          \/ \E i \in 1 .. Len(acc) : acc[i].text \in Answering

LEMMA Widen ==
  ASSUME NEW S, NEW T, S \subseteq T, NEW s \in Seq(S)
  PROVE  s \in Seq(T)
<1>1. Len(s) \in Nat /\ s = [i \in 1 .. Len(s) |-> s[i]] /\ \A i \in 1 .. Len(s) : s[i] \in T
  OBVIOUS
<1>2. QED
  BY <1>1

LEMMA OwedType ==
  ASSUME Shape
  PROVE  /\ Coming(1) \in Seq(Elements) /\ Unanswered \in Seq(Nat) /\ out \in Seq(Nat)
         /\ Owed \in Seq(Nat)
<1>1. Coming(1) \in Seq(Elements)
  <2>1. 1 \in DataDlcs /\ RxShape
    BY DEF DataDlcs, Shape
  <2>2. QED
    BY <2>1, ComingIs
<1>2. Unanswered \in Seq(Nat)
  BY <1>1, NumbersType, Types DEF Unanswered
<1>3. out \in Seq(Nat)
  <2>1. out \in Seq(Numberings) /\ Numberings \subseteq Nat
    BY Constants DEF Shape, ModemShape, Numberings
  <2> HIDE DEF Numberings
  <2>2. QED
    BY <2>1, Widen
<1>4. Owed \in Seq(Nat)
  BY <1>2, <1>3, CatLaws DEF Owed
<1>5. QED
  BY <1>1, <1>2, <1>3, <1>4

\* Nothing of it changes.
LEMMA StatusInvKept ==
  ASSUME Shape, StatusInv, Owed' = Owed, UNCHANGED <<acc, dropped, nsent, robbed>>,
         status' = status \/ (status # "poll" /\ status' # "poll"),
         exited' = exited \/ exited' = TRUE,
         faults' = faults \/ faults' = faults + 1,
         lost' = lost \/ lost' = lost + 1
  PROVE  StatusInv'
<1>0. /\ faults \in Nat /\ lost \in Nat /\ acc \in Seq(Elements) /\ nsent \in Numberings
      /\ Owed \in Seq(Nat) /\ Len(Owed) \in Nat /\ exited \in BOOLEAN
  <2>1. Owed \in Seq(Nat) /\ Len(Owed) \in Nat
    <3>1. Owed \in Seq(Nat)
      BY OwedType
    <3> HIDE DEF Owed
    <3>2. QED
      BY <3>1
  <2>2. QED
    BY <2>1 DEF Shape, ModemShape, StatusShape, NetShape
<1>1. Open' = Open
  BY DEF Open
<1>2. Open \in {0, 1} /\ (status # "poll" => Open = 0)
  BY DEF Open
<1>3. ASSUME ~exited'
      PROVE  /\ Fresh(Owed', nsent', lost')
             /\ Len(Owed') <= faults' + Open'
             /\ \A i \in 1 .. Len(acc') : acc'[i].text \in Done =>
                  /\ acc'[i].of \in Numberings /\ Lag(nsent', acc'[i].of) <= faults' + lost'
                  /\ status' = "poll" => Len(Owed') <= faults'
  <2>1. ~exited
    BY <1>3
  <2>2. Fresh(Owed', nsent', lost')
    <3>1. Fresh(Owed, nsent, lost)
      BY <2>1 DEF StatusInv
    <3>2. Fresh(Owed, nsent, lost + 1)
      BY <1>0, <3>1, FreshWiden
    <3>3. Fresh(Owed, nsent, lost')
      BY <3>1, <3>2
    <3>4. QED
      BY <3>3
  <2> DEFINE n == Len(Owed)
             o == Open
             f == faults'
             l == lost'
  <2>3. /\ n <= faults + o /\ n \in Nat /\ o \in {0, 1}
        /\ f \in Nat /\ faults <= f /\ l \in Nat /\ lost <= l
    BY <1>0, <1>2, <2>1 DEF StatusInv
  <2>4. Len(Owed') = n /\ Open' = o
    BY <1>1
  <2> HIDE DEF n, f, l, o
  <2>5. n <= f + o
    BY <1>0, <2>3
  <2>6. ASSUME NEW i \in 1 .. Len(acc), acc[i].text \in Done
        PROVE  /\ acc[i].of \in Numberings /\ Lag(nsent, acc[i].of) <= f + l
               /\ status' = "poll" => n <= f
    <3>1. /\ acc[i].of \in Numberings /\ Lag(nsent, acc[i].of) <= faults + lost
          /\ status = "poll" => n <= faults
      BY <2>1, <2>6 DEF StatusInv, n
    <3>2. Lag(nsent, acc[i].of) \in Nat
      BY <1>0, <3>1, LagLaws
    <3>3. status' = "poll" => status = "poll"
      OBVIOUS
    <3> DEFINE g == Lag(nsent, acc[i].of)
    <3> HIDE DEF g
    <3>4. g \in Nat /\ g <= faults + lost => g <= f + l
      BY <1>0, <2>3
    <3>5. n <= faults => n <= f
      BY <1>0, <2>3
    <3>6. QED
      BY <3>1, <3>2, <3>3, <3>4, <3>5 DEF g
  <2>7. QED
    BY <2>2, <2>4, <2>5, <2>6 DEF f, l
<1>4. ASSUME status' = "poll"
      PROVE  /\ ~Status!Ends(acc)'
             /\ \/ Has(Owed', nsent') \/ dropped' \/ robbed'
                \/ \E i \in 1 .. Len(acc') : acc'[i].text \in Answering
  <2>1. status = "poll"
    BY <1>4
  <2>2. Status!Ends(acc)' = Status!Ends(acc)
    BY DEF Status!Ends
  <2>3. QED
    BY <2>1, <2>2 DEF StatusInv
<1>5. QED
  BY <1>3, <1>4 DEF StatusInv

LEMMA OwedSame ==
  ASSUME Coming(1)' = Coming(1), out' = out
  PROVE  Owed' = Owed
  BY DEF Owed, Unanswered

LEMMA StatusInvInit == Init => StatusInv
<1> SUFFICES ASSUME Init PROVE StatusInv
  OBVIOUS
<1>1. status = "off" /\ acc = <<>> /\ out = <<>> /\ faults = 0 /\ lost = 0
  BY DEF Init, Status!Init
<1>2. Owed = <<>>
  <2>1. 1 \in DataDlcs /\ RxShape
    BY ShapeInit DEF DataDlcs, Shape
  <2>2. pipe[1] = <<>> /\ toHost = <<>> /\ Own(pending, 1) = <<>>
    BY <2>1 DEF Init, Own, Uih
  <2>3. Payload(toHost, 1) = <<>> /\ Cat(<<>>, <<>>) = <<>>
    BY <2>2, PayloadEmpty DEF Cat
  <2>4. Coming(1) = <<>>
    BY <2>1, <2>2, <2>3, ComingIs DEF Parts
  <2>5. Unanswered = <<>>
    BY <2>4, NumbersEmpty DEF Unanswered
  <2>6. QED
    BY <1>1, <2>3, <2>5 DEF Owed
<1>3. Fresh(Owed, nsent, lost) /\ Len(Owed) <= 0
  BY <1>2 DEF Fresh
<1>4. Open = 0
  BY <1>1 DEF Open
<1>5. QED
  BY <1>1, <1>3, <1>4 DEF StatusInv

\* Only DLC1, status_task and the modem's answers matter.
LEMMA StatusInvOthers ==
  ASSUME Shape, StatusInv,
         PppSteps \/ NetSteps \/ Dispatches \/ Speaks \/ (\E n \in Nat : Streams(n))
           \/ Drained \/ LosesCgdata \/ Stays
  PROVE  StatusInv'
<1>0. 1 \in DataDlcs /\ 2 \in DataDlcs /\ RxShape
  BY DEF DataDlcs, Shape
<1>1. Coming(1)' = Coming(1)
  <2>1. CASE \E k \in Nat : ReadsMore(k) \/ Fills(k) \/ ReadsPast(k)
    <3>1. PICK k \in Nat : Takes(2, k)
      BY <2>1 DEF ReadsMore, Fills, ReadsPast
    <3>2. QED
      BY <1>0, <3>1, TakesComing
  <2>2. CASE \/ Calls \/ ReadsLine \/ ReadsNoText \/ GivesUp
             \/ (\E n \in Nat : Consumes(n)) \/ Exits \/ Drained \/ LosesCgdata \/ Stays
    <3>1. KeepRx
      BY <2>2 DEF Calls, ReadsLine, ReadsNoText, GivesUp, Consumes, Exits, Drained,
                  LosesCgdata, Loses, Stays, KeepRx
    <3>2. QED
      BY <3>1, NothingMoves DEF KeepRx
  <2>3. CASE Dispatches
    BY <1>0, <2>3, RxMoves DEF Dispatches
  <2>4. CASE Speaks \/ (\E n \in Nat : Streams(n))
    <3>1. PICK s \in Seq(Elements) : ModemSends(2, s)
      BY <2>4, Sent DEF Speaks, Streams
    <3>2. QED
      BY <1>0, <3>1, ToHostComing DEF ModemSends
  <2>5. QED
    BY <2>1, <2>2, <2>3, <2>4 DEF PppSteps, NetSteps
<1>2. /\ out' = out /\ UNCHANGED <<acc, dropped, nsent, robbed>>
      /\ exited' = exited \/ exited' = TRUE
      /\ faults' = faults \/ faults' = faults + 1
      /\ lost' = lost \/ lost' = lost + 1
  <2>1. CASE PppSteps
    BY <2>1 DEF PppSteps, Calls, ReadsMore, ReadsLine, ReadsNoText, GivesUp,
                KeepStatus, KeepNet, KeepCounts
  <2>2. CASE NetSteps
    BY <2>2 DEF NetSteps, Fills, ReadsPast, Consumes, Exits, KeepStatus, KeepCounts
  <2>3. CASE Dispatches \/ Drained \/ Stays
    BY <2>3 DEF Dispatches, Drained, Stays, KeepStatus, KeepNet, KeepCounts
  <2>4. CASE Speaks \/ (\E n \in Nat : Streams(n))
    BY <2>4 DEF Speaks, Streams, ModemSends, KeepStatus, KeepNet, KeepCounts
  <2>5. CASE LosesCgdata
    BY <2>5 DEF LosesCgdata, Loses, KeepNet
  <2>6. QED
    BY <2>1, <2>2, <2>3, <2>4, <2>5
<1>3. status' = status \/ (status # "poll" /\ status' # "poll")
  <2>1. CASE ReadsLine
    BY <2>1 DEF ReadsLine, Shape, StatusShape
  <2>2. CASE Calls \/ (\E k \in Nat : ReadsMore(k)) \/ ReadsNoText \/ GivesUp
    BY <2>2 DEF Calls, ReadsMore, ReadsNoText, GivesUp, KeepStatus
  <2>3. CASE NetSteps
    BY <2>3 DEF NetSteps, Fills, ReadsPast, Consumes, Exits, KeepStatus
  <2>4. CASE Dispatches \/ Drained \/ Stays
    BY <2>4 DEF Dispatches, Drained, Stays, KeepStatus
  <2>5. CASE Speaks \/ (\E n \in Nat : Streams(n))
    BY <2>5 DEF Speaks, Streams, ModemSends, KeepStatus
  <2>6. CASE LosesCgdata
    BY <2>6 DEF LosesCgdata, Loses
  <2>7. QED
    BY <2>1, <2>2, <2>3, <2>4, <2>5, <2>6 DEF PppSteps
<1>4. QED
  BY <1>1, <1>2, <1>3, OwedSame, StatusInvKept

LEMMA StatusInvModem ==
  ASSUME Shape, StatusInv, Answers \/ Chatters
  PROVE  StatusInv'
<1>0. /\ 1 \in DataDlcs /\ RxShape /\ Numbered(Elements)
      /\ Coming(1) \in Seq(Elements) /\ Unanswered \in Seq(Nat) /\ out \in Seq(Nat)
  BY OwedType, Types DEF DataDlcs, Shape
<1>1. UNCHANGED <<acc, dropped, nsent, robbed, status, exited, faults, lost>>
  BY DEF Answers, Chatters, ModemSends, KeepStatus, KeepNet, KeepCounts
<1>2. ASSUME NEW x \in Seq(Elements), ModemSends(1, x)
      PROVE  Unanswered' = Cat(Unanswered, Numbers(x, Answering))
  <2>1. Coming(1)' = Cat(Coming(1), x)
    BY <1>0, <1>2, ToHostComing DEF ModemSends
  <2>2. QED
    BY <1>0, <1>2, <2>1, NumbersCat DEF Unanswered
<1>3. CASE Chatters
  <2>1. PICK x \in Seq(Elements) : ModemSends(1, x) /\ Numbers(x, Answering) = <<>>
    BY <1>3, Sent, SentAnswers DEF Chatters
  <2>2. Unanswered' = Unanswered
    BY <1>0, <1>2, <2>1, CatLaws
  <2>3. out' = out
    BY <1>3 DEF Chatters
  <2>4. Owed' = Owed
    BY <2>2, <2>3 DEF Owed
  <2>5. QED
    BY <1>1, <2>4, StatusInvKept
<1>4. CASE Answers
  <2> DEFINE r == <<Head(out)>>
             t == Tail(out)
  <2>1. out # <<>> /\ out' = t
    BY <1>4 DEF Answers
  <2>2. r \in Seq(Nat) /\ t \in Seq(Nat) /\ out = Cat(r, t)
    BY <1>0, <2>1 DEF Cat
  <2>3. PICK x \in Seq(Elements) : ModemSends(1, x) /\ Numbers(x, Answering) = r
    BY <1>4, <2>1, Sent, SentAnswers DEF Answers
  <2> HIDE DEF r, t
  <2>4. Unanswered' = Cat(Unanswered, r)
    BY <1>2, <2>3
  <2>5. Cat(Cat(Unanswered, r), t) = Cat(Unanswered, Cat(r, t))
    BY <1>0, <2>2, CatLaws
  <2>6. Owed' = Owed
    BY <2>1, <2>2, <2>4, <2>5 DEF Owed
  <2>7. QED
    BY <1>1, <2>6, StatusInvKept
<1>5. QED
  BY <1>3, <1>4

LEMMA StatusInvPolls ==
  ASSUME Shape, StatusInv, Polls
  PROVE  StatusInv'
<1>0. /\ nsent \in Numberings /\ faults \in Nat /\ lost \in Nat /\ exited \in BOOLEAN
      /\ Unanswered \in Seq(Nat) /\ out \in Seq(Nat) /\ Owed \in Seq(Nat)
  BY OwedType DEF Shape, StatusShape, ModemShape, NetShape
<1> DEFINE m == nsent'
           r == <<m>>
<1>1. /\ status = "pause" /\ status' = "poll" /\ acc' = <<>> /\ exited' = exited
      /\ faults' = faults /\ lost' = lost
      /\ m = (nsent + 1) % Numbering /\ out' = Append(out, m)
  BY DEF Polls, KeepNet, KeepCounts
<1>2. m \in Numberings /\ m \in Nat
  BY <1>0, <1>1, LagLaws, Constants DEF Numberings
<1> HIDE DEF m
<1>3. Owed' = Owed \o r
  <2>1. Unanswered' = Unanswered
    BY NothingMoves DEF Polls, KeepRx, Unanswered
  <2>2. r \in Seq(Nat) /\ out' = Cat(out, r)
    BY <1>0, <1>1, <1>2, AppendIsConcat DEF Cat
  <2> HIDE DEF r
  <2>3. Cat(Unanswered, Cat(out, r)) = Cat(Cat(Unanswered, out), r)
    BY <1>0, <2>2, CatLaws
  <2>4. QED
    BY <2>1, <2>2, <2>3 DEF Owed, Cat
<1>4. Len(Owed') = Len(Owed) + 1 /\ Has(Owed', m) /\ Len(Owed) \in Nat
  <2> DEFINE w == Owed
             v == Owed'
  <2>1. w \in Seq(Nat) /\ v = w \o <<m>>
    BY <1>0, <1>3
  <2> HIDE DEF w, v
  <2>2. Len(v) = Len(w) + 1 /\ v[Len(w) + 1] = m /\ Len(w) \in Nat
    BY <1>2, <2>1
  <2>3. Has(v, m)
    BY <2>2 DEF Has
  <2>4. QED
    BY <2>2, <2>3 DEF v, w
<1>5. ~exited => Fresh(Owed', m, lost)
  BY <1>0, <1>1, <1>3, FreshGrow DEF StatusInv
<1>6. Open = 0 /\ Open' = 1
  BY <1>1, <1>4 DEF Open, m
<1> DEFINE x == Len(Owed)
<1>7. ~exited => Len(Owed') <= faults + Open'
  <2>1. ~exited => x <= faults + 0
    BY <1>6 DEF StatusInv
  <2>2. Len(Owed') = x + 1 /\ x \in Nat
    BY <1>4
  <2> HIDE DEF x
  <2>3. ~exited => x + 1 <= faults + 1
    BY <1>0, <2>1, <2>2
  <2>4. QED
    BY <1>6, <2>2, <2>3
<1>8. ~Status!Ends(acc)'
  BY <1>1 DEF Status!Ends
<1>9. QED
  BY <1>1, <1>4, <1>5, <1>7, <1>8 DEF StatusInv, m

LEMMA NotOwed ==
  ASSUME Shape, ~AnswerComing
  PROVE  ~Has(Owed, nsent)
<1> DEFINE c == Coming(1)
<1>0. /\ Unanswered \in Seq(Nat) /\ out \in Seq(Nat) /\ c \in Seq(Elements)
      /\ Numbered(Elements)
  BY OwedType, Types
<1>1. ~Has(out, nsent)
  <2>1. nsent \notin ToSet(out)
    BY DEF AnswerComing
  <2>2. DOMAIN out = 1 .. Len(out)
    BY <1>0
  <2>3. QED
    BY <2>1, <2>2 DEF ToSet, Has
<1>2. ~\E i \in DOMAIN c : c[i].of = nsent /\ c[i].text \in Answering
  BY DEF AnswerComing, Answering, Ending
<1>3. Unanswered = Numbers(c, Answering)
  BY DEF Unanswered
<1> HIDE DEF c
<1>4. DOMAIN c = 1 .. Len(c)
  BY <1>0
<1>5. ~Mentions(c, Answering, nsent)
  BY <1>2, <1>4 DEF Mentions
<1>6. ~Has(Unanswered, nsent)
  BY <1>0, <1>3, <1>5, NumbersMention
<1>7. QED
  BY <1>0, <1>1, <1>6, HasCat DEF Owed

\* A poll fails before its answer only by a fault, or once ppp_task is gone.
LEMMA StatusInvPollFails ==
  ASSUME Shape, StatusInv, PollFails
  PROVE  StatusInv'
<1>0. /\ nsent \in Numberings /\ faults \in Nat /\ lost \in Nat /\ exited \in BOOLEAN
      /\ Owed \in Seq(Nat)
  BY OwedType DEF Shape, StatusShape, ModemShape, NetShape
<1>1. /\ status = "poll" /\ status' = "pause" /\ UNCHANGED <<acc, nsent, exited, lost>>
      /\ faults' = faults \/ faults' = faults + 1
  BY DEF PollFails, KeepNet
<1>2. Owed' = Owed
  BY NothingMoves, OwedSame DEF PollFails, KeepRx
<1>3. ASSUME ~exited, faults' = faults PROVE Open = 0
  <2>1. ~AnswerComing
    BY <1>0, <1>3 DEF PollFails
  <2>2. ~Has(Owed, nsent)
    BY <2>1, NotOwed
  <2>3. QED
    BY <2>2 DEF Open
<1> DEFINE n == Len(Owed)
           f == faults'
           o == Open
<1>4. ASSUME ~exited PROVE n <= f /\ faults <= f /\ f \in Nat
  <2>1. n <= faults + o /\ n \in Nat /\ o \in {0, 1}
    <3>1. n <= faults + o
      BY <1>4 DEF StatusInv
    <3>2. n \in Nat
      BY <1>0
    <3>3. o \in {0, 1}
      BY DEF Open
    <3>4. QED
      BY <3>1, <3>2, <3>3
  <2>2. f = faults => o = 0
    BY <1>3, <1>4
  <2>3. f = faults \/ f = faults + 1
    BY <1>1
  <2> HIDE DEF n, f, o
  <2>4. QED
    BY <1>0, <2>1, <2>2, <2>3
<1>5. ASSUME ~exited, NEW i \in 1 .. Len(acc), acc[i].text \in Done
      PROVE  acc[i].of \in Numberings /\ Lag(nsent, acc[i].of) <= f + lost
  <2> DEFINE g == Lag(nsent, acc[i].of)
  <2>1. acc[i].of \in Numberings /\ g <= faults + lost
    BY <1>5 DEF StatusInv
  <2>2. g \in Nat /\ faults <= f /\ f \in Nat
    BY <1>0, <1>4, <1>5, <2>1, LagLaws
  <2> HIDE DEF f, g
  <2>3. g <= f + lost
    BY <1>0, <2>1, <2>2
  <2>4. QED
    BY <2>1, <2>3 DEF g
<1>6. ~exited => Fresh(Owed', nsent', lost')
  BY <1>1, <1>2 DEF StatusInv
<1>7. Open' = 0
  BY <1>1 DEF Open
<1> HIDE DEF f, o
<1>8. ~exited => Len(Owed') <= f + 0
  <2>1. ~exited => Len(Owed) <= f + 0
    BY <1>0, <1>4
  <2>2. QED
    BY <1>2, <2>1
<1>9. QED
  BY <1>0, <1>1, <1>5, <1>6, <1>7, <1>8 DEF StatusInv, f

\* What is read on DLC1 answers the polls that are owed first.
LEMMA TakesOwed ==
  ASSUME Shape, NEW k, Takes(1, k), out' = out
  PROVE  LET p == Numbers(SubSeq(pipe[1], 1, k), Answering)
         IN  /\ p \in Seq(Nat) /\ Owed' \in Seq(Nat) /\ Owed = Cat(p, Owed')
<1> DEFINE u == SubSeq(pipe[1], 1, k)
           c == Coming(1)'
           p == Numbers(u, Answering)
           q == Numbers(c, Answering)
<1>0. 1 \in DataDlcs /\ RxShape /\ Numbered(Elements) /\ out \in Seq(Nat)
  BY OwedType, Types DEF DataDlcs, Shape
<1>1. u \in Seq(Elements) /\ RxShape' /\ Coming(1) = Cat(u, c)
  BY <1>0, TakesShape, TakesComing
<1>2. c \in Seq(Elements)
  BY <1>0, <1>1, ComingSoon
<1>3. Owed' = Cat(q, out)
  BY DEF Owed, Unanswered
<1> HIDE DEF u, c
<1>4. p \in Seq(Nat) /\ q \in Seq(Nat)
  BY <1>0, <1>1, <1>2, NumbersType
<1>5. Unanswered = Cat(p, q)
  BY <1>0, <1>1, <1>2, NumbersCat DEF Unanswered
<1> HIDE DEF p, q
<1>6. Cat(Cat(p, q), out) = Cat(p, Cat(q, out)) /\ Cat(q, out) \in Seq(Nat)
  BY <1>0, <1>4, CatLaws
<1>7. p \in Seq(Nat) /\ Owed' \in Seq(Nat) /\ Owed = Cat(p, Owed')
  BY <1>3, <1>4, <1>5, <1>6 DEF Owed
<1>8. QED
  BY <1>7 DEF p, u

LEMMA StatusInvDrains ==
  ASSUME Shape, StatusInv, NEW k, Drains(k)
  PROVE  StatusInv'
<1> DEFINE p == Numbers(SubSeq(pipe[1], 1, k), Answering)
           w == Owed
           v == Owed'
<1>1. /\ status = "drain" /\ UNCHANGED <<acc, dropped, nsent, status, exited, faults, lost>>
      /\ Takes(1, k) /\ out' = out
  BY DEF Drains, KeepStatus, KeepNet, KeepCounts
<1>2. p \in Seq(Nat) /\ v \in Seq(Nat) /\ w = Cat(p, v)
  BY <1>1, TakesOwed
<1>3. faults \in Nat /\ lost \in Nat /\ Open = 0 /\ Open' = 0
  BY <1>1 DEF Shape, ModemShape, Open
<1>4. ~exited => Fresh(w, nsent, lost) /\ Len(w) <= faults + 0
  BY <1>1, <1>3, <1>2 DEF StatusInv
<1> HIDE DEF p, w, v
<1>5. Len(w) = Len(p) + Len(v) /\ Len(p) \in Nat /\ Len(v) \in Nat
  BY <1>2, CatLen
<1>6. ~exited => Fresh(v, nsent, lost) /\ Len(v) <= faults + 0
  BY <1>2, <1>3, <1>4, <1>5, FreshDrop
<1>7. QED
  BY <1>1, <1>3, <1>6 DEF StatusInv, v

LEMMA StatusInvPollReads ==
  ASSUME Shape, StatusInv, NEW k \in Nat, PollReads(k)
  PROVE  StatusInv'
<1> DEFINE u == SubSeq(pipe[1], 1, k)
           p == Numbers(u, Answering)
           w == Owed
           v == Owed'
<1>0. /\ faults \in Nat /\ lost \in Nat /\ acc \in Seq(Elements) /\ 1 \in DataDlcs /\ RxShape
      /\ exited \in BOOLEAN /\ Numbered(Elements) /\ nsent \in Numberings
  BY Types DEF Shape, ModemShape, StatusShape, NetShape, DataDlcs
<1>1. /\ status = "poll" /\ UNCHANGED <<nsent, robbed, exited, faults, lost, out>> /\ Takes(1, k)
      /\ status' = IF Status!Ends(acc') THEN "pause" ELSE "poll"
      /\ \/ dropped' = dropped /\ acc' = acc \o u
         \/ acc' = acc /\ dropped' = TRUE
  BY DEF PollReads, KeepNet, KeepCounts
<1>2. p \in Seq(Nat) /\ v \in Seq(Nat) /\ w = Cat(p, v)
  BY <1>1, TakesOwed
<1>3. u \in Seq(Elements)
  BY <1>0, <1>1, TakesShape
<1>4. ~exited => Fresh(w, nsent, lost) /\ Len(w) <= faults + Open
  BY DEF StatusInv
<1>5. Has(w, nsent) \/ dropped \/ robbed \/ \E i \in 1 .. Len(acc) : acc[i].text \in Answering
  BY <1>1 DEF StatusInv
\* What the accumulator had, where it does not end the poll.
<1>6. ASSUME ~exited, NEW i \in 1 .. Len(acc), acc[i].text \in Done
      PROVE  /\ acc[i].of \in Numberings /\ Lag(nsent, acc[i].of) <= faults + lost
             /\ Len(w) <= faults
  BY <1>1, <1>6 DEF StatusInv
<1>7. \A i \in 1 .. Len(u) : u[i].text \in Answering => Has(p, u[i].of)
  <2> SUFFICES ASSUME NEW i \in 1 .. Len(u), u[i].text \in Answering PROVE Has(p, u[i].of)
    OBVIOUS
  <2> HIDE DEF u
  <2>1. Mentions(u, Answering, u[i].of)
    BY DEF Mentions
  <2>2. QED
    BY <1>0, <1>3, <2>1, NumbersMention
<1>8. Has(p, nsent) => \E i \in 1 .. Len(u) : u[i].text \in Answering
  <2> HIDE DEF u
  <2>1. Has(p, nsent) => Mentions(u, Answering, nsent)
    BY <1>0, <1>3, NumbersMention
  <2>2. QED
    BY <2>1 DEF Mentions
<1> HIDE DEF u, p, w, v
<1>9. /\ Len(w) = Len(p) + Len(v) /\ Len(p) \in Nat /\ Len(v) \in Nat
      /\ \A i \in 1 .. Len(p) : w[i] = p[i]
  BY <1>2, CatLen
<1>10. ~exited => Fresh(v, nsent, lost)
  BY <1>2, <1>4, FreshDrop
\* Where something was read that ends polls, one less is owed.
<1>11. Open \in {0, 1} /\ (Open = 1 => Has(w, nsent))
  BY DEF Open, w
<1>12. Len(p) # 0 /\ ~exited => Len(v) <= faults
  <2> DEFINE o == Open
             x == Len(v)
             y == Len(p)
  <2>1. ~exited => x + y <= faults + o /\ x \in Nat /\ y \in Nat /\ o \in {0, 1}
    BY <1>0, <1>4, <1>9, <1>11
  <2> HIDE DEF o, x, y
  <2>2. y # 0 /\ ~exited => x <= faults
    BY <1>0, <2>1
  <2>3. QED
    BY <2>2 DEF x, y
<1>13. Len(p) = 0 => v = w
  BY <1>2, CatLaws
\* What has just been read.
<1>14. ASSUME ~exited, NEW i \in 1 .. Len(u), u[i].text \in Done
       PROVE  /\ u[i].of \in Numberings /\ Lag(nsent, u[i].of) <= faults + lost
              /\ Len(v) <= faults
  <2> DEFINE x == u[i].of
  <2>1. Has(p, x)
    BY <1>7, <1>14 DEF Done, Answering
  <2> HIDE DEF x
  <2>2. PICK j \in 1 .. Len(p) : p[j] = x
    BY <2>1 DEF Has
  <2>3. j \in 1 .. Len(w) /\ w[j] = x
    BY <1>9, <2>2
  <2>4. x \in Numberings /\ Lag(nsent, x) <= (Len(w) - j) + lost
    BY <1>4, <1>14, <2>3 DEF Fresh
  <2>5. Lag(nsent, x) \in Nat
    BY <1>0, <2>4, LagLaws
  <2>6. Len(p) # 0
    BY <1>9, <2>2
  <2> DEFINE g == Lag(nsent, x)
             m == Len(w)
             o == Open
  <2>7. m <= faults + o /\ o \in {0, 1} /\ m \in Nat /\ j \in Nat /\ j >= 1
    BY <1>4, <1>9, <1>14, <1>11, <2>2
  <2> HIDE DEF g, m, o
  <2>8. g <= faults + lost
    BY <1>0, <2>4, <2>5, <2>7 DEF g, m
  <2>9. QED
    BY <1>14, <1>12, <2>4, <2>6, <2>8 DEF g, x
\* The accumulator afterwards.
<1>15. \A i \in 1 .. Len(acc') :
         \/ i \in 1 .. Len(acc) /\ acc'[i] = acc[i]
         \/ \E j \in 1 .. Len(u) : acc'[i] = u[j]
  <2>1. CASE acc' = acc
    BY <2>1
  <2>2. CASE acc' = acc \o u
    <3>1. Joins(acc, u, acc')
      BY <1>0, <1>3, <2>2, JoinIndex DEF Cat
    <3>2. ASSUME NEW i \in 1 .. Len(acc')
          PROVE  i \in 1 .. Len(acc) \/ (i > Len(acc) /\ i - Len(acc) \in 1 .. Len(u))
      BY <3>1 DEF Joins
    <3>3. QED
      BY <3>1, <3>2 DEF Joins
  <2>3. QED
    BY <1>1, <2>1, <2>2
<1>16. ASSUME ~exited, NEW i \in 1 .. Len(acc'), acc'[i].text \in Done
       PROVE  /\ acc'[i].of \in Numberings /\ Lag(nsent, acc'[i].of) <= faults + lost
              /\ Len(v) <= faults
  <2>1. CASE i \in 1 .. Len(acc) /\ acc'[i] = acc[i]
    BY <1>0, <1>6, <1>9, <1>16, <2>1
  <2>2. CASE \E j \in 1 .. Len(u) : acc'[i] = u[j]
    BY <1>14, <1>16, <2>2
  <2>3. QED
    BY <1>15, <2>1, <2>2
<1>17. Status!Ends(acc') => \E i \in 1 .. Len(acc') : acc'[i].text \in Done
  <2>1. acc' \in Seq(Elements)
    <3>1. CASE acc' = acc
      BY <1>0, <3>1
    <3>2. CASE acc' = acc \o u
      BY <1>0, <1>3, <3>2
    <3>3. QED
      BY <1>1, <3>1, <3>2
  <2> DEFINE b == acc'
  <2>2. DOMAIN b = 1 .. Len(b)
    BY <2>1
  <2> HIDE DEF b
  <2>3. Status!Ends(b) => \E i \in 1 .. Len(b) : b[i].text \in Done
    BY <2>2 DEF Status!Ends, Done
  <2>4. QED
    BY <2>3 DEF b
<1>18. ~exited => Len(v) <= faults + Open'
  <2>0. Open' \in {0, 1}
    BY DEF Open
  <2>1. CASE Len(p) # 0
    <3> DEFINE o == Open'
    <3> HIDE DEF o
    <3>1. ~exited => Len(v) <= faults + o
      BY <1>0, <1>9, <1>12, <2>0, <2>1 DEF o
    <3>2. QED
      BY <3>1 DEF o
  <2>2. CASE Len(p) = 0 /\ status' = "poll"
    <3>1. v = w
      BY <1>13, <2>2
    <3>2. Open' = Open
      BY <1>1, <2>2, <3>1 DEF Open, v, w
    <3>3. QED
      BY <1>4, <3>1, <3>2
  <2>3. CASE Len(p) = 0 /\ status' # "poll"
    <3>1. Status!Ends(acc')
      BY <1>1, <2>3
    <3>2. PICK i \in 1 .. Len(acc') : acc'[i].text \in Done
      BY <1>17, <3>1
    <3>3. ~exited => Len(v) <= faults
      BY <1>16, <3>2
    <3> DEFINE o == Open'
    <3> HIDE DEF o
    <3>4. ~exited => Len(v) <= faults + o
      BY <1>0, <1>9, <2>0, <3>3 DEF o
    <3>5. QED
      BY <3>4 DEF o
  <2>4. QED
    BY <2>1, <2>2, <2>3
<1>19. ASSUME status' = "poll"
       PROVE  \/ Has(v, nsent) \/ dropped' \/ robbed'
              \/ \E i \in 1 .. Len(acc') : acc'[i].text \in Answering
  <2>1. CASE acc' = acc /\ dropped' = TRUE
    BY <2>1
  <2>2. CASE dropped' = dropped /\ acc' = acc \o u
    <3>1. Joins(acc, u, acc')
      BY <1>0, <1>3, <2>2, JoinIndex DEF Cat
    <3>2. ASSUME NEW j \in 1 .. Len(u), u[j].text \in Answering
          PROVE  \E i \in 1 .. Len(acc') : acc'[i].text \in Answering
      <4>1. Len(acc) + j \in 1 .. Len(acc') /\ acc'[Len(acc) + j] = u[j]
        BY <3>1 DEF Joins
      <4>2. QED
        BY <3>2, <4>1
    <3>3. ASSUME NEW i \in 1 .. Len(acc), acc[i].text \in Answering
          PROVE  \E j \in 1 .. Len(acc') : acc'[j].text \in Answering
      <4>1. i \in 1 .. Len(acc') /\ acc'[i] = acc[i]
        BY <3>1 DEF Joins
      <4>2. QED
        BY <3>3, <4>1
    <3>4. Has(w, nsent) => Has(p, nsent) \/ Has(v, nsent)
      BY <1>2, HasCat
    <3>5. QED
      BY <1>1, <1>5, <1>8, <2>2, <3>2, <3>3, <3>4
  <2>3. QED
    BY <1>1, <2>1, <2>2
<1>20. status' = "poll" => ~Status!Ends(acc)'
  <2>1. Status!Ends(acc)' = Status!Ends(acc')
    BY DEF Status!Ends
  <2>2. QED
    BY <1>1, <2>1
<1>21. QED
  BY <1>1, <1>10, <1>16, <1>18, <1>19, <1>20 DEF StatusInv, v

\* Of what is owed, one at most is lost.
LEMMA StatusInvLess ==
  ASSUME Shape, StatusInv, NEW a \in Seq(Nat), NEW f \in Seq(Nat), NEW r \in Seq(Nat),
         Len(f) <= 1, Owed = Cat(a, Cat(f, r)), Owed' = Cat(a, r),
         Has(f, nsent) => robbed', robbed => robbed',
         UNCHANGED <<acc, dropped, nsent, status, exited, faults>>, lost' = lost + 1
  PROVE  StatusInv'
<1> DEFINE w == Owed
           v == Owed'
           b == Cat(f, r)
<1>0. /\ faults \in Nat /\ lost \in Nat /\ nsent \in Numberings
      /\ acc \in Seq(Elements) /\ exited \in BOOLEAN
  BY DEF Shape, ModemShape, StatusShape, NetShape
<1>1. b \in Seq(Nat)
  BY CatLaws
<1>2. /\ ~exited => Fresh(v, nsent, lost + 1)
      /\ Len(v) = Len(w) - Len(f) /\ Len(w) \in Nat /\ Len(v) \in Nat /\ Len(f) \in {0, 1}
  <2>1. ~exited => Fresh(Cat(a, Cat(f, r)), nsent, lost)
    BY DEF StatusInv
  <2>2. /\ ~exited => Fresh(Cat(a, r), nsent, lost + 1)
    BY <1>0, <2>1, FreshLess
  <2>3. Len(w) = Len(a) + Len(b) /\ Len(v) = Len(a) + Len(r)
    <3> HIDE DEF b
    <3>1. Len(Cat(a, b)) = Len(a) + Len(b) /\ Len(Cat(a, r)) = Len(a) + Len(r)
      BY <1>1, CatIndex
    <3>2. QED
      BY <3>1 DEF b
  <2>4. Len(b) = Len(f) + Len(r) /\ Len(f) \in {0, 1} /\ Len(a) \in Nat /\ Len(r) \in Nat
    <3>1. Len(b) = Len(f) + Len(r)
      BY CatIndex
    <3>2. Len(f) \in Nat /\ Len(a) \in Nat /\ Len(r) \in Nat
      OBVIOUS
    <3> DEFINE l == Len(f)
    <3> HIDE DEF l
    <3>3. l \in Nat /\ l <= 1 => l \in {0, 1}
      OBVIOUS
    <3>4. QED
      BY <3>1, <3>2, <3>3 DEF l
  <2> DEFINE lw == Len(w)
             lv == Len(v)
             lf == Len(f)
             la == Len(a)
             lr == Len(r)
             lb == Len(b)
  <2> HIDE DEF lw, lv, lf, la, lr, lb
  <2>5. lw = la + lb /\ lv = la + lr /\ lb = lf + lr /\ lf \in {0, 1} /\ la \in Nat /\ lr \in Nat
    BY <2>3, <2>4 DEF lw, lv, lf, la, lr, lb
  <2>6. lv = lw - lf /\ lw \in Nat /\ lv \in Nat
    BY <2>5
  <2>7. QED
    BY <2>2, <2>5, <2>6 DEF lw, lv, lf
<1>3. ASSUME NEW x
      PROVE  /\ Has(w, x) <=> Has(a, x) \/ Has(f, x) \/ Has(r, x)
             /\ Has(v, x) <=> Has(a, x) \/ Has(r, x)
  <2>1. Has(b, x) <=> Has(f, x) \/ Has(r, x)
    BY HasCat
  <2> HIDE DEF b
  <2>2. (Has(Cat(a, b), x) <=> Has(a, x) \/ Has(b, x)) /\ (Has(Cat(a, r), x) <=> Has(a, x) \/ Has(r, x))
    BY <1>1, HasCat
  <2>3. QED
    BY <2>1, <2>2 DEF b
<1>4. Has(f, nsent) => Len(f) = 1
  <2>1. Has(f, nsent) => Len(f) # 0
    BY DEF Has
  <2>2. QED
    BY <1>2, <2>1
<1> HIDE DEF w, v
<1> DEFINE lw == Len(w)
           lv == Len(v)
           lf == Len(f)
           o == Open
           q == Open'
<1>5. o \in {0, 1} /\ q \in {0, 1} /\ (q = 1 => o = 1) /\ (o = 1 /\ q = 0 => lf = 1)
  BY <1>3, <1>4 DEF Open, w, v
<1>6. ~exited => lw <= faults + o
  BY DEF StatusInv, w
<1>7. ASSUME ~exited, NEW i \in 1 .. Len(acc), acc[i].text \in Done
      PROVE  /\ acc[i].of \in Numberings /\ Lag(nsent, acc[i].of) <= faults + (lost + 1)
             /\ status = "poll" => lv <= faults
  <2> DEFINE g == Lag(nsent, acc[i].of)
  <2>1. acc[i].of \in Numberings /\ g <= faults + lost /\ (status = "poll" => lw <= faults)
    BY <1>7 DEF StatusInv, w
  <2>2. g \in Nat
    BY <1>0, <2>1, LagLaws
  <2>3. lv = lw - lf /\ lw \in Nat /\ lf \in {0, 1}
    BY <1>2
  <2> HIDE DEF g, lv, lw, lf
  <2>4. g <= faults + (lost + 1) /\ (status = "poll" => lv <= faults)
    BY <1>0, <2>1, <2>2, <2>3
  <2>5. QED
    BY <2>1, <2>4 DEF g
<1>8. ~exited => lv <= faults + q
  <2>1. lv = lw - lf /\ lw \in Nat /\ lf \in {0, 1}
    BY <1>2
  <2> HIDE DEF lv, lw, lf, o, q
  <2>2. QED
    BY <1>0, <1>5, <1>6, <2>1
<1>9. ASSUME status = "poll"
      PROVE  /\ ~Status!Ends(acc)'
             /\ \/ Has(v, nsent) \/ dropped \/ robbed'
                \/ \E i \in 1 .. Len(acc) : acc[i].text \in Answering
  <2>1. Status!Ends(acc)' = Status!Ends(acc)
    BY DEF Status!Ends
  <2>2. ~Status!Ends(acc)
    BY <1>9 DEF StatusInv
  <2>3. \/ Has(w, nsent) \/ dropped \/ robbed
        \/ \E i \in 1 .. Len(acc) : acc[i].text \in Answering
    BY <1>9 DEF StatusInv, w
  <2>4. QED
    BY <1>3, <2>1, <2>2, <2>3
<1>10. QED
  BY <1>2, <1>7, <1>8, <1>9 DEF StatusInv, v

LEMMA StatusInvLoss ==
  ASSUME Shape, LineInv, StatusInv, LosesFrame \/ LosesCommand
  PROVE  StatusInv'
<1>0. /\ Unanswered \in Seq(Nat) /\ out \in Seq(Nat) /\ Numbered(Elements)
      /\ 1 \in DataDlcs /\ nsent \in Numberings
  BY OwedType, Types DEF DataDlcs, Shape, StatusShape
<1>1. UNCHANGED <<acc, dropped, nsent, status, exited, faults>> /\ lost' = lost + 1
  BY DEF LosesFrame, LosesCommand, Loses, KeepNet
<1>2. CASE LosesFrame
  <2> DEFINE h == Own(Head(toHost), 1)
             c == Coming(1)
             d == Coming(1)'
  <2>1. PICK a, f, r \in Seq(Elements) :
          /\ f = h /\ c = Cat(a, Cat(f, r)) /\ d = Cat(a, r)
          /\ Len(Numbers(f, Answering)) <= 1
    BY <1>0, <1>2, LosesComing
  <2> DEFINE N(s) == Numbers(s, Answering)
             x == N(a)
             y == N(f)
             z == N(r)
  <2>2. x \in Seq(Nat) /\ y \in Seq(Nat) /\ z \in Seq(Nat)
    BY <1>0, NumbersType
  <2>3. Unanswered = Cat(x, Cat(y, z)) /\ Unanswered' = Cat(x, z)
    <3>1. Cat(f, r) \in Seq(Elements)
      BY CatLaws
    <3>2. N(Cat(a, Cat(f, r))) = Cat(x, N(Cat(f, r)))
      BY <1>0, <3>1, NumbersCat
    <3>3. N(Cat(f, r)) = Cat(y, z) /\ N(Cat(a, r)) = Cat(x, z)
      BY <1>0, NumbersCat
    <3>4. Unanswered = N(c) /\ Unanswered' = N(d)
      BY DEF Unanswered
    <3>5. QED
      BY <2>1, <3>2, <3>3, <3>4
  <2>4. Has(y, nsent) => robbed'
    <3>1. Has(y, nsent) => \E i \in 1 .. Len(f) : f[i].text \in Answering /\ f[i].of = nsent
      BY <1>0, NumbersMention DEF Mentions
    <3>2. f = <<>> \/ f = Head(toHost).info
      BY <2>1 DEF Own
    <3>3. DOMAIN f = 1 .. Len(f)
      OBVIOUS
    <3>4. robbed \/ (\E i \in DOMAIN Head(toHost).info :
                       Ending(Head(toHost).info[i], nsent)) => robbed'
      BY <1>2 DEF LosesFrame
    <3>5. ASSUME NEW i \in 1 .. Len(f), f[i].text \in Answering, f[i].of = nsent PROVE robbed'
      <4>1. f = Head(toHost).info
        BY <3>2, <3>5
      <4>2. Ending(f[i], nsent)
        BY <3>5 DEF Ending, Answering
      <4>3. QED
        BY <3>3, <3>4, <4>1, <4>2
    <3>6. QED
      BY <3>1, <3>5
  <2>5. robbed => robbed'
    BY <1>2 DEF LosesFrame
  <2>6. out' = out
    BY <1>2 DEF LosesFrame
  <2>7. Len(y) <= 1
    BY <2>1
  <2> HIDE DEF x, y, z, h, c, d
  <2> DEFINE t == Cat(z, out)
  <2>8. t \in Seq(Nat) /\ Cat(y, z) \in Seq(Nat)
    BY <1>0, <2>2, CatLaws
  <2>9. Cat(Cat(x, Cat(y, z)), out) = Cat(x, Cat(y, t)) /\ Cat(Cat(x, z), out) = Cat(x, t)
    <3>1. Cat(Cat(x, Cat(y, z)), out) = Cat(x, Cat(Cat(y, z), out))
      BY <1>0, <2>2, <2>8, CatLaws
    <3>2. Cat(Cat(y, z), out) = Cat(y, t) /\ Cat(Cat(x, z), out) = Cat(x, t)
      BY <1>0, <2>2, CatLaws
    <3>3. QED
      BY <3>1, <3>2
  <2>10. Owed = Cat(x, Cat(y, t)) /\ Owed' = Cat(x, t)
    BY <2>3, <2>6, <2>9 DEF Owed
  <2> HIDE DEF t
  <2>11. QED
    BY <1>1, <2>2, <2>4, <2>5, <2>7, <2>8, <2>10, StatusInvLess
<1>3. CASE LosesCommand
  <2> DEFINE a == Front(out)
             f == <<Last(out)>>
             u == Cat(Unanswered, a)
             e == <<>>
  <2>1. out # <<>> /\ out' = a /\ robbed' = (robbed \/ Last(out) = nsent)
    BY <1>3 DEF LosesCommand
  <2>2. a \in Seq(Nat) /\ Last(out) \in Nat /\ out = Cat(a, Cat(f, e))
    BY <1>0, <2>1, FrontType
  <2>3. f \in Seq(Nat) /\ Len(f) <= 1 /\ e \in Seq(Nat) /\ f[1] = Last(out) /\ Len(f) = 1
    BY <2>2
  <2>4. Has(f, nsent) => Last(out) = nsent
    BY <2>3 DEF Has
  <2>5. Unanswered' = Unanswered
    BY <1>3, LossElsewhere DEF Unanswered
  <2> HIDE DEF a, f, e
  <2>6. Cat(f, e) \in Seq(Nat)
    BY <2>3, CatLaws
  <2>7. Cat(Unanswered, Cat(a, Cat(f, e))) = Cat(u, Cat(f, e)) /\ u \in Seq(Nat)
    BY <1>0, <2>2, <2>6, CatLaws
  <2>8. Cat(u, e) = u
    BY <2>7, CatLaws DEF e
  <2>9. Owed = Cat(u, Cat(f, e)) /\ Owed' = Cat(u, e)
    BY <2>1, <2>2, <2>5, <2>7, <2>8 DEF Owed
  <2> HIDE DEF u
  <2>10. Has(f, nsent) => robbed'
    BY <2>1, <2>4
  <2>11. QED
    BY <1>1, <2>1, <2>3, <2>7, <2>9, <2>10, StatusInvLess
<1>4. QED
  BY <1>2, <1>3

LEMMA StatusInvStep ==
  ASSUME Shape, LineInv, StatusInv, [Next]_vars
  PROVE  StatusInv'
  BY StepIs, StatusInvOthers, StatusInvModem, StatusInvPolls, StatusInvPollFails,
     StatusInvDrains, StatusInvPollReads, StatusInvLoss
  DEF StatusSteps, ModemSteps, LossSteps

LEMMA StatusAlways == FairSpec => []StatusInv
<1>1. Init => StatusInv
  BY StatusInvInit
<1>2. Shape /\ PppInv /\ LineInv /\ StatusInv /\ [Next]_vars => StatusInv'
  BY StatusInvStep
<1>3. QED
  BY <1>1, <1>2, ShapeAlways, PTL DEF FairSpec

\* PollLagsByTimeouts: a poll never ends with an answer older than its own by
\* more than the number of answers that were late or lost.
THEOREM DataModePollLags == FairSpec => []PollLagsByTimeouts
<1>1. Shape /\ StatusInv => PollLagsByTimeouts
  <2> SUFFICES ASSUME Shape, StatusInv, ~exited, NEW i \in DOMAIN acc, acc[i].text \in Done
               PROVE  Lag(nsent, acc[i].of) <= faults + lost
    BY DEF PollLagsByTimeouts, Lag, Done
  <2>1. i \in 1 .. Len(acc)
    BY DEF Shape, StatusShape
  <2>2. QED
    BY <2>1 DEF StatusInv
<1>2. QED
  BY <1>1, ShapeAlways, StatusAlways, PTL

\* PollTimeoutIsExplained: a poll times out only if its answer is late, if that
\* or its command was lost, if ppp_task has ended and left a full pipe to the
\* dispatcher, or if the poll has seen something it does not understand.
THEOREM DataModePollTimeouts == FairSpec => PollTimeoutIsExplained
<1> DEFINE Timed == status = "poll" /\ status' = "pause" /\ acc' = acc /\ pipe' = pipe
           Explained ==
             \/ faults' > faults \/ robbed
             \/ exited /\ Blocked(2)
             \/ dropped \/ \E i \in DOMAIN acc : acc[i].text \in {"noise", "+CME ERROR"}
<1>1. ASSUME Shape, StatusInv, [Next]_vars, Timed PROVE Explained
  <2>0. /\ faults \in Nat /\ acc \in Seq(Elements) /\ DOMAIN acc = 1 .. Len(acc)
        /\ Coming(1) \in Seq(Elements) /\ Unanswered \in Seq(Nat) /\ out \in Seq(Nat)
        /\ Numbered(Elements)
    BY <1>1, OwedType, Types DEF Shape, ModemShape, StatusShape
  <2>1. ASSUME NEW k \in Nat, PollReads(k) PROVE FALSE
    <3>1. 1 \in DataDlcs /\ RxShape /\ Takes(1, k)
      BY <1>1, <2>1 DEF DataDlcs, Shape, PollReads
    <3>2. Len(pipe'[1]) = Len(pipe[1]) - k /\ Len(pipe[1]) \in Nat
      BY <3>1, TakesShape
    <3>3. k \in 1 .. Len(pipe[1])
      BY <3>1 DEF Takes
    <3>4. pipe'[1] = pipe[1]
      BY <1>1
    <3>5. QED
      BY <3>2, <3>3, <3>4
  <2>2. PollFails
    <3>1. \/ StatusSteps \/ PppSteps \/ NetSteps \/ Dispatches \/ ModemSteps
          \/ LossSteps \/ Stays
      BY <1>1, StepIs
    <3>2. status # "off" /\ ppp = "connected"
      BY <1>1 DEF Shape, StatusShape
    <3>3. CASE PppSteps
      BY <1>1, <3>2, <3>3 DEF PppSteps, Calls, ReadsMore, ReadsLine, ReadsNoText, GivesUp
    <3>4. CASE NetSteps
      BY <1>1, <3>4 DEF NetSteps, Fills, ReadsPast, Consumes, Exits, KeepStatus
    <3>5. CASE Dispatches \/ Stays
      BY <1>1, <3>5 DEF Dispatches, Stays, KeepStatus
    <3>6. CASE ModemSteps
      BY <1>1, <3>6, ModemSendsOne DEF ModemSends, KeepStatus
    <3>7. CASE StatusSteps
      BY <1>1, <2>1, <3>7 DEF StatusSteps, Drains, Drained, Polls
    <3>8. CASE LossSteps
      BY <1>1, <3>8 DEF LossSteps, LosesFrame, LosesCommand, LosesCgdata, Loses
    <3>9. QED
      BY <3>1, <3>3, <3>4, <3>5, <3>6, <3>7, <3>8
  <2>3. CASE faults' = faults + 1
    <3> DEFINE f == faults'
    <3>1. f = faults + 1
      BY <2>3
    <3> HIDE DEF f
    <3>2. f > faults
      BY <2>0, <3>1
    <3>3. QED
      BY <3>2 DEF f
  <2>4. CASE exited /\ Blocked(2)
    BY <2>4
  <2>5. CASE ~AnswerComing
    <3>1. ~Has(Owed, nsent)
      BY <1>1, <2>5, NotOwed
    <3>2. dropped \/ robbed \/ \E i \in 1 .. Len(acc) : acc[i].text \in Answering
      BY <1>1, <3>1 DEF StatusInv
    <3>3. ~Status!Ends(acc)
      BY <1>1 DEF StatusInv
    <3>4. ASSUME NEW i \in 1 .. Len(acc), acc[i].text \in Done
          PROVE  \E j \in 1 .. Len(acc) : acc[j].text = "noise"
      BY <2>0, <3>3, <3>4 DEF Status!Ends, Done
    <3>5. QED
      BY <2>0, <3>2, <3>4 DEF Answering, Done
  <2>6. QED
    BY <2>2, <2>3, <2>4, <2>5 DEF PollFails
<1>2. Shape /\ StatusInv /\ [Next]_vars => [Timed => Explained]_vars
  BY <1>1
<1>3. FairSpec => [][Timed => Explained]_vars
  <2> HIDE DEF Timed, Explained
  <2>1. QED
    BY <1>2, ShapeAlways, StatusAlways, PTL DEF FairSpec
<1>4. QED
  BY <1>3 DEF PollTimeoutIsExplained

-----------------------------------------------------------------------------
(* The PPP stream, as a FIFO of bytes.                                     *)

Ppps(s) == Numbers(s, {"ppp"})
StreamStep == [Stream!Next]_(Stream!vars)

\* The return of start_ppp() counts as one loss.
Returned == IF ppp \in {"call", "reply"} THEN 0 ELSE 1
Losses == lost + Returned

\* The bytes on their way by their parts.
Way(h, u, c) == Cat(Cat(Ppps(h), Ppps(u)), Ppps(c))

LEMMA PppsType ==
  /\ \A s \in Seq(Elements) : Ppps(s) \in Seq(Nat)
  /\ \A s, t \in Seq(Elements) : Ppps(Cat(s, t)) = Cat(Ppps(s), Ppps(t))
  /\ Ppps(<<>>) = <<>>
<1>1. Numbered(Elements)
  BY Types
<1>2. \A s \in Seq(Elements) : Ppps(s) \in Seq(Nat)
  BY <1>1, NumbersType DEF Ppps
<1>3. \A s, t \in Seq(Elements) : Ppps(Cat(s, t)) = Cat(Ppps(s), Ppps(t))
  BY <1>1, NumbersCat DEF Ppps
<1>4. Ppps(<<>>) = <<>>
  BY NumbersEmpty DEF Ppps
<1>5. QED
  BY <1>2, <1>3, <1>4

LEMMA WayIs ==
  ASSUME NEW h \in Seq(Elements), NEW u \in Seq(Elements), NEW c \in Seq(Elements)
  PROVE  Numbers(h \o u \o c, {"ppp"}) = Way(h, u, c) /\ Way(h, u, c) \in Seq(Nat)
<1>1. Cat(h, u) \in Seq(Elements)
  BY CatLaws
<1>2. Ppps(Cat(Cat(h, u), c)) = Way(h, u, c)
  BY <1>1, PppsType DEF Way
<1>3. Way(h, u, c) \in Seq(Nat)
  <2>1. Ppps(h) \in Seq(Nat) /\ Ppps(u) \in Seq(Nat) /\ Ppps(c) \in Seq(Nat)
    BY PppsType
  <2>2. QED
    BY <2>1, CatLaws DEF Way
<1>4. QED
  BY <1>2, <1>3 DEF Ppps, Cat

LEMMA OnWay ==
  ASSUME Shape
  PROVE  /\ held \in Seq(Elements) /\ Net!unread \in Seq(Elements) /\ Coming(2) \in Seq(Elements)
         /\ PppOnWay = Way(held, Net!unread, Coming(2)) /\ PppOnWay \in Seq(Nat)
<1>1. held \in Seq(Elements) /\ Coming(2) \in Seq(Elements)
  <2>1. 2 \in DataDlcs
    BY DEF DataDlcs
  <2>2. QED
    BY <2>1, ComingIs DEF Shape, PppShape
<1>2. Net!unread \in Seq(Elements)
  BY CutBack DEF Net!unread, Shape, NetShape
<1>3. QED
  BY <1>1, <1>2, WayIs DEF PppOnWay

LEMMA OnWaySoon ==
  ASSUME Shape'
  PROVE  /\ held' \in Seq(Elements) /\ Net!unread' \in Seq(Elements)
         /\ Coming(2)' \in Seq(Elements)
         /\ PppOnWay' = Way(held', Net!unread', Coming(2)') /\ PppOnWay' \in Seq(Nat)
<1>1. held' \in Seq(Elements) /\ Coming(2)' \in Seq(Elements)
  <2>1. 2 \in DataDlcs
    BY DEF DataDlcs
  <2>2. QED
    BY <2>1, ComingSoon DEF Shape, PppShape
<1>2. Net!unread' \in Seq(Elements)
  <2>1. buf' \in Seq(Elements) /\ pos' \in 0 .. Len(buf')
    BY DEF Shape, NetShape
  <2>2. QED
    BY <2>1, CutBack DEF Net!unread
<1>3. Numbers(held' \o Net!unread' \o Coming(2)', {"ppp"}) = Way(held', Net!unread', Coming(2)')
      /\ Way(held', Net!unread', Coming(2)') \in Seq(Nat)
  BY <1>1, <1>2, WayIs
<1>4. QED
  BY <1>1, <1>2, <1>3 DEF PppOnWay

\* The ways a step can show in the stream.
LEMMA StreamSame ==
  ASSUME PppOnWay' = PppOnWay, pppSent' = pppSent, lastOut' = lastOut,
         Losses' \in {Losses, Losses + 1}
  PROVE  StreamStep
  BY DEF StreamStep, Losses, Returned, Stream!Next, Stream!Lose, Stream!vars

LEMMA StreamPut ==
  ASSUME pppSent' > pppSent, lastOut' = lastOut, Losses' = Losses,
         PppOnWay' = Cat(PppOnWay, [i \in 1 .. pppSent' - pppSent |-> pppSent + i])
  PROVE  StreamStep
  BY DEF StreamStep, Losses, Returned, Stream!Next, Stream!Put, Cat

LEMMA StreamGet ==
  ASSUME NEW a \in Seq(Nat), NEW c \in Seq(Nat), a # <<>>,
         PppOnWay = Cat(a, c), PppOnWay' = c,
         pppSent' = pppSent, lastOut'.of = a[Len(a)], Losses' = Losses
  PROVE  StreamStep
<1>1. /\ Len(a) \in 1 .. Len(PppOnWay) /\ lastOut'.of = PppOnWay[Len(a)]
      /\ PppOnWay' = SubSeq(PppOnWay, Len(a) + 1, Len(PppOnWay))
  BY CutFront DEF Cat
<1>2. QED
  BY <1>1 DEF StreamStep, Losses, Returned, Stream!Next, Stream!Get

LEMMA StreamLose ==
  ASSUME NEW a \in Seq(Nat), NEW b \in Seq(Nat), NEW c \in Seq(Nat),
         PppOnWay = Cat(a, Cat(b, c)), PppOnWay' = Cat(a, c),
         pppSent' = pppSent, lastOut' = lastOut, Losses' = Losses + 1
  PROVE  StreamStep
<1>1. CASE b = <<>>
  <2>1. Cat(b, c) = c
    BY <1>1, CatLaws
  <2>2. QED
    BY <2>1, StreamSame
<1>2. CASE b # <<>>
  <2>1. CutRun(PppOnWay, PppOnWay')
    BY <1>2, CutMiddle
  <2>2. QED
    BY <2>1 DEF CutRun, StreamStep, Losses, Returned, Stream!Next, Stream!Lose
<1>3. QED
  BY <1>1, <1>2

\* Nothing on DLC2 changes.
LEMMA StreamElsewhere ==
  ASSUME UNCHANGED <<held, buf, pos>>, Coming(2)' = Coming(2),
         pppSent' = pppSent, lastOut' = lastOut, Losses' \in {Losses, Losses + 1}
  PROVE  StreamStep
<1>1. PppOnWay' = PppOnWay
  BY DEF PppOnWay, Net!unread
<1>2. QED
  BY <1>1, StreamSame

-----------------------------------------------------------------------------
(* The steps.                                                              *)

\* What is no PPP.
LEMMA NoPpps ==
  ASSUME NEW s \in Seq(Elements), \A i \in 1 .. Len(s) : s[i].text # "ppp"
  PROVE  Ppps(s) = <<>>
<1>1. \A i \in 1 .. Len(s) : s[i].text \notin {"ppp"}
  OBVIOUS
<1>2. QED
  BY <1>1, Types, NumbersNone DEF Ppps

LEMMA ReadsMoreStreams ==
  ASSUME Shape, Shape', PppInv, NEW k \in Nat, ReadsMore(k)
  PROVE  StreamStep
<1> DEFINE u == SubSeq(pipe[2], 1, k)
           c == Coming(2)'
           n == Net!unread
<1>1. /\ 2 \in DataDlcs /\ RxShape /\ Takes(2, k) /\ held' = Cat(held, u)
      /\ pppSent' = pppSent /\ lastOut' = lastOut /\ lost' = lost /\ ppp' = ppp
      /\ buf = <<>> /\ UNCHANGED <<buf, pos>>
  BY DEF ReadsMore, DataDlcs, Shape, KeepModem, KeepNet, KeepCounts, PppInv, Cat
<1>2. u \in Seq(Elements) /\ Coming(2) = Cat(u, c)
  BY <1>1, TakesShape, TakesComing
<1>3. c \in Seq(Elements) /\ PppOnWay' = Way(held', Net!unread', c)
  BY OnWaySoon
<1>4. held \in Seq(Elements) /\ PppOnWay = Way(held, n, Coming(2))
  BY OnWay
<1>5. n = <<>> /\ Net!unread' = <<>>
  <2>1. SubSeq(<<>>, pos + 1, Len(<<>>)) = <<>>
    BY DEF Shape, NetShape
  <2>2. QED
    BY <1>1, <2>1 DEF Net!unread
<1> HIDE DEF u, c, n
<1>6. Ppps(held) \in Seq(Nat) /\ Ppps(u) \in Seq(Nat) /\ Ppps(c) \in Seq(Nat)
  BY <1>2, <1>3, <1>4, PppsType
<1>7. Way(held, <<>>, Cat(u, c)) = Cat(Ppps(held), Cat(Ppps(u), Ppps(c)))
  BY <1>2, <1>3, <1>6, PppsType, CatLaws DEF Way
<1>8. Way(Cat(held, u), <<>>, c) = Cat(Cat(Ppps(held), Ppps(u)), Ppps(c))
  <2>1. Ppps(Cat(held, u)) = Cat(Ppps(held), Ppps(u)) /\ Cat(Ppps(held), Ppps(u)) \in Seq(Nat)
    BY <1>2, <1>4, <1>6, PppsType, CatLaws
  <2>2. QED
    BY <2>1, PppsType, CatLaws DEF Way
<1>9. PppOnWay' = PppOnWay
  BY <1>1, <1>2, <1>3, <1>4, <1>5, <1>6, <1>7, <1>8, CatLaws
<1>10. QED
  BY <1>1, <1>9, StreamSame DEF Losses, Returned

LEMMA WayLaws ==
  /\ \A h, c \in Seq(Elements) : Way(h, <<>>, c) = Cat(Ppps(h), Ppps(c))
  /\ \A u, c \in Seq(Elements) : Way(<<>>, u, c) = Cat(Ppps(u), Ppps(c))
  /\ \A c \in Seq(Elements) : Way(<<>>, <<>>, c) = Ppps(c)
<1>1. ASSUME NEW h \in Seq(Elements), NEW c \in Seq(Elements)
      PROVE  /\ Cat(Cat(Ppps(h), <<>>), Ppps(c)) = Cat(Ppps(h), Ppps(c))
             /\ Cat(Cat(<<>>, Ppps(h)), Ppps(c)) = Cat(Ppps(h), Ppps(c))
             /\ Cat(Cat(<<>>, <<>>), Ppps(c)) = Ppps(c)
  <2>1. Ppps(h) \in Seq(Nat) /\ Ppps(c) \in Seq(Nat)
    BY PppsType
  <2>2. Cat(Ppps(h), <<>>) = Ppps(h) /\ Cat(<<>>, Ppps(h)) = Ppps(h) /\ Cat(<<>>, Ppps(c)) = Ppps(c)
    BY <2>1, CatLaws
  <2>3. Cat(<<>>, <<>>) = <<>>
    BY DEF Cat
  <2>4. QED
    BY <2>2, <2>3
<1>2. Ppps(<<>>) = <<>>
  BY PppsType
<1>3. QED
  BY <1>1, <1>2 DEF Way

\* start_ppp() without its reader of DLC2.
LEMMA LineStreams ==
  ASSUME Shape, Shape', PppInv, ppp = "reply", KeepRx, KeepNet, KeepModem
  PROVE  /\ held \in Seq(Elements) /\ held' \in Seq(Elements) /\ Coming(2) \in Seq(Elements)
         /\ PppOnWay = Cat(Ppps(held), Ppps(Coming(2)))
         /\ PppOnWay' = Cat(Ppps(held'), Ppps(Coming(2)))
<1> DEFINE c == Coming(2)
<1>1. held \in Seq(Elements) /\ c \in Seq(Elements) /\ PppOnWay = Way(held, Net!unread, c)
  BY OnWay
<1>2. c' = c
  BY NothingMoves DEF KeepRx
<1>3. held' \in Seq(Elements) /\ PppOnWay' = Way(held', Net!unread', c')
  BY OnWaySoon
<1>4. Net!unread = <<>> /\ Net!unread' = <<>>
  <2>1. buf = <<>> /\ UNCHANGED <<buf, pos>>
    BY DEF PppInv, KeepNet
  <2>2. SubSeq(<<>>, pos + 1, Len(<<>>)) = <<>>
    BY DEF Shape, NetShape
  <2>3. QED
    BY <2>1, <2>2 DEF Net!unread
<1> HIDE DEF c
<1>5. PppOnWay = Cat(Ppps(held), Ppps(c)) /\ PppOnWay' = Cat(Ppps(held'), Ppps(c))
  BY <1>1, <1>2, <1>3, <1>4, WayLaws
<1>6. QED
  BY <1>1, <1>3, <1>5 DEF c

\* On return the bytes that the reader held are lost.
LEMMA ReturnStreams ==
  ASSUME Shape, Shape', PppInv, ppp = "reply", ppp' \notin {"call", "reply"},
         held' = <<>>, KeepRx, KeepNet, KeepModem, lost' = lost
  PROVE  StreamStep
<1> DEFINE a == Ppps(held)
           b == Ppps(Coming(2))
           e == <<>>
<1>1. PppOnWay = Cat(a, b) /\ PppOnWay' = Cat(Ppps(held'), b)
  BY LineStreams
<1>2. a \in Seq(Nat) /\ b \in Seq(Nat) /\ Ppps(held') = e
  BY LineStreams, PppsType
<1>3. Losses' = Losses + 1
  BY DEF Losses, Returned, Shape, ModemShape
<1>4. UNCHANGED <<pppSent, lastOut>>
  BY DEF KeepNet, KeepModem
<1> HIDE DEF a, b
<1>5. e \in Seq(Nat) /\ Cat(e, Cat(a, b)) = Cat(a, b)
  <2>1. Cat(a, b) \in Seq(Nat) /\ e \in Seq(Nat)
    BY <1>2, CatLaws
  <2>2. QED
    BY <2>1, CatLaws
<1> HIDE DEF e
<1>6. QED
  BY <1>1, <1>2, <1>3, <1>4, <1>5, StreamLose

\* A line that is neither CONNECT nor ERROR is no PPP.
LEMMA ReadsLineStreams ==
  ASSUME Shape, Shape', PppInv, ReadsLine
  PROVE  StreamStep
<1> DEFINE c == Coming(2)
<1>1. /\ ppp = "reply" /\ KeepRx /\ KeepNet /\ KeepModem /\ lost' = lost
      /\ Ppp!HasLine
      /\ ppp' \in {"connected", "failed", "reply"}
      /\ held' = IF ppp' = "reply" THEN Ppp!after ELSE <<>>
  BY DEF ReadsLine, KeepCounts, Ppp!verdict
<1>2. CASE ppp' # "reply"
  <2>1. ppp' \notin {"call", "reply"} /\ held' = <<>>
    BY <1>1, <1>2
  <2>2. QED
    BY <1>1, <2>1, ReturnStreams
<1>3. CASE ppp' = "reply"
  <2> DEFINE x == SubSeq(held, 1, 2)
             y == SubSeq(held, 2 + 1, Len(held))
  <2>1. /\ held \in Seq(Elements) /\ c \in Seq(Elements)
        /\ PppOnWay = Cat(Ppps(held), Ppps(c)) /\ PppOnWay' = Cat(Ppps(held'), Ppps(c))
    BY <1>1, LineStreams
  <2>2. Paired(Cat(held, c)) /\ Ordered(Cat(held, c))
    BY <1>1 DEF PppInv, Waiting
  <2> HIDE DEF c
  <2>3. /\ Len(held) >= 2 /\ Body(held[1]) /\ held[2] = Ppp!LF
        /\ Ppp!after = SubSeq(held, 3, Len(held))
    BY <1>1, <2>1, <2>2, LineIs
  <2>4. 2 \in 0 .. Len(held) /\ 2 + 1 = 3
    BY <2>1, <2>3
  <2>5. held' = y
    BY <1>1, <1>3, <2>3, <2>4
  <2>6. x \in Seq(Elements) /\ y \in Seq(Elements) /\ x \o y = held /\ Len(x) = 2
    BY <2>1, <2>4, CutBack
  <2>7. x[1] = held[1] /\ x[2] = held[2]
    BY <2>1, <2>3
  <2> HIDE DEF x, y
  <2>8. \A i \in 1 .. Len(x) : x[i].text # "ppp"
    <3>1. \A i \in 1 .. Len(x) : i = 1 \/ i = 2
      BY <2>6
    <3>2. held[1].text # "ppp" /\ held[2].text # "ppp"
      BY <2>3, LfText DEF Body
    <3>3. QED
      BY <2>7, <3>1, <3>2
  <2>9. Ppps(x) = <<>> /\ Ppps(y) \in Seq(Nat)
    BY <2>6, <2>8, NoPpps, PppsType
  <2>10. held = Cat(x, y)
    BY <2>6 DEF Cat
  <2>11. Ppps(held) = Ppps(y)
    BY <2>6, <2>9, <2>10, PppsType, CatLaws
  <2>12. Losses' = Losses /\ UNCHANGED <<pppSent, lastOut>>
    BY <1>1, <1>3 DEF Losses, Returned, KeepNet, KeepModem
  <2>13. QED
    BY <2>1, <2>5, <2>11, <2>12, StreamSame
<1>4. QED
  BY <1>2, <1>3

LEMMA EndsStreams ==
  ASSUME Shape, Shape', PppInv, GivesUp \/ ReadsNoText
  PROVE  StreamStep
<1>1. /\ ppp = "reply" /\ ppp' \notin {"call", "reply"} /\ held' = <<>>
      /\ KeepRx /\ KeepNet /\ KeepModem /\ lost' = lost
  BY DEF GivesUp, ReadsNoText, KeepCounts
<1>2. QED
  BY <1>1, ReturnStreams

-----------------------------------------------------------------------------
(* ppp_task.                                                               *)

\* What is PPP all through, as numbers.
LEMMA PppsAll ==
  ASSUME NEW s \in Seq(Elements), AllPpp(s)
  PROVE  /\ Ppps(s) \in Seq(Nat) /\ Len(Ppps(s)) = Len(s)
         /\ \A i \in 1 .. Len(s) : Ppps(s)[i] = s[i].of
<1>1. \A i \in 1 .. Len(s) : s[i].text \in {"ppp"}
  BY DEF AllPpp
<1>2. Numbered(Elements)
  BY Types
<1>3. QED
  BY <1>1, <1>2, NumbersAll, PppsType DEF Ppps

LEMMA NetStreams ==
  ASSUME Shape, Shape', PppInv, NetSteps
  PROVE  StreamStep
<1> DEFINE n == Net!unread
           c == Coming(2)
           m == Net!unread'
           b == Coming(2)'
<1>1. /\ ppp = "connected" /\ held = <<>> /\ AllPpp(buf) /\ AllPpp(c)
      /\ UNCHANGED <<ppp, held, pppSent, lost>>
  BY DEF NetSteps, Fills, ReadsPast, Consumes, Exits, KeepPpp, KeepModem, KeepCounts, PppInv
<1>2. Losses' = Losses
  BY <1>1 DEF Losses, Returned
<1>3. /\ n \in Seq(Elements) /\ c \in Seq(Elements) /\ m \in Seq(Elements) /\ b \in Seq(Elements)
      /\ PppOnWay = Way(<<>>, n, c) /\ PppOnWay' = Way(<<>>, m, b)
  BY <1>1, OnWay, OnWaySoon
<1>4. buf \in Seq(Elements) /\ pos \in 0 .. Len(buf) /\ 2 \in DataDlcs /\ RxShape
  BY DEF Shape, NetShape, DataDlcs
<1>5. PppOnWay = Cat(Ppps(n), Ppps(c)) /\ PppOnWay' = Cat(Ppps(m), Ppps(b))
  BY <1>3, WayLaws
<1>6. /\ Ppps(n) \in Seq(Nat) /\ Ppps(c) \in Seq(Nat)
      /\ Ppps(m) \in Seq(Nat) /\ Ppps(b) \in Seq(Nat)
  BY <1>3, PppsType
<1>7. ASSUME NEW k \in Nat, Takes(2, k), pos >= Len(buf)
      PROVE  /\ n = <<>> /\ PppOnWay = Ppps(Cat(SubSeq(pipe[2], 1, k), b))
             /\ SubSeq(pipe[2], 1, k) \in Seq(Elements) /\ Len(SubSeq(pipe[2], 1, k)) = k
             /\ AllPpp(SubSeq(pipe[2], 1, k))
  <2>1. n = <<>>
    <3>1. SubSeq(buf, pos + 1, Len(buf)) = <<>>
      BY <1>4, <1>7
    <3>2. QED
      BY <3>1 DEF Net!unread
  <2> DEFINE u == SubSeq(pipe[2], 1, k)
  <2>2. u \in Seq(Elements) /\ Len(u) = k /\ c = Cat(u, b)
    BY <1>4, <1>7, TakesShape, TakesComing
  <2>3. Ppps(n) = <<>>
    BY <2>1, PppsType
  <2> HIDE DEF n, c, b, u
  <2>4. PppOnWay = Ppps(c)
    BY <1>5, <1>6, <2>3, CatLaws
  <2>5. AllPpp(u)
    BY <1>1, <1>3, <2>2, AllPppCat
  <2>6. QED
    BY <2>1, <2>2, <2>4, <2>5 DEF u
<1>8. ASSUME NEW k \in Nat, Fills(k) PROVE StreamStep
  <2> DEFINE u == SubSeq(pipe[2], 1, k)
  <2>1. Takes(2, k) /\ pos >= Len(buf) /\ buf' = u /\ pos' = 0 /\ lastOut' = lastOut
    BY <1>8 DEF Fills
  <2>2. u \in Seq(Elements) /\ PppOnWay = Ppps(Cat(u, b))
    BY <1>7, <2>1
  <2>3. m = u
    <3>1. Net!unread' = SubSeq(buf', pos' + 1, Len(buf'))
      BY DEF Net!unread
    <3> HIDE DEF u
    <3>2. SubSeq(u, 0 + 1, Len(u)) = u
      BY <2>2
    <3>3. QED
      BY <2>1, <3>1, <3>2
  <2> HIDE DEF u, m, b
  <2>4. PppOnWay' = PppOnWay
    BY <1>3, <1>5, <2>2, <2>3, PppsType
  <2>5. QED
    BY <1>1, <1>2, <2>1, <2>4, StreamSame
<1>9. ASSUME NEW k \in Nat, ReadsPast(k) PROVE StreamStep
  <2> DEFINE u == SubSeq(pipe[2], 1, k)
             a == Ppps(u)
             e == Ppps(b)
  <2>1. Takes(2, k) /\ pos >= Len(buf) /\ UNCHANGED <<buf, pos>> /\ lastOut' = pipe[2][k]
    BY <1>9 DEF ReadsPast
  <2>2. /\ n = <<>> /\ PppOnWay = Ppps(Cat(u, b)) /\ u \in Seq(Elements) /\ Len(u) = k
        /\ AllPpp(u)
    BY <1>7, <2>1
  <2>3. m = n
    BY <2>1 DEF Net!unread
  <2>4. k \in 1 .. k /\ u[k] = pipe[2][k]
    BY <1>4, <2>1 DEF Takes, RxShape
  <2> HIDE DEF u, m, n, b
  <2>5. a \in Seq(Nat) /\ Len(a) = k /\ a[k] = u[k].of
    BY <2>2, <2>4, PppsAll
  <2>6. e \in Seq(Nat) /\ PppOnWay = Cat(a, e)
    BY <1>3, <1>6, <2>2, PppsType
  <2>7. PppOnWay' = e
    <3>1. Ppps(m) = <<>>
      BY <2>2, <2>3, PppsType
    <3>2. QED
      BY <1>5, <1>6, <3>1, CatLaws
  <2> HIDE DEF a, e
  <2>8. a # <<>> /\ lastOut'.of = a[Len(a)]
    BY <2>1, <2>4, <2>5
  <2>9. QED
    BY <1>1, <1>2, <2>5, <2>6, <2>7, <2>8, StreamGet
<1>10. ASSUME NEW k \in Nat, Consumes(k) PROVE StreamStep
  <2> DEFINE u == SubSeq(buf, pos + 1, pos + k)
             a == Ppps(u)
             e == Cat(Ppps(m), Ppps(b))
  <2>1. k \in 1 .. Len(buf) - pos /\ pos' = pos + k /\ lastOut' = buf[pos + k] /\ buf' = buf
    BY <1>10 DEF Consumes
  <2>2. b = c
    BY <1>10, NothingMoves DEF Consumes, KeepRx
  <2>3. n = SubSeq(buf, pos + 1, Len(buf)) /\ m = SubSeq(buf, (pos + k) + 1, Len(buf))
    BY <2>1 DEF Net!unread
  <2>4. /\ u \in Seq(Elements) /\ Len(u) = k
        /\ \A i \in 1 .. k : u[i] = buf[pos + i] /\ pos + i \in 1 .. Len(buf)
    BY <1>4, <2>1
  <2>5. n = Cat(u, m)
    <3>1. pos + 1 \in 1 .. Len(buf) + 1 /\ pos + k \in (pos + 1) - 1 .. Len(buf) /\ Len(buf) \in pos + k .. Len(buf)
      BY <1>4, <2>1
    <3>2. u \o SubSeq(buf, (pos + k) + 1, Len(buf)) = SubSeq(buf, pos + 1, Len(buf))
      BY <1>4, <3>1, ConcatAdjacentSubSeq
    <3>3. QED
      BY <2>3, <3>2 DEF Cat
  <2> HIDE DEF u, m, n, b, c
  <2>6. AllPpp(u)
    BY <1>1, <2>4 DEF AllPpp
  <2>7. a \in Seq(Nat) /\ Len(a) = k /\ \A i \in 1 .. k : a[i] = u[i].of
    BY <2>4, <2>6, PppsAll
  <2>8. Ppps(n) = Cat(a, Ppps(m))
    BY <1>3, <2>4, <2>5, PppsType
  <2>9. e \in Seq(Nat) /\ PppOnWay' = e
    BY <1>5, <1>6, CatLaws
  <2>10. PppOnWay = Cat(a, e)
    BY <1>5, <1>6, <2>2, <2>7, <2>8, CatLaws
  <2>11. lastOut'.of = a[k] /\ k \in 1 .. k
    BY <2>1, <2>4, <2>7
  <2> HIDE DEF a, e
  <2>12. a # <<>> /\ lastOut'.of = a[Len(a)]
    BY <2>7, <2>11
  <2>13. QED
    BY <1>1, <1>2, <2>7, <2>9, <2>10, <2>12, StreamGet
<1>11. CASE Exits
  <2>1. UNCHANGED <<held, buf, pos, lastOut>> /\ Coming(2)' = Coming(2)
    BY <1>11, NothingMoves DEF Exits, KeepRx, KeepPpp
  <2>2. QED
    BY <1>1, <1>2, <2>1, StreamElsewhere
<1>12. QED
  BY <1>8, <1>9, <1>10, <1>11 DEF NetSteps

-----------------------------------------------------------------------------
(* The modem, and what does not touch DLC2.                                *)

LEMMA PppBytesAre ==
  ASSUME Shape, NEW n \in Nat
  PROVE  Ppps(PppBytes(n)) = [i \in 1 .. n |-> pppSent + i]
<1>0. pppSent \in Nat
  BY DEF Shape, ModemShape
<1> DEFINE x == PppBytes(n)
           y == [i \in 1 .. n |-> pppSent + i]
<1>1. x \in Seq(Elements) /\ AllPpp(x) /\ Len(x) = n
  <2>1. x \in Seq(Elements) /\ AllPpp(x)
    BY Sent
  <2>2. Len(x) = n
    BY DEF PppBytes
  <2>3. QED
    BY <2>1, <2>2
<1>2. \A i \in 1 .. n : x[i].of = pppSent + i
  BY DEF PppBytes, Byte, Ppp!Line
<1>3. y \in Seq(Nat) /\ Len(y) = n /\ \A i \in 1 .. n : y[i] = pppSent + i
  BY <1>0
<1> HIDE DEF x, y
<1>4. /\ Ppps(x) \in Seq(Nat) /\ Len(Ppps(x)) = n
      /\ \A i \in 1 .. n : Ppps(x)[i] = x[i].of
  BY <1>1, PppsAll
<1> DEFINE z == Ppps(x)
<1> HIDE DEF z
<1>5. z = y
  <2>1. z \in Seq(Nat) /\ Len(z) = Len(y) /\ \A i \in 1 .. Len(y) : z[i] = y[i]
    BY <1>2, <1>3, <1>4 DEF z
  <2>2. QED
    BY <1>3, <2>1, SeqEqual
<1>6. QED
  BY <1>5 DEF x, y, z

LEMMA WayGrows ==
  ASSUME NEW h \in Seq(Elements), NEW u \in Seq(Elements), NEW c \in Seq(Elements),
         NEW x \in Seq(Elements)
  PROVE  Way(h, u, Cat(c, x)) = Cat(Way(h, u, c), Ppps(x)) /\ Way(h, u, c) \in Seq(Nat)
<1>1. /\ Ppps(h) \in Seq(Nat) /\ Ppps(u) \in Seq(Nat) /\ Ppps(c) \in Seq(Nat)
      /\ Ppps(x) \in Seq(Nat) /\ Ppps(Cat(c, x)) = Cat(Ppps(c), Ppps(x))
  BY PppsType
<1>2. Cat(Ppps(h), Ppps(u)) \in Seq(Nat)
  BY <1>1, CatLaws
<1>3. Cat(Cat(Ppps(h), Ppps(u)), Ppps(c)) \in Seq(Nat)
  BY <1>1, <1>2, CatLaws
<1>4. QED
  BY <1>1, <1>2, <1>3, CatLaws DEF Way

LEMMA ModemStreams ==
  ASSUME Shape, Shape', PppInv, ModemSteps
  PROVE  StreamStep
<1>0. 1 \in DataDlcs /\ 2 \in DataDlcs /\ RxShape /\ pppSent \in Nat
  BY DEF DataDlcs, Shape, ModemShape
<1>1. UNCHANGED <<ppp, held, buf, pos, lastOut, lost>>
  BY ModemSendsOne DEF ModemSends, KeepPpp, KeepNet, KeepCounts
<1>2. Losses' = Losses
  BY <1>1 DEF Losses, Returned
<1>3. ASSUME NEW x \in Seq(Elements), ModemSends(2, x)
      PROVE  PppOnWay' = Cat(PppOnWay, Ppps(x)) /\ PppOnWay \in Seq(Nat)
  <2> DEFINE n == Net!unread
             c == Coming(2)
  <2>1. held' = held /\ Net!unread' = n /\ Coming(2)' = Cat(c, x)
    BY <1>0, <1>1, <1>3, ToHostComing DEF ModemSends, Net!unread
  <2>2. /\ held \in Seq(Elements) /\ n \in Seq(Elements) /\ c \in Seq(Elements)
        /\ PppOnWay = Way(held, n, c)
    BY OnWay
  <2>3. PppOnWay' = Way(held', Net!unread', Coming(2)')
    BY OnWaySoon
  <2> HIDE DEF n, c
  <2>4. PppOnWay' = Way(held, n, Cat(c, x))
    BY <2>1, <2>3
  <2>5. QED
    BY <1>3, <2>2, <2>4, WayGrows
<1>4. CASE Speaks
  <2>1. PICK t \in {"RING", "noise", "CONNECT", "ERROR"} :
          ModemSends(2, <<Text(t), Ppp!LF>>) /\ pppSent' = pppSent
    BY <1>4 DEF Speaks
  <2> DEFINE a == <<Text(t), Ppp!LF>>
  <2>2. a \in Seq(Elements) /\ Len(a) = 2
    BY Sent
  <2>3. \A i \in 1 .. 2 : a[i].text # "ppp"
    <3>1. \A i \in 1 .. 2 : i = 1 \/ i = 2
      OBVIOUS
    <3>2. a[1].text = t /\ a[2] = Ppp!LF
      BY DEF Text, Ppp!Line
    <3>3. QED
      BY <3>1, <3>2, LfText
  <2>4. ModemSends(2, a)
    BY <2>1
  <2> HIDE DEF a
  <2>5. Ppps(a) = <<>>
    BY <2>2, <2>3, NoPpps
  <2>6. PppOnWay \in Seq(Nat) /\ PppOnWay' = Cat(PppOnWay, <<>>)
    BY <1>3, <2>2, <2>4, <2>5
  <2>7. PppOnWay' = PppOnWay
    BY <2>6, CatLaws
  <2>8. QED
    BY <1>1, <1>2, <2>1, <2>7, StreamSame
<1>5. CASE \E n \in Nat : Streams(n)
  <2>1. PICK n \in Nat : Streams(n)
    BY <1>5
  <2> DEFINE x == PppBytes(n)
  <2>2. /\ n \in Nat \ {0} /\ ModemSends(2, x) /\ pppSent' = pppSent + n
    BY <2>1 DEF Streams
  <2>3. x \in Seq(Elements) /\ Ppps(x) = [i \in 1 .. n |-> pppSent + i]
    BY <1>0, Sent, PppBytesAre
  <2> HIDE DEF x
  <2>4. PppOnWay' = Cat(PppOnWay, [i \in 1 .. n |-> pppSent + i])
    BY <1>3, <2>2, <2>3
  <2>5. pppSent + n > pppSent /\ (pppSent + n) - pppSent = n
    BY <1>0, <2>2
  <2>6. pppSent' > pppSent /\ pppSent' - pppSent = n
    BY <2>2, <2>5
  <2>7. QED
    BY <1>1, <1>2, <2>4, <2>6, StreamPut
<1>6. CASE Answers \/ Chatters
  <2>1. PICK s \in Seq(Elements) : ModemSends(1, s)
    BY <1>6, Sent DEF Answers, Chatters
  <2>2. Coming(2)' = Coming(2)
    BY <1>0, <2>1, ToHostComing DEF ModemSends
  <2>3. pppSent' = pppSent
    BY <1>6 DEF Answers, Chatters, KeepModem
  <2>4. QED
    BY <1>1, <1>2, <2>2, <2>3, StreamElsewhere
<1>7. QED
  BY <1>4, <1>5, <1>6 DEF ModemSteps

\* A frame lost costs its payload, and nothing else.
LEMMA LossStreams ==
  ASSUME Shape, Shape', LineInv, LossSteps
  PROVE  StreamStep
<1>1. Loses
  BY DEF LossSteps, LosesFrame, LosesCommand, LosesCgdata
<1>2. UNCHANGED <<ppp, held, buf, pos, lastOut, pppSent>> /\ lost' = lost + 1
  BY <1>1 DEF Loses, KeepPpp, KeepNet
<1>3. Losses' = Losses + 1
  BY <1>2 DEF Losses, Returned, Shape, ModemShape
<1>4. CASE LosesCommand \/ LosesCgdata
  <2>1. Coming(2)' = Coming(2)
    BY <1>4, LossElsewhere
  <2>2. QED
    BY <1>2, <1>3, <2>1, StreamElsewhere
<1>5. CASE LosesFrame
  <2> DEFINE n == Net!unread
             c == Coming(2)
             d == Coming(2)'
             h == Own(Head(toHost), 2)
  <2>1. 2 \in DataDlcs /\ n' = n
    BY <1>2 DEF DataDlcs, Net!unread
  <2>2. PICK a, f, r \in Seq(Elements) : f = h /\ c = Cat(a, Cat(f, r)) /\ d = Cat(a, r)
    BY <1>5, <2>1, LosesComing
  <2>3. held \in Seq(Elements) /\ n \in Seq(Elements) /\ PppOnWay = Way(held, n, c)
    BY OnWay
  <2>4. PppOnWay' = Way(held', n', d)
    BY OnWaySoon
  <2>5. PppOnWay' = Way(held, n, d)
    BY <1>2, <2>1, <2>4
  <2> HIDE DEF n, c, d, h
  <2> DEFINE p == Cat(Cat(Ppps(held), Ppps(n)), Ppps(a))
             x == Ppps(f)
             z == Ppps(r)
             fr == Cat(f, r)
  <2>6. x \in Seq(Nat) /\ z \in Seq(Nat) /\ p \in Seq(Nat) /\ fr \in Seq(Elements)
    <3>1. /\ Ppps(held) \in Seq(Nat) /\ Ppps(n) \in Seq(Nat) /\ Ppps(a) \in Seq(Nat)
          /\ x \in Seq(Nat) /\ z \in Seq(Nat)
      BY <2>3, PppsType
    <3>2. Cat(Ppps(held), Ppps(n)) \in Seq(Nat)
      BY <3>1, CatLaws
    <3>3. p \in Seq(Nat) /\ fr \in Seq(Elements)
      BY <3>1, <3>2, CatLaws
    <3>4. QED
      BY <3>1, <3>3
  <2>7. Way(held, n, a) = p /\ Ppps(fr) = Cat(x, z)
    BY PppsType DEF Way
  <2>8. Way(held, n, Cat(a, r)) = Cat(p, z)
    BY <2>3, <2>7, WayGrows
  <2> HIDE DEF fr
  <2>9. Way(held, n, Cat(a, fr)) = Cat(p, Cat(x, z))
    BY <2>3, <2>6, <2>7, WayGrows
  <2>10. PppOnWay = Cat(p, Cat(x, z)) /\ PppOnWay' = Cat(p, z)
    BY <2>2, <2>3, <2>5, <2>8, <2>9 DEF fr
  <2> HIDE DEF p, x, z
  <2>11. QED
    BY <1>2, <1>3, <2>6, <2>10, StreamLose
<1>6. QED
  BY <1>4, <1>5 DEF LossSteps

LEMMA OthersStream ==
  ASSUME Shape, Calls \/ StatusSteps \/ Dispatches \/ Stays
  PROVE  StreamStep
<1>0. 1 \in DataDlcs /\ 2 \in DataDlcs /\ RxShape
  BY DEF DataDlcs, Shape
<1>1. Coming(2)' = Coming(2)
  <2>1. CASE \E k \in Nat : Drains(k) \/ PollReads(k)
    <3>1. PICK k \in Nat : Takes(1, k)
      BY <2>1 DEF Drains, PollReads
    <3>2. QED
      BY <1>0, <3>1, TakesComing
  <2>2. CASE Calls \/ Drained \/ Polls \/ PollFails \/ Stays
    <3>1. KeepRx
      BY <2>2 DEF Calls, Drained, Polls, PollFails, Stays
    <3>2. QED
      BY <3>1, NothingMoves DEF KeepRx
  <2>3. CASE Dispatches
    BY <1>0, <2>3, RxMoves DEF Dispatches
  <2>4. QED
    BY <2>1, <2>2, <2>3 DEF StatusSteps
<1>2. UNCHANGED <<held, buf, pos, pppSent, lastOut, lost>> /\ Returned' = Returned
  <2>1. CASE Calls
    BY <2>1 DEF Calls, KeepNet, KeepModem, KeepCounts, Returned
  <2>2. CASE StatusSteps
    BY <2>2 DEF StatusSteps, Drains, PollReads, Drained, Polls, PollFails,
                KeepPpp, KeepNet, KeepModem, KeepCounts, Returned
  <2>3. CASE Dispatches \/ Stays
    BY <2>3 DEF Dispatches, Stays, KeepPpp, KeepNet, KeepModem, KeepCounts, Returned
  <2>4. QED
    BY <2>1, <2>2, <2>3
<1>3. Losses' = Losses
  BY <1>2 DEF Losses
<1>4. QED
  BY <1>1, <1>2, <1>3, StreamElsewhere

LEMMA StreamSteps ==
  ASSUME Shape, Shape', PppInv, LineInv, [Next]_vars
  PROVE  StreamStep
  BY StepIs, ReadsMoreStreams, ReadsLineStreams, EndsStreams, NetStreams,
     ModemStreams, LossStreams, OthersStream DEF PppSteps

LEMMA StreamInit == Init => Stream!Init
<1> SUFFICES ASSUME Init PROVE Stream!Init
  OBVIOUS
<1>1. Shape /\ PppInv
  BY ShapeInit, PppInvInit
<1>2. /\ held = <<>> /\ buf = <<>> /\ pos = 0 /\ pppSent = 0 /\ lastOut.of = 0
      /\ ppp = "call" /\ lost = 0
  BY DEF Init, Ppp!Init, Net!Init, Byte, Ppp!Line
<1>3. Coming(2) = <<>> /\ Net!unread = <<>>
  <2>1. SubSeq(<<>>, 0 + 1, Len(<<>>)) = <<>>
    OBVIOUS
  <2>2. QED
    BY <1>1, <1>2, <2>1 DEF PppInv, Net!unread
<1>4. PppOnWay = <<>>
  <2>1. PppOnWay = Way(<<>>, <<>>, <<>>)
    BY <1>1, <1>2, <1>3, OnWay
  <2>2. <<>> \in Seq(Elements)
    OBVIOUS
  <2>3. QED
    BY <2>1, <2>2, WayLaws, PppsType
<1>5. QED
  BY <1>2, <1>4 DEF Stream!Init

\* PppIsStream: from the modem to the PPP runner the bytes stay in order and
\* complete, but for the payload of each frame that the line loses and the
\* first bytes, those that start_ppp() has read together with CONNECT: data
\* mode implements the FIFO of DlcStream.
THEOREM DataModePppIsStream == FairSpec => PppIsStream
<1>1. Init => Stream!Init
  BY StreamInit
<1>2. Shape /\ PppInv /\ LineInv /\ Shape' /\ [Next]_vars => [StreamStep]_vars
  BY StreamSteps
<1>3. FairSpec => [][StreamStep]_vars
  BY <1>2, ShapeAlways, PTL DEF FairSpec
<1>4. QED
  BY <1>1, <1>3, PTL DEF FairSpec, PppIsStream, StreamStep
=============================================================================
