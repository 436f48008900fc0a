----------------------------- MODULE ListProofs -----------------------------
(***************************************************************************)
(* Lists of steps and queues of messages: the elements they have, and the  *)
(* pairs of elements of which one stands before the other.                 *)
(***************************************************************************)
EXTENDS Naturals, Sequences, TLAPS

Elements(list) == {list[i] : i \in 1 .. Len(list)}

\* Whatever stands before something else is related to it.
Pairs(order, list) ==
    \A i, j \in 1 .. Len(list) : i < j => << list[i], list[j] >> \in order

-----------------------------------------------------------------------------
(* The elements of a list.                                                  *)

\* A list is its first element and the rest, ...
LEMMA FirstElement ==
    ASSUME NEW S, NEW s \in Seq(S), s # << >>
    PROVE  /\ Head(s) \in S /\ Tail(s) \in Seq(S) /\ << Head(s) >> \in Seq(S)
           /\ << Head(s) >> \o Tail(s) = s
<1>1. /\ Head(s) = s[1] /\ Head(s) \in S /\ s \in Seq(S) /\ Tail(s) \in Seq(S)
      /\ << Head(s) >> \in Seq(S) /\ Len(s) \in Nat \ {0}
      /\ Len(Tail(s)) = Len(s) - 1
      /\ \A i \in 1 .. Len(s) - 1 : Tail(s)[i] = s[i + 1]
  OBVIOUS
<1>2. /\ << Head(s) >> \o Tail(s) \in Seq(S)
      /\ Len(<< Head(s) >> \o Tail(s)) = Len(s)
  BY <1>1
<1>3. ASSUME NEW i \in 1 .. Len(s)
      PROVE  (<< Head(s) >> \o Tail(s))[i] = s[i]
  <2>1. CASE i = 1
    BY <1>1, <2>1
  <2>2. CASE i # 1
    <3>1. i - 1 \in 1 .. Len(s) - 1 /\ Tail(s)[i - 1] = s[i]
      BY <1>1, <2>2
    <3> QED BY <1>1, <1>2, <2>2, <3>1
  <2> QED BY <2>1, <2>2
<1> QED BY <1>1, <1>2, <1>3

\* ... the only list of length zero is the empty one, ...
LEMMA NoElement ==
    ASSUME NEW S, NEW s \in Seq(S), Len(s) = 0
    PROVE  s = << >>
  OBVIOUS

\* ... two lists joined have the elements of both, ...
LEMMA JoinedElements ==
    ASSUME NEW S, NEW a \in Seq(S), NEW b \in Seq(S)
    PROVE  a \o b \in Seq(S) /\ Elements(a \o b) = Elements(a) \union Elements(b)
<1>1. /\ a \o b \in Seq(S) /\ Len(a \o b) = Len(a) + Len(b)
      /\ Len(a) \in Nat /\ Len(b) \in Nat
      /\ \A i \in 1 .. Len(a) : (a \o b)[i] = a[i]
      /\ \A i \in 1 .. Len(b) : (a \o b)[Len(a) + i] = b[i]
  OBVIOUS
<1>2. ASSUME NEW i \in 1 .. Len(a \o b)
      PROVE  (a \o b)[i] \in Elements(a) \union Elements(b)
  <2>1. CASE i <= Len(a)
    <3>1. i \in 1 .. Len(a)
      BY <1>1, <2>1
    <3> QED BY <1>1, <3>1 DEF Elements
  <2>2. CASE i > Len(a)
    <3>1. i - Len(a) \in 1 .. Len(b) /\ i = Len(a) + (i - Len(a))
      BY <1>1, <2>2
    <3>2. (a \o b)[i] = b[i - Len(a)]
      BY <1>1, <3>1
    <3> QED BY <3>1, <3>2 DEF Elements
  <2> QED BY <1>1, <2>1, <2>2
<1>3. ASSUME NEW i \in 1 .. Len(a) PROVE a[i] \in Elements(a \o b)
  <2>1. i \in 1 .. Len(a \o b) /\ (a \o b)[i] = a[i]
    BY <1>1
  <2> QED BY <2>1 DEF Elements
<1>4. ASSUME NEW i \in 1 .. Len(b) PROVE b[i] \in Elements(a \o b)
  <2>1. Len(a) + i \in 1 .. Len(a \o b) /\ (a \o b)[Len(a) + i] = b[i]
    BY <1>1
  <2> QED BY <2>1 DEF Elements
<1>5. Elements(a \o b) \subseteq Elements(a) \union Elements(b)
  BY <1>2 DEF Elements
<1>6. Elements(a) \union Elements(b) \subseteq Elements(a \o b)
  BY <1>3, <1>4 DEF Elements
<1> QED BY <1>1, <1>5, <1>6

\* ... and a short one has the elements that are listed.
LEMMA FewElements ==
    ASSUME NEW S
    PROVE  /\ Elements(<< >>) = {} /\ << >> \in Seq(S)
           /\ \A a \in S : << a >> \in Seq(S) /\ Elements(<< a >>) = {a}
           /\ \A a, b \in S : << a, b >> \in Seq(S) /\ Elements(<< a, b >>) = {a, b}
           /\ \A a, b, c \in S :
                << a, b, c >> \in Seq(S) /\ Elements(<< a, b, c >>) = {a, b, c}
           /\ \A a, b, c, d \in S :
                /\ << a, b, c, d >> \in Seq(S)
                /\ Elements(<< a, b, c, d >>) = {a, b, c, d}
  BY DEF Elements

\* What short lists put together are.
LEMMA ShortLists ==
    ASSUME NEW S, NEW a \in S, NEW b \in S, NEW c \in S
    PROVE  << a, b >> \o << c >> = << a, b, c >> /\ << >> \o << c >> = << c >>
<1> DEFINE p == << a, b >>
           q == << c >>
           r == << a, b, c >>
<1>1. /\ p \in Seq(S) /\ q \in Seq(S) /\ r \in Seq(S)
      /\ Len(p) = 2 /\ p[1] = a /\ p[2] = b /\ Len(q) = 1 /\ q[1] = c
      /\ Len(r) = 3 /\ r[1] = a /\ r[2] = b /\ r[3] = c
  OBVIOUS
<1> HIDE DEF p, q, r
<1>7. p \in Seq(S) /\ q \in Seq(S)
  BY <1>1
<1>2. /\ p \o q \in Seq(S) /\ Len(p \o q) = Len(p) + Len(q)
      /\ \A i \in 1 .. Len(p) : (p \o q)[i] = p[i]
      /\ \A i \in 1 .. Len(q) : (p \o q)[Len(p) + i] = q[i]
  BY <1>7
<1>5. (p \o q)[1] = a /\ (p \o q)[2] = b
  BY <1>1, <1>2
<1>6. (p \o q)[3] = c
  <2>1. 1 \in 1 .. Len(q) /\ Len(p) + 1 = 3
    BY <1>1
  <2> QED BY <1>1, <1>2, <2>1
<1>3. p \o q = r
  BY <1>1, <1>2, <1>5, <1>6
<1>4. << >> \o q = q
  BY <1>1
<1> QED BY <1>3, <1>4 DEF p, q, r

\* A message posted is behind the others.
LEMMA PostedElements ==
    ASSUME NEW S, NEW s \in Seq(S), NEW m \in S
    PROVE  Append(s, m) \in Seq(S) /\ Elements(Append(s, m)) = Elements(s) \union {m}
<1> DEFINE t == << m >>
<1>1. Append(s, m) = s \o t /\ t \in Seq(S) /\ Elements(t) = {m}
  BY DEF Elements
<1> HIDE DEF t
<1>2. s \o t \in Seq(S) /\ Elements(s \o t) = Elements(s) \union Elements(t)
  BY <1>1, JoinedElements
<1> QED BY <1>1, <1>2

\* The elements of a list are the first one and those of the rest.
LEMMA TakenElements ==
    ASSUME NEW S, NEW s \in Seq(S), s # << >>
    PROVE  Elements(s) = {Head(s)} \union Elements(Tail(s))
<1> DEFINE t == << Head(s) >>
<1>1. Head(s) \in S /\ Tail(s) \in Seq(S) /\ t \in Seq(S) /\ t \o Tail(s) = s
  BY FirstElement
<1>2. Elements(t) = {Head(s)}
  BY DEF Elements
<1> HIDE DEF t
<1>3. Elements(t \o Tail(s)) = Elements(t) \union Elements(Tail(s))
  BY ZenonT(60), <1>1, JoinedElements
<1> QED BY <1>1, <1>2, <1>3

-----------------------------------------------------------------------------
(* What stands before what.                                                 *)

\* The rest of a list keeps the order, and the first element stands before it.
LEMMA PairsRest ==
    ASSUME NEW S, NEW R, NEW s \in Seq(S), s # << >>, Pairs(R, s)
    PROVE  /\ Pairs(R, Tail(s))
           /\ \A y \in Elements(Tail(s)) : << Head(s), y >> \in R
<1>1. /\ Head(s) = s[1] /\ Tail(s) \in Seq(S) /\ Len(s) \in Nat \ {0}
      /\ Len(Tail(s)) = Len(s) - 1
      /\ \A i \in 1 .. Len(s) - 1 : Tail(s)[i] = s[i + 1]
  OBVIOUS
<1>2. ASSUME NEW i \in 1 .. Len(Tail(s)), NEW j \in 1 .. Len(Tail(s)), i < j
      PROVE  << Tail(s)[i], Tail(s)[j] >> \in R
  <2>1. /\ i + 1 \in 1 .. Len(s) /\ j + 1 \in 1 .. Len(s) /\ i + 1 < j + 1
        /\ Tail(s)[i] = s[i + 1] /\ Tail(s)[j] = s[j + 1]
    BY <1>1, <1>2
  <2> QED BY <2>1 DEF Pairs
<1>3. ASSUME NEW j \in 1 .. Len(Tail(s)) PROVE << Head(s), Tail(s)[j] >> \in R
  <2>1. 1 \in 1 .. Len(s) /\ j + 1 \in 1 .. Len(s) /\ 1 < j + 1 /\ Tail(s)[j] = s[j + 1]
    BY <1>1
  <2> QED BY <1>1, <2>1 DEF Pairs
<1> QED BY <1>2, <1>3 DEF Pairs, Elements

\* Two lists joined keep the order if everything in the first may stand before
\* everything in the second.
LEMMA PairsJoined ==
    ASSUME NEW S, NEW R, NEW a \in Seq(S), NEW b \in Seq(S), Pairs(R, a), Pairs(R, b),
           \A x \in Elements(a), y \in Elements(b) : << x, y >> \in R
    PROVE  Pairs(R, a \o b)
<1>1. /\ a \o b \in Seq(S) /\ Len(a \o b) = Len(a) + Len(b)
      /\ Len(a) \in Nat /\ Len(b) \in Nat
      /\ \A i \in 1 .. Len(a) : (a \o b)[i] = a[i]
      /\ \A i \in 1 .. Len(b) : (a \o b)[Len(a) + i] = b[i]
  OBVIOUS
<1> DEFINE c == a \o b
<1> HIDE DEF c
<1>2. ASSUME NEW i \in 1 .. Len(c), i > Len(a)
      PROVE  i - Len(a) \in 1 .. Len(b) /\ c[i] = b[i - Len(a)]
  <2>1. i - Len(a) \in 1 .. Len(b) /\ i = Len(a) + (i - Len(a))
    BY <1>1, <1>2 DEF c
  <2> QED BY <1>1, <2>1 DEF c
<1>3. ASSUME NEW i \in 1 .. Len(c), i <= Len(a)
      PROVE  i \in 1 .. Len(a) /\ c[i] = a[i]
  BY <1>1, <1>3 DEF c
<1>4. ASSUME NEW i \in 1 .. Len(c), NEW j \in 1 .. Len(c), i < j
      PROVE  << c[i], c[j] >> \in R
  <2>1. CASE j <= Len(a)
    BY <1>1, <1>3, <1>4, <2>1 DEF Pairs
  <2>2. CASE i > Len(a)
    <3>1. i - Len(a) < j - Len(a) /\ j > Len(a)
      BY <1>1, <1>4, <2>2
    <3> QED BY <1>2, <2>2, <3>1 DEF Pairs
  <2>3. CASE i <= Len(a) /\ j > Len(a)
    <3>1. c[i] \in Elements(a)
      BY <1>3, <2>3 DEF Elements
    <3>2. c[j] \in Elements(b)
      BY <1>2, <2>3 DEF Elements
    <3> QED BY <3>1, <3>2
  <2> QED BY <1>1, <2>1, <2>2, <2>3
<1> QED BY <1>4 DEF Pairs, c

\* Short lists are in order if their elements are.
LEMMA PairsShort ==
    ASSUME NEW R
    PROVE  /\ Pairs(R, << >>)
           /\ \A x : Pairs(R, << x >>)
           /\ \A x, y : << x, y >> \in R => Pairs(R, << x, y >>)
           /\ \A x, y, z : << x, y >> \in R /\ << x, z >> \in R /\ << y, z >> \in R
                           => Pairs(R, << x, y, z >>)
           /\ \A w, x, y, z :
                /\ << w, x >> \in R /\ << w, y >> \in R /\ << w, z >> \in R
                /\ << x, y >> \in R /\ << x, z >> \in R /\ << y, z >> \in R
                => Pairs(R, << w, x, y, z >>)
<1>1. Pairs(R, << >>) /\ \A x : Pairs(R, << x >>)
  BY DEF Pairs
<1>2. ASSUME NEW x, NEW y, << x, y >> \in R PROVE Pairs(R, << x, y >>)
  BY <1>2 DEF Pairs
<1>3. ASSUME NEW x, NEW y, NEW z, << x, y >> \in R, << x, z >> \in R, << y, z >> \in R
      PROVE  Pairs(R, << x, y, z >>)
  BY <1>3 DEF Pairs
<1>4. ASSUME NEW w, NEW x, NEW y, NEW z,
             << w, x >> \in R, << w, y >> \in R, << w, z >> \in R,
             << x, y >> \in R, << x, z >> \in R, << y, z >> \in R
      PROVE  Pairs(R, << w, x, y, z >>)
  BY <1>4 DEF Pairs
<1> QED BY <1>1, <1>2, <1>3, <1>4

\* A list that begins with something else.
LEMMA PairsPrefixed ==
    ASSUME NEW S, NEW R, NEW s \in Seq(S), NEW x \in S, Pairs(R, s),
           \A y \in Elements(s) : << x, y >> \in R
    PROVE  /\ << x >> \o s \in Seq(S) /\ Pairs(R, << x >> \o s)
           /\ Elements(<< x >> \o s) = {x} \union Elements(s)
           /\ << x >> \o s # << >> /\ Head(<< x >> \o s) = x
<1> DEFINE a == << x >>
<1>1. a \in Seq(S) /\ Elements(a) = {x} /\ Pairs(R, a)
  BY FewElements, PairsShort, Zenon
<1>2. a \o s # << >> /\ Head(a \o s) = x
  OBVIOUS
<1> HIDE DEF a
<1>3. Pairs(R, a \o s)
  BY <1>1, PairsJoined
<1>4. a \o s \in Seq(S) /\ Elements(a \o s) = Elements(a) \union Elements(s)
  BY <1>1, JoinedElements
<1> QED BY <1>1, <1>2, <1>3, <1>4 DEF a

\* A list with one more at its end.
LEMMA PairsPosted ==
    ASSUME NEW S, NEW R, NEW s \in Seq(S), NEW m \in S, Pairs(R, s),
           \A y \in Elements(s) : << y, m >> \in R
    PROVE  /\ Append(s, m) \in Seq(S) /\ Pairs(R, Append(s, m))
           /\ Elements(Append(s, m)) = Elements(s) \union {m}
           /\ Len(Append(s, m)) = Len(s) + 1 /\ Append(s, m) # << >>
<1> DEFINE a == << m >>
<1>1. a \in Seq(S) /\ Elements(a) = {m} /\ Pairs(R, a)
  BY FewElements, PairsShort, Zenon
<1>2. Append(s, m) = s \o a /\ Len(Append(s, m)) = Len(s) + 1 /\ Append(s, m) # << >>
  OBVIOUS
<1> HIDE DEF a
<1>3. Pairs(R, s \o a)
  BY <1>1, PairsJoined
<1>4. Append(s, m) \in Seq(S) /\ Elements(Append(s, m)) = Elements(s) \union {m}
  BY PostedElements
<1> QED BY <1>2, <1>3, <1>4

\* What is left of a list without its first element.
LEMMA Rest ==
    ASSUME NEW S, NEW R, NEW s \in Seq(S), s # << >>, Pairs(R, s)
    PROVE  /\ Head(s) \in S /\ Tail(s) \in Seq(S) /\ Pairs(R, Tail(s))
           /\ Elements(s) = {Head(s)} \union Elements(Tail(s))
           /\ \A y \in Elements(Tail(s)) : << Head(s), y >> \in R
           /\ Len(Tail(s)) = Len(s) - 1 /\ Len(s) \in Nat \ {0}
<1>1. /\ Head(s) \in S /\ Tail(s) \in Seq(S) /\ Len(Tail(s)) = Len(s) - 1
      /\ Len(s) \in Nat \ {0}
  OBVIOUS
<1> QED BY <1>1, PairsRest, TakenElements

=============================================================================
