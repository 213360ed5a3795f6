-------------------------- MODULE PeerStream_proofs --------------------------
(***************************************************************************)
(* What one direction of a connection guarantees, for any number of        *)
(* packages of any lengths and of reads.                                   *)
(*                                                                         *)
(* Bytes are clean when the loop of recieve_packets cuts them into the     *)
(* same packages whatever follows them: framed packages are (CleanFramed), *)
(* and so is what they make one after the other (CleanBoth).  The          *)
(* invariant SInv says that where reads do not cut what was sent, the      *)
(* bytes in every place - the sender's buffer, the wire, what has arrived  *)
(* - are clean, and which packages they hold.                              *)
(***************************************************************************)
EXTENDS PeerStream, SequenceTheorems, WellFoundedInduction, TLAPS

-----------------------------------------------------------------------------
(* Induction over numbers, with sets *)

LEMMA LeastNumber ==
  ASSUME NEW T \in SUBSET Nat, T # {}
  PROVE  \E n \in T : \A m \in T : n <= m
<1> DEFINE R == {ss \in Nat \X Nat : ss[1] < ss[2]}
<1>1. IsWellFoundedOn(R, Nat)
  BY NatLessThanWellFounded DEF OpToRel
<1>2. \A x, y \in Nat : <<x, y>> \in R <=> x < y
  OBVIOUS
<1> HIDE DEF R
<1>3. PICK n \in T : \A y \in T : ~ (<<y, n>> \in R)
  BY <1>1, WFMin
<1>4. n \in Nat /\ \A y \in T : y \in Nat /\ ~ (y < n)
  BY <1>2, <1>3
<1>5. \A y \in T : n <= y
  BY <1>4
<1> QED BY <1>5

LEMMA StrongInduction ==
  ASSUME NEW T, \A n \in Nat : (\A m \in Nat : m < n => m \in T) => n \in T
  PROVE  \A n \in Nat : n \in T
<1> SUFFICES ASSUME {x \in Nat : x \notin T} # {} PROVE FALSE
  OBVIOUS
<1>1. PICK n \in {x \in Nat : x \notin T} : \A m \in {x \in Nat : x \notin T} : n <= m
  BY LeastNumber
<1>2. \A m \in Nat : m < n => m \in T
  BY <1>1
<1> QED BY <1>1, <1>2

-----------------------------------------------------------------------------
(* Cutting bytes into packages.  From every place the loop goes on at a later *)
(* one, so there is a function that says what it cuts out from each place.  *)
cutsFrom(d, f, c) ==
  IF c + 4 >= Len(d) THEN <<>>
  ELSE LET size == Int32(d, c)
           next == c + 4 + size
       IN  IF next > Len(d) THEN <<>>
           ELSE IF size < 1 THEN f[c + 4]
           ELSE <<SubSeq(d, c + 5, next)>> \o f[next]

CutsAfter(d, m, f) == f = [c \in m..Len(d) |-> cutsFrom(d, f, c)]

LEMMA SizeIsNumber ==
  ASSUME NEW d \in Seq(Nat), NEW c \in Nat, c + 4 < Len(d)
  PROVE  Int32(d, c) \in Nat
<1>0. Len(d) \in Nat
  BY LenProperties
<1>1. c + 1 \in 1..Len(d) /\ c + 2 \in 1..Len(d) /\ c + 3 \in 1..Len(d) /\ c + 4 \in 1..Len(d)
  BY <1>0
<1>2. d[c + 1] \in Nat /\ d[c + 2] \in Nat /\ d[c + 3] \in Nat /\ d[c + 4] \in Nat
  BY <1>1, ElementOfSeq
<1> DEFINE w == d[c + 1]
           x == d[c + 2]
           y == d[c + 3]
           z == d[c + 4]
<1>3. Int32(d, c) = w + 256 * (x + 256 * (y + 256 * z))
  BY DEF Int32
<1>4. w \in Nat /\ x \in Nat /\ y \in Nat /\ z \in Nat
  BY <1>2
<1> HIDE DEF w, x, y, z
<1> QED BY <1>3, <1>4

LEMMA LaterCutsCount ==
  ASSUME NEW d \in Seq(Nat), NEW c \in 0..Len(d), NEW f, NEW g,
         \A e \in c + 1..Len(d) : f[e] = g[e]
  PROVE  cutsFrom(d, f, c) = cutsFrom(d, g, c)
<1>1. Len(d) \in Nat
  BY LenProperties
<1>2. CASE c + 4 >= Len(d)
  BY <1>2 DEF cutsFrom
<1>3. CASE c + 4 < Len(d)
  <2> DEFINE size == Int32(d, c)
  <2>1. size \in Nat
    BY <1>3, SizeIsNumber
  <2> HIDE DEF size
  <2>2. c + 4 \in c + 1..Len(d)
    BY <1>1, <1>3
  <2>3. ~ (c + 4 + size > Len(d)) => c + 4 + size \in c + 1..Len(d)
    BY <1>1, <1>3, <2>1
  <2>4. f[c + 4] = g[c + 4] /\ (~ (c + 4 + size > Len(d)) => f[c + 4 + size] = g[c + 4 + size])
    BY <2>2, <2>3
  <2> QED BY <2>4 DEF cutsFrom, size
<1> QED BY <1>1, <1>2, <1>3

LEMMA CutsExist ==
  ASSUME NEW d \in Seq(Nat)
  PROVE  \E f : CutsAfter(d, 0, f)
<1> DEFINE L == Len(d)
           T == {n \in Nat : n <= L => \E f : CutsAfter(d, L - n, f)}
<1>0. L \in Nat
  BY LenProperties
<1> HIDE DEF L
<1>1. ASSUME NEW n \in Nat, \A m \in Nat : m < n => m \in T
      PROVE  n \in T
  <2> SUFFICES ASSUME n <= L PROVE \E f : CutsAfter(d, L - n, f)
    OBVIOUS
  <2> DEFINE a == L - n
  <2>1. a \in 0..L
    BY <1>0
  <2>2. \E h : \A e \in a + 1..L : h[e] = cutsFrom(d, h, e)
    <3>1. CASE n = 0
      BY <1>0, <3>1
    <3>2. CASE n # 0
      <4>1. n - 1 \in Nat /\ n - 1 < n /\ n - 1 <= L /\ L - (n - 1) = a + 1
        BY <1>0, <3>2
      <4>2. n - 1 \in T
        BY <1>1, <4>1
      <4>3. PICK h : CutsAfter(d, L - (n - 1), h)
        BY <4>1, <4>2
      <4>4. h = [e \in a + 1..L |-> cutsFrom(d, h, e)]
        BY <4>1, <4>3 DEF CutsAfter, L
      <4> QED BY <4>4
    <3> QED BY <3>1, <3>2
  <2>3. PICK h : \A e \in a + 1..L : h[e] = cutsFrom(d, h, e)
    BY <2>2
  <2> HIDE DEF a
  <2> DEFINE f == [c \in a..L |-> IF c = a THEN cutsFrom(d, h, a) ELSE h[c]]
  <2>4. \A e \in a + 1..L : e \in a..L /\ e # a
    BY <1>0, <2>1
  <2>5. \A e \in a + 1..L : f[e] = h[e]
    BY <2>4
  <2>6. f[a] = cutsFrom(d, h, a) /\ f = [c \in a..L |-> f[c]]
    BY <1>0, <2>1
  <2> HIDE DEF f
  <2>7. ASSUME NEW c \in a..L PROVE f[c] = cutsFrom(d, f, c)
    <3>1. c \in 0..Len(d) /\ \A e \in c + 1..Len(d) : e \in a + 1..L
      BY <1>0, <2>1 DEF L
    <3>2. cutsFrom(d, f, c) = cutsFrom(d, h, c)
      BY <2>5, <3>1, LaterCutsCount
    <3>3. c = a \/ c \in a + 1..L
      BY <1>0, <2>1
    <3> QED BY <2>3, <2>5, <2>6, <3>2, <3>3
  <2>8. CutsAfter(d, a, f)
    BY <2>6, <2>7 DEF CutsAfter, L
  <2> QED BY <2>8 DEF a
<1> HIDE DEF T
<1>2. \A n \in Nat : n \in T
  BY <1>1, StrongInduction
<1>3. L \in T /\ L - L = 0
  BY <1>0, <1>2
<1> QED BY <1>0, <1>3 DEF T

LEMMA PacketsAreCuts ==
  ASSUME NEW d \in Seq(Nat)
  PROVE  \E f : /\ Packets(d) = f[0]
                /\ \A c \in 0..Len(d) : f[c] = cutsFrom(d, f, c)
<1> DEFINE f == CHOOSE g : CutsAfter(d, 0, g)
<1>1. CutsAfter(d, 0, f)
  BY CutsExist
<1>2. Packets(d) = f[0]
  BY DEF Packets, CutsAfter, cutsFrom
<1> HIDE DEF f
<1>3. \A c \in 0..Len(d) : f[c] = cutsFrom(d, f, c)
  BY <1>1 DEF CutsAfter
<1> QED BY <1>2, <1>3

Cuts(d, f) == d \in Seq(Nat) /\ \A c \in 0..Len(d) : f[c] = cutsFrom(d, f, c)

(* What is cut out does not depend on what was read before it. *)
LEMMA ZeroIsNumber == 0 \in Nat
OBVIOUS

LEMMA SameSize ==
  ASSUME NEW u, NEW e, NEW b, NEW c,
         u[e + 1] = b[c + 1], u[e + 2] = b[c + 2], u[e + 3] = b[c + 3], u[e + 4] = b[c + 4]
  PROVE  Int32(u, e) = Int32(b, c)
BY DEF Int32

LEMMA SizeShifts ==
  ASSUME NEW a \in Seq(Nat), NEW b \in Seq(Nat), NEW c \in Nat, c + 4 < Len(b)
  PROVE  Int32(a \o b, Len(a) + c) = Int32(b, c)
<1> DEFINE A == Len(a)
           B == Len(b)
           u == a \o b
           e == A + c
<1>1. A \in Nat /\ B \in Nat
  BY LenProperties
<1>2. \A i \in 1..A + B : u[i] = IF i <= A THEN a[i] ELSE b[i - A]
  BY ConcatProperties
<1>3. c + 4 < B
  OBVIOUS
<1> HIDE DEF A, B, u
<1>4. \A i \in 1..4 : e + i \in 1..A + B /\ ~ (e + i <= A) /\ (e + i) - A = c + i
  BY <1>1, <1>3
<1>5. \A i \in 1..4 : u[e + i] = b[c + i]
  BY <1>2, <1>4
<1>6. 1 \in 1..4 /\ 2 \in 1..4 /\ 3 \in 1..4 /\ 4 \in 1..4
  OBVIOUS
<1> DEFINE d == b
           k == c
<1> HIDE DEF e
<1>7. u[e + 1] = d[k + 1] /\ u[e + 2] = d[k + 2] /\ u[e + 3] = d[k + 3] /\ u[e + 4] = d[k + 4]
  BY <1>5, <1>6
<1> HIDE DEF d, k
<1>8. Int32(u, e) = Int32(d, k)
  BY <1>7, SameSize
<1> QED BY <1>8 DEF e, A, u, d, k

IsPart(S, v, u, x, y) ==
  /\ v \in Seq(S)
  /\ x <= y => Len(v) = y - x + 1
  /\ ~ (x <= y) => Len(v) = 0
  /\ \A i \in 1..y - x + 1 : v[i] = u[x + i - 1]

LEMMA PartIs ==
  ASSUME NEW S, NEW u \in Seq(S), NEW x \in Nat, NEW y \in Nat, 1 <= x, y <= Len(u)
  PROVE  IsPart(S, SubSeq(u, x, y), u, x, y)
<1> DEFINE v == SubSeq(u, x, y)
<1>1. Len(u) \in Nat
  BY LenProperties
<1>2. x \in Int /\ y \in Int /\ \A i \in x..y : i \in 1..Len(u)
  BY <1>1
<1>3. \A i \in x..y : u[i] \in S
  BY <1>2, ElementOfSeq
<1>4. /\ v \in Seq(S)
      /\ Len(v) = IF x <= y THEN y - x + 1 ELSE 0
      /\ \A i \in 1..Len(v) : v[i] = u[x + i - 1]
  BY <1>2, <1>3, SubSeqProperties
<1> HIDE DEF v
<1>5. (x <= y => Len(v) = y - x + 1) /\ (~ (x <= y) => Len(v) = 0)
  BY <1>4
<1>6. \A i \in 1..y - x + 1 : i \in 1..Len(v)
  BY <1>2, <1>4
<1>7. IsPart(S, v, u, x, y)
  BY <1>4, <1>5, <1>6 DEF IsPart
<1> QED BY <1>7 DEF v

LEMMA PartShifts ==
  ASSUME NEW a \in Seq(Nat), NEW b \in Seq(Nat), NEW x \in Nat, NEW y \in Nat,
         1 <= x, y <= Len(b)
  PROVE  SubSeq(a \o b, Len(a) + x, Len(a) + y) = SubSeq(b, x, y)
<1> DEFINE A == Len(a)
           B == Len(b)
           u == a \o b
           X == A + x
           Y == A + y
           v == SubSeq(u, X, Y)
           w == SubSeq(b, x, y)
           n == y - x + 1
<1>1. A \in Nat /\ B \in Nat /\ y <= B
  BY LenProperties
<1>2. \A i \in 1..A + B : u[i] = IF i <= A THEN a[i] ELSE b[i - A]
  BY ConcatProperties
<1>3. u \in Seq(Nat) /\ Len(u) = A + B
  BY ConcatProperties
<1> HIDE DEF A, B, u
<1>4. /\ X \in Nat /\ Y \in Nat /\ 1 <= X /\ Y <= A + B /\ Y - X + 1 = n /\ (X <= Y <=> x <= y)
      /\ n \in Int /\ (x <= y <=> 1 <= n)
      /\ \A i \in 1..n : /\ X + i - 1 \in 1..A + B /\ ~ (X + i - 1 <= A)
                         /\ (X + i - 1) - A = x + i - 1
  BY <1>1
<1> HIDE DEF X, Y
<1>a. X \in Nat /\ Y \in Nat /\ 1 <= X /\ Y <= Len(u)
  BY <1>3, <1>4
<1>b. IsPart(Nat, v, u, X, Y)
  BY <1>3, <1>a, PartIs
<1>c. IsPart(Nat, w, b, x, y)
  BY PartIs
<1> HIDE DEF v, w
<1>d. v \in Seq(Nat) /\ w \in Seq(Nat)
  BY <1>b, <1>c DEF IsPart
<1>e. CASE ~ (x <= y)
  <2>1. Len(v) = 0 /\ Len(w) = 0
    BY <1>4, <1>b, <1>c, <1>e DEF IsPart
  <2>2. v = <<>> /\ w = <<>>
    BY <1>d, <2>1, EmptySeq
  <2> QED BY <2>2 DEF v, w, u, X, Y, A
<1>f. CASE x <= y
  <2>a. Len(v) = Y - X + 1 /\ Len(w) = n
    BY <1>4, <1>b, <1>c, <1>f DEF IsPart
  <2>b. /\ Len(v) = n /\ Len(w) = n
        /\ \A i \in 1..n : v[i] = u[X + i - 1] /\ w[i] = b[x + i - 1]
    BY <1>4, <1>b, <1>c, <2>a DEF IsPart
  <2> HIDE DEF n
  <2>1. ASSUME NEW i \in 1..n PROVE v[i] = w[i]
    <3>1. v[i] = u[X + i - 1] /\ w[i] = b[x + i - 1]
      BY <2>b, <2>1
    <3>2. u[X + i - 1] = b[(X + i - 1) - A]
      BY <1>2, <1>4, <2>1
    <3> QED BY <1>4, <2>1, <3>1, <3>2
  <2>2. v = w
    BY <1>d, <2>b, <2>1, SeqEqual
  <2> QED BY <2>2 DEF v, w, u, X, Y, A
<1> QED BY <1>e, <1>f

LEMMA StepShifts ==
  ASSUME NEW a \in Seq(Nat), NEW b \in Seq(Nat), NEW f, NEW g, NEW c \in 0..Len(b),
         \A e \in c + 1..Len(b) : f[Len(a) + e] = g[e]
  PROVE  cutsFrom(a \o b, f, Len(a) + c) = cutsFrom(b, g, c)
<1> DEFINE A == Len(a)
           B == Len(b)
           u == a \o b
<1>1. A \in Nat /\ B \in Nat /\ c \in Nat /\ Len(u) = A + B
  <2>1. A \in Nat /\ B \in Nat
    BY LenProperties
  <2> QED BY <2>1, ConcatProperties
<1>2. CASE c + 4 >= B
  <2>1. (A + c) + 4 >= Len(u)
    <3> HIDE DEF A, B, u
    <3> QED BY <1>1, <1>2
  <2> QED BY <1>2, <2>1 DEF cutsFrom
<1>3. CASE c + 4 < B
  <2> DEFINE size == Int32(b, c)
             next == c + 4 + size
  <2>1. size \in Nat
    BY <1>1, <1>3, SizeIsNumber
  <2>2. Int32(u, A + c) = size
    BY <1>1, <1>3, SizeShifts
  <2> HIDE DEF size
  <2>3. next \in Nat /\ (A + c) + 4 + size = A + next
    BY <1>1, <2>1
  <2>4. cutsFrom(b, g, c) = IF next > B THEN <<>>
                            ELSE IF size < 1 THEN g[c + 4]
                            ELSE <<SubSeq(b, c + 5, next)>> \o g[next]
    <3>1. ~ (c + 4 >= B)
      BY <1>1, <1>3
    <3> QED BY <3>1 DEF cutsFrom, size
  <2>5. cutsFrom(u, f, A + c) = IF A + next > Len(u) THEN <<>>
                                ELSE IF size < 1 THEN f[(A + c) + 4]
                                ELSE <<SubSeq(u, (A + c) + 5, A + next)>> \o f[A + next]
    <3>1. ~ ((A + c) + 4 >= Len(u))
      <4> HIDE DEF A, B, u
      <4> QED BY <1>1, <1>3
    <3> HIDE DEF A, u, next
    <3> QED BY <2>2, <2>3, <3>1 DEF cutsFrom
  <2>6. next >= c + 4 /\ (~ (size < 1) => 1 <= c + 5)
    BY <1>1, <2>1
  <2>9. \A e \in c + 1..B : f[A + e] = g[e]
    OBVIOUS
  <2> HIDE DEF next, u, A, B
  <2>7. CASE next > B
    <3>1. A + next > Len(u)
      BY <1>1, <2>3, <2>7
    <3> QED BY <2>4, <2>5, <2>7, <3>1 DEF u, A
  <2>8. CASE ~ (next > B)
    <3>1. ~ (A + next > Len(u)) /\ next \in c + 1..B /\ c + 4 \in c + 1..B
          /\ (A + c) + 4 = A + (c + 4) /\ (A + c) + 5 = A + (c + 5)
      BY <1>1, <1>3, <2>3, <2>6, <2>8
    <3>2. f[A + next] = g[next] /\ f[(A + c) + 4] = g[c + 4]
      BY <2>9, <3>1
    <3>3. SubSeq(u, A + (c + 5), A + next) = SubSeq(b, c + 5, next)
      <4> DEFINE x == c + 5
      <4>1. x \in Nat /\ 1 <= x /\ next <= Len(b)
        BY <1>1, <2>3, <2>8 DEF B
      <4> HIDE DEF x
      <4>2. SubSeq(a \o b, Len(a) + x, Len(a) + next) = SubSeq(b, x, next)
        BY <2>3, <4>1, PartShifts
      <4> QED BY <4>2 DEF x, u, A
    <3>4. CASE size < 1
      <4>1. cutsFrom(u, f, A + c) = f[(A + c) + 4] /\ cutsFrom(b, g, c) = g[c + 4]
        BY <2>4, <2>5, <2>8, <3>1, <3>4
      <4> QED BY <3>2, <4>1 DEF u, A
    <3>5. CASE ~ (size < 1)
      <4>1. /\ cutsFrom(u, f, A + c) = <<SubSeq(u, (A + c) + 5, A + next)>> \o f[A + next]
            /\ cutsFrom(b, g, c) = <<SubSeq(b, c + 5, next)>> \o g[next]
        BY <2>4, <2>5, <2>8, <3>1, <3>5
      <4>2. SubSeq(u, (A + c) + 5, A + next) = SubSeq(b, c + 5, next)
        BY <3>1, <3>3
      <4> QED BY <3>2, <4>1, <4>2 DEF u, A
    <3> QED BY <3>4, <3>5
  <2> QED BY <2>7, <2>8
<1>4. c + 4 >= B \/ c + 4 < B
  <2> HIDE DEF B
  <2> QED BY <1>1
<1> QED BY <1>2, <1>3, <1>4

LEMMA CutsShift ==
  ASSUME NEW a \in Seq(Nat), NEW b \in Seq(Nat), NEW f, Cuts(a \o b, f), NEW g, Cuts(b, g)
  PROVE  f[Len(a)] = g[0]
<1> DEFINE A == Len(a)
           B == Len(b)
           T == {n \in Nat : n <= B => f[A + (B - n)] = g[B - n]}
<1>1. A \in Nat /\ B \in Nat /\ Len(a \o b) = A + B
  <2>1. A \in Nat /\ B \in Nat
    BY LenProperties
  <2> QED BY <2>1, ConcatProperties
<1>2. ASSUME NEW n \in Nat, \A m \in Nat : m < n => m \in T
      PROVE  n \in T
  <2> SUFFICES ASSUME n <= B PROVE f[A + (B - n)] = g[B - n]
    OBVIOUS
  <2> DEFINE c == B - n
  <2> HIDE DEF A, B
  <2>1. c \in 0..B /\ A + c \in 0..A + B
    BY <1>1
  <2>2. ASSUME NEW e \in c + 1..B PROVE f[A + e] = g[e]
    <3>1. B - e \in Nat /\ B - e < n /\ B - e <= B /\ B - (B - e) = e
      BY <1>1, <2>1
    <3>2. B - e \in T
      BY <1>2, <3>1
    <3> QED BY <3>1, <3>2
  <2> HIDE DEF c
  <2>3. cutsFrom(a \o b, f, A + c) = cutsFrom(b, g, c)
    BY <2>1, <2>2, StepShifts DEF A, B
  <2>4. f[A + c] = cutsFrom(a \o b, f, A + c) /\ g[c] = cutsFrom(b, g, c)
    BY <1>1, <2>1 DEF Cuts, B
  <2> QED BY <2>3, <2>4 DEF c
<1> HIDE DEF T
<1>3. \A n \in Nat : n \in T
  BY <1>2, StrongInduction
<1>4. B \in T /\ B <= B /\ B - B = 0 /\ A + 0 = A
  <2>1. B \in Nat
    BY <1>1
  <2> HIDE DEF A, B
  <2> QED BY <1>1, <1>3, <2>1
<1>5. f[A + (B - B)] = g[B - B]
  BY <1>4 DEF T
<1> QED BY <1>4, <1>5

-----------------------------------------------------------------------------
(* A framed package is cut out, and the loop goes on behind it. *)
Payload(m) == m \in Seq(Nat) /\ Len(m) \in Lengths

LEMMA LengthIs ==
  ASSUME NEW n \in Lengths
  PROVE  n \in Nat /\ 1 <= n
BY SMT DEF Lengths

LEMMA Division ==
  ASSUME NEW n \in Nat
  PROVE  n % 256 \in Nat /\ n % 256 < 256 /\ n \div 256 \in Nat /\ (n % 256) + 256 * (n \div 256) = n
BY SMT

LEMMA LengthHigh ==
  ASSUME NEW n \in Lengths, NEW r \in Nat, NEW q \in Nat, r + 256 * q = n
  PROVE  q < 256
<1>1. n \in Nat /\ n < 256 * 256
  BY SMT DEF Lengths
<1> QED BY <1>1, SMT

LEMMA HighZeros ==
  ASSUME NEW x \in Nat, NEW y \in Nat
  PROVE  x + 256 * (y + 256 * (0 + 256 * 0)) = x + 256 * y
BY SMT

LEMMA LengthBytes ==
  ASSUME NEW n \in Lengths
  PROVE  \E x \in Byte, y \in Byte :
            /\ x = n % 256 /\ y = n \div 256
            /\ x + 256 * (y + 256 * (0 + 256 * 0)) = n
<1> DEFINE x == n % 256
           y == n \div 256
<1>1. n \in Nat
  BY LengthIs
<1>2. x \in Nat /\ y \in Nat /\ x < 256 /\ y < 256 /\ x + 256 * y = n
  <2>1. x \in Nat /\ x < 256 /\ y \in Nat /\ x + 256 * y = n
    BY <1>1, Division
  <2> HIDE DEF x, y
  <2> QED BY <2>1, LengthHigh
<1>3. x \in Byte /\ y \in Byte /\ x \in Nat /\ y \in Nat
  BY <1>2 DEF Byte
<1> HIDE DEF x, y
<1>4. x + 256 * (y + 256 * (0 + 256 * 0)) = n
  BY <1>2, <1>3, HighZeros
<1> QED BY <1>3, <1>4 DEF x, y

LEMMA ByteIsNumber == Byte \in SUBSET Nat /\ 0 \in Byte
BY DEF Byte

IsFrame(d, m, x, y) ==
  /\ d \in Seq(Nat) /\ Len(d) = 4 + Len(m)
  /\ d[1] = x /\ d[2] = y /\ d[3] = 0 /\ d[4] = 0
  /\ \A i \in 1..Len(m) : d[4 + i] = m[i]
  /\ x + 256 * (y + 256 * (0 + 256 * 0)) = Len(m)

LEMMA FramedIs ==
  ASSUME NEW m, Payload(m)
  PROVE  \E x \in Nat, y \in Nat : IsFrame(Framed(m), m, x, y)
<1>0. PICK x \in Byte, y \in Byte : /\ x = Len(m) % 256 /\ y = Len(m) \div 256
                                   /\ x + 256 * (y + 256 * (0 + 256 * 0)) = Len(m)
  BY LengthBytes DEF Payload
<1>a. x \in Nat /\ y \in Nat
  BY ByteIsNumber
<1> DEFINE h == <<x, y, 0, 0>>
           n == Len(m)
           d == Framed(m)
<1>1. n \in Nat /\ 1 <= n /\ m \in Seq(Nat)
  BY LengthIs DEF Payload
<1>2. d = h \o m
  BY <1>0 DEF Framed
<1>3. h \in Seq(Nat) /\ Len(h) = 4 /\ h[1] = x /\ h[2] = y /\ h[3] = 0 /\ h[4] = 0
  BY <1>a
<1> HIDE DEF h
<1>4. h \o m \in Seq(Nat) /\ Len(h \o m) = Len(h) + n
      /\ \A i \in 1..Len(h) + n : (h \o m)[i] = IF i <= Len(h) THEN h[i] ELSE m[i - Len(h)]
  <2>1. h \in Seq(Nat) /\ m \in Seq(Nat)
    BY <1>1, <1>3
  <2> QED BY <2>1, ConcatProperties
<1> HIDE DEF n, d
<1>5. d \in Seq(Nat) /\ Len(d) = 4 + n /\ \A i \in 1..4 + n : d[i] = IF i <= 4 THEN h[i] ELSE m[i - 4]
  BY <1>2, <1>3, <1>4
<1>6. /\ 1 \in 1..4 + n /\ 2 \in 1..4 + n /\ 3 \in 1..4 + n /\ 4 \in 1..4 + n
      /\ \A i \in 1..n : 4 + i \in 1..4 + n /\ ~ (4 + i <= 4) /\ (4 + i) - 4 = i
  BY <1>1
<1>7. \A i \in 1..n : d[4 + i] = m[i]
  BY <1>5, <1>6
<1>8. d[1] = h[1] /\ d[2] = h[2] /\ d[3] = h[3] /\ d[4] = h[4]
  BY <1>5, <1>6
<1>9. d[1] = x /\ d[2] = y /\ d[3] = 0 /\ d[4] = 0
  BY <1>3, <1>8
<1>10. IsFrame(d, m, x, y)
  BY <1>0, <1>5, <1>7, <1>9 DEF IsFrame, n
<1> QED BY <1>a, <1>10 DEF d

LEMMA CutFramed ==
  ASSUME NEW m, Payload(m), NEW e \in Seq(Nat), NEW f, Cuts(Framed(m) \o e, f)
  PROVE  f[0] = <<m>> \o f[4 + Len(m)]
<1> DEFINE h == Framed(m)
           d == h \o e
           n == Len(m)
<1>1. n \in Lengths /\ n \in Nat /\ 1 <= n /\ m \in Seq(Nat)
  BY LengthIs DEF Payload
<1>0. PICK x \in Nat, y \in Nat : IsFrame(Framed(m), m, x, y)
  BY FramedIs
<1>a. x + 256 * (y + 256 * (0 + 256 * 0)) = n
  BY <1>0 DEF IsFrame
<1>2. /\ h \in Seq(Nat) /\ Len(h) = 4 + n
      /\ h[1] = x /\ h[2] = y /\ h[3] = 0 /\ h[4] = 0
      /\ \A i \in 1..n : h[4 + i] = m[i]
  BY <1>0 DEF IsFrame
<1> HIDE DEF n
<1>3. d \in Seq(Nat) /\ Len(d) = 4 + n + Len(e) /\ Len(e) \in Nat
      /\ \A i \in 1..4 + n + Len(e) : d[i] = IF i <= 4 + n THEN h[i] ELSE e[i - (4 + n)]
  <2>1. h \o e \in Seq(Nat) /\ Len(h \o e) = Len(h) + Len(e)
        /\ \A i \in 1..Len(h) + Len(e) : (h \o e)[i] = IF i <= Len(h) THEN h[i] ELSE e[i - Len(h)]
    BY <1>2, ConcatProperties
  <2>2. Len(e) \in Nat
    BY LenProperties
  <2> HIDE DEF h
  <2> QED BY <1>2, <2>1, <2>2
<1>4. Cuts(d, f)
  OBVIOUS
<1> HIDE DEF h, d
<1>5. \A i \in 1..4 + n : i \in 1..4 + n + Len(e) /\ i <= 4 + n
  BY <1>1, <1>3
<1>7. \A i \in 1..4 + n : d[i] = h[i]
  BY <1>3, <1>5
<1>8. Int32(d, 0) = n
  <2>2. 1 \in 1..4 + n /\ 2 \in 1..4 + n /\ 3 \in 1..4 + n /\ 4 \in 1..4 + n
    BY <1>1
  <2>3. d[1] = x /\ d[2] = y /\ d[3] = 0 /\ d[4] = 0
    BY <1>2, <1>7, <2>2
  <2>4. d[0 + 1] = x /\ d[0 + 2] = y /\ d[0 + 3] = 0 /\ d[0 + 4] = 0
    BY <2>3
  <2>5. Int32(d, 0) = x + 256 * (y + 256 * (0 + 256 * 0))
    BY <2>4 DEF Int32
  <2> QED BY <1>a, <2>5
<1>9. 0 \in 0..Len(d) /\ ~ (0 + 4 >= Len(d)) /\ ~ (0 + 4 + n > Len(d)) /\ ~ (n < 1)
  BY <1>1, <1>3
<1>10. f[0] = <<SubSeq(d, 0 + 5, 0 + 4 + n)>> \o f[0 + 4 + n]
  <2>1. f[0] = cutsFrom(d, f, 0)
    BY <1>4, <1>9 DEF Cuts
  <2> QED BY <1>8, <1>9, <2>1 DEF cutsFrom
<1>11. SubSeq(d, 0 + 5, 0 + 4 + n) = m
  <2> DEFINE a == 0 + 5
             b == 0 + 4 + n
  <2>1. a \in Nat /\ b \in Nat /\ 1 <= a /\ b <= Len(d) /\ a <= b /\ b - a + 1 = n
        /\ \A i \in 1..n : a + i - 1 = 4 + i /\ 4 + i \in 1..4 + n
    BY <1>1, <1>3
  <2> HIDE DEF a, b
  <2>2. /\ SubSeq(d, a, b) \in Seq(Nat) /\ Len(SubSeq(d, a, b)) = n
        /\ \A i \in 1..n : SubSeq(d, a, b)[i] = d[a + i - 1]
    <3>1. IsPart(Nat, SubSeq(d, a, b), d, a, b)
      BY <1>3, <2>1, PartIs
    <3> QED BY <2>1, <3>1 DEF IsPart
  <2>3. \A i \in 1..n : SubSeq(d, a, b)[i] = m[i]
    BY <1>2, <1>7, <2>1, <2>2
  <2>4. SubSeq(d, a, b) = m
    BY <1>1, <2>2, <2>3, SeqEqual DEF n
  <2> QED BY <2>4 DEF a, b
<1>12. 0 + 4 + n = 4 + n
  BY <1>1
<1> QED BY <1>10, <1>11, <1>12 DEF n

-----------------------------------------------------------------------------
(* What is cut out of bytes are sequences of such bytes. *)
LEMMA OneThen ==
  ASSUME NEW S, NEW d \in Seq(S), NEW c \in Nat, NEW next \in Nat, next <= Len(d),
         NEW q \in Seq(Seq(S))
  PROVE  <<SubSeq(d, c + 5, next)>> \o q \in Seq(Seq(S))
<1> DEFINE a == c + 5
<1>1. a \in Nat /\ 1 <= a
  OBVIOUS
<1> HIDE DEF a
<1> DEFINE m == SubSeq(d, a, next)
<1>2. m \in Seq(S)
  BY <1>1, PartIs DEF IsPart
<1> HIDE DEF m
<1>3. <<m>> \in Seq(Seq(S))
  BY <1>2
<1>4. <<m>> \o q \in Seq(Seq(S))
  BY <1>3, ConcatProperties
<1> QED BY <1>4 DEF m, a

LEMMA CutIn ==
  ASSUME NEW S \in SUBSET Nat, NEW d \in Seq(S), NEW c \in 0..Len(d), NEW f,
         \A e \in c + 1..Len(d) : f[e] \in Seq(Seq(S))
  PROVE  cutsFrom(d, f, c) \in Seq(Seq(S))
<1>1. Len(d) \in Nat /\ d \in Seq(Nat)
  BY LenProperties, SeqMonotonic
<1>2. CASE c + 4 >= Len(d)
  <2>1. <<>> \in Seq(Seq(S))
    OBVIOUS
  <2> QED BY <1>2, <2>1 DEF cutsFrom
<1>3. CASE c + 4 < Len(d)
  <2> DEFINE size == Int32(d, c)
             next == c + 4 + size
  <2>1. size \in Nat
    BY <1>1, <1>3, SizeIsNumber
  <2> HIDE DEF size
  <2>2. c + 4 \in c + 1..Len(d) /\ next \in Nat
    BY <1>1, <1>3, <2>1
  <2>3. ~ (next > Len(d)) => next \in c + 1..Len(d) /\ next <= Len(d)
    BY <1>1, <1>3, <2>1
  <2>4. cutsFrom(d, f, c) = IF next > Len(d) THEN <<>>
                            ELSE IF size < 1 THEN f[c + 4]
                            ELSE <<SubSeq(d, c + 5, next)>> \o f[next]
    BY <1>1, <1>3 DEF cutsFrom, size
  <2> HIDE DEF next
  <2>5. CASE next > Len(d)
    <3>1. <<>> \in Seq(Seq(S))
      OBVIOUS
    <3> QED BY <2>4, <2>5, <3>1
  <2>6. CASE ~ (next > Len(d)) /\ size < 1
    BY <2>2, <2>4, <2>6
  <2>7. CASE ~ (next > Len(d)) /\ ~ (size < 1)
    <3>1. f[next] \in Seq(Seq(S)) /\ next <= Len(d) /\ c \in Nat
      BY <2>3, <2>7
    <3>2. <<SubSeq(d, c + 5, next)>> \o f[next] \in Seq(Seq(S))
      BY <2>2, <3>1, OneThen
    <3> QED BY <2>4, <2>7, <3>2
  <2> QED BY <2>5, <2>6, <2>7
<1> QED BY <1>1, <1>2, <1>3

LEMMA PacketsIn ==
  ASSUME NEW S \in SUBSET Nat, NEW d \in Seq(S)
  PROVE  Packets(d) \in Seq(Seq(S))
<1>1. d \in Seq(Nat)
  BY SeqMonotonic
<1>2. PICK f : /\ Packets(d) = f[0]
               /\ \A c \in 0..Len(d) : f[c] = cutsFrom(d, f, c)
  BY <1>1, PacketsAreCuts
<1> DEFINE L == Len(d)
           T == {n \in Nat : n <= L => f[L - n] \in Seq(Seq(S))}
<1>3. L \in Nat
  BY LenProperties
<1>4. ASSUME NEW n \in Nat, \A m \in Nat : m < n => m \in T
      PROVE  n \in T
  <2> SUFFICES ASSUME n <= L PROVE f[L - n] \in Seq(Seq(S))
    OBVIOUS
  <2> HIDE DEF L
  <2> DEFINE c == L - n
  <2>1. c \in 0..L
    BY <1>3
  <2>2. ASSUME NEW e \in c + 1..L PROVE f[e] \in Seq(Seq(S))
    <3>1. L - e \in Nat /\ L - e < n /\ L - e <= L /\ L - (L - e) = e
      BY <1>3, <2>1
    <3>2. L - e \in T
      BY <1>4, <3>1
    <3> QED BY <3>1, <3>2
  <2> HIDE DEF c
  <2>3. c \in 0..Len(d) /\ \A e \in c + 1..Len(d) : f[e] \in Seq(Seq(S))
    BY <2>1, <2>2 DEF L
  <2>4. cutsFrom(d, f, c) \in Seq(Seq(S))
    BY <2>3, CutIn
  <2>5. f[c] \in Seq(Seq(S))
    BY <1>2, <2>3, <2>4
  <2> QED BY <2>5 DEF c
<1> HIDE DEF T
<1>5. \A n \in Nat : n \in T
  BY <1>4, StrongInduction
<1> HIDE DEF L
<1>6. L \in T /\ L <= L /\ L - L = 0
  BY <1>3, <1>5
<1>7. f[0] \in Seq(Seq(S))
  BY <1>6 DEF T
<1> QED BY <1>2, <1>7

-----------------------------------------------------------------------------
(* Bytes that are cut into the packages q, whatever follows them *)
Clean(d, q) ==
  /\ d \in Seq(Nat) /\ q \in Seq(Seq(Nat))
  /\ \A e \in Seq(Nat) : Packets(d \o e) = q \o Packets(e)
  /\ q = <<>> => d = <<>>

LEMMA PacketsAreNumbers ==
  ASSUME NEW d \in Seq(Nat)
  PROVE  Packets(d) \in Seq(Seq(Nat))
<1>1. Nat \in SUBSET Nat
  OBVIOUS
<1> QED BY <1>1, PacketsIn

LEMMA CleanNothing == Clean(<<>>, <<>>)
<1>1. ASSUME NEW e \in Seq(Nat) PROVE Packets(<<>> \o e) = <<>> \o Packets(e)
  <2>1. <<>> \o e = e
    BY ConcatEmptySeq
  <2>2. <<>> \o Packets(e) = Packets(e)
    BY PacketsAreNumbers, ConcatEmptySeq
  <2> QED BY <2>1, <2>2
<1>2. <<>> \in Seq(Nat) /\ <<>> \in Seq(Seq(Nat))
  OBVIOUS
<1> QED BY <1>1, <1>2 DEF Clean

LEMMA ThreeParts == \A S : \A x, y, z \in Seq(S) : (x \o y) \o z = x \o (y \o z)
BY ConcatAssociative, Zenon

LEMMA ThreeBytes == \A x, y, z \in Seq(Nat) : (x \o y) \o z = x \o (y \o z)
<1> DEFINE S == Nat
<1> HIDE DEF S
<1>1. \A x, y, z \in Seq(S) : (x \o y) \o z = x \o (y \o z)
  BY ThreeParts
<1> QED BY <1>1 DEF S

LEMMA ThreePackages == \A x, y, z \in Seq(Seq(Nat)) : (x \o y) \o z = x \o (y \o z)
<1> DEFINE S == Seq(Nat)
<1> HIDE DEF S
<1>1. \A x, y, z \in Seq(S) : (x \o y) \o z = x \o (y \o z)
  BY ThreeParts
<1> QED BY <1>1 DEF S

LEMMA CleanBoth ==
  ASSUME NEW a, NEW p, Clean(a, p), NEW b, NEW q, Clean(b, q)
  PROVE  Clean(a \o b, p \o q)
<1>1. a \in Seq(Nat) /\ b \in Seq(Nat) /\ p \in Seq(Seq(Nat)) /\ q \in Seq(Seq(Nat))
  BY DEF Clean
<1>2. ASSUME NEW e \in Seq(Nat) PROVE Packets((a \o b) \o e) = (p \o q) \o Packets(e)
  <2>1. (a \o b) \o e = a \o (b \o e)
    <3>1. a \in Seq(Nat) /\ b \in Seq(Nat) /\ e \in Seq(Nat)
      BY <1>1
    <3> QED BY <3>1, ThreeBytes
  <2>2. Packets(a \o (b \o e)) = p \o Packets(b \o e)
    <3>1. b \o e \in Seq(Nat)
      BY <1>1, ConcatProperties
    <3> QED BY <3>1 DEF Clean
  <2>3. Packets(b \o e) = q \o Packets(e)
    BY DEF Clean
  <2>4. p \o (q \o Packets(e)) = (p \o q) \o Packets(e)
    <3> DEFINE r == Packets(e)
    <3>1. r \in Seq(Seq(Nat))
      BY PacketsAreNumbers
    <3> HIDE DEF r
    <3>2. p \in Seq(Seq(Nat)) /\ q \in Seq(Seq(Nat)) /\ r \in Seq(Seq(Nat))
      BY <1>1, <3>1
    <3>3. (p \o q) \o r = p \o (q \o r)
      BY <3>2, ThreePackages
    <3> QED BY <3>3 DEF r
  <2> QED BY <2>1, <2>2, <2>3, <2>4
<1>3. a \o b \in Seq(Nat) /\ p \o q \in Seq(Seq(Nat))
  BY <1>1, ConcatProperties
<1>4. p \o q = <<>> => a \o b = <<>>
  <2> SUFFICES ASSUME p \o q = <<>> PROVE a \o b = <<>>
    OBVIOUS
  <2>1. p = <<>> /\ q = <<>>
    BY <1>1, ConcatEqualIffEmpty
  <2>2. a = <<>> /\ b = <<>>
    BY <2>1 DEF Clean
  <2> QED BY <1>1, <2>2, ConcatEqualIffEmpty
<1> QED BY <1>2, <1>3, <1>4 DEF Clean

LEMMA CleanFramed ==
  ASSUME NEW m, Payload(m)
  PROVE  Clean(Framed(m), <<m>>)
<1>1. m \in Seq(Nat) /\ Framed(m) \in Seq(Nat) /\ Len(Framed(m)) = 4 + Len(m)
  <2>1. m \in Seq(Nat) /\ Len(m) \in Lengths
    BY DEF Payload
  <2>2. PICK x \in Nat, y \in Nat : IsFrame(Framed(m), m, x, y)
    BY FramedIs
  <2> QED BY <2>1, <2>2 DEF IsFrame
<1>2. ASSUME NEW e \in Seq(Nat) PROVE Packets(Framed(m) \o e) = <<m>> \o Packets(e)
  <2> DEFINE d == Framed(m) \o e
  <2>1. d \in Seq(Nat)
    BY <1>1, ConcatProperties
  <2> HIDE DEF d
  <2>2. PICK f : Packets(d) = f[0] /\ \A c \in 0..Len(d) : f[c] = cutsFrom(d, f, c)
    BY <2>1, PacketsAreCuts
  <2>3. PICK g : Packets(e) = g[0] /\ \A c \in 0..Len(e) : g[c] = cutsFrom(e, g, c)
    BY PacketsAreCuts
  <2>4. Cuts(Framed(m) \o e, f) /\ Cuts(e, g)
    BY <2>1, <2>2, <2>3 DEF Cuts, d
  <2>5. f[0] = <<m>> \o f[4 + Len(m)]
    BY <2>4, CutFramed
  <2>6. f[Len(Framed(m))] = g[0]
    BY <1>1, <2>4, CutsShift
  <2> QED BY <1>1, <2>2, <2>3, <2>5, <2>6 DEF d
<1>3. <<m>> \in Seq(Seq(Nat)) /\ <<m>> # <<>>
  BY <1>1
<1> QED BY <1>1, <1>2, <1>3 DEF Clean

LEMMA CleanPackets ==
  ASSUME NEW d, NEW q, Clean(d, q)
  PROVE  Packets(d) = q
<1>1. d \in Seq(Nat) /\ q \in Seq(Seq(Nat)) /\ <<>> \in Seq(Nat)
  BY DEF Clean
<1>2. Packets(d \o <<>>) = q \o Packets(<<>>)
  BY <1>1 DEF Clean
<1>3. Packets(<<>>) = <<>>
  <2> DEFINE z == <<>>
  <2>1. z \in Seq(Nat) /\ Len(z) = 0
    OBVIOUS
  <2> HIDE DEF z
  <2>2. PICK f : Packets(z) = f[0] /\ \A c \in 0..Len(z) : f[c] = cutsFrom(z, f, c)
    BY <2>1, PacketsAreCuts
  <2>3. 0 \in 0..Len(z) /\ 0 + 4 >= Len(z)
    BY <2>1
  <2>4. f[0] = cutsFrom(z, f, 0)
    BY <2>2, <2>3
  <2>5. cutsFrom(z, f, 0) = <<>>
    BY <2>3 DEF cutsFrom
  <2> QED BY <2>2, <2>4, <2>5 DEF z
<1> QED BY <1>1, <1>2, <1>3, ConcatEmptySeq


-----------------------------------------------------------------------------
(* The packages lo + 1 to hi *)
Part(s, lo, hi) == SubSeq(s, lo + 1, hi)

LEMMA PartOf ==
  ASSUME NEW s \in Seq(Seq(Nat)), NEW k \in Nat, NEW n \in Nat, k <= n, n <= Len(s)
  PROVE  /\ SubSeq(s, k + 1, n) \in Seq(Seq(Nat)) /\ Len(SubSeq(s, k + 1, n)) = n - k
         /\ \A i \in 1..n - k : SubSeq(s, k + 1, n)[i] = s[k + i]
<1> DEFINE a == k + 1
<1>0. Len(s) \in Nat
  BY LenProperties
<1>1. a \in Int /\ n \in Int /\ (\A i \in a..n : i \in 1..Len(s))
  BY <1>0
<1>2. \A i \in a..n : s[i] \in Seq(Nat)
  BY <1>1, ElementOfSeq
<1>3. (IF a <= n THEN n - a + 1 ELSE 0) = n - k /\ n - k \in Nat
  OBVIOUS
<1>4. \A i \in 1..n - k : a + i - 1 = k + i
  OBVIOUS
<1> HIDE DEF a
<1>5. /\ SubSeq(s, a, n) \in Seq(Seq(Nat))
      /\ Len(SubSeq(s, a, n)) = IF a <= n THEN n - a + 1 ELSE 0
      /\ \A i \in 1..Len(SubSeq(s, a, n)) : SubSeq(s, a, n)[i] = s[a + i - 1]
  BY <1>1, <1>2, SubSeqProperties
<1>6. Len(SubSeq(s, a, n)) = n - k
  BY <1>3, <1>5
<1>7. \A i \in 1..n - k : SubSeq(s, a, n)[i] = s[k + i]
  BY <1>4, <1>5, <1>6
<1> QED BY <1>5, <1>6, <1>7 DEF a

LEMMA PartThenOne ==
  ASSUME NEW s \in Seq(Seq(Nat)), NEW p \in Seq(Nat), NEW k \in Nat, k <= Len(s)
  PROVE  SubSeq(Append(s, p), k + 1, Len(s) + 1) = Append(SubSeq(s, k + 1, Len(s)), p)
<1> DEFINE N == Len(s)
           t == Append(s, p)
           u == SubSeq(s, k + 1, N)
           v == SubSeq(t, k + 1, N + 1)
           w == Append(u, p)
<1>1. N \in Nat /\ k <= N /\ N <= Len(s)
  BY LenProperties
<1>2. t \in Seq(Seq(Nat)) /\ Len(t) = N + 1 /\ t[N + 1] = p /\ \A i \in 1..N : t[i] = s[i]
  BY AppendProperties
<1>3. u \in Seq(Seq(Nat)) /\ Len(u) = N - k /\ \A i \in 1..N - k : u[i] = s[k + i]
  BY <1>1, PartOf
<1> HIDE DEF t, N
<1>4. N + 1 \in Nat /\ k <= N + 1 /\ N + 1 <= Len(t) /\ (N + 1) - k = (N - k) + 1
  BY <1>1, <1>2
<1>5. v \in Seq(Seq(Nat)) /\ Len(v) = (N + 1) - k /\ \A i \in 1..(N + 1) - k : v[i] = t[k + i]
  BY <1>2, <1>4, PartOf
<1> HIDE DEF u, v
<1>6. w \in Seq(Seq(Nat)) /\ Len(w) = Len(u) + 1 /\ w[Len(u) + 1] = p /\ \A i \in 1..Len(u) : w[i] = u[i]
  BY <1>3, AppendProperties
<1> HIDE DEF w
<1>7. \A i \in 1..(N - k) + 1 : /\ i \in 1..N - k => k + i \in 1..N
                                /\ i \notin 1..N - k => i = (N - k) + 1 /\ k + i = N + 1
  BY <1>1
<1>8. ASSUME NEW i \in 1..(N - k) + 1 PROVE v[i] = w[i]
  <2>1. v[i] = t[k + i]
    BY <1>4, <1>5
  <2>2. CASE i \in 1..N - k
    BY <1>2, <1>3, <1>6, <1>7, <2>1, <2>2
  <2>3. CASE i \notin 1..N - k
    BY <1>2, <1>3, <1>6, <1>7, <2>1, <2>3
  <2> QED BY <2>2, <2>3
<1>9. Len(v) = (N - k) + 1 /\ Len(w) = (N - k) + 1
  BY <1>3, <1>4, <1>5, <1>6
<1>10. v = w
  <2>1. Len(v) = Len(w) /\ \A i \in 1..Len(v) : v[i] = w[i]
    BY <1>8, <1>9
  <2> QED BY <1>5, <1>6, <2>1, SeqEqual
<1> QED BY <1>10 DEF v, w, u, t, N

LEMMA PartNone ==
  ASSUME NEW s, NEW k \in Nat
  PROVE  Part(s, k, k) = <<>>
<1> DEFINE a == k + 1
<1>1. a \in Int /\ k \in Int /\ k < a
  OBVIOUS
<1> HIDE DEF a
<1>2. SubSeq(s, a, k) = <<>>
  BY <1>1, SubSeqEmpty
<1> QED BY <1>2 DEF a, Part

LEMMA PartBoth ==
  ASSUME NEW s \in Seq(Seq(Nat)), NEW lo \in Nat, NEW mid \in Nat, NEW hi \in Nat,
         lo <= mid, mid <= hi, hi <= Len(s)
  PROVE  Part(s, lo, mid) \o Part(s, mid, hi) = Part(s, lo, hi)
<1> DEFINE a == lo + 1
<1>1. Len(s) \in Nat
  BY LenProperties
<1>2. a \in 1..Len(s) + 1 /\ mid \in a - 1..Len(s) /\ hi \in mid..Len(s)
  BY <1>1
<1> HIDE DEF a
<1>3. SubSeq(s, a, mid) \o SubSeq(s, mid + 1, hi) = SubSeq(s, a, hi)
  BY <1>2, ConcatAdjacentSubSeq
<1> QED BY <1>3 DEF a, Part

LEMMA PartMoreSaid ==
  ASSUME NEW s \in Seq(Seq(Nat)), NEW p \in Seq(Nat), NEW lo \in Nat, NEW hi \in Nat,
         lo <= hi, hi <= Len(s)
  PROVE  Part(Append(s, p), lo, hi) = Part(s, lo, hi)
<1> DEFINE t == Append(s, p)
           u == SubSeq(s, lo + 1, hi)
           v == SubSeq(t, lo + 1, hi)
<1>1. Len(s) \in Nat
  BY LenProperties
<1>2. t \in Seq(Seq(Nat)) /\ Len(t) = Len(s) + 1 /\ \A i \in 1..Len(s) : t[i] = s[i]
  BY AppendProperties
<1>3. u \in Seq(Seq(Nat)) /\ Len(u) = hi - lo /\ \A i \in 1..hi - lo : u[i] = s[lo + i]
  BY PartOf
<1> HIDE DEF t
<1>4. hi <= Len(t)
  BY <1>1, <1>2
<1>5. v \in Seq(Seq(Nat)) /\ Len(v) = hi - lo /\ \A i \in 1..hi - lo : v[i] = t[lo + i]
  BY <1>2, <1>4, PartOf
<1> HIDE DEF u, v
<1>6. \A i \in 1..hi - lo : lo + i \in 1..Len(s)
  BY <1>1
<1>7. \A i \in 1..hi - lo : v[i] = u[i]
  BY <1>2, <1>3, <1>5, <1>6
<1>8. v = u
  BY <1>3, <1>5, <1>7, SeqEqual
<1> QED BY <1>8 DEF u, v, t, Part

LEMMA PartAndOne ==
  ASSUME NEW s \in Seq(Seq(Nat)), NEW p \in Seq(Nat), NEW k \in Nat, k <= Len(s)
  PROVE  Part(Append(s, p), k, Len(s) + 1) = Part(s, k, Len(s)) \o <<p>>
<1> DEFINE u == Part(s, k, Len(s))
<1>1. Part(Append(s, p), k, Len(s) + 1) = Append(u, p)
  BY PartThenOne DEF Part
<1>2. u \in Seq(Seq(Nat))
  <2>1. Len(s) \in Nat /\ Len(s) <= Len(s)
    BY LenProperties
  <2> QED BY <2>1, PartOf DEF Part
<1> HIDE DEF u
<1>3. Append(u, p) = u \o <<p>>
  BY <1>2, AppendIsConcat
<1> QED BY <1>1, <1>3 DEF u

-----------------------------------------------------------------------------
(* The bytes d hold the packages lo + 1 to hi of s. *)
Laid(s, d, lo, hi) == lo <= hi /\ hi <= Len(s) /\ Clean(d, Part(s, lo, hi))

LEMMA LaidNothing ==
  ASSUME NEW s, NEW k \in Nat, k <= Len(s)
  PROVE  Laid(s, <<>>, k, k)
BY PartNone, CleanNothing DEF Laid

LEMMA LaidBoth ==
  ASSUME NEW s \in Seq(Seq(Nat)), NEW lo \in Nat, NEW mid \in Nat, NEW hi \in Nat,
         NEW c, Laid(s, c, lo, mid), NEW d, Laid(s, d, mid, hi)
  PROVE  Laid(s, c \o d, lo, hi)
<1>1. lo <= mid /\ mid <= hi /\ hi <= Len(s)
  BY DEF Laid
<1>2. Part(s, lo, mid) \o Part(s, mid, hi) = Part(s, lo, hi)
  BY <1>1, PartBoth
<1>3. Clean(c \o d, Part(s, lo, mid) \o Part(s, mid, hi))
  BY CleanBoth DEF Laid
<1>4. lo <= hi
  BY <1>1
<1> QED BY <1>1, <1>2, <1>3, <1>4 DEF Laid

LEMMA LaidMoreSaid ==
  ASSUME NEW s \in Seq(Seq(Nat)), NEW p \in Seq(Nat), NEW lo \in Nat, NEW hi \in Nat,
         NEW d, Laid(s, d, lo, hi)
  PROVE  Laid(Append(s, p), d, lo, hi)
<1>1. lo <= hi /\ hi <= Len(s) /\ Clean(d, Part(s, lo, hi))
  BY DEF Laid
<1>2. Part(Append(s, p), lo, hi) = Part(s, lo, hi)
  BY <1>1, PartMoreSaid
<1>3. Len(s) \in Nat /\ Len(Append(s, p)) = Len(s) + 1
  BY LenProperties, AppendProperties
<1>4. hi <= Len(Append(s, p))
  BY <1>1, <1>3
<1> QED BY <1>1, <1>2, <1>4 DEF Laid

LEMMA LaidThenFramed ==
  ASSUME NEW s \in Seq(Seq(Nat)), NEW p, Payload(p), NEW lo \in Nat, NEW d, Laid(s, d, lo, Len(s))
  PROVE  Laid(Append(s, p), d \o Framed(p), lo, Len(s) + 1)
<1>1. p \in Seq(Nat)
  BY DEF Payload
<1>2. lo <= Len(s) /\ Clean(d, Part(s, lo, Len(s)))
  BY DEF Laid
<1>3. Part(Append(s, p), lo, Len(s) + 1) = Part(s, lo, Len(s)) \o <<p>>
  BY <1>1, <1>2, PartAndOne
<1>4. Clean(Framed(p), <<p>>)
  BY CleanFramed
<1>5. Clean(d \o Framed(p), Part(s, lo, Len(s)) \o <<p>>)
  BY <1>2, <1>4, CleanBoth
<1>6. Len(s) \in Nat /\ Len(Append(s, p)) = Len(s) + 1
  BY <1>1, LenProperties, AppendProperties
<1>7. lo <= Len(s) + 1 /\ Len(s) + 1 <= Len(Append(s, p))
  BY <1>2, <1>6
<1> QED BY <1>3, <1>5, <1>7 DEF Laid

-----------------------------------------------------------------------------
(* What send() was given, one sequence of bytes a call *)
Chain(s, q, a, e, w) ==
  /\ q \in Seq(Seq(Nat)) /\ w \in [0..Len(q) -> Nat]
  /\ w[0] = a /\ w[Len(q)] = e
  /\ \A i \in 1..Len(q) : Laid(s, q[i], w[i - 1], w[i])

OnWire(s, q, a, e) == \E w : Chain(s, q, a, e, w)

LEMMA WireEmpty ==
  ASSUME NEW s, NEW a \in Nat
  PROVE  OnWire(s, <<>>, a, a)
<1> DEFINE w == [i \in 0..0 |-> a]
<1>1. <<>> \in Seq(Seq(Nat)) /\ Len(<<>>) = 0 /\ 1..0 = {} /\ w \in [0..0 -> Nat] /\ w[0] = a
  OBVIOUS
<1> HIDE DEF w
<1>2. Chain(s, <<>>, a, a, w)
  BY <1>1 DEF Chain
<1> QED BY <1>2 DEF OnWire

LEMMA WireAppend ==
  ASSUME NEW s, NEW q, NEW a \in Nat, NEW e \in Nat, NEW g \in Nat,
         OnWire(s, q, a, e), NEW x, Laid(s, x, e, g)
  PROVE  OnWire(s, Append(q, x), a, g)
<1>1. PICK w : Chain(s, q, a, e, w)
  BY DEF OnWire
<1> DEFINE L == Len(q)
           r == Append(q, x)
           v == [i \in 0..L + 1 |-> IF i = L + 1 THEN g ELSE w[i]]
<1>2. q \in Seq(Seq(Nat)) /\ L \in Nat /\ x \in Seq(Nat)
  BY <1>1, LenProperties DEF Chain, Laid, Clean
<1>3. /\ w \in [0..L -> Nat] /\ w[0] = a /\ w[L] = e
      /\ \A i \in 1..L : Laid(s, q[i], w[i - 1], w[i])
  BY <1>1 DEF Chain
<1>4. r \in Seq(Seq(Nat)) /\ Len(r) = L + 1 /\ r[L + 1] = x /\ \A i \in 1..L : r[i] = q[i]
  BY <1>2, AppendProperties
<1> HIDE DEF L, r
<1>5. /\ \A i \in 0..L : i \in 0..L + 1 /\ i # L + 1
      /\ L + 1 \in 0..L + 1 /\ 0 \in 0..L /\ L \in 0..L /\ (L + 1) - 1 = L
      /\ \A i \in 0..L + 1 : i = L + 1 \/ i \in 0..L
      /\ \A i \in 1..L + 1 : i = L + 1 \/ (i \in 1..L /\ i \in 0..L /\ i - 1 \in 0..L)
  BY <1>2
<1>6. v[L + 1] = g /\ \A i \in 0..L : v[i] = w[i]
  BY <1>5
<1>7. v \in [0..L + 1 -> Nat]
  BY <1>3, <1>5
<1> HIDE DEF v
<1>8. \A i \in 1..L + 1 : Laid(s, r[i], v[i - 1], v[i])
  <2> TAKE i \in 1..L + 1
  <2>1. CASE i = L + 1
    <3>1. v[i - 1] = e /\ v[i] = g /\ r[i] = x
      BY <1>3, <1>4, <1>5, <1>6, <2>1
    <3> QED BY <3>1
  <2>2. CASE i \in 1..L
    <3>1. v[i - 1] = w[i - 1] /\ v[i] = w[i] /\ r[i] = q[i]
      BY <1>4, <1>5, <1>6, <2>2
    <3> QED BY <1>3, <2>2, <3>1
  <2> QED BY <1>5, <2>1, <2>2
<1>9. v[0] = a
  BY <1>3, <1>5, <1>6
<1>10. Chain(s, r, a, g, v)
  BY <1>4, <1>6, <1>7, <1>8, <1>9 DEF Chain
<1> QED BY <1>10 DEF OnWire, r

LEMMA WireTail ==
  ASSUME NEW s, NEW q, NEW a \in Nat, NEW e \in Nat, OnWire(s, q, a, e), q # <<>>
  PROVE  \E m \in Nat : Laid(s, Head(q), a, m) /\ OnWire(s, Tail(q), m, e)
<1>1. PICK w : Chain(s, q, a, e, w)
  BY DEF OnWire
<1> DEFINE L == Len(q)
           r == Tail(q)
           v == [i \in 0..L - 1 |-> w[i + 1]]
<1>2. q \in Seq(Seq(Nat)) /\ L \in Nat
  BY <1>1, LenProperties DEF Chain
<1>3. /\ w \in [0..L -> Nat] /\ w[0] = a /\ w[L] = e
      /\ \A i \in 1..L : Laid(s, q[i], w[i - 1], w[i])
  BY <1>1 DEF Chain
<1>4. L >= 1
  BY <1>2, EmptySeq
<1>5. r \in Seq(Seq(Nat)) /\ Len(r) = L - 1 /\ (\A i \in 1..L - 1 : r[i] = q[i + 1]) /\ Head(q) = q[1]
  BY <1>2, HeadTailProperties
<1> HIDE DEF L, r
<1>6. /\ \A i \in 0..L - 1 : i + 1 \in 0..L
      /\ \A i \in 1..L - 1 : i \in 0..L - 1 /\ i - 1 \in 0..L - 1 /\ (i - 1) + 1 = i /\ i + 1 \in 1..L /\ (i + 1) - 1 = i
      /\ 0 \in 0..L - 1 /\ L - 1 \in 0..L - 1 /\ (L - 1) + 1 = L /\ 1 \in 1..L /\ 1 \in 0..L /\ 1 - 1 = 0 /\ 0 + 1 = 1
  BY <1>2, <1>4
<1>7. v \in [0..L - 1 -> Nat] /\ \A i \in 0..L - 1 : v[i] = w[i + 1]
  BY <1>3, <1>6
<1> HIDE DEF v
<1>8. \A i \in 1..L - 1 : Laid(s, r[i], v[i - 1], v[i])
  <2> TAKE i \in 1..L - 1
  <2>1. v[i] = w[i + 1] /\ v[i - 1] = w[i] /\ r[i] = q[i + 1]
    BY <1>5, <1>6, <1>7
  <2>2. Laid(s, q[i + 1], w[(i + 1) - 1], w[i + 1])
    BY <1>3, <1>6
  <2> QED BY <1>6, <2>1, <2>2
<1>9. v[0] = w[1] /\ v[L - 1] = e
  BY <1>3, <1>6, <1>7
<1>10. Chain(s, r, w[1], e, v)
  BY <1>5, <1>7, <1>8, <1>9 DEF Chain
<1>11. Laid(s, q[1], w[1 - 1], w[1]) /\ w[1] \in Nat
  BY <1>3, <1>6
<1>12. Laid(s, Head(q), a, w[1])
  BY <1>3, <1>5, <1>6, <1>11
<1> QED BY <1>10, <1>11, <1>12 DEF OnWire, r

LEMMA WireMoreSaid ==
  ASSUME NEW s \in Seq(Seq(Nat)), NEW x \in Seq(Nat), NEW q, NEW a \in Nat, NEW e \in Nat,
         OnWire(s, q, a, e)
  PROVE  OnWire(Append(s, x), q, a, e)
<1>1. PICK w : Chain(s, q, a, e, w)
  BY DEF OnWire
<1>2. /\ w \in [0..Len(q) -> Nat] /\ Len(q) \in Nat
      /\ \A i \in 1..Len(q) : Laid(s, q[i], w[i - 1], w[i])
  BY <1>1, LenProperties DEF Chain
<1>3. \A i \in 1..Len(q) : i \in 0..Len(q) /\ i - 1 \in 0..Len(q)
  BY <1>2
<1>4. \A i \in 1..Len(q) : w[i] \in Nat /\ w[i - 1] \in Nat
  BY <1>2, <1>3
<1>5. \A i \in 1..Len(q) : Laid(Append(s, x), q[i], w[i - 1], w[i])
  BY <1>2, <1>4, LaidMoreSaid
<1>6. Chain(Append(s, x), q, a, e, w)
  BY <1>1, <1>5 DEF Chain
<1> QED BY <1>6 DEF OnWire

-----------------------------------------------------------------------------
(* The invariant of a connection whose reads are of whole sends *)
Sayable == {Ping} \cup Messages

LEMMA BytesAreNumbers ==
  ASSUME NEW d \in Seq(Byte)
  PROVE  d \in Seq(Nat)
BY ByteIsNumber, SeqMonotonic

LEMMA PingIs == Ping \in Seq(Byte) /\ Ping \in Seq(Nat) /\ Len(Ping) \in Lengths
<1>1. 1 \in Byte /\ 1 \in Lengths
  BY SMT DEF Byte, Lengths
<1>2. Ping \in Seq(Byte) /\ Len(Ping) = 1
  BY <1>1 DEF Ping
<1> QED BY <1>1, <1>2, BytesAreNumbers

LEMMA SayableIsPayload ==
  ASSUME NEW p \in Sayable
  PROVE  Payload(p) /\ p \in Seq(Byte) /\ p \in Seq(Nat)
<1>1. CASE p = Ping
  BY <1>1, PingIs DEF Payload
<1>2. CASE p \in Messages
  <2>1. p \in Seq(Byte) /\ Len(p) \in Lengths
    BY <1>2, StreamAssumption
  <2>2. p \in Seq(Nat)
    BY <2>1, BytesAreNumbers
  <2> QED BY <2>1, <2>2 DEF Payload
<1> QED BY <1>1, <1>2 DEF Sayable

LEMMA SaidAreBytes ==
  ASSUME NEW s \in Seq(Sayable)
  PROVE  s \in Seq(Seq(Nat))
<1>1. Sayable \subseteq Seq(Nat)
  BY SayableIsPayload
<1> QED BY <1>1, SeqMonotonic

Linked(h, a, e) ==
  /\ h <= Len(said) /\ heard = Part(said, 0, h)
  /\ Laid(said, arrived, h, a)
  /\ OnWire(said, wire, a, e) /\ e <= Len(said)
  /\ poll = "idle" => Laid(said, buffer, e, Len(said))
  /\ poll = "sent" => e = Len(said)

SInv ==
  /\ poll \in {"idle", "sent"} /\ said \in Seq(Sayable)
  /\ \E h, a, e \in Nat : Linked(h, a, e)

LEMMA InitStream == Init => SInv
<1> SUFFICES ASSUME Init PROVE SInv
  OBVIOUS
<1>1. poll = "idle" /\ said = <<>> /\ heard = <<>> /\ arrived = <<>> /\ wire = <<>> /\ buffer = <<>>
  BY DEF Init
<1>2. Len(said) = 0 /\ 0 <= Len(said) /\ said \in Seq(Sayable)
  BY <1>1
<1>3. heard = Part(said, 0, 0)
  BY <1>1, ZeroIsNumber, PartNone
<1>4. Laid(said, <<>>, 0, 0)
  BY <1>2, ZeroIsNumber, LaidNothing
<1>5. OnWire(said, wire, 0, 0)
  BY <1>1, ZeroIsNumber, WireEmpty
<1>6. Linked(0, 0, 0)
  BY <1>1, <1>2, <1>3, <1>4, <1>5 DEF Linked
<1> QED BY <1>1, <1>2, <1>6, ZeroIsNumber DEF SInv

LEMMA SendDataStream ==
  ASSUME SInv, NEW p \in Sayable, SendData(p)
  PROVE  SInv'
<1>1. /\ poll = "idle" /\ poll' = poll /\ buffer' = buffer \o Framed(p)
      /\ said' = Append(said, p) /\ UNCHANGED <<wire, arrived, heard>>
  BY DEF SendData
<1>2. said \in Seq(Sayable) /\ said \in Seq(Seq(Nat)) /\ p \in Seq(Nat) /\ Payload(p)
  BY SaidAreBytes, SayableIsPayload DEF SInv
<1>3. Len(said) \in Nat /\ Len(Append(said, p)) = Len(said) + 1
  BY <1>2, LenProperties, AppendProperties
<1>4. PICK h \in Nat, a \in Nat, e \in Nat : Linked(h, a, e)
  BY DEF SInv
<1>5. Append(said, p) \in Seq(Sayable)
  BY <1>2, AppendProperties
<1>6. h <= Len(said) + 1 /\ e <= Len(said) + 1 /\ 0 <= h /\ h <= Len(said)
  BY <1>3, <1>4 DEF Linked
<1>7. heard = Part(Append(said, p), 0, h)
  <2>1. Part(Append(said, p), 0, h) = Part(said, 0, h)
    BY <1>2, <1>6, ZeroIsNumber, PartMoreSaid
  <2> QED BY <1>4, <2>1 DEF Linked
<1>8. Laid(Append(said, p), arrived, h, a)
  BY <1>2, <1>4, LaidMoreSaid DEF Linked
<1>9. OnWire(Append(said, p), wire, a, e)
  BY <1>2, <1>4, WireMoreSaid DEF Linked
<1>10. Laid(Append(said, p), buffer \o Framed(p), e, Len(said) + 1)
  BY <1>1, <1>2, <1>4, LaidThenFramed DEF Linked
<1>11. Linked(h, a, e)'
  BY <1>1, <1>3, <1>6, <1>7, <1>8, <1>9, <1>10 DEF Linked
<1> QED BY <1>1, <1>5, <1>11 DEF SInv

LEMMA SendStream ==
  ASSUME SInv, Send
  PROVE  SInv'
<1>1. /\ poll = "idle" /\ poll' = "sent" /\ wire' = Append(wire, buffer)
      /\ UNCHANGED <<buffer, arrived, said, heard>>
  BY DEF Send
<1>2. said \in Seq(Sayable) /\ said \in Seq(Seq(Nat)) /\ Len(said) \in Nat /\ Len(said) <= Len(said)
  BY SaidAreBytes, LenProperties DEF SInv
<1>3. PICK h \in Nat, a \in Nat, e \in Nat : Linked(h, a, e)
  BY DEF SInv
<1>4. OnWire(said, Append(wire, buffer), a, Len(said))
  BY <1>1, <1>2, <1>3, WireAppend DEF Linked
<1>5. Linked(h, a, Len(said))'
  BY <1>1, <1>2, <1>3, <1>4 DEF Linked
<1> QED BY <1>1, <1>2, <1>5 DEF SInv

LEMMA ClearStream ==
  ASSUME SInv, Clear
  PROVE  SInv'
<1>1. poll = "sent" /\ poll' = "idle" /\ buffer' = <<>> /\ UNCHANGED <<wire, arrived, said, heard>>
  BY DEF Clear
<1>2. said \in Seq(Sayable) /\ Len(said) \in Nat /\ Len(said) <= Len(said)
  BY LenProperties DEF SInv
<1>3. PICK h \in Nat, a \in Nat, e \in Nat : Linked(h, a, e)
  BY DEF SInv
<1>4. Laid(said, <<>>, e, Len(said))
  BY <1>1, <1>2, <1>3, LaidNothing DEF Linked
<1>5. Linked(h, a, e)'
  BY <1>1, <1>3, <1>4 DEF Linked
<1> QED BY <1>1, <1>2, <1>5 DEF SInv

LEMMA DeliverStream ==
  ASSUME SInv, setting = "whole", NEW n \in 1..Len(Head(wire)), Deliver(n)
  PROVE  SInv'
<1>1. /\ wire # <<>> /\ ~ (n < Len(Head(wire)))
      /\ arrived' = arrived \o SubSeq(Head(wire), 1, n)
      /\ n = Len(Head(wire)) => wire' = Tail(wire)
      /\ UNCHANGED <<buffer, poll, said, heard>>
  BY DEF Deliver
<1>2. said \in Seq(Sayable) /\ said \in Seq(Seq(Nat))
  BY SaidAreBytes DEF SInv
<1>3. PICK h \in Nat, a \in Nat, e \in Nat : Linked(h, a, e)
  BY DEF SInv
<1>4. PICK m \in Nat : Laid(said, Head(wire), a, m) /\ OnWire(said, Tail(wire), m, e)
  BY <1>1, <1>3, WireTail DEF Linked
<1>5. Head(wire) \in Seq(Nat)
  BY <1>4 DEF Laid, Clean
<1>6. n = Len(Head(wire))
  <2>1. Len(Head(wire)) \in Nat
    BY <1>5, LenProperties
  <2> QED BY <1>1, <2>1
<1>7. arrived' = arrived \o Head(wire) /\ wire' = Tail(wire)
  <2>1. SubSeq(Head(wire), 1, Len(Head(wire))) = Head(wire)
    BY <1>5, SubSeqFull
  <2> QED BY <1>1, <1>6, <2>1
<1>8. Laid(said, arrived \o Head(wire), h, m)
  BY <1>2, <1>3, <1>4, LaidBoth DEF Linked
<1>9. Linked(h, m, e)'
  BY <1>1, <1>3, <1>4, <1>7, <1>8 DEF Linked
<1> QED BY <1>1, <1>9 DEF SInv

LEMMA Heard ==
  ASSUME SInv, NEW h \in Nat, NEW a \in Nat, NEW e \in Nat, Linked(h, a, e)
  PROVE  /\ Packets(arrived) = Part(said, h, a) /\ h <= a /\ a <= Len(said)
         /\ said \in Seq(Seq(Nat)) /\ heard = Part(said, 0, h)
         /\ heard \o Packets(arrived) = Part(said, 0, a)
<1>1. said \in Seq(Seq(Nat))
  BY SaidAreBytes DEF SInv
<1>2. h <= a /\ a <= Len(said) /\ Clean(arrived, Part(said, h, a)) /\ heard = Part(said, 0, h)
  BY DEF Linked, Laid
<1>3. Packets(arrived) = Part(said, h, a)
  BY <1>2, CleanPackets
<1>4. 0 <= h
  OBVIOUS
<1>5. Part(said, 0, h) \o Part(said, h, a) = Part(said, 0, a)
  BY <1>1, <1>2, <1>4, ZeroIsNumber, PartBoth
<1> QED BY <1>1, <1>2, <1>3, <1>5

LEMMA ReceiveStream ==
  ASSUME SInv, Receive
  PROVE  SInv'
<1>1. heard' = heard \o Packets(arrived) /\ arrived' = <<>> /\ UNCHANGED <<buffer, poll, wire, said>>
  BY DEF Receive
<1>2. said \in Seq(Sayable)
  BY DEF SInv
<1>3. PICK h \in Nat, a \in Nat, e \in Nat : Linked(h, a, e)
  BY DEF SInv
<1>4. heard \o Packets(arrived) = Part(said, 0, a) /\ a <= Len(said)
  BY <1>3, Heard
<1>5. Laid(said, <<>>, a, a)
  BY <1>4, LaidNothing
<1>6. Linked(a, a, e)'
  BY <1>1, <1>3, <1>4, <1>5 DEF Linked
<1> QED BY <1>1, <1>2, <1>6 DEF SInv

LEMMA NextStream ==
  ASSUME SInv, setting = "whole", [Next]_vars
  PROVE  SInv'
<1>1. CASE \E p \in Sayable : SendData(p)
  BY <1>1, SendDataStream
<1>2. CASE Send
  BY <1>2, SendStream
<1>3. CASE Clear
  BY <1>3, ClearStream
<1>4. CASE DeliverSome
  BY <1>4, DeliverStream DEF DeliverSome
<1>5. CASE Receive
  BY <1>5, ReceiveStream
<1>6. CASE UNCHANGED vars
  BY <1>6 DEF vars, SInv, Linked
<1>7. ASSUME NEW p \in {Ping} \cup (IF setting = "cut" THEN CutMessages ELSE Messages), SendData(p)
      PROVE  \E x \in Sayable : SendData(x)
  BY <1>7, StreamAssumption DEF Sayable
<1> QED BY <1>1, <1>2, <1>3, <1>4, <1>5, <1>6, <1>7 DEF Next

-----------------------------------------------------------------------------
(* Such a connection is a queue of packages. *)
FifoInv == setting = "whole" => SInv

pendingNow == IF setting = "whole" THEN SubSeq(said, Len(heard) + 1, Len(said)) ELSE <<>>
heardNow == IF setting = "whole" THEN heard ELSE <<>>

LEMMA HeardLength ==
  ASSUME NEW s \in Seq(Seq(Nat)), NEW h \in Nat, h <= Len(s)
  PROVE  Len(Part(s, 0, h)) = h
<1> DEFINE z == 0
<1>1. z \in Nat /\ z <= h /\ h - z = h
  OBVIOUS
<1> HIDE DEF z
<1>2. Len(SubSeq(s, z + 1, h)) = h - z
  BY <1>1, PartOf
<1> QED BY <1>1, <1>2 DEF Part, z

LEMMA PendingIs ==
  ASSUME SInv, setting = "whole", NEW h \in Nat, NEW a \in Nat, NEW e \in Nat, Linked(h, a, e)
  PROVE  pendingNow = Part(said, h, Len(said)) /\ heardNow = heard
<1>1. said \in Seq(Seq(Nat)) /\ heard = Part(said, 0, h) /\ h <= Len(said)
  BY Heard DEF Linked
<1>2. Len(heard) = h
  BY <1>1, HeardLength
<1> QED BY <1>2 DEF pendingNow, heardNow, Part

LEMMA FifoSay ==
  ASSUME SInv, setting = "whole", NEW p \in Sayable, SendData(p)
  PROVE  pendingNow' = Append(pendingNow, p) /\ heardNow' = heardNow
<1>1. said' = Append(said, p) /\ heard' = heard /\ setting' = setting
  BY DEF SendData
<1>2. p \in Seq(Nat)
  BY SayableIsPayload
<1>3. PICK h \in Nat, a \in Nat, e \in Nat : Linked(h, a, e)
  BY DEF SInv
<1>4. said \in Seq(Seq(Nat)) /\ heard = Part(said, 0, h) /\ h <= Len(said)
  BY <1>3, Heard DEF Linked
<1>5. Len(heard) = h /\ Len(Append(said, p)) = Len(said) + 1
  BY <1>2, <1>4, HeardLength, AppendProperties
<1>6. SubSeq(Append(said, p), h + 1, Len(said) + 1) = Append(SubSeq(said, h + 1, Len(said)), p)
  BY <1>2, <1>4, PartThenOne
<1>7. pendingNow = SubSeq(said, h + 1, Len(said))
  BY <1>5 DEF pendingNow
<1>8. pendingNow' = SubSeq(Append(said, p), h + 1, Len(said) + 1)
  BY <1>1, <1>5 DEF pendingNow
<1> QED BY <1>1, <1>6, <1>7, <1>8 DEF heardNow

(* The first packages of a part, and those behind them *)
LEMMA PartOfPart ==
  ASSUME NEW s \in Seq(Seq(Nat)), NEW h \in Nat, NEW a \in Nat, h <= a, a <= Len(s)
  PROVE  LET u == SubSeq(s, h + 1, Len(s))
         IN  /\ SubSeq(u, 1, a - h) = SubSeq(s, h + 1, a)
             /\ SubSeq(u, (a - h) + 1, Len(u)) = SubSeq(s, a + 1, Len(s))
             /\ Len(u) = Len(s) - h
<1> DEFINE N == Len(s)
           u == SubSeq(s, h + 1, N)
           n == a - h
           M == N - h
<1>1. N \in Nat /\ h <= N /\ a <= N /\ N <= Len(s) /\ n \in Nat /\ M \in Nat /\ n <= M /\ 0 <= n /\ 0 + 1 = 1
  BY LenProperties
<1>2. u \in Seq(Seq(Nat)) /\ Len(u) = M /\ \A i \in 1..M : u[i] = s[h + i]
  BY <1>1, PartOf
<1>3. \A i \in 1..n : i \in 1..M /\ h + i = h + i
  BY <1>1
<1>4. \A i \in 1..M - n : n + i \in 1..M /\ h + (n + i) = a + i
  BY <1>1
<1>5. N - a = M - n /\ M - n \in Nat /\ n - 0 = n /\ a - h = n
  BY <1>1
<1> DEFINE w == SubSeq(s, h + 1, a)
           x == SubSeq(s, a + 1, N)
<1>6. w \in Seq(Seq(Nat)) /\ Len(w) = n /\ \A i \in 1..n : w[i] = s[h + i]
  BY <1>1, PartOf
<1>7. x \in Seq(Seq(Nat)) /\ Len(x) = N - a /\ \A i \in 1..N - a : x[i] = s[a + i]
  BY <1>1, PartOf
<1> HIDE DEF u, w, x, n, M, N
<1> DEFINE y == SubSeq(u, 0 + 1, n)
           z == SubSeq(u, n + 1, M)
<1>8. n <= Len(u) /\ M <= Len(u)
  BY <1>1, <1>2
<1>9. y \in Seq(Seq(Nat)) /\ Len(y) = n - 0 /\ \A i \in 1..n - 0 : y[i] = u[0 + i]
  BY <1>1, <1>2, <1>8, ZeroIsNumber, PartOf
<1>10. z \in Seq(Seq(Nat)) /\ Len(z) = M - n /\ \A i \in 1..M - n : z[i] = u[n + i]
  BY <1>1, <1>2, <1>8, PartOf
<1> HIDE DEF y, z
<1>11. \A i \in 1..n : y[i] = w[i]
  <2> TAKE i \in 1..n
  <2>1. 0 + i = i
    BY <1>1
  <2>2. y[i] = u[i]
    BY <1>5, <1>9, <2>1
  <2> QED BY <1>2, <1>3, <1>6, <2>2
<1>12. \A i \in 1..M - n : z[i] = x[i]
  <2> TAKE i \in 1..M - n
  <2>1. z[i] = s[h + (n + i)]
    BY <1>2, <1>4, <1>10
  <2> QED BY <1>4, <1>5, <1>7, <2>1
<1>13. y = w
  BY <1>5, <1>6, <1>9, <1>11, SeqEqual
<1>14. z = x
  BY <1>5, <1>7, <1>10, <1>12, SeqEqual
<1>15. y = SubSeq(u, 1, n)
  BY <1>1 DEF y
<1> QED BY <1>2, <1>13, <1>14, <1>15 DEF z, u, w, x, n, M, N

LEMMA PartSplits ==
  ASSUME NEW s \in Seq(Seq(Nat)), NEW h \in Nat, NEW a \in Nat, h <= a, a <= Len(s)
  PROVE  LET u == Part(s, h, Len(s))
         IN  /\ SubSeq(u, 1, a - h) = Part(s, h, a)
             /\ SubSeq(u, (a - h) + 1, Len(u)) = Part(s, a, Len(s))
             /\ Len(u) = Len(s) - h
BY PartOfPart DEF Part

LEMMA FifoHear ==
  ASSUME SInv, setting = "whole", Receive
  PROVE  \E n \in 1..Len(pendingNow) :
            /\ heardNow' = heardNow \o SubSeq(pendingNow, 1, n)
            /\ pendingNow' = SubSeq(pendingNow, n + 1, Len(pendingNow))
<1>1. /\ arrived # <<>> /\ heard' = heard \o Packets(arrived)
      /\ said' = said /\ setting' = setting
  BY DEF Receive
<1>2. PICK h \in Nat, a \in Nat, e \in Nat : Linked(h, a, e)
  BY DEF SInv
<1>3. /\ Packets(arrived) = Part(said, h, a) /\ h <= a /\ a <= Len(said)
      /\ said \in Seq(Seq(Nat)) /\ heard' = Part(said, 0, a)
  BY <1>1, <1>2, Heard
<1>4. Len(said) \in Nat /\ Len(heard') = a
  BY <1>3, LenProperties, HeardLength
<1>5. h # a
  <2>1. Clean(arrived, Part(said, h, a))
    BY <1>2 DEF Linked, Laid
  <2> QED BY <1>1, <2>1, PartNone DEF Clean
<1> DEFINE u == Part(said, h, Len(said))
           n == a - h
<1>6. /\ SubSeq(u, 1, n) = Part(said, h, a)
      /\ SubSeq(u, n + 1, Len(u)) = Part(said, a, Len(said))
      /\ Len(u) = Len(said) - h
  BY <1>3, PartSplits
<1>7. pendingNow = u /\ heardNow = heard
  BY <1>2, PendingIs
<1>8. pendingNow' = Part(said, a, Len(said)) /\ heardNow' = heard'
  BY <1>1, <1>4 DEF pendingNow, heardNow, Part
<1> HIDE DEF u
<1>9. n \in 1..Len(u)
  BY <1>3, <1>4, <1>5, <1>6
<1> HIDE DEF n
<1>10. heardNow' = heardNow \o SubSeq(pendingNow, 1, n)
  BY <1>1, <1>3, <1>6, <1>7, <1>8
<1>11. pendingNow' = SubSeq(pendingNow, n + 1, Len(pendingNow))
  BY <1>6, <1>7, <1>8
<1> QED BY <1>7, <1>9, <1>10, <1>11

LEMMA SettingStays ==
  ASSUME [Next]_vars
  PROVE  setting' = setting
BY DEF Next, SendData, Send, Clear, DeliverSome, Deliver, Receive, vars

LEMMA FifoElse ==
  ASSUME [Next]_vars, UNCHANGED <<said, heard>> \/ setting # "whole"
  PROVE  UNCHANGED <<pendingNow, heardNow>>
<1>1. CASE setting # "whole"
  BY <1>1, SettingStays DEF pendingNow, heardNow
<1>2. CASE UNCHANGED <<said, heard>>
  BY <1>2, SettingStays DEF pendingNow, heardNow
<1> QED BY <1>1, <1>2

LEMMA FifoStep ==
  ASSUME FifoInv, [Next]_vars
  PROVE  [Abstract!Next]_<<pendingNow, heardNow>>
<1>1. CASE setting # "whole"
  BY <1>1, FifoElse
<1>2. CASE setting = "whole"
  <2>1. SInv
    BY <1>2 DEF FifoInv
  <2>2. ASSUME NEW p \in Sayable, SendData(p)
        PROVE  Abstract!Next
    <3>1. pendingNow' = Append(pendingNow, p) /\ heardNow' = heardNow
      BY <1>2, <2>1, <2>2, FifoSay
    <3> QED BY <3>1 DEF Abstract!Next, Abstract!Say, Sayable, pendingNow, heardNow
  <2>3. CASE Receive
    <3>1. PICK n \in 1..Len(pendingNow) :
            /\ heardNow' = heardNow \o SubSeq(pendingNow, 1, n)
            /\ pendingNow' = SubSeq(pendingNow, n + 1, Len(pendingNow))
      BY <1>2, <2>1, <2>3, FifoHear
    <3>2. Abstract!Next
      BY <3>1 DEF Abstract!Next, Abstract!Hear, pendingNow, heardNow
    <3> QED BY <3>2
  <2>4. CASE UNCHANGED <<said, heard>>
    BY <2>4, FifoElse
  <2>5. \/ \E p \in Sayable : SendData(p)
        \/ Receive
        \/ UNCHANGED <<said, heard>>
    BY <1>2 DEF Next, Sayable, Send, Clear, DeliverSome, Deliver, vars
  <2> QED BY <2>2, <2>3, <2>4, <2>5
<1> QED BY <1>1, <1>2

(* Where reads do not cut what was sent, each step of send_packets and       *)
(* recieve_packets is one of a queue of packages, or changes nothing that    *)
(* its user sees, whatever packages are sent: the safety of IsFifo.          *)
THEOREM ExactIsFifo ==
  Spec => Abstract!Init /\ [][Abstract!Next]_(Abstract!vars)
<1>1. Init => FifoInv /\ Abstract!Init
  <2> SUFFICES ASSUME Init PROVE FifoInv /\ Abstract!Init
    OBVIOUS
  <2>1. FifoInv
    BY InitStream DEF FifoInv
  <2>2. pendingNow = <<>> /\ heardNow = <<>>
    <3>1. said = <<>> /\ heard = <<>>
      BY DEF Init
    <3> QED BY <3>1 DEF pendingNow, heardNow
  <2> QED BY <2>1, <2>2 DEF Abstract!Init, pendingNow, heardNow
<1>2. FifoInv /\ [Next]_vars => FifoInv'
  BY SettingStays, NextStream DEF FifoInv
<1>3. FifoInv /\ [Next]_vars => [Abstract!Next]_(Abstract!vars)
  <2>1. Abstract!vars = <<pendingNow, heardNow>>
    BY DEF Abstract!vars, pendingNow, heardNow
  <2>2. Abstract!vars' = <<pendingNow, heardNow>>'
    BY DEF Abstract!vars, pendingNow, heardNow
  <2> QED BY <2>1, <2>2, FifoStep
<1> QED BY <1>1, <1>2, <1>3, PTL DEF Spec

-----------------------------------------------------------------------------
(* What is sent, read and cut out are bytes. *)
LEMMA FramedBytes ==
  ASSUME NEW p \in Sayable
  PROVE  Framed(p) \in Seq(Byte)
<1>1. p \in Seq(Byte) /\ Len(p) \in Lengths
  BY SayableIsPayload DEF Payload
<1>2. PICK x \in Byte, y \in Byte : x = Len(p) % 256 /\ y = Len(p) \div 256
  BY <1>1, LengthBytes
<1> DEFINE h == <<x, y, 0, 0>>
<1>3. h \in Seq(Byte)
  BY ByteIsNumber
<1>4. Framed(p) = h \o p
  BY <1>2 DEF Framed
<1> HIDE DEF h
<1>5. h \o p \in Seq(Byte)
  BY <1>1, <1>3, ConcatProperties
<1> QED BY <1>4, <1>5

LEMMA InitType == Init => TypeOK
<1> SUFFICES ASSUME Init PROVE TypeOK
  OBVIOUS
<1>1. <<>> \in Seq(Byte) /\ <<>> \in Seq(Seq(Byte))
  OBVIOUS
<1>2. reads \in Nat \X Nat
  BY DEF Init
<1> QED BY <1>1, <1>2 DEF Init, TypeOK

LEMMA SendDataType ==
  ASSUME TypeOK, NEW p \in Sayable, SendData(p)
  PROVE  TypeOK'
<1>1. /\ buffer' = buffer \o Framed(p) /\ said' = Append(said, p)
      /\ UNCHANGED <<setting, poll, wire, arrived, heard, reads>>
  BY DEF SendData
<1>2. Framed(p) \in Seq(Byte) /\ p \in Seq(Byte)
  BY FramedBytes, SayableIsPayload
<1>3. buffer' \in Seq(Byte)
  BY <1>1, <1>2, ConcatProperties DEF TypeOK
<1>4. said' \in Seq(Seq(Byte))
  BY <1>1, <1>2, AppendProperties DEF TypeOK
<1> QED BY <1>1, <1>3, <1>4 DEF TypeOK

LEMMA DeliverType ==
  ASSUME TypeOK, NEW n, Deliver(n)
  PROVE  TypeOK'
<1> DEFINE m == Head(wire)
           t == Tail(wire)
           rest == SubSeq(m, n + 1, Len(m))
<1>1. /\ wire # <<>> /\ n \in 1..Len(m)
      /\ arrived' = arrived \o SubSeq(m, 1, n)
      /\ wire' = t \/ wire' = <<rest>> \o t
      /\ UNCHANGED <<setting, buffer, poll, said, heard, reads>>
  BY DEF Deliver
<1>2. wire \in Seq(Seq(Byte)) /\ arrived \in Seq(Byte)
  BY DEF TypeOK
<1>3. m \in Seq(Byte) /\ t \in Seq(Seq(Byte))
  BY <1>1, <1>2, HeadTailProperties
<1> HIDE DEF m, t
<1>4. Len(m) \in Nat /\ n \in Nat
  BY <1>1, <1>3, LenProperties
<1>5. ASSUME NEW x \in 1..Len(m) + 1, NEW y \in 0..Len(m) PROVE SubSeq(m, x, y) \in Seq(Byte)
  <2>1. x \in Int /\ y \in Int /\ \A i \in x..y : i \in 1..Len(m)
    BY <1>4
  <2>2. \A i \in x..y : m[i] \in Byte
    BY <1>3, <2>1, ElementOfSeq
  <2> QED BY <2>1, <2>2, SubSeqProperties
<1>6. 1 \in 1..Len(m) + 1 /\ n \in 0..Len(m) /\ n + 1 \in 1..Len(m) + 1 /\ Len(m) \in 0..Len(m)
  BY <1>1, <1>4
<1>7. SubSeq(m, 1, n) \in Seq(Byte) /\ rest \in Seq(Byte)
  BY <1>5, <1>6
<1> HIDE DEF rest
<1>8. arrived' \in Seq(Byte)
  BY <1>1, <1>2, <1>7, ConcatProperties
<1>9. <<rest>> \in Seq(Seq(Byte))
  BY <1>7
<1>10. wire' \in Seq(Seq(Byte))
  BY <1>1, <1>3, <1>9, ConcatProperties
<1> QED BY <1>1, <1>8, <1>10 DEF TypeOK

LEMMA ReceiveType ==
  ASSUME TypeOK, Receive
  PROVE  TypeOK'
<1>1. /\ heard' = heard \o Packets(arrived) /\ arrived' = <<>>
      /\ reads' = <<reads[2], reads[2] + Len(arrived)>>
      /\ UNCHANGED <<setting, buffer, poll, wire, said>>
  BY DEF Receive
<1>2. arrived \in Seq(Byte) /\ heard \in Seq(Seq(Byte)) /\ reads[2] \in Nat
  BY DEF TypeOK
<1>3. Packets(arrived) \in Seq(Seq(Byte))
  BY <1>2, ByteIsNumber, PacketsIn
<1>4. heard' \in Seq(Seq(Byte))
  BY <1>1, <1>2, <1>3, ConcatProperties
<1>5. arrived' \in Seq(Byte)
  BY <1>1
<1>6. reads' \in Nat \X Nat
  <2>1. Len(arrived) \in Nat
    BY <1>2, LenProperties
  <2> DEFINE x == reads[2]
             y == Len(arrived)
  <2>2. x \in Nat /\ y \in Nat /\ reads' = <<x, x + y>>
    BY <1>1, <1>2, <2>1
  <2> HIDE DEF x, y
  <2> QED BY <2>2
<1> QED BY <1>1, <1>4, <1>5, <1>6 DEF TypeOK

LEMMA NextType ==
  ASSUME TypeOK, [Next]_vars
  PROVE  TypeOK'
<1>1. CASE \E p \in Sayable : SendData(p)
  BY <1>1, SendDataType
<1>2. ASSUME NEW p \in {Ping} \cup (IF setting = "cut" THEN CutMessages ELSE Messages), SendData(p)
      PROVE  \E x \in Sayable : SendData(x)
  BY <1>2, StreamAssumption DEF Sayable
<1>3. CASE Send
  <2>1. wire' = Append(wire, buffer) /\ poll' = "sent"
        /\ UNCHANGED <<setting, buffer, arrived, said, heard, reads>>
    BY <1>3 DEF Send
  <2>2. wire' \in Seq(Seq(Byte))
    BY <2>1, AppendProperties DEF TypeOK
  <2> QED BY <2>1, <2>2 DEF TypeOK
<1>4. CASE Clear
  <2>1. <<>> \in Seq(Byte)
    OBVIOUS
  <2> QED BY <1>4, <2>1 DEF Clear, TypeOK
<1>5. CASE DeliverSome
  BY <1>5, DeliverType DEF DeliverSome
<1>6. CASE Receive
  BY <1>6, ReceiveType
<1>7. CASE UNCHANGED vars
  BY <1>7 DEF vars, TypeOK
<1> QED BY <1>1, <1>2, <1>3, <1>4, <1>5, <1>6, <1>7 DEF Next

(* Every variable of a connection always has its type: what is sent, what is *)
(* read and what is cut out of it, wherever the network cuts, are bytes.     *)
THEOREM StreamTypes ==
  Spec => []TypeOK
<1>1. TypeOK /\ [Next]_vars => TypeOK'
  BY NextType
<1> QED BY <1>1, InitType, PTL DEF Spec
=============================================================================
