---------------------------- MODULE MemoryProofs ----------------------------
(***************************************************************************)
(* For every scale of the orders, every node size and every program:       *)
(* until something is undefined, the memory resources implement the        *)
(* abstract allocator, and the tags, lists and saved words they rely on    *)
(* are exact; and a program that is WellUsed makes nothing undefined.      *)
(*                                                                         *)
(* The invariant IInv is at the end.  For a PoolResource it says that the  *)
(* blocks tile the chunks (Tiled), that the free ones are those listed     *)
(* (Listed) and that the others are those in use (PoolHolds).              *)
(***************************************************************************)
EXTENDS MemoryResource, FiniteSetTheorems, SequenceTheorems, WellFoundedInduction, TLAPS

\* A set of natural numbers has a least one: what stands for induction here.
LEMMA Least ==
    ASSUME NEW T \in SUBSET Nat, T # {}
    PROVE  \E x \in T : \A y \in T : x <= y
  <1>1. PICK x \in T : \A y \in T : ~(<<y, x>> \in OpToRel(<, Nat))
    BY NatLessThanWellFounded, WFMin
  <1>2. ASSUME NEW y \in T PROVE x <= y
    <2>1. ~(<<y, x>> \in OpToRel(<, Nat)) BY <1>1
    <2>2. <<y, x>> \in Nat \X Nat OBVIOUS
    <2>3. ~(y < x) BY <2>1, <2>2 DEF OpToRel
    <2> QED BY <2>3
  <1> QED BY <1>2

\* What a < b implies.
LEMMA Ascending == \A a, b \in Nat : a < b => a # b /\ a <= a /\ a <= b /\ ~(b <= a)
  OBVIOUS

\* < is transitive.
LEMMA Transitive == \A a, b, c \in Nat : a < b /\ b < c => a < c
  OBVIOUS

\* <= is antisymmetric.
LEMMA Antisymmetric ==
    ASSUME NEW a \in Nat, NEW b \in Nat, a <= b, b <= a
    PROVE  a = b
  OBVIOUS

\* The distance back.
LEMMA DistanceBack ==
    ASSUME NEW a \in Nat, NEW b \in Nat
    PROVE  a - (a - b) = b
  OBVIOUS

-----------------------------------------------------------------------------
(* Sizes and orders *)

\* The powers of two up to the n-th.
Powers(n, g) ==
    /\ g \in [0..n -> Nat]
    /\ g[0] = 1
    /\ \A i \in 1..n : g[i] = 2 * g[i - 1]

\* Two tables of powers agree where both are defined.
LEMMA PowersUnique ==
    ASSUME NEW n \in Nat, NEW g, NEW m \in Nat, NEW h, Powers(n, g), Powers(m, h)
    PROVE  \A i \in Nat : i <= n /\ i <= m => g[i] = h[i]
  <1> DEFINE T == {i \in Nat : i <= n /\ i <= m /\ g[i] # h[i]}
  <1>1. SUFFICES ASSUME T # {} PROVE FALSE
    OBVIOUS
  <1>2. PICK x \in T : \A y \in T : x <= y
    BY <1>1, Least
  <1>3. x # 0
    BY DEF Powers
  <1>4. x - 1 \in Nat /\ x - 1 \notin T
    BY <1>2, <1>3
  <1>5. g[x - 1] = h[x - 1]
    BY <1>4
  <1>6. g[x] = 2 * g[x - 1] /\ h[x] = 2 * h[x - 1]
    BY <1>3 DEF Powers
  <1> QED BY <1>5, <1>6

\* There is a table of powers of any length.
LEMMA PowersExist == \A n \in Nat : \E g : Powers(n, g)
  <1> DEFINE T == {n \in Nat : ~ \E g : Powers(n, g)}
  <1>1. SUFFICES ASSUME T # {} PROVE FALSE
    OBVIOUS
  <1>2. PICK x \in T : \A y \in T : x <= y
    BY <1>1, Least
  <1>3. x # 0
    <2>1. Powers(0, [i \in 0..0 |-> 1]) BY DEF Powers
    <2> QED BY <2>1
  <1>4. x - 1 \in Nat /\ x - 1 \notin T
    BY <1>2, <1>3
  <1>5. PICK g : Powers(x - 1, g)
    BY <1>4
  <1> DEFINE h == [i \in 0..x |-> IF i = x THEN 2 * g[x - 1] ELSE g[i]]
  <1>6. Powers(x, h)
    <2>1. \A i \in 0..(x - 1) : g[i] \in Nat /\ h[i] = g[i]
      BY <1>4, <1>5 DEF Powers
    <2>2. x - 1 \in 0..(x - 1) /\ 0 \in 0..(x - 1)
      BY <1>4
    <2>3. 2 * g[x - 1] \in Nat
      <3>1. g[x - 1] \in Nat BY <2>1, <2>2
      <3> QED BY <3>1
    <2>4. h \in [0..x -> Nat]
      <3>1. ASSUME NEW i \in 0..x PROVE (IF i = x THEN 2 * g[x - 1] ELSE g[i]) \in Nat
        <4>1. i \in 0..(x - 1) \/ i = x OBVIOUS
        <4> QED BY <4>1, <2>1, <2>3
      <3> QED BY <3>1
    <2>5. h[0] = 1
      BY <2>1, <2>2, <1>5 DEF Powers
    <2>6. ASSUME NEW i \in 1..x PROVE h[i] = 2 * h[i - 1]
      <3>1. i - 1 \in 0..(x - 1)
        OBVIOUS
      <3>2. h[i - 1] = g[i - 1]
        BY <3>1, <2>1
      <3>3. CASE i = x
        BY <3>2, <3>3
      <3>4. CASE i # x
        <4>1. i \in 1..(x - 1) BY <3>4
        <4>2. h[i] = g[i] BY <4>1, <2>1
        <4> QED BY <4>1, <4>2, <3>2, <1>5 DEF Powers
      <3> QED BY <3>3, <3>4
    <2> QED BY <2>4, <2>5, <2>6 DEF Powers
  <1> QED BY <1>6

\* Power satisfies the equation that it is defined by.
LEMMA PowerDefined ==
    Power = [n \in Nat |-> IF n = 0 THEN 1 ELSE 2 * Power[n - 1]]
  <1> DEFINE G(n) == CHOOSE g : Powers(n, g)
             F == [n \in Nat |-> G(n)[n]]
  <1>1. \A n \in Nat : Powers(n, G(n))
    BY PowersExist
  <1>2. ASSUME NEW n \in Nat PROVE F[n] = IF n = 0 THEN 1 ELSE 2 * F[n - 1]
    <2>1. CASE n = 0
      BY <2>1, <1>1 DEF Powers
    <2>2. CASE n # 0
      <3>1. n - 1 \in Nat /\ n \in 1..n BY <2>2
      <3>2. G(n)[n] = 2 * G(n)[n - 1]
        BY <3>1, <1>1 DEF Powers
      <3>3. Powers(n, G(n)) /\ Powers(n - 1, G(n - 1))
        BY <3>1, <1>1
      <3> HIDE DEF G
      <3>4. G(n)[n - 1] = G(n - 1)[n - 1]
        BY <3>1, <3>3, PowersUnique
      <3> QED BY <3>1, <3>2, <3>4, <2>2
    <2> QED BY <2>1, <2>2
  <1> HIDE DEF G
  <1>3. F = [n \in Nat |-> IF n = 0 THEN 1 ELSE 2 * F[n - 1]]
    BY <1>2
  <1> HIDE DEF F
  <1> QED BY <1>3 DEF Power

\* The two cases of Power.
LEMMA PowerStep ==
    /\ Power[0] = 1
    /\ \A n \in Nat : Power[n + 1] = 2 * Power[n]
  <1>1. \A n \in Nat : n + 1 \in Nat /\ n + 1 # 0 /\ (n + 1) - 1 = n
    OBVIOUS
  <1> QED BY <1>1, PowerDefined

\* Every power of two is a positive natural number.
LEMMA PowerType == \A n \in Nat : Power[n] \in Nat /\ Power[n] > 0
  <1> DEFINE T == {n \in Nat : ~(Power[n] \in Nat /\ Power[n] > 0)}
  <1>1. SUFFICES ASSUME T # {} PROVE FALSE
    OBVIOUS
  <1>2. PICK x \in T : \A y \in T : x <= y
    BY <1>1, Least
  <1>3. x # 0
    BY PowerStep
  <1>4. x - 1 \in Nat /\ x - 1 \notin T /\ x = (x - 1) + 1
    BY <1>2, <1>3
  <1>5. Power[x] = 2 * Power[x - 1]
    BY <1>4, PowerStep
  <1> QED BY <1>4, <1>5

\* A larger exponent gives no smaller power.
LEMMA PowerMonotone == \A m, n \in Nat : m <= n => Power[m] <= Power[n]
  <1> SUFFICES ASSUME NEW m \in Nat PROVE \A n \in Nat : m <= n => Power[m] <= Power[n]
    OBVIOUS
  <1> DEFINE T == {n \in Nat : m <= n /\ ~(Power[m] <= Power[n])}
  <1>1. SUFFICES ASSUME T # {} PROVE FALSE
    OBVIOUS
  <1>2. PICK x \in T : \A y \in T : x <= y
    BY <1>1, Least
  <1>3. x # m
    BY PowerType
  <1>4. x - 1 \in Nat /\ x - 1 \notin T /\ x = (x - 1) + 1 /\ m <= x - 1
    BY <1>2, <1>3
  <1>5. Power[x] = 2 * Power[x - 1]
    BY <1>4, PowerStep
  <1> QED BY <1>4, <1>5, PowerType

\* From the fourth on powers of two are multiples of sixteen.
LEMMA PowerSixteen == \A n \in Nat : n >= 4 => Power[n] % 16 = 0 /\ Power[n] >= 16
  <1>0. Power[4] = 16 /\ Power[3] = 8
    <2>1. Power[1] = 2 * Power[0] /\ Power[2] = 2 * Power[1] /\ Power[3] = 2 * Power[2]
          /\ Power[4] = 2 * Power[3]
      <3>1. Power[0 + 1] = 2 * Power[0] /\ Power[1 + 1] = 2 * Power[1]
            /\ Power[2 + 1] = 2 * Power[2] /\ Power[3 + 1] = 2 * Power[3]
        BY PowerStep
      <3> QED BY <3>1
    <2> QED BY <2>1, PowerStep
  <1> DEFINE T == {n \in Nat : n >= 4 /\ ~(Power[n] % 16 = 0 /\ Power[n] >= 16)}
  <1>1. SUFFICES ASSUME T # {} PROVE FALSE
    OBVIOUS
  <1>2. PICK x \in T : \A y \in T : x <= y
    BY <1>1, Least
  <1>3. x # 4
    BY <1>0
  <1>4. x - 1 \in Nat /\ x - 1 \notin T /\ x = (x - 1) + 1 /\ x - 1 >= 4
    BY <1>2, <1>3
  <1>5. Power[x] = 2 * Power[x - 1]
    BY <1>4, PowerStep
  <1> QED BY <1>4, <1>5, PowerType

\* The size of a chunk.
ChunkBytes == block_size(k_max_order)

\* A chunk is as long as a power of two, and a multiple of sixteen.
LEMMA ChunkSize ==
    /\ k_max_order \div 4 \in Nat /\ k_max_order \div 4 >= 2 /\ k_max_order = 4 * (k_max_order \div 4)
    /\ ChunkBytes = Power[k_max_order \div 4 + 3]
    /\ ChunkBytes \in Nat /\ ChunkBytes >= 32 /\ ChunkBytes % 16 = 0
  <1>1. /\ k_max_order \div 4 \in Nat /\ k_max_order \div 4 >= 2
        /\ k_max_order = 4 * (k_max_order \div 4) /\ k_max_order % 4 = 0
    BY OrdersAssumption
  <1> DEFINE K == k_max_order \div 4 + 3
  <1>2. K \in Nat /\ K >= 5 /\ Power[K] \in Nat
    BY <1>1, PowerType
  <1>3. ChunkBytes = Power[K]
    <2>1. 0 * (Power[K] \div 4) = 0 BY <1>2
    <2> QED BY <1>1, <1>2, <2>1 DEF ChunkBytes, block_size
  <1>4. Power[K] % 16 = 0 /\ Power[K] >= 32
    <2>1. K - 1 \in Nat /\ K - 1 >= 4 /\ K = (K - 1) + 1 BY <1>2
    <2>2. Power[K] = 2 * Power[K - 1] BY <2>1, PowerStep
    <2>3. Power[K - 1] >= 16 /\ Power[K - 1] \in Nat BY <2>1, PowerSixteen, PowerType
    <2> QED BY <1>2, <2>2, <2>3, PowerSixteen
  <1> QED BY <1>1, <1>2, <1>3, <1>4

\* The leading digit of a size.
LEMMA Digits ==
    ASSUME NEW size \in Nat, size >= 8, size <= ChunkBytes
    PROVE  \E d \in 3..(k_max_order \div 4 + 3) : Power[d] <= size /\ size < Power[d + 1]
  <1> DEFINE K == k_max_order \div 4 + 3
             T == {d \in Nat : size < Power[d + 1]}
  <1>1. K \in Nat /\ Power[K + 1] = 2 * Power[K] /\ ChunkBytes = Power[K] /\ Power[K] \in Nat
    BY ChunkSize, PowerStep, PowerType
  <1>2. K \in T
    BY <1>1, ChunkSize
  <1>3. PICK d \in T : \A e \in T : d <= e
    BY <1>2, Least
  <1>4. Power[3] = 8
    <2>1. Power[0 + 1] = 2 * Power[0] /\ Power[1 + 1] = 2 * Power[1] /\ Power[2 + 1] = 2 * Power[2]
      BY PowerStep
    <2> QED BY <2>1, PowerStep
  <1>5. d <= K
    BY <1>2, <1>3
  <1>6. d >= 3
    <2>1. SUFFICES ASSUME d + 1 <= 3 PROVE FALSE BY <1>3
    <2>2. Power[d + 1] <= Power[3] BY <2>1, PowerMonotone
    <2> QED BY <2>2, <1>3, <1>4, PowerType
  <1>7. Power[d] <= size
    <2>1. d - 1 \in Nat /\ d - 1 \notin T /\ d = (d - 1) + 1 BY <1>3, <1>6
    <2>2. Power[d] \in Nat BY PowerType
    <2> QED BY <2>1, <2>2
  <1> QED BY <1>1, <1>3, <1>5, <1>6, <1>7

\* An order by the quotient and the remainder of the size.
LEMMA OrderShape ==
    ASSUME NEW size \in Nat, size >= 8, size <= ChunkBytes
    PROVE  \E shift \in Nat, q \in 4..7, r \in Nat :
               /\ shift >= 1 /\ shift + 2 <= k_max_order \div 4 + 3
               /\ size = q * Power[shift] + r /\ r < Power[shift]
               /\ block_order(size) = (shift - 1) * 4 + (q - 4) + (IF r = 0 THEN 0 ELSE 1)
  <1> DEFINE P(d) == Power[d] <= size /\ size < Power[d + 1]
             D == 3..(k_max_order \div 4 + 3)
             digits == CHOOSE d \in D : P(d)
  <1>1. digits \in D /\ P(digits)
    BY Digits
  <1> HIDE DEF digits
  <1> DEFINE shift == digits - 2
             unit == Power[shift]
  <1>2. shift \in Nat /\ shift >= 1 /\ shift + 2 <= k_max_order \div 4 + 3
    BY <1>1, ChunkSize
  <1>3. unit \in Nat /\ unit > 0 /\ Power[digits] = 4 * unit /\ Power[digits + 1] = 8 * unit
    <2>1. /\ Power[shift + 1] = 2 * unit /\ Power[(shift + 1) + 1] = 2 * Power[shift + 1]
          /\ Power[((shift + 1) + 1) + 1] = 2 * Power[(shift + 1) + 1]
      BY <1>2, PowerStep
    <2>2. (shift + 1) + 1 = digits /\ ((shift + 1) + 1) + 1 = digits + 1
      BY <1>1
    <2>3. unit \in Nat /\ unit > 0
      BY <1>2, PowerType
    <2> QED BY <2>1, <2>2, <2>3
  <1> HIDE DEF unit
  <1> DEFINE q == size \div unit
             r == size % unit
  <1>4. q \in Int /\ r \in Nat /\ r < unit /\ size = q * unit + r
    BY <1>3
  <1>5. 4 * unit <= size /\ size < 8 * unit
    BY <1>1, <1>3
  <1> HIDE DEF q, r
  <1>6. q \in 4..7
    <2>1. CASE q <= 3
      <3>1. q * unit <= 3 * unit BY <2>1, <1>3, <1>4
      <3> QED BY <3>1, <1>3, <1>4, <1>5
    <2>2. CASE q >= 8
      <3>1. q * unit >= 8 * unit BY <2>2, <1>3, <1>4
      <3> QED BY <3>1, <1>3, <1>4, <1>5
    <2> QED BY <2>1, <2>2, <1>4
  <1>7. q % 4 = q - 4
    BY <1>6
  <1>8. block_order(size) = (shift - 1) * 4 + (q - 4) + (IF r = 0 THEN 0 ELSE 1)
    BY <1>7 DEF block_order, digits, unit, q, r
  <1>9. size = q * Power[shift] + r /\ r < Power[shift]
    BY <1>4 DEF unit
  <1> QED BY <1>2, <1>4, <1>6, <1>8, <1>9

\* A list holds blocks that are no larger than its order says.
LEMMA OrderBound ==
    ASSUME NEW size \in Nat, size >= 8, size <= ChunkBytes
    PROVE  /\ block_order(size) \in 0..k_max_order
           /\ block_size(block_order(size)) >= size
  <1>1. PICK shift \in Nat, q \in 4..7, r \in Nat :
               /\ shift >= 1 /\ shift + 2 <= k_max_order \div 4 + 3
               /\ size = q * Power[shift] + r /\ r < Power[shift]
               /\ block_order(size) = (shift - 1) * 4 + (q - 4) + (IF r = 0 THEN 0 ELSE 1)
    BY OrderShape
  <1> DEFINE unit == Power[shift]
             order == block_order(size)
  <1>2. /\ unit \in Nat /\ unit > 0
        /\ Power[shift + 1] = 2 * unit /\ Power[shift + 2] = 4 * unit /\ Power[shift + 3] = 8 * unit
    <2>1. /\ Power[shift + 1] = 2 * unit /\ Power[(shift + 1) + 1] = 2 * Power[shift + 1]
          /\ Power[((shift + 1) + 1) + 1] = 2 * Power[(shift + 1) + 1]
      BY PowerStep
    <2>2. (shift + 1) + 1 = shift + 2 /\ ((shift + 1) + 1) + 1 = shift + 3
      OBVIOUS
    <2>3. unit \in Nat /\ unit > 0
      BY PowerType
    <2> QED BY <2>1, <2>2, <2>3
  <1> HIDE DEF unit
  <1>3. order = (shift - 1) * 4 + (q - 4) + (IF r = 0 THEN 0 ELSE 1) /\ size = q * unit + r /\ r < unit
    BY <1>1 DEF unit
  <1> HIDE DEF order
  <1>4. (4 * unit) \div 4 = unit /\ (8 * unit) \div 4 = 2 * unit
    BY <1>2
  <1>5. order \in Nat /\ block_size(order) >= size
    <2>1. CASE q = 7 /\ r # 0
      <3>1. order = shift * 4 BY <1>1, <1>3, <2>1
      <3>2. order \div 4 + 3 = shift + 3 /\ order % 4 = 0 BY <3>1
      <3>3. block_size(order) = 8 * unit + 0 * (2 * unit) BY <3>2, <1>2, <1>4 DEF block_size
      <3> QED BY <3>1, <3>3, <1>2, <1>3, <2>1
    <2>2. CASE q # 7 \/ r = 0
      <3> DEFINE z == (q - 4) + (IF r = 0 THEN 0 ELSE 1)
      <3>1. z \in 0..3 /\ order = (shift - 1) * 4 + z BY <1>1, <1>3, <2>2
      <3>2. order \div 4 + 3 = shift + 2 /\ order % 4 = z BY <3>1, <1>1
      <3>3. block_size(order) = 4 * unit + z * unit BY <3>2, <1>2, <1>4 DEF block_size
      <3>4. size <= (4 + z) * unit
        <4>1. CASE q = 4 BY <4>1, <1>2, <1>3
        <4>2. CASE q = 5 BY <4>2, <1>2, <1>3
        <4>3. CASE q = 6 BY <4>3, <1>2, <1>3
        <4>4. CASE q = 7 BY <4>4, <1>2, <1>3, <2>2
        <4> QED BY <1>1, <4>1, <4>2, <4>3, <4>4
      <3>5. (4 + z) * unit = 4 * unit + z * unit
        <4> HIDE DEF z
        <4> QED BY <3>1, <1>2
      <3> QED BY <3>1, <3>3, <3>4, <3>5, <1>1
    <2> QED BY <2>1, <2>2
  <1>6. order <= k_max_order
    <2>1. CASE shift + 2 = k_max_order \div 4 + 3
      <3>1. ChunkBytes = 4 * unit BY <2>1, <1>2, ChunkSize
      <3>2. q = 4 /\ r = 0
        <4>1. CASE q = 4 BY <4>1, <3>1, <1>2, <1>3, <1>1
        <4>2. CASE q = 5 BY <4>2, <3>1, <1>2, <1>3, <1>1
        <4>3. CASE q = 6 BY <4>3, <3>1, <1>2, <1>3, <1>1
        <4>4. CASE q = 7 BY <4>4, <3>1, <1>2, <1>3, <1>1
        <4> QED BY <1>1, <4>1, <4>2, <4>3, <4>4
      <3> QED BY <3>2, <2>1, <1>3, ChunkSize
    <2>2. CASE shift + 2 < k_max_order \div 4 + 3
      BY <2>2, <1>1, <1>3, ChunkSize
    <2> QED BY <2>1, <2>2, <1>1, ChunkSize
  <1> QED BY <1>5, <1>6 DEF order

\* A block as large as a chunk has the largest order.
LEMMA ChunkOrder == block_order(ChunkBytes) = k_max_order
  <1>1. PICK shift \in Nat, q \in 4..7, r \in Nat :
               /\ shift >= 1 /\ shift + 2 <= k_max_order \div 4 + 3
               /\ ChunkBytes = q * Power[shift] + r /\ r < Power[shift]
               /\ block_order(ChunkBytes) = (shift - 1) * 4 + (q - 4) + (IF r = 0 THEN 0 ELSE 1)
    <2>1. ChunkBytes \in Nat /\ ChunkBytes >= 8 /\ ChunkBytes <= ChunkBytes BY ChunkSize
    <2> QED BY <2>1, OrderShape, Zenon
  <1> DEFINE unit == Power[shift]
             K == k_max_order \div 4 + 3
  <1>2. unit \in Nat /\ unit > 0 /\ Power[shift + 2] = 4 * unit /\ Power[shift + 3] = 8 * unit
    <2>1. /\ Power[shift + 1] = 2 * unit /\ Power[(shift + 1) + 1] = 2 * Power[shift + 1]
          /\ Power[((shift + 1) + 1) + 1] = 2 * Power[(shift + 1) + 1]
      BY PowerStep
    <2>2. (shift + 1) + 1 = shift + 2 /\ ((shift + 1) + 1) + 1 = shift + 3
      OBVIOUS
    <2>3. unit \in Nat /\ unit > 0
      BY PowerType
    <2> QED BY <2>1, <2>2, <2>3
  <1> HIDE DEF unit
  <1>3. ChunkBytes = q * unit + r /\ r < unit
    BY <1>1 DEF unit
  <1>4. 4 * unit <= ChunkBytes /\ ChunkBytes < 8 * unit
    <2>1. CASE q = 4 BY <2>1, <1>2, <1>3, <1>1
    <2>2. CASE q = 5 BY <2>2, <1>2, <1>3, <1>1
    <2>3. CASE q = 6 BY <2>3, <1>2, <1>3, <1>1
    <2>4. CASE q = 7 BY <2>4, <1>2, <1>3, <1>1
    <2> QED BY <1>1, <2>1, <2>2, <2>3, <2>4
  <1>5. shift + 2 = K
    <2>1. K \in Nat BY ChunkSize
    <2>2. SUFFICES ASSUME shift + 3 <= K PROVE FALSE BY <2>1, <1>1
    <2>3. Power[shift + 3] <= Power[K] BY <2>1, <2>2, PowerMonotone
    <2> QED BY <2>3, <1>2, <1>4, ChunkSize
  <1>6. ChunkBytes = 4 * unit
    BY <1>5, <1>2, ChunkSize
  <1>7. q = 4 /\ r = 0
    <2>1. CASE q = 4 BY <2>1, <1>2, <1>3, <1>1, <1>6
    <2>2. CASE q = 5 BY <2>2, <1>2, <1>3, <1>1, <1>6
    <2>3. CASE q = 6 BY <2>3, <1>2, <1>3, <1>1, <1>6
    <2>4. CASE q = 7 BY <2>4, <1>2, <1>3, <1>1, <1>6
    <2> QED BY <1>1, <2>1, <2>2, <2>3, <2>4
  <1> QED BY <1>1, <1>5, <1>7, ChunkSize

\* Nothing that is not left to malloc is larger than a chunk.
LEMMA LargeBound == block_size(k_malloc_order) \in Nat /\ block_size(k_malloc_order) <= ChunkBytes
  <1> DEFINE o == k_malloc_order
             K == k_max_order \div 4 + 3
             p == Power[o \div 4 + 3]
  <1>1. o \in Nat /\ o <= k_max_order /\ o \div 4 \in Nat /\ o % 4 \in 0..3 /\ o = 4 * (o \div 4) + (o % 4)
    <2>1. o \in Nat /\ o <= k_max_order BY OrdersAssumption
    <2> HIDE DEF o
    <2> QED BY <2>1
  <1>2. p \in Nat
    BY <1>1, PowerType
  <1>3. CASE o = k_max_order
    BY <1>3, ChunkSize DEF ChunkBytes
  <1>4. CASE o # k_max_order
    <2>1. (o \div 4 + 3) + 1 <= K /\ K \in Nat
      BY <1>1, <1>4, ChunkSize
    <2>2. 2 * p <= ChunkBytes
      <3>1. Power[(o \div 4 + 3) + 1] = 2 * p BY <1>1, PowerStep
      <3>2. Power[(o \div 4 + 3) + 1] <= Power[K] BY <2>1, <1>1, PowerMonotone
      <3> QED BY <3>1, <3>2, ChunkSize
    <2> HIDE DEF p
    <2>3. p \div 4 \in Nat /\ 4 * (p \div 4) <= p
      BY <1>2
    <2> DEFINE u == p \div 4
    <2>4. (o % 4) * u \in Nat /\ (o % 4) * u <= 3 * u
      <3> DEFINE z == o % 4
      <3>1. z = 0 \/ z = 1 \/ z = 2 \/ z = 3 BY <1>1
      <3>2. u \in Nat BY <2>3
      <3> HIDE DEF z, u
      <3>3. z * u \in Nat /\ z * u <= 3 * u BY <3>1, <3>2
      <3> QED BY <3>3 DEF z
    <2>5. block_size(o) = p + (o % 4) * u
      BY DEF block_size, p
    <2> HIDE DEF u
    <2>6. u \in Nat /\ 4 * u <= p BY <2>3 DEF u
    <2> QED BY <2>2, <2>4, <2>5, <2>6, <1>2, ChunkSize
  <1> QED BY <1>3, <1>4

\* What a program may ask for.
Asked(r) ==
    /\ r[1] \in Nat \ {0} /\ r[2] \in Nat \ {0}
    /\ r[2] \in Alignments \/ r[2] % max_align = 0

\* What RequestsAssumption says of the program at hand.
LEMMA Requested ==
    ASSUME resource \in Resources, requests \in Programs[resource], NEW r \in requests
    PROVE  Asked(r) /\ (resource = "FixPoolResource" => r[1] <= m_block_size)
  <1>1. r \in (Nat \ {0}) \X (Nat \ {0})
    BY RequestsAssumption
  <1> QED BY <1>1, RequestsAssumption DEF Asked

\* The grain is 8 or 16.
LEMMA GrainFacts == Grain \in {8, 16}
  BY DEF Grain

\* What the pool aligns to is a multiple of its grain.
LEMMA AlignmentGrain ==
    ASSUME NEW r \in requests, Asked(r), ~Large(r[1], r[2])
    PROVE  /\ Alignment(r[2]) \in Nat /\ Alignment(r[2]) >= 8
           /\ Alignment(r[2]) % Grain = 0
           /\ Grain = 16 => r[2] % 16 = 0
  <1>1. Grain = 16 => r[2] % 16 = 0
    BY DEF Grain, max_align
  <1>2. r[2] \in {1, 2, 4, 8} \/ (r[2] >= 16 /\ r[2] % 16 = 0)
    BY DEF Asked, Alignments, max_align
  <1>3. CASE r[2] \in {1, 2, 4, 8}
    <2>1. Alignment(r[2]) = 8 BY <1>3 DEF Alignment, AtLeast
    <2>2. Grain = 8 BY <1>1, <1>3, GrainFacts
    <2> QED BY <1>1, <2>1, <2>2
  <1>4. CASE r[2] >= 16 /\ r[2] % 16 = 0
    <2>1. Alignment(r[2]) = r[2] /\ r[2] \in Nat BY <1>4 DEF Alignment, AtLeast, Asked
    <2>2. r[2] % 8 = 0 BY <1>4, <2>1
    <2> QED BY <1>1, <1>4, <2>1, <2>2, GrainFacts
  <1> QED BY <1>2, <1>3, <1>4

\* Chunks are in the order of their numbers, with a gap behind each.
LEMMA ChunkFacts ==
    /\ \A i \in Nat : /\ FirstBlock(i) \in Nat /\ FirstBlock(i) > 0
                      /\ ChunkEnd(i) = FirstBlock(i) + ChunkBytes
                      /\ (FirstBlock(i) + 8) % Grain = 0
    /\ \A i, j \in Nat : i < j => ChunkEnd(i) + 96 <= FirstBlock(j)
  <1> DEFINE w == ChunkBytes + 96
  <1>1. w \in Nat /\ w % 16 = 0 /\ ChunkBytes \in Nat
    BY ChunkSize
  <1>2. \A i \in Nat : FirstBlock(i) = i * w + 24 /\ ChunkEnd(i) = i * w + 24 + ChunkBytes
    BY DEF FirstBlock, ChunkEnd, ChunkAt, BlockSize, ChunkBytes
  <1>3. PICK k \in Nat : w = 16 * k
    <2>1. w = 16 * (w \div 16) /\ w \div 16 \in Nat BY <1>1
    <2> QED BY <2>1
  <1>w. w = ChunkBytes + 96
    OBVIOUS
  <1> HIDE DEF w
  <1>4. ASSUME NEW i \in Nat
        PROVE  /\ FirstBlock(i) \in Nat /\ FirstBlock(i) > 0
               /\ ChunkEnd(i) = FirstBlock(i) + ChunkBytes
               /\ (FirstBlock(i) + 8) % Grain = 0
    <2>1. i * w \in Nat /\ i * w = 16 * (i * k)
      BY <1>1, <1>3
    <2>2. i * k \in Nat
      BY <1>3
    <2> DEFINE z == i * k
    <2>3. FirstBlock(i) = 16 * z + 24
      BY <1>2, <2>1
    <2> HIDE DEF z
    <2>4. z \in Nat
      BY <2>2 DEF z
    <2>5. (16 * z + 32) % 16 = 0 /\ (16 * z + 32) % 8 = 0
      BY <2>4
    <2>6. (FirstBlock(i) + 8) % Grain = 0
      BY <2>3, <2>4, <2>5, GrainFacts
    <2> QED BY <1>1, <1>2, <2>1, <2>6
  <1>5. ASSUME NEW i \in Nat, NEW j \in Nat, i < j PROVE ChunkEnd(i) + 96 <= FirstBlock(j)
    <2>1. i * w \in Nat /\ j * w \in Nat /\ i * w + w <= j * w
      <3>1. i + 1 <= j BY <1>5
      <3> QED BY <3>1, <1>1
    <2> QED BY <2>1, <1>1, <1>2, <1>w
  <1> QED BY <1>4, <1>5

\* Where a chunk begins and ends.
LEMMA ChunkPlace ==
    ASSUME NEW i \in Nat
    PROVE  /\ FirstBlock(i) \in Nat /\ ChunkEnd(i) \in Nat /\ ChunkBytes \in Nat
           /\ ChunkEnd(i) = FirstBlock(i) + ChunkBytes /\ FirstBlock(i) <= ChunkEnd(i)
  <1>1. FirstBlock(i) \in Nat /\ ChunkEnd(i) = FirstBlock(i) + ChunkBytes
    BY ChunkFacts
  <1> QED BY <1>1, ChunkSize

-----------------------------------------------------------------------------
(* The blocks of a pool.  ms and mp are its two tables of tags, n is how   *)
(* many chunks it has. *)

Tags == [size : Nat, order : Nat, free : BOOLEAN]

\* The block at b has a size: it ends where the next one starts, and nothing starts
\* inside it.
Whole(ms, mp, b) ==
    LET e == b + ms[b].size
    IN  /\ ms[b].size >= BlockSize /\ e \in DOMAIN ms /\ mp[e] = ms[b]
        /\ ms[b].order = block_order(ms[b].size)
        /\ \A c \in DOMAIN ms : c <= b \/ e <= c

InChunk(b, e, n) == \E i \in 1..n : FirstBlock(i) <= b /\ e <= ChunkEnd(i)

Tiled(ms, mp, n) ==
    /\ n \in Nat /\ DOMAIN mp = DOMAIN ms
    /\ \A i \in 1..n : FirstBlock(i) \in DOMAIN ms /\ ChunkEnd(i) \in DOMAIN ms
    /\ \A b \in DOMAIN ms :
          /\ b \in Nat /\ (b + 8) % Grain = 0 /\ InChunk(b, b, n)
          /\ ms[b] \in Tags /\ mp[b] \in Tags
          /\ ms[b].size = 0 <=> \E i \in 1..n : b = ChunkEnd(i)
          /\ ms[b].size > 0 => Whole(ms, mp, b)
          /\ mp[b].size > 0 => /\ b - mp[b].size \in DOMAIN ms
                               /\ ms[b - mp[b].size] = mp[b]
          /\ ms[b].free => ms[b].size > 0 /\ ~mp[b].free
          /\ mp[b].free => mp[b].size > 0

\* In the order of addresses chunks do not overlap.
LEMMA ChunkOf ==
    ASSUME NEW n \in Nat, NEW b \in Nat, NEW i \in 1..n, NEW j \in 1..n,
           FirstBlock(i) <= b, b <= ChunkEnd(i), FirstBlock(j) <= b, b <= ChunkEnd(j)
    PROVE  i = j
  <1>1. i \in Nat /\ j \in Nat /\ ChunkBytes \in Nat
    BY ChunkSize
  <1>2. /\ FirstBlock(i) \in Nat /\ ChunkEnd(i) \in Nat
        /\ FirstBlock(j) \in Nat /\ ChunkEnd(j) \in Nat
    BY <1>1, ChunkFacts
  <1>3. ~(i < j)
    <2>1. SUFFICES ASSUME i < j PROVE FALSE OBVIOUS
    <2>2. ChunkEnd(i) + 96 <= FirstBlock(j) BY <2>1, <1>1, ChunkFacts
    <2> QED BY <2>2, <1>2
  <1>4. ~(j < i)
    <2>1. SUFFICES ASSUME j < i PROVE FALSE OBVIOUS
    <2>2. ChunkEnd(j) + 96 <= FirstBlock(i) BY <2>1, <1>1, ChunkFacts
    <2> QED BY <2>2, <1>2
  <1> QED BY <1>1, <1>3, <1>4

\* A block with a size lies in the chunk that it starts in.
LEMMA BlockInChunk ==
    ASSUME NEW ms, NEW mp, NEW n, Tiled(ms, mp, n),
           NEW b \in DOMAIN ms, ms[b].size > 0
    PROVE  /\ \A i \in 1..n : FirstBlock(i) <= b /\ b <= ChunkEnd(i)
                              => b + ms[b].size <= ChunkEnd(i)
           /\ InChunk(b, b + ms[b].size, n)
           /\ ms[b].size <= ChunkBytes /\ ms[b].size \in Nat /\ ms[b].size >= 24
  <1>1. n \in Nat /\ b \in Nat /\ ms[b].size \in Nat /\ ms[b].size >= 24 /\ Whole(ms, mp, b)
    BY DEF Tiled, Tags, Whole, BlockSize
  <1>2. ASSUME NEW i \in 1..n, FirstBlock(i) <= b, b <= ChunkEnd(i)
        PROVE  b + ms[b].size <= ChunkEnd(i) /\ ms[b].size <= ChunkBytes
    <2>1. ChunkEnd(i) \in DOMAIN ms /\ b # ChunkEnd(i)
      BY <1>2 DEF Tiled
    <2>2. ChunkEnd(i) <= b \/ b + ms[b].size <= ChunkEnd(i)
      BY <1>1, <2>1 DEF Whole
    <2>3. i \in Nat /\ FirstBlock(i) \in Nat /\ ChunkBytes \in Nat /\ ChunkEnd(i) = FirstBlock(i) + ChunkBytes
      BY <1>1, ChunkPlace
    <2> QED BY <1>1, <1>2, <2>1, <2>2, <2>3
  <1>3. PICK i \in 1..n : FirstBlock(i) <= b /\ b <= ChunkEnd(i)
    BY DEF Tiled, InChunk
  <1> QED BY <1>1, <1>2, <1>3 DEF InChunk

\* Whatever the blocks, between two starts there is room for a free block.
LEMMA Gap ==
    ASSUME NEW ms, NEW mp, NEW n, Tiled(ms, mp, n),
           NEW b \in DOMAIN ms, NEW c \in DOMAIN ms, b < c
    PROVE  b + 24 <= c
  <1>1. n \in Nat /\ b \in Nat /\ c \in Nat
    BY DEF Tiled
  <1>2. CASE ms[b].size > 0
    <2>1. Whole(ms, mp, b) /\ ms[b].size \in Nat /\ ms[b].size >= 24
      BY <1>2 DEF Tiled, Tags, Whole, BlockSize
    <2>2. c <= b \/ b + ms[b].size <= c
      BY <2>1 DEF Whole
    <2> QED BY <1>1, <2>1, <2>2
  <1>3. CASE ms[b].size = 0
    <2>1. PICK i \in 1..n : b = ChunkEnd(i)
      BY <1>3 DEF Tiled
    <2>2. PICK j \in 1..n : FirstBlock(j) <= c /\ c <= ChunkEnd(j)
      BY DEF Tiled, InChunk
    <2>3. i \in Nat /\ j \in Nat /\ ChunkBytes \in Nat
      BY <1>1, ChunkSize
    <2>4. ~(j < i)
      <3>1. SUFFICES ASSUME j < i PROVE FALSE OBVIOUS
      <3>2. ChunkEnd(j) + 96 <= FirstBlock(i) BY <3>1, <2>3, ChunkFacts
      <3> QED BY <3>2, <1>1, <2>1, <2>2, <2>3, ChunkFacts
    <2>5. i # j
      BY <1>1, <2>1, <2>2, <2>3
    <2>6. ChunkEnd(i) + 96 <= FirstBlock(j) /\ FirstBlock(j) \in Nat
      BY <2>3, <2>4, <2>5, ChunkFacts
    <2> QED BY <1>1, <2>1, <2>2, <2>3, <2>6
  <1>4. ms[b].size \in Nat
    BY DEF Tiled, Tags
  <1> QED BY <1>2, <1>3, <1>4

\* From b to e there is one block in the new tables, what started in between is
\* forgotten.
OneBlock(ms, mp, n, b, e, ms2, mp2) ==
    /\ b \in DOMAIN ms /\ e \in DOMAIN ms /\ b < e /\ InChunk(b, e, n)
    /\ DOMAIN ms2 = {c \in DOMAIN ms : c <= b \/ e <= c} /\ DOMAIN mp2 = DOMAIN ms2
    /\ ms2[b] = Tag(e - b, block_order(e - b), ms2[b].free) /\ mp2[e] = ms2[b]
    /\ ms2[b].free \in BOOLEAN
    /\ ms2[b].free => ~mp[b].free /\ ~ms[e].free
    /\ \A c \in DOMAIN ms2 : c # b => ms2[c] = ms[c]
    /\ \A c \in DOMAIN ms2 : c # e => mp2[c] = mp[c]

\* When tags are written for one block in the place of several, the chunks stay tiled.
LEMMA Retag ==
    ASSUME NEW ms, NEW mp, NEW n, Tiled(ms, mp, n), NEW b, NEW e,
           NEW ms2, NEW mp2, OneBlock(ms, mp, n, b, e, ms2, mp2)
    PROVE  Tiled(ms2, mp2, n)
  <1>0. /\ b \in DOMAIN ms /\ e \in DOMAIN ms /\ b < e /\ InChunk(b, e, n)
        /\ DOMAIN ms2 = {c \in DOMAIN ms : c <= b \/ e <= c} /\ DOMAIN mp2 = DOMAIN ms2
        /\ ms2[b] = Tag(e - b, block_order(e - b), ms2[b].free) /\ mp2[e] = ms2[b]
        /\ ms2[b].free \in BOOLEAN
        /\ ms2[b].free => ~mp[b].free /\ ~ms[e].free
        /\ \A c \in DOMAIN ms2 : c # b => ms2[c] = ms[c]
        /\ \A c \in DOMAIN ms2 : c # e => mp2[c] = mp[c]
    BY DEF OneBlock
  <1> USE <1>0
  <1> DEFINE size == e - b
  <1>1. n \in Nat /\ b \in Nat /\ e \in Nat /\ size >= 24 /\ size \in Nat /\ e = b + size
    <2>1. n \in Nat /\ b \in Nat /\ e \in Nat BY DEF Tiled
    <2>2. b + 24 <= e BY Gap
    <2> QED BY <2>1, <2>2
  <1>2. PICK k \in 1..n : FirstBlock(k) <= b /\ e <= ChunkEnd(k)
    BY DEF InChunk
  <1>3. k \in Nat /\ FirstBlock(k) \in Nat /\ ChunkEnd(k) = FirstBlock(k) + ChunkBytes /\ ChunkBytes \in Nat
    <2>1. k \in Nat BY <1>1
    <2> QED BY <2>1, ChunkPlace
  <1>4. size <= ChunkBytes
    BY <1>1, <1>2, <1>3
  <1>5. ms2[b] \in Tags /\ ms2[b].size = size /\ ms2[b].order = block_order(size)
        /\ ms2[b].free \in BOOLEAN
    <2>1. block_order(size) \in 0..k_max_order
      BY <1>1, <1>4, OrderBound
    <2>2. block_order(size) \in Nat
      BY <2>1, OrdersAssumption
    <2> QED BY <2>2, <1>1 DEF Tag, Tags
  <1>6. ASSUME NEW c \in Nat, b <= c, c <= e, NEW i \in 1..n, FirstBlock(i) <= c, c <= ChunkEnd(i)
        PROVE  i = k
    <2>1. FirstBlock(k) <= c /\ c <= ChunkEnd(k)
      BY <1>1, <1>2, <1>3, <1>6
    <2> QED BY <2>1, <1>1, <1>6, ChunkOf
  <1>7. ASSUME NEW i \in 1..n
        PROVE  /\ FirstBlock(i) \in DOMAIN ms2 /\ ChunkEnd(i) \in DOMAIN ms2
               /\ b # ChunkEnd(i)
    <2>1. FirstBlock(i) \in DOMAIN ms /\ ChunkEnd(i) \in DOMAIN ms
      BY DEF Tiled
    <2>2. FirstBlock(i) \in Nat /\ ChunkEnd(i) \in Nat /\ FirstBlock(i) <= ChunkEnd(i)
      <3>1. i \in Nat BY <1>1
      <3> QED BY <3>1, ChunkPlace
    <2>3. ~(b < FirstBlock(i) /\ FirstBlock(i) < e)
      <3>1. SUFFICES ASSUME b < FirstBlock(i), FirstBlock(i) < e PROVE FALSE OBVIOUS
      <3>2. i = k BY <3>1, <2>2, <1>1, <1>6
      <3> QED BY <3>1, <3>2, <1>1, <1>2, <1>3
    <2>4. ~(b <= ChunkEnd(i) /\ ChunkEnd(i) < e)
      <3>1. SUFFICES ASSUME b <= ChunkEnd(i), ChunkEnd(i) < e PROVE FALSE OBVIOUS
      <3>2. i = k BY <3>1, <2>2, <1>1, <1>6
      <3> QED BY <3>1, <3>2, <2>2, <1>1, <1>2
    <2> QED BY <2>1, <2>2, <2>3, <2>4, <1>1
  <1>8. b \in DOMAIN ms2 /\ e \in DOMAIN ms2 /\ b # e /\ DOMAIN ms2 \subseteq DOMAIN ms
    BY <1>1
  <1>9. Whole(ms2, mp2, b)
    <2>1. b + size = e
      BY <1>1
    <2>2. ASSUME NEW c \in DOMAIN ms2 PROVE c <= b \/ e <= c
      OBVIOUS
    <2> QED BY <1>1, <1>5, <1>8, <2>1, <2>2 DEF Whole, BlockSize
  <1>10. ASSUME NEW c \in DOMAIN ms2, c # b, ms2[c].size > 0
         PROVE  Whole(ms2, mp2, c)
    <2>1. c \in DOMAIN ms /\ ms2[c] = ms[c] /\ c \in Nat
      BY <1>8, <1>10 DEF Tiled
    <2>2. Whole(ms, mp, c) /\ ms[c].size \in Nat /\ ms[c].size >= 24
      BY <1>10, <2>1 DEF Tiled, Tags, Whole, BlockSize
    <2> DEFINE d == c + ms[c].size
    <2>3. d \in DOMAIN ms /\ mp[d] = ms[c] /\ d \in Nat /\ \A x \in DOMAIN ms : x <= c \/ d <= x
      BY <2>1, <2>2 DEF Whole
    <2>4. d <= b \/ e < d
      BY <1>1, <1>8, <1>10, <2>1, <2>2, <2>3
    <2>5. d \in DOMAIN ms2 /\ d # e
      BY <1>1, <2>3, <2>4
    <2>6. mp2[d] = ms2[c]
      BY <2>1, <2>3, <2>5
    <2> QED BY <1>8, <2>1, <2>2, <2>3, <2>5, <2>6 DEF Whole
  <1>11. ASSUME NEW c \in DOMAIN ms2, mp2[c].size > 0
         PROVE  /\ c - mp2[c].size \in DOMAIN ms2
                /\ ms2[c - mp2[c].size] = mp2[c]
    <2>1. CASE c = e
      <3>1. c - mp2[c].size = b BY <1>1, <1>5, <2>1
      <3> QED BY <1>8, <2>1, <3>1
    <2>2. CASE c # e
      <3>1. c \in DOMAIN ms /\ mp2[c] = mp[c] /\ c \in Nat /\ mp[c].size \in Nat
        BY <1>8, <2>2 DEF Tiled, Tags
      <3> DEFINE p == c - mp[c].size
      <3>2. p \in DOMAIN ms /\ ms[p] = mp[c] /\ ms[p].size > 0 /\ p \in Nat
        BY <3>1, <1>11 DEF Tiled
      <3>3. Whole(ms, mp, p) /\ p + ms[p].size = c
        BY <3>1, <3>2 DEF Tiled
      <3>4. \A x \in DOMAIN ms : x <= p \/ c <= x
        BY <3>3 DEF Whole
      <3>5. p < c
        BY <3>1, <3>2
      <3>6. p < b \/ e <= p
        BY <1>1, <1>8, <2>2, <3>1, <3>2, <3>4, <3>5
      <3>7. p \in DOMAIN ms2 /\ p # b
        BY <1>1, <3>2, <3>6
      <3> QED BY <3>1, <3>2, <3>7
    <2> QED BY <2>1, <2>2
  <1>12. ASSUME NEW c \in DOMAIN ms2
         PROVE  /\ ms2[c] \in Tags /\ mp2[c] \in Tags
                /\ ms2[c].size = 0 <=> \E i \in 1..n : c = ChunkEnd(i)
                /\ ms2[c].free => ms2[c].size > 0 /\ ~mp2[c].free
                /\ mp2[c].free => mp2[c].size > 0
    <2>1. c \in DOMAIN ms /\ ms[c] \in Tags /\ mp[c] \in Tags
      BY <1>8 DEF Tiled
    <2>2. CASE c = b
      <3>1. mp2[c] = mp[c] BY <1>8, <2>2
      <3> QED BY <2>1, <2>2, <3>1, <1>1, <1>5, <1>7 DEF Tiled
    <2>3. CASE c = e
      <3>1. ms2[c] = ms[c] BY <1>8, <2>3
      <3> QED BY <2>1, <2>3, <3>1, <1>1, <1>5, <1>8 DEF Tiled
    <2>4. CASE c # b /\ c # e
      <3>1. ms2[c] = ms[c] /\ mp2[c] = mp[c] BY <2>4
      <3> QED BY <2>1, <3>1 DEF Tiled
    <2> QED BY <2>2, <2>3, <2>4
  <1>13. \A c \in DOMAIN ms2 : c \in Nat /\ (c + 8) % Grain = 0 /\ InChunk(c, c, n)
    BY <1>8 DEF Tiled
  <1> QED BY <1>1, <1>7, <1>9, <1>10, <1>11, <1>12, <1>13 DEF Tiled

\* The block from b to e is cut at m.
CutAt(ms, mp, b, m, e, ms2, mp2) ==
    /\ b \in DOMAIN ms /\ ms[b].size > 0 /\ e = b + ms[b].size /\ ~mp[b].free
    /\ m \in Nat /\ (m + 8) % Grain = 0 /\ b + 24 <= m /\ m + 24 <= e
    /\ DOMAIN ms2 = DOMAIN ms \cup {m} /\ DOMAIN mp2 = DOMAIN ms2
    /\ ms2[b] = Tag(m - b, block_order(m - b), TRUE) /\ mp2[m] = ms2[b]
    /\ ms2[m] = Tag(e - m, block_order(e - m), FALSE) /\ mp2[e] = ms2[m]
    /\ \A c \in DOMAIN ms : c # b => ms2[c] = ms[c]
    /\ \A c \in DOMAIN ms : c # e => mp2[c] = mp[c]

\* When a block is cut in two, the chunks stay tiled.
LEMMA Cut ==
    ASSUME NEW ms, NEW mp, NEW n, Tiled(ms, mp, n), NEW b, NEW m, NEW e,
           NEW ms2, NEW mp2, CutAt(ms, mp, b, m, e, ms2, mp2)
    PROVE  Tiled(ms2, mp2, n)
  <1> USE DEF CutAt
  <1>1. n \in Nat /\ b \in Nat /\ e \in Nat /\ ms[b].size \in Nat /\ Whole(ms, mp, b)
    BY DEF Tiled, Tags
  <1>2. e \in DOMAIN ms /\ \A c \in DOMAIN ms : c <= b \/ e <= c
    BY <1>1 DEF Whole
  <1>3. PICK k \in 1..n : FirstBlock(k) <= b /\ e <= ChunkEnd(k)
    BY BlockInChunk DEF InChunk
  <1>4. k \in Nat /\ FirstBlock(k) \in Nat /\ ChunkEnd(k) = FirstBlock(k) + ChunkBytes /\ ChunkBytes \in Nat
    <2>1. n \in Nat BY <1>1
    <2>2. k \in Nat BY <2>1
    <2> QED BY <2>2, ChunkPlace
  <1>5. b < m /\ m < e /\ e - b <= ChunkBytes /\ m \notin DOMAIN ms
    BY <1>1, <1>2, <1>3, <1>4
  <1>6. \A s \in Nat : s >= 24 /\ s <= ChunkBytes => block_order(s) \in Nat
    <2>1. \A s \in Nat : s >= 8 /\ s <= ChunkBytes => block_order(s) \in 0..k_max_order BY OrderBound
    <2> QED BY <2>1, OrdersAssumption
  <1>7. /\ ms2[b] \in Tags /\ ms2[b].size = m - b /\ ms2[b].order = block_order(m - b) /\ ms2[b].free
        /\ m - b >= 24 /\ m - b \in Nat /\ ms2[b].size > 0 /\ ms2[b].size # 0
    <2>1. m - b \in Nat /\ m - b >= 24 /\ m - b <= ChunkBytes BY <1>1, <1>4, <1>5
    <2> QED BY <2>1, <1>6 DEF Tag, Tags
  <1>8. /\ ms2[m] \in Tags /\ ms2[m].size = e - m /\ ms2[m].order = block_order(e - m) /\ ~ms2[m].free
        /\ e - m >= 24 /\ e - m \in Nat /\ ms2[m].size > 0 /\ ms2[m].size # 0
    <2>1. e - m \in Nat /\ e - m >= 24 /\ e - m <= ChunkBytes BY <1>1, <1>4, <1>5
    <2>2. ms2[m] = Tag(e - m, block_order(e - m), FALSE) OBVIOUS
    <2> QED BY <2>1, <2>2, <1>6 DEF Tag, Tags
  <1>9. Whole(ms2, mp2, b)
    <2>1. b + (m - b) = m BY <1>1
    <2>2. \A c \in DOMAIN ms2 : c <= b \/ m <= c BY <1>1, <1>2, <1>5 DEF Tiled
    <2> QED BY <2>1, <2>2, <1>7, Zenon DEF Whole, BlockSize
  <1>10. Whole(ms2, mp2, m)
    <2>1. m + (e - m) = e BY <1>1
    <2>2. \A c \in DOMAIN ms2 : c <= m \/ e <= c BY <1>1, <1>2, <1>5 DEF Tiled
    <2>3. mp2[e] = ms2[m] OBVIOUS
    <2> QED BY <2>1, <2>2, <2>3, <1>2, <1>8, Zenon DEF Whole, BlockSize
  <1>a. m - (m - b) = b /\ e - (e - m) = m /\ m # b /\ e # m /\ e # b
    <2>1. b \in Nat /\ m \in Nat /\ e \in Nat BY <1>1
    <2>2. b < m /\ m < e BY <1>5
    <2>3. b # m /\ m # e /\ b # e 
      <3>1. b < e BY <2>1, <2>2, Transitive, Zenon
      <3> QED BY <2>1, <2>2, <3>1, Ascending, Zenon
    <2>4. m - (m - b) = b /\ e - (e - m) = m BY <2>1, DistanceBack, Zenon
    <2> QED BY <2>3, <2>4
  <1>b. mp2[m] = ms2[b] /\ m - mp2[m].size = b /\ mp2[m].free
    BY <1>7, <1>a, Zenon
  <1>c. mp2[e] = ms2[m] /\ ~mp2[e].free
    BY <1>8, Zenon
  <1>d. e - mp2[e].size = m
    BY <1>8, <1>a, <1>c, Zenon
  <1>e. mp2[b] = mp[b] /\ ms2[e] = ms[e]
    BY <1>2, <1>a
  <1>11. ASSUME NEW c \in DOMAIN ms, c # b, ms[c].size > 0
         PROVE  Whole(ms2, mp2, c)
    <2>1. Whole(ms, mp, c) /\ ms[c].size \in Nat /\ c \in Nat /\ ms2[c] = ms[c] /\ ms[c].size >= 24
      BY <1>11 DEF Tiled, Tags, Whole, BlockSize
    <2> DEFINE d == c + ms[c].size
    <2>2. d \in DOMAIN ms /\ mp[d] = ms[c] /\ d \in Nat /\ \A x \in DOMAIN ms : x <= c \/ d <= x
      BY <2>1 DEF Whole
    <2>3. d # e /\ (m <= c \/ d <= m)
      <3>1. b <= c \/ d <= b BY <2>2
      <3>2. c <= b \/ e <= c BY <1>2
      <3> QED BY <3>1, <3>2, <1>1, <1>5, <1>11, <2>1, <2>2
    <2>4. mp2[d] = ms2[c] BY <2>1, <2>2, <2>3
    <2> QED BY <2>1, <2>2, <2>3, <2>4 DEF Whole
  <1>12. ASSUME NEW c \in DOMAIN ms2, mp2[c].size > 0
         PROVE  /\ c - mp2[c].size \in DOMAIN ms2
                /\ ms2[c - mp2[c].size] = mp2[c]
    <2>1. CASE c = m
      <3>1. c - mp2[c].size = b BY <2>1, <1>b, Zenon
      <3> QED BY <3>1, <2>1, <1>b, Zenon
    <2>2. CASE c = e
      <3>1. mp2[c] = ms2[m] BY <2>2, <1>c, Zenon
      <3>2. c - mp2[c].size = m BY <2>2, <1>d, Zenon
      <3> QED BY <3>1, <3>2, Zenon
    <2>3. CASE c # m /\ c # e
      <3>1. c \in DOMAIN ms /\ mp2[c] = mp[c] /\ c \in Nat /\ mp[c].size \in Nat
        BY <2>3 DEF Tiled, Tags
      <3> DEFINE p == c - mp[c].size
      <3>2. p \in DOMAIN ms /\ ms[p] = mp[c] /\ p + ms[p].size = c
        BY <3>1, <1>12 DEF Tiled
      <3>3. p # b
        BY <3>2, <2>3
      <3> QED BY <3>1, <3>2, <3>3
    <2> QED BY <2>1, <2>2, <2>3
  <1>13. ASSUME NEW c \in DOMAIN ms2
         PROVE  /\ ms2[c] \in Tags /\ mp2[c] \in Tags
                /\ ms2[c].size = 0 <=> \E i \in 1..n : c = ChunkEnd(i)
                /\ ms2[c].free => ms2[c].size > 0 /\ ~mp2[c].free
                /\ mp2[c].free => mp2[c].size > 0
    <2>1. CASE c = m
      <3>1. ASSUME NEW i \in 1..n, m = ChunkEnd(i) PROVE FALSE
        <4>1. ChunkEnd(i) \in DOMAIN ms BY DEF Tiled
        <4> QED BY <4>1, <3>1, <1>5
      <3>2. ms2[m].size > 0 /\ ms2[m].size # 0 /\ ms2[b].size > 0 BY <1>7, <1>8, Zenon
      <3>3. /\ ms2[m] \in Tags /\ mp2[m] \in Tags
            /\ ms2[m].size = 0 <=> \E i \in 1..n : m = ChunkEnd(i)
            /\ ms2[m].free => ms2[m].size > 0 /\ ~mp2[m].free
            /\ mp2[m].free => mp2[m].size > 0
        BY <3>1, <3>2, <1>7, <1>8, <1>b, Zenon
      <3> QED BY <2>1, <3>3, Zenon
    <2>2. CASE c = b
      <3>1. ~\E i \in 1..n : b = ChunkEnd(i) BY <1>1 DEF Tiled
      <3>2. mp[b] \in Tags /\ (mp[b].free => mp[b].size > 0) BY DEF Tiled
      <3>3. ms2[b].size > 0 /\ ms2[b].size # 0 BY <1>7, Zenon
      <3> QED BY <2>2, <3>1, <3>2, <3>3, <1>7, <1>e, Zenon
    <2>3. CASE c = e
      <3>1. /\ ms[e] \in Tags /\ (ms[e].free => ms[e].size > 0)
            /\ ms[e].size = 0 <=> \E i \in 1..n : e = ChunkEnd(i)
        BY <1>2 DEF Tiled
      <3> QED BY <2>3, <3>1, <1>8, <1>c, <1>e, Zenon
    <2>4. CASE c # m /\ c # b /\ c # e
      <3>1. mp2[c] = mp[c] /\ ms2[c] = ms[c] /\ c \in DOMAIN ms BY <2>4
      <3> QED BY <3>1 DEF Tiled
    <2> QED BY <2>1, <2>2, <2>3, <2>4
  <1>14. ASSUME NEW c \in DOMAIN ms2
         PROVE  c \in Nat /\ (c + 8) % Grain = 0 /\ InChunk(c, c, n)
    <2>1. CASE c \in DOMAIN ms BY <2>1 DEF Tiled
    <2>2. CASE c = m
      <3>1. FirstBlock(k) <= m /\ m <= ChunkEnd(k) BY <1>1, <1>3, <1>4, <1>5
      <3> QED BY <2>2, <3>1 DEF InChunk
    <2> QED BY <2>1, <2>2
  <1>15. ASSUME NEW c \in DOMAIN ms2, ms2[c].size > 0 PROVE Whole(ms2, mp2, c)
    <2>1. c = b \/ c = m \/ (c \in DOMAIN ms /\ c # b /\ ms2[c] = ms[c]) OBVIOUS
    <2> QED BY <2>1, <1>9, <1>10, <1>11, <1>15
  <1>16. \A i \in 1..n : FirstBlock(i) \in DOMAIN ms2 /\ ChunkEnd(i) \in DOMAIN ms2
    BY DEF Tiled
  <1> QED BY <1>1, <1>5, <1>12, <1>13, <1>14, <1>15, <1>16 DEF Tiled

\* Everything so far lies below a new chunk.
LEMMA NewChunk ==
    ASSUME NEW ms, NEW mp, NEW n, Tiled(ms, mp, n)
    PROVE  /\ \A c \in DOMAIN ms : c \in Nat /\ c + 96 <= FirstBlock(n + 1)
           /\ FirstBlock(n + 1) \notin DOMAIN ms /\ ChunkEnd(n + 1) \notin DOMAIN ms
  <1> DEFINE f == FirstBlock(n + 1)
  <1>1. n \in Nat /\ n + 1 \in Nat /\ ChunkBytes \in Nat
    BY ChunkSize DEF Tiled
  <1>2. f \in Nat /\ ChunkEnd(n + 1) = f + ChunkBytes
    BY <1>1, ChunkFacts
  <1>3. \A i \in 1..n : i \in Nat /\ ChunkEnd(i) + 96 <= f /\ ChunkEnd(i) \in Nat
    <2>1. \A i \in 1..n : i \in Nat /\ i < n + 1 BY <1>1
    <2>2. \A i \in 1..n : ChunkEnd(i) + 96 <= f BY <2>1, <1>1, ChunkFacts
    <2>3. \A i \in 1..n : ChunkEnd(i) = FirstBlock(i) + ChunkBytes /\ FirstBlock(i) \in Nat BY <2>1, ChunkFacts
    <2> QED BY <1>1, <2>1, <2>2, <2>3
  <1>4. \A c \in DOMAIN ms : c \in Nat /\ c + 96 <= f
    <2>1. \A c \in DOMAIN ms : c \in Nat /\ \E i \in 1..n : c <= ChunkEnd(i) BY DEF Tiled, InChunk
    <2> QED BY <1>2, <1>3, <2>1
  <1> QED BY <1>1, <1>2, <1>4

\* A new chunk lies behind the others and is one free block.
OneChunkMore(ms, mp, f, e, ms2, mp2) ==
    /\ DOMAIN ms2 = DOMAIN ms \cup {f, e} /\ DOMAIN mp2 = DOMAIN ms2
    /\ ms2[f] = Tag(ChunkBytes, k_max_order, TRUE) /\ mp2[e] = Tag(ChunkBytes, k_max_order, TRUE)
    /\ ms2[e] = NoBlock /\ mp2[f] = NoBlock
    /\ \A c \in DOMAIN ms : ms2[c] = ms[c] /\ mp2[c] = mp[c]

\* With a new chunk behind the others, the chunks stay tiled.
LEMMA MoreChunks ==
    ASSUME NEW ms, NEW mp, NEW n, Tiled(ms, mp, n), NEW ms2, NEW mp2,
           OneChunkMore(ms, mp, FirstBlock(n + 1), ChunkEnd(n + 1), ms2, mp2)
    PROVE  Tiled(ms2, mp2, n + 1)
  <1> DEFINE f == FirstBlock(n + 1)
             e == ChunkEnd(n + 1)
  <1> USE DEF OneChunkMore
  <1>1. n \in Nat /\ n + 1 \in Nat /\ ChunkBytes \in Nat /\ ChunkBytes >= 32 /\ ChunkBytes % 16 = 0
    BY ChunkSize DEF Tiled
  <1>2. f \in Nat /\ f > 0 /\ e = f + ChunkBytes /\ (f + 8) % Grain = 0
    BY <1>1, ChunkFacts
  <1>3. e \in Nat /\ (e + 8) % Grain = 0
    BY <1>1, <1>2, GrainFacts
  <1>4. \A i \in 1..n : i \in Nat /\ i \in 1..(n + 1) /\ ChunkEnd(i) + 96 <= f /\ ChunkEnd(i) \in Nat
    <2>1. \A i \in 1..n : i \in Nat /\ i < n + 1 /\ i \in 1..(n + 1) BY <1>1
    <2>2. \A i \in 1..n : ChunkEnd(i) + 96 <= f BY <2>1, <1>1, ChunkFacts
    <2>3. \A i \in 1..n : ChunkEnd(i) = FirstBlock(i) + ChunkBytes /\ FirstBlock(i) \in Nat BY <2>1, ChunkFacts
    <2> QED BY <1>1, <2>1, <2>2, <2>3
  <1>5. \A c \in DOMAIN ms : c \in Nat /\ c + 96 <= f
    BY NewChunk
  <1>6. n + 1 \in 1..(n + 1) /\ \A i \in 1..(n + 1) : i \in 1..n \/ i = n + 1
    BY <1>1
  <1>7. f \notin DOMAIN ms /\ e \notin DOMAIN ms /\ f # e /\ f < e
    BY <1>1, <1>2, <1>3, <1>5
  <1>8. Tag(ChunkBytes, k_max_order, TRUE) \in Tags /\ NoBlock \in Tags /\ NoBlock.size = 0 /\ ~NoBlock.free
    BY <1>1, OrdersAssumption DEF Tag, NoBlock, Tags
  <1>9. ms2[f].size = ChunkBytes /\ ms2[f].order = k_max_order /\ ms2[f].free /\ mp2[e].size = ChunkBytes /\ mp2[e].free
    BY DEF Tag
  <1>10. ms2[e].size = 0 /\ ~ms2[e].free /\ mp2[f].size = 0 /\ ~mp2[f].free
    BY <1>8
  <1> HIDE DEF f, e
  <1>11. DOMAIN ms2 = DOMAIN ms \cup {f, e} /\ ms2[f] = mp2[e]
    BY DEF f, e
  <1>12. Whole(ms2, mp2, f)
    <2>1. f + ms2[f].size = e
      BY <1>2, <1>9
    <2>2. \A c \in DOMAIN ms2 : c <= f \/ e <= c
      BY <1>2, <1>3, <1>5, <1>11
    <2> QED BY <1>1, <1>9, <1>11, <2>1, <2>2, ChunkOrder DEF Whole, BlockSize
  <1>13. ASSUME NEW c \in DOMAIN ms, ms[c].size > 0 PROVE Whole(ms2, mp2, c)
    <2>1. Whole(ms, mp, c) /\ ms2[c] = ms[c] /\ c \in Nat /\ ms[c].size \in Nat
      BY <1>13 DEF Tiled, Tags
    <2> DEFINE d == c + ms[c].size
    <2>2. d \in DOMAIN ms /\ mp[d] = ms[c] /\ d \in Nat /\ \A x \in DOMAIN ms : x <= c \/ d <= x
      BY <2>1, <1>5 DEF Whole
    <2>3. d <= f /\ d <= e
      BY <1>2, <1>3, <1>5, <1>7, <2>2
    <2> QED BY <2>1, <2>2, <2>3, <1>11 DEF Whole
  <1>14. ASSUME NEW c \in DOMAIN ms
         PROVE  /\ ms2[c] \in Tags /\ mp2[c] \in Tags
                /\ c \in Nat /\ (c + 8) % Grain = 0 /\ InChunk(c, c, n + 1)
                /\ ms2[c].size = 0 <=> \E i \in 1..(n + 1) : c = ChunkEnd(i)
                /\ mp2[c].size > 0 => /\ c - mp2[c].size \in DOMAIN ms2
                                      /\ ms2[c - mp2[c].size] = mp2[c]
                /\ ms2[c].free => ms2[c].size > 0 /\ ~mp2[c].free
                /\ mp2[c].free => mp2[c].size > 0
    <2>1. ms2[c] = ms[c] /\ mp2[c] = mp[c]
      OBVIOUS
    <2>2. c # e
      BY <1>7
    <2>3. InChunk(c, c, n) => InChunk(c, c, n + 1)
      BY <1>4 DEF InChunk
    <2>4. (\E i \in 1..(n + 1) : c = ChunkEnd(i)) <=> (\E i \in 1..n : c = ChunkEnd(i))
      BY <1>4, <1>6, <2>2 DEF e
    <2>5. ms2[c].size = 0 <=> \E i \in 1..(n + 1) : c = ChunkEnd(i)
      BY <2>1, <2>4 DEF Tiled
    <2>6. mp2[c].size > 0 => /\ c - mp2[c].size \in DOMAIN ms2
                             /\ ms2[c - mp2[c].size] = mp2[c]
      BY <2>1, <1>11 DEF Tiled
    <2>7. /\ ms2[c] \in Tags /\ mp2[c] \in Tags
          /\ c \in Nat /\ (c + 8) % Grain = 0 /\ InChunk(c, c, n)
          /\ ms2[c].free => ms2[c].size > 0 /\ ~mp2[c].free
          /\ mp2[c].free => mp2[c].size > 0
      BY <2>1 DEF Tiled
    <2> QED BY <2>3, <2>5, <2>6, <2>7
  <1>15. /\ ms2[f] \in Tags /\ mp2[f] \in Tags
         /\ f \in Nat /\ (f + 8) % Grain = 0 /\ InChunk(f, f, n + 1)
         /\ ms2[f].size = 0 <=> \E i \in 1..(n + 1) : f = ChunkEnd(i)
         /\ ~(mp2[f].size > 0)
         /\ ms2[f].free => ms2[f].size > 0 /\ ~mp2[f].free
         /\ mp2[f].free => mp2[f].size > 0
    <2>1. InChunk(f, f, n + 1)
      <3>1. FirstBlock(n + 1) <= f /\ f <= ChunkEnd(n + 1) BY <1>2, <1>3, <1>7 DEF f, e
      <3> QED BY <3>1, <1>6 DEF InChunk
    <2>2. ~\E i \in 1..(n + 1) : f = ChunkEnd(i)
      <3>1. ASSUME NEW i \in 1..(n + 1), f = ChunkEnd(i) PROVE FALSE
        <4>1. CASE i = n + 1 BY <4>1, <3>1, <1>7 DEF e
        <4>2. CASE i \in 1..n BY <4>2, <3>1, <1>4, <1>2
        <4> QED BY <4>1, <4>2, <1>6
      <3> QED BY <3>1
    <2>3. ms2[f] \in Tags /\ mp2[f] \in Tags
      BY <1>8 DEF f
    <2>4. ms2[f].size > 0 /\ ms2[f].size # 0
      BY <1>1, <1>9
    <2> QED BY <1>2, <1>9, <1>10, <2>1, <2>2, <2>3, <2>4
  <1>16. /\ ms2[e] \in Tags /\ mp2[e] \in Tags
         /\ e \in Nat /\ (e + 8) % Grain = 0 /\ InChunk(e, e, n + 1)
         /\ ms2[e].size = 0 <=> \E i \in 1..(n + 1) : e = ChunkEnd(i)
         /\ e - mp2[e].size = f
         /\ ms2[e].free => ms2[e].size > 0 /\ ~mp2[e].free
         /\ mp2[e].free => mp2[e].size > 0
    <2>1. InChunk(e, e, n + 1)
      <3>1. FirstBlock(n + 1) <= e /\ e <= ChunkEnd(n + 1) BY <1>2, <1>3, <1>7 DEF f, e
      <3> QED BY <3>1, <1>6 DEF InChunk
    <2>2. \E i \in 1..(n + 1) : e = ChunkEnd(i)
      BY <1>6 DEF e
    <2>3. ms2[e] \in Tags /\ mp2[e] \in Tags
      BY <1>8 DEF e
    <2>4. e - mp2[e].size = f
      BY <1>1, <1>2, <1>9
    <2> QED BY <1>1, <1>3, <1>9, <1>10, <2>1, <2>2, <2>3, <2>4
  <1>17. \A i \in 1..(n + 1) : FirstBlock(i) \in DOMAIN ms2 /\ ChunkEnd(i) \in DOMAIN ms2
    <2>1. \A i \in 1..n : FirstBlock(i) \in DOMAIN ms2 /\ ChunkEnd(i) \in DOMAIN ms2
      BY DEF Tiled
    <2> QED BY <2>1, <1>6, <1>11 DEF f, e
  <1>18. ASSUME NEW c \in DOMAIN ms2
         PROVE  /\ c \in Nat /\ (c + 8) % Grain = 0 /\ InChunk(c, c, n + 1)
                /\ ms2[c] \in Tags /\ mp2[c] \in Tags
                /\ ms2[c].size = 0 <=> \E i \in 1..(n + 1) : c = ChunkEnd(i)
                /\ ms2[c].size > 0 => Whole(ms2, mp2, c)
                /\ mp2[c].size > 0 => /\ c - mp2[c].size \in DOMAIN ms2
                                      /\ ms2[c - mp2[c].size] = mp2[c]
                /\ ms2[c].free => ms2[c].size > 0 /\ ~mp2[c].free
                /\ mp2[c].free => mp2[c].size > 0
    <2>1. CASE c = f
      BY <2>1, <1>15, <1>12
    <2>2. CASE c = e
      <3>1. ~(ms2[e].size > 0) BY <1>10
      <3> QED BY <2>2, <3>1, <1>16, <1>11
    <2>3. CASE c \in DOMAIN ms
      <3>1. ms2[c].size > 0 => Whole(ms2, mp2, c) BY <2>3, <1>13
      <3> QED BY <2>3, <3>1, <1>14
    <2> QED BY <2>1, <2>2, <2>3, <1>11
  <1>19. Tiled(ms2, mp2, n + 1)
    BY <1>1, <1>17, <1>18 DEF Tiled
  <1> QED BY <1>19

-----------------------------------------------------------------------------
(* The lists of free blocks. *)

\* A list holds what is in X, each once.
ListOf(q, X) ==
    /\ q \in Seq(Nat)
    /\ \A i, j \in 1..Len(q) : q[i] = q[j] => i = j
    /\ X = {q[i] : i \in 1..Len(q)}

\* T maps each block that is listed to the order that it is listed under.
Listed(lists, flags, T) ==
    /\ lists = [order \in 0..k_max_order |-> lists[order]]
    /\ \A order \in 0..k_max_order : ListOf(lists[order], {b \in DOMAIN T : T[b] = order})
    /\ flags = {order \in 0..k_max_order : lists[order] # << >>}

\* A list is empty when there is nothing to list; its head is one of the listed.
LEMMA ListEmpty ==
    ASSUME NEW q, NEW X, ListOf(q, X)
    PROVE  /\ q = << >> <=> X = {}
           /\ q # << >> => Head(q) \in X
  <1>1. q \in Seq(Nat) /\ Len(q) \in Nat
    BY DEF ListOf
  <1>2. CASE q = << >>
    <2>1. Len(q) = 0 BY <1>2
    <2> QED BY <1>2, <2>1 DEF ListOf
  <1>3. CASE q # << >>
    <2>1. Len(q) > 0 /\ Head(q) = q[1] BY <1>1, <1>3
    <2>2. 1 \in 1..Len(q) BY <1>1, <2>1
    <2> QED BY <1>3, <2>1, <2>2 DEF ListOf
  <1> QED BY <1>2, <1>3

\* A list with a block in front.
LEMMA ListPush ==
    ASSUME NEW q, NEW X, ListOf(q, X), NEW b \in Nat, b \notin X
    PROVE  ListOf(<<b>> \o q, X \cup {b}) /\ <<b>> \o q # << >>
  <1> DEFINE p == <<b>> \o q
  <1>1. q \in Seq(Nat) /\ Len(q) \in Nat /\ \A i \in 1..Len(q) : q[i] \in X
    BY DEF ListOf
  <1>2. /\ p \in Seq(Nat) /\ Len(p) = Len(q) + 1 /\ p[1] = b
        /\ \A i \in 2..Len(q) + 1 : p[i] = q[i - 1]
    BY <1>1
  <1>3. \A i \in 1..Len(p) : i = 1 \/ (i \in 2..Len(q) + 1 /\ i - 1 \in 1..Len(q) /\ p[i] = q[i - 1])
    BY <1>1, <1>2
  <1>4. \A i \in 1..Len(q) : i + 1 \in 1..Len(p) /\ p[i + 1] = q[i]
    <2>1. \A i \in 1..Len(q) : i + 1 \in 2..Len(q) + 1 /\ i + 1 \in 1..Len(p) /\ (i + 1) - 1 = i
      BY <1>1, <1>2
    <2> QED BY <1>2, <2>1
  <1>5. 1 \in 1..Len(p)
    BY <1>1, <1>2
  <1> HIDE DEF p
  <1>6. ASSUME NEW i \in 1..Len(p), NEW j \in 1..Len(p), p[i] = p[j] PROVE i = j
    <2>1. CASE i = 1 /\ j = 1 BY <2>1
    <2>2. CASE i = 1 /\ j # 1
      <3>1. p[j] = q[j - 1] /\ q[j - 1] \in X BY <1>1, <1>3, <2>2
      <3> QED BY <3>1, <1>2, <1>6, <2>2
    <2>3. CASE i # 1 /\ j = 1
      <3>1. p[i] = q[i - 1] /\ q[i - 1] \in X BY <1>1, <1>3, <2>3
      <3> QED BY <3>1, <1>2, <1>6, <2>3
    <2>4. CASE i # 1 /\ j # 1
      <3>1. i - 1 \in 1..Len(q) /\ j - 1 \in 1..Len(q) /\ q[i - 1] = q[j - 1]
        BY <1>3, <1>6, <2>4
      <3>2. i - 1 = j - 1 BY <3>1 DEF ListOf
      <3>3. i \in Int /\ j \in Int BY <1>6
      <3> QED BY <3>2, <3>3
    <2> QED BY <2>1, <2>2, <2>3, <2>4
  <1>7. X \cup {b} = {p[i] : i \in 1..Len(p)}
    <2>1. \A x \in X : \E i \in 1..Len(p) : x = p[i]
      <3>1. ASSUME NEW x \in X PROVE \E i \in 1..Len(p) : x = p[i]
        <4>1. PICK i \in 1..Len(q) : x = q[i] BY DEF ListOf
        <4> QED BY <4>1, <1>4
      <3> QED BY <3>1
    <2>2. \A i \in 1..Len(p) : p[i] \in X \cup {b}
      BY <1>1, <1>2, <1>3
    <2> QED BY <1>2, <1>5, <2>1, <2>2
  <1>8. p # << >>
    BY <1>1, <1>2
  <1> QED BY <1>2, <1>6, <1>7, <1>8 DEF ListOf, p

\* A list from which a block was unlinked.
LEMMA ListWithout ==
    ASSUME NEW q, NEW X, ListOf(q, X), NEW b \in X
    PROVE  ListOf(Without(q, b), X \ {b})
  <1>1. q \in Seq(Nat) /\ Len(q) \in Nat /\ DOMAIN q = 1..Len(q)
    BY DEF ListOf
  <1>2. \E i \in DOMAIN q : q[i] = b
    BY <1>1 DEF ListOf
  <1>3. PICK k \in 1..Len(q) : q[k] = b /\ k = CHOOSE i \in DOMAIN q : q[i] = b
    BY <1>1, <1>2
  <1> DEFINE p == Without(q, b)
  <1>4. p = SubSeq(q, 1, k - 1) \o SubSeq(q, k + 1, Len(q))
    BY <1>3 DEF Without, RemoveAt
  <1> HIDE DEF p
  <1> DEFINE l == SubSeq(q, 1, k - 1)
             r == SubSeq(q, k + 1, Len(q))
  <1>5. /\ l \in Seq(Nat) /\ Len(l) = k - 1
        /\ \A i \in 1..(k - 1) : l[i] = q[i]
    <2>1. \A i \in 1..(k - 1) : q[i] \in Nat BY <1>1, <1>3
    <2> QED BY <1>1, <1>3, <2>1
  <1>6. /\ r \in Seq(Nat) /\ Len(r) = Len(q) - k
        /\ \A i \in 1..(Len(q) - k) : r[i] = q[k + i]
    <2>1. \A i \in (k + 1)..Len(q) : q[i] \in Nat BY <1>1, <1>3
    <2>2. k + 1 \in Int /\ Len(q) \in Int BY <1>1, <1>3
    <2>3. /\ r \in Seq(Nat)
          /\ Len(r) = IF k + 1 <= Len(q) THEN Len(q) - (k + 1) + 1 ELSE 0
          /\ \A i \in 1..(Len(q) - (k + 1) + 1) : r[i] = q[(k + 1) + i - 1]
      BY <2>1, <2>2, SubSeqProperties DEF r
    <2>4. Len(q) - (k + 1) + 1 = Len(q) - k BY <1>1, <1>3
    <2>5. Len(r) = Len(q) - k
      <3>1. CASE k + 1 <= Len(q) BY <2>3, <2>4, <3>1
      <3>2. CASE ~(k + 1 <= Len(q))
        <4>1. Len(q) - k = 0 BY <3>2, <1>1, <1>3
        <4> QED BY <2>3, <3>2, <4>1
      <3> QED BY <3>1, <3>2
    <2>6. \A i \in 1..(Len(q) - k) : (k + 1) + i - 1 = k + i BY <1>1, <1>3
    <2> QED BY <2>3, <2>4, <2>5, <2>6, Zenon
  <1> HIDE DEF l, r
  <1>7. /\ p \in Seq(Nat) /\ Len(p) = Len(q) - 1
        /\ \A i \in 1..Len(p) : p[i] = IF i < k THEN l[i] ELSE r[i - (k - 1)]
    <2>1. p = l \o r BY <1>4 DEF l, r
    <2>2. /\ p \in Seq(Nat) /\ Len(p) = Len(l) + Len(r)
          /\ \A i \in 1..Len(l) + Len(r) : p[i] = IF i <= Len(l) THEN l[i] ELSE r[i - Len(l)]
      BY <2>1, <1>5, <1>6, ConcatProperties, Zenon
    <2>3. Len(l) + Len(r) = Len(q) - 1
      BY <1>1, <1>3, <1>5, <1>6
    <2>4. ASSUME NEW i \in 1..Len(p) PROVE i <= Len(l) <=> i < k
      <3>1. k \in Int /\ Len(l) = k - 1 BY <1>1, <1>3, <1>5
      <3>2. i \in Int OBVIOUS
      <3> QED BY <3>1, <3>2
    <2>5. \A i \in 1..Len(p) : p[i] = IF i <= Len(l) THEN l[i] ELSE r[i - Len(l)]
      BY <2>2
    <2> QED BY <1>5, <2>2, <2>3, <2>4, <2>5
  <1>8. \A i \in 1..Len(p) : p[i] = IF i < k THEN q[i] ELSE q[i + 1]
    <2>1. ASSUME NEW i \in 1..Len(p) PROVE p[i] = IF i < k THEN q[i] ELSE q[i + 1]
      <3>1. CASE i < k
        <4>1. i \in 1..(k - 1) BY <3>1, <1>1, <1>3, <1>7
        <4> QED BY <4>1, <3>1, <1>5, <1>7
      <3>2. CASE ~(i < k)
        <4>0. /\ i \in Int /\ k \in Int /\ Len(q) \in Int
              /\ k <= Len(q) /\ 1 <= k /\ 1 <= i /\ i <= Len(q) - 1
          BY <1>1, <1>3, <1>7
        <4>1. i - (k - 1) \in 1..(Len(q) - k) /\ k + (i - (k - 1)) = i + 1 BY <3>2, <4>0
        <4> QED BY <4>1, <3>2, <1>6, <1>7
      <3> QED BY <3>1, <3>2
    <2> QED BY <2>1
  <1> DEFINE old(i) == IF i < k THEN i ELSE i + 1
  <1>9. \A i \in 1..Len(p) : old(i) \in 1..Len(q) /\ old(i) # k /\ p[i] = q[old(i)]
    <2>1. ASSUME NEW i \in 1..Len(p) PROVE old(i) \in 1..Len(q) /\ old(i) # k /\ p[i] = q[old(i)]
      <3>1. /\ i \in Int /\ k \in Int /\ Len(q) \in Int
            /\ k <= Len(q) /\ 1 <= k /\ 1 <= i /\ i <= Len(q) - 1
        BY <1>1, <1>3, <1>7
      <3>2. p[i] = IF i < k THEN q[i] ELSE q[i + 1]
        BY <1>8
      <3> QED BY <3>1, <3>2
    <2> QED BY <2>1
  <1>10. ASSUME NEW i \in 1..Len(p), NEW j \in 1..Len(p), p[i] = p[j] PROVE i = j
    <2>1. old(i) = old(j) BY <1>9, <1>10 DEF ListOf
    <2>2. i \in Int /\ j \in Int /\ k \in Int BY <1>1, <1>3, <1>7, <1>10
    <2> QED BY <2>1, <2>2
  <1>11. X \ {b} = {p[i] : i \in 1..Len(p)}
    <2>1. ASSUME NEW i \in 1..Len(p) PROVE p[i] \in X \ {b}
      <3>1. q[old(i)] \in X /\ q[old(i)] # b
        BY <1>3, <1>9 DEF ListOf
      <3> QED BY <3>1, <1>9
    <2>2. ASSUME NEW x \in X \ {b} PROVE \E i \in 1..Len(p) : x = p[i]
      <3>1. PICK j \in 1..Len(q) : x = q[j] BY DEF ListOf
      <3>2. j # k BY <3>1, <1>3
      <3>3. CASE j < k
        <4>1. j \in 1..Len(p) BY <3>3, <1>1, <1>3, <1>7
        <4> QED BY <4>1, <3>1, <3>3, <1>8
      <3>4. CASE ~(j < k)
        <4>1. j - 1 \in 1..Len(p) /\ ~(j - 1 < k) /\ (j - 1) + 1 = j BY <3>2, <3>4, <1>1, <1>3, <1>7
        <4>2. p[j - 1] = q[(j - 1) + 1] BY <4>1, <1>8
        <4> QED BY <4>1, <4>2, <3>1
      <3> QED BY <3>3, <3>4
    <2> QED BY <2>1, <2>2
  <1>12. ListOf(p, X \ {b})
    BY <1>7, <1>10, <1>11 DEF ListOf
  <1> QED BY <1>12 DEF p

-----------------------------------------------------------------------------
(* What the operations of a pool change. *)

IsPool(pool) ==
    pool = [m_size |-> pool.m_size, m_prev_size |-> pool.m_prev_size,
            m_chuncks |-> pool.m_chuncks, unwritten |-> pool.unwritten,
            m_free_flags |-> pool.m_free_flags, m_free |-> pool.m_free]

\* The free blocks, each with its order.
FreeBlocks(ms) == [b \in {c \in DOMAIN ms : ms[c].free} |-> ms[b].order]

\* add_free_block lists one more block and leaves the tags alone.
LEMMA AddFreeBlock ==
    ASSUME NEW pool, IsPool(pool), NEW T, Listed(pool.m_free, pool.m_free_flags, T),
           NEW block \in Nat, block \notin DOMAIN T, NEW order \in 0..k_max_order,
           NEW T2, DOMAIN T2 = DOMAIN T \cup {block}, T2[block] = order,
           \A b \in DOMAIN T : T2[b] = T[b],
           NEW p, p = add_free_block(pool, block, order)
    PROVE  /\ IsPool(p) /\ p.m_size = pool.m_size /\ p.m_prev_size = pool.m_prev_size
           /\ p.m_chuncks = pool.m_chuncks
           /\ Listed(p.m_free, p.m_free_flags, T2)
  <1> DEFINE lists == [pool.m_free EXCEPT ![order] = <<block>> \o @]
             flags == pool.m_free_flags \cup {order}
  <1>1. p = [m_size |-> pool.m_size, m_prev_size |-> pool.m_prev_size,
             m_chuncks |-> pool.m_chuncks, unwritten |-> pool.unwritten, m_free_flags |-> flags, m_free |-> lists]
    BY DEF IsPool, add_free_block
  <1>2. pool.m_free = [o \in 0..k_max_order |-> pool.m_free[o]]
    BY DEF Listed
  <1>3. /\ lists = [o \in 0..k_max_order |-> lists[o]]
        /\ lists[order] = <<block>> \o pool.m_free[order]
        /\ \A o \in 0..k_max_order : o # order => lists[o] = pool.m_free[o]
    BY <1>2
  <1> HIDE DEF lists
  <1> DEFINE X(o) == {b \in DOMAIN T : T[b] = o}
             Y(o) == {b \in DOMAIN T2 : T2[b] = o}
  <1>4. /\ ListOf(lists[order], X(order) \cup {block}) /\ lists[order] # << >>
    <2>1. ListOf(pool.m_free[order], X(order)) BY DEF Listed
    <2>2. block \notin X(order) OBVIOUS
    <2> QED BY <2>1, <2>2, <1>3, ListPush, Zenon
  <1>5. \A o \in 0..k_max_order : Y(o) = IF o = order THEN X(order) \cup {block} ELSE X(o)
    OBVIOUS
  <1>6. \A o \in 0..k_max_order : ListOf(lists[o], Y(o))
    <2>1. ASSUME NEW o \in 0..k_max_order, o # order PROVE ListOf(lists[o], Y(o))
      <3>1. ListOf(pool.m_free[o], X(o)) BY DEF Listed
      <3>2. Y(o) = X(o) BY <2>1, <1>5
      <3> QED BY <3>1, <3>2, <2>1, <1>3
    <2>2. Y(order) = X(order) \cup {block} BY <1>5
    <2> QED BY <2>1, <2>2, <1>4
  <1>7. flags = {o \in 0..k_max_order : lists[o] # << >>}
    BY <1>3, <1>4 DEF Listed
  <1>8. Listed(lists, flags, T2)
    BY <1>3, <1>6, <1>7 DEF Listed
  <1> HIDE DEF flags
  <1> QED BY <1>1, <1>8 DEF IsPool

\* remove_free_block lists one block less and leaves the tags alone.
LEMMA RemoveFreeBlock ==
    ASSUME NEW pool, IsPool(pool), NEW T, Listed(pool.m_free, pool.m_free_flags, T),
           NEW block \in DOMAIN T, NEW order \in 0..k_max_order, T[block] = order,
           NEW T2, DOMAIN T2 = DOMAIN T \ {block},
           \A b \in DOMAIN T2 : T2[b] = T[b],
           NEW p, p = remove_free_block(pool, block, order)
    PROVE  /\ IsPool(p) /\ p.m_size = pool.m_size /\ p.m_prev_size = pool.m_prev_size
           /\ p.m_chuncks = pool.m_chuncks
           /\ Listed(p.m_free, p.m_free_flags, T2)
  <1> DEFINE left == Without(pool.m_free[order], block)
             lists == [pool.m_free EXCEPT ![order] = left]
             flags == IF left = << >> THEN pool.m_free_flags \ {order} ELSE pool.m_free_flags
  <1>1. p = [m_size |-> pool.m_size, m_prev_size |-> pool.m_prev_size,
             m_chuncks |-> pool.m_chuncks, unwritten |-> pool.unwritten, m_free_flags |-> flags, m_free |-> lists]
    BY DEF IsPool, remove_free_block
  <1>2. pool.m_free = [o \in 0..k_max_order |-> pool.m_free[o]]
    BY DEF Listed
  <1> HIDE DEF left
  <1>3. /\ lists = [o \in 0..k_max_order |-> lists[o]]
        /\ lists[order] = left
        /\ \A o \in 0..k_max_order : o # order => lists[o] = pool.m_free[o]
    BY <1>2
  <1> HIDE DEF lists
  <1> DEFINE X(o) == {b \in DOMAIN T : T[b] = o}
             Y(o) == {b \in DOMAIN T2 : T2[b] = o}
  <1>4. ListOf(lists[order], X(order) \ {block}) /\ pool.m_free[order] # << >>
    <2>1. ListOf(pool.m_free[order], X(order)) BY DEF Listed
    <2>2. block \in X(order) OBVIOUS
    <2> HIDE DEF X
    <2> QED BY <2>1, <2>2, <1>3, ListWithout, ListEmpty DEF left
  <1>5. \A o \in 0..k_max_order : Y(o) = IF o = order THEN X(order) \ {block} ELSE X(o)
    OBVIOUS
  <1>6. \A o \in 0..k_max_order : ListOf(lists[o], Y(o))
    <2>1. ASSUME NEW o \in 0..k_max_order, o # order PROVE ListOf(lists[o], Y(o))
      <3>1. ListOf(pool.m_free[o], X(o)) BY DEF Listed
      <3>2. Y(o) = X(o) BY <2>1, <1>5
      <3> QED BY <3>1, <3>2, <2>1, <1>3
    <2>2. Y(order) = X(order) \ {block} BY <1>5
    <2> QED BY <2>1, <2>2, <1>4
  <1>7. flags = {o \in 0..k_max_order : lists[o] # << >>}
    BY <1>3, <1>4 DEF Listed
  <1>8. Listed(lists, flags, T2)
    BY <1>3, <1>6, <1>7 DEF Listed
  <1> HIDE DEF flags
  <1> QED BY <1>1, <1>8 DEF IsPool

\* SetTag writes the two copies of one tag and leaves the lists alone.
LEMMA SetTagEffect ==
    ASSUME NEW pool, IsPool(pool), NEW block, NEW next, NEW tag,
           NEW p, p = SetTag(pool, block, next, tag)
    PROVE  /\ IsPool(p) /\ p.m_free = pool.m_free /\ p.m_free_flags = pool.m_free_flags
           /\ p.m_chuncks = pool.m_chuncks
           /\ DOMAIN p.m_size = DOMAIN pool.m_size \cup {block} /\ p.m_size[block] = tag
           /\ \A b \in DOMAIN pool.m_size : b # block => p.m_size[b] = pool.m_size[b]
           /\ DOMAIN p.m_prev_size = DOMAIN pool.m_prev_size \cup {next} /\ p.m_prev_size[next] = tag
           /\ \A b \in DOMAIN pool.m_prev_size : b # next => p.m_prev_size[b] = pool.m_prev_size[b]
  <1>1. p = [m_size |-> Put(pool.m_size, block, tag),
             m_prev_size |-> Put(pool.m_prev_size, next, tag),
             m_chuncks |-> pool.m_chuncks, unwritten |-> pool.unwritten, m_free_flags |-> pool.m_free_flags,
             m_free |-> pool.m_free]
    BY DEF IsPool, SetTag
  <1> DEFINE ms == pool.m_size
             mp == pool.m_prev_size
  <1>2. /\ DOMAIN Put(ms, block, tag) = DOMAIN ms \cup {block} /\ Put(ms, block, tag)[block] = tag
        /\ \A b \in DOMAIN ms : b # block => Put(ms, block, tag)[b] = ms[b]
    BY DEF Put
  <1>3. /\ DOMAIN Put(mp, next, tag) = DOMAIN mp \cup {next} /\ Put(mp, next, tag)[next] = tag
        /\ \A b \in DOMAIN mp : b # next => Put(mp, next, tag)[b] = mp[b]
    BY DEF Put
  <1> QED BY <1>1, <1>2, <1>3 DEF IsPool

\* Forget drops the words of one block and leaves the lists alone.
LEMMA ForgetEffect ==
    ASSUME NEW pool, IsPool(pool), NEW block, NEW p, p = Forget(pool, block)
    PROVE  /\ IsPool(p) /\ p.m_free = pool.m_free /\ p.m_free_flags = pool.m_free_flags
           /\ p.m_chuncks = pool.m_chuncks
           /\ DOMAIN p.m_size = DOMAIN pool.m_size \ {block}
           /\ \A b \in DOMAIN p.m_size : p.m_size[b] = pool.m_size[b]
           /\ DOMAIN p.m_prev_size = DOMAIN pool.m_prev_size \ {block}
           /\ \A b \in DOMAIN p.m_prev_size : p.m_prev_size[b] = pool.m_prev_size[b]
  <1>1. p = [m_size |-> Restrict(pool.m_size, DOMAIN pool.m_size \ {block}),
             m_prev_size |-> Restrict(pool.m_prev_size, DOMAIN pool.m_prev_size \ {block}),
             m_chuncks |-> pool.m_chuncks, unwritten |-> pool.unwritten, m_free_flags |-> pool.m_free_flags,
             m_free |-> pool.m_free]
    BY DEF IsPool, Forget
  <1> QED BY <1>1 DEF IsPool, Restrict

\* The same without naming what comes out.
Unlist(T, block) == [b \in DOMAIN T \ {block} |-> T[b]]

Unlisted(pool, T, p) ==
    /\ IsPool(p) /\ p.m_size = pool.m_size /\ p.m_prev_size = pool.m_prev_size
    /\ p.m_chuncks = pool.m_chuncks
    /\ Listed(p.m_free, p.m_free_flags, T)

\* remove_free_block again, without naming what comes out.
LEMMA Unlisting ==
    ASSUME NEW pool, IsPool(pool), NEW T, Listed(pool.m_free, pool.m_free_flags, T),
           NEW block, block \in DOMAIN T, T[block] \in 0..k_max_order
    PROVE  Unlisted(pool, Unlist(T, block), remove_free_block(pool, block, T[block]))
  <1>1. PICK p, T2, order : p = remove_free_block(pool, block, order) /\ T2 = Unlist(T, block)
                            /\ order = T[block]
    OBVIOUS
  <1>2. DOMAIN T2 = DOMAIN T \ {block} /\ \A b \in DOMAIN T2 : T2[b] = T[b]
    BY <1>1 DEF Unlist
  <1>3. /\ IsPool(p) /\ p.m_size = pool.m_size /\ p.m_prev_size = pool.m_prev_size
        /\ p.m_chuncks = pool.m_chuncks
        /\ Listed(p.m_free, p.m_free_flags, T2)
    BY <1>1, <1>2, RemoveFreeBlock
  <1> QED BY <1>1, <1>3 DEF Unlisted

Forgotten(pool, block, p) ==
    /\ IsPool(p) /\ p.m_free = pool.m_free /\ p.m_free_flags = pool.m_free_flags
    /\ p.m_chuncks = pool.m_chuncks
    /\ DOMAIN p.m_size = DOMAIN pool.m_size \ {block}
    /\ \A b \in DOMAIN p.m_size : p.m_size[b] = pool.m_size[b]
    /\ DOMAIN p.m_prev_size = DOMAIN pool.m_prev_size \ {block}
    /\ \A b \in DOMAIN p.m_prev_size : p.m_prev_size[b] = pool.m_prev_size[b]

\* The same of Forget.
LEMMA Forgetting ==
    ASSUME NEW pool, IsPool(pool), NEW block
    PROVE  Forgotten(pool, block, Forget(pool, block))
  <1>1. PICK p : p = Forget(pool, block)
    OBVIOUS
  <1> QED BY <1>1, ForgetEffect DEF Forgotten

CanMove(pool, listed, block, next) ==
    /\ IsPool(pool) /\ Listed(pool.m_free, pool.m_free_flags, FreeBlocks(pool.m_size))
    /\ listed \in DOMAIN pool.m_size /\ pool.m_size[listed].free
    /\ pool.m_size[listed].order \in 0..k_max_order
    /\ block \in Nat /\ next \in Nat /\ block_order(next - block) \in 0..k_max_order
    /\ block # listed /\ block \in DOMAIN pool.m_size => ~pool.m_size[block].free

Moved(pool, listed, block, next, p) ==
    /\ IsPool(p) /\ p.m_chuncks = pool.m_chuncks
    /\ Listed(p.m_free, p.m_free_flags, FreeBlocks(p.m_size))
    /\ DOMAIN p.m_size = (DOMAIN pool.m_size \ {listed}) \cup {block}
    /\ p.m_size[block] = Tag(next - block, block_order(next - block), TRUE)
    /\ \A b \in DOMAIN p.m_size : b # block => p.m_size[b] = pool.m_size[b]
    /\ DOMAIN p.m_prev_size = (IF listed = block THEN DOMAIN pool.m_prev_size
                               ELSE DOMAIN pool.m_prev_size \ {listed}) \cup {next}
    /\ p.m_prev_size[next] = p.m_size[block]
    /\ \A b \in DOMAIN p.m_prev_size : b # next => p.m_prev_size[b] = pool.m_prev_size[b]

\* MoveBlock lists the block by its new start and size and writes its tag.
LEMMA MoveBlockEffect ==
    ASSUME NEW pool, NEW listed, NEW block, NEW next, CanMove(pool, listed, block, next)
    PROVE  Moved(pool, listed, block, next, MoveBlock(pool, listed, block, next))
  <1> USE DEF CanMove
  <1>0. PICK p : p = MoveBlock(pool, listed, block, next)
    OBVIOUS
  <1> DEFINE old == pool.m_size[listed].order
             order == block_order(next - block)
             tag == Tag(next - block, order, TRUE)
             T == FreeBlocks(pool.m_size)
             T1 == [b \in DOMAIN T \ {listed} |-> T[b]]
             T2 == FreeBlocks(p.m_size)
             removed == remove_free_block(pool, listed, old)
             moved == IF listed = block THEN removed ELSE Forget(removed, listed)
             base == IF listed = block /\ old = order THEN pool
                     ELSE add_free_block(moved, block, order)
  <1>1. p = SetTag(base, block, next, tag)
    BY <1>0 DEF MoveBlock
  <1>2. listed \in DOMAIN T /\ T[listed] = old
    BY DEF FreeBlocks
  <1>3. tag.free /\ tag.order = order
    BY DEF Tag
  <1> HIDE DEF tag, order
  <1>4. order \in 0..k_max_order
    BY DEF order
  <1>5. /\ IsPool(removed) /\ removed.m_size = pool.m_size /\ removed.m_prev_size = pool.m_prev_size
        /\ removed.m_chuncks = pool.m_chuncks
        /\ Listed(removed.m_free, removed.m_free_flags, T1)
    <2>1. DOMAIN T1 = DOMAIN T \ {listed} /\ \A b \in DOMAIN T1 : T1[b] = T[b]
      OBVIOUS
    <2>2. old \in 0..k_max_order
      OBVIOUS
    <2> HIDE DEF old, T, T1
    <2> QED BY <1>2, <2>1, <2>2, RemoveFreeBlock DEF T
  <1> HIDE DEF removed
  <1>6. /\ IsPool(moved) /\ moved.m_chuncks = pool.m_chuncks
        /\ moved.m_free = removed.m_free /\ moved.m_free_flags = removed.m_free_flags
        /\ DOMAIN moved.m_size = IF listed = block THEN DOMAIN pool.m_size
                                 ELSE DOMAIN pool.m_size \ {listed}
        /\ \A b \in DOMAIN moved.m_size : moved.m_size[b] = pool.m_size[b]
        /\ DOMAIN moved.m_prev_size = IF listed = block THEN DOMAIN pool.m_prev_size
                                      ELSE DOMAIN pool.m_prev_size \ {listed}
        /\ \A b \in DOMAIN moved.m_prev_size : moved.m_prev_size[b] = pool.m_prev_size[b]
    <2>1. CASE listed = block
      <3>1. moved = removed BY <2>1
      <3> HIDE DEF moved
      <3> QED BY <2>1, <3>1, <1>5
    <2>2. CASE listed # block
      <3>1. moved = Forget(removed, listed) BY <2>2
      <3> HIDE DEF moved
      <3> QED BY <2>2, <3>1, <1>5, ForgetEffect
    <2> QED BY <2>1, <2>2
  <1> HIDE DEF moved
  <1>7. DOMAIN T2 = DOMAIN T1 \cup {block} /\ T2[block] = order /\ \A b \in DOMAIN T1 : T2[b] = T1[b]
        /\ block \notin DOMAIN T1
    <2>1. IsPool(base) /\ DOMAIN base.m_size = DOMAIN moved.m_size
          /\ \A b \in DOMAIN base.m_size : base.m_size[b] = pool.m_size[b]
      <3>1. CASE listed = block /\ old = order
        BY <3>1, <1>6
      <3>2. CASE ~(listed = block /\ old = order)
        <4>1. base = [moved EXCEPT !.m_free[order] = <<block>> \o @, !.m_free_flags = @ \cup {order}]
          BY <3>2 DEF add_free_block
        <4>2. base.m_size = moved.m_size /\ IsPool(base)
          BY <4>1, <1>6 DEF IsPool
        <4> QED BY <4>2, <1>6
      <3> QED BY <3>1, <3>2
    <2> HIDE DEF base
    <2>2. /\ DOMAIN p.m_size = DOMAIN base.m_size \cup {block} /\ p.m_size[block] = tag
          /\ \A b \in DOMAIN base.m_size : b # block => p.m_size[b] = base.m_size[b]
      BY <1>1, <2>1, SetTagEffect
    <2>3. DOMAIN p.m_size = (DOMAIN pool.m_size \ {listed}) \cup {block}
      BY <1>6, <2>1, <2>2
    <2>4. \A b \in DOMAIN p.m_size : b # block => p.m_size[b] = pool.m_size[b]
      BY <2>1, <2>2
    <2> QED BY <1>3, <2>2, <2>3, <2>4 DEF FreeBlocks
  <1>8. /\ IsPool(base) /\ base.m_chuncks = pool.m_chuncks
        /\ Listed(base.m_free, base.m_free_flags, T2)
        /\ base.m_size = moved.m_size /\ base.m_prev_size = moved.m_prev_size
    <2>1. CASE listed = block /\ old = order
      <3>1. \A o \in 0..k_max_order : {b \in DOMAIN T : T[b] = o} = {b \in DOMAIN T2 : T2[b] = o}
        <4>1. DOMAIN T = DOMAIN T2 /\ \A b \in DOMAIN T : T[b] = T2[b]
          <5> HIDE DEF T, T2
          <5> QED BY <2>1, <1>2, <1>7
        <4> QED BY <4>1
      <3>2. Listed(pool.m_free, pool.m_free_flags, T2)
        <4> HIDE DEF T2
        <4> QED BY <3>1 DEF Listed
      <3>3. moved = removed /\ base = pool
        BY <2>1 DEF moved
      <3> QED BY <2>1, <3>2, <3>3, <1>5
    <2>2. CASE ~(listed = block /\ old = order)
      <3>1. base = add_free_block(moved, block, order)
        BY <2>2
      <3>2. Listed(moved.m_free, moved.m_free_flags, T1)
        BY <1>5, <1>6
      <3> HIDE DEF T1, T2, base
      <3> QED BY <1>4, <1>6, <1>7, <3>1, <3>2, AddFreeBlock
    <2> QED BY <2>1, <2>2
  <1> HIDE DEF base
  <1>9. /\ IsPool(p) /\ p.m_free = base.m_free /\ p.m_free_flags = base.m_free_flags
        /\ p.m_chuncks = base.m_chuncks
        /\ DOMAIN p.m_size = DOMAIN base.m_size \cup {block} /\ p.m_size[block] = tag
        /\ \A b \in DOMAIN base.m_size : b # block => p.m_size[b] = base.m_size[b]
        /\ DOMAIN p.m_prev_size = DOMAIN base.m_prev_size \cup {next} /\ p.m_prev_size[next] = tag
        /\ \A b \in DOMAIN base.m_prev_size : b # next => p.m_prev_size[b] = base.m_prev_size[b]
    BY <1>1, <1>8, SetTagEffect
  <1>10. Listed(p.m_free, p.m_free_flags, FreeBlocks(p.m_size)) /\ IsPool(p) /\ p.m_chuncks = pool.m_chuncks
    BY <1>8, <1>9
  <1>11. /\ DOMAIN p.m_size = (DOMAIN pool.m_size \ {listed}) \cup {block}
         /\ \A b \in DOMAIN p.m_size : b # block => p.m_size[b] = pool.m_size[b]
    BY <1>6, <1>8, <1>9
  <1>12. p.m_size[block] = Tag(next - block, block_order(next - block), TRUE)
    BY <1>9 DEF tag, order
  <1>13. /\ DOMAIN p.m_prev_size = (IF listed = block THEN DOMAIN pool.m_prev_size
                                      ELSE DOMAIN pool.m_prev_size \ {listed}) \cup {next}
         /\ p.m_prev_size[next] = p.m_size[block]
         /\ \A b \in DOMAIN p.m_prev_size : b # next => p.m_prev_size[b] = pool.m_prev_size[b]
    BY <1>6, <1>8, <1>9
  <1> QED BY <1>0, <1>10, <1>11, <1>12, <1>13 DEF Moved

PoolOK(pool) ==
    /\ IsPool(pool)
    /\ Tiled(pool.m_size, pool.m_prev_size, pool.m_chuncks)
    /\ Listed(pool.m_free, pool.m_free_flags, FreeBlocks(pool.m_size))

\* Where the blocks in use start.
Used(pool) == {b \in DOMAIN pool.m_size : pool.m_size[b].size > 0 /\ ~pool.m_size[b].free}

\* From pool to p the block at cur is given back, the other used blocks are as before.
GivenBack(pool, cur, p) ==
    /\ Used(p) = Used(pool) \ {cur}
    /\ \A b \in Used(p) : p.m_size[b] = pool.m_size[b]

\* From b to e there is the block at cur, and what is free around it.
FreeSpace(pool, cur, b, e) ==
    /\ b \in DOMAIN pool.m_size /\ e \in DOMAIN pool.m_size /\ b <= cur /\ cur < e
    /\ InChunk(b, e, pool.m_chuncks) /\ ~pool.m_prev_size[b].free /\ ~pool.m_size[e].free
    /\ b = cur \/ pool.m_size[b].free
    /\ \A c \in DOMAIN pool.m_size : c <= b \/ e <= c \/ c = cur \/ pool.m_size[c].free

\* From pool to p the space from b to e becomes one free block.
OneFree(pool, b, e, p) ==
    /\ IsPool(p) /\ p.m_chuncks = pool.m_chuncks
    /\ Listed(p.m_free, p.m_free_flags, FreeBlocks(p.m_size))
    /\ DOMAIN p.m_size = {c \in DOMAIN pool.m_size : c <= b \/ e <= c}
    /\ DOMAIN p.m_prev_size = DOMAIN p.m_size
    /\ p.m_size[b] = Tag(e - b, block_order(e - b), TRUE) /\ p.m_prev_size[e] = p.m_size[b]
    /\ \A c \in DOMAIN p.m_size : c # b => p.m_size[c] = pool.m_size[c]
    /\ \A c \in DOMAIN p.m_size : c # e => p.m_prev_size[c] = pool.m_prev_size[c]

\* What one block in use gives back becomes one free block with its free neighbours.
LEMMA Released ==
    ASSUME NEW pool, PoolOK(pool), NEW cur \in Used(pool), NEW b, NEW e,
           FreeSpace(pool, cur, b, e), NEW p, OneFree(pool, b, e, p)
    PROVE  PoolOK(p) /\ GivenBack(pool, cur, p)
  <1> USE DEF FreeSpace, OneFree
  <1> DEFINE ms == pool.m_size
             mp == pool.m_prev_size
             n == pool.m_chuncks
  <1>1. Tiled(ms, mp, n) /\ IsPool(pool)
    BY DEF PoolOK
  <1>2. b \in Nat /\ e \in Nat /\ cur \in Nat /\ cur \in DOMAIN ms /\ b < e
    <2>1. \A c \in DOMAIN ms : c \in Nat BY <1>1 DEF Tiled
    <2> QED BY <2>1 DEF Used
  <1>3. Tiled(p.m_size, p.m_prev_size, n)
    <2> DEFINE ms2 == p.m_size
               mp2 == p.m_prev_size
    <2>1. DOMAIN ms2 = {c \in DOMAIN ms : c <= b \/ e <= c} /\ DOMAIN mp2 = DOMAIN ms2
      OBVIOUS
    <2>2. ms2[b] = Tag(e - b, block_order(e - b), TRUE) /\ mp2[e] = ms2[b]
      OBVIOUS
    <2>3. /\ \A c \in DOMAIN ms2 : c # b => ms2[c] = ms[c]
          /\ \A c \in DOMAIN ms2 : c # e => mp2[c] = mp[c]
      OBVIOUS
    <2>4. ~mp[b].free /\ ~ms[e].free /\ InChunk(b, e, n) /\ b \in DOMAIN ms /\ e \in DOMAIN ms
      OBVIOUS
    <2> HIDE DEF ms, mp, n, ms2, mp2
    <2>5. Tiled(ms2, mp2, n)
      <3>1. /\ ms2[b] = Tag(e - b, block_order(e - b), ms2[b].free)
            /\ ms2[b].free \in BOOLEAN /\ (ms2[b].free => ~mp[b].free /\ ~ms[e].free)
        BY <2>2, <2>4 DEF Tag
      <3>2. OneBlock(ms, mp, n, b, e, ms2, mp2)
        BY <3>1, <1>2, <2>1, <2>2, <2>3, <2>4, Zenon DEF OneBlock
      <3> QED BY <3>2, <1>1, Retag
    <2> QED BY <2>5 DEF ms2, mp2
  <1>4. p.m_size[b].free /\ b \in DOMAIN p.m_size
    BY <1>2 DEF Tag
  <1>5. cur \notin Used(p)
    <2>1. CASE cur = b BY <2>1, <1>4, Zenon DEF Used
    <2>2. CASE cur # b
      <3>1. cur \notin DOMAIN p.m_size BY <2>2, <1>2
      <3> QED BY <3>1 DEF Used
    <2> QED BY <2>1, <2>2
  <1>6. ASSUME NEW c \in Used(p) PROVE c \in Used(pool) \ {cur} /\ p.m_size[c] = ms[c]
    <2>1. c \in DOMAIN p.m_size /\ c # b BY <1>4, Zenon DEF Used
    <2> QED BY <2>1, <1>5 DEF Used
  <1>7. ASSUME NEW c \in Used(pool), c # cur PROVE c \in Used(p)
    <2>1. c \in DOMAIN ms /\ ~ms[c].free /\ c # b /\ c \in DOMAIN p.m_size
      BY <1>7 DEF Used
    <2> QED BY <2>1 DEF Used
  <1>8. GivenBack(pool, cur, p)
    BY <1>5, <1>6, <1>7 DEF GivenBack
  <1> QED BY <1>3, <1>8 DEF PoolOK

\* A tag whose flag changes.
LEMMA TagExcept ==
    ASSUME NEW r, NEW s, NEW o, NEW f, r = Tag(s, o, f), NEW t
    PROVE  [r EXCEPT !.free = t] = Tag(s, o, t)
  BY DEF Tag

\* What is around a block in use.
LEMMA Neighbours ==
    ASSUME NEW ms, NEW mp, NEW n, Tiled(ms, mp, n),
           NEW cur \in DOMAIN ms, ms[cur].size > 0,
           NEW next, next = cur + ms[cur].size
    PROVE  /\ next \in DOMAIN ms /\ cur < next /\ InChunk(cur, next, n)
           /\ \A c \in DOMAIN ms : c <= cur \/ next <= c
           /\ mp[next] = ms[cur] /\ ms[cur] = Tag(next - cur, block_order(next - cur), ms[cur].free)
           /\ block_order(next - cur) \in 0..k_max_order
           /\ next - cur \in Nat
           /\ ms[cur].order \in 0..k_max_order
  <1>1. /\ Whole(ms, mp, cur) /\ cur \in Nat /\ ms[cur] \in Tags
    BY DEF Tiled
  <1>2. next \in DOMAIN ms /\ mp[next] = ms[cur] /\ \A c \in DOMAIN ms : c <= cur \/ next <= c
    BY <1>1 DEF Whole
  <1>3. ms[cur].size \in Nat /\ ms[cur].size >= 24 /\ ms[cur].size <= ChunkBytes /\ InChunk(cur, next, n)
    BY BlockInChunk
  <1>4. next - cur = ms[cur].size /\ cur < next
    BY <1>1, <1>3
  <1>5. block_order(ms[cur].size) \in 0..k_max_order /\ ms[cur].order = block_order(ms[cur].size)
    BY <1>1, <1>3, OrderBound DEF Whole
  <1>6. ms[cur] = Tag(ms[cur].size, ms[cur].order, ms[cur].free)
    BY <1>1 DEF Tags, Tag
  <1> QED BY <1>2, <1>3, <1>4, <1>5, <1>6

\* The block at cur ends at next.
EndsAt(ms, mp, n, cur, next) ==
    /\ next \in DOMAIN ms /\ cur < next /\ InChunk(cur, next, n)
    /\ \A c \in DOMAIN ms : c <= cur \/ next <= c
    /\ ms[cur].order \in 0..k_max_order

\* Neighbours, for a block of which it is known where it ends.
LEMMA BlockEnds ==
    ASSUME NEW ms, NEW mp, NEW n, Tiled(ms, mp, n),
           NEW cur \in DOMAIN ms, ms[cur].size > 0
    PROVE  EndsAt(ms, mp, n, cur, cur + ms[cur].size)
  <1>1. PICK next : next = cur + ms[cur].size
    OBVIOUS
  <1>2. next \in DOMAIN ms /\ cur < next /\ InChunk(cur, next, n)
    BY <1>1, Neighbours
  <1>3. \A c \in DOMAIN ms : c <= cur \/ next <= c
    BY <1>1, Neighbours
  <1>4. ms[cur].order \in 0..k_max_order
    BY <1>1, Neighbours
  <1> QED BY <1>1, <1>2, <1>3, <1>4 DEF EndsAt

\* Two blocks in a row lie in one chunk.
LEMMA Row ==
    ASSUME NEW ms, NEW mp, NEW n, Tiled(ms, mp, n),
           NEW b \in DOMAIN ms, NEW c \in DOMAIN ms, InChunk(b, c, n), b < c, ms[c].size > 0
    PROVE  InChunk(b, c + ms[c].size, n) /\ b < c + ms[c].size
           /\ block_order((c + ms[c].size) - b) \in 0..k_max_order
  <1>1. b \in Nat /\ c \in Nat /\ n \in Nat
    BY DEF Tiled
  <1>2. PICK i \in 1..n : FirstBlock(i) <= b /\ c <= ChunkEnd(i)
    BY DEF InChunk
  <1>3. i \in Nat /\ FirstBlock(i) \in Nat /\ ChunkEnd(i) = FirstBlock(i) + ChunkBytes /\ ChunkBytes \in Nat
    <2>1. i \in Nat BY <1>1
    <2> QED BY <2>1, ChunkPlace
  <1>4. c + ms[c].size <= ChunkEnd(i) /\ ms[c].size \in Nat /\ ms[c].size >= 24
    <2>1. FirstBlock(i) <= c BY <1>1, <1>2, <1>3
    <2> QED BY <1>2, <2>1, BlockInChunk
  <1> DEFINE w == (c + ms[c].size) - b
  <1>5. w \in Nat /\ w >= 8 /\ w <= ChunkBytes /\ b < c + ms[c].size
    BY <1>1, <1>2, <1>3, <1>4
  <1>6. block_order(w) \in 0..k_max_order
    <2> HIDE DEF w
    <2> QED BY <1>5, OrderBound
  <1> QED BY <1>2, <1>4, <1>5, <1>6 DEF InChunk

\* free of a block with no free neighbour.
LEMMA ReleaseAlone ==
    ASSUME NEW pool, PoolOK(pool), NEW cur \in Used(pool),
           ~pool.m_prev_size[cur].free, ~pool.m_size[cur + pool.m_size[cur].size].free,
           NEW p, p = add_free_block(SetTag(pool, cur, cur + pool.m_size[cur].size,
                                            [pool.m_size[cur] EXCEPT !.free = TRUE]),
                                     cur, pool.m_size[cur].order)
    PROVE  PoolOK(p) /\ GivenBack(pool, cur, p)
  <1> DEFINE ms == pool.m_size
             mp == pool.m_prev_size
             n == pool.m_chuncks
             next == cur + ms[cur].size
             order == block_order(next - cur)
             tag == Tag(next - cur, order, TRUE)
             q == SetTag(pool, cur, next, tag)
  <1>1. Tiled(ms, mp, n) /\ IsPool(pool) /\ Listed(pool.m_free, pool.m_free_flags, FreeBlocks(ms))
    BY DEF PoolOK
  <1>2. cur \in DOMAIN ms /\ ms[cur].size > 0 /\ ~ms[cur].free
    BY DEF Used
  <1>3. /\ next \in DOMAIN ms /\ cur < next /\ InChunk(cur, next, n)
        /\ \A c \in DOMAIN ms : c <= cur \/ next <= c
        /\ ms[cur] = Tag(next - cur, order, ms[cur].free)
        /\ order \in 0..k_max_order
    <2> HIDE DEF ms, mp, n, next
    <2>1. next = cur + ms[cur].size BY DEF next
    <2> QED BY <1>1, <1>2, <2>1, Neighbours
  <1>4. [ms[cur] EXCEPT !.free = TRUE] = tag /\ ms[cur].order = order
    <2>1. PICK f : ms[cur] = Tag(next - cur, order, f)
      BY <1>3
    <2> HIDE DEF ms, next, order
    <2> DEFINE t == TRUE
    <2> HIDE DEF t
    <2>2. [ms[cur] EXCEPT !.free = t] = Tag(next - cur, order, t) BY <2>1, TagExcept
    <2>3. ms[cur].order = order BY <2>1 DEF Tag
    <2> QED BY <2>2, <2>3 DEF tag, t
  <1>5. p = add_free_block(q, cur, order)
    BY <1>4
  <1>6. cur \in Nat /\ next \in Nat /\ DOMAIN mp = DOMAIN ms
    BY <1>1, <1>2, <1>3 DEF Tiled
  <1>t. tag.free /\ tag.order = order
    BY DEF Tag
  <1> HIDE DEF next, order, tag, q
  <1>7. /\ IsPool(q) /\ q.m_free = pool.m_free /\ q.m_free_flags = pool.m_free_flags
        /\ q.m_chuncks = pool.m_chuncks
        /\ DOMAIN q.m_size = DOMAIN ms \cup {cur} /\ q.m_size[cur] = tag
        /\ \A b \in DOMAIN ms : b # cur => q.m_size[b] = ms[b]
        /\ DOMAIN q.m_prev_size = DOMAIN mp \cup {next} /\ q.m_prev_size[next] = tag
        /\ \A b \in DOMAIN mp : b # next => q.m_prev_size[b] = mp[b]
    BY <1>1, SetTagEffect DEF q
  <1> DEFINE T == FreeBlocks(ms)
             T2 == FreeBlocks(q.m_size)
  <1>8. /\ DOMAIN T2 = DOMAIN T \cup {cur} /\ T2[cur] = order /\ cur \notin DOMAIN T
        /\ \A b \in DOMAIN T : T2[b] = T[b]
    BY <1>2, <1>7, <1>t DEF FreeBlocks
  <1>9. /\ IsPool(p) /\ p.m_size = q.m_size /\ p.m_prev_size = q.m_prev_size
        /\ p.m_chuncks = q.m_chuncks /\ Listed(p.m_free, p.m_free_flags, T2)
    <2>1. Listed(q.m_free, q.m_free_flags, T) BY <1>1, <1>7
    <2> HIDE DEF T, T2
    <2>2. IsPool(q) /\ cur \in Nat /\ cur \notin DOMAIN T /\ order \in 0..k_max_order
      BY <1>3, <1>6, <1>7, <1>8
    <2>3. DOMAIN T2 = DOMAIN T \cup {cur} /\ T2[cur] = order /\ \A b \in DOMAIN T : T2[b] = T[b]
      BY <1>8
    <2> HIDE DEF ms, mp, n
    <2> QED BY <1>5, <2>1, <2>2, <2>3, AddFreeBlock
  <1>10. DOMAIN p.m_size = {c \in DOMAIN ms : c <= cur \/ next <= c} /\ DOMAIN p.m_prev_size = DOMAIN p.m_size
    BY <1>2, <1>3, <1>6, <1>7, <1>9, Zenon
  <1>11. /\ \A c \in DOMAIN p.m_size : c # cur => p.m_size[c] = ms[c]
         /\ \A c \in DOMAIN p.m_size : c # next => p.m_prev_size[c] = mp[c]
    BY <1>6, <1>7, <1>9, <1>10, Zenon
  <1>12. /\ p.m_size[cur] = Tag(next - cur, block_order(next - cur), TRUE)
         /\ p.m_prev_size[next] = p.m_size[cur]
    BY <1>7, <1>9, Zenon DEF tag, order
  <1>13. ~mp[cur].free /\ ~ms[next].free /\ cur <= cur
    BY <1>6 DEF next
  <1>14. Listed(p.m_free, p.m_free_flags, FreeBlocks(p.m_size)) /\ p.m_chuncks = pool.m_chuncks
    BY <1>7, <1>9
  <1>15. FreeSpace(pool, cur, cur, next)
    BY <1>2, <1>3, <1>13 DEF FreeSpace
  <1>16. OneFree(pool, cur, next, p)
    BY <1>9, <1>10, <1>11, <1>12, <1>14, Zenon DEF OneFree
  <1> QED BY <1>15, <1>16, Released

\* A free block behind a block in use.
LEMMA FreeNext ==
    ASSUME NEW ms, NEW mp, NEW n, Tiled(ms, mp, n), NEW b \in DOMAIN ms,
           NEW next \in DOMAIN ms, b < next, InChunk(b, next, n), ms[next].free,
           NEW nn, nn = next + ms[next].size
    PROVE  /\ nn \in DOMAIN ms /\ next < nn /\ InChunk(b, nn, n) /\ b < nn
           /\ \A c \in DOMAIN ms : c <= next \/ nn <= c
           /\ ~ms[nn].free /\ block_order(nn - b) \in 0..k_max_order
           /\ ms[next].order \in 0..k_max_order
  <1>1. ms[next].size > 0
    BY DEF Tiled
  <1>2. /\ nn \in DOMAIN ms /\ next < nn /\ mp[nn] = ms[next]
        /\ \A c \in DOMAIN ms : c <= next \/ nn <= c
        /\ ms[next].order \in 0..k_max_order
    BY <1>1, Neighbours
  <1>3. InChunk(b, nn, n) /\ b < nn /\ block_order(nn - b) \in 0..k_max_order
    BY <1>1, Row
  <1>4. ~ms[nn].free
    BY <1>2 DEF Tiled
  <1> QED BY <1>2, <1>3, <1>4

\* A free block in front of one.
LEMMA FreePrev ==
    ASSUME NEW ms, NEW mp, NEW n, Tiled(ms, mp, n), NEW cur \in DOMAIN ms,
           mp[cur].free, NEW prev, prev = cur - mp[cur].size
    PROVE  /\ prev \in DOMAIN ms /\ prev < cur /\ InChunk(prev, cur, n)
           /\ \A c \in DOMAIN ms : c <= prev \/ cur <= c
           /\ ms[prev].free /\ ~mp[prev].free /\ ms[prev].order \in 0..k_max_order
  <1>1. prev \in DOMAIN ms /\ ms[prev] = mp[cur] /\ mp[cur].size > 0
    BY DEF Tiled
  <1>2. cur = prev + ms[prev].size
    <2>1. cur \in Nat /\ prev \in Nat /\ mp[cur].size \in Nat
      BY <1>1 DEF Tiled, Tags
    <2> QED BY <2>1, <1>1
  <1>3. /\ prev < cur /\ InChunk(prev, cur, n) /\ \A c \in DOMAIN ms : c <= prev \/ cur <= c
        /\ ms[prev].order \in 0..k_max_order
    <2>1. prev \in DOMAIN ms /\ ms[prev].size > 0 BY <1>1
    <2>2. EndsAt(ms, mp, n, prev, cur) BY <2>1, <1>2, BlockEnds, Zenon
    <2> QED BY <2>2 DEF EndsAt
  <1>4. ms[prev].free /\ ~mp[prev].free
    BY <1>1 DEF Tiled
  <1> QED BY <1>1, <1>3, <1>4

\* free of a block with a free block behind it.
LEMMA ReleaseNext ==
    ASSUME NEW pool, PoolOK(pool), NEW cur \in Used(pool), ~pool.m_prev_size[cur].free,
           NEW next, next = cur + pool.m_size[cur].size, pool.m_size[next].free,
           NEW nn, nn = next + pool.m_size[next].size,
           NEW p, p = MoveBlock(pool, next, cur, nn)
    PROVE  PoolOK(p) /\ GivenBack(pool, cur, p)
  <1> DEFINE ms == pool.m_size
             mp == pool.m_prev_size
             n == pool.m_chuncks
             D == DOMAIN ms
  <1>1. Tiled(ms, mp, n) /\ IsPool(pool) /\ Listed(pool.m_free, pool.m_free_flags, FreeBlocks(ms))
        /\ DOMAIN mp = D
    BY DEF PoolOK, Tiled
  <1>2. cur \in D /\ ms[cur].size > 0 /\ ~ms[cur].free
    BY DEF Used
  <1>3. /\ next = cur + ms[cur].size /\ nn = next + ms[next].size
        /\ ms[next].free /\ ~mp[cur].free
    OBVIOUS
  <1>4. CanMove(pool, next, cur, nn) => Moved(pool, next, cur, nn, p)
    BY MoveBlockEffect
  <1>a. IsPool(pool) => IsPool([pool EXCEPT !.m_size = ms])
    BY DEF IsPool
  <1> HIDE DEF ms, mp, n
  <1>5. /\ next \in D /\ cur < next /\ InChunk(cur, next, n)
        /\ \A c \in D : c <= cur \/ next <= c
    <2>1. EndsAt(ms, mp, n, cur, next) BY <1>1, <1>2, <1>3, BlockEnds, Zenon DEF D
    <2> QED BY <2>1 DEF EndsAt, D
  <1>6. /\ nn \in D /\ next < nn /\ InChunk(cur, nn, n) /\ cur < nn
        /\ \A c \in D : c <= next \/ nn <= c
        /\ ~ms[nn].free /\ block_order(nn - cur) \in 0..k_max_order
        /\ ms[next].order \in 0..k_max_order
    BY <1>1, <1>2, <1>3, <1>5, FreeNext, Zenon
  <1> HIDE DEF D
  <1>7. cur \in Nat /\ next \in Nat /\ nn \in Nat /\ \A c \in D : c \in Nat
    BY <1>1, <1>2, <1>5, <1>6, Zenon DEF Tiled, D
  <1>8. cur < next /\ next < nn /\ cur \in Nat /\ next \in Nat /\ nn \in Nat
    BY <1>5, <1>6, <1>7, Zenon
  <1>9. next # cur /\ nn # next /\ cur <= cur /\ ~(next <= cur) /\ ~(nn <= next)
    <2>1. next # cur /\ ~(next <= cur) BY <1>8, Ascending, Zenon
    <2>2. nn # next /\ ~(nn <= next) BY <1>8, Ascending, Zenon
    <2>3. cur <= cur BY <1>8, Ascending, Zenon
    <2> QED BY <2>1, <2>2, <2>3, <1>8, Zenon
  <1>10. ASSUME NEW c \in D PROVE c <= cur \/ nn <= c \/ c = next
    <2>1. (c <= cur \/ next <= c) /\ (c <= next \/ nn <= c) /\ c \in Nat BY <1>5, <1>6, <1>7, Zenon
    <2>2. next <= c /\ c <= next => c = next BY <2>1, <1>8, Antisymmetric, Zenon
    <2> QED BY <2>1, <2>2, Zenon
  <1>11. Moved(pool, next, cur, nn, p)
    <2>1. CanMove(pool, next, cur, nn)
      BY <1>1, <1>2, <1>3, <1>5, <1>6, <1>8, Zenon DEF CanMove, ms, D
    <2> QED BY <1>4, <2>1, Zenon
  <1>12. {c \in D : c <= cur \/ nn <= c} = (D \ {next}) \cup {cur}
    BY <1>2, <1>9, <1>10
  <1>13. nn \in D \ {next} /\ next # cur /\ cur \in D \ {next}
    BY <1>2, <1>6, <1>9, Zenon
  <1>14. FreeSpace(pool, cur, cur, nn)
    BY <1>2, <1>3, <1>6, <1>9, <1>10, Zenon DEF FreeSpace, ms, mp, n, D
  <1>15. OneFree(pool, cur, nn, p)
    <2>1. /\ IsPool(p) /\ p.m_chuncks = n
          /\ Listed(p.m_free, p.m_free_flags, FreeBlocks(p.m_size))
          /\ DOMAIN p.m_size = (D \ {next}) \cup {cur}
          /\ p.m_size[cur] = Tag(nn - cur, block_order(nn - cur), TRUE)
          /\ p.m_prev_size[nn] = p.m_size[cur]
          /\ \A b \in DOMAIN p.m_size : b # cur => p.m_size[b] = ms[b]
          /\ \A b \in DOMAIN p.m_prev_size : b # nn => p.m_prev_size[b] = mp[b]
      BY <1>11, Zenon DEF Moved, ms, mp, n, D
    <2>2. DOMAIN p.m_prev_size = (D \ {next}) \cup {nn}
      <3>1. DOMAIN p.m_prev_size = (DOMAIN mp \ {next}) \cup {nn}
        BY <1>11, <1>13, Zenon DEF Moved, mp
      <3> QED BY <3>1, <1>1, Zenon
    <2>3. DOMAIN p.m_prev_size = DOMAIN p.m_size
      <3>1. \A E : nn \in E => E \cup {nn} = E OBVIOUS
      <3>2. \A E : cur \in E => E \cup {cur} = E OBVIOUS
      <3>3. (D \ {next}) \cup {nn} = D \ {next} BY <1>13, <3>1, Zenon
      <3>4. (D \ {next}) \cup {cur} = D \ {next} BY <1>13, <3>2, Zenon
      <3>5. DOMAIN p.m_size = (D \ {next}) \cup {cur} BY <2>1, Zenon
      <3> QED BY <2>2, <3>3, <3>4, <3>5, Zenon
    <2> QED BY <2>1, <2>3, <1>12, Zenon DEF OneFree, ms, mp, n, D
  <1> QED BY <1>14, <1>15, Released, Zenon

\* Of the starts only those in E are left.
Kept(pool, q, E) ==
    /\ DOMAIN q.m_size = E /\ DOMAIN q.m_prev_size = E /\ q.m_chuncks = pool.m_chuncks
    /\ \A c \in E : q.m_size[c] = pool.m_size[c]
    /\ \A c \in E : q.m_prev_size[c] = pool.m_prev_size[c]

\* The block at b grows over what was forgotten.
LEMMA InPlace ==
    ASSUME NEW pool, NEW q, NEW E, Kept(pool, q, E), NEW b \in E, NEW e \in E,
           {c \in DOMAIN pool.m_size : c <= b \/ e <= c} = E,
           NEW p, Moved(q, b, b, e, p)
    PROVE  OneFree(pool, b, e, p)
  <1>1. /\ IsPool(p) /\ p.m_chuncks = pool.m_chuncks
        /\ Listed(p.m_free, p.m_free_flags, FreeBlocks(p.m_size))
        /\ p.m_size[b] = Tag(e - b, block_order(e - b), TRUE) /\ p.m_prev_size[e] = p.m_size[b]
    BY DEF Moved, Kept
  <1>2. DOMAIN p.m_size = E /\ DOMAIN p.m_prev_size = E
    BY DEF Moved, Kept
  <1>3. \A c \in E : c # b => p.m_size[c] = pool.m_size[c]
    BY <1>2 DEF Moved, Kept
  <1>4. \A c \in E : c # e => p.m_prev_size[c] = pool.m_prev_size[c]
    BY <1>2 DEF Moved, Kept
  <1> QED BY <1>1, <1>2, <1>3, <1>4 DEF OneFree

\* free of a block with a free block in front of it.
LEMMA ReleasePrev ==
    ASSUME NEW pool, PoolOK(pool), NEW cur \in Used(pool), pool.m_prev_size[cur].free,
           NEW prev, prev = cur - pool.m_prev_size[cur].size,
           NEW next, next = cur + pool.m_size[cur].size, ~pool.m_size[next].free,
           NEW p, p = MoveBlock(Forget(pool, cur), prev, prev, next)
    PROVE  PoolOK(p) /\ GivenBack(pool, cur, p)
  <1> DEFINE ms == pool.m_size
             mp == pool.m_prev_size
             n == pool.m_chuncks
             D == DOMAIN ms
             q == Forget(pool, cur)
  <1>1. Tiled(ms, mp, n) /\ IsPool(pool) /\ Listed(pool.m_free, pool.m_free_flags, FreeBlocks(ms))
        /\ DOMAIN mp = D
    BY DEF PoolOK, Tiled
  <1>2. cur \in D /\ ms[cur].size > 0 /\ ~ms[cur].free
    BY DEF Used
  <1>3. /\ next = cur + ms[cur].size /\ prev = cur - mp[cur].size
        /\ ~ms[next].free /\ mp[cur].free
    OBVIOUS
  <1>4. Forgotten(pool, cur, q)
    BY <1>1, Forgetting
  <1>a. CanMove(q, prev, prev, next) => Moved(q, prev, prev, next, p)
    BY MoveBlockEffect
  <1> HIDE DEF ms, mp, n, q
  <1>5. /\ next \in D /\ cur < next
        /\ \A c \in D : c <= cur \/ next <= c
    BY <1>1, <1>2, <1>3, Neighbours
  <1>6. /\ prev \in D /\ prev < cur /\ InChunk(prev, cur, n)
        /\ \A c \in D : c <= prev \/ cur <= c
        /\ ms[prev].free /\ ~mp[prev].free /\ ms[prev].order \in 0..k_max_order
    BY <1>1, <1>2, <1>3, FreePrev
  <1>7. InChunk(prev, next, n) /\ block_order(next - prev) \in 0..k_max_order
    BY <1>1, <1>2, <1>3, <1>6, Row
  <1> HIDE DEF D
  <1>8. /\ prev < cur /\ cur < next /\ cur \in Nat /\ next \in Nat /\ prev \in Nat
        /\ \A c \in D : c \in Nat
    BY <1>1, <1>2, <1>5, <1>6 DEF Tiled, D
  <1>9. next # cur /\ next # prev /\ prev # cur /\ prev <= cur /\ ~(cur <= prev) /\ ~(next <= cur)
    BY <1>8
  <1>10. ASSUME NEW c \in D PROVE c <= prev \/ next <= c \/ c = cur
    <2>1. (c <= cur \/ next <= c) /\ (c <= prev \/ cur <= c) /\ c \in Nat BY <1>5, <1>6, <1>8
    <2> QED BY <2>1, <1>8
  <1>11. /\ DOMAIN q.m_size = D \ {cur} /\ DOMAIN q.m_prev_size = D \ {cur}
         /\ \A b \in D \ {cur} : q.m_size[b] = ms[b]
         /\ \A b \in D \ {cur} : q.m_prev_size[b] = mp[b]
         /\ IsPool(q) /\ q.m_chuncks = n
    BY <1>1, <1>4 DEF Forgotten, ms, mp, D, n
  <1>12. FreeBlocks(q.m_size) = FreeBlocks(ms)
    <2>1. {c \in DOMAIN q.m_size : q.m_size[c].free} = {c \in D : ms[c].free}
      BY <1>2, <1>11
    <2>2. \A b \in {c \in D : ms[c].free} : q.m_size[b].order = ms[b].order
      BY <1>11, <2>1
    <2> QED BY <2>1, <2>2 DEF FreeBlocks, D
  <1>13. prev \in D \ {cur} /\ next \in D \ {cur}
    BY <1>5, <1>6, <1>9
  <1>14. Moved(q, prev, prev, next, p)
    <2>1. Listed(q.m_free, q.m_free_flags, FreeBlocks(q.m_size))
      BY <1>1, <1>4, <1>12 DEF Forgotten
    <2>2. q.m_size[prev].free /\ q.m_size[prev].order \in 0..k_max_order /\ prev \in DOMAIN q.m_size
      BY <1>6, <1>11, <1>13
    <2>3. CanMove(q, prev, prev, next)
      BY <2>1, <2>2, <1>7, <1>8, <1>11 DEF CanMove
    <2> QED BY <1>a, <2>3
  <1>15. {c \in D : c <= prev \/ next <= c} = D \ {cur}
    BY <1>9, <1>10
  <1>16. FreeSpace(pool, cur, prev, next)
    BY <1>3, <1>5, <1>6, <1>7, <1>9, <1>10 DEF FreeSpace, ms, mp, n, D
  <1>17. OneFree(pool, prev, next, p)
    <2>1. Kept(pool, q, D \ {cur}) BY <1>11 DEF Kept, ms, mp, n
    <2>2. {c \in DOMAIN pool.m_size : c <= prev \/ next <= c} = D \ {cur}
      BY <1>15 DEF D, ms
    <2> QED BY <2>1, <2>2, <1>13, <1>14, InPlace
  <1> QED BY <1>16, <1>17, Released

\* free of a block between two free blocks.
LEMMA ReleaseBoth ==
    ASSUME NEW pool, PoolOK(pool), NEW cur \in Used(pool), pool.m_prev_size[cur].free,
           NEW prev, prev = cur - pool.m_prev_size[cur].size,
           NEW next, next = cur + pool.m_size[cur].size, pool.m_size[next].free,
           NEW nn, nn = next + pool.m_size[next].size,
           NEW r, r = remove_free_block(pool, next, pool.m_size[next].order),
           NEW p, p = MoveBlock(Forget(Forget(r, next), cur), prev, prev, nn)
    PROVE  PoolOK(p) /\ GivenBack(pool, cur, p)
  <1> DEFINE ms == pool.m_size
             mp == pool.m_prev_size
             n == pool.m_chuncks
             D == DOMAIN ms
             alone == Forget(r, next)
             q == Forget(alone, cur)
             T == FreeBlocks(ms)
  <1>1. Tiled(ms, mp, n) /\ IsPool(pool) /\ Listed(pool.m_free, pool.m_free_flags, T)
        /\ DOMAIN mp = D
    BY Zenon DEF PoolOK, Tiled
  <1>2. cur \in D /\ ms[cur].size > 0 /\ ~ms[cur].free
    BY DEF Used
  <1>3. /\ next = cur + ms[cur].size /\ prev = cur - mp[cur].size
        /\ ms[next].free /\ mp[cur].free /\ nn = next + ms[next].size
    OBVIOUS
  <1>a. CanMove(q, prev, prev, nn) => Moved(q, prev, prev, nn, p)
    BY MoveBlockEffect, Zenon
  <1>b. DOMAIN T = {c \in D : ms[c].free} /\ \A b \in DOMAIN T : T[b] = ms[b].order
    BY Zenon DEF FreeBlocks
  <1>c. r = remove_free_block(pool, next, ms[next].order)
    OBVIOUS
  <1> HIDE DEF ms, mp, n, q, alone, T
  <1>4. /\ next \in D /\ cur < next
        /\ \A c \in D : c <= cur \/ next <= c
    BY <1>1, <1>2, <1>3, Neighbours, Zenon
  <1>5. /\ prev \in D /\ prev < cur /\ InChunk(prev, cur, n)
        /\ \A c \in D : c <= prev \/ cur <= c
        /\ ms[prev].free /\ ~mp[prev].free /\ ms[prev].order \in 0..k_max_order
    BY <1>1, <1>2, <1>3, FreePrev, Zenon
  <1>6. InChunk(prev, next, n) /\ prev < next
    BY <1>1, <1>2, <1>3, <1>5, Row, Zenon
  <1>7. /\ nn \in D /\ next < nn /\ InChunk(prev, nn, n) /\ prev < nn
        /\ \A c \in D : c <= next \/ nn <= c
        /\ ~ms[nn].free /\ block_order(nn - prev) \in 0..k_max_order
        /\ ms[next].order \in 0..k_max_order
    BY <1>1, <1>3, <1>4, <1>5, <1>6, FreeNext, Zenon
  <1> HIDE DEF D
  <1>8. /\ prev < cur /\ cur < next /\ next < nn
        /\ cur \in Nat /\ next \in Nat /\ prev \in Nat /\ nn \in Nat /\ \A c \in D : c \in Nat
    BY <1>1, <1>2, <1>4, <1>5, <1>7, Zenon DEF Tiled, D
  <1>9. /\ next # cur /\ next # prev /\ prev # cur /\ nn # cur /\ nn # next /\ nn # prev
        /\ prev <= cur /\ cur < nn
        /\ ~(cur <= prev) /\ ~(nn <= cur) /\ ~(next <= prev) /\ ~(nn <= next)
    <2>1. prev \in Nat /\ cur \in Nat /\ next \in Nat /\ nn \in Nat BY <1>8, Zenon
    <2>2. prev < cur /\ cur < next /\ next < nn BY <1>8, Zenon
    <2>3. prev < next /\ cur < nn BY <2>1, <2>2, Transitive, Zenon
    <2>4. prev < nn BY <2>1, <2>2, <2>3, Transitive, Zenon
    <2>5. prev # cur /\ prev <= cur /\ ~(cur <= prev) BY <2>1, <2>2, Ascending, Zenon
    <2>6. next # cur BY <2>1, <2>2, Ascending, Zenon
    <2>7. prev # next /\ ~(next <= prev) BY <2>1, <2>3, Ascending, Zenon
    <2>8. nn # next /\ ~(nn <= next) BY <2>1, <2>2, Ascending, Zenon
    <2>9. nn # cur /\ ~(nn <= cur) BY <2>1, <2>3, Ascending, Zenon
    <2>10. nn # prev BY <2>1, <2>4, Ascending, Zenon
    <2> QED BY <2>3, <2>5, <2>6, <2>7, <2>8, <2>9, <2>10, Zenon
  <1>10. ASSUME NEW c \in D PROVE c <= prev \/ nn <= c \/ c = cur \/ c = next
    <2>1. /\ c <= cur \/ next <= c
          /\ c <= prev \/ cur <= c
          /\ c <= next \/ nn <= c
          /\ c \in Nat
      BY <1>4, <1>5, <1>7, <1>8, Zenon
    <2>2. cur <= c /\ c <= cur => c = cur BY <2>1, <1>8, Antisymmetric, Zenon
    <2>3. next <= c /\ c <= next => c = next BY <2>1, <1>8, Antisymmetric, Zenon
    <2> QED BY <2>1, <2>2, <2>3, Zenon
  <1>11. Unlisted(pool, Unlist(T, next), r)
    <2>1. next \in DOMAIN T /\ T[next] = ms[next].order BY <1>b, <1>3, <1>4, Zenon
    <2>2. Unlisted(pool, Unlist(T, next), remove_free_block(pool, next, T[next]))
      BY <2>1, <1>1, <1>7, Unlisting, Zenon
    <2> QED BY <2>1, <2>2, <1>c, Zenon
  <1>12. Forgotten(r, next, alone)
    BY <1>11, Forgetting, Zenon DEF Unlisted, alone
  <1>13. Forgotten(alone, cur, q)
    <2>1. IsPool(alone) BY <1>12, Zenon DEF Forgotten
    <2> QED BY <2>1, Forgetting DEF q
  <1>14. /\ DOMAIN q.m_size = D \ {next, cur} /\ DOMAIN q.m_prev_size = D \ {next, cur}
         /\ \A b \in D \ {next, cur} : q.m_size[b] = ms[b]
         /\ \A b \in D \ {next, cur} : q.m_prev_size[b] = mp[b]
         /\ IsPool(q) /\ q.m_chuncks = n /\ q.m_free = r.m_free /\ q.m_free_flags = r.m_free_flags
    <2>1. r.m_size = ms /\ r.m_prev_size = mp /\ r.m_chuncks = n
      BY <1>11, Zenon DEF Unlisted, ms, mp, n
    <2>2. /\ DOMAIN alone.m_size = D \ {next} /\ DOMAIN alone.m_prev_size = D \ {next}
          /\ \A b \in D \ {next} : alone.m_size[b] = ms[b]
          /\ \A b \in D \ {next} : alone.m_prev_size[b] = mp[b]
          /\ alone.m_chuncks = n /\ alone.m_free = r.m_free /\ alone.m_free_flags = r.m_free_flags
      BY <1>1, <1>12, <2>1, Zenon DEF Forgotten, D
    <2> QED BY <1>13, <2>2, Zenon DEF Forgotten
  <1>15. FreeBlocks(q.m_size) = Unlist(T, next)
    <2>1. {c \in DOMAIN q.m_size : q.m_size[c].free} = DOMAIN T \ {next}
      BY <1>2, <1>14, <1>b, Zenon
    <2>2. \A b \in DOMAIN T \ {next} : q.m_size[b].order = T[b]
      <3>1. ASSUME NEW b \in DOMAIN T \ {next} PROVE q.m_size[b].order = T[b]
        <4>1. b \in D \ {next, cur} BY <1>b, <1>2, Zenon
        <4> QED BY <4>1, <1>b, <1>14, Zenon
      <3> QED BY <3>1
    <2> QED BY <2>1, <2>2, Zenon DEF FreeBlocks, Unlist
  <1>16. prev \in D \ {next, cur} /\ nn \in D \ {next, cur}
    BY <1>5, <1>7, <1>9, Zenon
  <1>17. Moved(q, prev, prev, nn, p)
    <2>1. Listed(q.m_free, q.m_free_flags, FreeBlocks(q.m_size))
      BY <1>11, <1>14, <1>15, Zenon DEF Unlisted
    <2>2. q.m_size[prev].free /\ q.m_size[prev].order \in 0..k_max_order /\ prev \in DOMAIN q.m_size
      BY <1>5, <1>14, <1>16, Zenon
    <2>3. CanMove(q, prev, prev, nn)
      BY <2>1, <2>2, <1>7, <1>8, <1>14, Zenon DEF CanMove
    <2> QED BY <1>a, <2>3, Zenon
  <1>18. {c \in D : c <= prev \/ nn <= c} = D \ {next, cur}
    BY <1>9, <1>10, Zenon
  <1>19. FreeSpace(pool, cur, prev, nn)
    BY <1>3, <1>5, <1>7, <1>9, <1>10, Zenon DEF FreeSpace, ms, mp, n, D
  <1>20. OneFree(pool, prev, nn, p)
    <2>1. Kept(pool, q, D \ {next, cur}) BY <1>14, Zenon DEF Kept, ms, mp, n
    <2>2. {c \in DOMAIN pool.m_size : c <= prev \/ nn <= c} = D \ {next, cur}
      BY <1>18, Zenon DEF D, ms
    <2> QED BY <2>1, <2>2, <1>16, <1>17, InPlace, Zenon
  <1> QED BY <1>19, <1>20, Released, Zenon

\* free of a block in use: the pool is as it must be and no other block is touched.
LEMMA FreeEffect ==
    ASSUME NEW pool, PoolOK(pool), NEW cur \in Used(pool), NEW mem, mem = cur + 8
    PROVE  PoolOK(free(pool, mem)) /\ GivenBack(pool, cur, free(pool, mem))
  <1>1. cur \in Nat /\ mem - HeaderSize = cur
    <2>1. cur \in Nat BY DEF PoolOK, Used, Tiled
    <2> QED BY <2>1 DEF HeaderSize
  <1>2. PICK next : next = cur + pool.m_size[cur].size
    OBVIOUS
  <1>3. PICK prev : prev = cur - pool.m_prev_size[cur].size
    OBVIOUS
  <1>4. PICK nn : nn = next + pool.m_size[next].size
    OBVIOUS
  <1>5. PICK r : r = remove_free_block(pool, next, pool.m_size[next].order)
    OBVIOUS
  <1>6. free(pool, mem) =
          CASE pool.m_prev_size[cur].free /\ pool.m_size[next].free ->
                  MoveBlock(Forget(Forget(r, next), cur), prev, prev, nn)
            [] pool.m_prev_size[cur].free /\ ~pool.m_size[next].free ->
                  MoveBlock(Forget(pool, cur), prev, prev, next)
            [] ~pool.m_prev_size[cur].free /\ pool.m_size[next].free ->
                  MoveBlock(pool, next, cur, nn)
            [] OTHER -> add_free_block(SetTag(pool, cur, next, [pool.m_size[cur] EXCEPT !.free = TRUE]),
                                       cur, pool.m_size[cur].order)
    BY <1>1, <1>2, <1>3, <1>4, <1>5, Zenon DEF free
  <1>7. CASE pool.m_prev_size[cur].free /\ pool.m_size[next].free
    <2>1. free(pool, mem) = MoveBlock(Forget(Forget(r, next), cur), prev, prev, nn)
      BY <1>6, <1>7
    <2> QED BY <2>1, <1>2, <1>3, <1>4, <1>5, <1>7, ReleaseBoth
  <1>8. CASE pool.m_prev_size[cur].free /\ ~pool.m_size[next].free
    <2>1. free(pool, mem) = MoveBlock(Forget(pool, cur), prev, prev, next)
      BY <1>6, <1>8
    <2> QED BY <2>1, <1>2, <1>3, <1>8, ReleasePrev
  <1>9. CASE ~pool.m_prev_size[cur].free /\ pool.m_size[next].free
    <2>1. free(pool, mem) = MoveBlock(pool, next, cur, nn)
      BY <1>6, <1>9
    <2> QED BY <2>1, <1>2, <1>4, <1>9, ReleaseNext
  <1>10. CASE ~pool.m_prev_size[cur].free /\ ~pool.m_size[next].free
    <2>1. free(pool, mem) =
             add_free_block(SetTag(pool, cur, next, [pool.m_size[cur] EXCEPT !.free = TRUE]),
                            cur, pool.m_size[cur].order)
      BY <1>6, <1>10
    <2> QED BY <2>1, <1>2, <1>10, ReleaseAlone
  <1> QED BY <1>7, <1>8, <1>9, <1>10

\* From pool to p the blocks in use stay as they are.
SameUsed(pool, p) ==
    /\ Used(p) = Used(pool)
    /\ \A b \in Used(p) : p.m_size[b] = pool.m_size[b]

\* add_chunk keeps the pool as it must be and lists a block of the largest order.
LEMMA AddChunkEffect ==
    ASSUME NEW pool, PoolOK(pool), NEW garbage, NEW p, p = add_chunk(pool, garbage)
    PROVE  /\ PoolOK(p) /\ SameUsed(pool, p)
           /\ p.m_free[k_max_order] # << >>
  <1> DEFINE ms == pool.m_size
             mp == pool.m_prev_size
             n == pool.m_chuncks
             F == FirstBlock(n + 1)
             E == ChunkEnd(n + 1)
             tag == Tag(ChunkBytes, k_max_order, TRUE)
             tagged == SetTag(pool, F, E, tag)
             bordered == SetTag(tagged, E, F, NoBlock)
             q == [bordered EXCEPT !.m_chuncks = n + 1,
                                   !.unwritten = IF garbage THEN @ \cup {E} ELSE @]
             ms2 == bordered.m_size
             mp2 == bordered.m_prev_size
             T == FreeBlocks(ms)
             T2 == FreeBlocks(ms2)
  <1>1. Tiled(ms, mp, n) /\ IsPool(pool) /\ Listed(pool.m_free, pool.m_free_flags, T)
    BY DEF PoolOK
  <1>2. p = add_free_block(q, F, k_max_order)
    BY DEF add_chunk, ChunkBytes
  <1>3. n \in Nat /\ F \in Nat /\ E = F + ChunkBytes /\ ChunkBytes \in Nat /\ ChunkBytes >= 32 /\ DOMAIN mp = DOMAIN ms
    <2>1. n \in Nat /\ DOMAIN mp = DOMAIN ms BY <1>1 DEF Tiled
    <2>2. n + 1 \in Nat BY <2>1
    <2> QED BY <2>1, <2>2, ChunkFacts, ChunkSize
  <1>4. F # E
    <2> HIDE DEF F, E
    <2> QED BY <1>3
  <1>t. tag.free /\ tag.size = ChunkBytes /\ tag.order = k_max_order /\ ~NoBlock.free /\ NoBlock.size = 0
    BY DEF Tag, NoBlock
  <1> HIDE DEF F, E, tag
  <1>a. /\ IsPool(tagged) /\ tagged.m_free = pool.m_free /\ tagged.m_free_flags = pool.m_free_flags
        /\ tagged.m_chuncks = n
        /\ DOMAIN tagged.m_size = DOMAIN ms \cup {F} /\ tagged.m_size[F] = tag
        /\ \A b \in DOMAIN ms : b # F => tagged.m_size[b] = ms[b]
        /\ DOMAIN tagged.m_prev_size = DOMAIN mp \cup {E} /\ tagged.m_prev_size[E] = tag
        /\ \A b \in DOMAIN mp : b # E => tagged.m_prev_size[b] = mp[b]
    BY <1>1, SetTagEffect
  <1> HIDE DEF tagged
  <1>b. /\ IsPool(bordered) /\ bordered.m_free = tagged.m_free
        /\ bordered.m_free_flags = tagged.m_free_flags
        /\ DOMAIN ms2 = DOMAIN tagged.m_size \cup {E} /\ ms2[E] = NoBlock
        /\ \A b \in DOMAIN tagged.m_size : b # E => ms2[b] = tagged.m_size[b]
        /\ DOMAIN mp2 = DOMAIN tagged.m_prev_size \cup {F} /\ mp2[F] = NoBlock
        /\ \A b \in DOMAIN tagged.m_prev_size : b # F => mp2[b] = tagged.m_prev_size[b]
    BY <1>a, SetTagEffect
  <1> HIDE DEF bordered
  <1>q. /\ IsPool(q) /\ q.m_size = ms2 /\ q.m_prev_size = mp2 /\ q.m_chuncks = n + 1
        /\ q.m_free_flags = pool.m_free_flags /\ q.m_free = pool.m_free
    <2>1. PICK u : u = IF garbage THEN bordered.unwritten \cup {E} ELSE bordered.unwritten OBVIOUS
    <2>2. q = [bordered EXCEPT !.m_chuncks = n + 1, !.unwritten = u] BY <2>1
    <2> HIDE DEF q
    <2> QED BY <1>a, <1>b, <2>2 DEF IsPool
  <1> HIDE DEF ms, mp, n, q, ms2, mp2
  <1>5. /\ DOMAIN ms2 = DOMAIN ms \cup {F, E} /\ DOMAIN mp2 = DOMAIN ms2
        /\ ms2[F] = tag /\ mp2[E] = tag /\ ms2[E] = NoBlock /\ mp2[F] = NoBlock
    <2>1. DOMAIN ms2 = DOMAIN ms \cup {F, E} /\ DOMAIN mp2 = DOMAIN mp \cup {F, E}
      BY <1>a, <1>b
    <2>2. ms2[F] = tag /\ mp2[E] = tag
      BY <1>a, <1>b, <1>4
    <2> QED BY <1>3, <1>b, <2>1, <2>2
  <1>6. \A c \in DOMAIN ms : c # F /\ c # E => ms2[c] = ms[c] /\ mp2[c] = mp[c]
    BY <1>3, <1>a, <1>b
  <1>7. F \notin DOMAIN ms /\ E \notin DOMAIN ms
    BY <1>1, <1>3, NewChunk DEF F, E
  <1>8. \A c \in DOMAIN ms : ms2[c] = ms[c] /\ mp2[c] = mp[c]
    BY <1>6, <1>7
  <1>9. Tiled(ms2, mp2, n + 1)
    <2>1. OneChunkMore(ms, mp, F, E, ms2, mp2)
      BY <1>5, <1>8 DEF OneChunkMore, tag
    <2>2. OneChunkMore(ms, mp, FirstBlock(n + 1), ChunkEnd(n + 1), ms2, mp2)
      BY <2>1 DEF F, E
    <2> QED BY <1>1, <2>2, MoreChunks
  <1>10. /\ DOMAIN T2 = DOMAIN T \cup {F} /\ T2[F] = k_max_order /\ F \notin DOMAIN T
         /\ \A b \in DOMAIN T : T2[b] = T[b]
    <2>1. {c \in DOMAIN ms2 : ms2[c].free} = {c \in DOMAIN ms : ms[c].free} \cup {F}
      BY <1>5, <1>8, <1>t
    <2> QED BY <2>1, <1>5, <1>7, <1>8, <1>t DEF FreeBlocks
  <1>11. k_max_order \in 0..k_max_order
    BY OrdersAssumption
  <1>12. /\ IsPool(p) /\ p.m_size = ms2 /\ p.m_prev_size = mp2
         /\ p.m_chuncks = n + 1 /\ Listed(p.m_free, p.m_free_flags, T2)
    <2> HIDE DEF T, T2
    <2>1. Listed(q.m_free, q.m_free_flags, T) BY <1>1, <1>q
    <2> QED BY <1>2, <1>3, <1>10, <1>11, <1>q, <2>1, AddFreeBlock
  <1>13. PoolOK(p)
    BY <1>9, <1>12 DEF PoolOK
  <1>14. p.m_free[k_max_order] # << >>
    <2>1. F \in {b \in DOMAIN T2 : T2[b] = k_max_order} BY <1>10
    <2>2. ListOf(p.m_free[k_max_order], {b \in DOMAIN T2 : T2[b] = k_max_order})
      BY <1>11, <1>12 DEF Listed
    <2> QED BY <2>1, <2>2, ListEmpty
  <1>15. Used(p) = Used(pool)
    <2>1. Used(p) = {b \in DOMAIN ms2 : ms2[b].size > 0 /\ ~ms2[b].free}
      BY <1>12 DEF Used
    <2>2. Used(pool) = {b \in DOMAIN ms : ms[b].size > 0 /\ ~ms[b].free}
      BY DEF Used, ms
    <2> QED BY <2>1, <2>2, <1>5, <1>7, <1>8, <1>t
  <1>16. \A b \in Used(p) : p.m_size[b] = pool.m_size[b]
    <2>1. \A b \in Used(p) : b \in DOMAIN ms BY <1>15 DEF Used, ms
    <2> QED BY <2>1, <1>8, <1>12 DEF ms
  <1> QED BY <1>13, <1>14, <1>15, <1>16 DEF SameUsed

\* From pool to p the block at a, of at least size bytes, is taken into use.
Taken(pool, a, size, p) ==
    /\ PoolOK(p) /\ a \notin Used(pool) /\ Used(p) = Used(pool) \cup {a}
    /\ p.m_size[a].size >= size
    /\ \A b \in Used(pool) : p.m_size[b] = pool.m_size[b]

Tagged(pool, block, next, tag, p) ==
    /\ IsPool(p) /\ p.m_free = pool.m_free /\ p.m_free_flags = pool.m_free_flags
    /\ p.m_chuncks = pool.m_chuncks
    /\ DOMAIN p.m_size = DOMAIN pool.m_size \cup {block} /\ p.m_size[block] = tag
    /\ \A b \in DOMAIN pool.m_size : b # block => p.m_size[b] = pool.m_size[b]
    /\ DOMAIN p.m_prev_size = DOMAIN pool.m_prev_size \cup {next} /\ p.m_prev_size[next] = tag
    /\ \A b \in DOMAIN pool.m_prev_size : b # next => p.m_prev_size[b] = pool.m_prev_size[b]

\* SetTag again, without naming what comes out.
LEMMA Tagging ==
    ASSUME NEW pool, IsPool(pool), NEW block, NEW next, NEW tag
    PROVE  Tagged(pool, block, next, tag, SetTag(pool, block, next, tag))
  <1>1. PICK p : p = SetTag(pool, block, next, tag)
    OBVIOUS
  <1> QED BY <1>1, SetTagEffect DEF Tagged

\* A free block with what surrounds it.
FreeAt(ms, mp, n, b, e) ==
    /\ b \in Nat /\ e \in Nat /\ e \in DOMAIN ms /\ b < e /\ InChunk(b, e, n)
    /\ \A c \in DOMAIN ms : c <= b \/ e <= c
    /\ ~mp[b].free /\ ~ms[e].free
    /\ mp[e] = ms[b] /\ ms[b] = Tag(e - b, block_order(e - b), ms[b].free)
    /\ ms[b].order \in 0..k_max_order
    /\ ms[b].size \in Nat /\ ms[b].size >= 24 /\ ms[b].size <= ChunkBytes
    /\ e - b = ms[b].size
    /\ ms[b].size % Grain = 0

\* What is around a free block, which starts and ends where other blocks do.
LEMMA FreeBlock ==
    ASSUME NEW ms, NEW mp, NEW n, Tiled(ms, mp, n), NEW b \in DOMAIN ms, ms[b].free
    PROVE  FreeAt(ms, mp, n, b, b + ms[b].size)
  <1>e. PICK e : e = b + ms[b].size OBVIOUS
  <1>1. ms[b].size > 0 /\ ~mp[b].free /\ b \in Nat
    BY DEF Tiled
  <1>2. /\ e \in DOMAIN ms /\ b < e /\ InChunk(b, e, n)
        /\ \A c \in DOMAIN ms : c <= b \/ e <= c
        /\ mp[e] = ms[b] /\ ms[b].order \in 0..k_max_order
    <2>1. ms[b].size > 0 BY <1>1
    <2>2. e \in DOMAIN ms /\ b < e /\ InChunk(b, e, n) BY <2>1, <1>e, Neighbours
    <2>3. \A c \in DOMAIN ms : c <= b \/ e <= c BY <2>1, <1>e, Neighbours
    <2>4. mp[e] = ms[b] /\ ms[b].order \in 0..k_max_order BY <2>1, <1>e, Neighbours
    <2> QED BY <2>2, <2>3, <2>4
  <1>3. ms[b].size \in Nat /\ ms[b].size >= 24 /\ ms[b].size <= ChunkBytes
    BY <1>1, BlockInChunk
  <1>4. ~ms[e].free /\ e \in Nat
    BY <1>2 DEF Tiled
  <1>5. e - b = ms[b].size
    BY <1>1, <1>3, <1>e
  <1>t. ms[b] = Tag(e - b, block_order(e - b), ms[b].free)
    <2>1. ms[b] \in Tags /\ Whole(ms, mp, b) BY <1>1 DEF Tiled
    <2>2. ms[b] = Tag(ms[b].size, ms[b].order, ms[b].free) BY <2>1 DEF Tags, Tag
    <2> QED BY <1>5, <2>1, <2>2, Zenon DEF Whole
  <1>6. ms[b].size % Grain = 0
    <2>1. (b + 8) % Grain = 0 /\ (e + 8) % Grain = 0
      BY <1>2 DEF Tiled
    <2> DEFINE s == ms[b].size
    <2>2. e = b + s /\ s \in Nat BY <1>e, <1>3
    <2> HIDE DEF s
    <2>3. ASSUME Grain = 8 PROVE s % Grain = 0
      <3>1. (b + 8) % 8 = 0 /\ (b + s + 8) % 8 = 0 BY <2>1, <2>2, <2>3
      <3>2. s % 8 = 0 BY <1>1, <2>2, <3>1
      <3> QED BY <3>2, <2>3
    <2>4. ASSUME Grain = 16 PROVE s % Grain = 0
      <3>1. (b + 8) % 16 = 0 /\ (b + s + 8) % 16 = 0 BY <2>1, <2>2, <2>4
      <3>2. s % 16 = 0 BY <1>1, <2>2, <3>1
      <3> QED BY <3>2, <2>4
    <2>5. s % Grain = 0 BY <2>3, <2>4, GrainFacts
    <2> QED BY <2>5 DEF s
  <1>7. FreeAt(ms, mp, n, b, e)
    BY <1>1, <1>2, <1>3, <1>4, <1>5, <1>6, <1>t, Zenon DEF FreeAt
  <1> QED BY <1>7, <1>e

\* break_ that takes the whole block.
LEMMA BreakWhole ==
    ASSUME NEW pool, PoolOK(pool), NEW block \in DOMAIN pool.m_size, pool.m_size[block].free,
           NEW next, next = block + pool.m_size[block].size,
           NEW p, p = SetTag(remove_free_block(pool, block, pool.m_size[block].order), block, next,
                             [pool.m_size[block] EXCEPT !.free = FALSE])
    PROVE  Taken(pool, block, pool.m_size[block].size, p)
  <1> DEFINE ms == pool.m_size
             mp == pool.m_prev_size
             n == pool.m_chuncks
             D == DOMAIN ms
             T == FreeBlocks(ms)
             r == remove_free_block(pool, block, ms[block].order)
             order == block_order(next - block)
             tag == Tag(next - block, order, FALSE)
  <1>1. Tiled(ms, mp, n) /\ IsPool(pool) /\ Listed(pool.m_free, pool.m_free_flags, T)
        /\ DOMAIN mp = D
    BY DEF PoolOK, Tiled
  <1>2. /\ block \in Nat /\ next \in Nat /\ next \in D /\ block < next /\ InChunk(block, next, n)
        /\ \A c \in D : c <= block \/ next <= c
        /\ ms[block] = Tag(next - block, order, ms[block].free)
        /\ ms[block].order \in 0..k_max_order
        /\ ms[block].size \in Nat /\ ms[block].size >= 24
    <2> HIDE DEF ms, mp, n
    <2>1. block \in DOMAIN ms /\ ms[block].free /\ next = block + ms[block].size
      BY DEF ms
    <2>2. FreeAt(ms, mp, n, block, next)
      BY <1>1, <2>1, FreeBlock
    <2> QED BY <2>2 DEF FreeAt, D
  <1>3. [ms[block] EXCEPT !.free = FALSE] = tag
    <2>1. PICK f : ms[block] = Tag(next - block, order, f) BY <1>2, Zenon
    <2> HIDE DEF ms, order
    <2> DEFINE t == FALSE
    <2> HIDE DEF t
    <2>2. [ms[block] EXCEPT !.free = t] = Tag(next - block, order, t) BY <2>1, TagExcept
    <2> QED BY <2>2 DEF tag, t
  <1>4. p = SetTag(r, block, next, tag)
    BY <1>3
  <1>t. /\ ~tag.free /\ tag.size = ms[block].size /\ tag.size > 0 /\ tag.free \in BOOLEAN
        /\ tag = Tag(next - block, order, tag.free)
    <2>1. tag.size = next - block /\ tag.free = FALSE BY DEF Tag
    <2>2. ms[block].size = next - block BY <1>2 DEF Tag
    <2>3. tag = Tag(next - block, order, tag.free) BY <2>1, Zenon
    <2>4. tag.size > 0
      <3> HIDE DEF tag, ms
      <3> QED BY <2>1, <2>2, <1>2
    <2> HIDE DEF tag
    <2> QED BY <2>1, <2>2, <2>3, <2>4, Zenon
  <1>b. block \in D /\ ms[block].free
    OBVIOUS
  <1>5. Unlisted(pool, Unlist(T, block), r)
    <2>1. block \in DOMAIN T /\ T[block] = ms[block].order BY DEF FreeBlocks
    <2>2. Unlisted(pool, Unlist(T, block), remove_free_block(pool, block, T[block]))
      BY <2>1, <1>1, <1>2, Unlisting
    <2> QED BY <2>1, <2>2
  <1>6. /\ IsPool(r) /\ r.m_size = ms /\ r.m_prev_size = mp /\ r.m_chuncks = n
        /\ Listed(r.m_free, r.m_free_flags, Unlist(T, block))
    BY <1>5 DEF Unlisted
  <1> HIDE DEF r, tag, order
  <1>7. /\ IsPool(p) /\ p.m_free = r.m_free /\ p.m_free_flags = r.m_free_flags
        /\ p.m_chuncks = r.m_chuncks
        /\ DOMAIN p.m_size = DOMAIN r.m_size \cup {block} /\ p.m_size[block] = tag
        /\ \A b \in DOMAIN r.m_size : b # block => p.m_size[b] = r.m_size[b]
        /\ DOMAIN p.m_prev_size = DOMAIN r.m_prev_size \cup {next} /\ p.m_prev_size[next] = tag
        /\ \A b \in DOMAIN r.m_prev_size : b # next => p.m_prev_size[b] = r.m_prev_size[b]
    <2>1. IsPool(r) BY <1>6
    <2>2. Tagged(r, block, next, tag, p) BY <1>4, <2>1, Tagging
    <2> QED BY <2>2, Zenon DEF Tagged
  <1> HIDE DEF ms, mp, n, D
  <1>8. /\ DOMAIN p.m_size = D /\ DOMAIN p.m_prev_size = D /\ p.m_chuncks = n
        /\ p.m_size[block] = tag /\ p.m_prev_size[next] = tag
        /\ \A b \in D : b # block => p.m_size[b] = ms[b]
        /\ \A b \in D : b # next => p.m_prev_size[b] = mp[b]
    <2>1. DOMAIN r.m_size = D /\ DOMAIN r.m_prev_size = D BY <1>1, <1>6 DEF D
    <2> QED BY <2>1, <1>2, <1>6, <1>7, <1>b, Zenon
  <1>9. Tiled(p.m_size, p.m_prev_size, n)
    <2>1. OneBlock(ms, mp, n, block, next, p.m_size, p.m_prev_size)
      <3>1. D = {c \in D : c <= block \/ next <= c} BY <1>2
      <3>2. block \in D /\ next \in D /\ block < next /\ InChunk(block, next, n)
        BY <1>2, <1>b
      <3>3. /\ p.m_size[block] = Tag(next - block, block_order(next - block), p.m_size[block].free)
            /\ p.m_size[block].free \in BOOLEAN /\ ~p.m_size[block].free
        BY <1>8, <1>t, Zenon DEF order
      <3> QED BY <1>8, <3>1, <3>2, <3>3, Zenon DEF OneBlock, D
    <2> QED BY <1>1, <2>1, Retag
  <1>10. FreeBlocks(p.m_size) = Unlist(T, block)
    <2>1. DOMAIN T = {c \in D : ms[c].free} /\ \A b \in DOMAIN T : T[b] = ms[b].order
      BY DEF FreeBlocks, D
    <2> HIDE DEF T
    <2>2. {c \in DOMAIN p.m_size : p.m_size[c].free} = DOMAIN T \ {block}
      <3>1. ~p.m_size[block].free BY <1>8, <1>t, Zenon
      <3>2. DOMAIN p.m_size = D /\ \A c \in D : c # block => p.m_size[c] = ms[c] BY <1>8, Zenon
      <3> QED BY <2>1, <3>1, <3>2, Zenon
    <2>3. \A b \in DOMAIN T \ {block} : p.m_size[b].order = T[b]
      BY <1>8, <2>1, Zenon
    <2> QED BY <2>2, <2>3, Zenon DEF FreeBlocks, Unlist
  <1>11. PoolOK(p)
    BY <1>6, <1>7, <1>8, <1>9, <1>10, Zenon DEF PoolOK
  <1>12. Used(p) = Used(pool) \cup {block} /\ block \notin Used(pool)
    <2>1. Used(p) = {b \in D : p.m_size[b].size > 0 /\ ~p.m_size[b].free} BY <1>8, Zenon DEF Used
    <2>2. Used(pool) = {b \in D : ms[b].size > 0 /\ ~ms[b].free} BY DEF Used, D, ms
    <2>3. p.m_size[block].size > 0 /\ ~p.m_size[block].free BY <1>8, <1>t, Zenon
    <2>4. \A b \in D : b # block => p.m_size[b] = ms[b] BY <1>8, Zenon
    <2>5. block \notin Used(pool) BY <2>2, <1>b
    <2>6. ASSUME NEW b PROVE b \in Used(p) <=> b \in Used(pool) \cup {block}
      <3>1. CASE b = block BY <2>1, <2>3, <1>b, <3>1, Zenon
      <3>2. CASE b # block BY <2>1, <2>2, <2>4, <3>2, Zenon
      <3> QED BY <3>1, <3>2
    <2> QED BY <2>5, <2>6, Zenon
  <1>13. \A b \in Used(pool) : p.m_size[b] = pool.m_size[b]
    <2>1. \A b \in Used(pool) : b \in D /\ b # block BY <1>12, Zenon DEF Used, D, ms
    <2> QED BY <2>1, <1>8, Zenon DEF ms
  <1>14. p.m_size[block].size >= pool.m_size[block].size
    <2>1. p.m_size[block].size = pool.m_size[block].size BY <1>8, <1>t, Zenon DEF ms
    <2>2. pool.m_size[block].size \in Nat BY <1>2 DEF ms
    <2>3. \A x \in Nat : x >= x OBVIOUS
    <2> QED BY <2>1, <2>2, <2>3, Zenon
  <1> QED BY <1>11, <1>12, <1>13, <1>14, Zenon DEF Taken

\* break_ that takes the end of the block.
LEMMA BreakCut ==
    ASSUME NEW pool, PoolOK(pool), NEW block \in DOMAIN pool.m_size, pool.m_size[block].free,
           NEW next, next = block + pool.m_size[block].size,
           NEW m \in Nat, (m + 8) % Grain = 0, block + 24 <= m, m + 24 <= next,
           NEW p, p = SetTag(MoveBlock(pool, block, block, m), m, next,
                             Tag(next - m, block_order(next - m), FALSE))
    PROVE  Taken(pool, m, next - m, p)
  <1> DEFINE ms == pool.m_size
             mp == pool.m_prev_size
             n == pool.m_chuncks
             D == DOMAIN ms
             T == FreeBlocks(ms)
             q == MoveBlock(pool, block, block, m)
             tag == Tag(next - m, block_order(next - m), FALSE)
             front == Tag(m - block, block_order(m - block), TRUE)
  <1>1. Tiled(ms, mp, n) /\ IsPool(pool) /\ Listed(pool.m_free, pool.m_free_flags, T)
        /\ DOMAIN mp = D
    BY DEF PoolOK, Tiled
  <1>2. block \in D /\ ms[block].free /\ next = block + ms[block].size /\ p = SetTag(q, m, next, tag)
    OBVIOUS
  <1>a. CanMove(pool, block, block, m) => Moved(pool, block, block, m, q)
    BY MoveBlockEffect
  <1> HIDE DEF ms, mp, n, q
  <1>3. FreeAt(ms, mp, n, block, next)
    BY <1>1, <1>2, FreeBlock
  <1>4. /\ block \in Nat /\ next \in Nat /\ next \in D /\ ~mp[block].free
        /\ ms[block].order \in 0..k_max_order /\ ms[block].size > 0
        /\ next - block <= ChunkBytes /\ ChunkBytes \in Nat
        /\ \A c \in D : c <= block \/ next <= c
    <2>1. ChunkBytes \in Nat BY ChunkSize
    <2>2. block \in Nat /\ next \in Nat /\ next \in D BY <1>3 DEF FreeAt, D
    <2>3. ms[block].order \in 0..k_max_order /\ ms[block].size > 0 /\ ~mp[block].free
      BY <1>3 DEF FreeAt
    <2>4. next - block <= ChunkBytes /\ \A c \in D : c <= block \/ next <= c BY <1>3 DEF FreeAt, D
    <2> QED BY <2>1, <2>2, <2>3, <2>4
  <1>5. block_order(m - block) \in 0..k_max_order
    <2> DEFINE w == m - block
    <2>1. w \in Nat /\ w >= 8 /\ w <= ChunkBytes BY <1>4
    <2> HIDE DEF w
    <2>2. block_order(w) \in 0..k_max_order BY <2>1, OrderBound
    <2> QED BY <2>2 DEF w
  <1>o. m # block /\ m # next /\ block # next /\ next - m > 0 /\ m \notin D
    <2>1. m # block /\ m # next /\ block # next /\ next - m > 0 BY <1>4
    <2>2. m \notin D BY <1>4
    <2> QED BY <2>1, <2>2
  <1>t. /\ ~tag.free /\ tag.size = next - m /\ front.free
        /\ front.order = block_order(m - block)
    BY DEF Tag
  <1>6. Moved(pool, block, block, m, q)
    <2>1. CanMove(pool, block, block, m)
      BY <1>1, <1>2, <1>4, <1>5 DEF CanMove, ms, D
    <2> QED BY <1>a, <2>1
  <1>7. Tagged(q, m, next, tag, p)
    <2>1. IsPool(q) BY <1>6 DEF Moved
    <2> QED BY <1>2, <2>1, Tagging, Zenon
  <1> HIDE DEF tag, front
  <1>8. /\ IsPool(q) /\ q.m_chuncks = n /\ Listed(q.m_free, q.m_free_flags, FreeBlocks(q.m_size))
        /\ DOMAIN q.m_size = D /\ q.m_size[block] = front
        /\ \A b \in D : b # block => q.m_size[b] = ms[b]
        /\ DOMAIN q.m_prev_size = D \cup {m} /\ q.m_prev_size[m] = front
        /\ \A b \in D : q.m_prev_size[b] = mp[b]
    <2>1. /\ IsPool(q) /\ q.m_chuncks = n /\ Listed(q.m_free, q.m_free_flags, FreeBlocks(q.m_size))
      BY <1>6 DEF Moved, n
    <2>2. DOMAIN q.m_size = D /\ q.m_size[block] = front
      BY <1>2, <1>6 DEF Moved, D, ms, front
    <2>3. \A b \in D : b # block => q.m_size[b] = ms[b]
      BY <1>6, <2>2 DEF Moved, ms
    <2>4. DOMAIN q.m_prev_size = D \cup {m} /\ q.m_prev_size[m] = front
      <3>1. DOMAIN q.m_prev_size = DOMAIN mp \cup {m} BY <1>6 DEF Moved, mp
      <3>2. q.m_prev_size[m] = q.m_size[block] BY <1>6 DEF Moved
      <3> QED BY <1>1, <2>2, <3>1, <3>2
    <2>5. \A b \in D : q.m_prev_size[b] = mp[b]
      BY <1>o, <1>6, <2>4 DEF Moved, mp
    <2> QED BY <2>1, <2>2, <2>3, <2>4, <2>5
  <1>9. /\ IsPool(p) /\ p.m_chuncks = n /\ Listed(p.m_free, p.m_free_flags, FreeBlocks(q.m_size))
        /\ DOMAIN p.m_size = D \cup {m} /\ p.m_size[block] = front /\ p.m_size[m] = tag
        /\ \A b \in D : b # block => p.m_size[b] = ms[b]
        /\ DOMAIN p.m_prev_size = D \cup {m}
        /\ p.m_prev_size[m] = front /\ p.m_prev_size[next] = tag
        /\ \A b \in D : b # next => p.m_prev_size[b] = mp[b]
    <2>1. IsPool(p) /\ p.m_chuncks = n /\ Listed(p.m_free, p.m_free_flags, FreeBlocks(q.m_size))
      BY <1>7, <1>8, Zenon DEF Tagged
    <2>2. DOMAIN p.m_size = D \cup {m} /\ p.m_size[block] = front /\ p.m_size[m] = tag
      <3>1. DOMAIN p.m_size = DOMAIN q.m_size \cup {m} /\ p.m_size[m] = tag BY <1>7, Zenon DEF Tagged
      <3>2. \A b \in DOMAIN q.m_size : b # m => p.m_size[b] = q.m_size[b] BY <1>7, Zenon DEF Tagged
      <3>3. DOMAIN q.m_size = D /\ q.m_size[block] = front BY <1>8
      <3>4. p.m_size[block] = q.m_size[block] BY <1>2, <1>o, <3>2, <3>3, Zenon
      <3> QED BY <3>1, <3>3, <3>4, Zenon
    <2>3. \A b \in D : b # block => p.m_size[b] = ms[b]
      <3>1. \A b \in DOMAIN q.m_size : b # m => p.m_size[b] = q.m_size[b] BY <1>7, Zenon DEF Tagged
      <3>2. DOMAIN q.m_size = D /\ m \notin D BY <1>8, <1>o
      <3>3. \A b \in D : b # block => q.m_size[b] = ms[b] BY <1>8
      <3> QED BY <3>1, <3>2, <3>3, Zenon
    <2>4. DOMAIN p.m_prev_size = D \cup {m}
      BY <1>4, <1>7, <1>8, Zenon DEF Tagged
    <2>5. p.m_prev_size[m] = front /\ p.m_prev_size[next] = tag
      <3>1. DOMAIN q.m_prev_size = D \cup {m} /\ q.m_prev_size[m] = front BY <1>8
      <3>2. m \in DOMAIN q.m_prev_size /\ m # next BY <3>1, <1>o
      <3> QED BY <3>1, <3>2, <1>7, Zenon DEF Tagged
    <2>6. \A b \in D : b # next => p.m_prev_size[b] = mp[b]
      <3>1. \A b \in D : b \in DOMAIN q.m_prev_size /\ q.m_prev_size[b] = mp[b] BY <1>8
      <3>2. \A b \in DOMAIN q.m_prev_size : b # next => p.m_prev_size[b] = q.m_prev_size[b]
        BY <1>7, Zenon DEF Tagged
      <3> QED BY <3>1, <3>2, Zenon
    <2> QED BY <2>1, <2>2, <2>3, <2>4, <2>5, <2>6, Zenon
  <1>10. Tiled(p.m_size, p.m_prev_size, n)
    <2> DEFINE ms2 == p.m_size
               mp2 == p.m_prev_size
    <2>1. DOMAIN ms2 = D \cup {m} /\ DOMAIN mp2 = DOMAIN ms2 BY <1>9, Zenon
    <2>2. ms2[block] = Tag(m - block, block_order(m - block), TRUE) /\ mp2[m] = ms2[block]
      BY <1>9, Zenon DEF front
    <2>3. ms2[m] = Tag(next - m, block_order(next - m), FALSE) /\ mp2[next] = ms2[m]
      BY <1>9, Zenon DEF tag
    <2>4. /\ \A c \in D : c # block => ms2[c] = ms[c]
          /\ \A c \in D : c # next => mp2[c] = mp[c]
      BY <1>9, Zenon
    <2> HIDE DEF ms2, mp2
    <2>5. CutAt(ms, mp, block, m, next, ms2, mp2)
      BY <1>2, <1>4, <2>1, <2>2, <2>3, <2>4, Zenon DEF CutAt, D
    <2>6. Tiled(ms2, mp2, n) BY <1>1, <2>5, Cut
    <2> QED BY <2>6, Zenon DEF ms2, mp2
  <1>11. FreeBlocks(p.m_size) = FreeBlocks(q.m_size)
    <2>3. \A c \in D : p.m_size[c] = q.m_size[c]
      BY <1>8, <1>9, Zenon
    <2>4. DOMAIN p.m_size = D \cup {m} /\ DOMAIN q.m_size = D /\ ~p.m_size[m].free
      BY <1>8, <1>9, <1>t, Zenon
    <2>1. {c \in DOMAIN p.m_size : p.m_size[c].free} = {c \in DOMAIN q.m_size : q.m_size[c].free}
      BY <2>3, <2>4, Zenon
    <2>2. \A b \in {c \in DOMAIN q.m_size : q.m_size[c].free} : p.m_size[b].order = q.m_size[b].order
      BY <2>3, <2>4, Zenon
    <2> QED BY <2>1, <2>2, Zenon DEF FreeBlocks
  <1>12. PoolOK(p)
    BY <1>9, <1>10, <1>11, Zenon DEF PoolOK
  <1>13. Used(p) = Used(pool) \cup {m} /\ m \notin Used(pool)
    <2>1. Used(p) = {b \in D \cup {m} : p.m_size[b].size > 0 /\ ~p.m_size[b].free} BY <1>9, Zenon DEF Used
    <2>2. Used(pool) = {b \in D : ms[b].size > 0 /\ ~ms[b].free} BY DEF Used, D, ms
    <2>3. p.m_size[m].size > 0 /\ ~p.m_size[m].free
      <3>1. p.m_size[m] = tag BY <1>9, Zenon
      <3>2. tag.size = next - m /\ ~tag.free BY <1>t
      <3>3. next - m > 0 BY <1>o
      <3> QED BY <3>1, <3>2, <3>3, Zenon
    <2>4. ~ms[block].free <=> ~p.m_size[block].free BY <1>2, <1>9, <1>t, Zenon
    <2> QED BY <2>1, <2>2, <2>3, <2>4, <1>2, <1>9, <1>o, <1>t, Zenon
  <1>14. \A b \in Used(pool) : p.m_size[b] = pool.m_size[b]
    <2>1. \A b \in Used(pool) : b \in D /\ b # block BY <1>2 DEF Used, D, ms
    <2> QED BY <2>1, <1>9, Zenon DEF ms
  <1>15. p.m_size[m].size >= next - m
    <2>1. p.m_size[m].size = next - m BY <1>9, <1>t, Zenon
    <2>2. PICK w \in Int : w = next - m BY <1>4
    <2>3. p.m_size[m].size = w BY <2>1, <2>2, Zenon
    <2>4. w >= w BY <2>2
    <2> QED BY <2>2, <2>3, <2>4, Zenon
  <1> QED BY <1>12, <1>13, <1>14, <1>15, Zenon DEF Taken

\* A block that is large enough for more is large enough.
LEMMA TakenMore ==
    ASSUME NEW pool, NEW a, NEW size \in Nat, NEW more \in Nat, size <= more, NEW p,
           Taken(pool, a, more, p)
    PROVE  Taken(pool, a, size, p)
  <1>1. p.m_size[a].size \in Nat
    <2>1. a \in Used(p) /\ Tiled(p.m_size, p.m_prev_size, p.m_chuncks) BY DEF Taken, PoolOK
    <2> QED BY <2>1 DEF Used, Tiled, Tags
  <1>2. p.m_size[a].size >= size
    BY <1>1 DEF Taken
  <1> QED BY <1>2 DEF Taken

\* Rounding down to the grain.
LEMMA RoundDown ==
    ASSUME NEW x \in Nat, NEW lo \in Nat, (lo + 8) % Grain = 0, lo + 8 <= x,
           NEW y, y = x - (x % Grain) - 8
    PROVE  y \in Nat /\ lo <= y /\ y + 8 <= x /\ (y + 8) % Grain = 0
  <1>1. CASE Grain = 8
    <2>1. y = x - (x % 8) - 8 /\ (lo + 8) % 8 = 0 BY <1>1
    <2>2. y \in Nat /\ lo <= y /\ y + 8 <= x BY <2>1
    <2>3. (y + 8) % 8 = 0 BY <2>1, <2>2
    <2> QED BY <2>2, <2>3, <1>1
  <1>2. CASE Grain = 16
    <2>1. y = x - (x % 16) - 8 /\ (lo + 8) % 16 = 0 BY <1>2
    <2>2. y \in Nat /\ lo <= y /\ y + 8 <= x BY <2>1
    <2>3. (y + 8) % 16 = 0 BY <2>1, <2>2
    <2> QED BY <2>2, <2>3, <1>2
  <1> QED BY <1>1, <1>2, GrainFacts

\* Rounding down to a multiple of the grain.
LEMMA RoundDownTo ==
    ASSUME NEW x \in Int, NEW a \in Nat \ {0}, a % Grain = 0, NEW lo \in Nat,
           NEW y, y = x - (x % a) - 8, lo <= y
    PROVE  y \in Nat /\ y + 8 <= x /\ (y + 8) % Grain = 0
  <1>1. x % a \in 0..(a - 1)
    OBVIOUS
  <1>2. x \in Nat /\ y \in Nat /\ y + 8 <= x /\ y + 8 = x - (x % a)
    BY <1>1
  <1>3. PICK q \in Nat : x = a * q + (x % a)
    <2>1. x = a * (x \div a) + (x % a) /\ x \div a \in Nat BY <1>2
    <2> QED BY <2>1
  <1>4. PICK w \in Nat : w = a * q
    <2>1. a * q \in Nat OBVIOUS
    <2> QED BY <2>1
  <1>5. y + 8 = w
    <2>1. PICK m \in Nat : m = x % a BY <1>1
    <2>2. x = w + m /\ y + 8 = x - m BY <1>2, <1>3, <1>4, <2>1
    <2> QED BY <2>1, <2>2
  <1>6. PICK g : g = Grain /\ g \in {8, 16}
    BY GrainFacts
  <1>7. PICK k \in Nat : a = g * k
    <2>1. a = g * (a \div g) /\ a \div g \in Nat BY <1>6
    <2> QED BY <2>1
  <1>8. PICK z \in Nat : z = k * q
    <2>1. k * q \in Nat OBVIOUS
    <2> QED BY <2>1
  <1>9. w = g * z
    BY <1>4, <1>6, <1>7, <1>8
  <1>10. w % g = 0
    BY <1>6, <1>9
  <1> QED BY <1>2, <1>5, <1>6, <1>10

\* break_ of a free block takes it, or its end, into use, unless it is undefined; which it
\* is not when the block is large enough and only the grain is asked for.
LEMMA BreakEffect ==
    ASSUME NEW pool, PoolOK(pool), NEW block \in DOMAIN pool.m_size, pool.m_size[block].free,
           NEW size \in Nat, size >= 24, NEW align \in Nat \ {0}, align % Grain = 0
    PROVE  LET r == break_(pool, block, size, align)
           IN  /\ r.defined => \E a \in Nat : r.mem = a + 8 /\ Taken(pool, a, size, r.pool)
               /\ align = Grain /\ size <= pool.m_size[block].size => r.defined
  <1>1. PICK old : old = pool.m_size[block]
    OBVIOUS
  <1>2. PICK next : next = block + old.size
    OBVIOUS
  <1>3. PICK mem : mem = block + old.size - size + HeaderSize
    OBVIOUS
  <1>4. PICK m : m = mem - (mem % align) - HeaderSize
    OBVIOUS
  <1> DEFINE r == break_(pool, block, size, align)
             whole == SetTag(remove_free_block(pool, block, old.order), block, next,
                             [old EXCEPT !.free = FALSE])
             cut == SetTag(MoveBlock(pool, block, block, m), m, next,
                           Tag(next - m, block_order(next - m), FALSE))
  <1>5. r = IF m - block < BlockSize
            THEN [mem |-> block + HeaderSize, defined |-> block <= m, pool |-> whole]
            ELSE [mem |-> m + HeaderSize, defined |-> TRUE, pool |-> cut]
    BY <1>1, <1>2, <1>3, <1>4, Zenon DEF break_
  <1> HIDE DEF r
  <1>6. /\ block \in Nat /\ next \in Nat /\ old.size \in Nat /\ next = block + old.size
        /\ (block + 8) % Grain = 0
    <2>1. Tiled(pool.m_size, pool.m_prev_size, pool.m_chuncks) BY DEF PoolOK
    <2>2. FreeAt(pool.m_size, pool.m_prev_size, pool.m_chuncks, block, block + pool.m_size[block].size)
      BY <2>1, FreeBlock
    <2>3. (block + 8) % Grain = 0 BY <2>1 DEF Tiled
    <2> QED BY <1>1, <1>2, <2>2, <2>3 DEF FreeAt
  <1>7. mem = ((next - size) + 8) /\ mem \in Int
    BY <1>1, <1>3, <1>6 DEF HeaderSize
  <1>8. m = mem - (mem % align) - 8 /\ m \in Int
    <2>1. mem % align \in 0..(align - 1) BY <1>7
    <2> QED BY <1>4, <1>7, <2>1 DEF HeaderSize
  <1>9. r.defined <=> block <= m
    <2>1. CASE m - block < BlockSize
      <3>1. PICK d : d = (block <= m) OBVIOUS
      <3>2. PICK q : q = whole OBVIOUS
      <3>3. r = [mem |-> block + HeaderSize, defined |-> d, pool |-> q]
        BY <1>5, <2>1, <3>1, <3>2, Zenon
      <3>4. r.defined = d BY <3>3, Zenon
      <3> QED BY <3>1, <3>4, Zenon
    <2>2. CASE ~(m - block < BlockSize)
      <3>1. PICK q : q = cut OBVIOUS
      <3>2. r = [mem |-> m + HeaderSize, defined |-> TRUE, pool |-> q]
        BY <1>5, <2>2, <3>1, Zenon
      <3>3. r.defined BY <3>2
      <3>4. block <= m BY <1>6, <1>8, <2>2 DEF BlockSize
      <3> QED BY <3>3, <3>4
    <2> QED BY <2>1, <2>2
  <1>10. ASSUME r.defined PROVE \E a \in Nat : r.mem = a + 8 /\ Taken(pool, a, size, r.pool)
    <2>1. m \in Nat /\ block <= m /\ m + 8 <= mem /\ (m + 8) % Grain = 0
      BY <1>6, <1>7, <1>8, <1>9, <1>10, RoundDownTo
    <2>2. /\ m + size <= next /\ next - m \in Nat /\ next - m >= size
          /\ size <= old.size
      BY <1>6, <1>7, <2>1
    <2>3. CASE m - block < BlockSize
      <3>1. r.mem = block + 8 /\ r.pool = whole
        BY <1>5, <2>3 DEF HeaderSize
      <3>2. Taken(pool, block, old.size, whole)
        BY <1>1, <1>2, BreakWhole
      <3>3. Taken(pool, block, size, whole)
        BY <3>2, <1>6, <2>2, TakenMore
      <3>4. r.mem = block + 8 /\ Taken(pool, block, size, r.pool) /\ block \in Nat
        BY <3>1, <3>3, <1>6
      <3> QED BY <3>4
    <2>4. CASE ~(m - block < BlockSize)
      <3>1. r.mem = m + 8 /\ r.pool = cut
        BY <1>5, <2>4 DEF HeaderSize
      <3>2. block + 24 <= m /\ m + 24 <= next
        BY <1>6, <2>1, <2>2, <2>4 DEF BlockSize
      <3>3. Taken(pool, m, next - m, cut)
        <4>1. next = block + pool.m_size[block].size BY <1>1, <1>2
        <4> QED BY <4>1, <3>2, <2>1, BreakCut
      <3>4. Taken(pool, m, size, cut)
        BY <3>3, <2>2, TakenMore
      <3>5. r.mem = m + 8 /\ Taken(pool, m, size, r.pool) /\ m \in Nat
        BY <3>1, <3>4, <2>1
      <3> QED BY <3>5
    <2> QED BY <2>3, <2>4
  <1>11. ASSUME align = Grain, size <= pool.m_size[block].size PROVE r.defined
    <2>1. block + 8 <= mem /\ mem \in Nat BY <1>1, <1>6, <1>7, <1>11
    <2>2. block <= m BY <1>6, <1>8, <1>11, <2>1, RoundDown
    <2> QED BY <1>9, <2>2
  <1> QED BY <1>10, <1>11 DEF r

\* Memory never returns less than it is given.
LEMMA MemoryType ==
    ASSUME NEW size \in Nat
    PROVE  Memory(size) \in Nat /\ Memory(size) >= 16 /\ Memory(size) >= size
  BY DEF Memory, AtLeast

\* What a request asks the pool for is within the orders.
LEMMA RequestType ==
    ASSUME NEW r \in requests, Asked(r), ~Large(r[1], r[2])
    PROVE  /\ HeaderSize + Memory(r[1]) \in Nat /\ HeaderSize + Memory(r[1]) >= 24
           /\ block_order(Memory(r[1]) + Alignment(r[2])) \in 0..k_max_order
  <1>1. PICK m : m = Memory(r[1])
    OBVIOUS
  <1>2. PICK a : a = Alignment(r[2])
    OBVIOUS
  <1>3. m \in Nat /\ m >= 16
    BY <1>1, MemoryType DEF Asked
  <1>4. m + a \in Nat /\ m + a >= 8 /\ m + a <= ChunkBytes
    <2>1. ~(m + a >= block_size(k_malloc_order))
      BY <1>1, <1>2 DEF Large
    <2>2. a \in Nat BY <1>2, AlignmentGrain
    <2> QED BY <1>3, <2>1, <2>2, LargeBound, ChunkSize
  <1>5. block_order(m + a) \in 0..k_max_order
    <2> DEFINE w == m + a
    <2>1. w \in Nat /\ w >= 8 /\ w <= ChunkBytes BY <1>4
    <2> HIDE DEF w
    <2>2. block_order(w) \in 0..k_max_order BY <2>1, OrderBound
    <2> QED BY <2>2 DEF w
  <1> QED BY <1>1, <1>2, <1>3, <1>5 DEF HeaderSize

\* What is listed under an order that fits is large enough for a size that fits.
LEMMA FitsListed ==
    ASSUME NEW r, Asked(r), Fits(r[1], Grain),
           NEW s \in Nat, 24 <= s, s <= ChunkBytes, s % Grain = 0,
           block_order(s) >= block_order(Memory(r[1]) + Grain)
    PROVE  HeaderSize + Memory(r[1]) <= s
  <1>1. s \in 24..ChunkBytes
    BY ChunkSize
  <1>2. s >= HeaderSize + Memory(r[1])
    BY <1>1 DEF Fits, BlockSize, ChunkBytes
  <1>3. HeaderSize + Memory(r[1]) \in Nat
    BY MemoryType DEF Asked, HeaderSize
  <1> QED BY <1>2, <1>3

\* alloc: some free block that is large enough, or part of one, is taken into use, unless
\* it is undefined; which it is not when the size fits and only the grain is asked for.
LEMMA AllocEffect ==
    ASSUME NEW pool, PoolOK(pool), NEW r \in requests, Asked(r), ~Large(r[1], r[2]), NEW garbage
    PROVE  LET x == alloc(pool, r[1], r[2], garbage)
           IN  /\ x.defined => \E a \in Nat :
                     x.mem = a + 8 /\ Taken(pool, a, HeaderSize + Memory(r[1]), x.pool)
               /\ Alignment(r[2]) = Grain /\ Fits(r[1], Grain) => x.defined
  <1>1. PICK o : o = block_order(Memory(r[1]) + Alignment(r[2]))
    OBVIOUS
  <1>2. PICK size : size = HeaderSize + Memory(r[1])
    OBVIOUS
  <1>3. PICK al : al = Alignment(r[2])
    OBVIOUS
  <1>c. size \in Nat /\ size >= 24 /\ o \in 0..k_max_order
    BY <1>1, <1>2, RequestType
  <1>d. al \in Nat \ {0} /\ al % Grain = 0
    BY <1>3, AlignmentGrain
  <1> DEFINE F(p) == {order \in p.m_free_flags : order >= o}
             stocked == IF F(pool) = {} THEN add_chunk(pool, garbage) ELSE pool
  <1>4. \A p : Fitting(p, r[1], r[2]) = F(p)
    BY <1>1 DEF Fitting
  <1>5. PICK st : st = stocked
    OBVIOUS
  <1>6. PICK order : order = CHOOSE i \in F(st) : \A j \in F(st) : i <= j
    OBVIOUS
  <1>7. alloc(pool, r[1], r[2], garbage) = break_(st, Head(st.m_free[order]), size, al)
    <2>1. st = IF Fitting(pool, r[1], r[2]) = {} THEN add_chunk(pool, garbage) ELSE pool
      BY <1>4, <1>5
    <2>2. order = CHOOSE i \in Fitting(st, r[1], r[2]) : \A j \in Fitting(st, r[1], r[2]) : i <= j
      BY <1>4, <1>6
    <2> HIDE DEF F, stocked
    <2> QED BY <1>2, <1>3, <2>1, <2>2 DEF alloc
  <1>8. PoolOK(st) /\ SameUsed(pool, st) /\ F(st) # {}
    <2>1. CASE F(pool) = {}
      <3>1. st = add_chunk(pool, garbage) BY <1>5, <2>1
      <3>2. PoolOK(st) /\ SameUsed(pool, st) /\ st.m_free[k_max_order] # << >>
        BY <3>1, AddChunkEffect
      <3>3. k_max_order \in st.m_free_flags
        BY <3>2, OrdersAssumption DEF PoolOK, Listed
      <3>4. k_max_order >= o
        BY <1>c, OrdersAssumption
      <3> QED BY <3>2, <3>3, <3>4
    <2>2. CASE F(pool) # {}
      <3>1. st = pool BY <1>5, <2>2
      <3> QED BY <3>1, <2>2 DEF SameUsed
    <2> QED BY <2>1, <2>2
  <1> HIDE DEF stocked
  <1>9. st.m_free_flags = {i \in 0..k_max_order : st.m_free[i] # << >>}
    BY <1>8 DEF PoolOK, Listed
  <1>10. order \in F(st)
    <2>1. F(st) \subseteq Nat
      BY <1>9, OrdersAssumption
    <2>2. \E i \in F(st) : \A j \in F(st) : i <= j
      <3> HIDE DEF F
      <3> QED BY <1>8, <2>1, Least
    <2> HIDE DEF F
    <2> QED BY <1>6, <2>2
  <1>11. order \in 0..k_max_order /\ st.m_free[order] # << >> /\ order >= o
    BY <1>9, <1>10
  <1>12. PICK block : block = Head(st.m_free[order])
    OBVIOUS
  <1>13. block \in DOMAIN st.m_size /\ st.m_size[block].free /\ st.m_size[block].order = order
    <2> DEFINE T == FreeBlocks(st.m_size)
    <2>1. ListOf(st.m_free[order], {b \in DOMAIN T : T[b] = order})
      BY <1>8, <1>11 DEF PoolOK, Listed
    <2>2. block \in {b \in DOMAIN T : T[b] = order}
      <3> HIDE DEF T
      <3> QED BY <1>11, <1>12, <2>1, ListEmpty
    <2> QED BY <2>2 DEF FreeBlocks
  <1>14. ASSUME al = Grain, Fits(r[1], Grain) PROVE size <= st.m_size[block].size
    <2>1. Tiled(st.m_size, st.m_prev_size, st.m_chuncks)
      BY <1>8 DEF PoolOK
    <2>2. FreeAt(st.m_size, st.m_prev_size, st.m_chuncks, block, block + st.m_size[block].size)
      BY <1>13, <2>1, FreeBlock
    <2>3. PICK s : s = st.m_size[block].size
      OBVIOUS
    <2>4. s \in Nat /\ s >= 24 /\ s <= ChunkBytes /\ s % Grain = 0
      BY <2>2, <2>3 DEF FreeAt
    <2>5. block_order(s) = order
      <3>1. st.m_size[block] \in Tags /\ Whole(st.m_size, st.m_prev_size, block)
        BY <1>13, <2>1 DEF Tiled
      <3> QED BY <1>13, <2>3, <3>1 DEF Whole
    <2>6. block_order(s) >= block_order(Memory(r[1]) + Grain)
      BY <1>1, <1>3, <1>11, <1>14, <2>5
    <2>7. size <= s
      BY <1>2, <1>14, <2>4, <2>6, ChunkSize, FitsListed
    <2> QED BY <2>3, <2>7
  <1>15. LET x == break_(st, block, size, al)
         IN  /\ x.defined => \E a \in Nat : x.mem = a + 8 /\ Taken(st, a, size, x.pool)
             /\ al = Grain /\ size <= st.m_size[block].size => x.defined
    BY <1>c, <1>d, <1>8, <1>13, BreakEffect
  <1>16. PICK x : x = break_(st, block, size, al)
    OBVIOUS
  <1>17. ASSUME x.defined
         PROVE  \E a \in Nat : x.mem = a + 8 /\ Taken(pool, a, size, x.pool)
    <2>1. PICK a \in Nat : x.mem = a + 8 /\ Taken(st, a, size, x.pool)
      BY <1>15, <1>16, <1>17, Zenon
    <2>2. Taken(pool, a, size, x.pool)
      BY <1>8, <2>1 DEF Taken, SameUsed
    <2> QED BY <2>1, <2>2
  <1>18. al = Grain /\ Fits(r[1], Grain) => x.defined
    BY <1>14, <1>15, <1>16, Zenon
  <1>19. alloc(pool, r[1], r[2], garbage) = x
    BY <1>7, <1>12, <1>16
  <1> QED BY <1>2, <1>3, <1>17, <1>18, <1>19, Zenon

-----------------------------------------------------------------------------
(* The allocations in use. *)

Blocks == [mem : Int, size : Nat \ {0}, align : Nat \ {0}]

\* They lie apart.
LiveOK(L) ==
    /\ L \subseteq Blocks
    /\ \A b, c \in L : b # c => Abstract!Apart(b, c)

\* A block that may be handed out.
Fresh(b, L) ==
    /\ b \in Blocks /\ b.mem % Promised(b) = 0
    /\ \A c \in L : Abstract!Apart(b, c)

\* Blocks that lie apart start apart.
LEMMA NotApart ==
    ASSUME NEW b \in Blocks, NEW c \in Blocks, Abstract!Apart(b, c)
    PROVE  b.mem # c.mem
  BY DEF Blocks, Abstract!Apart

\* A fresh block joins those in use.
LEMMA LiveMore ==
    ASSUME NEW L, LiveOK(L), NEW b, Fresh(b, L)
    PROVE  LiveOK(L \cup {b}) /\ b \notin L
  <1>1. b \notin L
    BY NotApart DEF LiveOK, Fresh
  <1>2. ASSUME NEW c \in L PROVE Abstract!Apart(b, c) /\ Abstract!Apart(c, b)
    BY <1>2 DEF LiveOK, Fresh, Abstract!Apart
  <1> QED BY <1>1, <1>2 DEF LiveOK, Fresh

\* A block leaves those in use.
LEMMA LiveLess ==
    ASSUME NEW L, LiveOK(L), NEW b \in L
    PROVE  /\ LiveOK(L \ {b}) /\ b \in Blocks
           /\ \A c \in L \ {b} : c \in Blocks /\ c.mem # b.mem
  <1>1. ASSUME NEW c \in L \ {b} PROVE c.mem # b.mem
    BY NotApart DEF LiveOK
  <1> QED BY <1>1 DEF LiveOK

\* The pool and those who allocated from it agree on what is in use.
PoolHolds(pool, L) ==
    /\ PoolOK(pool)
    /\ \A l \in L : IF Large(l.size, l.align) THEN l.mem + l.size <= 0
                    ELSE \E b \in Used(pool) : /\ l.mem = b + 8
                                               /\ l.size + 8 <= pool.m_size[b].size
    /\ \A b \in Used(pool) : \E l \in L : ~Large(l.size, l.align) /\ l.mem = b + 8

\* Blocks in use are apart.
LEMMA UsedApart ==
    ASSUME NEW pool, PoolOK(pool), NEW b \in Used(pool), NEW c \in Used(pool), b # c
    PROVE  /\ b \in Nat /\ c \in Nat /\ pool.m_size[b].size \in Nat /\ pool.m_size[c].size \in Nat
           /\ b + pool.m_size[b].size <= c \/ c + pool.m_size[c].size <= b
  <1>1. Tiled(pool.m_size, pool.m_prev_size, pool.m_chuncks)
    BY DEF PoolOK
  <1>2. /\ b \in Nat /\ c \in Nat /\ pool.m_size[b].size \in Nat /\ pool.m_size[c].size \in Nat
        /\ b \in DOMAIN pool.m_size /\ c \in DOMAIN pool.m_size
    BY <1>1 DEF Tiled, Tags, Used
  <1>3. /\ Whole(pool.m_size, pool.m_prev_size, b) /\ Whole(pool.m_size, pool.m_prev_size, c)
    BY <1>1 DEF Tiled, Used
  <1>4. c <= b \/ b + pool.m_size[b].size <= c
    BY <1>2, <1>3 DEF Whole
  <1>5. b <= c \/ c + pool.m_size[c].size <= b
    BY <1>2, <1>3 DEF Whole
  <1> QED BY <1>2, <1>4, <1>5

\* A used block has a size and is aligned to the grain.
LEMMA UsedType ==
    ASSUME NEW pool, PoolOK(pool), NEW b \in Used(pool)
    PROVE  /\ b \in Nat /\ b \in DOMAIN pool.m_size /\ (b + 8) % Grain = 0
           /\ pool.m_size[b].size \in Nat
  BY DEF PoolOK, Tiled, Tags, Used

\* Whatever is aligned to the grain is aligned as promised.
LEMMA GrainAligns ==
    ASSUME resource = "PoolResource", NEW r \in requests, Asked(r), ~Large(r[1], r[2]),
           NEW x \in Nat, x % Grain = 0, NEW b, b.size = r[1], b.align = r[2]
    PROVE  x % Promised(b) = 0
  <1>1. CASE r[2] > Grain
    <2>1. Promised(b) = Grain BY <1>1 DEF Promised
    <2> QED BY <2>1
  <1>2. CASE ~(r[2] > Grain)
    <2>1. Promised(b) = r[2] BY <1>2 DEF Promised
    <2>2. r[2] \in {1, 2, 4, 8} \/ (r[2] >= 16 /\ r[2] % 16 = 0)
      BY DEF Asked, Alignments, max_align
    <2>3. Grain = 16 => r[2] % 16 = 0
      BY AlignmentGrain
    <2>4. CASE Grain = 8
      <3>1. r[2] \in {1, 2, 4, 8} BY <1>2, <2>2, <2>4 DEF Asked
      <3>2. x % 8 = 0 BY <2>4
      <3> QED BY <2>1, <3>1, <3>2
    <2>5. CASE Grain = 16
      <3>1. r[2] = 16 BY <1>2, <2>2, <2>3, <2>5 DEF Asked
      <3> QED BY <2>1, <2>5, <3>1
    <2> QED BY <2>4, <2>5, GrainFacts
  <1> QED BY <1>1, <1>2

\* PoolResource::do_allocate of what the pool serves itself.
LEMMA PoolAllocates ==
    ASSUME NEW pool, NEW L, PoolHolds(pool, L), LiveOK(L),
           resource = "PoolResource", NEW r \in requests, Asked(r), ~Large(r[1], r[2]),
           NEW garbage, NEW x, x = alloc(pool, r[1], r[2], garbage), x.defined,
           NEW block, block = Block(x.mem, r[1], r[2])
    PROVE  Fresh(block, L) /\ PoolHolds(x.pool, L \cup {block})
  <1>1. PoolOK(pool)
    BY DEF PoolHolds
  <1>2. PICK a \in Nat : x.mem = a + 8 /\ Taken(pool, a, HeaderSize + Memory(r[1]), x.pool)
    BY <1>1, AllocEffect
  <1>3. r[1] \in Nat \ {0} /\ r[2] \in Nat \ {0}
    BY DEF Asked
  <1> DEFINE p == x.pool
  <1>4. /\ PoolOK(p) /\ a \notin Used(pool) /\ Used(p) = Used(pool) \cup {a}
        /\ \A b \in Used(pool) : p.m_size[b] = pool.m_size[b]
    BY <1>2 DEF Taken
  <1>5. a \in Used(p) /\ (a + 8) % Grain = 0 /\ p.m_size[a].size \in Nat
    BY <1>4, UsedType
  <1>6. r[1] + 8 <= p.m_size[a].size
    <2>1. PICK m : m = Memory(r[1]) OBVIOUS
    <2>2. m \in Nat /\ m >= r[1] BY <1>3, <2>1, MemoryType
    <2>3. p.m_size[a].size >= 8 + m BY <1>2, <2>1 DEF Taken, HeaderSize
    <2> QED BY <1>3, <1>5, <2>2, <2>3
  <1>7. block.mem = a + 8 /\ block.size = r[1] /\ block.align = r[2] /\ block \in Blocks
    BY <1>2, <1>3 DEF Block, Blocks
  <1>8. block.mem % Promised(block) = 0
    <2>1. a + 8 \in Nat OBVIOUS
    <2>2. (a + 8) % Promised(block) = 0 BY <1>5, <1>7, <2>1, GrainAligns
    <2> QED BY <1>7, <2>2
  <1> HIDE DEF p
  <1>9. ASSUME NEW c \in L PROVE Abstract!Apart(block, c)
    <2>1. c \in Blocks BY DEF LiveOK
    <2>2. CASE Large(c.size, c.align)
      <3>1. c.mem + c.size <= 0 BY <2>2 DEF PoolHolds
      <3> QED BY <1>7, <2>1, <3>1 DEF Abstract!Apart, Blocks
    <2>3. CASE ~Large(c.size, c.align)
      <3>1. PICK b \in Used(pool) : c.mem = b + 8 /\ c.size + 8 <= pool.m_size[b].size
        BY <2>3 DEF PoolHolds
      <3>2. b \in Used(p) /\ b # a /\ p.m_size[b] = pool.m_size[b]
        BY <1>4, <3>1
      <3>3. /\ b \in Nat /\ p.m_size[b].size \in Nat
            /\ a + p.m_size[a].size <= b \/ b + p.m_size[b].size <= a
        BY <1>4, <1>5, <3>2, UsedApart
      <3>4. a + 8 + r[1] <= b + 8 \/ b + 8 + c.size <= a + 8
        <4>1. c.size \in Nat /\ c.size + 8 <= p.m_size[b].size BY <2>1, <3>1, <3>2 DEF Blocks
        <4>2. r[1] \in Nat BY <1>3
        <4> QED BY <1>5, <1>6, <3>3, <4>1, <4>2
      <3> QED BY <1>7, <3>1, <3>4 DEF Abstract!Apart
    <2> QED BY <2>2, <2>3
  <1>10. Fresh(block, L)
    BY <1>7, <1>8, <1>9 DEF Fresh
  <1>11. ASSUME NEW l \in L \cup {block}
         PROVE  IF Large(l.size, l.align) THEN l.mem + l.size <= 0
                ELSE \E b \in Used(p) : l.mem = b + 8 /\ l.size + 8 <= p.m_size[b].size
    <2>1. CASE l = block
      BY <1>5, <1>6, <1>7, <2>1
    <2>2. CASE l \in L
      <3>1. CASE Large(l.size, l.align) BY <2>2, <3>1 DEF PoolHolds
      <3>2. CASE ~Large(l.size, l.align)
        <4>1. PICK b \in Used(pool) : l.mem = b + 8 /\ l.size + 8 <= pool.m_size[b].size
          BY <2>2, <3>2 DEF PoolHolds
        <4> QED BY <1>4, <3>2, <4>1
      <3> QED BY <3>1, <3>2
    <2> QED BY <2>1, <2>2
  <1>12. ASSUME NEW b \in Used(p)
         PROVE  \E l \in L \cup {block} : ~Large(l.size, l.align) /\ l.mem = b + 8
    <2>1. CASE b = a BY <1>7, <2>1
    <2>2. CASE b \in Used(pool) BY <2>2 DEF PoolHolds
    <2> QED BY <2>1, <2>2, <1>4
  <1>13. PoolHolds(p, L \cup {block})
    BY <1>4, <1>11, <1>12 DEF PoolHolds
  <1> QED BY <1>10, <1>13 DEF p

\* PoolResource::do_allocate of what malloc serves.
LEMMA MallocServes ==
    ASSUME NEW pool, NEW L, PoolHolds(pool, L), NEW block, Large(block.size, block.align),
           block.mem + block.size <= 0
    PROVE  PoolHolds(pool, L \cup {block})
  BY DEF PoolHolds

\* PoolResource::do_deallocate.
LEMMA PoolFrees ==
    ASSUME NEW pool, NEW L, PoolHolds(pool, L), LiveOK(L), NEW l \in L
    PROVE  PoolHolds(IF Large(l.size, l.align) THEN pool ELSE free(pool, l.mem), L \ {l})
  <1>1. \A c \in L \ {l} : c.mem # l.mem
    BY LiveLess
  <1>2. CASE Large(l.size, l.align)
    <2>1. \A b \in Used(pool) : \E c \in L \ {l} : ~Large(c.size, c.align) /\ c.mem = b + 8
      BY <1>2 DEF PoolHolds
    <2>2. PoolHolds(pool, L \ {l}) BY <2>1 DEF PoolHolds
    <2> QED BY <1>2, <2>2
  <1>3. CASE ~Large(l.size, l.align)
    <2>1. PICK cur \in Used(pool) : l.mem = cur + 8
      BY <1>3 DEF PoolHolds
    <2>2. PICK p : p = free(pool, l.mem)
      OBVIOUS
    <2>3. PoolOK(p) /\ GivenBack(pool, cur, p)
      BY <2>1, <2>2, FreeEffect DEF PoolHolds
    <2>4. Used(p) = Used(pool) \ {cur} /\ \A b \in Used(p) : p.m_size[b] = pool.m_size[b]
      BY <2>3 DEF GivenBack
    <2>5. ASSUME NEW c \in L \ {l}
          PROVE  IF Large(c.size, c.align) THEN c.mem + c.size <= 0
                 ELSE \E b \in Used(p) : c.mem = b + 8 /\ c.size + 8 <= p.m_size[b].size
      <3>1. CASE Large(c.size, c.align) BY <3>1 DEF PoolHolds
      <3>2. CASE ~Large(c.size, c.align)
        <4>1. PICK b \in Used(pool) : c.mem = b + 8 /\ c.size + 8 <= pool.m_size[b].size
          BY <3>2 DEF PoolHolds
        <4>2. b # cur BY <1>1, <2>1, <4>1
        <4> QED BY <2>4, <3>2, <4>1, <4>2
      <3> QED BY <3>1, <3>2
    <2>6. ASSUME NEW b \in Used(p)
          PROVE  \E c \in L \ {l} : ~Large(c.size, c.align) /\ c.mem = b + 8
      <3>1. b \in Used(pool) /\ b # cur /\ b \in Nat /\ cur \in Nat
        BY <2>1, <2>4, UsedType DEF PoolHolds
      <3>2. PICK c \in L : ~Large(c.size, c.align) /\ c.mem = b + 8
        BY <3>1 DEF PoolHolds
      <3>3. c # l BY <2>1, <3>1, <3>2
      <3> QED BY <3>2, <3>3
    <2>7. PoolHolds(p, L \ {l}) BY <2>3, <2>5, <2>6 DEF PoolHolds
    <2> QED BY <1>3, <2>2, <2>7
  <1> QED BY <1>2, <1>3

\* In a pool that accounts for its blocks the tags are exact.
LEMMA PoolTags ==
    ASSUME PoolHolds(impl, live), LiveOK(live)
    PROVE  TagsExact
  <1> DEFINE ms == impl.m_size
             mp == impl.m_prev_size
             n == impl.m_chuncks
  <1>1. Tiled(ms, mp, n)
    BY DEF PoolHolds, PoolOK
  <1>2. \A i \in 1..n : FirstBlock(i) \in DOMAIN ms /\ ChunkEnd(i) \in DOMAIN ms
    BY <1>1 DEF Tiled
  <1>3. ASSUME NEW b \in DOMAIN ms, ms[b].size > 0
        PROVE  /\ b + ms[b].size \in DOMAIN ms /\ mp[b + ms[b].size] = ms[b]
               /\ ms[b].order = block_order(ms[b].size)
               /\ block_size(ms[b].order) >= ms[b].size
               /\ ms[b].free <=> \A l \in live : l.mem # b + HeaderSize
    <2>1. Whole(ms, mp, b) /\ b \in Nat
      BY <1>1, <1>3 DEF Tiled
    <2>2. ms[b].size \in Nat /\ ms[b].size >= 24 /\ ms[b].size <= ChunkBytes
      BY <1>1, <1>3, BlockInChunk
    <2>3. ms[b].order = block_order(ms[b].size)
      BY <2>1 DEF Whole
    <2>4. block_size(block_order(ms[b].size)) >= ms[b].size
      <3> HIDE DEF ms
      <3> QED BY <2>2, OrderBound
    <2>5. ASSUME ms[b].free, NEW l \in live, l.mem = b + HeaderSize PROVE FALSE
      <3>1. l \in Blocks BY DEF LiveOK
      <3>2. CASE Large(l.size, l.align)
        <4>1. l.mem + l.size <= 0 BY <3>2 DEF PoolHolds
        <4> QED BY <2>1, <2>5, <3>1, <4>1 DEF Blocks, HeaderSize
      <3>3. CASE ~Large(l.size, l.align)
        <4>1. PICK c \in Used(impl) : l.mem = c + 8 BY <3>3 DEF PoolHolds
        <4>2. c \in Nat BY <1>1 DEF Used, Tiled
        <4>3. c = b BY <2>1, <2>5, <4>1, <4>2 DEF HeaderSize
        <4> QED BY <2>5, <4>3 DEF Used
      <3> QED BY <3>2, <3>3
    <2>6. ASSUME ~ms[b].free PROVE ~\A l \in live : l.mem # b + HeaderSize
      <3>1. b \in Used(impl) BY <1>3, <2>6 DEF Used
      <3>2. \E l \in live : l.mem = b + 8 BY <3>1 DEF PoolHolds
      <3> QED BY <3>2 DEF HeaderSize
    <2>7. ms[b].free <=> \A l \in live : l.mem # b + HeaderSize
      <3>1. ms[b].free \in BOOLEAN BY <1>1 DEF Tiled, Tags
      <3> QED BY <3>1, <2>5, <2>6
    <2>8. b + ms[b].size \in DOMAIN ms /\ mp[b + ms[b].size] = ms[b]
      BY <2>1 DEF Whole
    <2> QED BY <2>3, <2>4, <2>7, <2>8
  <1>4. ASSUME NEW b \in DOMAIN ms
        PROVE  (mp[b].size > 0 => ms[b - mp[b].size] = mp[b]) /\ ~(ms[b].free /\ mp[b].free)
    BY <1>1 DEF Tiled
  <1> QED BY <1>2, <1>3, <1>4 DEF TagsExact

\* When nothing is in use each chunk is one free block.
LEMMA AllFree ==
    ASSUME NEW pool, PoolOK(pool), Used(pool) = {},
           NEW b \in DOMAIN pool.m_size, pool.m_size[b].free
    PROVE  pool.m_size[b].order = k_max_order
  <1> DEFINE ms == pool.m_size
             mp == pool.m_prev_size
             n == pool.m_chuncks
  <1>1. Tiled(ms, mp, n)
    BY DEF PoolOK
  <1>2. \A c \in DOMAIN ms : ms[c].size > 0 => ms[c].free
    BY DEF Used
  <1>0. b \in DOMAIN ms /\ ms[b].free
    OBVIOUS
  <1> HIDE DEF ms, mp, n
  <1>3. PICK i \in 1..n : FirstBlock(i) <= b /\ b <= ChunkEnd(i)
    BY <1>0, <1>1 DEF Tiled, InChunk
  <1> DEFINE f == FirstBlock(i)
             e == ChunkEnd(i)
  <1>4. f \in Nat /\ e \in Nat /\ ChunkBytes \in Nat /\ e = f + ChunkBytes /\ ChunkBytes >= 32 /\ b \in Nat
    <2>1. n \in Nat /\ b \in Nat BY <1>0, <1>1 DEF Tiled
    <2>2. i \in Nat BY <2>1
    <2> QED BY <2>1, <2>2, ChunkPlace, ChunkSize
  <1>5. f \in DOMAIN ms /\ e \in DOMAIN ms
    BY <1>1 DEF Tiled
  <1>6. ms[f].size > 0
    <2>1. ASSUME NEW j \in 1..n, f = ChunkEnd(j) PROVE FALSE
      <3>1. n \in Nat BY <1>1 DEF Tiled
      <3>2. j \in Nat /\ i \in Nat BY <3>1
      <3>3. FirstBlock(j) \in Nat /\ FirstBlock(j) <= ChunkEnd(j) BY <3>2, ChunkPlace
      <3>4. FirstBlock(j) <= f /\ f <= ChunkEnd(j) /\ f <= f /\ f <= e BY <1>4, <2>1, <3>3
      <3>5. i = j
        <4> HIDE DEF f, e
        <4>1. FirstBlock(i) <= f /\ f <= ChunkEnd(i) BY <1>4, <3>4 DEF f, e
        <4> QED BY <1>4, <3>1, <3>4, <4>1, ChunkOf
      <3> QED BY <1>4, <2>1, <3>5
    <2>2. ms[f].size # 0 BY <1>1, <1>5, <2>1 DEF Tiled
    <2>3. ms[f].size \in Nat BY <1>1, <1>5 DEF Tiled, Tags
    <2> QED BY <2>2, <2>3
  <1>7. ms[f].free
    BY <1>2, <1>5, <1>6
  <1> DEFINE g == f + ms[f].size
  <1>8. FreeAt(ms, mp, n, f, g)
    BY <1>1, <1>5, <1>7, FreeBlock
  <1>9. /\ g \in DOMAIN ms /\ g \in Nat /\ f < g /\ ~ms[g].free
        /\ \A c \in DOMAIN ms : c <= f \/ g <= c
    BY <1>8 DEF FreeAt
  <1>10. g <= e
    <2>1. f <= e BY <1>4
    <2> QED BY <1>1, <1>4, <1>5, <1>6, <2>1, BlockInChunk
  <1>11. g = e
    <2>1. ms[g].size = 0
      <3>1. ms[g].size \in Nat BY <1>1, <1>9 DEF Tiled, Tags
      <3> QED BY <1>2, <1>9, <3>1
    <2>2. PICK j \in 1..n : g = ChunkEnd(j) BY <1>1, <1>9, <2>1 DEF Tiled
    <2>3. n \in Nat BY <1>1 DEF Tiled
    <2>4. j \in Nat /\ i \in Nat BY <2>3
    <2>5. FirstBlock(j) <= ChunkEnd(j) /\ ChunkEnd(j) \in Nat BY <2>4, ChunkPlace
    <2>6. i = j
      <3>1. FirstBlock(j) <= g /\ g <= ChunkEnd(j)
        <4> HIDE DEF g
        <4>1. ChunkEnd(j) <= ChunkEnd(j) BY <2>5
        <4> QED BY <2>2, <2>5, <4>1, Zenon
      <3>2. FirstBlock(i) <= g /\ g <= ChunkEnd(i) BY <1>4, <1>9, <1>10
      <3> HIDE DEF g, f, e
      <3> QED BY <1>9, <2>3, <3>1, <3>2, ChunkOf
    <2> QED BY <2>2, <2>6
  <1>12. b = f
    <2>1. b <= f \/ g <= b BY <1>0, <1>9
    <2>2. b # e
      <3>1. ~ms[e].free BY <1>9, <1>11
      <3> QED BY <1>0, <3>1
    <2> QED BY <1>3, <1>4, <1>11, <2>1, <2>2
  <1>13. ms[f].size = ChunkBytes
    <2>1. ms[f].size \in Nat BY <1>1, <1>5 DEF Tiled, Tags
    <2> QED BY <1>4, <1>11, <2>1
  <1>14. ms[f].order = block_order(ms[f].size)
    BY <1>1, <1>5, <1>6 DEF Tiled, Whole
  <1>15. ms[b].order = k_max_order
    BY <1>12, <1>13, <1>14, ChunkOrder
  <1> QED BY <1>15 DEF ms

\* In a pool that accounts for its blocks the free lists are exact.
LEMMA PoolLists ==
    ASSUME PoolHolds(impl, live)
    PROVE  FreeListsExact
  <1> DEFINE T == FreeBlocks(impl.m_size)
             X(order) == {b \in DOMAIN impl.m_size : impl.m_size[b].free /\ impl.m_size[b].order = order}
             q(order) == impl.m_free[order]
  <1>1. PoolOK(impl)
    BY DEF PoolHolds
  <1>2. ASSUME NEW order \in 0..k_max_order PROVE ListOf(q(order), X(order))
    <2>1. ListOf(q(order), {b \in DOMAIN T : T[b] = order})
      BY <1>1 DEF PoolOK, Listed
    <2>2. {b \in DOMAIN T : T[b] = order} = X(order)
      BY DEF FreeBlocks
    <2> QED BY <2>1, <2>2
  <1>3. ASSUME NEW order \in 0..k_max_order
        PROVE  /\ Range(q(order)) = X(order) /\ IsInjective(q(order))
               /\ order \in impl.m_free_flags <=> q(order) # << >>
    <2>1. /\ q(order) \in Seq(Nat) /\ X(order) = {q(order)[i] : i \in 1..Len(q(order))}
          /\ \A i, j \in 1..Len(q(order)) : q(order)[i] = q(order)[j] => i = j
      BY <1>2 DEF ListOf
    <2>2. impl.m_free_flags = {o \in 0..k_max_order : impl.m_free[o] # << >>}
      BY <1>1 DEF PoolOK, Listed
    <2>3. order \in impl.m_free_flags <=> q(order) # << >>
      BY <2>2
    <2> HIDE DEF q, X
    <2>4. DOMAIN q(order) = 1..Len(q(order)) BY <2>1
    <2>5. Range(q(order)) = X(order) BY <2>1, <2>4 DEF Range
    <2>6. IsInjective(q(order)) BY <2>1, <2>4 DEF IsInjective
    <2> QED BY <2>3, <2>5, <2>6
  <1>4. ASSUME live = {}, NEW order \in 0..(k_max_order - 1) PROVE q(order) = << >>
    <2>1. Used(impl) = {}
      BY <1>4 DEF PoolHolds
    <2>2. order \in 0..k_max_order /\ order # k_max_order
      BY OrdersAssumption
    <2>3. X(order) = {}
      BY <1>1, <2>1, <2>2, AllFree
    <2> HIDE DEF q, X
    <2> QED BY <1>2, <2>2, <2>3, ListEmpty
  <1> HIDE DEF T
  <1> QED BY <1>3, <1>4 DEF FreeListsExact

\* The words of a pool.
PoolWords ==
    {[mem |-> b, size |-> HeaderSize] : b \in DOMAIN impl.m_size}
    \cup {[mem |-> b + HeaderSize, size |-> BlockSize - HeaderSize] :
             b \in {c \in DOMAIN impl.m_size : impl.m_size[c].free}}

\* A word belongs to the block that it is in front of or in.
LEMMA WordOfBlock ==
    ASSUME NEW w \in PoolWords
    PROVE  \E b \in DOMAIN impl.m_size :
              \/ w = [mem |-> b, size |-> 8]
              \/ w = [mem |-> b + 8, size |-> 16] /\ impl.m_size[b].free
  BY DEF PoolWords, HeaderSize, BlockSize

\* The tags and links of a pool lie apart, and outside of what is in use.
LEMMA PoolWordsApart ==
    ASSUME PoolHolds(impl, live), LiveOK(live), NEW w \in PoolWords
    PROVE  /\ \A l \in live : Abstract!Apart(w, l)
           /\ \A x \in PoolWords \ {w} : Abstract!Apart(w, x)
  <1> DEFINE ms == impl.m_size
  <1>1. Tiled(ms, impl.m_prev_size, impl.m_chuncks)
    BY DEF PoolHolds, PoolOK
  <1>2. PICK b \in DOMAIN ms : \/ w = [mem |-> b, size |-> 8]
                               \/ w = [mem |-> b + 8, size |-> 16] /\ ms[b].free
    BY WordOfBlock
  <1>3. b \in Nat
    BY <1>1 DEF Tiled
  <1>w. w.mem \in Nat /\ w.size \in Nat /\ b <= w.mem /\ w.mem + w.size <= b + 24
        /\ (w.mem + w.size <= b + 8 \/ ms[b].free)
    BY <1>2, <1>3
  <1>4. ASSUME NEW l \in live PROVE Abstract!Apart(w, l)
    <2>1. l \in Blocks BY DEF LiveOK
    <2>2. CASE Large(l.size, l.align)
      <3>1. l.mem + l.size <= 0 BY <2>2 DEF PoolHolds
      <3> QED BY <1>3, <1>w, <2>1, <3>1 DEF Blocks, Abstract!Apart
    <2>3. CASE ~Large(l.size, l.align)
      <3>1. PICK a \in Used(impl) : l.mem = a + 8 /\ l.size + 8 <= ms[a].size
        BY <2>3 DEF PoolHolds
      <3>2. a \in DOMAIN ms /\ a \in Nat /\ ~ms[a].free /\ ms[a].size \in Nat /\ ms[a].size > 0
        BY <1>1, <3>1 DEF Used, Tiled, Tags
      <3>3. CASE a = b
        <4>1. w.mem + w.size <= l.mem BY <1>w, <3>1, <3>2, <3>3
        <4> QED BY <4>1 DEF Abstract!Apart
      <3>4. CASE b < a
        <4>1. b + 24 <= a BY <1>1, <3>2, <3>4, Gap
        <4>2. w.mem + w.size <= l.mem BY <1>w, <1>3, <3>1, <3>2, <4>1
        <4> QED BY <4>2 DEF Abstract!Apart
      <3>5. CASE a < b
        <4>1. a + ms[a].size <= b
          <5>1. Whole(ms, impl.m_prev_size, a) BY <1>1, <3>2 DEF Tiled
          <5>2. b <= a \/ a + ms[a].size <= b BY <5>1 DEF Whole
          <5> QED BY <1>3, <3>2, <3>5, <5>2
        <4>2. l.mem + l.size <= w.mem BY <1>w, <1>3, <2>1, <3>1, <3>2, <4>1 DEF Blocks
        <4> QED BY <4>2 DEF Abstract!Apart
      <3> QED BY <1>3, <3>2, <3>3, <3>4, <3>5
    <2> QED BY <2>2, <2>3
  <1>5. ASSUME NEW x \in PoolWords \ {w} PROVE Abstract!Apart(w, x)
    <2>1. PICK c \in DOMAIN ms : \/ x = [mem |-> c, size |-> 8]
                                 \/ x = [mem |-> c + 8, size |-> 16] /\ ms[c].free
      BY WordOfBlock
    <2>2. c \in Nat
      BY <1>1 DEF Tiled
    <2>3. x.mem \in Nat /\ x.size \in Nat /\ c <= x.mem /\ x.mem + x.size <= c + 24
      BY <2>1, <2>2
    <2>4. CASE c = b
      <3>1. \/ w = [mem |-> b, size |-> 8] /\ x = [mem |-> b + 8, size |-> 16]
            \/ x = [mem |-> b, size |-> 8] /\ w = [mem |-> b + 8, size |-> 16]
        BY <1>2, <2>1, <2>4
      <3> QED BY <1>3, <3>1 DEF Abstract!Apart
    <2>5. CASE b < c
      <3>1. b + 24 <= c BY <1>1, <2>5, Gap
      <3>2. w.mem + w.size <= x.mem BY <1>3, <1>w, <2>2, <2>3, <3>1
      <3> QED BY <3>2 DEF Abstract!Apart
    <2>6. CASE c < b
      <3>1. c + 24 <= b BY <1>1, <2>6, Gap
      <3>2. x.mem + x.size <= w.mem BY <1>3, <1>w, <2>2, <2>3, <3>1
      <3> QED BY <3>2 DEF Abstract!Apart
    <2> QED BY <1>3, <2>2, <2>4, <2>5, <2>6
  <1> QED BY <1>4, <1>5

-----------------------------------------------------------------------------
(* FixPoolResource.  Every node is a multiple of m_block_size. *)

\* How many multiples of m_block_size the memory of n chunks reaches to.
Reach(n) == 16 * (m_block_per_chunk * n) + m_block_per_chunk
Nodes(n) == {m_block_size * u : u \in 0..(Reach(n) - 1)}

HeadSet(pool) == {pool.m_head[i] : i \in 1..Len(pool.m_head)}

\* The free nodes are listed once, and nobody holds them.
FixHolds(pool, L) ==
    /\ pool = [m_head |-> pool.m_head, m_chunks |-> pool.m_chunks] /\ pool.m_chunks \in Nat
    /\ ListOf(pool.m_head, HeadSet(pool)) /\ HeadSet(pool) \subseteq Nodes(pool.m_chunks)
    /\ \A l \in L : l.mem \in Nodes(pool.m_chunks) \ HeadSet(pool) /\ l.size <= m_block_size

\* The memory of a pool of nodes grows by the same length with every chunk.
LEMMA ReachType ==
    ASSUME NEW n \in Nat
    PROVE  Reach(n) \in Nat /\ m_block_size \in Nat /\ m_block_size >= 8
           /\ Reach(n + 1) = Reach(n) + 16 * m_block_per_chunk /\ m_block_per_chunk \in Nat
           /\ Nodes(n) \subseteq Nat
  <1>1. m_block_size \in Nat /\ m_block_size >= 8 /\ m_block_per_chunk \in Nat
    BY PoolAssumption
  <1>2. Reach(n) \in Nat
    BY <1>1 DEF Reach
  <1>3. Reach(n + 1) = Reach(n) + 16 * m_block_per_chunk
    BY <1>1 DEF Reach
  <1>4. Nodes(n) \subseteq Nat
    <2>1. \A u \in 0..(Reach(n) - 1) : m_block_size * u \in Nat BY <1>1, <1>2
    <2> QED BY <2>1 DEF Nodes
  <1> QED BY <1>1, <1>2, <1>3, <1>4

\* Different multiples of b differ by b at least.
LEMMA Multiples ==
    ASSUME NEW b \in Nat, NEW u \in Nat, NEW v \in Nat, u < v
    PROVE  b * u + b <= b * v
  <1>1. PICK d \in Nat : v = u + 1 + d
    <2>1. v - u - 1 \in Nat OBVIOUS
    <2> QED BY <2>1
  <1>2. b * v = b * u + b + b * d
    BY <1>1
  <1>3. b * d \in Nat /\ b * u \in Nat
    OBVIOUS
  <1>4. PICK x \in Nat : x = b * u
    BY <1>3
  <1>5. PICK y \in Nat : y = b * d
    BY <1>3
  <1>6. b * v = x + b + y
    BY <1>2, <1>4, <1>5
  <1>7. x + b <= x + b + y
    BY <1>4, <1>5
  <1> QED BY <1>4, <1>6, <1>7

\* Nodes are m_block_size apart.
LEMMA NodesApart ==
    ASSUME NEW n \in Nat, NEW x \in Nodes(n), NEW y \in Nodes(n), x # y
    PROVE  x + m_block_size <= y \/ y + m_block_size <= x
  <1>1. PICK u \in 0..(Reach(n) - 1) : x = m_block_size * u
    BY DEF Nodes
  <1>2. PICK v \in 0..(Reach(n) - 1) : y = m_block_size * v
    BY DEF Nodes
  <1>3. u \in Nat /\ v \in Nat /\ m_block_size \in Nat
    BY ReachType
  <1>4. CASE u < v BY <1>1, <1>2, <1>3, <1>4, Multiples
  <1>5. CASE v < u BY <1>1, <1>2, <1>3, <1>5, Multiples
  <1>6. CASE u = v BY <1>1, <1>2, <1>6
  <1> QED BY <1>3, <1>4, <1>5, <1>6

\* A node has every alignment that its size is a multiple of.
LEMMA NodeAligned ==
    ASSUME NEW n \in Nat, NEW x \in Nodes(n), NEW align \in Alignments, m_block_size % align = 0
    PROVE  x % align = 0
  <1>1. PICK u \in 0..(Reach(n) - 1) : x = m_block_size * u
    BY DEF Nodes
  <1>2. u \in Nat /\ m_block_size \in Nat
    BY ReachType
  <1>3. ASSUME NEW a \in {1, 2, 4, 8, 16}, m_block_size % a = 0 PROVE x % a = 0
    <2>1. PICK k \in Nat : m_block_size = a * k
      <3>1. m_block_size = a * (m_block_size \div a) /\ m_block_size \div a \in Nat
        BY <1>2, <1>3
      <3> QED BY <3>1
    <2>2. x = a * (k * u)
      BY <1>1, <1>2, <2>1
    <2>3. PICK w \in Nat : w = k * u
      <3>1. k * u \in Nat BY <1>2
      <3> QED BY <3>1
    <2>4. x = a * w
      BY <2>2, <2>3
    <2> QED BY <1>3, <2>3, <2>4
  <1> QED BY <1>3 DEF Alignments

\* A list without its head.
LEMMA ListTail ==
    ASSUME NEW q, NEW X, ListOf(q, X), q # << >>
    PROVE  ListOf(Tail(q), X \ {Head(q)})
  <1>1. q \in Seq(Nat) /\ Len(q) \in Nat /\ Len(q) > 0
    BY DEF ListOf
  <1>2. PICK p : p = Tail(q)
    OBVIOUS
  <1>3. p \in Seq(Nat) /\ Len(p) = Len(q) - 1 /\ Head(q) = q[1]
    BY <1>1, <1>2
  <1>4. \A i \in 1..Len(p) : p[i] = q[i + 1] /\ i + 1 \in 1..Len(q)
    BY <1>1, <1>2, <1>3
  <1>5. \A i, j \in 1..Len(q) : q[i] = q[j] => i = j
    BY DEF ListOf
  <1>6. \A i, j \in 1..Len(p) : p[i] = p[j] => i = j
    <2>1. ASSUME NEW i \in 1..Len(p), NEW j \in 1..Len(p), p[i] = p[j] PROVE i = j
      <3>1. q[i + 1] = q[j + 1] /\ i + 1 \in 1..Len(q) /\ j + 1 \in 1..Len(q) BY <1>4, <2>1
      <3>2. i + 1 = j + 1 BY <1>5, <3>1
      <3> QED BY <3>2, <1>3, <1>1
    <2> QED BY <2>1
  <1>7. X \ {Head(q)} = {p[i] : i \in 1..Len(p)}
    <2>1. ASSUME NEW i \in 1..Len(p) PROVE p[i] \in X \ {Head(q)}
      <3>1. p[i] = q[i + 1] /\ i + 1 \in 1..Len(q) /\ 1 \in 1..Len(q) /\ i + 1 # 1
        BY <1>1, <1>3, <1>4
      <3> QED BY <3>1, <1>3, <1>5 DEF ListOf
    <2>2. ASSUME NEW x \in X \ {Head(q)} PROVE \E i \in 1..Len(p) : x = p[i]
      <3>1. PICK j \in 1..Len(q) : x = q[j] BY DEF ListOf
      <3>2. j # 1 BY <1>3, <2>2, <3>1
      <3>3. j - 1 \in 1..Len(p) /\ (j - 1) + 1 = j BY <1>1, <1>3, <3>2
      <3> QED BY <1>4, <3>1, <3>3
    <2> QED BY <2>1, <2>2
  <1>8. ListOf(p, X \ {Head(q)})
    BY <1>3, <1>6, <1>7 DEF ListOf
  <1> QED BY <1>2, <1>8

\* The head of a pool lists what it is said to list.
LEMMA HeadSetOf ==
    ASSUME NEW pool, NEW X, ListOf(pool.m_head, X)
    PROVE  HeadSet(pool) = X
  BY DEF ListOf, HeadSet

\* The nodes of a new chunk are beyond all others.
LEMMA NewNodes ==
    ASSUME NEW pool, NEW L, FixHolds(pool, L), pool.m_head = << >>, m_block_per_chunk > 0,
           NEW p, p = new_chunk(pool)
    PROVE  FixHolds(p, L) /\ p.m_head # << >>
  <1> DEFINE n == pool.m_chunks
             B == m_block_size
             P == m_block_per_chunk
  <1>1. n \in Nat /\ n + 1 \in Nat
    BY DEF FixHolds
  <1>2. /\ Reach(n) \in Nat /\ B \in Nat /\ B >= 8 /\ P \in Nat /\ P > 0
        /\ Reach(n + 1) = Reach(n) + 16 * P /\ Reach(n + 1) \in Nat
    BY <1>1, ReachType
  <1>3. p.m_chunks = n + 1 /\ p = [m_head |-> p.m_head, m_chunks |-> p.m_chunks]
        /\ p.m_head = [j \in 1..P |-> PoolChunkAt(n + 1) + (j - 1) * B]
    BY DEF new_chunk
  <1> DEFINE base == 16 * (P * (n + 1))
             q == [j \in 1..P |-> B * (base + (j - 1))]
  <1>4. base \in Nat /\ base = Reach(n) + 15 * P
    <2>1. base = 16 * (P * n) + 16 * P BY <1>1, <1>2
    <2>2. P * n \in Nat BY <1>1, <1>2
    <2> QED BY <1>2, <2>1, <2>2 DEF Reach
  <1>5. p.m_head = q
    <2>1. ASSUME NEW j \in 1..P PROVE PoolChunkAt(n + 1) + (j - 1) * B = B * (base + (j - 1))
      <3>1. PoolChunkAt(n + 1) = (n + 1) * 16 * (B * P) BY DEF PoolChunkAt
      <3>2. (n + 1) * 16 * (B * P) = B * base BY <1>1, <1>2
      <3>3. j - 1 \in Nat BY <1>2
      <3>4. B * (base + (j - 1)) = B * base + B * (j - 1) BY <1>2, <1>4, <3>3
      <3>5. (j - 1) * B = B * (j - 1) BY <1>2, <3>3
      <3> QED BY <3>1, <3>2, <3>4, <3>5
    <2> QED BY <1>3, <2>1
  <1> HIDE DEF base
  <1>6. \A j \in 1..P : base + (j - 1) \in Nat /\ Reach(n) <= base + (j - 1)
                        /\ base + (j - 1) \in 0..(Reach(n + 1) - 1)
    BY <1>2, <1>4
  <1>7. \A j \in 1..P : q[j] \in Nat /\ q[j] \in Nodes(n + 1)
    <2>1. ASSUME NEW j \in 1..P PROVE q[j] \in Nat /\ q[j] \in Nodes(n + 1)
      <3>1. PICK u \in Nat : u = base + (j - 1) /\ u \in 0..(Reach(n + 1) - 1) BY <1>6
      <3>2. q[j] = B * u /\ B * u \in Nat BY <1>2, <3>1
      <3> QED BY <3>1, <3>2 DEF Nodes
    <2> QED BY <2>1
  <1>8. q \in Seq(Nat) /\ Len(q) = P
    <2>1. q \in [1..P -> Nat] BY <1>7
    <2> HIDE DEF q
    <2> QED BY <1>2, <2>1
  <1>9. \A i, j \in 1..P : q[i] = q[j] => i = j
    <2>1. ASSUME NEW i \in 1..P, NEW j \in 1..P, i < j PROVE q[i] # q[j]
      <3>1. PICK u \in Nat : u = base + (i - 1) BY <1>6
      <3>2. PICK v \in Nat : v = base + (j - 1) BY <1>6
      <3>3. u < v BY <1>2, <1>4, <2>1, <3>1, <3>2
      <3>4. B * u + B <= B * v BY <1>2, <3>3, Multiples
      <3>5. q[i] = B * u /\ q[j] = B * v BY <3>1, <3>2
      <3>6. B * u \in Nat /\ B * v \in Nat BY <1>2
      <3> HIDE DEF q
      <3> QED BY <1>2, <3>4, <3>5, <3>6
    <2>2. \A i, j \in 1..P : i < j \/ j < i \/ i = j BY <1>2
    <2> HIDE DEF q
    <2> QED BY <2>1, <2>2
  <1> DEFINE X == {q[i] : i \in 1..P}
  <1>10. ListOf(p.m_head, X)
    <2> HIDE DEF q
    <2> QED BY <1>5, <1>8, <1>9 DEF ListOf
  <1>11. HeadSet(p) = X
    <2> HIDE DEF X
    <2> QED BY <1>10, HeadSetOf
  <1>12. Nodes(n) \subseteq Nodes(n + 1)
    <2>1. 0..(Reach(n) - 1) \subseteq 0..(Reach(n + 1) - 1) BY <1>2
    <2> QED BY <2>1 DEF Nodes
  <1>13. ASSUME NEW l \in L PROVE l.mem \in Nodes(n + 1) \ X /\ l.size <= m_block_size
    <2>1. l.mem \in Nodes(n) /\ l.size <= m_block_size BY DEF FixHolds
    <2>2. ASSUME NEW j \in 1..P, l.mem = q[j] PROVE FALSE
      <3>1. PICK u \in 0..(Reach(n) - 1) : l.mem = B * u BY <2>1 DEF Nodes
      <3>2. PICK v \in Nat : v = base + (j - 1) /\ Reach(n) <= v BY <1>6
      <3>3. u \in Nat /\ u < v BY <1>2, <3>2
      <3>4. B * u + B <= B * v BY <1>2, <3>3, Multiples
      <3>5. B * u = B * v BY <2>2, <3>1, <3>2
      <3>6. B * u \in Nat /\ B * v \in Nat BY <1>2, <3>3
      <3> HIDE DEF q
      <3> QED BY <1>2, <3>4, <3>5, <3>6
    <2> HIDE DEF q
    <2> QED BY <1>12, <2>1, <2>2
  <1>14. p.m_head # << >>
    <2> HIDE DEF q
    <2> QED BY <1>2, <1>5, <1>8
  <1>15. X \subseteq Nodes(n + 1)
    <2> HIDE DEF q
    <2> QED BY <1>7
  <1> HIDE DEF X, q
  <1> QED BY <1>1, <1>3, <1>10, <1>11, <1>13, <1>14, <1>15 DEF FixHolds

\* A node is aligned as promised.
LEMMA NodePromised ==
    ASSUME resource = "FixPoolResource", NEW n \in Nat, NEW m \in Nodes(n),
           NEW b, b.align \in Nat \ {0}, b.align \in Alignments \/ b.align % max_align = 0
    PROVE  m % Promised(b) = 0
  <1>1. CASE b.align > max_align \/ m_block_size % b.align # 0
    <2>1. Promised(b) = 1 BY <1>1 DEF Promised
    <2>2. m \in Nat BY ReachType
    <2>3. m % 1 = 0 BY <2>2
    <2> QED BY <2>1, <2>3
  <1>2. CASE ~(b.align > max_align) /\ m_block_size % b.align = 0
    <2>1. Promised(b) = b.align BY <1>2 DEF Promised
    <2>2. b.align \in Alignments BY <1>2 DEF max_align, Alignments
    <2> QED BY <1>2, <2>1, <2>2, NodeAligned
  <1> QED BY <1>1, <1>2

\* FixPoolResource::do_allocate.
LEMMA FixAllocates ==
    ASSUME NEW pool, NEW L, FixHolds(pool, L), LiveOK(L),
           resource = "FixPoolResource", NEW r, Asked(r), r[1] <= m_block_size, Serves(pool),
           NEW x, x = fix_alloc(pool), NEW block, block = Block(x.mem, r[1], r[2])
    PROVE  Fresh(block, L) /\ FixHolds(x.pool, L \cup {block})
  <1>1. PICK st : st = IF pool.m_head = << >> THEN new_chunk(pool) ELSE pool
    OBVIOUS
  <1>2. FixHolds(st, L) /\ st.m_head # << >>
    BY <1>1, NewNodes DEF Serves
  <1>3. x = [mem |-> Head(st.m_head), pool |-> [st EXCEPT !.m_head = Tail(@)]]
    BY <1>1 DEF fix_alloc
  <1> DEFINE n == st.m_chunks
             H == HeadSet(st)
             m == Head(st.m_head)
             p == x.pool
  <1>4. /\ n \in Nat /\ ListOf(st.m_head, H) /\ H \subseteq Nodes(n)
        /\ st = [m_head |-> st.m_head, m_chunks |-> n]
        /\ \A l \in L : l.mem \in Nodes(n) \ H /\ l.size <= m_block_size
    BY <1>2 DEF FixHolds
  <1>5. p = [m_head |-> Tail(st.m_head), m_chunks |-> n] /\ x.mem = m
    <2>1. PICK a : a = st.m_head OBVIOUS
    <2>2. PICK t : t = Tail(a) OBVIOUS
    <2>3. st = [m_head |-> a, m_chunks |-> n] BY <1>4, <2>1
    <2>4. [st EXCEPT !.m_head = t] = [m_head |-> t, m_chunks |-> n]
      <3> HIDE DEF n
      <3> QED BY <2>3
    <2>5. p = [st EXCEPT !.m_head = t] BY <1>3, <2>1, <2>2
    <2> QED BY <1>3, <2>1, <2>2, <2>4, <2>5
  <1>6. m \in H /\ m \in Nodes(n)
    <2> HIDE DEF H
    <2> QED BY <1>2, <1>4, ListEmpty
  <1>7. ListOf(p.m_head, H \ {m})
    <2>1. p.m_head = Tail(st.m_head) BY <1>5
    <2> HIDE DEF H, p
    <2> QED BY <1>2, <1>4, <2>1, ListTail
  <1>8. HeadSet(p) = H \ {m}
    <2> HIDE DEF p, H
    <2> QED BY <1>7, HeadSetOf
  <1>9. r[1] \in Nat \ {0} /\ r[2] \in Nat \ {0} /\ r[1] <= m_block_size /\ m_block_size \in Nat
    BY PoolAssumption DEF Asked
  <1>10. block.mem = m /\ block.size = r[1] /\ block.align = r[2] /\ m \in Nat
    BY <1>4, <1>5, <1>6, ReachType DEF Block
  <1>11. block \in Blocks
    BY <1>5, <1>9, <1>10 DEF Block, Blocks
  <1>12. block.mem % Promised(block) = 0
    BY <1>4, <1>6, <1>10, NodePromised DEF Asked
  <1>13. ASSUME NEW c \in L PROVE Abstract!Apart(block, c)
    <2>1. c \in Blocks /\ c.mem \in Nodes(n) /\ c.mem \notin H /\ c.size <= m_block_size
      BY <1>4 DEF LiveOK
    <2>2. c.mem # m BY <1>6, <2>1
    <2>3. m + m_block_size <= c.mem \/ c.mem + m_block_size <= m
      BY <1>4, <1>6, <2>1, <2>2, NodesApart
    <2>4. c.mem \in Int /\ c.size \in Nat BY <2>1 DEF Blocks
    <2> HIDE DEF m
    <2>5. m + r[1] <= c.mem \/ c.mem + c.size <= m
      BY <1>9, <1>10, <2>1, <2>3, <2>4
    <2> QED BY <1>10, <2>5 DEF Abstract!Apart
  <1>14. Fresh(block, L)
    BY <1>11, <1>12, <1>13 DEF Fresh
  <1>15. FixHolds(p, L \cup {block})
    <2>1. p = [m_head |-> p.m_head, m_chunks |-> p.m_chunks] /\ p.m_chunks = n
      BY <1>5
    <2> HIDE DEF p, H, m, n
    <2>2. \A l \in L \cup {block} : l.mem \in Nodes(n) \ (H \ {m}) /\ l.size <= m_block_size
      BY <1>4, <1>6, <1>9, <1>10
    <2> QED BY <1>4, <1>7, <1>8, <2>1, <2>2 DEF FixHolds
  <1> QED BY <1>14, <1>15

\* FixPoolResource::do_deallocate.
LEMMA FixFrees ==
    ASSUME NEW pool, NEW L, FixHolds(pool, L), LiveOK(L), NEW l \in L
    PROVE  FixHolds(fix_free(pool, l.mem), L \ {l})
  <1>1. PICK p : p = fix_free(pool, l.mem)
    OBVIOUS
  <1> DEFINE n == pool.m_chunks
             H == HeadSet(pool)
  <1>2. /\ n \in Nat /\ ListOf(pool.m_head, H) /\ H \subseteq Nodes(n)
        /\ pool = [m_head |-> pool.m_head, m_chunks |-> n]
        /\ \A c \in L : c.mem \in Nodes(n) \ H /\ c.size <= m_block_size
    BY DEF FixHolds
  <1>3. p = [m_head |-> <<l.mem>> \o pool.m_head, m_chunks |-> n]
    BY <1>1, <1>2 DEF fix_free
  <1>4. l.mem \in Nat /\ l.mem \notin H /\ l.mem \in Nodes(n)
    BY <1>2, ReachType
  <1>5. \A c \in L \ {l} : c.mem # l.mem
    BY LiveLess
  <1> HIDE DEF H, n
  <1>6. ListOf(p.m_head, H \cup {l.mem})
    <2>1. p.m_head = <<l.mem>> \o pool.m_head BY <1>3
    <2>2. PICK b : b = l.mem OBVIOUS
    <2>3. ListOf(<<b>> \o pool.m_head, H \cup {b}) BY <1>2, <1>4, <2>2, ListPush
    <2> QED BY <2>1, <2>2, <2>3
  <1>7. HeadSet(p) = H \cup {l.mem}
    BY <1>6, HeadSetOf
  <1>8. \A c \in L \ {l} : c.mem \in Nodes(n) \ (H \cup {l.mem}) /\ c.size <= m_block_size
    BY <1>2, <1>5
  <1>9. p = [m_head |-> p.m_head, m_chunks |-> p.m_chunks] /\ p.m_chunks = n
    BY <1>3
  <1>10. FixHolds(p, L \ {l})
    BY <1>2, <1>4, <1>6, <1>7, <1>8, <1>9 DEF FixHolds
  <1> QED BY <1>1, <1>10

\* The links of the free nodes.
FixWords == {[mem |-> impl.m_head[i], size |-> NodeSize] : i \in DOMAIN impl.m_head}

\* The links of the free nodes lie apart, and outside of what is in use.
LEMMA FixWordsApart ==
    ASSUME FixHolds(impl, live), LiveOK(live), NEW w \in FixWords
    PROVE  /\ \A l \in live : Abstract!Apart(w, l)
           /\ \A x \in FixWords \ {w} : Abstract!Apart(w, x)
  <1> DEFINE n == impl.m_chunks
             H == HeadSet(impl)
  <1>1. /\ n \in Nat /\ H \subseteq Nodes(n)
        /\ \A c \in live : c.mem \in Nodes(n) \ H /\ c.size <= m_block_size
        /\ DOMAIN impl.m_head = 1..Len(impl.m_head)
    BY DEF FixHolds, ListOf
  <1>2. ASSUME NEW x \in FixWords PROVE x = [mem |-> x.mem, size |-> 8] /\ x.mem \in H
    BY <1>1 DEF FixWords, HeadSet, NodeSize
  <1>3. m_block_size \in Nat /\ m_block_size >= 8 /\ Nodes(n) \subseteq Nat
    BY <1>1, ReachType
  <1> HIDE DEF n, H
  <1>4. w.size = 8 /\ w.mem \in H /\ w.mem \in Nodes(n) /\ w.mem \in Nat
    <2>1. w = [mem |-> w.mem, size |-> 8] /\ w.mem \in H BY <1>2
    <2> QED BY <1>1, <1>3, <2>1
  <1>5. ASSUME NEW l \in live PROVE Abstract!Apart(w, l)
    <2>1. l \in Blocks /\ l.mem \in Nodes(n) /\ l.mem \notin H /\ l.size <= m_block_size
      BY <1>1 DEF LiveOK
    <2>2. w.mem # l.mem BY <1>4, <2>1
    <2>3. w.mem + m_block_size <= l.mem \/ l.mem + m_block_size <= w.mem
      BY <1>1, <1>4, <2>1, <2>2, NodesApart
    <2>4. l.mem \in Int /\ l.size \in Nat BY <2>1 DEF Blocks
    <2>5. w.mem + w.size <= l.mem \/ l.mem + l.size <= w.mem
      BY <1>3, <1>4, <2>1, <2>3, <2>4
    <2> QED BY <2>5 DEF Abstract!Apart
  <1>6. ASSUME NEW x \in FixWords \ {w} PROVE Abstract!Apart(w, x)
    <2>1. /\ x = [mem |-> x.mem, size |-> 8] /\ x.mem \in H
          /\ w = [mem |-> w.mem, size |-> 8]
      BY <1>2
    <2>2. x.mem # w.mem /\ x.size = 8 /\ x.mem \in Nodes(n) /\ x.mem \in Nat
      BY <1>1, <1>3, <2>1
    <2>3. w.mem + m_block_size <= x.mem \/ x.mem + m_block_size <= w.mem
      BY <1>1, <1>4, <2>2, NodesApart
    <2>4. w.mem + w.size <= x.mem \/ x.mem + x.size <= w.mem
      BY <1>3, <1>4, <2>2, <2>3
    <2> QED BY <2>4 DEF Abstract!Apart
  <1> QED BY <1>5, <1>6

-----------------------------------------------------------------------------
(* StackfulPool. *)

Over(l) == l.align > max_align

\* What lies above the block l starts at e or higher.
Above(L, l, e) ==
    /\ e \in Nat /\ e % 16 = 0
    /\ \A c \in L : l.mem < c.mem => e <= c.mem

\* The word that a block has behind it.
WordOf(l, s) ==
    /\ s.slot = SlotOf(l.mem, l.size)
    /\ s.slot + WordSize <= s.base

\* Nothing in use is below m_base; freeing the lowest block moves m_base to where the
\* next one starts or lower; and there is one saved word for each over-aligned block.
StackHolds(pool, L) ==
    /\ pool = [m_base |-> pool.m_base, saved |-> pool.saved]
    /\ pool.m_base \in Nat /\ pool.m_base % 16 = 0
    /\ \A l \in L : pool.m_base <= l.mem
    /\ \A l \in L : ~Over(l) => Above(L, l, l.mem + up_round(l.size, max_align))
    /\ \A l \in L : Over(l) => \E s \in pool.saved : WordOf(l, s) /\ Above(L, l, s.base)
    /\ \A s \in pool.saved : /\ s = [slot |-> s.slot, base |-> s.base]
                             /\ \E l \in L : Over(l) /\ WordOf(l, s) /\ Above(L, l, s.base)
    /\ \A s, t \in pool.saved : s.slot = t.slot => s = t

\* up_round is the next multiple; a saved word fits behind a size where it must.
LEMMA UpRound ==
    ASSUME NEW bytes \in Nat \ {0}
    PROVE  /\ up_round(bytes, 16) \in Nat /\ up_round(bytes, 16) >= bytes
           /\ up_round(bytes, 16) % 16 = 0
           /\ up_round(bytes, 8) \in Nat /\ up_round(bytes, 8) >= bytes
           /\ (bytes - 1) % 16 < 8 => up_round(bytes, 8) + 8 = up_round(bytes, 16)
  <1>1. bytes \in Nat /\ bytes > 0
    OBVIOUS
  <1>2. up_round(bytes, 16) \in Nat /\ up_round(bytes, 16) >= bytes /\ up_round(bytes, 16) % 16 = 0
    BY <1>1 DEF up_round
  <1>3. up_round(bytes, 8) \in Nat /\ up_round(bytes, 8) >= bytes
    BY <1>1 DEF up_round
  <1>4. (bytes - 1) % 16 < 8 => up_round(bytes, 8) + 8 = up_round(bytes, 16)
    BY <1>1 DEF up_round
  <1> QED BY <1>2, <1>3, <1>4

\* down_round is a multiple of what it rounds to, and no larger.
LEMMA RoundedDown ==
    ASSUME NEW x \in Int, NEW a \in Nat, a > 16, a % 16 = 0,
           NEW y, y = down_round(x, a), y >= 0
    PROVE  y \in Nat /\ y <= x /\ y % a = 0 /\ y % 16 = 0
  <1>1. y = x - (x % a)
    BY DEF down_round
  <1>2. x % a \in 0..(a - 1)
    OBVIOUS
  <1>3. x \in Nat /\ y \in Nat /\ y <= x
    BY <1>1, <1>2
  <1>4. PICK q \in Nat : x = a * q + (x % a)
    <2>1. x = a * (x \div a) + (x % a) /\ x \div a \in Nat BY <1>3
    <2> QED BY <2>1
  <1>5. y = a * q
    <2>1. PICK w \in Nat : w = a * q
      <3>1. a * q \in Nat OBVIOUS
      <3> QED BY <3>1
    <2>2. PICK m \in Nat : m = x % a BY <1>2
    <2>3. x = w + m /\ y = x - m BY <1>1, <1>4, <2>1, <2>2
    <2>4. y = w BY <2>2, <2>3
    <2> QED BY <2>1, <2>4
  <1>6. (a * q) % a = 0
    OBVIOUS
  <1>7. (a * q) % 16 = 0
    <2>1. PICK k \in Nat : a = 16 * k
      <3>1. a = 16 * (a \div 16) /\ a \div 16 \in Nat OBVIOUS
      <3> QED BY <3>1
    <2>2. PICK w \in Nat : w = k * q
      <3>1. k * q \in Nat OBVIOUS
      <3> QED BY <3>1
    <2>3. a * q = 16 * w BY <2>1, <2>2
    <2> QED BY <2>3
  <1> QED BY <1>3, <1>5, <1>6, <1>7

\* The stack aligns as asked.
LEMMA StackPromised ==
    ASSUME resource = "StackfulPool", NEW b PROVE Promised(b) = b.align
  BY DEF Promised

\* A block below all others, which are at `old` or higher.
LEMMA PushedAbove ==
    ASSUME NEW L, L \subseteq Blocks, NEW old \in Nat, old % 16 = 0, \A l \in L : old <= l.mem,
           NEW block \in Blocks, block.mem + block.size <= old
    PROVE  /\ \A l \in L \cup {block} : block.mem <= l.mem
           /\ Above(L \cup {block}, block, old)
           /\ \A l \in L : \A e : Above(L, l, e) => Above(L \cup {block}, l, e)
           /\ \A c \in L : Abstract!Apart(block, c)
  <1>1. block.mem \in Int /\ block.size \in Nat /\ block.size > 0
    BY DEF Blocks
  <1>2. \A l \in L : l.mem \in Int /\ block.mem < l.mem /\ old <= l.mem
    BY <1>1 DEF Blocks
  <1>3. \A l \in L \cup {block} : block.mem <= l.mem
    BY <1>1, <1>2
  <1>4. Above(L \cup {block}, block, old)
    BY <1>1, <1>2 DEF Above
  <1>5. ASSUME NEW l \in L, NEW e, Above(L, l, e) PROVE Above(L \cup {block}, l, e)
    <2>1. ~(l.mem < block.mem) BY <1>1, <1>2
    <2> QED BY <1>5, <2>1 DEF Above
  <1>6. ASSUME NEW c \in L PROVE Abstract!Apart(block, c)
    BY <1>1, <1>2 DEF Abstract!Apart
  <1> QED BY <1>3, <1>4, <1>5, <1>6

\* StackfulPool::allocate of what malloc would align.
LEMMA StackPush ==
    ASSUME NEW pool, NEW L, StackHolds(pool, L), LiveOK(L),
           resource = "StackfulPool", NEW r, Asked(r), ~(r[2] > max_align),
           NEW x, x = allocate(pool, r[1], r[2]), x.guarded,
           NEW block, block = Block(x.mem, r[1], r[2])
    PROVE  Fresh(block, L) /\ StackHolds(x.pool, L \cup {block})
  <1> DEFINE old == pool.m_base
             base == old - up_round(r[1], 16)
             p == x.pool
  <1>1. r[1] \in Nat \ {0} /\ r[2] \in Nat \ {0} /\ r[2] \in Alignments
    BY DEF max_align, Asked, Alignments
  <1>2. x = [mem |-> base, guarded |-> base >= 0, defined |-> TRUE,
             pool |-> [pool EXCEPT !.m_base = base]]
    BY DEF allocate, max_align
  <1>3. /\ old \in Nat /\ old % 16 = 0 /\ pool = [m_base |-> old, saved |-> pool.saved]
        /\ \A l \in L : old <= l.mem
    BY DEF StackHolds
  <1>4. /\ base \in Nat /\ base % 16 = 0 /\ base + r[1] <= old
        /\ base + up_round(r[1], 16) = old
    <2>1. base >= 0
      <3> HIDE DEF base
      <3>1. PICK q : q = [pool EXCEPT !.m_base = base] OBVIOUS
      <3>2. PICK g : g = (base >= 0) OBVIOUS
      <3>3. x = [mem |-> base, guarded |-> g, defined |-> TRUE, pool |-> q]
        BY <1>2, <3>1, <3>2, Zenon
      <3>4. x.guarded = g BY <3>3
      <3>5. g BY <3>4
      <3> QED BY <3>2, <3>5, Zenon
    <2> HIDE DEF old
    <2>2. PICK u \in Nat : u = up_round(r[1], 16) /\ u >= r[1] /\ u % 16 = 0 BY <1>1, UpRound
    <2>3. base = old - u BY <2>2
    <2>4. r[1] \in Nat BY <1>1
    <2> HIDE DEF base
    <2>5. base \in Nat /\ base + r[1] <= old /\ base + u = old BY <1>3, <2>1, <2>2, <2>3, <2>4
    <2>6. base % 16 = 0 BY <1>3, <2>2, <2>5
    <2> QED BY <2>2, <2>5, <2>6
  <1>5. p = [m_base |-> base, saved |-> pool.saved] /\ x.mem = base
    <2> HIDE DEF base
    <2> QED BY <1>2, <1>3
  <1> HIDE DEF base, p, old
  <1>6. block.mem = base /\ block.size = r[1] /\ block.align = r[2] /\ block \in Blocks
    BY <1>1, <1>4, <1>5 DEF Block, Blocks
  <1>7. block.mem % Promised(block) = 0
    <2>1. Promised(block) = r[2] BY <1>6, StackPromised
    <2>2. base % r[2] = 0 BY <1>1, <1>4 DEF Alignments
    <2> QED BY <1>6, <2>1, <2>2
  <1>8. /\ \A l \in L \cup {block} : base <= l.mem
        /\ Above(L \cup {block}, block, old)
        /\ \A l \in L : \A e : Above(L, l, e) => Above(L \cup {block}, l, e)
        /\ \A c \in L : Abstract!Apart(block, c)
    <2>1. block.mem + block.size <= old BY <1>4, <1>6
    <2>2. L \subseteq Blocks BY DEF LiveOK
    <2> QED BY <1>3, <1>6, <2>1, <2>2, PushedAbove, Zenon
  <1>9. Fresh(block, L)
    BY <1>6, <1>7, <1>8 DEF Fresh
  <1>10. ~Over(block)
    BY <1>6 DEF Over
  <1>11. ASSUME NEW l \in L \cup {block}, ~Over(l)
         PROVE  Above(L \cup {block}, l, l.mem + up_round(l.size, max_align))
    <2>1. CASE l = block
      <3>1. l.mem + up_round(l.size, max_align) = old BY <1>4, <1>6, <2>1 DEF max_align
      <3> QED BY <1>8, <2>1, <3>1
    <2>2. CASE l \in L
      <3>1. Above(L, l, l.mem + up_round(l.size, max_align)) BY <1>11, <2>2 DEF StackHolds
      <3> QED BY <1>8, <2>2, <3>1
    <2> QED BY <2>1, <2>2
  <1>12. ASSUME NEW l \in L \cup {block}, Over(l)
         PROVE  \E s \in p.saved : WordOf(l, s) /\ Above(L \cup {block}, l, s.base)
    <2>1. l \in L BY <1>10, <1>12
    <2>2. \E s \in pool.saved : WordOf(l, s) /\ Above(L, l, s.base)
      BY <1>12, <2>1 DEF StackHolds
    <2> QED BY <1>5, <1>8, <2>1, <2>2
  <1>13. \A s \in p.saved :
            /\ s = [slot |-> s.slot, base |-> s.base]
            /\ \E l \in L \cup {block} : Over(l) /\ WordOf(l, s) /\ Above(L \cup {block}, l, s.base)
    BY <1>5, <1>8 DEF StackHolds
  <1>14. \A s, t \in p.saved : s.slot = t.slot => s = t
    BY <1>5 DEF StackHolds
  <1>15. p = [m_base |-> p.m_base, saved |-> p.saved] /\ p.m_base = base
    BY <1>5
  <1>16. StackHolds(p, L \cup {block})
    BY <1>4, <1>8, <1>11, <1>12, <1>13, <1>14, <1>15 DEF StackHolds
  <1> QED BY <1>9, <1>16 DEF p

\* StackfulPool::allocate of what is aligned more than malloc would.
LEMMA StackPushOver ==
    ASSUME NEW pool, NEW L, StackHolds(pool, L), LiveOK(L),
           resource = "StackfulPool", NEW r, Asked(r), r[2] > max_align,
           NEW x, x = allocate(pool, r[1], r[2]), x.guarded, x.defined,
           NEW block, block = Block(x.mem, r[1], r[2])
    PROVE  Fresh(block, L) /\ StackHolds(x.pool, L \cup {block})
  <1> DEFINE old == pool.m_base
             p == x.pool
  <1>1. /\ r[1] \in Nat \ {0} /\ r[2] \in Nat \ {0} /\ r[2] > 16 /\ r[2] % 16 = 0
    BY DEF max_align, Asked, Alignments
  <1>2. PICK low : low = down_round(old - r[1], r[2])
    OBVIOUS
  <1>3. /\ old \in Nat /\ old % 16 = 0 /\ pool = [m_base |-> old, saved |-> pool.saved]
        /\ \A l \in L : old <= l.mem
    BY DEF StackHolds
  <1> DEFINE tight == /\ up_round(r[1], WordSize) = up_round(r[1], r[2])
                      /\ old - low < WordSize
             start == IF tight THEN low - r[2] ELSE low
             word(b) == [slot |-> SlotOf(b, r[1]), base |-> old]
             after(b) == [m_base |-> b, saved |-> pool.saved \cup {word(b)}]
             room(b) == b >= 0 /\ SlotOf(b, r[1]) + WordSize <= old
  <1>4. x = [mem |-> start, guarded |-> low >= 0, defined |-> room(start), pool |-> after(start)]
    BY <1>1, <1>2, Zenon DEF allocate, OverAligned, max_align
  <1>b. PICK base : base = start
    OBVIOUS
  <1>5. low >= 0 /\ room(base) /\ x.mem = base /\ p = after(base)
    <2>1. PICK q : q = after(base) OBVIOUS
    <2>2. PICK g : g = (low >= 0) OBVIOUS
    <2>3. PICK d : d = room(base) OBVIOUS
    <2>4. x = [mem |-> base, guarded |-> g, defined |-> d, pool |-> q]
      BY <1>4, <1>b, <2>1, <2>2, <2>3, Zenon
    <2>8. x.guarded = g BY <2>4
    <2>9. x.defined = d BY <2>4
    <2>5. x.guarded = g /\ x.defined = d /\ x.mem = base /\ x.pool = q BY <2>4, <2>8, <2>9
    <2>6. g /\ d BY <2>5, Zenon
    <2>7. low >= 0 /\ room(base) BY <2>2, <2>3, <2>6, Zenon
    <2> QED BY <2>1, <2>5, <2>7, Zenon
  <1>s. base = low \/ base = low - r[2]
    BY <1>b
  <1>a. base >= 0 /\ SlotOf(base, r[1]) + WordSize <= old
    BY <1>5, Zenon
  <1> HIDE DEF old, start, tight, room, p
  <1>6. base \in Nat /\ base % r[2] = 0 /\ base % 16 = 0 /\ base <= old - r[1]
    <2>1. old - r[1] \in Int BY <1>1, <1>3
    <2>2. low \in Nat /\ low % r[2] = 0 /\ low % 16 = 0 /\ low <= old - r[1]
      BY <1>1, <1>2, <1>5, <2>1, RoundedDown
    <2>3. CASE base = low BY <2>2, <2>3
    <2>4. CASE base = low - r[2]
      <3>1. base \in Nat /\ base <= old - r[1] /\ base % 16 = 0 BY <1>1, <1>a, <2>1, <2>2, <2>4
      <3>2. base % r[2] = 0
        <4>1. PICK q \in Nat : low = r[2] * q
          <5>1. low = r[2] * (low \div r[2]) /\ low \div r[2] \in Nat BY <1>1, <2>2
          <5> QED BY <5>1
        <4>2. q > 0 BY <1>1, <1>a, <2>4, <4>1
        <4>3. base = r[2] * (q - 1) /\ q - 1 \in Nat BY <1>1, <2>4, <4>1, <4>2
        <4>4. PICK n \in Nat : n = q - 1 BY <4>3
        <4>5. PICK a \in Nat : a = r[2] /\ a > 16 BY <1>1
        <4>6. (a * n) % a = 0 BY <4>5
        <4> QED BY <4>3, <4>4, <4>5, <4>6
      <3> QED BY <3>1, <3>2
    <2> QED BY <1>s, <2>3, <2>4
  <1>7. PICK u \in Nat : u = up_round(r[1], 8) /\ u >= r[1] /\ base + u + 8 <= old
    <2>1. PICK u \in Nat : u = up_round(r[1], 8) /\ u >= r[1] BY <1>1, UpRound
    <2>2. base + u + 8 <= old BY <1>a, <2>1 DEF SlotOf, WordSize
    <2> QED BY <2>1, <2>2
  <1>9. x.mem = base /\ p = after(base)
    BY <1>5
  <1>10. PICK s : s = word(base)
    OBVIOUS
  <1>11. p = [m_base |-> base, saved |-> pool.saved \cup {s}]
    BY <1>9, <1>10
  <1>12. s = [slot |-> s.slot, base |-> s.base] /\ s.base = old /\ s.slot = base + u
         /\ s.slot \in Nat /\ s.slot + 8 <= old
    <2>1. s = [slot |-> base + u, base |-> old] BY <1>7, <1>10 DEF SlotOf, WordSize
    <2> QED BY <1>6, <1>7, <2>1
  <1> HIDE DEF word, after
  <1>13. block.mem = base /\ block.size = r[1] /\ block.align = r[2] /\ block \in Blocks
    BY <1>1, <1>6, <1>9 DEF Block, Blocks
  <1>14. block.mem % Promised(block) = 0
    <2>1. Promised(block) = r[2] BY <1>13, StackPromised
    <2> QED BY <1>6, <1>13, <2>1
  <1>15. /\ \A l \in L \cup {block} : base <= l.mem
         /\ Above(L \cup {block}, block, old)
         /\ \A l \in L : \A e : Above(L, l, e) => Above(L \cup {block}, l, e)
         /\ \A c \in L : Abstract!Apart(block, c)
    <2>1. block.mem + block.size <= old BY <1>1, <1>3, <1>6, <1>7, <1>13
    <2>2. L \subseteq Blocks BY DEF LiveOK
    <2> QED BY <1>3, <1>13, <2>1, <2>2, PushedAbove, Zenon
  <1>16. Fresh(block, L)
    BY <1>13, <1>14, <1>15 DEF Fresh
  <1>17. Over(block) /\ WordOf(block, s)
    <2>1. Over(block) BY <1>13 DEF Over
    <2>2. s.slot = SlotOf(block.mem, block.size) BY <1>7, <1>12, <1>13 DEF SlotOf, WordSize
    <2>3. s.slot + WordSize <= s.base BY <1>12 DEF WordSize
    <2> QED BY <2>1, <2>2, <2>3 DEF WordOf
  <1>18. ASSUME NEW l \in L \cup {block}, ~Over(l)
         PROVE  Above(L \cup {block}, l, l.mem + up_round(l.size, max_align))
    <2>1. l \in L BY <1>17, <1>18
    <2>2. Above(L, l, l.mem + up_round(l.size, max_align)) BY <1>18, <2>1 DEF StackHolds
    <2> QED BY <1>15, <2>1, <2>2
  <1>19. ASSUME NEW l \in L \cup {block}, Over(l)
         PROVE  \E t \in p.saved : WordOf(l, t) /\ Above(L \cup {block}, l, t.base)
    <2>1. CASE l = block BY <1>11, <1>12, <1>15, <1>17, <2>1
    <2>2. CASE l \in L
      <3>1. \E t \in pool.saved : WordOf(l, t) /\ Above(L, l, t.base)
        BY <1>19, <2>2 DEF StackHolds
      <3> QED BY <1>11, <1>15, <2>2, <3>1
    <2> QED BY <2>1, <2>2
  <1>20. ASSUME NEW t \in p.saved
         PROVE  /\ t = [slot |-> t.slot, base |-> t.base]
                /\ \E l \in L \cup {block} : Over(l) /\ WordOf(l, t) /\ Above(L \cup {block}, l, t.base)
    <2>1. CASE t = s BY <1>12, <1>15, <1>17, <2>1
    <2>2. CASE t \in pool.saved
      <3>1. /\ t = [slot |-> t.slot, base |-> t.base]
            /\ \E l \in L : Over(l) /\ WordOf(l, t) /\ Above(L, l, t.base)
        BY <2>2 DEF StackHolds
      <3> QED BY <1>15, <3>1
    <2> QED BY <1>11, <2>1, <2>2
  <1>21. ASSUME NEW t \in pool.saved PROVE t.slot # s.slot
    <2>1. PICK l \in L : WordOf(l, t) BY DEF StackHolds
    <2>2. l.mem \in Int /\ l.size \in Nat \ {0} /\ old <= l.mem BY <1>3 DEF LiveOK, Blocks
    <2>3. PICK v \in Nat : v = up_round(l.size, 8) BY <2>2, UpRound
    <2>4. t.slot = l.mem + v BY <2>1, <2>3 DEF WordOf, SlotOf, WordSize
    <2> QED BY <1>3, <1>12, <2>2, <2>3, <2>4
  <1>22. \A t, t2 \in p.saved : t.slot = t2.slot => t = t2
    <2>1. \A t, t2 \in pool.saved : t.slot = t2.slot => t = t2 BY DEF StackHolds
    <2> QED BY <1>11, <1>21, <2>1
  <1>23. p = [m_base |-> p.m_base, saved |-> p.saved] /\ p.m_base = base
    BY <1>11
  <1>24. StackHolds(p, L \cup {block})
    BY <1>6, <1>15, <1>18, <1>19, <1>20, <1>22, <1>23 DEF StackHolds
  <1> QED BY <1>16, <1>24 DEF p

\* The saved base has room behind a size of which this is known.
LEMMA StackRoom ==
    ASSUME NEW pool, NEW L, StackHolds(pool, L),
           NEW r, Asked(r), r[2] > max_align, (r[1] - 1) % 16 < 8,
           NEW x, x = allocate(pool, r[1], r[2]), x.guarded
    PROVE  x.defined
  <1> DEFINE old == pool.m_base
  <1>1. /\ r[1] \in Nat \ {0} /\ r[2] \in Nat \ {0} /\ r[2] > 16 /\ r[2] % 16 = 0
    BY DEF max_align, Asked, Alignments
  <1>2. PICK low : low = down_round(old - r[1], r[2])
    OBVIOUS
  <1>3. old \in Nat /\ old % 16 = 0
    BY DEF StackHolds
  <1> DEFINE tight == /\ up_round(r[1], WordSize) = up_round(r[1], r[2])
                      /\ old - low < WordSize
             start == IF tight THEN low - r[2] ELSE low
             word(b) == [slot |-> SlotOf(b, r[1]), base |-> old]
             after(b) == [m_base |-> b, saved |-> pool.saved \cup {word(b)}]
             room(b) == b >= 0 /\ SlotOf(b, r[1]) + WordSize <= old
  <1>4. x = [mem |-> start, guarded |-> low >= 0, defined |-> room(start), pool |-> after(start)]
    BY <1>1, <1>2, Zenon DEF allocate, OverAligned, max_align
  <1>5. low >= 0 /\ (room(start) => x.defined)
    <2>1. PICK q : q = after(start) OBVIOUS
    <2>2. PICK g : g = (low >= 0) OBVIOUS
    <2>3. PICK d : d = room(start) OBVIOUS
    <2>0. PICK b : b = start OBVIOUS
    <2>4. x = [mem |-> b, guarded |-> g, defined |-> d, pool |-> q]
      BY <1>4, <2>0, <2>1, <2>2, <2>3, Zenon
    <2>8. x.guarded = g BY <2>4
    <2>9. x.defined = d BY <2>4
    <2>5. x.guarded = g /\ x.defined = d BY <2>8, <2>9
    <2>6. g /\ (d => x.defined) BY <2>5, Zenon
    <2> QED BY <2>2, <2>3, <2>6, Zenon
  <1> HIDE DEF old
  <1>6. low \in Nat /\ low % 16 = 0 /\ low <= old - r[1]
    <2>1. old - r[1] \in Int BY <1>1, <1>3
    <2> QED BY <1>1, <1>2, <1>5, <2>1, RoundedDown
  <1>7. PICK u \in Nat : u = up_round(r[1], 8) /\ u >= r[1] /\ low + u + 8 <= old
    <2>1. PICK u \in Nat : u = up_round(r[1], 8) /\ u >= r[1] BY <1>1, UpRound
    <2>2. PICK v \in Nat : v = up_round(r[1], 16) BY <1>1, UpRound
    <2>3. u + 8 = v BY <1>1, <2>1, <2>2, UpRound
    <2>4. PICK d \in Nat : d = old - low
      <3>1. old - low \in Nat BY <1>1, <1>3, <1>6
      <3> QED BY <3>1
    <2>5. d >= r[1] /\ d % 16 = 0 /\ low + d = old BY <1>1, <1>3, <1>6, <2>4
    <2>6. v <= d
      <3>1. v = r[1] + ((-r[1]) % 16) BY <2>2 DEF up_round
      <3>2. r[1] \in Nat BY <1>1
      <3> QED BY <2>5, <3>1, <3>2
    <2> QED BY <1>3, <1>6, <2>1, <2>3, <2>5, <2>6
  <1>8. ~tight
    <2>1. r[1] \in Nat /\ r[1] > 0 BY <1>1
    <2>2. ~(old - low < 8) BY <1>3, <1>6, <1>7, <2>1
    <2> QED BY <2>2 DEF WordSize
  <1>9. start = low
    BY <1>8
  <1>10. low >= 0 /\ SlotOf(low, r[1]) + WordSize <= old
    BY <1>6, <1>7 DEF SlotOf, WordSize
  <1> HIDE DEF tight, start
  <1>11. room(start)
    BY <1>9, <1>10
  <1> QED BY <1>5, <1>11

\* StackfulPool::deallocate of the lowest block.
LEMMA StackPop ==
    ASSUME NEW pool, NEW L, StackHolds(pool, L), LiveOK(L),
           NEW b \in L, \A c \in L : b.mem <= c.mem
    PROVE  StackHolds(deallocate(pool, b.mem, b.size, b.align), L \ {b})
  <1>1. PICK p : p = deallocate(pool, b.mem, b.size, b.align)
    OBVIOUS
  <1>2. /\ b \in Blocks /\ b.mem \in Int
        /\ \A c \in L \ {b} : c.mem \in Int /\ b.mem < c.mem
    <2>1. b \in Blocks /\ \A c \in L \ {b} : c \in Blocks /\ c.mem # b.mem BY LiveLess
    <2>2. b.mem \in Int BY <2>1 DEF Blocks
    <2>3. ASSUME NEW c \in L \ {b} PROVE c.mem \in Int /\ b.mem < c.mem
      <3>1. c.mem \in Int /\ c.mem # b.mem /\ b.mem <= c.mem BY <2>1 DEF Blocks
      <3> QED BY <2>2, <3>1
    <2> QED BY <2>1, <2>2, <2>3
  <1>3. ASSUME NEW l \in L \ {b}, NEW e, Above(L, l, e) PROVE Above(L \ {b}, l, e)
    BY <1>3 DEF Above
  <1>4. ASSUME NEW l \in L \ {b}, ~Over(l)
        PROVE  Above(L \ {b}, l, l.mem + up_round(l.size, max_align))
    <2>1. Above(L, l, l.mem + up_round(l.size, max_align)) BY <1>4 DEF StackHolds
    <2> QED BY <1>3, <2>1
  <1>5. pool = [m_base |-> pool.m_base, saved |-> pool.saved]
    BY DEF StackHolds
  <1>6. CASE ~Over(b)
    <2> DEFINE e == b.mem + up_round(b.size, max_align)
    <2>1. p = [m_base |-> e, saved |-> pool.saved]
      <3>1. p = [pool EXCEPT !.m_base = e] BY <1>1, <1>6 DEF deallocate, Over
      <3> HIDE DEF e
      <3> QED BY <1>5, <3>1
    <2>2. Above(L, b, e) BY <1>6 DEF StackHolds
    <2>3. e \in Nat /\ e % 16 = 0 /\ \A c \in L \ {b} : e <= c.mem
      BY <1>2, <2>2 DEF Above
    <2>4. ASSUME NEW l \in L \ {b}, Over(l)
          PROVE  \E s \in p.saved : WordOf(l, s) /\ Above(L \ {b}, l, s.base)
      <3>1. \E s \in pool.saved : WordOf(l, s) /\ Above(L, l, s.base)
        BY <2>4 DEF StackHolds
      <3> QED BY <1>3, <2>1, <3>1
    <2>5. ASSUME NEW s \in p.saved
          PROVE  /\ s = [slot |-> s.slot, base |-> s.base]
                 /\ \E l \in L \ {b} : Over(l) /\ WordOf(l, s) /\ Above(L \ {b}, l, s.base)
      <3>1. PICK l \in L : Over(l) /\ WordOf(l, s) /\ Above(L, l, s.base)
        BY <2>1, <2>5 DEF StackHolds
      <3>2. l \in L \ {b} BY <1>6, <3>1
      <3>3. s = [slot |-> s.slot, base |-> s.base] BY <2>1, <2>5 DEF StackHolds
      <3> QED BY <1>3, <3>1, <3>2, <3>3
    <2>6. \A s, t \in p.saved : s.slot = t.slot => s = t
      BY <2>1 DEF StackHolds
    <2>7. p = [m_base |-> p.m_base, saved |-> p.saved] /\ p.m_base = e
      BY <2>1
    <2> HIDE DEF e
    <2>8. StackHolds(p, L \ {b})
      BY <1>4, <2>3, <2>4, <2>5, <2>6, <2>7 DEF StackHolds
    <2> QED BY <1>1, <2>8
  <1>7. CASE Over(b)
    <2>1. PICK w : w = CHOOSE s \in pool.saved : s.slot = SlotOf(b.mem, b.size)
      OBVIOUS
    <2>2. w \in pool.saved /\ w.slot = SlotOf(b.mem, b.size)
      <3>1. \E s \in pool.saved : s.slot = SlotOf(b.mem, b.size)
        BY <1>7 DEF StackHolds, WordOf
      <3> QED BY <2>1, <3>1
    <2>3. p = [m_base |-> w.base, saved |-> pool.saved \ {w}]
      BY <1>1, <1>7, <2>1 DEF deallocate, Over
    <2>4. \A s, t \in pool.saved : s.slot = t.slot => s = t
      BY DEF StackHolds
    <2>5. Above(L, b, w.base) /\ w.slot + 8 <= w.base
      <3>1. PICK s \in pool.saved : WordOf(b, s) /\ Above(L, b, s.base)
        BY <1>7 DEF StackHolds
      <3>2. s = w BY <2>2, <2>4, <3>1 DEF WordOf
      <3> QED BY <3>1, <3>2 DEF WordOf, WordSize
    <2>6. w.base \in Nat /\ w.base % 16 = 0 /\ \A c \in L \ {b} : w.base <= c.mem
      BY <1>2, <2>5 DEF Above
    <2>7. w.slot \in Int
      <3>1. b.size \in Nat \ {0} BY <1>2 DEF Blocks
      <3>2. PICK v \in Nat : v = up_round(b.size, 8) BY <3>1, UpRound
      <3>3. w.slot = b.mem + v BY <2>2, <3>2 DEF SlotOf, WordSize
      <3> QED BY <1>2, <3>3
    <2>8. ASSUME NEW l \in L \ {b}, Over(l)
          PROVE  \E s \in p.saved : WordOf(l, s) /\ Above(L \ {b}, l, s.base)
      <3>1. PICK s \in pool.saved : WordOf(l, s) /\ Above(L, l, s.base)
        BY <2>8 DEF StackHolds
      <3>2. l.size \in Nat \ {0} /\ l.mem \in Int /\ w.base <= l.mem
        BY <2>6 DEF LiveOK, Blocks
      <3>3. PICK v \in Nat : v = up_round(l.size, 8) BY <3>2, UpRound
      <3>4. s.slot = l.mem + v BY <3>1, <3>3 DEF WordOf, SlotOf, WordSize
      <3>5. s.slot # w.slot BY <2>5, <2>6, <2>7, <3>2, <3>3, <3>4
      <3>6. s \in p.saved BY <2>3, <3>5
      <3> QED BY <1>3, <3>1, <3>6
    <2>9. ASSUME NEW s \in p.saved
          PROVE  /\ s = [slot |-> s.slot, base |-> s.base]
                 /\ \E l \in L \ {b} : Over(l) /\ WordOf(l, s) /\ Above(L \ {b}, l, s.base)
      <3>1. s \in pool.saved /\ s # w BY <2>3, <2>9
      <3>2. PICK l \in L : Over(l) /\ WordOf(l, s) /\ Above(L, l, s.base)
        BY <3>1 DEF StackHolds
      <3>3. l # b BY <2>2, <2>4, <3>1, <3>2 DEF WordOf
      <3>4. s = [slot |-> s.slot, base |-> s.base] BY <3>1 DEF StackHolds
      <3> QED BY <1>3, <3>2, <3>3, <3>4
    <2>10. \A s, t \in p.saved : s.slot = t.slot => s = t
      BY <2>3, <2>4
    <2>11. p = [m_base |-> p.m_base, saved |-> p.saved] /\ p.m_base = w.base
      BY <2>3
    <2>12. StackHolds(p, L \ {b})
      BY <1>4, <2>6, <2>8, <2>9, <2>10, <2>11 DEF StackHolds
    <2> QED BY <1>1, <2>12
  <1> QED BY <1>6, <1>7

\* The saved words.
StackWords == {[mem |-> s.slot, size |-> WordSize] : s \in impl.saved}

\* A saved word lies behind its block and before what is above.
LEMMA WordPlace ==
    ASSUME StackHolds(impl, live), LiveOK(live), NEW s \in impl.saved
    PROVE  \E l \in live : /\ Over(l) /\ WordOf(l, s) /\ l \in Blocks
                           /\ s.slot \in Int /\ l.mem + l.size <= s.slot
                           /\ \A c \in live : l.mem < c.mem => s.slot + 8 <= c.mem
  <1>1. PICK l \in live : Over(l) /\ WordOf(l, s) /\ Above(live, l, s.base)
    BY DEF StackHolds
  <1>2. l \in Blocks /\ l.mem \in Int /\ l.size \in Nat \ {0} /\ \A c \in live : c.mem \in Int
    BY DEF LiveOK, Blocks
  <1>3. PICK v \in Nat : v = up_round(l.size, 8) /\ v >= l.size
    BY <1>2, UpRound
  <1>4. s.slot = l.mem + v
    BY <1>1, <1>3 DEF WordOf, SlotOf, WordSize
  <1>5. s.slot \in Int /\ l.mem + l.size <= s.slot
    BY <1>2, <1>3, <1>4
  <1>6. s.base \in Nat /\ s.slot + 8 <= s.base
    BY <1>1 DEF Above, WordOf, WordSize
  <1>7. ASSUME NEW c \in live, l.mem < c.mem PROVE s.slot + 8 <= c.mem
    <2>1. s.base <= c.mem /\ c.mem \in Int BY <1>1, <1>2, <1>7 DEF Above
    <2> QED BY <1>5, <1>6, <2>1
  <1> QED BY <1>1, <1>2, <1>5, <1>7

\* No block reaches into the one above it.
LEMMA BelowNext ==
    ASSUME LiveOK(live), NEW b \in live, NEW c \in live, b.mem < c.mem
    PROVE  b.mem + b.size <= c.mem
  <1>1. b \in Blocks /\ c \in Blocks /\ b # c
    <2>1. b \in Blocks /\ c \in Blocks BY DEF LiveOK
    <2>2. b # c BY <2>1 DEF Blocks
    <2> QED BY <2>1, <2>2
  <1>2. b.mem + b.size <= c.mem \/ c.mem + c.size <= b.mem
    BY <1>1 DEF LiveOK, Abstract!Apart
  <1> QED BY <1>1, <1>2 DEF Blocks

\* The saved words lie apart, and outside of what is in use.
LEMMA StackWordsApart ==
    ASSUME StackHolds(impl, live), LiveOK(live), NEW w \in StackWords
    PROVE  /\ \A l \in live : Abstract!Apart(w, l)
           /\ \A x \in StackWords \ {w} : Abstract!Apart(w, x)
  <1>1. PICK s \in impl.saved : w = [mem |-> s.slot, size |-> 8]
    BY DEF StackWords, WordSize
  <1>2. PICK l \in live : /\ WordOf(l, s) /\ l \in Blocks
                          /\ s.slot \in Int /\ l.mem + l.size <= s.slot
                          /\ \A c \in live : l.mem < c.mem => s.slot + 8 <= c.mem
    BY WordPlace
  <1>3. w.mem = s.slot /\ w.size = 8 /\ l.mem \in Int /\ l.size \in Nat /\ l.mem < s.slot
    <2>1. l.mem \in Int /\ l.size \in Nat /\ l.size > 0 BY <1>2 DEF Blocks
    <2> QED BY <1>1, <1>2, <2>1
  <1>4. ASSUME NEW c \in live PROVE Abstract!Apart(w, c)
    <2>1. c.mem \in Int /\ c.size \in Nat /\ c \in Blocks BY DEF LiveOK, Blocks
    <2>2. CASE l.mem < c.mem
      <3>1. w.mem + w.size <= c.mem BY <1>2, <1>3, <2>2
      <3> QED BY <3>1 DEF Abstract!Apart
    <2>3. CASE c.mem < l.mem
      <3>1. c.mem + c.size <= l.mem BY <2>3, BelowNext
      <3>2. c.mem + c.size <= w.mem BY <1>2, <1>3, <2>1, <3>1
      <3> QED BY <3>2 DEF Abstract!Apart
    <2>4. CASE c.mem = l.mem
      <3>1. c = l BY <1>2, <2>1, <2>4, NotApart DEF LiveOK
      <3>2. c.mem + c.size <= w.mem BY <1>2, <1>3, <3>1
      <3> QED BY <3>2 DEF Abstract!Apart
    <2> QED BY <1>3, <2>1, <2>2, <2>3, <2>4
  <1>5. ASSUME NEW x \in StackWords \ {w} PROVE Abstract!Apart(w, x)
    <2>1. PICK t \in impl.saved : x = [mem |-> t.slot, size |-> 8]
      BY DEF StackWords, WordSize
    <2>2. PICK k \in live : /\ WordOf(k, t) /\ k \in Blocks
                            /\ t.slot \in Int /\ k.mem + k.size <= t.slot
                            /\ \A c \in live : k.mem < c.mem => t.slot + 8 <= c.mem
      BY WordPlace
    <2>3. x.mem = t.slot /\ x.size = 8 /\ k.mem \in Int /\ k.size \in Nat /\ k.mem < t.slot
      <3>1. k.mem \in Int /\ k.size \in Nat /\ k.size > 0 BY <2>2 DEF Blocks
      <3> QED BY <2>1, <2>2, <3>1
    <2>4. t.slot # s.slot BY <1>1, <2>1
    <2>5. k # l BY <1>2, <2>2, <2>4 DEF WordOf
    <2>6. k.mem # l.mem BY <1>2, <2>2, <2>5, NotApart DEF LiveOK
    <2>7. CASE l.mem < k.mem
      <3>1. w.mem + w.size <= x.mem BY <1>2, <1>3, <2>2, <2>3, <2>7
      <3> QED BY <3>1 DEF Abstract!Apart
    <2>8. CASE k.mem < l.mem
      <3>1. x.mem + x.size <= w.mem BY <1>2, <1>3, <2>2, <2>3, <2>8
      <3> QED BY <3>1 DEF Abstract!Apart
    <2> QED BY <1>3, <2>3, <2>6, <2>7, <2>8
  <1> QED BY <1>4, <1>5

-----------------------------------------------------------------------------
(* The theorems. *)

\* Between operations: allocations lie apart, the resource's own state accounts for each of
\* them, and it takes a program that is not WellUsed to make something undefined.
IInv ==
    /\ resource \in Resources /\ requests \in Programs[resource]
    /\ StaysDefined
    /\ LiveOK(live)
    /\ resource = "PoolResource" => PoolHolds(impl, live)
    /\ resource = "FixPoolResource" => FixHolds(impl, live)
    /\ resource = "StackfulPool" => StackHolds(impl, live)

\* A new PoolResource accounts for no block.
LEMMA EmptyPoolHolds == PoolHolds(EmptyPool, {})
  <1> DEFINE T == FreeBlocks(EmptyPool.m_size)
  <1>1. IsPool(EmptyPool)
    BY DEF IsPool, EmptyPool
  <1>2. /\ DOMAIN EmptyPool.m_size = {} /\ DOMAIN EmptyPool.m_prev_size = {}
        /\ EmptyPool.m_chuncks = 0 /\ EmptyPool.m_free_flags = {}
        /\ EmptyPool.m_free = [order \in 0..k_max_order |-> << >>]
    BY DEF EmptyPool
  <1>3. Tiled(EmptyPool.m_size, EmptyPool.m_prev_size, EmptyPool.m_chuncks)
    BY <1>2 DEF Tiled
  <1>4. DOMAIN T = {}
    BY <1>2 DEF FreeBlocks
  <1>5. Listed(EmptyPool.m_free, EmptyPool.m_free_flags, T)
    <2> HIDE DEF T
    <2>1. \A order \in 0..k_max_order : ListOf(<< >>, {b \in DOMAIN T : T[b] = order})
      BY <1>4 DEF ListOf
    <2> QED BY <1>2, <2>1 DEF Listed
  <1>6. Used(EmptyPool) = {}
    BY <1>2 DEF Used
  <1> QED BY <1>1, <1>3, <1>5, <1>6 DEF PoolHolds, PoolOK

\* A new FixPoolResource accounts for no block.
LEMMA EmptyFixHolds == FixHolds(EmptyFixPool, {})
  <1>1. HeadSet(EmptyFixPool) = {} /\ ListOf(EmptyFixPool.m_head, {})
    BY DEF HeadSet, EmptyFixPool, ListOf
  <1>2. EmptyFixPool = [m_head |-> EmptyFixPool.m_head, m_chunks |-> EmptyFixPool.m_chunks]
        /\ EmptyFixPool.m_chunks \in Nat
    BY DEF EmptyFixPool
  <1> QED BY <1>1, <1>2 DEF FixHolds

\* A new StackfulPool accounts for no block.
LEMMA EmptyStackHolds == StackHolds(EmptyStack, {})
  BY StackAssumption DEF StackHolds, EmptyStack

\* The invariant holds at first.
LEMMA InitIInv == Init => IInv
  <1> SUFFICES ASSUME Init PROVE IInv
    OBVIOUS
  <1>1. LiveOK(live) /\ live = {} /\ resource \in Resources /\ requests \in Programs[resource]
    BY DEF Init, LiveOK
  <1>d. StaysDefined
    BY DEF Init, StaysDefined
  <1>2. resource = "PoolResource" => impl = EmptyPool
    BY DEF Init
  <1>3. resource = "FixPoolResource" => impl = EmptyFixPool
    BY DEF Init
  <1>4. resource = "StackfulPool" => impl = EmptyStack
    BY DEF Init
  <1> QED BY <1>1, <1>d, <1>2, <1>3, <1>4, EmptyPoolHolds, EmptyFixHolds, EmptyStackHolds DEF IInv

\* What an allocation does: a fresh block is handed out.
Allocates(block) ==
    Fresh(block, live) /\ live' = live \cup {block} /\ defined' = defined

\* Or nothing: it is declined, or undefined.
Nothing == impl' = impl /\ live' = live /\ (defined' = defined \/ ~WellUsed)

\* A PoolResource that is used well is asked for its grain, and for what fits.
LEMMA WellAsked ==
    ASSUME resource = "PoolResource", WellUsed, NEW r \in requests, Asked(r), ~Large(r[1], r[2])
    PROVE  Alignment(r[2]) = Grain /\ Fits(r[1], Grain) /\ impl.unwritten = {}
  <1>1. PICK align \in {8, 16} : \A q \in requests :
            Large(q[1], q[2]) \/ (Alignment(q[2]) = align /\ Fits(q[1], align))
    BY DEF WellUsed
  <1>2. impl.unwritten = {}
    BY DEF WellUsed
  <1>3. Alignment(r[2]) = align /\ Fits(r[1], align)
    BY <1>1
  <1>4. Grain = align
    <2>1. CASE align = 8
      <3>1. r[2] % 16 # 0
        <4>1. r[2] <= 8 BY <1>3, <2>1 DEF Alignment, AtLeast, Asked
        <4> QED BY <4>1 DEF Asked
      <3>2. Grain = 8 BY <3>1 DEF Grain, max_align
      <3> QED BY <2>1, <3>2
    <2>2. CASE align = 16
      <3>1. ASSUME NEW q \in requests PROVE Large(q[1], q[2]) \/ q[2] % 16 = 0
        <4>1. CASE Alignment(q[2]) = 16 BY <4>1 DEF Alignment, AtLeast
        <4> QED BY <1>1, <2>2, <4>1
      <3>2. Grain = 16 BY <3>1 DEF Grain, max_align
      <3> QED BY <2>2, <3>2
    <2> QED BY <2>1, <2>2
  <1> QED BY <1>2, <1>3, <1>4

\* PoolResource hands out a fresh block and accounts for it.
LEMMA AllocatePoolStep ==
    ASSUME IInv, NEW r \in requests, AllocatePool(r[1], r[2])
    PROVE  (\E block : Allocates(block) /\ PoolHolds(impl', live')) \/ Nothing
  <1>1. PoolHolds(impl, live) /\ LiveOK(live) /\ resource = "PoolResource" /\ PoolOK(impl)
    BY DEF IInv, AllocatePool, PoolHolds
  <1>2. Asked(r) /\ r[1] \in Nat \ {0} /\ r[2] \in Nat \ {0}
    BY Requested DEF IInv, Asked
  <1>3. CASE Large(r[1], r[2]) /\ AllocateLarge(r[1], r[2])
    <2>1. PICK i \in 1..MaxLive :
             LET block == Block(MallocAt(i), r[1], r[2])
             IN  /\ block.mem % r[2] = 0 /\ block.mem + r[1] <= 0
                 /\ \A b \in live : Abstract!Apart(block, b)
                 /\ Allocated(block, impl)
      BY <1>3 DEF AllocateLarge
    <2>2. PICK block : block = Block(MallocAt(i), r[1], r[2])
      OBVIOUS
    <2>3. MallocAt(i) \in Int
      BY ChunkSize DEF MallocAt, ChunkBytes
    <2>4. block.size = r[1] /\ block.align = r[2] /\ block \in Blocks
      BY <1>2, <2>2, <2>3 DEF Block, Blocks
    <2>5. Promised(block) = r[2]
      BY <1>1, <1>3, <2>4 DEF Promised
    <2>6. Fresh(block, live) /\ live' = live \cup {block} /\ impl' = impl /\ defined' = defined
      BY <2>1, <2>2, <2>4, <2>5 DEF Fresh, Allocated
    <2>7. PoolHolds(impl, live \cup {block})
      BY <1>1, <1>3, <2>1, <2>2, <2>4, MallocServes
    <2> QED BY <2>6, <2>7 DEF Allocates
  <1>4. CASE ~Large(r[1], r[2])
    <2>0. PICK garbage \in BOOLEAN :
             LET x == alloc(impl, r[1], r[2], garbage)
             IN  IF x.defined THEN Allocated(Block(x.mem, r[1], r[2]), x.pool) ELSE Undefined
      BY <1>4 DEF AllocatePool
    <2>1. PICK x : x = alloc(impl, r[1], r[2], garbage)
      OBVIOUS
    <2>2. PICK block : block = Block(x.mem, r[1], r[2])
      OBVIOUS
    <2>3. CASE x.defined
      <3>1. live' = live \cup {block} /\ impl' = x.pool /\ defined' = defined
        BY <2>0, <2>1, <2>2, <2>3, Zenon DEF Allocated
      <3>2. Fresh(block, live) /\ PoolHolds(x.pool, live \cup {block})
        BY <1>1, <1>2, <1>4, <2>1, <2>2, <2>3, PoolAllocates
      <3> QED BY <3>1, <3>2 DEF Allocates
    <2>4. CASE ~x.defined
      <3>1. impl' = impl /\ live' = live
        BY <2>0, <2>1, <2>4, Zenon DEF Undefined
      <3>2. Alignment(r[2]) = Grain /\ Fits(r[1], Grain) => x.defined
        BY <1>1, <1>2, <1>4, <2>1, AllocEffect, Zenon
      <3>3. ~WellUsed
        BY <1>1, <1>2, <1>4, <2>4, <3>2, WellAsked, Zenon
      <3> QED BY <3>1, <3>3 DEF Nothing
    <2> QED BY <2>3, <2>4
  <1> QED BY <1>3, <1>4 DEF AllocatePool

\* FixPoolResource hands out a fresh block and accounts for it.
LEMMA AllocateFixedStep ==
    ASSUME IInv, NEW r \in requests, AllocateFixed(r[1], r[2])
    PROVE  (\E block : Allocates(block) /\ FixHolds(impl', live')) \/ Nothing
  <1>1. FixHolds(impl, live) /\ LiveOK(live) /\ resource = "FixPoolResource"
    BY DEF IInv, AllocateFixed
  <1>r. Asked(r) /\ r[1] <= m_block_size
    BY <1>1, Requested DEF IInv
  <1>2. PICK x : x = fix_alloc(impl)
    OBVIOUS
  <1>3. PICK block : block = Block(x.mem, r[1], r[2])
    OBVIOUS
  <1>4. \/ Nothing
        \/ Serves(impl) /\ live' = live \cup {block} /\ impl' = x.pool /\ defined' = defined
    BY <1>2, <1>3 DEF AllocateFixed, Allocated, Nothing
  <1>5. Serves(impl) => Fresh(block, live) /\ FixHolds(x.pool, live \cup {block})
    BY <1>1, <1>r, <1>2, <1>3, FixAllocates
  <1> QED BY <1>4, <1>5 DEF Allocates

\* StackfulPool hands out a fresh block and accounts for it.
LEMMA AllocateStackfulStep ==
    ASSUME IInv, NEW r \in requests, AllocateStackful(r[1], r[2])
    PROVE  (\E block : Allocates(block) /\ StackHolds(impl', live')) \/ Nothing
  <1>1. StackHolds(impl, live) /\ LiveOK(live) /\ resource = "StackfulPool"
    BY DEF IInv, AllocateStackful
  <1>r. Asked(r)
    BY Requested DEF IInv
  <1>2. PICK x : x = allocate(impl, r[1], r[2])
    OBVIOUS
  <1>3. PICK block : block = Block(x.mem, r[1], r[2])
    OBVIOUS
  <1>4. x.guarded
    BY <1>2 DEF AllocateStackful
  <1>5. CASE x.defined
    <2>1. live' = live \cup {block} /\ impl' = x.pool /\ defined' = defined
      BY <1>2, <1>3, <1>5 DEF AllocateStackful, Allocated
    <2>2. Fresh(block, live) /\ StackHolds(x.pool, live \cup {block})
      <3>1. CASE r[2] > max_align BY <1>1, <1>r, <1>2, <1>3, <1>4, <1>5, <3>1, StackPushOver
      <3>2. CASE ~(r[2] > max_align) BY <1>1, <1>r, <1>2, <1>3, <1>4, <3>2, StackPush
      <3> QED BY <3>1, <3>2
    <2> QED BY <2>1, <2>2 DEF Allocates
  <1>6. CASE ~x.defined
    <2>1. impl' = impl /\ live' = live
      BY <1>2, <1>6 DEF AllocateStackful, Undefined
    <2>2. r[2] > max_align
      <3> SUFFICES ASSUME ~(r[2] > max_align) PROVE x.defined
        BY <1>6
      <3>1. PICK q : q = [impl EXCEPT !.m_base = impl.m_base - up_round(r[1], max_align)] OBVIOUS
      <3>2. PICK g : g = (impl.m_base - up_round(r[1], max_align) >= 0) OBVIOUS
      <3>3. x = [mem |-> impl.m_base - up_round(r[1], max_align), guarded |-> g,
                 defined |-> TRUE, pool |-> q]
        BY <1>2, <3>1, <3>2, Zenon DEF allocate
      <3> QED BY <3>3
    <2>3. ~WellUsed
      <3> SUFFICES ASSUME WellUsed PROVE FALSE
        OBVIOUS
      <3>1. (r[1] - 1) % 16 < 8
        BY <1>1, <2>2 DEF WellUsed, max_align, WordSize
      <3> QED BY <1>1, <1>r, <1>2, <1>4, <1>6, <2>2, <3>1, StackRoom
    <2> QED BY <2>1, <2>3 DEF Nothing
  <1> QED BY <1>5, <1>6

-----------------------------------------------------------------------------
(* What the allocator sees. *)

\* Blocks with the alignment that is promised.
AsPromised(b) == [b EXCEPT !.align = Promised(b)]
AsGiven(L) == {AsPromised(b) : b \in L}

LEMMA GivenIs == Given = AsGiven(live)
  BY DEF Given, AsGiven, AsPromised

\* The grain and the promises are those of the program.
LEMMA SamePromises ==
    ASSUME requests' = requests, resource' = resource
    PROVE  Grain' = Grain /\ Given' = AsGiven(live')
  <1>1. Grain' = Grain
    BY DEF Grain
  <1>2. Given' = AsGiven(live')
    BY <1>1, Zenon DEF Given, AsGiven, AsPromised, Promised
  <1> QED BY <1>1, <1>2

\* What a pool holds does not depend on the step.
LEMMA SameHolds ==
    ASSUME requests' = requests, PoolHolds(impl', live')
    PROVE  PoolHolds(impl, live)'
  <1>1. Grain' = Grain
    BY DEF Grain
  <1> QED BY <1>1, Zenon DEF PoolHolds, PoolOK, Tiled, Used

\* A promise changes the alignment of a block and nothing else.
LEMMA PromisedBlock ==
    ASSUME NEW b \in Blocks
    PROVE  /\ AsPromised(b).mem = b.mem /\ AsPromised(b).size = b.size
           /\ AsPromised(b).align = Promised(b)
  BY DEF AsPromised, Blocks

\* A fresh block is one the abstract allocator may hand out.
LEMMA GivenMore ==
    ASSUME NEW L, LiveOK(L), NEW block, Fresh(block, L)
    PROVE  LET g == AsPromised(block)
           IN  /\ AsGiven(L \cup {block}) = AsGiven(L) \cup {g} /\ g \notin AsGiven(L)
               /\ g.mem % g.align = 0
               /\ \A c \in AsGiven(L) : Abstract!Apart(g, c)
  <1>1. PICK g : g = AsPromised(block)
    OBVIOUS
  <1>2. g.mem = block.mem /\ g.size = block.size /\ g.align = Promised(block) /\ block \in Blocks
    BY <1>1, PromisedBlock DEF Fresh
  <1>3. AsGiven(L \cup {block}) = AsGiven(L) \cup {g}
    BY <1>1 DEF AsGiven
  <1>4. g.mem % g.align = 0
    BY <1>2 DEF Fresh
  <1>5. ASSUME NEW c \in AsGiven(L) PROVE Abstract!Apart(g, c) /\ c # g
    <2>1. PICK b \in L : c = AsPromised(b) BY DEF AsGiven
    <2>2. b \in Blocks /\ Abstract!Apart(block, b) BY <2>1 DEF LiveOK, Fresh
    <2>3. c.mem = b.mem /\ c.size = b.size BY <2>1, <2>2, PromisedBlock
    <2>4. block.mem # b.mem BY <1>2, <2>2, NotApart
    <2>5. Abstract!Apart(g, c) BY <1>2, <2>2, <2>3 DEF Abstract!Apart
    <2> QED BY <1>2, <2>3, <2>4, <2>5
  <1> QED BY <1>1, <1>3, <1>4, <1>5

\* A block given back leaves those the abstract allocator sees.
LEMMA GivenLess ==
    ASSUME NEW L, LiveOK(L), NEW b \in L
    PROVE  AsPromised(b) \in AsGiven(L) /\ AsGiven(L \ {b}) = AsGiven(L) \ {AsPromised(b)}
  <1>1. AsPromised(b) \in AsGiven(L)
    BY DEF AsGiven
  <1>2. ASSUME NEW c \in L \ {b} PROVE AsPromised(c) # AsPromised(b)
    <2>1. b \in Blocks /\ c \in Blocks /\ c.mem # b.mem BY LiveLess
    <2> QED BY <2>1, PromisedBlock
  <1>3. AsGiven(L \ {b}) = AsGiven(L) \ {AsPromised(b)}
    BY <1>2, Zenon DEF AsGiven
  <1> QED BY <1>1, <1>3

\* What is left to show of a step, once what it does to the blocks is known.
LEMMA StepKeeps ==
    ASSUME IInv, defined, UNCHANGED <<resource, requests>>, LiveOK(live'),
           defined' = defined \/ (impl' = impl /\ ~WellUsed),
           resource = "PoolResource" => PoolHolds(impl', live'),
           resource = "FixPoolResource" => FixHolds(impl', live'),
           resource = "StackfulPool" => StackHolds(impl', live')
    PROVE  IInv'
  <1>1. StaysDefined'
    <2>1. CASE defined' = defined BY <2>1 DEF StaysDefined
    <2>2. CASE impl' = impl /\ ~WellUsed
      <3>1. WellUsed' = WellUsed BY <2>2 DEF WellUsed
      <3> QED BY <2>2, <3>1 DEF StaysDefined
    <2> QED BY <2>1, <2>2
  <1>2. (resource = "PoolResource" => PoolHolds(impl, live))'
    BY SameHolds
  <1>3. (LiveOK(live) /\ resource \in Resources /\ requests \in Programs[resource])'
    BY DEF IInv
  <1> QED BY <1>1, <1>2, <1>3 DEF IInv

\* An allocation keeps the invariant and is one of the abstract allocator's, or nothing.
LEMMA AllocateStep ==
    ASSUME IInv, defined, NEW r \in requests, do_allocate(r[1], r[2])
    PROVE  IInv' /\ (Abstract!Allocate \/ UNCHANGED Given)
  <1>1. /\ UNCHANGED <<resource, requests>> /\ LiveOK(live)
        /\ resource' = resource /\ requests' = requests
    BY DEF do_allocate, IInv
  <1>2. \/ \E block : /\ Allocates(block)
                      /\ resource = "PoolResource" => PoolHolds(impl', live')
                      /\ resource = "FixPoolResource" => FixHolds(impl', live')
                      /\ resource = "StackfulPool" => StackHolds(impl', live')
        \/ Nothing
    <2>1. CASE AllocatePool(r[1], r[2])
      <3>1. resource = "PoolResource" BY <2>1 DEF AllocatePool
      <3> QED BY <2>1, <3>1, AllocatePoolStep
    <2>2. CASE AllocateFixed(r[1], r[2])
      <3>1. resource = "FixPoolResource" BY <2>2 DEF AllocateFixed
      <3> QED BY <2>2, <3>1, AllocateFixedStep
    <2>3. CASE AllocateStackful(r[1], r[2])
      <3>1. resource = "StackfulPool" BY <2>3 DEF AllocateStackful
      <3> QED BY <2>3, <3>1, AllocateStackfulStep
    <2> QED BY <2>1, <2>2, <2>3 DEF do_allocate
  <1>g. Given = AsGiven(live) /\ Given' = AsGiven(live')
    BY <1>1, GivenIs, SamePromises
  <1>3. CASE Nothing
    <2>1. impl' = impl /\ live' = live /\ (defined' = defined \/ ~WellUsed)
      BY <1>3 DEF Nothing
    <2>2. /\ resource = "PoolResource" => PoolHolds(impl', live')
          /\ resource = "FixPoolResource" => FixHolds(impl', live')
          /\ resource = "StackfulPool" => StackHolds(impl', live')
      BY <2>1 DEF IInv
    <2>3. IInv' BY <1>1, <2>1, <2>2, StepKeeps
    <2>4. UNCHANGED Given BY <1>g, <2>1
    <2> QED BY <2>3, <2>4
  <1>4. ASSUME NEW block, Allocates(block),
               resource = "PoolResource" => PoolHolds(impl', live'),
               resource = "FixPoolResource" => FixHolds(impl', live'),
               resource = "StackfulPool" => StackHolds(impl', live')
        PROVE  IInv' /\ Abstract!Allocate
    <2>1. Fresh(block, live) /\ live' = live \cup {block} /\ defined' = defined
      BY <1>4 DEF Allocates
    <2>2. LiveOK(live')
      BY <1>1, <2>1, LiveMore
    <2>3. IInv'
      BY <1>1, <1>4, <2>1, <2>2, StepKeeps
    <2>4. PICK g : g = AsPromised(block)
      OBVIOUS
    <2>5. /\ Given' = Given \cup {g} /\ g \notin Given /\ g.mem % g.align = 0
          /\ \A c \in Given : Abstract!Apart(g, c)
      BY <1>1, <1>g, <2>1, <2>4, GivenMore
    <2>6. g \in Given' /\ Given = Given' \ {g}
      BY <2>5
    <2>7. Abstract!Allocate
      BY <2>5, <2>6 DEF Abstract!Allocate
    <2> QED BY <2>3, <2>7
  <1> QED BY <1>2, <1>3, <1>4

\* A deallocation keeps the invariant and is one of the abstract allocator's, or nothing.
LEMMA FreeStep ==
    ASSUME IInv, defined, NEW b \in live, do_deallocate(b)
    PROVE  IInv' /\ (Abstract!Free \/ UNCHANGED Given)
  <1>1. /\ UNCHANGED <<resource, requests>> /\ LiveOK(live)
        /\ resource' = resource /\ requests' = requests
    BY DEF do_deallocate, IInv
  <1>g. Given = AsGiven(live) /\ Given' = AsGiven(live')
    BY <1>1, GivenIs, SamePromises
  <1>2. CASE Undefined /\ resource = "PoolResource" /\ Ends(impl, b.mem)
    <2>1. impl' = impl /\ live' = live
      BY <1>2 DEF Undefined
    <2>2. ~WellUsed
      BY <1>2 DEF WellUsed, Ends
    <2>3. PoolHolds(impl', live')
      BY <1>2, <2>1 DEF IInv
    <2>4. IInv' BY <1>1, <1>2, <2>1, <2>2, <2>3, StepKeeps
    <2>5. UNCHANGED Given BY <1>g, <2>1
    <2> QED BY <2>4, <2>5
  <1>3. CASE /\ live' = live \ {b} /\ defined' = defined
             /\ resource = "PoolResource" =>
                    impl' = IF Large(b.size, b.align) THEN impl ELSE free(impl, b.mem)
             /\ resource = "FixPoolResource" => impl' = fix_free(impl, b.mem)
             /\ resource = "StackfulPool" => /\ impl' = deallocate(impl, b.mem, b.size, b.align)
                                             /\ \A c \in live : b.mem <= c.mem
    <2>1. LiveOK(live')
      BY <1>1, <1>3, LiveLess
    <2>2. resource = "PoolResource" => PoolHolds(impl', live')
      BY <1>1, <1>3, PoolFrees DEF IInv
    <2>3. resource = "FixPoolResource" => FixHolds(impl', live')
      BY <1>1, <1>3, FixFrees DEF IInv
    <2>4. resource = "StackfulPool" => StackHolds(impl', live')
      BY <1>1, <1>3, StackPop DEF IInv
    <2>5. IInv'
      BY <1>1, <1>3, <2>1, <2>2, <2>3, <2>4, StepKeeps
    <2>6. AsPromised(b) \in Given /\ Given' = Given \ {AsPromised(b)}
      BY <1>1, <1>3, <1>g, GivenLess
    <2>7. Abstract!Free
      BY <2>6 DEF Abstract!Free
    <2> QED BY <2>5, <2>7
  <1>4. CASE FreePool(b)
    BY <1>2, <1>3, <1>4 DEF FreePool, Freed
  <1>5. CASE resource = "FixPoolResource" /\ Freed(b, fix_free(impl, b.mem))
    BY <1>3, <1>5 DEF Freed
  <1>6. CASE /\ resource = "StackfulPool" /\ \A c \in live : b.mem <= c.mem
             /\ Freed(b, deallocate(impl, b.mem, b.size, b.align))
    BY <1>3, <1>6 DEF Freed
  <1> QED BY <1>4, <1>5, <1>6 DEF do_deallocate

\* Every step keeps the invariant, and is one of the allocator or changes nothing it sees.
LEMMA NextIInv == IInv /\ [Next]_vars => IInv' /\ [Abstract!Allocate \/ Abstract!Free]_Given
  <1> SUFFICES ASSUME IInv, [Next]_vars
               PROVE  IInv' /\ [Abstract!Allocate \/ Abstract!Free]_Given
    OBVIOUS
  <1>1. CASE defined /\ \E r \in requests : do_allocate(r[1], r[2])
    BY <1>1, AllocateStep
  <1>2. CASE defined /\ \E b \in live : do_deallocate(b)
    BY <1>2, FreeStep
  <1>3. CASE UNCHANGED vars
    <2>1. /\ resource' = resource /\ requests' = requests /\ impl' = impl /\ live' = live
          /\ defined' = defined
      BY <1>3 DEF vars
    <2>2. StaysDefined' BY <2>1 DEF StaysDefined, WellUsed, IInv
    <2>3. resource = "PoolResource" => PoolHolds(impl', live') BY <2>1 DEF IInv
    <2>4. (resource = "PoolResource" => PoolHolds(impl, live))' BY <2>1, <2>3, SameHolds
    <2>5. IInv' BY <2>1, <2>2, <2>4 DEF IInv
    <2>6. Given' = Given BY <2>1, GivenIs, SamePromises
    <2> QED BY <2>5, <2>6
  <1> QED BY <1>1, <1>2, <1>3 DEF Next

\* Between two operations of a memory resource (memory_pool.h) its free lists, tags and
\* saved words account for exactly the blocks that are in use, and these lie apart,
\* whatever is asked for and in whatever order it is freed.
THEOREM Accounted == Spec => []IInv
  BY InitIInv, NextIInv, PTL DEF Spec

\* Whatever is split, merged and recycled in a PoolImpl (memory_pool.h:203-470), both
\* copies of each boundary tag tell the truth, and two free blocks never lie side by side.
THEOREM PoolTagsExact == Spec => []TagsExact
  <1>1. IInv => TagsExact
    <2> SUFFICES ASSUME IInv PROVE TagsExact
      OBVIOUS
    <2>1. CASE resource = "PoolResource" BY <2>1, PoolTags DEF IInv
    <2>2. CASE resource # "PoolResource" BY <2>2 DEF TagsExact
    <2> QED BY <2>1, <2>2
  <1> QED BY <1>1, Accounted, PTL

\* In a PoolImpl the list of every order holds just its free blocks, the flags say which
\* lists are not empty, and once all is freed only whole chunks are listed.
THEOREM PoolFreeListsExact == Spec => []FreeListsExact
  <1>1. IInv => FreeListsExact
    <2> SUFFICES ASSUME IInv PROVE FreeListsExact
      OBVIOUS
    <2>1. CASE resource = "PoolResource" BY <2>1, PoolLists DEF IInv
    <2>2. CASE resource # "PoolResource" BY <2>2 DEF FreeListsExact
    <2> QED BY <2>1, <2>2
  <1> QED BY <1>1, Accounted, PTL

\* No memory resource keeps a tag, a link or a saved base in memory that somebody holds, or
\* two of them in the same place.
THEOREM ResourceWordsApart == Spec => []BookkeepingApart
  <1>1. IInv => BookkeepingApart
    <2> SUFFICES ASSUME IInv PROVE BookkeepingApart
      OBVIOUS
    <2>1. CASE resource = "PoolResource"
      <3>1. Words = PoolWords BY <2>1 DEF Words, PoolWords
      <3> QED BY <2>1, <3>1, PoolWordsApart DEF IInv, BookkeepingApart
    <2>2. CASE resource = "FixPoolResource"
      <3>1. Words = FixWords BY <2>2 DEF Words, FixWords
      <3> QED BY <2>2, <3>1, FixWordsApart DEF IInv, BookkeepingApart
    <2>3. CASE resource = "StackfulPool"
      <3>1. Words = StackWords BY <2>3 DEF Words, StackWords
      <3> QED BY <2>3, <3>1, StackWordsApart DEF IInv, BookkeepingApart
    <2> QED BY <2>1, <2>2, <2>3 DEF IInv, Resources
  <1> QED BY <1>1, Accounted, PTL

\* A program that asks a PoolResource for one alignment and for sizes that fit, or whose
\* over-aligned frames leave room for the saved base, never gets to an operation that is
\* undefined, unless what malloc left behind a chunk reads as a free block: the assertion
\* of break_ (memory_pool.h:347) holds, and free and allocate keep to their memory.
THEOREM WellUsedStaysDefined == Spec => []StaysDefined
  <1>1. IInv => StaysDefined
    BY DEF IInv
  <1> QED BY <1>1, Accounted, PTL

\* Until then PoolResource, FixPoolResource and StackfulPool implement the abstract
\* allocator for every program: what they hand out overlaps nothing that is in use and is
\* aligned as Promised.
THEOREM ResourcesAllocate == Spec => ImplementsAllocator
  <1>1. Init => Abstract!Init
    BY DEF Init, Abstract!Init, Given
  <1> QED BY <1>1, NextIInv, Accounted, InitIInv, PTL DEF Spec, ImplementsAllocator, Abstract!Spec
=============================================================================
