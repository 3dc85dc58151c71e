--------------------------- MODULE ListFileProofs ---------------------------
(***************************************************************************)
(* Theorems about the search of a list file, for any list file, any mask,   *)
(* any sizes of the cache, the sectors and the longest line, and whatever   *)
(* blocks cannot be read.                                                   *)
(***************************************************************************)
EXTENDS ListFile, SequenceTheorems, FiniteSetTheorems, WellFoundedInduction, TLAPS

-----------------------------------------------------------------------------
\* NUMBERS

\* A set of naturals that is not empty has a least element: the order of the
\* naturals is well founded.
LEMMA LeastNatural ==
  ASSUME NEW T \in SUBSET Nat, T # {}
  PROVE  \E x \in T : \A y \in T : x <= y
<1> DEFINE Below == OpToRel(<, Nat)
<1>1. IsWellFoundedOn(Below, Nat)
  BY NatLessThanWellFounded
<1>2. \A x, y \in Nat : y < x => <<y, x>> \in Below
  BY DEF OpToRel
<1> HIDE DEF Below
<1>3. PICK x \in T : \A y \in T : ~(<<y, x>> \in Below)
  BY <1>1, WFMin
<1>4. ASSUME NEW y \in T
      PROVE  x <= y
  <2>1. x \in Nat /\ y \in Nat
    OBVIOUS
  <2>2. ~(y < x)
    BY <1>2, <1>3, <2>1
  <2> QED BY <2>1, <2>2
<1> QED BY <1>4

\* Min of the community modules is what its name says.
LEMMA MinOfNaturals ==
  ASSUME NEW S \in SUBSET Nat, S # {}
  PROVE  Min(S) \in S /\ \A x \in S : Min(S) <= x
BY LeastNatural DEF Min

\* An upper bound in the set is its maximum, be the set finite or not.
LEMMA MaxIs ==
  ASSUME NEW S \in SUBSET Nat, NEW m \in S, \A x \in S : x <= m
  PROVE  Max(S) = m
<1>1. \A x \in S : m >= x
  OBVIOUS
<1>2. Max(S) \in S /\ \A x \in S : Max(S) >= x
  BY <1>1 DEF Max
<1>3. Max(S) \in Nat /\ m \in Nat /\ Max(S) <= m /\ Max(S) >= m
  BY <1>1, <1>2
<1> QED BY <1>3

\* A lower bound in the set is its minimum.
LEMMA MinIs ==
  ASSUME NEW S \in SUBSET Nat, NEW m \in S, \A x \in S : m <= x
  PROVE  Min(S) = m
<1>1. Min(S) \in S /\ \A x \in S : Min(S) <= x
  BY DEF Min
<1>2. Min(S) \in Nat /\ m \in Nat /\ Min(S) <= m /\ m <= Min(S)
  BY <1>1
<1> QED BY <1>2

\* A product is monotone.
LEMMA TimesMonotone ==
  ASSUME NEW a \in Nat, NEW b \in Nat, NEW c \in Nat, a <= b
  PROVE  a * c <= b * c
<1>1. PICK d \in Nat : b = a + d
  BY SMT
<1>2. b * c = a * c + d * c
  BY <1>1, SMT
<1>3. d * c >= 0 /\ a * c \in Nat
  BY SMT
<1> QED BY <1>2, <1>3, SMT

\* Quotient and remainder of a number in the form the division leaves it in.
LEMMA QuotientIs ==
  ASSUME NEW n \in Nat \ {0}, NEW q \in Nat, NEW r \in 0..n - 1
  PROVE  (r + q * n) % n = r /\ (r + q * n) \div n = q
<1> DEFINE x == r + q * n
           d == x \div n
           m == x % n
<1>1. x \in Nat /\ q * n \in Nat
  BY SMT
<1>2. d \in Nat /\ m \in 0..n - 1 /\ x = d * n + m
  BY <1>1, SMT
<1>3. x = r + q * n
  OBVIOUS
<1> HIDE DEF x, d, m
<1>4. d <= q
  <2> SUFFICES ASSUME q + 1 <= d PROVE FALSE
    BY <1>2
  <2>1. (q + 1) * n <= d * n
    BY <1>2, TimesMonotone
  <2>2. (q + 1) * n = q * n + n
    BY SMT
  <2> QED BY <1>1, <1>2, <1>3, <2>1, <2>2
<1>5. q <= d
  <2> SUFFICES ASSUME d + 1 <= q PROVE FALSE
    BY <1>2
  <2>1. (d + 1) * n <= q * n
    BY <1>2, TimesMonotone
  <2>2. (d + 1) * n = d * n + n
    BY <1>2, SMT
  <2> QED BY <1>1, <1>2, <1>3, <2>1, <2>2
<1>6. d = q
  BY <1>2, <1>4, <1>5
<1>7. m = r
  <2>1. d * n = q * n
    BY <1>6
  <2> QED BY <1>1, <1>2, <1>3, <2>1
<1> QED BY <1>6, <1>7 DEF x, d, m

\* What division gives.
LEMMA DivisionFacts ==
  ASSUME NEW n \in Nat \ {0}, NEW x \in Nat
  PROVE  /\ x \div n \in Nat /\ x % n \in 0..n - 1 /\ x = (x \div n) * n + (x % n)
         /\ (x \div n) * n \in Nat /\ x - (x % n) = (x \div n) * n
<1>1. x \div n \in Nat /\ x % n \in 0..n - 1 /\ x = (x \div n) * n + (x % n)
  BY SMT
<1>2. (x \div n) * n \in Nat
  BY <1>1, SMT
<1> QED BY <1>1, <1>2

\* Multiples, as remainders have it.
LEMMA MultipleIs ==
  ASSUME NEW n \in Nat \ {0}, NEW q \in Nat
  PROVE  q * n \in Nat /\ (q * n) % n = 0
<1>1. q * n \in Nat
  BY SMT
<1>2. (0 + q * n) % n = 0
  BY QuotientIs
<1> QED BY <1>1, <1>2

LEMMA MultipleStep ==
  ASSUME NEW n \in Nat \ {0}, NEW x \in Nat, NEW y \in Nat, x % n = 0, y % n = 0
  PROVE  (x + y) % n = 0
<1> DEFINE a == x \div n
           c == y \div n
<1>1. a \in Nat /\ c \in Nat /\ x = a * n /\ y = c * n
  BY DivisionFacts
<1> HIDE DEF a, c
<1>2. (a + c) * n = a * n + c * n
  BY <1>1, SMT
<1>3. ((a + c) * n) % n = 0
  BY <1>1, MultipleIs
<1> QED BY <1>1, <1>2, <1>3

\* A multiple of a multiple.
LEMMA MultipleOfMultiple ==
  ASSUME NEW n \in Nat \ {0}, NEW m \in Nat \ {0}, NEW x \in Nat, m % n = 0, x % m = 0
  PROVE  x % n = 0
<1> DEFINE a == x \div m
           c == m \div n
<1>1. a \in Nat /\ c \in Nat /\ x = a * m /\ m = c * n
  BY DivisionFacts
<1> HIDE DEF a, c
<1>2. a * c \in Nat /\ x = (a * c) * n
  <2>1. a * (c * n) = (a * c) * n
    BY <1>1, SMT
  <2> QED BY <1>1, <2>1
<1>3. ((a * c) * n) % n = 0
  BY <1>2, MultipleIs
<1> QED BY <1>2, <1>3

\* The part of a multiple of m behind the last multiple of a multiple n of m
\* leaves room for m before the next.
LEMMA RoomBehind ==
  ASSUME NEW n \in Nat \ {0}, NEW m \in Nat \ {0}, NEW x \in Nat, n % m = 0, x % m = 0
  PROVE  (x % n) + m <= n
<1> DEFINE q == x \div n
           r == x % n
           a == x \div m
           c == n \div m
<1>1. /\ q \in Nat /\ r \in 0..n - 1 /\ x = q * n + r
      /\ a \in Nat /\ c \in Nat /\ x = a * m /\ n = c * m
  <2>1. q \in Nat /\ r \in 0..n - 1 /\ x = q * n + r
    BY DivisionFacts
  <2>2. a \in Nat /\ a * m \in Nat /\ x = a * m
    BY DivisionFacts
  <2>3. c \in Nat /\ c * m \in Nat /\ n = c * m
    BY DivisionFacts
  <2> HIDE DEF q, r, a, c
  <2> QED BY <2>1, <2>2, <2>3
<1> HIDE DEF q, r, a, c
<1> DEFINE d == a - q * c
<1>2. d \in Int /\ q * c \in Nat
  BY <1>1, SMT
<1>3. r = d * m
  <2>1. q * (c * m) = (q * c) * m
    BY <1>1, SMT
  <2>2. (a - q * c) * m = a * m - (q * c) * m
    BY <1>1, <1>2, SMT
  <2> QED BY <1>1, <1>2, <2>1, <2>2
<1> HIDE DEF d
<1>4. d < c
  <2> SUFFICES ASSUME c <= d PROVE FALSE
    BY <1>1, <1>2
  <2>1. d \in Nat /\ c * m <= d * m
    BY <1>1, <1>2, TimesMonotone
  <2> QED BY <1>1, <1>3, <2>1
<1>5. (d + 1) * m <= c * m
  <2>1. CASE d + 1 \in Nat
    BY <1>1, <1>2, <1>4, <2>1, TimesMonotone
  <2>2. CASE d + 1 \notin Nat
    <3>1. d <= -1
      BY <1>2, <2>2
    <3>2. d * m <= -1
      BY <1>2, <3>1, SMT
    <3> QED BY <1>1, <1>3, <3>2
  <2> QED BY <2>1, <2>2
<1>6. (d + 1) * m = d * m + m
  BY <1>2, SMT
<1> QED BY <1>1, <1>3, <1>5, <1>6 DEF r

\* The multiple before a number grows with it.
LEMMA FloorMonotone ==
  ASSUME NEW n \in Nat \ {0}, NEW x \in Nat, NEW y \in Nat, x <= y
  PROVE  x - (x % n) <= y - (y % n)
<1> DEFINE a == x \div n
           c == y \div n
<1>1. /\ a \in Nat /\ x % n \in 0..n - 1 /\ x - (x % n) = a * n /\ a * n \in Nat
      /\ c \in Nat /\ y % n \in 0..n - 1 /\ y - (y % n) = c * n /\ c * n \in Nat
  BY DivisionFacts
<1> HIDE DEF a, c
<1>2. a <= c
  <2> SUFFICES ASSUME c + 1 <= a PROVE FALSE
    BY <1>1
  <2>1. (c + 1) * n <= a * n
    BY <1>1, TimesMonotone
  <2>2. (c + 1) * n = c * n + n
    BY <1>1, SMT
  <2> QED BY <1>1, <2>1, <2>2
<1>3. a * n <= c * n
  BY <1>1, <1>2, TimesMonotone
<1> QED BY <1>1, <1>3

-----------------------------------------------------------------------------
\* BYTES

LEMMA BytesFacts ==
  ASSUME NEW p \in Int, NEW n \in Nat
  PROVE  /\ Bytes(p, n) \in Seq(Int) /\ Len(Bytes(p, n)) = n
         /\ \A i \in 1..n : Bytes(p, n)[i] = p + i - 1
         /\ Bytes(p, n) = <<>> <=> n = 0
<1>1. Bytes(p, n) \in [1..n -> Int]
  BY DEF Bytes
<1>2. Bytes(p, n) \in Seq(Int) /\ Len(Bytes(p, n)) = n
  BY <1>1
<1>3. \A i \in 1..n : Bytes(p, n)[i] = p + i - 1
  BY DEF Bytes
<1>4. Bytes(p, n) = <<>> <=> n = 0
  BY <1>2, EmptySeq
<1> QED BY <1>2, <1>3, <1>4

LEMMA BytesConcat ==
  ASSUME NEW p \in Int, NEW m \in Nat, NEW n \in Nat
  PROVE  Bytes(p, m) \o Bytes(p + m, n) = Bytes(p, m + n)
<1> DEFINE s == Bytes(p, m)
           t == Bytes(p + m, n)
           u == Bytes(p, m + n)
<1>1. /\ s \in Seq(Int) /\ Len(s) = m /\ \A i \in 1..m : s[i] = p + i - 1
      /\ t \in Seq(Int) /\ Len(t) = n /\ \A i \in 1..n : t[i] = p + m + i - 1
      /\ u \in Seq(Int) /\ Len(u) = m + n /\ \A i \in 1..m + n : u[i] = p + i - 1
  BY BytesFacts
<1> HIDE DEF s, t, u
<1>2. /\ s \o t \in Seq(Int) /\ Len(s \o t) = m + n
      /\ \A i \in 1..m + n : (s \o t)[i] = IF i <= m THEN s[i] ELSE t[i - m]
  BY <1>1, ConcatProperties
<1>3. ASSUME NEW i \in 1..m + n PROVE (s \o t)[i] = u[i]
  <2>1. CASE i <= m
    BY <1>1, <1>2, <2>1
  <2>2. CASE ~(i <= m)
    <3>1. i - m \in 1..n
      BY <2>2
    <3> QED BY <1>1, <1>2, <2>2, <3>1
  <2> QED BY <2>1, <2>2
<1>4. s \o t = u
  BY <1>1, <1>2, <1>3, SeqEqual
<1> QED BY <1>4 DEF s, t, u

LEMMA BytesPart ==
  ASSUME NEW p \in Int, NEW n \in Nat, NEW a \in Nat, NEW k \in Nat, a + k <= n
  PROVE  SubSeq(Bytes(p, n), a + 1, a + k) = Bytes(p + a, k)
<1> DEFINE s == Bytes(p, n)
           u == Bytes(p + a, k)
           x == a + 1
           y == a + k
<1>1. /\ s \in Seq(Int) /\ Len(s) = n /\ \A i \in 1..n : s[i] = p + i - 1
      /\ u \in Seq(Int) /\ Len(u) = k /\ \A i \in 1..k : u[i] = p + a + i - 1
  BY BytesFacts
<1>2. x \in Int /\ y \in Int /\ \A i \in x..y : s[i] \in Int
  BY <1>1
<1>3. x <= y + 1 /\ y - x + 1 = k /\ x \in Nat /\ y \in Nat /\ x >= 1
  OBVIOUS
<1> HIDE DEF s, u, x, y
<1>4. SubSeq(s, x, y) = [i \in 1..k |-> s[x + i - 1]]
  BY <1>1, <1>2, <1>3
<1>5. \A i \in 1..k : x + i - 1 \in 1..n /\ s[x + i - 1] = p + a + i - 1
  <2>1. \A i \in 1..k : x + i - 1 \in 1..n /\ p + (x + i - 1) - 1 = p + a + i - 1
    BY DEF x
  <2> QED BY <1>1, <2>1
<1>6. SubSeq(s, x, y) = [i \in 1..k |-> p + a + i - 1]
  BY <1>4, <1>5
<1>7. u = [i \in 1..k |-> p + a + i - 1]
  BY DEF u, Bytes
<1> QED BY <1>6, <1>7 DEF s, u, x, y

LEMMA BytesAppend ==
  ASSUME NEW p \in Int, NEW n \in Nat
  PROVE  Append(Bytes(p, n), p + n) = Bytes(p, n + 1)
<1> DEFINE s == Bytes(p, n)
           u == Bytes(p, n + 1)
<1>1. /\ s \in Seq(Int) /\ Len(s) = n /\ \A i \in 1..n : s[i] = p + i - 1
      /\ u \in Seq(Int) /\ Len(u) = n + 1 /\ \A i \in 1..n + 1 : u[i] = p + i - 1
  BY BytesFacts
<1> HIDE DEF s, u
<1>2. /\ Append(s, p + n) \in Seq(Int) /\ Len(Append(s, p + n)) = n + 1
      /\ \A i \in 1..n : Append(s, p + n)[i] = s[i]
      /\ Append(s, p + n)[n + 1] = p + n
  BY <1>1, AppendProperties
<1>3. ASSUME NEW i \in 1..n + 1 PROVE Append(s, p + n)[i] = u[i]
  <2>1. CASE i \in 1..n
    BY <1>1, <1>2, <2>1
  <2>2. CASE i = n + 1
    <3>1. n + 1 \in 1..n + 1 /\ p + (n + 1) - 1 = p + n
      OBVIOUS
    <3>2. u[n + 1] = p + (n + 1) - 1
      BY <1>1, <3>1
    <3> QED BY <1>2, <2>2, <3>1, <3>2
  <2>3. i \in 1..n \/ i = n + 1
    OBVIOUS
  <2> QED BY <2>1, <2>2, <2>3, Zenon
<1>4. Append(s, p + n) = u
  BY <1>1, <1>2, <1>3, SeqEqual
<1> QED BY <1>4 DEF s, u

LEMMA SmallerFacts ==
  ASSUME NEW a \in Int, NEW b \in Int
  PROVE  /\ Smaller(a, b) \in {a, b} /\ Smaller(a, b) <= a /\ Smaller(a, b) <= b
         /\ a < b => Smaller(a, b) = a
         /\ b <= a => Smaller(a, b) = b
BY DEF Smaller

-----------------------------------------------------------------------------
\* MASKS

\* The two recursions of a mask, as functions of what is known behind j.
CodeStep(f, s, m, j) ==
    IF j = Len(m) + 1 THEN {Len(s) + 1}
    ELSE IF m[j] # "*" THEN {i \in 1..Len(s) : s[i] = m[j] /\ i + 1 \in f[j + 1]}
    ELSE IF NonStar(m, j) = {} THEN 1..Len(s) + 1
    ELSE LET k == Min(NonStar(m, j))
             sub == SubSeq(m, k, RunEnd(m, k))
         IN {i \in 1..Len(s) + 1 :
                /\ Places(sub, s, i) # {}
                /\ Min(Places(sub, s, i)) + Len(sub) \in f[RunEnd(m, k) + 1]}
GlobStep(f, s, m, j) ==
    IF j = Len(m) + 1 THEN {Len(s) + 1}
    ELSE IF m[j] = "*" THEN {i \in 1..Len(s) + 1 : \E k \in f[j + 1] : i <= k}
    ELSE {i \in 1..Len(s) : s[i] = m[j] /\ i + 1 \in f[j + 1]}

\* The run of characters that follows stars.
LEMMA RunFacts ==
  ASSUME NEW m \in Seq(STRING), NEW k \in 1..Len(m), m[k] # "*"
  PROVE  /\ RunEnd(m, k) \in k..Len(m) /\ \A b \in k..RunEnd(m, k) : m[b] # "*"
<1> DEFINE S == {b \in k..Len(m) : b = Len(m) \/ m[b + 1] = "*"}
           e == Min(S)
<1>1. S \in SUBSET Nat /\ Len(m) \in S /\ Len(m) \in Nat
  OBVIOUS
<1>2. e \in S /\ \A b \in S : e <= b
  <2> HIDE DEF S
  <2> QED BY <1>1, MinOfNaturals
<1>3. e = RunEnd(m, k)
  BY DEF RunEnd
<1> HIDE DEF e
<1>4. e \in k..Len(m)
  BY <1>2
<1>5. ASSUME NEW b \in k..e, m[b] = "*" PROVE FALSE
  <2>1. b # k /\ b - 1 \in k..Len(m) /\ (b - 1) + 1 = b
    BY <1>4, <1>5
  <2>2. b - 1 \in S
    BY <1>5, <2>1
  <2>3. e <= b - 1
    BY <1>2, <2>2
  <2> QED BY <1>4, <2>3
<1> QED BY <1>3, <1>4, <1>5

LEMMA StarFacts ==
  ASSUME NEW m \in Seq(STRING), NEW j \in 1..Len(m), m[j] = "*", NonStar(m, j) # {}
  PROVE  /\ Min(NonStar(m, j)) \in j + 1..Len(m) /\ m[Min(NonStar(m, j))] # "*"
         /\ \A b \in j..Min(NonStar(m, j)) - 1 : m[b] = "*"
         /\ RunEnd(m, Min(NonStar(m, j))) \in Min(NonStar(m, j))..Len(m)
<1> DEFINE S == NonStar(m, j)
           k == Min(S)
<1>1. S \in SUBSET Nat /\ S # {}
  BY DEF NonStar
<1>2. k \in S /\ \A b \in S : k <= b
  <2> HIDE DEF S
  <2> QED BY <1>1, MinOfNaturals
<1>3. k \in j..Len(m) /\ m[k] # "*" /\ \A b \in j..Len(m) : m[b] # "*" => k <= b
  <2> HIDE DEF k
  <2> QED BY <1>2 DEF NonStar
<1> HIDE DEF k, S
<1>4. k # j
  BY <1>3
<1>5. k \in 1..Len(m) /\ k \in j + 1..Len(m)
  BY <1>3, <1>4
<1>6. \A b \in j..k - 1 : m[b] = "*"
  BY <1>3
<1>7. RunEnd(m, k) \in k..Len(m)
  BY <1>3, <1>5, RunFacts
<1> QED BY <1>3, <1>5, <1>6, <1>7 DEF k, S

\* A step looks only at what is behind it.
LEMMA StepLocal ==
  ASSUME NEW s, NEW m \in Seq(STRING), NEW f, NEW g, NEW j \in 1..Len(m) + 1,
         \A b \in j + 1..Len(m) + 1 : f[b] = g[b]
  PROVE  CodeStep(f, s, m, j) = CodeStep(g, s, m, j) /\ GlobStep(f, s, m, j) = GlobStep(g, s, m, j)
<1>1. CASE j = Len(m) + 1
  BY <1>1 DEF CodeStep, GlobStep
<1>2. CASE j # Len(m) + 1
  <2>1. j \in 1..Len(m) /\ f[j + 1] = g[j + 1]
    BY <1>2
  <2>2. GlobStep(f, s, m, j) = GlobStep(g, s, m, j)
    BY <2>1 DEF GlobStep
  <2>3. CASE m[j] # "*" \/ NonStar(m, j) = {}
    BY <2>1, <2>2, <2>3 DEF CodeStep
  <2>4. CASE m[j] = "*" /\ NonStar(m, j) # {}
    <3> DEFINE e == RunEnd(m, Min(NonStar(m, j)))
    <3>1. e + 1 \in j + 1..Len(m) + 1
      BY <2>1, <2>4, StarFacts
    <3>2. f[e + 1] = g[e + 1]
      <4> HIDE DEF e
      <4> QED BY <3>1
    <3> QED BY <1>2, <2>2, <2>4, <3>2 DEF CodeStep
  <2> QED BY <2>2, <2>3, <2>4
<1> QED BY <1>1, <1>2

\* Both recursions define a function: the longest end of the mask for which one
\* did not could be reached from the end behind it.
Step(glob, f, s, m, j) == IF glob THEN GlobStep(f, s, m, j) ELSE CodeStep(f, s, m, j)

LEMMA FitsExist ==
  ASSUME NEW s, NEW m \in Seq(STRING), NEW glob \in BOOLEAN
  PROVE  \E f : f = [j \in 1..Len(m) + 1 |-> Step(glob, f, s, m, j)]
<1> DEFINE L == Len(m) + 1
           IsFrom(g, b) == g = [j \in b..L |-> Step(glob, g, s, m, j)]
           Bad == {d \in Nat : d < L /\ ~\E g : IsFrom(g, L - d)}
<1>1. L \in Nat \ {0}
  OBVIOUS
<1>2. Bad = {}
  <2> SUFFICES ASSUME Bad # {} PROVE FALSE
    OBVIOUS
  <2>1. PICK d \in Bad : \A x \in Bad : d <= x
    BY LeastNatural
  <2> DEFINE b == L - d
  <2>2. d \in Nat /\ d < L /\ b \in 1..L
    BY <1>1, <2>1
  <2>3. \E g : d # 0 => IsFrom(g, b + 1)
    <3>1. CASE d = 0
      BY <3>1
    <3>2. CASE d # 0
      <4>1. d - 1 \in Nat /\ d - 1 < L /\ ~(d <= d - 1) /\ L - (d - 1) = b + 1
        BY <1>1, <2>2, <3>2
      <4>2. d - 1 \notin Bad
        BY <2>1, <4>1
      <4> QED BY <4>1, <4>2
    <3> QED BY <3>1, <3>2
  <2>4. PICK g : d # 0 => IsFrom(g, b + 1)
    BY <2>3
  <2> DEFINE h == [j \in b..L |-> IF j = b THEN Step(glob, g, s, m, b) ELSE g[j]]
  <2>5. ASSUME NEW j \in b..L PROVE h[j] = Step(glob, h, s, m, j)
    <3>1. j \in 1..Len(m) + 1 /\ b \in 1..Len(m) + 1
      BY <1>1, <2>2
    <3>2. \A x \in j + 1..Len(m) + 1 : g[x] = h[x]
      BY <1>1, <2>2
    <3>3. Step(glob, g, s, m, j) = Step(glob, h, s, m, j)
      <4> HIDE DEF h
      <4> QED BY <3>1, <3>2, StepLocal DEF Step
    <3>4. CASE j = b
      BY <3>3, <3>4
    <3>5. CASE j # b
      <4>1. d # 0 /\ j \in b + 1..L
        BY <1>1, <2>2, <3>5
      <4>2. g[j] = Step(glob, g, s, m, j)
        BY <2>4, <4>1
      <4> QED BY <3>3, <3>5, <4>2
    <3> QED BY <3>4, <3>5
  <2>6. h = [j \in b..L |-> h[j]]
    OBVIOUS
  <2>7. IsFrom(h, b)
    <3> HIDE DEF h
    <3> QED BY <2>5, <2>6
  <2> QED BY <2>1, <2>7
<1>3. L - (L - 1) = 1 /\ L - 1 \in Nat /\ L - 1 < L
  BY <1>1
<1>4. \E g : IsFrom(g, L - (L - 1))
  BY <1>2, <1>3
<1> QED BY <1>3, <1>4

\* What the two operators of masks say, by their equations.
LEMMA CheckWildCardIs ==
  ASSUME NEW s, NEW m \in Seq(STRING)
  PROVE  \E f : /\ f = [j \in 1..Len(m) + 1 |-> CodeStep(f, s, m, j)]
                /\ CheckWildCard(s, m) <=> m # <<>> /\ 1 \in f[1]
<1> DEFINE Is(f) == f = [j \in 1..Len(m) + 1 |-> CodeStep(f, s, m, j)]
<1>1. \E f : Is(f)
  <2>1. PICK f : f = [j \in 1..Len(m) + 1 |-> Step(FALSE, f, s, m, j)]
    BY FitsExist
  <2>2. \A j \in 1..Len(m) + 1 : Step(FALSE, f, s, m, j) = CodeStep(f, s, m, j)
    BY DEF Step
  <2>3. f = [j \in 1..Len(m) + 1 |-> CodeStep(f, s, m, j)]
    BY <2>1, <2>2
  <2> QED BY <2>3
<1>2. CheckWildCard(s, m) <=> m # <<>> /\ 1 \in (CHOOSE f : Is(f))[1]
  BY DEF CheckWildCard, CodeStep
<1> HIDE DEF Is
<1>3. PICK f : f = CHOOSE h : Is(h)
  OBVIOUS
<1>4. Is(f)
  BY <1>1, <1>3
<1>5. CheckWildCard(s, m) <=> m # <<>> /\ 1 \in f[1]
  BY <1>2, <1>3
<1> QED BY <1>4, <1>5 DEF Is

LEMMA GlobIs ==
  ASSUME NEW s, NEW m \in Seq(STRING)
  PROVE  \E f : /\ f = [j \in 1..Len(m) + 1 |-> GlobStep(f, s, m, j)]
                /\ Glob(s, m) <=> 1 \in f[1]
<1> DEFINE Is(f) == f = [j \in 1..Len(m) + 1 |-> GlobStep(f, s, m, j)]
<1>1. \E f : Is(f)
  <2>1. PICK f : f = [j \in 1..Len(m) + 1 |-> Step(TRUE, f, s, m, j)]
    BY FitsExist
  <2>2. \A j \in 1..Len(m) + 1 : Step(TRUE, f, s, m, j) = GlobStep(f, s, m, j)
    BY DEF Step
  <2>3. f = [j \in 1..Len(m) + 1 |-> GlobStep(f, s, m, j)]
    BY <2>1, <2>2
  <2> QED BY <2>3
<1>2. Glob(s, m) <=> 1 \in (CHOOSE f : Is(f))[1]
  BY DEF Glob, GlobStep
<1> HIDE DEF Is
<1>3. PICK f : f = CHOOSE h : Is(h)
  OBVIOUS
<1>4. Is(f)
  BY <1>1, <1>3
<1>5. Glob(s, m) <=> 1 \in f[1]
  BY <1>2, <1>3
<1> QED BY <1>4, <1>5 DEF Is

-----------------------------------------------------------------------------
\* The two recursions agree

\* Where a run of characters stands in a text, by its characters.
LEMMA PlacesIs ==
  ASSUME NEW s \in Seq(STRING), NEW m \in Seq(STRING), NEW k \in 1..Len(m), NEW e \in k..Len(m),
         NEW from \in Nat \ {0}, NEW i \in Int
  PROVE  i \in Places(SubSeq(m, k, e), s, from) <=>
             /\ from <= i /\ i + (e - k) <= Len(s)
             /\ \A b \in k..e : s[i + (b - k)] = m[b]
<1> DEFINE sub == SubSeq(m, k, e)
           n == e - k + 1
<1>1. k \in Nat /\ e \in Nat /\ n \in Nat /\ Len(s) \in Nat
  OBVIOUS
<1>2. sub = [x \in 1..n |-> m[k + x - 1]]
  <2>1. \A x \in k..e : m[x] \in STRING
    OBVIOUS
  <2> QED BY <1>1, <2>1
<1>3. sub \in Seq(STRING) /\ Len(sub) = n
  <2>1. \A x \in 1..n : m[k + x - 1] \in STRING
    OBVIOUS
  <2> QED BY <1>1, <1>2, <2>1
<1>4. i \in Places(sub, s, from) <=>
          i \in from..Len(s) - n + 1 /\ SubSeq(s, i, i + n - 1) = sub
  BY <1>3 DEF Places, Occurs
<1>5. i \in from..Len(s) - n + 1 <=> from <= i /\ i + (e - k) <= Len(s)
  BY <1>1
<1>6. ASSUME from <= i, i + (e - k) <= Len(s)
      PROVE  SubSeq(s, i, i + n - 1) = sub <=> \A b \in k..e : s[i + (b - k)] = m[b]
  <2>1. SubSeq(s, i, i + n - 1) = [x \in 1..n |-> s[i + x - 1]]
    <3>1. \A x \in i..i + n - 1 : s[x] \in STRING
      BY <1>6
    <3>2. (i + n - 1) - i + 1 = n /\ i \in Nat /\ i + n - 1 \in Nat
      BY <1>1, <1>6
    <3> QED BY <3>1, <3>2
  <2>2. ASSUME SubSeq(s, i, i + n - 1) = sub, NEW b \in k..e
        PROVE  s[i + (b - k)] = m[b]
    <3>1. b - k + 1 \in 1..n /\ i + (b - k + 1) - 1 = i + (b - k) /\ k + (b - k + 1) - 1 = b
      OBVIOUS
    <3>2. [x \in 1..n |-> s[i + x - 1]][b - k + 1] = [x \in 1..n |-> m[k + x - 1]][b - k + 1]
      BY <1>2, <2>1, <2>2
    <3> HIDE DEF n
    <3> QED BY <3>1, <3>2
  <2>3. ASSUME \A b \in k..e : s[i + (b - k)] = m[b]
        PROVE  SubSeq(s, i, i + n - 1) = sub
    <3>1. \A x \in 1..n : k + x - 1 \in k..e /\ i + ((k + x - 1) - k) = i + x - 1
      OBVIOUS
    <3>2. \A x \in 1..n : s[i + x - 1] = m[k + x - 1]
      BY <2>3, <3>1
    <3> HIDE DEF n
    <3> QED BY <1>2, <2>1, <3>2
  <2> QED BY <2>2, <2>3
<1> HIDE DEF sub
<1>7. i \in Places(sub, s, from) <=>
          /\ from <= i /\ i + (e - k) <= Len(s)
          /\ \A b \in k..e : s[i + (b - k)] = m[b]
  BY <1>4, <1>5, <1>6
<1> QED BY <1>7 DEF sub

\* A text fits from the beginning of a run on where the run stands and the
\* rest fits behind it.
LEMMA RunFits ==
  ASSUME NEW s \in Seq(STRING), NEW m \in Seq(STRING), NEW g,
         \A j \in 1..Len(m) + 1 : g[j] = GlobStep(g, s, m, j),
         NEW k \in 1..Len(m), m[k] # "*", NEW i \in Nat \ {0}
  PROVE  LET sub == SubSeq(m, k, RunEnd(m, k))
         IN i \in g[k] <=> i \in Places(sub, s, 1) /\ i + Len(sub) \in g[RunEnd(m, k) + 1]
<1> DEFINE e == RunEnd(m, k)
           sub == SubSeq(m, k, e)
           Fits(t) == /\ \A b \in k..k + t - 1 : i + (b - k) \in 1..Len(s) /\ s[i + (b - k)] = m[b]
                      /\ i + t \in g[k + t]
           Bad == {t \in 0..e - k + 1 : ~(i \in g[k] <=> Fits(t))}
<1>1. e \in k..Len(m) /\ \A b \in k..e : m[b] # "*"
  BY RunFacts
<1> HIDE DEF e
<1>2. k \in Nat /\ e \in Nat /\ Len(m) \in Nat /\ Len(s) \in Nat
  BY <1>1
<1>3. Bad = {}
  <2> SUFFICES ASSUME Bad # {} PROVE FALSE
    OBVIOUS
  <2>1. Bad \in SUBSET Nat
    OBVIOUS
  <2>2. PICK t \in Bad : \A x \in Bad : t <= x
    <3> HIDE DEF Bad
    <3> QED BY <2>1, LeastNatural
  <2>3. t \in 0..e - k + 1 /\ ~(i \in g[k] <=> Fits(t))
    BY <2>2
  <2>4. t # 0
    <3>1. Fits(0) <=> i \in g[k]
      <4>1. i + 0 = i /\ k + 0 = k /\ k..k + 0 - 1 = {}
        BY <1>2
      <4> QED BY <4>1
    <3> QED BY <2>3, <3>1
  <2> DEFINE u == t - 1
             j == k + u
  <2>5. u \in 0..e - k + 1 /\ ~(t <= u) /\ t = u + 1 /\ j \in k..e /\ j \in 1..Len(m) /\ j + 1 = k + t
    <3>1. t \in Nat /\ t <= e - k + 1
      BY <1>2, <2>3
    <3>2. k <= e /\ e <= Len(m) /\ 1 <= k
      BY <1>1
    <3> HIDE DEF Bad, Fits
    <3> QED BY <1>2, <2>4, <3>1, <3>2
  <2>6. i \in g[k] <=> Fits(u)
    BY <2>2, <2>5
  <2>7. i + u \in g[j] <=>
          i + u \in 1..Len(s) /\ s[i + u] = m[j] /\ i + t \in g[k + t]
    <3>1. g[j] = {x \in 1..Len(s) : s[x] = m[j] /\ x + 1 \in g[j + 1]}
      <4> HIDE DEF j, Bad, Fits
      <4>1. j \in 1..Len(m) + 1 /\ j # Len(m) + 1 /\ m[j] # "*"
        BY <1>1, <1>2, <2>5
      <4>2. g[j] = GlobStep(g, s, m, j)
        BY <4>1
      <4> QED BY <4>1, <4>2 DEF GlobStep
    <3>2. (i + u) + 1 = i + t
      BY <2>5
    <3> HIDE DEF u, j
    <3> QED BY <2>5, <3>1, <3>2
  <2>8. Fits(u) <=> Fits(t)
    <3> DEFINE P(b) == i + (b - k) \in 1..Len(s) /\ s[i + (b - k)] = m[b]
    <3>1. (\A b \in k..k + t - 1 : P(b)) <=> (\A b \in k..k + u - 1 : P(b)) /\ P(j)
      <4>1. \A b \in k..k + t - 1 : b \in k..k + u - 1 \/ b = j
        BY <2>5
      <4>2. j \in k..k + t - 1 /\ \A b \in k..k + u - 1 : b \in k..k + t - 1
        BY <2>5
      <4> HIDE DEF P, u, j
      <4> QED BY <4>1, <4>2
    <3>2. i + (j - k) = i + u
      BY <2>5
    <3>3. P(j) <=> i + u \in 1..Len(s) /\ s[i + u] = m[j]
      BY <3>2
    <3>4. Fits(t) <=> (\A b \in k..k + t - 1 : P(b)) /\ i + t \in g[k + t]
      OBVIOUS
    <3>5. Fits(u) <=> (\A b \in k..k + u - 1 : P(b)) /\ i + u \in g[j]
      OBVIOUS
    <3> HIDE DEF P, Fits, u, j
    <3> QED BY <2>7, <3>1, <3>3, <3>4, <3>5
  <2> QED BY <2>3, <2>6, <2>8
<1> DEFINE n == e - k + 1
<1>4. n \in 0..e - k + 1 /\ k + n = e + 1 /\ k + n - 1 = e
  BY <1>1, <1>2
<1>5. i \in g[k] <=> Fits(n)
  BY <1>3, <1>4
<1>6. Len(sub) = n
  <2>1. \A x \in k..e : m[x] \in STRING
    BY <1>1
  <2> QED BY <1>1, <1>2, <2>1
<1>7. i \in Places(sub, s, 1) <=>
        /\ 1 <= i /\ i + (e - k) <= Len(s)
        /\ \A b \in k..e : s[i + (b - k)] = m[b]
  BY <1>1, PlacesIs
<1>8. (1 <= i /\ i + (e - k) <= Len(s)) <=> \A b \in k..e : i + (b - k) \in 1..Len(s)
  <2>1. e \in k..e
    BY <1>1
  <2>2. ASSUME i + (e - k) <= Len(s), NEW b \in k..e PROVE i + (b - k) \in 1..Len(s)
    BY <1>1, <1>2, <2>2
  <2>3. ASSUME \A b \in k..e : i + (b - k) \in 1..Len(s) PROVE i + (e - k) <= Len(s)
    <3>1. i + (e - k) \in 1..Len(s)
      BY <2>1, <2>3
    <3> QED BY <1>2, <3>1
  <2>4. 1 <= i
    OBVIOUS
  <2> QED BY <2>2, <2>3, <2>4, Zenon
<1> HIDE DEF sub
<1>9. Fits(n) <=> i \in Places(sub, s, 1) /\ i + Len(sub) \in g[e + 1]
  BY <1>4, <1>6, <1>7, <1>8
<1> QED BY <1>5, <1>9 DEF sub, e

\* When the texts of a mask stand at one place each, the first place where one
\* stands is the only one: what the code finds is what a mask says.
LEMMA SameFits ==
  ASSUME NEW s \in Seq(STRING), NEW m \in Seq(STRING), NEW c, NEW g,
         \A j \in 1..Len(m) + 1 : c[j] = CodeStep(c, s, m, j),
         \A j \in 1..Len(m) + 1 : g[j] = GlobStep(g, s, m, j),
         \A k \in RunBegins(m) :
             \A a, b \in Places(SubSeq(m, k, RunEnd(m, k)), s, 1) : a = b
  PROVE  \A j \in 1..Len(m) + 1 : c[j] = g[j]
<1> DEFINE L == Len(m) + 1
           Bad == {d \in 0..Len(m) : c[L - d] # g[L - d]}
<1>1. L \in Nat /\ Len(m) \in Nat /\ Len(s) \in Nat
  OBVIOUS
<1> SUFFICES ASSUME Bad # {} PROVE FALSE
  <2>1. ASSUME Bad = {}, NEW j \in 1..Len(m) + 1 PROVE c[j] = g[j]
    <3>1. L - j \in 0..Len(m) /\ L - (L - j) = j
      BY <1>1
    <3> HIDE DEF L
    <3> QED BY <2>1, <3>1
  <2> QED BY <2>1
<1>2. Bad \in SUBSET Nat
  OBVIOUS
<1>3. PICK d \in Bad : \A x \in Bad : d <= x
  <2> HIDE DEF Bad
  <2> QED BY <1>2, LeastNatural
<1> DEFINE j == L - d
<1>4. j \in 1..Len(m) + 1 /\ c[j] # g[j]
  BY <1>1, <1>3
<1>5. \A b \in j + 1..Len(m) + 1 : c[b] = g[b]
  <2> TAKE b \in j + 1..Len(m) + 1
  <2>1. L - b \in 0..Len(m) /\ ~(d <= L - b) /\ L - (L - b) = b
    BY <1>1, <1>3
  <2>2. L - b \notin Bad
    BY <1>3, <2>1
  <2> QED BY <2>1, <2>2
<1> HIDE DEF j, Bad, L
<1>6. c[j] = CodeStep(c, s, m, j) /\ g[j] = GlobStep(g, s, m, j)
  BY <1>4
<1>7. CASE j = Len(m) + 1
  BY <1>4, <1>6, <1>7 DEF CodeStep, GlobStep
<1>8. CASE j # Len(m) + 1
  <2>1. j \in 1..Len(m) /\ j + 1 \in 1..Len(m) + 1 /\ c[j + 1] = g[j + 1]
    BY <1>1, <1>4, <1>5, <1>8
  <2>2. CASE m[j] # "*"
    BY <1>4, <1>6, <1>8, <2>1, <2>2 DEF CodeStep, GlobStep
  <2>3. ASSUME m[j] = "*" PROVE g[j] = {i \in 1..Len(s) + 1 : \E k \in g[j + 1] : i <= k}
    BY <1>6, <1>8, <2>3 DEF GlobStep
  <2>4. c[j + 1] = CodeStep(c, s, m, j + 1) /\ g[j + 1] = GlobStep(g, s, m, j + 1)
    BY <2>1
  <2>5. CASE m[j] = "*" /\ NonStar(m, j) = {}
    <3>1. c[j] = 1..Len(s) + 1
      BY <1>6, <1>8, <2>5 DEF CodeStep
    <3>2. Len(s) + 1 \in c[j + 1]
      <4>1. CASE j + 1 = Len(m) + 1
        BY <2>4, <4>1 DEF CodeStep
      <4>2. CASE j + 1 # Len(m) + 1
        <5>1. j + 1 \in j..Len(m)
          BY <2>1, <4>2
        <5>2. m[j + 1] = "*" /\ NonStar(m, j + 1) = {}
          BY <2>1, <2>5, <5>1 DEF NonStar
        <5>3. c[j + 1] = 1..Len(s) + 1
          BY <2>4, <4>2, <5>2 DEF CodeStep
        <5> QED BY <1>1, <5>3
      <4> QED BY <4>1, <4>2
    <3>3. g[j] = {i \in 1..Len(s) + 1 : \E k \in g[j + 1] : i <= k}
      BY <2>3, <2>5
    <3>4. g[j] = 1..Len(s) + 1
      BY <1>1, <2>1, <3>2, <3>3
    <3> QED BY <1>4, <3>1, <3>4
  <2>6. CASE m[j] = "*" /\ NonStar(m, j) # {} /\ m[j + 1] = "*"
    <3>1. NonStar(m, j + 1) = NonStar(m, j)
      BY <2>1, <2>6 DEF NonStar
    <3>2. j + 1 # Len(m) + 1
      <4>1. Min(NonStar(m, j)) \in j + 1..Len(m)
        BY <2>1, <2>6, StarFacts
      <4> QED BY <2>1, <4>1
    <3>3. CodeStep(c, s, m, j) = CodeStep(c, s, m, j + 1)
      BY <1>8, <2>6, <3>1, <3>2 DEF CodeStep
    <3>4. c[j] = g[j + 1]
      BY <1>6, <2>1, <2>4, <3>3
    <3>5. g[j + 1] = {i \in 1..Len(s) + 1 : \E k \in g[j + 1 + 1] : i <= k}
      BY <2>4, <2>6, <3>2 DEF GlobStep
    <3>6. g[j] = {i \in 1..Len(s) + 1 : \E k \in g[j + 1] : i <= k}
      BY <2>3, <2>6
    <3>7. ASSUME NEW i \in g[j + 1] PROVE i \in g[j]
      BY <3>5, <3>6, <3>7
    <3>8. ASSUME NEW i \in g[j] PROVE i \in g[j + 1]
      <4>1. PICK k \in g[j + 1] : i <= k
        BY <3>6, <3>8
      <4>2. i \in 1..Len(s) + 1 /\ k \in 1..Len(s) + 1
        BY <3>5, <3>6, <3>8, <4>1
      <4>3. PICK h \in g[j + 1 + 1] : k <= h
        BY <3>5, <4>1
      <4>4. h \in Int
        <5>1. g[j + 1 + 1] \in SUBSET Int
          <6>1. j + 1 + 1 \in 1..Len(m) + 1
            BY <2>1, <3>2
          <6>2. g[j + 1 + 1] = GlobStep(g, s, m, j + 1 + 1)
            BY <6>1
          <6> QED BY <1>1, <6>2 DEF GlobStep
        <5> QED BY <5>1
      <4>5. i <= h
        BY <4>1, <4>2, <4>3, <4>4
      <4> QED BY <3>5, <4>2, <4>5
    <3> QED BY <1>4, <3>4, <3>7, <3>8
  <2>7. CASE m[j] = "*" /\ NonStar(m, j) # {} /\ m[j + 1] # "*"
    <3> DEFINE k == j + 1
               e == RunEnd(m, k)
               sub == SubSeq(m, k, e)
    <3>1. k \in 1..Len(m) /\ k \in j + 1..Len(m) /\ Min(NonStar(m, j)) = k
      <4>1. /\ Min(NonStar(m, j)) \in j + 1..Len(m)
            /\ \A b \in j..Min(NonStar(m, j)) - 1 : m[b] = "*"
        BY <2>1, <2>7, StarFacts
      <4>2. j + 1 \in j..Len(m)
        BY <2>1, <4>1
      <4>3. ~(j + 1 \in j..Min(NonStar(m, j)) - 1)
        BY <2>7, <4>1
      <4> QED BY <2>1, <4>1, <4>2, <4>3
    <3>2. e \in k..Len(m)
      BY <2>7, <3>1, RunFacts
    <3>3. c[e + 1] = g[e + 1]
      <4>1. e + 1 \in j + 1..Len(m) + 1
        BY <2>1, <3>2
      <4> HIDE DEF e
      <4> QED BY <1>5, <4>1
    <3>4. c[j] = {i \in 1..Len(s) + 1 :
                    /\ Places(sub, s, i) # {}
                    /\ Min(Places(sub, s, i)) + Len(sub) \in c[e + 1]}
      BY <1>6, <1>8, <2>7, <3>1 DEF CodeStep
    <3>5. g[j] = {i \in 1..Len(s) + 1 : \E h \in g[k] : i <= h}
      BY <2>3, <2>7
    <3>6. k \in RunBegins(m)
      <4>1. k \in DOMAIN m /\ k - 1 = j
        BY <2>1, <3>1
      <4> QED BY <2>7, <4>1 DEF RunBegins
    <3>7. \A a, b \in Places(sub, s, 1) : a = b
      BY <3>6
    <3>8. g[k] \in SUBSET (Nat \ {0})
      <4>1. k # Len(m) + 1
        BY <3>1
      <4>2. g[k] = {i \in 1..Len(s) : s[i] = m[k] /\ i + 1 \in g[k + 1]}
        BY <2>4, <2>7, <4>1 DEF GlobStep
      <4> QED BY <1>1, <4>2
    <3>9. \A i \in Nat \ {0} :
            i \in g[k] <=> i \in Places(sub, s, 1) /\ i + Len(sub) \in g[e + 1]
      BY <2>7, <3>1, RunFits
    <3>10. \A f \in Nat \ {0}, i \in Int : i \in Places(sub, s, f) <=> i \in Places(sub, s, 1) /\ f <= i
      <4> TAKE f \in Nat \ {0}, i \in Int
      <4> HIDE DEF e, k
      <4>1. i \in Places(sub, s, f) <=>
             /\ f <= i /\ i + (e - k) <= Len(s)
             /\ \A b \in k..e : s[i + (b - k)] = m[b]
        BY <3>1, <3>2, PlacesIs
      <4>2. i \in Places(sub, s, 1) <=>
             /\ 1 <= i /\ i + (e - k) <= Len(s)
             /\ \A b \in k..e : s[i + (b - k)] = m[b]
        BY <3>1, <3>2, PlacesIs
      <4>3. f <= i => 1 <= i
        OBVIOUS
      <4> HIDE DEF sub
      <4> QED BY <4>1, <4>2, <4>3
    <3>11. \A f \in Nat \ {0} : Places(sub, s, f) \in SUBSET Nat
      <4> TAKE f \in Nat \ {0}
      <4>1. Len(sub) \in Nat
        <5>1. \A x \in k..e : m[x] \in STRING
          BY <3>1, <3>2
        <5> QED BY <3>1, <3>2, <5>1
      <4> HIDE DEF sub
      <4> QED BY <1>1, <4>1 DEF Places
    <3> HIDE DEF e, sub, k
    <3>12. ASSUME NEW i \in c[j] PROVE i \in g[j]
      <4>1. i \in 1..Len(s) + 1 /\ i \in Nat \ {0} /\ Places(sub, s, i) # {}
            /\ Min(Places(sub, s, i)) + Len(sub) \in g[e + 1]
        BY <1>1, <3>3, <3>4, <3>12
      <4>2. Min(Places(sub, s, i)) \in Places(sub, s, i)
        BY <3>11, <4>1, MinOfNaturals
      <4> DEFINE h == Min(Places(sub, s, i))
      <4>3. h \in Nat /\ h \in Places(sub, s, 1) /\ i <= h
        BY <3>10, <3>11, <4>1, <4>2
      <4>4. h \in Nat \ {0}
        BY <4>1, <4>3
      <4>5. h \in g[k]
        BY <3>9, <4>1, <4>3, <4>4
      <4> HIDE DEF h
      <4> QED BY <3>5, <4>1, <4>3, <4>5
    <3>13. ASSUME NEW i \in g[j] PROVE i \in c[j]
      <4>1. i \in 1..Len(s) + 1 /\ i \in Nat \ {0}
        BY <1>1, <3>5, <3>13
      <4>2. PICK h \in g[k] : i <= h
        BY <3>5, <3>13
      <4>3. h \in Nat \ {0}
        BY <3>8, <4>2
      <4>4. h \in Places(sub, s, 1) /\ h + Len(sub) \in g[e + 1]
        BY <3>9, <4>2, <4>3
      <4>5. h \in Places(sub, s, i)
        BY <3>10, <4>1, <4>2, <4>3, <4>4
      <4>6. Min(Places(sub, s, i)) \in Places(sub, s, i)
        BY <3>11, <4>1, <4>5, MinOfNaturals
      <4>7. Min(Places(sub, s, i)) \in Places(sub, s, 1)
        BY <3>10, <3>11, <4>1, <4>6
      <4>8. Min(Places(sub, s, i)) = h
        BY <3>7, <4>4, <4>7
      <4> QED BY <3>3, <3>4, <4>1, <4>4, <4>5, <4>8
    <3> QED BY <1>4, <3>12, <3>13
  <2> QED BY <2>2, <2>5, <2>6, <2>7
<1> QED BY <1>7, <1>8

\* A set with at most one element.
LEMMA OnlyOne ==
  ASSUME NEW S \in SUBSET Nat, IsFiniteSet(S), Cardinality(S) <= 1, NEW a \in S, NEW b \in S
  PROVE  a = b
<1> SUFFICES ASSUME a # b PROVE FALSE
  OBVIOUS
<1>1. IsFiniteSet({a, b}) /\ Cardinality({a, b}) = 2
  <2>1. IsFiniteSet({a}) /\ Cardinality({a}) = 1
    BY FS_Singleton
  <2>2. {a, b} = {a} \cup {b} /\ b \notin {a}
    OBVIOUS
  <2>3. IsFiniteSet({a} \cup {b}) /\ Cardinality({a} \cup {b}) = Cardinality({a}) + 1
    BY <2>1, <2>2, FS_AddElement
  <2> QED BY <2>1, <2>2, <2>3
<1>2. {a, b} \in SUBSET S
  OBVIOUS
<1>3. Cardinality({a, b}) <= Cardinality(S) /\ Cardinality(S) \in Nat
  BY <1>2, FS_Subset, FS_CardinalityType
<1> QED BY <1>1, <1>3

\* CheckWildCard says of a name what its mask means, if the name is not empty
\* and has each text of the mask at one place.
LEMMA MaskMeaning ==
  ASSUME NEW s \in Seq(STRING), s # <<>>,
         \A t \in MaskTexts : Cardinality(Places(t, s, 1)) <= 1
  PROVE  CheckWildCard(s, Mask) <=> Glob(s, Mask)
<1> DEFINE m == Mask
<1>1. m \in Seq(STRING)
  BY MaskAssumption
<1>2. PICK c : /\ c = [j \in 1..Len(m) + 1 |-> CodeStep(c, s, m, j)]
               /\ CheckWildCard(s, m) <=> m # <<>> /\ 1 \in c[1]
  BY <1>1, CheckWildCardIs
<1>3. PICK g : /\ g = [j \in 1..Len(m) + 1 |-> GlobStep(g, s, m, j)]
               /\ Glob(s, m) <=> 1 \in g[1]
  BY <1>1, GlobIs
<1>4. ASSUME NEW k \in RunBegins(m), NEW a \in Places(SubSeq(m, k, RunEnd(m, k)), s, 1),
             NEW b \in Places(SubSeq(m, k, RunEnd(m, k)), s, 1)
      PROVE  a = b
  <2> DEFINE t == SubSeq(m, k, RunEnd(m, k))
             P == Places(t, s, 1)
  <2>1. k \in 1..Len(m) /\ m[k] # "*"
    BY <1>1 DEF RunBegins
  <2>2. RunEnd(m, k) \in k..Len(m)
    BY <1>1, <2>1, RunFacts
  <2>3. Len(t) \in Nat
    <3>1. \A x \in k..RunEnd(m, k) : m[x] \in STRING
      BY <1>1, <2>1, <2>2
    <3> QED BY <1>1, <2>1, <2>2, <3>1
  <2>4. t \in MaskTexts
    BY DEF MaskTexts
  <2>5. Cardinality(P) <= 1
    BY <2>4
  <2> HIDE DEF t
  <2>6. P \in SUBSET (1..Len(s) - Len(t) + 1) /\ Len(s) - Len(t) + 1 \in Int
    BY <2>3 DEF Places
  <2>7. IsFiniteSet(1..Len(s) - Len(t) + 1)
    BY <2>6, FS_Interval
  <2>8. IsFiniteSet(P) /\ P \in SUBSET Nat
    BY <2>6, <2>7, FS_Subset
  <2>9. a \in P /\ b \in P
    BY <1>4 DEF t
  <2> HIDE DEF P
  <2> QED BY <2>5, <2>8, <2>9, OnlyOne
<1>5. \A j \in 1..Len(m) + 1 : c[j] = CodeStep(c, s, m, j)
  BY <1>2
<1>6. \A j \in 1..Len(m) + 1 : g[j] = GlobStep(g, s, m, j)
  BY <1>3
<1> HIDE DEF m
<1>7. \A j \in 1..Len(m) + 1 : c[j] = g[j]
  BY <1>1, <1>4, <1>5, <1>6, SameFits
<1>8. 1 \in 1..Len(m) + 1
  BY <1>1
<1>9. CheckWildCard(s, m) <=> m # <<>> /\ Glob(s, m)
  BY <1>2, <1>3, <1>7, <1>8
<1>10. CASE m # <<>>
  BY <1>9, <1>10 DEF m
<1>11. CASE m = <<>>
  <2>1. g[1] = {Len(s) + 1}
    BY <1>6, <1>8, <1>11 DEF GlobStep
  <2>2. Len(s) + 1 # 1
    <3>1. Len(s) \in Nat /\ Len(s) # 0
      BY EmptySeq
    <3> QED BY <3>1
  <2> QED BY <1>3, <1>9, <1>11, <2>1, <2>2 DEF m
<1> QED BY <1>10, <1>11

-----------------------------------------------------------------------------
\* THE INVARIANT

\* The block of the list file at p, where the sector begins that p is in, and
\* how much a read of a block at the cache's position gives.
Block(p) == Bytes(p, Smaller(CacheSize, fileSize - p))
SectorStart(p) == p - (p % sectorSize)
Total == IF cachePos < fileSize THEN Smaller(CacheSize, fileSize - cachePos) ELSE 0
Shown == cachePos < fileSize /\ Buffer = Block(cachePos)
BlocksInSectors == sectorSize % CacheSize = 0

Constants ==
    /\ text \in Texts /\ sectorSize \in Sectors /\ fileSize = Len(text)
    /\ cachePos % CacheSize = 0

\* The sector the handle has: the one its position names, or one that lies
\* before every block still to come.  Where blocks consist of sectors, only the
\* last sector of the file is ever kept.
SectorOK ==
    /\ pc = "idle" => dwSectorOffs = InvalidPos
    /\ dwSectorOffs # InvalidPos =>
         IF BlocksInSectors
         THEN \/ dwSectorOffs < SectorStart(cachePos)
              \/ dwSectorOffs = SectorStart(cachePos) /\ pbFileSector = SectorBytes(dwSectorOffs)
         ELSE bytesToRead = 0 /\ cachePos + CacheSize >= fileSize

\* What a read has copied so far, and that it stands at the sector it needs.
ReadOK ==
    /\ reading =>
         /\ pc \in {"creating", "loading"} /\ filePos = cachePos
         /\ fetched = Bytes(cachePos, Len(fetched)) /\ Len(fetched) + bytesToRead = Total
         /\ bytesToRead > 0 =>
              IF BlocksInSectors THEN fetched = <<>> /\ sectorPos = SectorStart(cachePos)
              ELSE sectorPos = cachePos + Len(fetched) /\ sectorPos % sectorSize = 0
    /\ ~reading =>
         /\ bytesToRead = 0
         /\ pc \in {"creating", "loading"} /\ fetched # <<>> =>
              cachePos < fileSize /\ fetched = Block(cachePos)

\* The cache shows a block or is used up.
CacheOK ==
    /\ pc \in {"idle", "creating"} => cachePos = 0 /\ Buffer = <<>> /\ pPos = 0
    /\ pc = "loading" => pPos = Len(Buffer) /\ cachePos < fileSize
    /\ pc # "loading" => Shown \/ pPos = Len(Buffer)

\* The line so far is one piece of the file, and the next character is the one
\* behind it.
LineEnd == szLine[1] + Len(szLine)
LineOK ==
    /\ pc \in {"idle", "creating"} \/ loop = "skip" => szLine = <<>>
    /\ szLine # <<>> =>
         /\ szLine[1] \in Nat /\ szLine = Bytes(szLine[1], Len(szLine)) /\ LineEnd <= fileSize
         /\ \A q \in szLine[1]..LineEnd - 1 : Char(q) # "\n"
         /\ pc = "line" => Shown /\ LineEnd = cachePos + pPos
         /\ pc = "loading" => LineEnd = cachePos

\* szExtraString is the last "~" of the line so far.
TildeOK ==
    IF szExtraString = NoExtra THEN \A i \in 1..Len(szLine) : Char(szLine[i]) # "~"
    ELSE /\ Char(szLine[szExtraString + 1]) = "~"
         /\ \A i \in szExtraString + 2..Len(szLine) : Char(szLine[i]) # "~"

\* The next character to look at; and, as long as every block could be read and
\* no line is too long, what is known of it, and which names have been listed.
Here == IF cachePos >= fileSize THEN fileSize
        ELSE IF pc = "loading" THEN cachePos ELSE cachePos + pPos
AtBreak(p) ==
    \/ p = fileSize
    \/ \A q \in 0..p - 1 : Char(q) \notin Blank => \E r \in q..p : Char(r) = "\n"
Searching == pc \in {"line", "loading", "ended"}
PlaceOK ==
    Searching /\ unread = {} /\ WellFormed =>
      /\ pc # "loading" => cachePos >= fileSize \/ Shown
      /\ loop = "skip" => AtBreak(Here)
      /\ loop = "copy" /\ szLine = <<>> => Here = fileSize \/ BeginsLine(Here)
      /\ szLine # <<>> => BeginsLine(szLine[1]) /\ LineEnd = Here
      /\ pc = "ended" =>
           IF szLine = <<>> THEN Here = fileSize ELSE Len(szLine) = LineLength(szLine[1])

Chosen(p) == CheckWildCard(TextOf(NameAt(p)), Mask)
NamesBefore(p) == {NameAt(q) : q \in {r \in LineBegins : r < p /\ Chosen(r)}}
Passed == IF szLine = <<>> THEN Here ELSE szLine[1]
ListedOK ==
    unread = {} /\ WellFormed =>
      /\ pc \in {"idle", "creating"} => list = {}
      /\ Searching => list = NamesBefore(Passed)
      /\ pc = "closed" => list = NamesBefore(fileSize)

\* The list file is open during the search.
FilesOK == files = IF pc \in {"idle", "closed"} THEN 0 ELSE 1

IInv == TypeOK /\ Constants /\ FilesOK /\ SectorOK /\ ReadOK /\ CacheOK /\ LineOK /\ TildeOK
        /\ NamesInOnePiece /\ PlaceOK /\ ListedOK

-----------------------------------------------------------------------------
\* THE TEXT

\* What the list file says does not change during a search.
LEMMA TextSame ==
  ASSUME text' = text, fileSize' = fileSize
  PROVE  /\ \A p : Char(p)' = Char(p)
         /\ \A p : BeginsLine(p)' <=> BeginsLine(p)
         /\ \A p : AtBreak(p)' <=> AtBreak(p)
         /\ \A p : LineLength(p)' = LineLength(p)
         /\ \A p : NamesBefore(p)' = NamesBefore(p)
         /\ \A n : TextOf(n)' = TextOf(n)
         /\ WellFormed' <=> WellFormed
<1>1. \A p : Char(p)' = Char(p)
  BY DEF Char
<1>2. \A p : BeginsLine(p)' <=> BeginsLine(p)
  BY DEF BeginsLine, Char
<1>3. \A p : AtBreak(p)' <=> AtBreak(p)
  BY DEF AtBreak, Char
<1>4. LineBegins' = LineBegins
  BY <1>2 DEF LineBegins
<1>5. \A p : LineLength(p)' = LineLength(p)
  BY DEF LineLength, Char
<1>6. \A p : NameAt(p)' = NameAt(p) /\ NameLength(p)' = NameLength(p)
  BY DEF NameAt, NameLength, HasPatchInfo, Tildes, LineLength, Char
<1>7. \A n : TextOf(n)' = TextOf(n)
  BY DEF TextOf, Char
<1>8. WellFormed' <=> WellFormed
  BY <1>4, <1>5, <1>6, <1>7 DEF WellFormed
<1>9. \A p : Chosen(p)' <=> Chosen(p)
  BY <1>6, <1>7 DEF Chosen
<1>10. \A p : NamesBefore(p)' = NamesBefore(p)
  BY <1>4, <1>6, <1>9 DEF NamesBefore
<1> QED BY <1>1, <1>2, <1>3, <1>5, <1>7, <1>8, <1>10

\* The length of a line: up to the first newline, or to the end of the file.
LEMMA LineLengthFacts ==
  ASSUME fileSize \in Nat, NEW p \in 0..fileSize - 1
  PROVE  /\ LineLength(p) \in 1..fileSize - p
         /\ p + LineLength(p) = fileSize \/ Char(p + LineLength(p)) = "\n"
         /\ \A n \in 1..LineLength(p) - 1 : Char(p + n) # "\n"
<1> DEFINE S == {n \in 1..fileSize - p : p + n = fileSize \/ Char(p + n) = "\n"}
           l == Min(S)
<1>1. S \in SUBSET Nat /\ fileSize - p \in S
  OBVIOUS
<1>2. l \in S /\ \A n \in S : l <= n
  <2> HIDE DEF S
  <2> QED BY <1>1, MinOfNaturals
<1>3. LineLength(p) = l
  BY DEF LineLength
<1> HIDE DEF l
<1>4. \A n \in 1..l - 1 : n \notin S /\ n \in 1..fileSize - p
  BY <1>2
<1> QED BY <1>2, <1>3, <1>4

LEMMA LineLengthIs ==
  ASSUME fileSize \in Nat, NEW p \in Nat, NEW n \in Nat \ {0}, p + n <= fileSize,
         \A q \in p..p + n - 1 : Char(q) # "\n",
         p + n = fileSize \/ Char(p + n) = "\n"
  PROVE  LineLength(p) = n
<1>1. p \in 0..fileSize - 1
  OBVIOUS
<1>2. /\ LineLength(p) \in 1..fileSize - p
      /\ p + LineLength(p) = fileSize \/ Char(p + LineLength(p)) = "\n"
      /\ \A k \in 1..LineLength(p) - 1 : Char(p + k) # "\n"
  BY <1>1, LineLengthFacts
<1>3. ~(LineLength(p) < n)
  <2> SUFFICES ASSUME LineLength(p) < n PROVE FALSE
    OBVIOUS
  <2>1. p + LineLength(p) \in p..p + n - 1 /\ p + LineLength(p) # fileSize
    BY <1>2
  <2> QED BY <1>2, <2>1
<1>4. ~(n < LineLength(p))
  <2> SUFFICES ASSUME n < LineLength(p) PROVE FALSE
    OBVIOUS
  <2>1. n \in 1..LineLength(p) - 1 /\ p + n # fileSize
    BY <1>2
  <2> QED BY <1>2, <2>1
<1> QED BY <1>2, <1>3, <1>4

\* A name is a piece of its line.
LEMMA NameLengthFacts ==
  ASSUME fileSize \in Nat, NEW p \in 0..fileSize - 1
  PROVE  NameLength(p) \in 0..LineLength(p)
<1>1. LineLength(p) \in Nat
  BY LineLengthFacts
<1>2. CASE ~HasPatchInfo(p)
  BY <1>1, <1>2 DEF NameLength
<1>3. CASE HasPatchInfo(p)
  <2> DEFINE n == LineLength(p)
             T == Tildes(p)
             U == {n - k : k \in T}
  <2>1. T \in SUBSET (0..n - 1) /\ T # {} /\ n \in Nat
    BY <1>1, <1>3 DEF Tildes, HasPatchInfo
  <2> HIDE DEF n, T
  <2>2. U \in SUBSET Nat /\ U # {}
    <3>1. \A k \in T : k \in Nat /\ n - k \in Nat
      BY <2>1
    <3> QED BY <2>1, <3>1
  <2>3. PICK u \in U : \A x \in U : u <= x
    <3> HIDE DEF U
    <3> QED BY <2>2, LeastNatural
  <2>4. PICK k \in T : u = n - k
    BY <2>3
  <2>5. \A x \in T : x <= k
    <3> TAKE x \in T
    <3>1. n - x \in U
      OBVIOUS
    <3>2. u <= n - x
      BY <2>3, <3>1
    <3> QED BY <2>1, <2>4, <3>2
  <2>6. Max(T) = k
    BY <2>1, <2>4, <2>5, MaxIs
  <2>7. NameLength(p) = Max(T)
    BY <1>3 DEF NameLength, T
  <2> QED BY <2>1, <2>4, <2>6, <2>7 DEF n
<1> QED BY <1>2, <1>3

\* No other line begins inside of a line.
LEMMA LinesApart ==
  ASSUME fileSize \in Nat, NEW p \in LineBegins, NEW n \in Nat \ {0}, p + n <= fileSize,
         \A q \in p..p + n - 1 : Char(q) # "\n"
  PROVE  NamesBefore(p + n) = NamesBefore(p) \cup (IF Chosen(p) THEN {NameAt(p)} ELSE {})
<1>1. p \in 0..fileSize - 1 /\ BeginsLine(p)
  BY DEF LineBegins
<1>2. ASSUME NEW q \in LineBegins, q < p + n PROVE q < p \/ q = p
  <2>1. q \in 0..fileSize - 1 /\ BeginsLine(q)
    BY DEF LineBegins
  <2> SUFFICES ASSUME p < q PROVE FALSE
    BY <1>1, <2>1
  <2>2. p \in 0..q - 1 /\ Char(p) \notin Blank
    BY <1>1, <2>1 DEF BeginsLine
  <2>3. PICK r \in p..q : Char(r) = "\n"
    BY <2>1, <2>2 DEF BeginsLine
  <2>4. r \in p..p + n - 1
    BY <1>1, <1>2, <2>1, <2>3
  <2> QED BY <2>3, <2>4
<1>3. \A q \in LineBegins : q < p => q < p + n
  BY <1>1 DEF LineBegins
<1>4. p < p + n
  BY <1>1
<1> QED BY <1>2, <1>3, <1>4 DEF NamesBefore

-----------------------------------------------------------------------------
\* READING A BLOCK

\* Two different multiples are a whole apart.
LEMMA MultiplesApart ==
  ASSUME NEW n \in Nat \ {0}, NEW x \in Nat, NEW y \in Nat, x % n = 0, y % n = 0, y < x
  PROVE  y + n <= x
<1> DEFINE a == x \div n
           c == y \div n
<1>1. a \in Nat /\ c \in Nat /\ x = a * n /\ y = c * n
  BY DivisionFacts
<1> HIDE DEF a, c
<1>2. c + 1 <= a
  <2> SUFFICES ASSUME a <= c PROVE FALSE
    BY <1>1
  <2>1. a * n <= c * n
    BY <1>1, TimesMonotone
  <2> QED BY <1>1, <2>1
<1>3. (c + 1) * n <= a * n
  BY <1>1, <1>2, TimesMonotone
<1>4. (c + 1) * n = c * n + n
  BY <1>1, SMT
<1> QED BY <1>1, <1>3, <1>4

\* What the sizes of blocks and sectors mean for the block at a position.
LEMMA BlockFacts ==
  ASSUME TypeOK, Constants
  PROVE  /\ cachePos \in Nat /\ fileSize \in Nat /\ sectorSize \in Nat \ {0}
         /\ SectorStart(cachePos) \in Nat /\ cachePos % sectorSize \in 0..sectorSize - 1
         /\ cachePos = SectorStart(cachePos) + (cachePos % sectorSize)
         /\ BlocksInSectors => (cachePos % sectorSize) + CacheSize <= sectorSize
         /\ ~BlocksInSectors => CacheSize % sectorSize = 0 /\ cachePos % sectorSize = 0
         /\ Total \in Nat /\ Total <= CacheSize /\ (Total > 0 => cachePos + Total <= fileSize)
         /\ cachePos + CacheSize <= fileSize => Total = CacheSize
         /\ cachePos < fileSize => Total = Smaller(CacheSize, fileSize - cachePos) /\ Total > 0
<1>1. cachePos \in Nat /\ fileSize \in Nat /\ sectorSize \in Nat \ {0} /\ CacheSize \in Nat \ {0}
  BY SizesAssumption DEF TypeOK, FileTypeOK
<1>2. cachePos % CacheSize = 0 /\ (CacheSize % sectorSize = 0 \/ BlocksInSectors)
  BY BlocksAssumption DEF Constants, BlocksInSectors
<1>3. cachePos % sectorSize \in 0..sectorSize - 1 /\ cachePos - (cachePos % sectorSize) \in Nat
  BY <1>1, DivisionFacts
<1>4. cachePos = SectorStart(cachePos) + (cachePos % sectorSize)
  BY <1>1, <1>3 DEF SectorStart
<1>5. BlocksInSectors => (cachePos % sectorSize) + CacheSize <= sectorSize
  BY <1>1, <1>2, RoomBehind DEF BlocksInSectors
<1>6. ~BlocksInSectors => CacheSize % sectorSize = 0 /\ cachePos % sectorSize = 0
  BY <1>1, <1>2, MultipleOfMultiple
<1>7. /\ Total \in Nat /\ Total <= CacheSize /\ (Total > 0 => cachePos + Total <= fileSize)
      /\ cachePos + CacheSize <= fileSize => Total = CacheSize
      /\ cachePos < fileSize => Total = Smaller(CacheSize, fileSize - cachePos) /\ Total > 0
  BY <1>1 DEF Total, Smaller
<1> QED BY <1>1, <1>3, <1>4, <1>5, <1>6, <1>7 DEF SectorStart

\* The three parts of the invariant a read is about, for the position the
\* cache is at; a read that begins there keeps or finds them.
Handle == FileTypeOK /\ SectorOK /\ ReadOK

LEMMA ReadBegins ==
  ASSUME TypeOK, Constants, Handle, NEW p \in Nat,
         StartRead(p, CacheSize), cachePos' = p, Constants', pc' \in {"creating", "loading"},
         dwSectorOffs = InvalidPos \/ (p = cachePos + CacheSize /\ p < fileSize)
  PROVE  Handle'
<1>1. FileTypeOK'
  <2>1. sectorSize \in Nat \ {0} /\ fileSize \in Nat /\ CacheSize \in Nat \ {0}
    BY SizesAssumption DEF TypeOK, FileTypeOK
  <2>2. p - (p % sectorSize) \in Nat
    BY <2>1, DivisionFacts
  <2>3. bytesToRead' \in Nat
    <3>1. bytesToRead' = IF p < fileSize THEN Smaller(CacheSize, fileSize - p) ELSE 0
      BY DEF StartRead
    <3> QED BY <2>1, <3>1 DEF Smaller
  <2> QED BY <2>2, <2>3 DEF StartRead, TypeOK, FileTypeOK, fileConst, sectorVars
<1>2. SectorOK'
  <2>1. /\ sectorSize' = sectorSize /\ fileSize' = fileSize /\ dwSectorOffs' = dwSectorOffs
        /\ pbFileSector' = pbFileSector /\ pc' # "idle"
    BY DEF StartRead, fileConst, sectorVars
  <2>2. CASE dwSectorOffs = InvalidPos
    BY <2>1, <2>2 DEF SectorOK
  <2>3. CASE dwSectorOffs # InvalidPos
    <3>1. BlocksInSectors
      <4> SUFFICES ASSUME ~BlocksInSectors PROVE FALSE
        OBVIOUS
      <4>1. cachePos + CacheSize >= fileSize
        BY <2>3 DEF Handle, SectorOK
      <4>2. CacheSize \in Nat /\ fileSize \in Nat /\ cachePos \in Nat
        BY SizesAssumption DEF TypeOK, FileTypeOK
      <4> QED BY <2>3, <4>1, <4>2
    <3>2. \/ dwSectorOffs < SectorStart(cachePos)
          \/ dwSectorOffs = SectorStart(cachePos) /\ pbFileSector = SectorBytes(dwSectorOffs)
      BY <2>3, <3>1 DEF Handle, SectorOK
    <3>3. /\ SectorStart(cachePos) <= SectorStart(cachePos)'
          /\ SectorStart(cachePos) \in Nat /\ SectorStart(cachePos)' \in Nat
      <4>1. sectorSize \in Nat \ {0} /\ cachePos \in Nat /\ cachePos <= p
        BY <2>3, SizesAssumption DEF TypeOK, FileTypeOK
      <4>2. cachePos - (cachePos % sectorSize) <= p - (p % sectorSize)
        BY <4>1, FloorMonotone
      <4>3. cachePos - (cachePos % sectorSize) \in Nat /\ p - (p % sectorSize) \in Nat
        BY <4>1, DivisionFacts
      <4> QED BY <2>1, <4>2, <4>3 DEF SectorStart
    <3>4. dwSectorOffs \in Nat
      BY <2>3 DEF TypeOK, FileTypeOK
    <3>5. SectorBytes(dwSectorOffs)' = SectorBytes(dwSectorOffs)
      BY <2>1 DEF SectorBytes
    <3>6. \/ dwSectorOffs < SectorStart(cachePos)'
          \/ dwSectorOffs = SectorStart(cachePos)' /\ pbFileSector = SectorBytes(dwSectorOffs)
      BY <3>2, <3>3, <3>4
    <3>7. BlocksInSectors'
      BY <2>1, <3>1 DEF BlocksInSectors
    <3> QED BY <2>1, <3>5, <3>6, <3>7 DEF SectorOK
  <2> QED BY <2>2, <2>3
<1>3. ReadOK'
  <2>1. /\ reading' /\ filePos' = p /\ fetched' = <<>> /\ bytesToRead' = Total'
        /\ sectorPos' = SectorStart(cachePos)'
    BY DEF StartRead, Total, SectorStart, fileConst
  <2>2. fetched' = Bytes(p, 0) /\ Len(fetched') = 0
    BY <2>1, BytesFacts
  <2>3. PICK n \in Nat : Total' = n
    <3>1. CacheSize \in Nat \ {0} /\ fileSize \in Nat
      BY SizesAssumption DEF TypeOK, FileTypeOK
    <3>2. Total' = IF p < fileSize THEN Smaller(CacheSize, fileSize - p) ELSE 0
      BY DEF Total, StartRead, fileConst
    <3>3. (IF p < fileSize THEN Smaller(CacheSize, fileSize - p) ELSE 0) \in Nat
      BY <3>1 DEF Smaller
    <3> QED BY <3>2, <3>3
  <2>5. ~BlocksInSectors' => SectorStart(cachePos)' = p /\ p % sectorSize' = 0
    <3>1. ~BlocksInSectors' => CacheSize % sectorSize = 0
      BY BlocksAssumption DEF Constants, BlocksInSectors, StartRead, fileConst
    <3>2. CacheSize \in Nat \ {0} /\ sectorSize \in Nat \ {0} /\ sectorSize' = sectorSize
      BY SizesAssumption DEF TypeOK, FileTypeOK, StartRead, fileConst
    <3>3. ~BlocksInSectors' => p % sectorSize = 0
      BY <3>1, <3>2, MultipleOfMultiple DEF Constants
    <3>4. ~BlocksInSectors' => p - (p % sectorSize') = p
      <4>1. p - 0 = p
        OBVIOUS
      <4> QED BY <3>2, <3>3, <4>1
    <3> QED BY <3>2, <3>3, <3>4 DEF SectorStart
  <2>6. Len(fetched') + bytesToRead' = Total'
    BY <2>1, <2>2, <2>3
  <2>7. fetched' = Bytes(p, Len(fetched'))
    BY <2>2
  <2>8. p + Len(fetched') = p
    BY <2>2
  <2>9. bytesToRead' > 0 =>
          IF BlocksInSectors' THEN fetched' = <<>> /\ sectorPos' = SectorStart(cachePos)'
          ELSE sectorPos' = p + Len(fetched') /\ sectorPos' % sectorSize' = 0
    BY <2>1, <2>5, <2>8
  <2> QED BY <2>1, <2>6, <2>7, <2>9 DEF ReadOK
<1> QED BY <1>1, <1>2, <1>3 DEF Handle

LEMMA SectorBytesFacts ==
  ASSUME fileSize \in Nat, sectorSize \in Nat \ {0}, NEW p \in Nat, p < fileSize,
         NEW from \in Nat, NEW n \in Nat, from + n <= sectorSize, p + from + n <= fileSize
  PROVE  /\ SectorBytes(p) \in Seq(Int) /\ SubSeq(SectorBytes(p), from + 1, from + n) = Bytes(p + from, n)
<1> DEFINE m == Smaller(sectorSize, fileSize - p)
<1>1. m \in Nat /\ from + n <= m
  BY DEF Smaller
<1>2. SectorBytes(p) = Bytes(p, m)
  BY DEF SectorBytes
<1> HIDE DEF m
<1> QED BY <1>1, <1>2, BytesFacts, BytesPart

\* Any step of a read keeps what is known of the handle.
ReadFrame == text' = text /\ cachePos' = cachePos /\ pc' = pc

LEMMA ReadPartBlocks ==
  ASSUME TypeOK, Constants, Handle, ReadFrame, BlocksInSectors, reading, bytesToRead > 0,
         FirstSector \/ MiddleSectors \/ LastSector
  PROVE  Handle'
<1>1. /\ fileSize' = fileSize /\ sectorSize' = sectorSize /\ filePos' = filePos /\ reading'
      /\ cachePos' = cachePos /\ pc' = pc
  BY DEF FirstSector, MiddleSectors, LastSector, Copy, fileConst, ReadFrame
<1>2. /\ pc \in {"creating", "loading"} /\ filePos = cachePos
      /\ fetched = <<>> /\ bytesToRead = Total /\ sectorPos = SectorStart(cachePos)
  <2>1. fetched = <<>> => Len(fetched) = 0
    OBVIOUS
  <2>2. bytesToRead \in Nat
    BY DEF TypeOK, FileTypeOK
  <2> QED BY <2>1, <2>2 DEF Handle, ReadOK
<1> DEFINE from == cachePos % sectorSize
<1>3. /\ cachePos \in Nat /\ fileSize \in Nat /\ sectorSize \in Nat \ {0} /\ CacheSize \in Nat \ {0}
      /\ sectorPos \in Nat /\ from \in 0..sectorSize - 1 /\ cachePos = sectorPos + from
      /\ from + CacheSize <= sectorSize
      /\ Total \in Nat \ {0} /\ Total <= CacheSize /\ cachePos + Total <= fileSize
  <2>1. Total > 0
    BY <1>2
  <2> QED BY <1>2, <2>1, BlockFacts, SizesAssumption
<1> HIDE DEF from
<1>4. sectorPos < fileSize /\ from + Total <= sectorSize /\ sectorPos + from + Total <= fileSize
  BY <1>3
<1>5. SectorBytes(sectorPos) \in Seq(Int)
      /\ SubSeq(SectorBytes(sectorPos), from + 1, from + Total) = Bytes(cachePos, Total)
  <2>1. from \in Nat /\ Total \in Nat /\ sectorPos \in Nat /\ fileSize \in Nat /\ sectorSize \in Nat \ {0}
    BY <1>3
  <2>2. /\ SectorBytes(sectorPos) \in Seq(Int)
        /\ SubSeq(SectorBytes(sectorPos), from + 1, from + Total) = Bytes(sectorPos + from, Total)
    BY <1>4, <2>1, SectorBytesFacts
  <2> QED BY <1>3, <2>2
<1>6. Bytes(cachePos, Total) \in Seq(Int) /\ Len(Bytes(cachePos, Total)) = Total
  <2>1. cachePos \in Int /\ Total \in Nat
    BY <1>3
  <2> QED BY <2>1, BytesFacts
<1>7. ASSUME LoadSector PROVE pbFileSector' = SectorBytes(sectorPos) /\ dwSectorOffs' = sectorPos
  <2>1. CASE dwSectorOffs = sectorPos
    <3>1. dwSectorOffs # InvalidPos
      BY <1>3, <2>1 DEF InvalidPos
    <3>2. ~(dwSectorOffs < SectorStart(cachePos))
      <4>1. sectorPos \in Nat /\ SectorStart(cachePos) = sectorPos
        BY <1>2, <1>3
      <4> QED BY <2>1, <4>1
    <3>3. pbFileSector = SectorBytes(sectorPos)
      BY <2>1, <3>1, <3>2 DEF Handle, SectorOK
    <3> QED BY <1>7, <2>1, <3>3 DEF LoadSector, sectorVars
  <2>2. CASE dwSectorOffs # sectorPos
    BY <1>7, <2>2 DEF LoadSector
  <2> QED BY <2>1, <2>2
\* Whichever part of a read it is, it ends it.
<1> DEFINE Ends == /\ fetched' = Bytes(cachePos, Total) /\ bytesToRead' = 0 /\ sectorPos' \in Nat
                   /\ \/ pbFileSector' = SectorBytes(sectorPos) /\ dwSectorOffs' = sectorPos
                      \/ pbFileSector' = pbFileSector /\ dwSectorOffs' = dwSectorOffs
<1>8. ASSUME FirstSector PROVE Ends
  <2> DEFINE n == Smaller(Smaller(sectorSize, fileSize - sectorPos) - from, bytesToRead)
  <2>1. LoadSector /\ Copy(from, n)
    BY <1>2, <1>8 DEF FirstSector, from
  <2>2. n = Total
    BY <1>2, <1>3, <1>4 DEF Smaller
  <2>3. fetched' = fetched \o SubSeq(SectorBytes(sectorPos), from + 1, from + Total)
    BY <1>7, <2>1, <2>2 DEF Copy
  <2>4. fetched' = Bytes(cachePos, Total)
    BY <1>2, <1>5, <1>6, <2>3, EmptySeq, ConcatEmptySeq
  <2>5. bytesToRead' = 0
    <3>1. bytesToRead' = bytesToRead - Total /\ bytesToRead = Total /\ Total \in Nat
      BY <1>2, <1>3, <2>1, <2>2 DEF Copy
    <3> QED BY <3>1
  <2>6. sectorPos' \in Nat
    BY <1>3, <1>4, <2>1 DEF Copy, Smaller
  <2> HIDE DEF n
  <2> QED BY <1>7, <2>1, <2>4, <2>5, <2>6
<1>9. ASSUME ~InFirst PROVE from = 0 /\ sectorPos = cachePos
  <2>1. from = 0
    BY <1>2, <1>9 DEF InFirst, from
  <2> QED BY <1>3, <2>1
<1>10. ASSUME MiddleSectors PROVE Ends
  <2> DEFINE n == bytesToRead - (bytesToRead % sectorSize)
  <2>1. ~InFirst /\ bytesToRead >= sectorSize
    BY <1>10 DEF MiddleSectors, InMiddle
  <2>2. bytesToRead = sectorSize /\ sectorSize % sectorSize = 0
    <3>1. (1 * sectorSize) % sectorSize = 0 /\ 1 * sectorSize = sectorSize
      BY <1>3, MultipleIs
    <3> QED BY <1>2, <1>3, <1>9, <2>1, <3>1
  <2>3. n = Total
    <3>1. n = bytesToRead - 0
      BY <2>2
    <3> QED BY <1>2, <1>3, <3>1
  <2>4. /\ fetched' = fetched \o Bytes(sectorPos, n) /\ bytesToRead' = bytesToRead - n
        /\ sectorPos' = sectorPos + n /\ pbFileSector' = pbFileSector /\ dwSectorOffs' = dwSectorOffs
    BY <1>10 DEF MiddleSectors, sectorVars
  <2>5. fetched' = Bytes(cachePos, Total)
    BY <1>2, <1>6, <1>9, <2>1, <2>3, <2>4, ConcatEmptySeq
  <2>6. bytesToRead' = 0 /\ sectorPos' \in Nat
    <3> HIDE DEF n
    <3>1. bytesToRead = Total /\ Total \in Nat /\ sectorPos \in Nat
      BY <1>2, <1>3
    <3> QED BY <2>3, <2>4, <3>1
  <2> HIDE DEF n
  <2> QED BY <2>4, <2>5, <2>6
<1>11. ASSUME LastSector PROVE Ends
  <2>1. ~InFirst /\ LoadSector /\ Copy(0, bytesToRead)
    BY <1>11 DEF LastSector, InLast
  <2>2. fetched' = fetched \o SubSeq(SectorBytes(sectorPos), from + 1, from + Total)
    BY <1>2, <1>7, <1>9, <2>1 DEF Copy
  <2>3. fetched' = Bytes(cachePos, Total)
    BY <1>2, <1>5, <1>6, <2>2, ConcatEmptySeq
  <2>4. bytesToRead' = 0 /\ sectorPos' \in Nat
    <3>1. bytesToRead = Total /\ Total \in Nat /\ sectorPos \in Nat /\ fileSize \in Nat /\ sectorSize \in Nat
      BY <1>2, <1>3
    <3> QED BY <1>4, <2>1, <3>1 DEF Copy, Smaller
  <2> QED BY <1>7, <2>1, <2>3, <2>4
<1>12. Ends
  BY <1>8, <1>10, <1>11
<1>13. Total' = Total /\ SectorStart(cachePos)' = SectorStart(cachePos) /\ BlocksInSectors'
       /\ \A p : SectorBytes(p)' = SectorBytes(p)
  BY <1>1 DEF Total, SectorStart, BlocksInSectors, SectorBytes
<1>14. FileTypeOK'
  <2>1. pbFileSector' \in Seq(Int) /\ dwSectorOffs' \in Nat \cup {InvalidPos}
    BY <1>3, <1>5, <1>12 DEF TypeOK, FileTypeOK
  <2>2. fetched' \in Seq(Int) /\ bytesToRead' \in Nat /\ sectorPos' \in Nat
    BY <1>6, <1>12
  <2> QED BY <1>1, <2>1, <2>2 DEF TypeOK, FileTypeOK
<1>15. SectorOK'
  <2>1. pc' # "idle"
    BY <1>1, <1>2
  <2>2. CASE pbFileSector' = SectorBytes(sectorPos) /\ dwSectorOffs' = sectorPos
    BY <1>2, <1>13, <2>1, <2>2 DEF SectorOK
  <2>3. CASE pbFileSector' = pbFileSector /\ dwSectorOffs' = dwSectorOffs
    BY <1>13, <2>1, <2>3 DEF SectorOK, Handle
  <2> QED BY <1>12, <2>2, <2>3
<1>16. ReadOK'
  <2>1. fetched' = Bytes(cachePos', Len(fetched')) /\ Len(fetched') + bytesToRead' = Total' /\ ~(bytesToRead' > 0)
    BY <1>1, <1>3, <1>6, <1>12, <1>13
  <2> QED BY <1>1, <1>2, <2>1 DEF ReadOK
<1> QED BY <1>14, <1>15, <1>16 DEF Handle

LEMMA ReadPartSectors ==
  ASSUME TypeOK, Constants, Handle, ReadFrame, ~BlocksInSectors, reading, bytesToRead > 0,
         FirstSector \/ MiddleSectors \/ LastSector
  PROVE  Handle'
<1>1. /\ fileSize' = fileSize /\ sectorSize' = sectorSize /\ filePos' = filePos /\ reading'
      /\ cachePos' = cachePos /\ pc' = pc
  BY DEF FirstSector, MiddleSectors, LastSector, Copy, fileConst, ReadFrame
<1> DEFINE n == Len(fetched)
           left == bytesToRead % sectorSize
<1>2. /\ pc \in {"creating", "loading"} /\ filePos = cachePos
      /\ fetched = Bytes(cachePos, n) /\ n + bytesToRead = Total
      /\ sectorPos = cachePos + n /\ sectorPos % sectorSize = 0
  BY DEF Handle, ReadOK
<1>3. dwSectorOffs = InvalidPos
  <2>1. bytesToRead # 0
    BY DEF TypeOK, FileTypeOK
  <2> QED BY <2>1 DEF Handle, SectorOK
<1>4. /\ cachePos \in Nat /\ fileSize \in Nat /\ sectorSize \in Nat \ {0} /\ CacheSize \in Nat \ {0}
      /\ sectorPos \in Nat /\ bytesToRead \in Nat \ {0} /\ n \in Nat /\ fetched \in Seq(Int)
      /\ cachePos % sectorSize = 0 /\ CacheSize % sectorSize = 0
      /\ Total \in Nat /\ cachePos + Total <= fileSize /\ Total <= CacheSize
      /\ cachePos + CacheSize <= fileSize => Total = CacheSize
  <2>1. bytesToRead \in Nat \ {0} /\ sectorPos \in Nat /\ n \in Nat /\ fetched \in Seq(Int)
    BY DEF TypeOK, FileTypeOK
  <2>2. Total > 0
    BY <1>2, <2>1
  <2> QED BY <2>1, <2>2, BlockFacts, SizesAssumption
<1>5. left \in 0..sectorSize - 1 /\ bytesToRead - left \in Nat /\ (bytesToRead - left) % sectorSize = 0
  <2>1. /\ bytesToRead \div sectorSize \in Nat /\ left \in 0..sectorSize - 1
        /\ bytesToRead - left = (bytesToRead \div sectorSize) * sectorSize
    BY <1>4, DivisionFacts
  <2>2. (bytesToRead \div sectorSize) * sectorSize \in Nat
        /\ ((bytesToRead \div sectorSize) * sectorSize) % sectorSize = 0
    BY <1>4, <2>1, MultipleIs
  <2> QED BY <2>1, <2>2
<1>6. ~InFirst
  BY <1>2, <1>4 DEF InFirst
<1> HIDE DEF n, left
<1> DEFINE Goes(m) == /\ fetched' = Bytes(cachePos, n + m) /\ bytesToRead' = bytesToRead - m
<1>7. ASSUME MiddleSectors
      PROVE  /\ Goes(bytesToRead - left) /\ sectorPos' = sectorPos + (bytesToRead - left)
             /\ pbFileSector' = pbFileSector /\ dwSectorOffs' = dwSectorOffs
  <2>1. /\ fetched' = fetched \o Bytes(sectorPos, bytesToRead - left)
        /\ bytesToRead' = bytesToRead - (bytesToRead - left)
        /\ sectorPos' = sectorPos + (bytesToRead - left)
        /\ pbFileSector' = pbFileSector /\ dwSectorOffs' = dwSectorOffs
    BY <1>7 DEF MiddleSectors, sectorVars, left
  <2> DEFINE m == bytesToRead - left
  <2>2. m \in Nat
    BY <1>5
  <2> HIDE DEF m
  <2>3. Bytes(cachePos, n) \o Bytes(cachePos + n, m) = Bytes(cachePos, n + m)
    <3>1. cachePos \in Int /\ n \in Nat
      BY <1>4
    <3> QED BY <2>2, <3>1, BytesConcat
  <2>4. fetched \o Bytes(sectorPos, m) = Bytes(cachePos, n + m)
    BY <1>2, <2>3
  <2> QED BY <2>1, <2>4 DEF m
<1>8. ASSUME LastSector
      PROVE  /\ Goes(bytesToRead) /\ sectorPos' \in Nat /\ bytesToRead < sectorSize
             /\ pbFileSector' = SectorBytes(sectorPos) /\ dwSectorOffs' = sectorPos
             /\ SectorBytes(sectorPos) \in Seq(Int)
  <2>1. LoadSector /\ Copy(0, bytesToRead) /\ bytesToRead < sectorSize
    BY <1>8 DEF LastSector, InLast
  <2>2. pbFileSector' = SectorBytes(sectorPos) /\ dwSectorOffs' = sectorPos
    <3>1. dwSectorOffs # sectorPos
      BY <1>3, <1>4 DEF InvalidPos
    <3> QED BY <2>1, <3>1 DEF LoadSector
  <2>3. sectorPos < fileSize /\ sectorPos + bytesToRead <= fileSize
    BY <1>2, <1>4
  <2>4. /\ SectorBytes(sectorPos) \in Seq(Int)
        /\ SubSeq(SectorBytes(sectorPos), 0 + 1, 0 + bytesToRead) = Bytes(sectorPos + 0, bytesToRead)
    <3>1. 0 + bytesToRead <= sectorSize /\ sectorPos + 0 + bytesToRead <= fileSize
      BY <1>4, <2>1, <2>3
    <3>2. 0 \in Nat /\ bytesToRead \in Nat
      BY <1>4
    <3> QED BY <1>4, <2>3, <3>1, <3>2, SectorBytesFacts
  <2>5. fetched' = fetched \o Bytes(sectorPos, bytesToRead)
    <3>1. sectorPos + 0 = sectorPos
      BY <1>4
    <3> QED BY <2>1, <2>2, <2>4, <3>1 DEF Copy
  <2>6. Bytes(cachePos, n) \o Bytes(cachePos + n, bytesToRead) = Bytes(cachePos, n + bytesToRead)
    <3>1. cachePos \in Int /\ n \in Nat /\ bytesToRead \in Nat
      BY <1>4
    <3> QED BY <3>1, BytesConcat
  <2>7. fetched' = Bytes(cachePos, n + bytesToRead)
    BY <1>2, <2>5, <2>6
  <2>8. bytesToRead' = bytesToRead - bytesToRead /\ sectorPos' \in Nat
    BY <1>4, <2>1, <2>3 DEF Copy, Smaller
  <2> QED BY <2>1, <2>2, <2>4, <2>7, <2>8
<1>9. /\ Total' = Total /\ ~BlocksInSectors' /\ \A p : SectorBytes(p)' = SectorBytes(p)
  BY <1>1 DEF Total, BlocksInSectors, SectorBytes
\* A read of the last sector is the last: a block that goes on to the end of a
\* sector of the file's inside has no such part.
<1>10. ASSUME LastSector PROVE cachePos + CacheSize >= fileSize
  <2> SUFFICES ASSUME cachePos + CacheSize < fileSize PROVE FALSE
    BY <1>4
  <2>1. Total = CacheSize
    BY <1>4
  <2>2. (cachePos + CacheSize) % sectorSize = 0
    BY <1>4, MultipleStep
  <2>3. sectorPos < cachePos + CacheSize /\ cachePos + CacheSize - sectorPos < sectorSize
    BY <1>2, <1>4, <1>8, <1>10, <2>1
  <2>4. cachePos + CacheSize \in Nat
    BY <1>4
  <2>5. sectorPos + sectorSize <= cachePos + CacheSize
    BY <1>2, <1>4, <2>2, <2>3, <2>4, MultiplesApart
  <2> QED BY <1>4, <2>3, <2>4, <2>5
<1>11. CASE MiddleSectors
  <2> DEFINE m == bytesToRead - left
  <2>1. m \in Nat /\ m % sectorSize = 0 /\ bytesToRead - m \in Nat /\ n + m \in Nat
    BY <1>4, <1>5
  <2> HIDE DEF m
  <2>2. /\ fetched' = Bytes(cachePos, n + m) /\ bytesToRead' = bytesToRead - m /\ sectorPos' = sectorPos + m
        /\ pbFileSector' = pbFileSector /\ dwSectorOffs' = dwSectorOffs
    BY <1>7, <1>11 DEF m
  <2>3. fetched' \in Seq(Int) /\ Len(fetched') = n + m
    BY <1>4, <2>1, <2>2, BytesFacts
  <2>4. (sectorPos + m) % sectorSize = 0
    BY <1>2, <1>4, <2>1, MultipleStep
  <2>5. FileTypeOK'
    BY <1>1, <1>4, <2>1, <2>2, <2>3 DEF TypeOK, FileTypeOK
  <2>6. SectorOK'
    BY <1>1, <1>2, <1>3, <2>2 DEF SectorOK
  <2>7. (n + m) + (bytesToRead - m) = Total /\ sectorPos + m = cachePos + (n + m)
    BY <1>2, <1>4, <2>1
  <2>8. ReadOK'
    <3>1. Len(fetched') + bytesToRead' = Total' /\ fetched' = Bytes(cachePos', Len(fetched'))
      BY <1>1, <1>9, <2>2, <2>3, <2>7
    <3>2. sectorPos' = cachePos' + Len(fetched') /\ sectorPos' % sectorSize' = 0
      BY <1>1, <2>2, <2>3, <2>4, <2>7
    <3> QED BY <1>1, <1>2, <1>9, <3>1, <3>2 DEF ReadOK
  <2> QED BY <2>5, <2>6, <2>8 DEF Handle
<1>12. CASE LastSector
  <2>1. /\ fetched' = Bytes(cachePos, n + bytesToRead) /\ bytesToRead' = 0 /\ sectorPos' \in Nat
        /\ pbFileSector' = SectorBytes(sectorPos) /\ dwSectorOffs' = sectorPos
        /\ SectorBytes(sectorPos) \in Seq(Int)
    <3>1. bytesToRead - bytesToRead = 0
      BY <1>4
    <3> QED BY <1>8, <1>12, <3>1
  <2>2. fetched' \in Seq(Int) /\ Len(fetched') = Total
    <3>1. cachePos \in Int /\ Total \in Nat /\ fetched' = Bytes(cachePos, Total)
      BY <1>2, <1>4, <2>1
    <3> QED BY <3>1, BytesFacts
  <2>3. FileTypeOK'
    BY <1>1, <1>4, <2>1, <2>2 DEF TypeOK, FileTypeOK
  <2>4. SectorOK'
    BY <1>1, <1>2, <1>9, <1>10, <1>12, <2>1 DEF SectorOK
  <2>5. Total + 0 = Total
    BY <1>4
  <2>6. ReadOK'
    BY <1>1, <1>2, <1>9, <2>1, <2>2, <2>5 DEF ReadOK
  <2> QED BY <2>3, <2>4, <2>6 DEF Handle
<1>13. CASE FirstSector
  BY <1>6, <1>13 DEF FirstSector
<1> QED BY <1>11, <1>12, <1>13

\* A read that fails leaves no bytes, and can leave only a sector behind that
\* no later read takes.
LEMMA ReadFailsOK ==
  ASSUME TypeOK, Constants, Handle, ReadFrame, ReadFails
  PROVE  Handle'
<1>1. /\ fileSize' = fileSize /\ sectorSize' = sectorSize /\ filePos' = filePos
      /\ cachePos' = cachePos /\ pc' = pc /\ dwSectorOffs' = dwSectorOffs /\ sectorPos' = sectorPos
      /\ fetched' = <<>> /\ bytesToRead' = 0 /\ reading' = FALSE
      /\ reading
      /\ \/ pbFileSector' = pbFileSector
         \/ pbFileSector' = JunkSector /\ dwSectorOffs # sectorPos
  BY DEF ReadFails, fileConst, ReadFrame, InFirst, InMiddle, InLast
<1>2. bytesToRead > 0
  <2>1. CASE InFirst \/ InLast
    BY <2>1 DEF InFirst, InLast
  <2>2. CASE InMiddle
    BY <2>2 DEF InMiddle, TypeOK, FileTypeOK
  <2> QED BY <2>1, <2>2 DEF ReadFails
<1>3. pc \in {"creating", "loading"}
  BY <1>1 DEF Handle, ReadOK
<1>4. JunkSector \in Seq(Int)
  <2>1. sectorSize \in Nat
    BY DEF TypeOK, FileTypeOK
  <2>2. \A i \in 1..sectorSize : Junk \in Int
    BY DEF Junk
  <2> QED BY <2>1, <2>2 DEF JunkSector
<1>5. FileTypeOK'
  <2>1. pbFileSector' \in Seq(Int)
    BY <1>1, <1>4 DEF TypeOK, FileTypeOK
  <2>2. fetched' \in Seq(Int)
    BY <1>1
  <2> QED BY <1>1, <2>1, <2>2 DEF TypeOK, FileTypeOK
<1>6. SectorOK'
  <2>1. /\ (BlocksInSectors' <=> BlocksInSectors) /\ SectorStart(cachePos)' = SectorStart(cachePos)
        /\ \A p : SectorBytes(p)' = SectorBytes(p)
    BY <1>1 DEF SectorStart, BlocksInSectors, SectorBytes
  <2>2. CASE dwSectorOffs = InvalidPos
    BY <1>1, <1>3, <2>2 DEF SectorOK
  <2>3. CASE dwSectorOffs # InvalidPos
    <3>1. BlocksInSectors
      <4>1. bytesToRead # 0
        BY <1>2
      <4> QED BY <2>3, <4>1 DEF Handle, SectorOK
    <3>2. sectorPos = SectorStart(cachePos)
      BY <1>1, <1>2, <3>1 DEF Handle, ReadOK
    <3>3. \/ dwSectorOffs < SectorStart(cachePos)
          \/ dwSectorOffs = SectorStart(cachePos) /\ pbFileSector = SectorBytes(dwSectorOffs)
      BY <2>3, <3>1 DEF Handle, SectorOK
    <3>4. \/ dwSectorOffs < SectorStart(cachePos)
          \/ dwSectorOffs = SectorStart(cachePos) /\ pbFileSector' = SectorBytes(dwSectorOffs)
      BY <1>1, <3>2, <3>3
    <3> QED BY <1>1, <1>3, <2>1, <3>1, <3>4 DEF SectorOK
  <2> QED BY <2>2, <2>3
<1>7. ReadOK'
  BY <1>1 DEF ReadOK
<1> QED BY <1>5, <1>6, <1>7 DEF Handle

LEMMA ReadDoneOK ==
  ASSUME TypeOK, Constants, Handle, ReadFrame, ReadDone
  PROVE  Handle'
<1>1. /\ fileSize' = fileSize /\ sectorSize' = sectorSize /\ filePos' = filePos + Len(fetched)
      /\ cachePos' = cachePos /\ pc' = pc /\ dwSectorOffs' = dwSectorOffs /\ sectorPos' = sectorPos
      /\ fetched' = fetched /\ bytesToRead = 0 /\ bytesToRead' = 0 /\ reading' = FALSE
      /\ reading /\ pbFileSector' = pbFileSector
  BY DEF ReadDone, fileConst, sectorVars, ReadFrame
<1>2. FileTypeOK'
  <2>1. filePos \in Nat /\ Len(fetched) \in Nat
    BY DEF TypeOK, FileTypeOK
  <2>2. filePos + Len(fetched) \in Nat
    BY <2>1
  <2> QED BY <1>1, <2>2 DEF TypeOK, FileTypeOK
<1>3. SectorOK'
  <2>1. /\ (BlocksInSectors' <=> BlocksInSectors) /\ SectorStart(cachePos)' = SectorStart(cachePos)
        /\ \A p : SectorBytes(p)' = SectorBytes(p)
    BY <1>1 DEF SectorStart, BlocksInSectors, SectorBytes
  <2> QED BY <1>1, <2>1 DEF Handle, SectorOK
<1>4. fetched = Bytes(cachePos, Len(fetched)) /\ Len(fetched) = Total
  <2>1. Len(fetched) + 0 = Total /\ Len(fetched) \in Nat
    BY <1>1 DEF Handle, ReadOK, TypeOK, FileTypeOK
  <2> QED BY <1>1, <2>1 DEF Handle, ReadOK
<1>5. fetched # <<>> => cachePos < fileSize /\ fetched = Block(cachePos)
  <2> SUFFICES ASSUME fetched # <<>> PROVE cachePos < fileSize /\ fetched = Block(cachePos)
    OBVIOUS
  <2>1. Total # 0
    <3>1. cachePos \in Int
      BY DEF TypeOK
    <3>2. Bytes(cachePos, 0) = <<>>
      BY <3>1, BytesFacts
    <3> QED BY <1>4, <3>2
  <2>2. cachePos < fileSize
    BY <2>1 DEF Total
  <2> QED BY <1>4, <2>2 DEF Total, Block
<1>6. Block(cachePos)' = Block(cachePos)
  BY <1>1 DEF Block
<1>7. ReadOK'
  BY <1>1, <1>5, <1>6 DEF ReadOK
<1> QED BY <1>2, <1>3, <1>7 DEF Handle

LEMMA ReadStepOK ==
  ASSUME TypeOK, Constants, Handle, ReadFrame, ReadStep
  PROVE  Handle'
<1>1. CASE ReadFails \/ ReadDone
  BY <1>1, ReadFailsOK, ReadDoneOK
<1>2. CASE FirstSector \/ MiddleSectors \/ LastSector
  <2>1. reading /\ bytesToRead > 0
    BY <1>2 DEF FirstSector, MiddleSectors, LastSector, InFirst, InMiddle, InLast, TypeOK, FileTypeOK
  <2> QED BY <1>2, <2>1, ReadPartBlocks, ReadPartSectors
<1> QED BY <1>1, <1>2 DEF ReadStep

-----------------------------------------------------------------------------
\* WHAT EVERY STEP KEEPS

LEMMA CacheSizeFacts == CacheSize \in Nat \ {0} /\ CacheSize % CacheSize = 0
<1>1. CacheSize \in Nat \ {0} /\ 1 * CacheSize = CacheSize
  BY SizesAssumption
<1>2. (1 * CacheSize) % CacheSize = 0
  BY <1>1, MultipleIs
<1> QED BY <1>1, <1>2

LEMMA ConstantsKept ==
  ASSUME TypeOK, Constants, text' = text, fileSize' = fileSize, sectorSize' = sectorSize,
         cachePos' = cachePos \/ cachePos' = cachePos + CacheSize
  PROVE  Constants'
<1>1. cachePos \in Nat /\ cachePos % CacheSize = 0
  BY DEF TypeOK, Constants
<1>2. (cachePos + CacheSize) % CacheSize = 0
  BY <1>1, CacheSizeFacts, MultipleStep
<1> QED BY <1>1, <1>2 DEF Constants

LEMMA HandleKept ==
  ASSUME TypeOK, Handle, fileVars' = fileVars, NEW p \in Nat, cachePos' = p, cachePos <= p,
         ~reading, pc' \notin {"idle", "creating", "loading"}
  PROVE  Handle'
<1>1. /\ fileSize' = fileSize /\ sectorSize' = sectorSize /\ filePos' = filePos
      /\ pbFileSector' = pbFileSector /\ dwSectorOffs' = dwSectorOffs /\ reading' = reading
      /\ bytesToRead' = bytesToRead /\ sectorPos' = sectorPos /\ fetched' = fetched
  BY DEF fileVars, fileConst, sectorVars, readVars
<1>2. FileTypeOK'
  BY <1>1 DEF Handle, FileTypeOK
<1>3. ReadOK'
  BY <1>1 DEF Handle, ReadOK
<1>4. SectorOK'
  <2>1. (BlocksInSectors' <=> BlocksInSectors) /\ SectorBytes(dwSectorOffs)' = SectorBytes(dwSectorOffs)
        /\ SectorStart(cachePos)' = SectorStart(p)
    BY <1>1 DEF SectorStart, BlocksInSectors, SectorBytes
  <2>2. CASE dwSectorOffs = InvalidPos
    BY <1>1, <2>2 DEF SectorOK
  <2>3. CASE dwSectorOffs # InvalidPos /\ BlocksInSectors
    <3>1. \/ dwSectorOffs < SectorStart(cachePos)
          \/ dwSectorOffs = SectorStart(cachePos) /\ pbFileSector = SectorBytes(dwSectorOffs)
      BY <2>3 DEF Handle, SectorOK
    <3>2. cachePos \in Nat /\ sectorSize \in Nat \ {0} /\ dwSectorOffs \in Nat
      BY <2>3 DEF TypeOK, FileTypeOK
    <3>3. SectorStart(cachePos) \in Nat /\ SectorStart(p) \in Nat
      BY <3>2, DivisionFacts DEF SectorStart
    <3>4. SectorStart(cachePos) <= SectorStart(p)
      BY <3>2, FloorMonotone DEF SectorStart
    <3>5. \/ dwSectorOffs < SectorStart(p)
          \/ dwSectorOffs = SectorStart(p) /\ pbFileSector = SectorBytes(dwSectorOffs)
      BY <3>1, <3>2, <3>3, <3>4
    <3> QED BY <1>1, <2>1, <2>3, <3>5 DEF SectorOK
  <2>4. CASE dwSectorOffs # InvalidPos /\ ~BlocksInSectors
    <3>1. bytesToRead = 0 /\ cachePos + CacheSize >= fileSize
      BY <2>4 DEF Handle, SectorOK
    <3>2. cachePos \in Nat /\ fileSize \in Nat /\ CacheSize \in Nat
      BY CacheSizeFacts DEF TypeOK, FileTypeOK
    <3>3. p + CacheSize >= fileSize
      BY <3>1, <3>2
    <3> QED BY <1>1, <2>1, <2>4, <3>1, <3>3 DEF SectorOK
  <2> QED BY <2>2, <2>3, <2>4
<1> QED BY <1>2, <1>3, <1>4 DEF Handle

\* The conjuncts about the line and the list, when a step leaves these alone.
LEMMA TildeKept ==
  ASSUME TildeOK, text' = text, szLine' = szLine, szExtraString' = szExtraString
  PROVE  TildeOK'
BY DEF TildeOK, Char

LEMMA NamesKept ==
  ASSUME NamesInOnePiece, text' = text, fileSize' = fileSize, list' = list
  PROVE  NamesInOnePiece'
BY DEF NamesInOnePiece, Char

LEMMA EmptyLine ==
  ASSUME szLine' = <<>>, szExtraString' = NoExtra
  PROVE  LineOK' /\ TildeOK'
BY DEF LineOK, TildeOK

\* The handle of a search in hand is not in the middle of a read.
LEMMA Idle ==
  ASSUME IInv, pc \in {"line", "ended"}
  PROVE  ~reading
BY DEF IInv, ReadOK

LEMMA IInvFacts ==
  ASSUME IInv
  PROVE  TypeOK /\ Constants /\ FilesOK /\ Handle /\ CacheOK /\ LineOK /\ TildeOK
         /\ NamesInOnePiece /\ PlaceOK /\ ListedOK
BY DEF IInv, Handle, TypeOK

\* The cache's block, its characters and its end.
LEMMA ShownFacts ==
  ASSUME IInv, Shown
  PROVE  /\ Len(Buffer) = Smaller(CacheSize, fileSize - cachePos)
         /\ \A i \in 1..Len(Buffer) : Buffer[i] = cachePos + i - 1
         /\ Len(Buffer) <= CacheSize /\ cachePos + Len(Buffer) <= fileSize
         /\ cachePos + CacheSize < fileSize => Len(Buffer) = CacheSize
         /\ cachePos + CacheSize >= fileSize => cachePos + Len(Buffer) = fileSize
         /\ cachePos \in Nat /\ fileSize \in Nat /\ Len(Buffer) \in Nat
<1> DEFINE m == Smaller(CacheSize, fileSize - cachePos)
<1>1. cachePos \in Nat /\ fileSize \in Nat /\ cachePos < fileSize /\ CacheSize \in Nat \ {0}
  BY CacheSizeFacts DEF IInv, TypeOK, FileTypeOK, Shown
<1>2. /\ m \in Nat /\ m <= CacheSize /\ cachePos + m <= fileSize
      /\ cachePos + CacheSize < fileSize => m = CacheSize
      /\ cachePos + CacheSize >= fileSize => cachePos + m = fileSize
  BY <1>1 DEF Smaller
<1>3. Buffer = Bytes(cachePos, m)
  BY DEF Shown, Block
<1> HIDE DEF m
<1>4. Len(Buffer) = m /\ \A i \in 1..m : Buffer[i] = cachePos + i - 1
  <2>1. cachePos \in Int /\ m \in Nat
    BY <1>1, <1>2
  <2> QED BY <1>3, <2>1, BytesFacts
<1> QED BY <1>1, <1>2, <1>4 DEF m

\* The next character is the one of the file at the cache's position.
LEMMA NextChar ==
  ASSUME IInv, HasChar
  PROVE  /\ Shown /\ Next1 = cachePos + pPos /\ cachePos + pPos < fileSize
         /\ cachePos \in Nat /\ pPos \in Nat /\ fileSize \in Nat /\ cachePos < fileSize
         /\ Here = cachePos + pPos
<1>1. pc = "line" /\ pPos \in Nat /\ pPos < Len(Buffer)
  BY DEF HasChar, IInv, TypeOK
<1>2. Shown
  <2>1. Len(Buffer) \in Nat
    BY DEF IInv, TypeOK
  <2>2. pPos # Len(Buffer)
    BY <1>1, <2>1
  <2> QED BY <1>1, <2>2 DEF IInv, CacheOK
<1>3. /\ cachePos + Len(Buffer) <= fileSize /\ \A i \in 1..Len(Buffer) : Buffer[i] = cachePos + i - 1
      /\ cachePos \in Nat /\ fileSize \in Nat /\ Len(Buffer) \in Nat
  BY <1>2, ShownFacts
<1>4. pPos + 1 \in 1..Len(Buffer) /\ cachePos + (pPos + 1) - 1 = cachePos + pPos
      /\ cachePos + pPos < fileSize /\ cachePos < fileSize
  BY <1>1, <1>3
<1>5. Next1 = cachePos + pPos
  BY <1>3, <1>4 DEF Next1
<1>6. ~(cachePos >= fileSize) /\ pc # "loading"
  BY <1>1, <1>3, <1>4
<1> QED BY <1>1, <1>2, <1>3, <1>4, <1>5, <1>6 DEF Here

\* The line so far by its place in the file.
LEMMA LineFacts ==
  ASSUME IInv, szLine # <<>>
  PROVE  /\ szLine[1] \in 0..fileSize - 1 /\ Len(szLine) \in Nat \ {0} /\ fileSize \in Nat
         /\ szLine[1] + Len(szLine) <= fileSize /\ szLine = Bytes(szLine[1], Len(szLine))
         /\ \A i \in 1..Len(szLine) : szLine[i] = szLine[1] + i - 1
         /\ \A q \in szLine[1]..szLine[1] + Len(szLine) - 1 : Char(q) # "\n"
<1>1. fileSize \in Nat /\ Len(szLine) \in Nat \ {0}
  <2>1. szLine \in Seq(Int) /\ fileSize \in Nat
    BY DEF IInv, TypeOK, FileTypeOK
  <2>2. Len(szLine) # 0
    BY <2>1, EmptySeq
  <2> QED BY <2>1, <2>2
<1>2. /\ szLine[1] \in Nat /\ szLine = Bytes(szLine[1], Len(szLine))
      /\ szLine[1] + Len(szLine) <= fileSize
      /\ \A q \in szLine[1]..szLine[1] + Len(szLine) - 1 : Char(q) # "\n"
  BY DEF IInv, LineOK, LineEnd
<1>3. \A i \in 1..Len(szLine) : szLine[i] = szLine[1] + i - 1
  <2> DEFINE p == szLine[1]
             n == Len(szLine)
  <2>1. p \in Int /\ n \in Nat /\ szLine = Bytes(p, n)
    BY <1>1, <1>2
  <2> HIDE DEF p, n
  <2>2. \A i \in 1..n : szLine[i] = p + i - 1
    BY <2>1, BytesFacts
  <2> QED BY <2>2 DEF p, n
<1> QED BY <1>1, <1>2, <1>3

\* A line put together to its end gives the name of its place in the file.
LEMMA NameIs ==
  ASSUME IInv, szLine # <<>>, Len(szLine) = LineLength(szLine[1])
  PROVE  Name = NameAt(szLine[1])
<1> DEFINE p == szLine[1]
           n == Len(szLine)
           e == szExtraString
<1>1. /\ p \in Nat /\ n \in Nat \ {0} /\ szLine = Bytes(p, n) /\ n = LineLength(p)
      /\ \A i \in 1..n : szLine[i] = p + i - 1
  BY LineFacts
<1>2. e \in 0..n - 1 \cup {NoExtra}
  BY DEF IInv, TypeOK
<1>3. /\ e = NoExtra => \A i \in 1..n : Char(szLine[i]) # "~"
      /\ e # NoExtra => /\ Char(szLine[e + 1]) = "~"
                        /\ \A i \in e + 2..n : Char(szLine[i]) # "~"
  BY DEF IInv, TildeOK
<1>4. Name = IF e # NoExtra /\ e + 2 <= n /\ Char(szLine[e + 2]) = "P" THEN SubSeq(szLine, 1, e) ELSE szLine
  BY DEF Name, IsPatchInfo
<1>5. Tildes(p) = {k \in 0..n - 1 : Char(p + k) = "~"}
  BY <1>1 DEF Tildes
<1>6. NameAt(p) = Bytes(p, IF HasPatchInfo(p) THEN Max(Tildes(p)) ELSE n)
  BY <1>1 DEF NameAt, NameLength
<1>7. HasPatchInfo(p) <=> Tildes(p) # {} /\ Max(Tildes(p)) + 1 < n /\ Char(p + Max(Tildes(p)) + 1) = "P"
  BY <1>1 DEF HasPatchInfo
<1> HIDE DEF p, n, e
<1>8. CASE e = NoExtra
  <2>1. \A k \in 0..n - 1 : Char(p + k) # "~"
    <3> TAKE k \in 0..n - 1
    <3>1. k + 1 \in 1..n /\ p + (k + 1) - 1 = p + k
      BY <1>1
    <3>2. szLine[k + 1] = p + k
      BY <1>1, <3>1
    <3> QED BY <1>3, <1>8, <3>1, <3>2
  <2>2. Tildes(p) = {}
    BY <1>5, <2>1
  <2> QED BY <1>1, <1>4, <1>6, <1>7, <1>8, <2>2 DEF p
<1>9. CASE e # NoExtra
  <2>1. e \in 0..n - 1 /\ e \in Nat
    BY <1>1, <1>2, <1>9
  <2>2. Char(p + e) = "~"
    <3>1. e + 1 \in 1..n /\ p + (e + 1) - 1 = p + e
      BY <1>1, <2>1
    <3>2. szLine[e + 1] = p + e
      BY <1>1, <3>1
    <3> QED BY <1>3, <1>9, <3>2
  <2>3. \A k \in Tildes(p) : k <= e
    <3> TAKE k \in Tildes(p)
    <3>1. k \in 0..n - 1 /\ Char(p + k) = "~"
      BY <1>5
    <3> SUFFICES ASSUME e < k PROVE FALSE
      BY <2>1, <3>1
    <3>2. k + 1 \in e + 2..n /\ k + 1 \in 1..n /\ p + (k + 1) - 1 = p + k
      BY <1>1, <2>1, <3>1
    <3>3. szLine[k + 1] = p + k
      BY <1>1, <3>2
    <3> QED BY <1>3, <1>9, <3>1, <3>2, <3>3
  <2>4. e \in Tildes(p) /\ Tildes(p) \in SUBSET Nat
    BY <1>1, <1>5, <2>1, <2>2
  <2>5. Max(Tildes(p)) = e
    BY <2>3, <2>4, MaxIs
  <2>6. e + 2 <= n => szLine[e + 2] = p + e + 1
    <3> SUFFICES ASSUME e + 2 <= n PROVE szLine[e + 2] = p + e + 1
      OBVIOUS
    <3>1. e + 2 \in 1..n /\ p + (e + 2) - 1 = p + e + 1
      BY <1>1, <2>1
    <3> QED BY <1>1, <3>1
  <2>7. e + 2 <= n <=> e + 1 < n
    BY <1>1, <2>1
  <2>8. HasPatchInfo(p) <=> e + 2 <= n /\ Char(szLine[e + 2]) = "P"
    BY <1>7, <2>4, <2>5, <2>6, <2>7
  <2>9. SubSeq(szLine, 1, e) = Bytes(p, e)
    <3>1. SubSeq(Bytes(p, n), 0 + 1, 0 + e) = Bytes(p + 0, e)
      <4>1. p \in Int /\ n \in Nat /\ e \in Nat /\ 0 \in Nat /\ 0 + e <= n
        BY <1>1, <2>1
      <4> QED BY <4>1, BytesPart
    <3>2. 0 + 1 = 1 /\ 0 + e = e /\ p + 0 = p
      BY <1>1, <2>1
    <3> QED BY <1>1, <3>1, <3>2
  <2> QED BY <1>1, <1>4, <1>6, <1>9, <2>5, <2>8, <2>9 DEF p
<1> QED BY <1>8, <1>9

-----------------------------------------------------------------------------
\* THE STEPS

LEMMA FindFirstFileKeeps == ASSUME IInv, FindFirstFile PROVE IInv'
<1>1. /\ pc = "idle" /\ pc' = "creating" /\ files' = files + 1 /\ StartRead(0, CacheSize)
      /\ text' = text /\ loop' = loop /\ szLine' = szLine /\ szExtraString' = szExtraString
      /\ Buffer' = Buffer /\ pPos' = pPos /\ cachePos' = cachePos /\ list' = list /\ unread' = unread
  BY DEF FindFirstFile, lineVars, cacheVars
<1>2. fileSize' = fileSize /\ sectorSize' = sectorSize
  BY <1>1 DEF StartRead, fileConst
<1>3. TypeOK /\ Constants /\ FilesOK /\ Handle /\ CacheOK /\ LineOK /\ TildeOK /\ NamesInOnePiece /\ ListedOK
  BY IInvFacts
<1>4. cachePos = 0 /\ Buffer = <<>> /\ pPos = 0 /\ szLine = <<>> /\ dwSectorOffs = InvalidPos /\ files = 0
  BY <1>1, <1>3 DEF CacheOK, LineOK, Handle, SectorOK, FilesOK
<1>5. Constants'
  BY <1>1, <1>2, <1>3, ConstantsKept
<1>6. Handle'
  <2>1. 0 \in Nat /\ cachePos' = 0
    BY <1>1, <1>4
  <2> QED BY <1>1, <1>3, <1>4, <1>5, <2>1, ReadBegins
<1>7. TypeOK' /\ FilesOK'
  BY <1>1, <1>3, <1>4, <1>6 DEF Handle, TypeOK, FilesOK
<1>8. CacheOK' /\ LineOK' /\ TildeOK' /\ NamesInOnePiece' /\ PlaceOK'
  BY <1>1, <1>2, <1>3, <1>4, TildeKept, NamesKept DEF CacheOK, LineOK, PlaceOK, Searching
<1>9. ListedOK'
  BY <1>1, <1>2, <1>3, TextSame DEF ListedOK, Searching
<1> QED BY <1>5, <1>6, <1>7, <1>8, <1>9 DEF IInv, Handle

LEMMA CacheCreatedKeeps == ASSUME IInv, CacheCreated PROVE IInv'
<1>1. /\ pc = "creating" /\ pc' = "line" /\ ~reading /\ fetched # <<>> /\ fileVars' = fileVars
      /\ text' = text /\ loop' = "skip" /\ szLine' = <<>> /\ szExtraString' = NoExtra
      /\ Buffer' = fetched /\ pPos' = 0 /\ cachePos' = 0 /\ list' = list /\ unread' = unread /\ files' = files
  BY DEF CacheCreated, NewLine
<1>2. fileSize' = fileSize /\ sectorSize' = sectorSize
  BY <1>1 DEF fileVars, fileConst
<1>3. TypeOK /\ Constants /\ FilesOK /\ Handle /\ CacheOK /\ NamesInOnePiece /\ ListedOK
  BY IInvFacts
<1>4. cachePos = 0 /\ 0 < fileSize /\ fetched = Block(0)
  BY <1>1, <1>3 DEF CacheOK, Handle, ReadOK
<1>5. Constants'
  BY <1>1, <1>2, <1>3, <1>4, ConstantsKept
<1>6. Handle'
  <2>1. 0 \in Nat /\ cachePos <= 0
    BY <1>4
  <2> QED BY <1>1, <1>3, <2>1, HandleKept
<1>7. TypeOK' /\ FilesOK'
  <2>1. Len(fetched) \in Nat /\ fetched \in Seq(Int) /\ 0 \in 0..Len(fetched)
    BY <1>3 DEF TypeOK, FileTypeOK
  <2>2. Len(<<>>) < MaxChars
    BY SizesAssumption
  <2> QED BY <1>1, <1>3, <1>6, <2>1, <2>2 DEF Handle, TypeOK, FilesOK
<1>8. Shown'
  BY <1>1, <1>2, <1>4 DEF Shown, Block
<1>9. CacheOK' /\ LineOK' /\ TildeOK' /\ NamesInOnePiece'
  BY <1>1, <1>2, <1>3, <1>8, EmptyLine, NamesKept DEF CacheOK
<1>10. Here' = 0 /\ Passed' = 0
  <2>1. ~(0 >= fileSize) /\ 0 + 0 = 0
    BY <1>3, <1>4 DEF TypeOK, FileTypeOK
  <2> QED BY <1>1, <1>2, <2>1 DEF Here, Passed
<1>11. PlaceOK'
  <2>1. AtBreak(0)
    BY DEF AtBreak
  <2>2. AtBreak(Here)'
    BY <1>1, <1>2, <1>10, <2>1, TextSame
  <2> QED BY <1>1, <1>8, <2>2 DEF PlaceOK
<1>12. ListedOK'
  <2>1. NamesBefore(0) = {}
    BY DEF NamesBefore, LineBegins
  <2>2. NamesBefore(Passed)' = {}
    BY <1>1, <1>2, <1>10, <2>1, TextSame
  <2>3. unread' = {} /\ WellFormed' => list = {}
    BY <1>1, <1>2, <1>3, TextSame DEF ListedOK
  <2> QED BY <1>1, <2>2, <2>3 DEF ListedOK
<1> QED BY <1>5, <1>6, <1>7, <1>9, <1>11, <1>12 DEF IInv, Handle

LEMMA CacheFailsKeeps == ASSUME IInv, CacheFails PROVE IInv'
<1>1. /\ pc = "creating" /\ pc' = "closed" /\ ~reading /\ fileVars' = fileVars
      /\ text' = text /\ loop' = loop /\ szLine' = szLine /\ szExtraString' = szExtraString
      /\ Buffer' = Buffer /\ pPos' = pPos /\ cachePos' = cachePos /\ list' = list
      /\ unread' = unread \cup {0} /\ files' = files - 1
  BY DEF CacheFails, lineVars, cacheVars
<1>2. fileSize' = fileSize /\ sectorSize' = sectorSize
  BY <1>1 DEF fileVars, fileConst
<1>3. TypeOK /\ Constants /\ FilesOK /\ Handle /\ CacheOK /\ LineOK /\ TildeOK /\ NamesInOnePiece
  BY IInvFacts
<1>4. cachePos = 0 /\ pPos = 0 /\ Buffer = <<>> /\ szLine = <<>> /\ files = 1
  BY <1>1, <1>3 DEF CacheOK, LineOK, FilesOK
<1>5. Constants'
  BY <1>1, <1>2, <1>3, ConstantsKept
<1>6. Handle'
  <2>1. 0 \in Nat /\ cachePos <= 0 /\ cachePos' = 0
    BY <1>1, <1>4
  <2> QED BY <1>1, <1>3, <2>1, HandleKept
<1>7. TypeOK' /\ FilesOK'
  <2>1. unread \cup {0} \subseteq Nat
    BY <1>3 DEF TypeOK
  <2> QED BY <1>1, <1>3, <1>4, <1>6, <2>1 DEF Handle, TypeOK, FilesOK
<1>8. CacheOK' /\ LineOK' /\ TildeOK' /\ NamesInOnePiece'
  BY <1>1, <1>2, <1>3, <1>4, TildeKept, NamesKept DEF CacheOK, LineOK
<1>9. PlaceOK' /\ ListedOK'
  BY <1>1 DEF PlaceOK, ListedOK, Searching
<1> QED BY <1>5, <1>6, <1>7, <1>8, <1>9 DEF IInv, Handle

\* The end of a line that the file ends.
LEMMA LineEndsFile ==
  ASSUME IInv, szLine # <<>>, LineEnd = fileSize
  PROVE  Len(szLine) = LineLength(szLine[1])
<1> DEFINE p == szLine[1]
           n == Len(szLine)
<1>1. /\ fileSize \in Nat /\ p \in Nat /\ n \in Nat \ {0} /\ p + n <= fileSize
      /\ \A q \in p..p + n - 1 : Char(q) # "\n"
  BY LineFacts
<1>2. p + n = fileSize
  BY DEF LineEnd
<1> HIDE DEF p, n
<1>3. LineLength(p) = n
  BY <1>1, <1>2, LineLengthIs
<1> QED BY <1>3 DEF p, n

LEMMA ReloadAtEndKeeps == ASSUME IInv, ReloadAtEnd PROVE IInv'
<1>1. /\ pc = "line" /\ pPos = Len(Buffer) /\ fileVars' = fileVars
      /\ text' = text /\ szLine' = szLine /\ szExtraString' = szExtraString
      /\ Buffer' = Buffer /\ pPos' = pPos /\ cachePos' = cachePos + CacheSize /\ list' = list
      /\ unread' = unread /\ files' = files
      /\ cachePos + CacheSize >= fileSize
      /\ \/ loop = "skip" /\ loop' = "copy" /\ pc' = "line"
         \/ loop # "skip" /\ loop' = loop /\ pc' = "ended"
  BY DEF ReloadAtEnd, NeedsBlock, CacheUsed, NothingLoaded
<1>2. fileSize' = fileSize /\ sectorSize' = sectorSize
  BY <1>1 DEF fileVars, fileConst
<1>3. TypeOK /\ Constants /\ FilesOK /\ Handle /\ CacheOK /\ LineOK /\ TildeOK /\ NamesInOnePiece
      /\ PlaceOK /\ ListedOK /\ ~reading
  BY <1>1, IInvFacts, Idle
<1>4. cachePos \in Nat /\ fileSize \in Nat /\ CacheSize \in Nat \ {0} /\ cachePos + CacheSize \in Nat
  BY <1>3, CacheSizeFacts DEF TypeOK, FileTypeOK
<1>5. Constants'
  BY <1>1, <1>2, <1>3, ConstantsKept
<1>6. Handle'
  <2>1. cachePos <= cachePos + CacheSize
    BY <1>4
  <2> QED BY <1>1, <1>3, <1>4, <2>1, HandleKept
<1>7. TypeOK' /\ FilesOK'
  BY <1>1, <1>3, <1>4, <1>6 DEF Handle, TypeOK, FilesOK
<1>8. CacheOK' /\ TildeOK' /\ NamesInOnePiece'
  BY <1>1, <1>2, <1>3, TildeKept, NamesKept DEF CacheOK
<1>9. LineOK'
  BY <1>1, <1>2, <1>3 DEF LineOK, LineEnd, Char
<1>10. Here' = fileSize
  BY <1>1, <1>2, <1>4 DEF Here
<1>11. ASSUME unread = {}, WellFormed PROVE Here = fileSize
  <2>1. cachePos >= fileSize \/ Shown
    BY <1>1, <1>3, <1>11 DEF PlaceOK, Searching
  <2>2. CASE cachePos >= fileSize
    BY <2>2 DEF Here
  <2>3. CASE ~(cachePos >= fileSize) /\ Shown
    <3>1. cachePos + Len(Buffer) = fileSize
      BY <1>1, <2>3, ShownFacts
    <3> QED BY <1>1, <2>3, <3>1 DEF Here
  <2> QED BY <2>1, <2>2, <2>3
<1>12. PlaceOK'
  <2> SUFFICES ASSUME unread = {}, WellFormed
               PROVE  /\ cachePos' >= fileSize'
                      /\ loop' = "copy" /\ szLine' = <<>> => Here' = fileSize'
                      /\ loop' # "skip" \/ AtBreak(Here)'
                      /\ szLine' # <<>> => BeginsLine(szLine[1])' /\ LineEnd' = Here'
                      /\ pc' = "ended" => IF szLine' = <<>> THEN Here' = fileSize'
                                          ELSE Len(szLine') = LineLength(szLine[1])'
    BY <1>1, <1>2, TextSame DEF PlaceOK
  <2>1. cachePos' >= fileSize' /\ Here' = fileSize' /\ loop' # "skip"
    BY <1>1, <1>2, <1>4, <1>10
  <2>2. ASSUME szLine # <<>> PROVE BeginsLine(szLine[1]) /\ LineEnd = fileSize
    BY <1>1, <1>3, <1>11, <2>2 DEF PlaceOK, Searching
  <2>3. LineEnd' = LineEnd
    BY <1>1 DEF LineEnd
  <2>4. ASSUME szLine # <<>> PROVE Len(szLine) = LineLength(szLine[1])
    BY <2>2, <2>4, LineEndsFile
  <2> QED BY <1>1, <1>2, <2>1, <2>2, <2>3, <2>4, TextSame
<1>13. ListedOK'
  <2> SUFFICES ASSUME unread = {}, WellFormed PROVE list = NamesBefore(Passed)'
    BY <1>1, <1>2, TextSame DEF ListedOK
  <2>1. Passed' = Passed
    BY <1>1, <1>10, <1>11 DEF Passed
  <2>2. list = NamesBefore(Passed)
    BY <1>1, <1>3 DEF ListedOK, Searching
  <2> QED BY <1>1, <1>2, <2>1, <2>2, TextSame
<1> QED BY <1>5, <1>6, <1>7, <1>8, <1>9, <1>12, <1>13 DEF IInv, Handle

LEMMA ReloadKeeps == ASSUME IInv, Reload PROVE IInv'
<1>1. /\ pc = "line" /\ pPos = Len(Buffer) /\ pc' = "loading" /\ StartRead(cachePos + CacheSize, CacheSize)
      /\ text' = text /\ szLine' = szLine /\ szExtraString' = szExtraString /\ loop' = loop
      /\ Buffer' = Buffer /\ pPos' = pPos /\ cachePos' = cachePos + CacheSize /\ list' = list
      /\ unread' = unread /\ files' = files
      /\ cachePos + CacheSize < fileSize
  BY DEF Reload, NeedsBlock, CacheUsed, lineVars
<1>2. fileSize' = fileSize /\ sectorSize' = sectorSize
  BY <1>1 DEF StartRead, fileConst
<1>3. TypeOK /\ Constants /\ FilesOK /\ Handle /\ CacheOK /\ LineOK /\ TildeOK /\ NamesInOnePiece
      /\ PlaceOK /\ ListedOK
  BY IInvFacts
<1>4. cachePos \in Nat /\ fileSize \in Nat /\ CacheSize \in Nat \ {0} /\ cachePos + CacheSize \in Nat
      /\ cachePos < fileSize
  BY <1>1, <1>3, CacheSizeFacts DEF TypeOK, FileTypeOK
<1>5. Constants'
  BY <1>1, <1>2, <1>3, ConstantsKept
<1>6. Handle'
  <2> DEFINE p == cachePos + CacheSize
  <2>1. /\ p \in Nat /\ StartRead(p, CacheSize) /\ cachePos' = p /\ pc' \in {"creating", "loading"}
        /\ p = cachePos + CacheSize /\ p < fileSize
    BY <1>1, <1>4
  <2> HIDE DEF p
  <2> QED BY <1>3, <1>5, <2>1, ReadBegins
<1>7. TypeOK' /\ FilesOK'
  BY <1>1, <1>3, <1>4, <1>6 DEF Handle, TypeOK, FilesOK
<1>8. CacheOK' /\ TildeOK' /\ NamesInOnePiece'
  BY <1>1, <1>2, <1>3, TildeKept, NamesKept DEF CacheOK
\* A block that is not the last one is full.
<1>9. Shown => cachePos + pPos = cachePos + CacheSize
  BY <1>1, ShownFacts
<1>10. LineOK'
  BY <1>1, <1>2, <1>3, <1>9 DEF LineOK, LineEnd, Char
<1>11. Here' = cachePos + CacheSize
  BY <1>1, <1>2, <1>4 DEF Here
<1>12. ASSUME unread = {}, WellFormed PROVE Here = cachePos + CacheSize
  <2>1. Shown
    BY <1>1, <1>3, <1>4, <1>12 DEF PlaceOK, Searching
  <2> QED BY <1>1, <1>4, <1>9, <2>1 DEF Here
<1>13. PlaceOK'
  <2> SUFFICES ASSUME unread = {}, WellFormed
               PROVE  /\ loop = "skip" => AtBreak(Here)
                      /\ loop = "copy" /\ szLine = <<>> => Here = fileSize \/ BeginsLine(Here)
                      /\ szLine # <<>> => BeginsLine(szLine[1]) /\ LineEnd = Here
    <3>1. unread = {} /\ WellFormed => Here' = Here
      BY <1>11, <1>12
    <3>2. LineEnd' = LineEnd
      BY <1>1 DEF LineEnd
    <3> QED BY <1>1, <1>2, <3>1, <3>2, TextSame DEF PlaceOK
  <2> QED BY <1>1, <1>3 DEF PlaceOK, Searching
<1>14. ListedOK'
  <2> SUFFICES ASSUME unread = {}, WellFormed PROVE list = NamesBefore(Passed)'
    BY <1>1, <1>2, TextSame DEF ListedOK
  <2>1. Passed' = Passed
    BY <1>1, <1>11, <1>12 DEF Passed
  <2>2. list = NamesBefore(Passed)
    BY <1>1, <1>3 DEF ListedOK, Searching
  <2> QED BY <1>1, <1>2, <2>1, <2>2, TextSame
<1> QED BY <1>5, <1>6, <1>7, <1>8, <1>10, <1>13, <1>14 DEF IInv, Handle

LEMMA ReloadedKeeps == ASSUME IInv, Reloaded PROVE IInv'
<1>1. /\ pc = "loading" /\ pc' = "line" /\ ~reading /\ fetched # <<>> /\ fileVars' = fileVars
      /\ text' = text /\ szLine' = szLine /\ szExtraString' = szExtraString /\ loop' = loop
      /\ Buffer' = fetched /\ pPos' = 0 /\ cachePos' = cachePos /\ list' = list
      /\ unread' = unread /\ files' = files
  BY DEF Reloaded, lineVars
<1>2. fileSize' = fileSize /\ sectorSize' = sectorSize
  BY <1>1 DEF fileVars, fileConst
<1>3. TypeOK /\ Constants /\ FilesOK /\ Handle /\ CacheOK /\ LineOK /\ TildeOK /\ NamesInOnePiece
      /\ PlaceOK /\ ListedOK
  BY IInvFacts
<1>4. cachePos \in Nat /\ fileSize \in Nat /\ cachePos < fileSize /\ fetched = Block(cachePos)
      /\ cachePos + 0 = cachePos
  BY <1>1, <1>3 DEF TypeOK, FileTypeOK, Handle, ReadOK
<1>5. Constants'
  BY <1>1, <1>2, <1>3, ConstantsKept
<1>6. Handle'
  <2>1. cachePos <= cachePos
    BY <1>4
  <2> QED BY <1>1, <1>3, <1>4, <2>1, HandleKept
<1>7. TypeOK' /\ FilesOK'
  <2>1. Len(fetched) \in Nat /\ fetched \in Seq(Int) /\ 0 \in 0..Len(fetched)
    BY <1>3 DEF TypeOK, FileTypeOK
  <2> QED BY <1>1, <1>3, <1>6, <2>1 DEF Handle, TypeOK, FilesOK
<1>8. Shown'
  BY <1>1, <1>2, <1>4 DEF Shown, Block
<1>9. CacheOK' /\ TildeOK' /\ NamesInOnePiece'
  BY <1>1, <1>2, <1>3, <1>8, TildeKept, NamesKept DEF CacheOK
<1>10. LineOK'
  BY <1>1, <1>2, <1>3, <1>4, <1>8 DEF LineOK, LineEnd, Char
<1>11. Here' = Here
  <2>1. ~(cachePos >= fileSize)
    BY <1>4
  <2> QED BY <1>1, <1>2, <1>4, <2>1 DEF Here
<1>12. LineEnd' = LineEnd
  BY <1>1 DEF LineEnd
<1>13. PlaceOK'
  <2> SUFFICES ASSUME unread = {}, WellFormed
               PROVE  /\ loop = "skip" => AtBreak(Here)
                      /\ loop = "copy" /\ szLine = <<>> => Here = fileSize \/ BeginsLine(Here)
                      /\ szLine # <<>> => BeginsLine(szLine[1]) /\ LineEnd = Here
    BY <1>1, <1>2, <1>8, <1>11, <1>12, TextSame DEF PlaceOK
  <2> QED BY <1>1, <1>3 DEF PlaceOK, Searching
<1>14. ListedOK'
  <2> SUFFICES ASSUME unread = {}, WellFormed PROVE list = NamesBefore(Passed)'
    BY <1>1, <1>2, TextSame DEF ListedOK
  <2>1. Passed' = Passed
    BY <1>1, <1>11 DEF Passed
  <2>2. list = NamesBefore(Passed)
    BY <1>1, <1>3 DEF ListedOK, Searching
  <2> QED BY <1>1, <1>2, <2>1, <2>2, TextSame
<1> QED BY <1>5, <1>6, <1>7, <1>9, <1>10, <1>13, <1>14 DEF IInv, Handle

LEMMA ReloadFailsKeeps == ASSUME IInv, ReloadFails PROVE IInv'
<1>1. /\ pc = "loading" /\ ~reading /\ fileVars' = fileVars
      /\ text' = text /\ szLine' = szLine /\ szExtraString' = szExtraString
      /\ Buffer' = Buffer /\ pPos' = pPos /\ cachePos' = cachePos /\ list' = list
      /\ unread' = unread \cup {cachePos} /\ files' = files
      /\ \/ loop = "skip" /\ loop' = "copy" /\ pc' = "line"
         \/ loop # "skip" /\ loop' = loop /\ pc' = "ended"
  BY DEF ReloadFails, NothingLoaded, cacheVars
<1>2. fileSize' = fileSize /\ sectorSize' = sectorSize
  BY <1>1 DEF fileVars, fileConst
<1>3. TypeOK /\ Constants /\ FilesOK /\ Handle /\ CacheOK /\ LineOK /\ TildeOK /\ NamesInOnePiece
  BY IInvFacts
<1>4. cachePos \in Nat
  BY <1>3 DEF TypeOK
<1>5. Constants'
  BY <1>1, <1>2, <1>3, ConstantsKept
<1>6. Handle'
  <2>1. cachePos <= cachePos
    BY <1>4
  <2> QED BY <1>1, <1>3, <1>4, <2>1, HandleKept
<1>7. TypeOK' /\ FilesOK'
  <2>1. unread \cup {cachePos} \subseteq Nat
    BY <1>3, <1>4 DEF TypeOK
  <2> QED BY <1>1, <1>3, <1>6, <2>1 DEF Handle, TypeOK, FilesOK
<1>8. CacheOK' /\ TildeOK' /\ NamesInOnePiece'
  BY <1>1, <1>2, <1>3, TildeKept, NamesKept DEF CacheOK
<1>9. LineOK'
  BY <1>1, <1>2, <1>3 DEF LineOK, LineEnd, Char
<1>10. PlaceOK' /\ ListedOK'
  BY <1>1 DEF PlaceOK, ListedOK
<1> QED BY <1>5, <1>6, <1>7, <1>8, <1>9, <1>10 DEF IInv, Handle

\* A character is behind nothing but what breaks lines before it.
LEMMA BreakGoesOn ==
  ASSUME fileSize \in Nat, NEW p \in Nat, p < fileSize, AtBreak(p)
  PROVE  /\ Char(p) \in Blank => AtBreak(p + 1)
         /\ Char(p) \notin Blank => BeginsLine(p)
<1>1. \A q \in 0..p - 1 : Char(q) \notin Blank => \E r \in q..p : Char(r) = "\n"
  BY DEF AtBreak
<1>2. ASSUME Char(p) \in Blank PROVE AtBreak(p + 1)
  <2> SUFFICES ASSUME NEW q \in 0..(p + 1) - 1, Char(q) \notin Blank
               PROVE  \E r \in q..p + 1 : Char(r) = "\n"
    BY DEF AtBreak
  <2>1. q \in 0..p - 1
    BY <1>2
  <2>2. PICK r \in q..p : Char(r) = "\n"
    BY <1>1, <2>1
  <2>3. r \in q..p + 1
    OBVIOUS
  <2> QED BY <2>2, <2>3
<1> QED BY <1>1, <1>2 DEF BeginsLine

LEMMA SkipBlankKeeps == ASSUME IInv, SkipBlank PROVE IInv'
<1>1. /\ HasChar /\ pc = "line" /\ pPos < Len(Buffer) /\ pc' = pc /\ fileVars' = fileVars
      /\ text' = text /\ szLine' = szLine /\ szExtraString' = szExtraString /\ loop = "skip"
      /\ Buffer' = Buffer /\ cachePos' = cachePos /\ list' = list /\ unread' = unread /\ files' = files
      /\ \/ Char(Next1) \in Blank /\ pPos' = pPos + 1 /\ loop' = loop
         \/ Char(Next1) \notin Blank /\ loop' = "copy" /\ pPos' = pPos
  BY DEF SkipBlank, HasChar
<1>2. fileSize' = fileSize /\ sectorSize' = sectorSize
  BY <1>1 DEF fileVars, fileConst
<1>3. TypeOK /\ Constants /\ FilesOK /\ Handle /\ CacheOK /\ LineOK /\ TildeOK /\ NamesInOnePiece
      /\ PlaceOK /\ ListedOK /\ ~reading
  BY <1>1, IInvFacts, Idle
<1> DEFINE h == cachePos + pPos
<1>4. /\ Shown /\ Next1 = h /\ h < fileSize /\ Here = h /\ szLine = <<>>
      /\ cachePos \in Nat /\ pPos \in Nat /\ fileSize \in Nat /\ cachePos < fileSize
      /\ h \in Nat /\ cachePos + (pPos + 1) = h + 1
  BY <1>1, <1>3, NextChar DEF LineOK
<1>5. Constants'
  BY <1>1, <1>2, <1>3, ConstantsKept
<1>6. Handle'
  <2>1. cachePos <= cachePos
    BY <1>4
  <2> QED BY <1>1, <1>3, <1>4, <2>1, HandleKept
<1>7. TypeOK' /\ FilesOK'
  <2>1. pPos' \in 0..Len(Buffer)
    <3>1. Len(Buffer) \in Nat
      BY <1>3 DEF TypeOK
    <3> QED BY <1>1, <1>4, <3>1
  <2> QED BY <1>1, <1>3, <1>6, <2>1 DEF Handle, TypeOK, FilesOK
<1>8. Shown'
  BY <1>1, <1>2, <1>4 DEF Shown, Block
<1>9. CacheOK' /\ TildeOK' /\ NamesInOnePiece' /\ LineOK'
  BY <1>1, <1>2, <1>3, <1>4, <1>8, TildeKept, NamesKept DEF CacheOK, LineOK
<1>10. IF Char(h) \in Blank THEN loop' = "skip" /\ Here' = h + 1 ELSE loop' = "copy" /\ Here' = h
  <2>1. ~(cachePos >= fileSize)
    BY <1>4
  <2> HIDE DEF h
  <2> QED BY <1>1, <1>2, <1>4, <2>1 DEF Here, h
<1> HIDE DEF h
<1>11. ASSUME unread = {}, WellFormed
       PROVE  IF Char(h) \in Blank THEN AtBreak(h + 1) ELSE BeginsLine(h)
  <2>1. AtBreak(h)
    BY <1>1, <1>3, <1>4, <1>11 DEF PlaceOK, Searching
  <2>2. /\ Char(h) \in Blank => AtBreak(h + 1)
        /\ Char(h) \notin Blank => BeginsLine(h)
    BY <1>4, <2>1, BreakGoesOn
  <2> QED BY <2>2
<1>12. PlaceOK'
  <2> SUFFICES ASSUME unread = {}, WellFormed
               PROVE  /\ loop' = "skip" => AtBreak(Here)'
                      /\ loop' = "copy" => BeginsLine(Here)'
    BY <1>1, <1>2, <1>4, <1>8, TextSame DEF PlaceOK
  <2> QED BY <1>1, <1>2, <1>10, <1>11, TextSame
<1>13. ListedOK'
  <2> SUFFICES ASSUME unread = {}, WellFormed PROVE list = NamesBefore(Passed)'
    BY <1>1, <1>2, TextSame DEF ListedOK
  <2>1. list = NamesBefore(h)
    BY <1>1, <1>3, <1>4 DEF ListedOK, Searching, Passed
  <2>2. CASE Char(h) \notin Blank
    <3>1. Passed' = h
      BY <1>1, <1>4, <1>10, <2>2 DEF Passed
    <3> QED BY <1>1, <1>2, <2>1, <3>1, TextSame
  <2>3. CASE Char(h) \in Blank
    <3>1. Passed' = h + 1
      BY <1>1, <1>4, <1>10, <2>3 DEF Passed
    <3>2. \A q \in LineBegins : q < h + 1 <=> q < h
      <4> TAKE q \in LineBegins
      <4>1. q \in Nat /\ q # h
        BY <1>4, <2>3 DEF LineBegins, BeginsLine
      <4> QED BY <1>4, <4>1
    <3>3. NamesBefore(h + 1) = NamesBefore(h)
      BY <3>2 DEF NamesBefore
    <3> QED BY <1>1, <1>2, <2>1, <3>1, <3>3, TextSame
  <2> QED BY <2>2, <2>3
<1> QED BY <1>5, <1>6, <1>7, <1>9, <1>12, <1>13 DEF IInv, Handle

LEMMA CopyCharKeeps == ASSUME IInv, CopyChar PROVE IInv'
<1> DEFINE n == Len(szLine)
           h == cachePos + pPos
<1>1. /\ HasChar /\ pc = "line" /\ pPos < Len(Buffer) /\ pc' = pc /\ fileVars' = fileVars
      /\ text' = text /\ szLine' = Append(szLine, Next1) /\ loop = "copy" /\ loop' = loop
      /\ szExtraString' = (IF Char(Next1) = "~" THEN n ELSE szExtraString)
      /\ Buffer' = Buffer /\ pPos' = pPos + 1 /\ cachePos' = cachePos /\ list' = list
      /\ unread' = unread /\ files' = files
      /\ ~(n >= MaxChars - 1) /\ Char(Next1) # "\n"
  BY DEF CopyChar, HasChar, LineFull
<1>2. fileSize' = fileSize /\ sectorSize' = sectorSize
  BY <1>1 DEF fileVars, fileConst
<1>3. TypeOK /\ Constants /\ FilesOK /\ Handle /\ CacheOK /\ LineOK /\ TildeOK /\ NamesInOnePiece
      /\ PlaceOK /\ ListedOK /\ ~reading
  BY <1>1, IInvFacts, Idle
<1>4. /\ Shown /\ Next1 = h /\ h < fileSize /\ Here = h
      /\ cachePos \in Nat /\ pPos \in Nat /\ fileSize \in Nat /\ cachePos < fileSize
      /\ h \in Nat /\ cachePos + (pPos + 1) = h + 1
  BY <1>1, NextChar
<1>5. szLine \in Seq(Int) /\ n \in Nat /\ MaxChars \in Nat /\ n + 1 < MaxChars
  <2>1. szLine \in Seq(Int) /\ n \in Nat /\ MaxChars \in Nat
    BY <1>3, SizesAssumption DEF TypeOK
  <2> QED BY <1>1, <2>1
<1>6. /\ szLine' \in Seq(Int) /\ Len(szLine') = n + 1 /\ szLine'[n + 1] = h
      /\ \A i \in 1..n : szLine'[i] = szLine[i]
  <2>1. szLine' = Append(szLine, h) /\ h \in Int
    BY <1>1, <1>4
  <2> HIDE DEF h
  <2> QED BY <1>5, <2>1, AppendProperties
<1> HIDE DEF h, n
<1>7. Constants'
  BY <1>1, <1>2, <1>3, ConstantsKept
<1>8. Handle'
  <2>1. cachePos <= cachePos
    BY <1>4
  <2> QED BY <1>1, <1>3, <1>4, <2>1, HandleKept
<1>9. TypeOK' /\ FilesOK'
  <2>1. pPos' \in 0..Len(Buffer)
    <3>1. Len(Buffer) \in Nat
      BY <1>3 DEF TypeOK
    <3> QED BY <1>1, <1>4, <3>1
  <2>2. szExtraString' \in 0..(n + 1) - 1 \cup {NoExtra}
    <3>1. szExtraString \in 0..n - 1 \cup {NoExtra}
      BY <1>3 DEF TypeOK, n
    <3>2. n \in 0..(n + 1) - 1 /\ 0..n - 1 \subseteq 0..(n + 1) - 1
      BY <1>5
    <3> QED BY <1>1, <3>1, <3>2
  <2>3. Len(szLine') < MaxChars
    BY <1>5, <1>6
  <2>4. szExtraString' \in 0..Len(szLine') - 1 \cup {NoExtra}
    BY <1>6, <2>2
  <2> QED BY <1>1, <1>3, <1>6, <1>8, <2>1, <2>3, <2>4 DEF Handle, TypeOK, FilesOK
<1>10. Shown'
  BY <1>1, <1>2, <1>4 DEF Shown, Block
<1>11. CacheOK' /\ NamesInOnePiece'
  BY <1>1, <1>2, <1>3, <1>10, NamesKept DEF CacheOK
<1>12. TildeOK'
  <2> USE DEF NoExtra
  <2>1. CASE Char(h) = "~"
    <3>1. szExtraString' = n /\ n # NoExtra /\ Len(szLine') = n + 1 /\ n + 2..n + 1 = {}
      BY <1>1, <1>4, <1>5, <1>6, <2>1
    <3>2. Char(szLine'[n + 1]) = "~"
      BY <1>6, <2>1
    <3> QED BY <1>1, <3>1, <3>2 DEF TildeOK, Char
  <2>2. CASE Char(h) # "~"
    <3>1. szExtraString' = szExtraString
      BY <1>1, <1>4, <2>2
    <3>2. \A i \in 1..n + 1 : i = n + 1 \/ i \in 1..n
      BY <1>5
    <3>3. CASE szExtraString = NoExtra
      <4>1. \A i \in 1..n : Char(szLine[i]) # "~"
        BY <1>3, <3>3 DEF TildeOK, n
      <4>2. \A i \in 1..n + 1 : Char(szLine'[i]) # "~"
        BY <1>6, <2>2, <3>2, <4>1
      <4> QED BY <1>1, <1>6, <3>1, <3>3, <4>2 DEF TildeOK, Char
    <3>4. CASE szExtraString # NoExtra
      <4> DEFINE e == szExtraString
      <4>1. e \in 0..n - 1 /\ e + 1 \in 1..n
        BY <1>3, <1>5, <3>4 DEF TypeOK, n
      <4>2. Char(szLine[e + 1]) = "~" /\ \A i \in e + 2..n : Char(szLine[i]) # "~"
        BY <1>3, <3>4 DEF TildeOK, n
      <4>3. \A i \in e + 2..n + 1 : i = n + 1 \/ (i \in 1..n /\ i \in e + 2..n)
        BY <1>5, <4>1
      <4> HIDE DEF e
      <4>4. Char(szLine'[e + 1]) = "~"
        BY <1>6, <4>1, <4>2
      <4>5. \A i \in e + 2..n + 1 : Char(szLine'[i]) # "~"
        BY <1>6, <2>2, <4>2, <4>3
      <4> QED BY <1>1, <1>6, <3>1, <3>4, <4>4, <4>5 DEF TildeOK, Char, e
    <3> QED BY <3>3, <3>4
  <2> QED BY <2>1, <2>2
\* The line begins here or goes on here.
<1> DEFINE p == IF szLine = <<>> THEN h ELSE szLine[1]
<1>13. /\ p \in Nat /\ szLine' = Bytes(p, n + 1) /\ p + n = h
       /\ \A q \in p..h : Char(q) # "\n"
  <2>1. Char(h) # "\n"
    BY <1>1, <1>4
  <2>2. CASE szLine = <<>>
    <3>1. n = 0 /\ p = h /\ h..h = {h}
      BY <1>4, <2>2 DEF n
    <3>2. Append(Bytes(h, 0), h + 0) = Bytes(h, 0 + 1) /\ Bytes(h, 0) = <<>> /\ h + 0 = h
      <4>1. h \in Int /\ 0 \in Nat
        BY <1>4
      <4>2. h + 0 = h
        BY <1>4
      <4> QED BY <4>1, <4>2, BytesAppend, BytesFacts
    <3> QED BY <1>1, <1>4, <2>1, <2>2, <3>1, <3>2
  <2>3. CASE szLine # <<>>
    <3>1. /\ szLine[1] \in Nat /\ szLine = Bytes(szLine[1], n)
          /\ \A q \in szLine[1]..szLine[1] + n - 1 : Char(q) # "\n"
      BY <2>3, LineFacts DEF n
    <3>2. szLine[1] + n = h
      BY <1>1, <1>3, <2>3 DEF LineOK, LineEnd, n, h
    <3>3. p = szLine[1]
      BY <2>3
    <3> HIDE DEF p
    <3>4. p \in Nat /\ p + n = h /\ \A q \in p..h : q = h \/ q \in p..p + n - 1
      <4>1. p \in Nat /\ p + n = h
        BY <3>1, <3>2, <3>3
      <4> QED BY <1>5, <4>1
    <3>5. Append(Bytes(p, n), p + n) = Bytes(p, n + 1)
      <4>1. p \in Int /\ n \in Nat
        BY <1>5, <3>4
      <4> QED BY <4>1, BytesAppend
    <3> QED BY <1>1, <1>4, <2>1, <3>1, <3>3, <3>4, <3>5
  <2> QED BY <2>2, <2>3
<1>14. szLine' # <<>> /\ szLine'[1] = p
  <2>1. p \in Int /\ n + 1 \in Nat /\ n + 1 # 0 /\ 1 \in 1..n + 1 /\ p + 1 - 1 = p
    BY <1>5, <1>13
  <2>2. Bytes(p, n + 1) # <<>> /\ Bytes(p, n + 1)[1] = p + 1 - 1
    <3> HIDE DEF p
    <3> QED BY <2>1, BytesFacts
  <2> QED BY <1>13, <2>1, <2>2
<1>15. LineEnd' = h + 1
  <2>1. p + (n + 1) = h + 1
    <3>1. p \in Nat /\ n \in Nat /\ p + n = h
      BY <1>5, <1>13
    <3> HIDE DEF p
    <3> QED BY <3>1
  <2> QED BY <1>6, <1>14, <2>1 DEF LineEnd
<1> HIDE DEF p
<1>16. LineOK'
  <2>1. cachePos' + pPos' = h + 1 /\ pc' = "line" /\ h + 1 <= fileSize /\ (h + 1) - 1 = h
    BY <1>1, <1>4
  <2>2. \A q \in p..(h + 1) - 1 : Char(q) # "\n"
    BY <1>13, <2>1
  <2>3. szLine' = Bytes(szLine'[1], Len(szLine'))
    BY <1>6, <1>13, <1>14
  <2> QED BY <1>1, <1>2, <1>10, <1>13, <1>14, <1>15, <2>1, <2>2, <2>3 DEF LineOK, Char
<1>17. Here' = h + 1
  <2>1. ~(cachePos >= fileSize)
    BY <1>4
  <2> QED BY <1>1, <1>2, <1>4, <2>1 DEF Here
<1>18. ASSUME unread = {}, WellFormed PROVE BeginsLine(p)
  <2>1. CASE szLine = <<>>
    <3>1. h # fileSize
      BY <1>4
    <3> QED BY <1>1, <1>3, <1>4, <1>18, <2>1, <3>1 DEF PlaceOK, Searching, p
  <2>2. CASE szLine # <<>>
    BY <1>1, <1>3, <1>18, <2>2 DEF PlaceOK, Searching, p
  <2> QED BY <2>1, <2>2
<1>19. PlaceOK'
  <2> SUFFICES ASSUME unread = {}, WellFormed PROVE BeginsLine(szLine[1])' /\ LineEnd' = Here'
    BY <1>1, <1>2, <1>10, <1>14, TextSame DEF PlaceOK
  <2> QED BY <1>1, <1>2, <1>14, <1>15, <1>17, <1>18, TextSame
<1>20. ListedOK'
  <2> SUFFICES ASSUME unread = {}, WellFormed PROVE list = NamesBefore(Passed)'
    BY <1>1, <1>2, TextSame DEF ListedOK
  <2>1. Passed' = Passed
    BY <1>4, <1>14 DEF Passed, p
  <2>2. list = NamesBefore(Passed)
    BY <1>1, <1>3 DEF ListedOK, Searching
  <2> QED BY <1>1, <1>2, <2>1, <2>2, TextSame
<1> QED BY <1>7, <1>8, <1>9, <1>11, <1>12, <1>16, <1>19, <1>20 DEF IInv, Handle

LEMMA LineEndsKeeps == ASSUME IInv, LineEnds PROVE IInv'
<1>1. /\ pc = "line" /\ pc' = "ended" /\ loop = "copy" /\ fileVars' = fileVars
      /\ text' = text /\ szLine' = szLine /\ szExtraString' = szExtraString /\ loop' = loop
      /\ Buffer' = Buffer /\ pPos' = pPos /\ cachePos' = cachePos /\ list' = list
      /\ unread' = unread /\ files' = files
      /\ LineFull \/ (HasChar /\ Char(Next1) = "\n")
  BY DEF LineEnds, lineVars, cacheVars
<1>2. fileSize' = fileSize /\ sectorSize' = sectorSize
  BY <1>1 DEF fileVars, fileConst
<1>3. TypeOK /\ Constants /\ FilesOK /\ Handle /\ CacheOK /\ LineOK /\ TildeOK /\ NamesInOnePiece
      /\ PlaceOK /\ ListedOK /\ ~reading
  BY <1>1, IInvFacts, Idle
<1>4. cachePos \in Nat
  BY <1>3 DEF TypeOK
<1>5. Constants'
  BY <1>1, <1>2, <1>3, ConstantsKept
<1>6. Handle'
  <2>1. cachePos <= cachePos
    BY <1>4
  <2> QED BY <1>1, <1>3, <1>4, <2>1, HandleKept
<1>7. TypeOK' /\ FilesOK'
  BY <1>1, <1>3, <1>6 DEF Handle, TypeOK, FilesOK
<1>8. Shown' = Shown /\ Here' = Here /\ LineEnd' = LineEnd /\ Passed' = Passed
  BY <1>1, <1>2 DEF Shown, Block, Here, LineEnd, Passed
<1>9. CacheOK' /\ TildeOK' /\ NamesInOnePiece' /\ LineOK'
  BY <1>1, <1>2, <1>3, <1>8, TildeKept, NamesKept DEF CacheOK, LineOK, Char, LineEnd
<1>10. ASSUME unread = {}, WellFormed
       PROVE  IF szLine = <<>> THEN Here = fileSize ELSE Len(szLine) = LineLength(szLine[1])
  <2>1. CASE szLine = <<>>
    <3>1. ~LineFull
      <4>1. Len(szLine) = 0 /\ ~(0 >= MaxChars - 1)
        BY <2>1, SizesAssumption
      <4> QED BY <4>1 DEF LineFull
    <3>2. HasChar /\ Char(Next1) = "\n"
      BY <1>1, <3>1
    <3>3. Here = fileSize \/ BeginsLine(Here)
      BY <1>1, <1>3, <1>10, <2>1 DEF PlaceOK, Searching
    <3>4. Char(Here) = "\n" /\ Here \in Nat
      BY <3>2, NextChar
    <3> QED BY <2>1, <3>3, <3>4 DEF BeginsLine, Blank
  <2>2. CASE szLine # <<>>
    <3> DEFINE p == szLine[1]
               n == Len(szLine)
    <3>1. /\ p \in 0..fileSize - 1 /\ n \in Nat \ {0} /\ fileSize \in Nat /\ p + n <= fileSize
          /\ \A q \in p..p + n - 1 : Char(q) # "\n"
      BY <2>2, LineFacts
    <3>2. BeginsLine(p) /\ LineEnd = cachePos + pPos
      BY <1>1, <1>3, <1>10, <2>2 DEF PlaceOK, Searching, LineOK
    <3>3. n < MaxChars /\ LineEnd = p + n
      BY <1>3 DEF TypeOK, LineEnd
    <3>4. n >= MaxChars - 1 \/ Char(p + n) = "\n"
      <4>1. CASE LineFull
        BY <4>1 DEF LineFull
      <4>2. CASE HasChar /\ Char(Next1) = "\n"
        BY <3>2, <3>3, <4>2, NextChar
      <4> QED BY <1>1, <4>1, <4>2
    <3> SUFFICES LineLength(p) = n
      BY <2>2
    <3> HIDE DEF p, n
    <3>5. CASE Char(p + n) = "\n"
      <4>1. p \in Nat
        BY <3>1
      <4> QED BY <3>1, <3>5, <4>1, LineLengthIs
    <3>6. CASE n >= MaxChars - 1
      <4>1. p \in LineBegins
        BY <3>1, <3>2 DEF LineBegins
      <4>2. LineLength(p) < MaxChars
        BY <1>10, <4>1 DEF WellFormed
      <4>3. /\ LineLength(p) \in 1..fileSize - p
            /\ p + LineLength(p) = fileSize \/ Char(p + LineLength(p)) = "\n"
        BY <3>1, LineLengthFacts
      <4>4. ~(LineLength(p) < n)
        <5> SUFFICES ASSUME LineLength(p) < n PROVE FALSE
          OBVIOUS
        <5>1. p + LineLength(p) \in p..p + n - 1 /\ p + LineLength(p) # fileSize
          BY <3>1, <4>3
        <5> QED BY <3>1, <4>3, <5>1
      <4> QED BY <3>1, <3>3, <3>6, <4>2, <4>3, <4>4, SizesAssumption
    <3> QED BY <3>4, <3>5, <3>6
  <2> QED BY <2>1, <2>2
<1>11. PlaceOK'
  <2> SUFFICES ASSUME unread = {}, WellFormed
               PROVE  /\ cachePos >= fileSize \/ Shown
                      /\ szLine = <<>> => Here = fileSize \/ BeginsLine(Here)
                      /\ szLine # <<>> => BeginsLine(szLine[1]) /\ LineEnd = Here
    BY <1>1, <1>2, <1>8, <1>10, TextSame DEF PlaceOK
  <2> QED BY <1>1, <1>3 DEF PlaceOK, Searching
<1>12. ListedOK'
  <2> SUFFICES ASSUME unread = {}, WellFormed PROVE list = NamesBefore(Passed)'
    BY <1>1, <1>2, TextSame DEF ListedOK
  <2>1. list = NamesBefore(Passed)
    BY <1>1, <1>3 DEF ListedOK, Searching
  <2> QED BY <1>1, <1>2, <1>8, <2>1, TextSame
<1> QED BY <1>5, <1>6, <1>7, <1>9, <1>11, <1>12 DEF IInv, Handle

LEMMA MatchKeeps == ASSUME IInv, Match PROVE IInv'
<1>1. /\ pc = "ended" /\ pc' = "line" /\ Name # <<>> /\ fileVars' = fileVars
      /\ text' = text /\ loop' = "skip" /\ szLine' = <<>> /\ szExtraString' = NoExtra
      /\ Buffer' = Buffer /\ pPos' = pPos /\ cachePos' = cachePos
      /\ unread' = unread /\ files' = files
      /\ list' = IF CheckWildCard(TextOf(Name), Mask) THEN list \cup {Name} ELSE list
  BY DEF Match, NewLine, cacheVars
<1>2. fileSize' = fileSize /\ sectorSize' = sectorSize
  BY <1>1 DEF fileVars, fileConst
<1>3. TypeOK /\ Constants /\ FilesOK /\ Handle /\ CacheOK /\ LineOK /\ TildeOK /\ NamesInOnePiece
      /\ PlaceOK /\ ListedOK /\ ~reading
  BY <1>1, IInvFacts, Idle
<1>4. cachePos \in Nat /\ szLine \in Seq(Int)
  BY <1>3 DEF TypeOK
<1> DEFINE n == Len(szLine)
           k == Len(Name)
<1>5. szLine # <<>> /\ k \in 1..n /\ Name = SubSeq(szLine, 1, k)
  <2>1. CASE IsPatchInfo
    <3>1. Name = SubSeq(szLine, 1, szExtraString) /\ szExtraString \in 0..n - 1
      BY <1>3, <2>1 DEF Name, IsPatchInfo, TypeOK
    <3> DEFINE e == szExtraString
    <3>2. e \in Nat /\ e <= n /\ n \in Nat
      BY <1>4, <3>1
    <3> HIDE DEF e
    <3>3. Len(SubSeq(szLine, 1, e)) = e
      BY <1>4, <3>2
    <3>4. e # 0
      <4>1. Len(<<>>) = 0 /\ SubSeq(szLine, 1, 0) = <<>>
        BY <1>4
      <4> QED BY <1>1, <3>1, <4>1 DEF e
    <3>5. szLine # <<>>
      <4>1. szLine = <<>> => n = 0
        OBVIOUS
      <4> QED BY <3>2, <3>4, <4>1
    <3>6. k = e
      BY <3>1, <3>3 DEF e
    <3> QED BY <3>1, <3>2, <3>4, <3>5, <3>6 DEF e
  <2>2. CASE ~IsPatchInfo
    <3>1. Name = szLine
      BY <2>2 DEF Name
    <3>2. n \in Nat /\ n # 0
      BY <1>1, <1>4, <3>1, EmptySeq
    <3>3. SubSeq(szLine, 1, n) = szLine
      BY <1>4
    <3> QED BY <1>1, <3>1, <3>2, <3>3
  <2> QED BY <2>1, <2>2
<1> DEFINE p == szLine[1]
<1>6. /\ p \in 0..fileSize - 1 /\ n \in Nat \ {0} /\ fileSize \in Nat
      /\ p + n <= fileSize /\ szLine = Bytes(p, n)
      /\ \A q \in p..p + n - 1 : Char(q) # "\n"
  BY <1>5, LineFacts
<1> HIDE DEF p, n, k
<1>7. Name = Bytes(p, k) /\ k \in Nat \ {0}
  <2>1. p \in Int /\ n \in Nat /\ k \in Nat \ {0} /\ 0 \in Nat /\ 0 + k <= n
    BY <1>5, <1>6
  <2>2. SubSeq(Bytes(p, n), 0 + 1, 0 + k) = Bytes(p + 0, k)
    BY <2>1, BytesPart
  <2>3. 0 + 1 = 1 /\ 0 + k = k /\ p + 0 = p
    BY <2>1
  <2> QED BY <1>5, <1>6, <2>1, <2>2, <2>3
<1>8. /\ Name \in Seq(Int) /\ Len(Name) = k
      /\ \A i \in 1..k : Name[i] = p + i - 1
  <2>1. p \in Int /\ k \in Nat
    BY <1>6, <1>7
  <2> QED BY <1>7, <2>1, BytesFacts
<1>9. Constants'
  BY <1>1, <1>2, <1>3, ConstantsKept
<1>10. Handle'
  <2>1. cachePos <= cachePos
    BY <1>4
  <2> QED BY <1>1, <1>3, <1>4, <2>1, HandleKept
<1>11. TypeOK' /\ FilesOK'
  <2>1. list' \subseteq Seq(Int)
    BY <1>1, <1>3, <1>8 DEF TypeOK
  <2>2. Len(<<>>) < MaxChars
    BY SizesAssumption
  <2> QED BY <1>1, <1>3, <1>10, <2>1, <2>2 DEF Handle, TypeOK, FilesOK
<1>12. Shown' = Shown /\ Here' = Here
  BY <1>1, <1>2 DEF Shown, Block, Here
<1>13. CacheOK' /\ LineOK' /\ TildeOK'
  BY <1>1, <1>3, <1>12, EmptyLine DEF CacheOK
<1>14. NamesInOnePiece'
  <2> SUFFICES ASSUME NEW name \in list'
               PROVE  /\ name = Bytes(name[1], Len(name))
                      /\ \A i \in 1..Len(name) : name[i] \in 0..fileSize - 1 /\ Char(name[i]) # "\n"
    BY <1>1, <1>2 DEF NamesInOnePiece, Char
  <2>1. CASE name \in list
    BY <1>3, <2>1 DEF NamesInOnePiece
  <2>2. CASE name = Name
    <3>1. name[1] = p
      <4>1. 1 \in 1..k /\ p + 1 - 1 = p
        BY <1>6, <1>7
      <4> QED BY <1>8, <2>2, <4>1
    <3>2. \A i \in 1..k : p + i - 1 \in 0..fileSize - 1 /\ p + i - 1 \in p..p + n - 1
      BY <1>5, <1>6
    <3> QED BY <1>6, <1>7, <1>8, <2>2, <3>1, <3>2
  <2> QED BY <1>1, <2>1, <2>2
<1>15. ASSUME unread = {}, WellFormed
       PROVE  BeginsLine(p) /\ p + n = Here /\ n = LineLength(p) /\ Name = NameAt(p)
  <2>1. BeginsLine(p) /\ LineEnd = Here /\ n = LineLength(p)
    BY <1>1, <1>3, <1>5, <1>15 DEF PlaceOK, Searching, p, n
  <2>2. Name = NameAt(p)
    BY <1>5, <2>1, NameIs DEF p, n
  <2> QED BY <2>1, <2>2 DEF LineEnd, p, n
<1>16. PlaceOK'
  <2> SUFFICES ASSUME unread = {}, WellFormed
               PROVE  (cachePos >= fileSize \/ Shown) /\ AtBreak(Here)
    BY <1>1, <1>2, <1>12, TextSame DEF PlaceOK
  <2>1. cachePos >= fileSize \/ Shown
    BY <1>1, <1>3 DEF PlaceOK, Searching
  <2>2. p + n = fileSize \/ Char(p + n) = "\n"
    BY <1>6, <1>15, LineLengthFacts
  <2>3. AtBreak(p + n)
    <3> DEFINE e == p + n
    <3>1. \A q \in 0..e - 1 : e \in q..e
      BY <1>6
    <3>2. e = fileSize \/ Char(e) = "\n"
      BY <2>2
    <3> HIDE DEF e
    <3>3. AtBreak(e)
      BY <3>1, <3>2 DEF AtBreak
    <3> QED BY <3>3 DEF e
  <2> QED BY <1>15, <2>1, <2>3
<1>17. ListedOK'
  <2> SUFFICES ASSUME unread = {}, WellFormed PROVE list' = NamesBefore(Passed)'
    BY <1>1, <1>2, TextSame DEF ListedOK
  <2>1. list = NamesBefore(p)
    BY <1>1, <1>3, <1>5 DEF ListedOK, Searching, Passed, p
  <2>2. Passed' = p + n
    BY <1>1, <1>12, <1>15 DEF Passed
  <2>3. NamesBefore(p + n) = NamesBefore(p) \cup (IF Chosen(p) THEN {NameAt(p)} ELSE {})
    <3>1. p \in LineBegins
      BY <1>6, <1>15 DEF LineBegins
    <3> QED BY <1>6, <3>1, LinesApart
  <2>4. list' = NamesBefore(p + n)
    BY <1>1, <1>15, <2>1, <2>3 DEF Chosen
  <2> QED BY <1>1, <1>2, <2>2, <2>4, TextSame
<1> QED BY <1>9, <1>10, <1>11, <1>13, <1>14, <1>16, <1>17 DEF IInv, Handle

LEMMA NoMoreFilesKeeps == ASSUME IInv, NoMoreFiles PROVE IInv'
<1>1. /\ pc = "ended" /\ pc' = "closed" /\ Name = <<>> /\ fileVars' = fileVars
      /\ text' = text /\ szLine' = szLine /\ szExtraString' = szExtraString /\ loop' = loop
      /\ Buffer' = Buffer /\ pPos' = pPos /\ cachePos' = cachePos /\ list' = list
      /\ unread' = unread /\ files' = files - 1
  BY DEF NoMoreFiles, lineVars, cacheVars
<1>2. fileSize' = fileSize /\ sectorSize' = sectorSize
  BY <1>1 DEF fileVars, fileConst
<1>3. TypeOK /\ Constants /\ FilesOK /\ Handle /\ CacheOK /\ LineOK /\ TildeOK /\ NamesInOnePiece
      /\ PlaceOK /\ ListedOK /\ ~reading
  BY <1>1, IInvFacts, Idle
<1>4. cachePos \in Nat /\ files = 1
  BY <1>1, <1>3 DEF TypeOK, FilesOK
<1>5. Constants'
  BY <1>1, <1>2, <1>3, ConstantsKept
<1>6. Handle'
  <2>1. cachePos <= cachePos
    BY <1>4
  <2> QED BY <1>1, <1>3, <1>4, <2>1, HandleKept
<1>7. TypeOK' /\ FilesOK'
  BY <1>1, <1>3, <1>4, <1>6 DEF Handle, TypeOK, FilesOK
<1>8. Shown' = Shown
  BY <1>1, <1>2 DEF Shown, Block
<1>9. CacheOK' /\ TildeOK' /\ NamesInOnePiece' /\ LineOK'
  BY <1>1, <1>2, <1>3, <1>8, TildeKept, NamesKept DEF CacheOK, LineOK, Char, LineEnd
<1>10. PlaceOK'
  BY <1>1 DEF PlaceOK, Searching
\* Only at the end of the file is a line empty of a name.
<1>11. ASSUME unread = {}, WellFormed PROVE szLine = <<>> /\ Here = fileSize
  <2>1. ASSUME szLine # <<>> PROVE FALSE
    <3> DEFINE p == szLine[1]
    <3>1. BeginsLine(p) /\ Len(szLine) = LineLength(p)
      BY <1>1, <1>3, <1>11, <2>1 DEF PlaceOK, Searching
    <3>2. Name = NameAt(p)
      BY <2>1, <3>1, NameIs
    <3>3. p \in 0..fileSize - 1 /\ fileSize \in Nat
      BY <2>1, LineFacts
    <3> HIDE DEF p
    <3>4. NameLength(p) > 0
      BY <1>11, <3>1, <3>3 DEF WellFormed, LineBegins
    <3>5. NameLength(p) \in Nat /\ NameLength(p) # 0 /\ p \in Int
      <4>1. LineLength(p) \in Nat
        BY <3>3, LineLengthFacts
      <4>2. NameLength(p) \in 0..LineLength(p)
        BY <3>3, NameLengthFacts
      <4> QED BY <3>3, <3>4, <4>1, <4>2
    <3>6. Bytes(p, NameLength(p)) # <<>>
      BY <3>5, BytesFacts
    <3> QED BY <1>1, <3>2, <3>6 DEF NameAt
  <2>2. szLine = <<>>
    BY <2>1
  <2>3. Here = fileSize
    BY <1>1, <1>3, <1>11, <2>2 DEF PlaceOK, Searching
  <2> QED BY <2>2, <2>3
<1>12. ListedOK'
  <2> SUFFICES ASSUME unread = {}, WellFormed PROVE list = NamesBefore(fileSize)'
    BY <1>1, <1>2, TextSame DEF ListedOK, Searching
  <2>1. list = NamesBefore(fileSize)
    BY <1>1, <1>3, <1>11 DEF ListedOK, Searching, Passed
  <2> QED BY <1>1, <1>2, <2>1, TextSame
<1> QED BY <1>5, <1>6, <1>7, <1>9, <1>10, <1>12 DEF IInv, Handle

\* A step of a read changes nothing else.
LEMMA FileStepKeeps == ASSUME IInv, FileStep PROVE IInv'
<1>1. /\ ReadStep /\ text' = text /\ pc' = pc /\ loop' = loop /\ szLine' = szLine
      /\ szExtraString' = szExtraString /\ Buffer' = Buffer /\ pPos' = pPos /\ cachePos' = cachePos
      /\ list' = list /\ files' = files /\ unread' = unread
  BY DEF FileStep, lineVars, cacheVars
<1>2. fileSize' = fileSize /\ sectorSize' = sectorSize
  BY <1>1 DEF ReadStep, FirstSector, MiddleSectors, LastSector, ReadFails, ReadDone, Copy, fileConst
<1>3. TypeOK /\ Constants /\ FilesOK /\ Handle /\ CacheOK /\ LineOK /\ TildeOK /\ NamesInOnePiece
      /\ PlaceOK /\ ListedOK
  BY IInvFacts
<1>4. Constants'
  BY <1>1, <1>2, <1>3, ConstantsKept
<1>5. Handle'
  BY <1>1, <1>3, ReadStepOK DEF ReadFrame
<1>6. TypeOK' /\ FilesOK'
  BY <1>1, <1>3, <1>5 DEF Handle, TypeOK, FilesOK
<1>7. Shown' = Shown /\ Here' = Here /\ LineEnd' = LineEnd /\ Passed' = Passed
  BY <1>1, <1>2 DEF Shown, Block, Here, LineEnd, Passed
<1>8. CacheOK' /\ TildeOK' /\ NamesInOnePiece' /\ LineOK'
  BY <1>1, <1>2, <1>3, <1>7, TildeKept, NamesKept DEF CacheOK, LineOK, Char, LineEnd
<1>9. PlaceOK'
  BY <1>1, <1>2, <1>3, <1>7, TextSame DEF PlaceOK, Searching
<1>10. ListedOK'
  BY <1>1, <1>2, <1>3, <1>7, TextSame DEF ListedOK, Searching
<1> QED BY <1>4, <1>5, <1>6, <1>8, <1>9, <1>10 DEF IInv, Handle

LEMMA StutterKeeps == ASSUME IInv, UNCHANGED vars PROVE IInv'
<1>1. /\ fileVars' = fileVars /\ text' = text /\ pc' = pc /\ loop' = loop /\ szLine' = szLine
      /\ szExtraString' = szExtraString /\ Buffer' = Buffer /\ pPos' = pPos /\ cachePos' = cachePos
      /\ list' = list /\ files' = files /\ unread' = unread
  BY DEF vars, lineVars, cacheVars
<1>2. /\ fileSize' = fileSize /\ sectorSize' = sectorSize /\ filePos' = filePos
      /\ pbFileSector' = pbFileSector /\ dwSectorOffs' = dwSectorOffs /\ reading' = reading
      /\ bytesToRead' = bytesToRead /\ sectorPos' = sectorPos /\ fetched' = fetched
  BY <1>1 DEF fileVars, fileConst, sectorVars, readVars
<1>3. TypeOK /\ Constants /\ FilesOK /\ Handle /\ CacheOK /\ LineOK /\ TildeOK /\ NamesInOnePiece
      /\ PlaceOK /\ ListedOK
  BY IInvFacts
<1>4. TypeOK' /\ Constants' /\ FilesOK'
  BY <1>1, <1>2, <1>3, ConstantsKept DEF TypeOK, FileTypeOK, FilesOK
<1>5. SectorOK' /\ ReadOK'
  BY <1>1, <1>2, <1>3 DEF Handle, SectorOK, ReadOK, BlocksInSectors, SectorStart, SectorBytes, Total, Block
<1>6. Shown' = Shown /\ Here' = Here /\ LineEnd' = LineEnd /\ Passed' = Passed
  BY <1>1, <1>2 DEF Shown, Block, Here, LineEnd, Passed
<1>7. CacheOK' /\ TildeOK' /\ NamesInOnePiece' /\ LineOK'
  BY <1>1, <1>2, <1>3, <1>6, TildeKept, NamesKept DEF CacheOK, LineOK, Char, LineEnd
<1>8. PlaceOK' /\ ListedOK'
  BY <1>1, <1>2, <1>3, <1>6, TextSame DEF PlaceOK, ListedOK, Searching
<1> QED BY <1>4, <1>5, <1>7, <1>8 DEF IInv

LEMMA InitHolds == Init => IInv
<1> SUFFICES ASSUME Init PROVE IInv
  OBVIOUS
<1>1. /\ text \in Texts /\ sectorSize \in Sectors /\ fileSize = Len(text)
      /\ filePos = 0 /\ pbFileSector = <<>> /\ dwSectorOffs = InvalidPos
      /\ reading = FALSE /\ bytesToRead = 0 /\ sectorPos = 0 /\ fetched = <<>>
      /\ pc = "idle" /\ loop = "skip" /\ Buffer = <<>> /\ pPos = 0 /\ cachePos = 0
      /\ szLine = <<>> /\ szExtraString = NoExtra /\ list = {} /\ files = 0 /\ unread = {}
  BY DEF Init, OpenedFile
<1>2. text \in Seq(STRING) /\ sectorSize \in Nat \ {0} /\ fileSize \in Nat
  BY <1>1, TextsAssumption, SectorsAssumption
<1>3. TypeOK
  <2>1. Len(<<>>) < MaxChars /\ <<>> \in Seq(Int) /\ 0 \in 0..Len(<<>>)
    BY SizesAssumption
  <2> QED BY <1>1, <1>2, <2>1 DEF TypeOK, FileTypeOK
<1>4. Constants /\ FilesOK
  <2>1. (0 * CacheSize) % CacheSize = 0 /\ 0 * CacheSize = 0
    BY CacheSizeFacts, MultipleIs
  <2> QED BY <1>1, <2>1 DEF Constants, FilesOK
<1>5. SectorOK /\ ReadOK /\ CacheOK /\ LineOK
  BY <1>1 DEF SectorOK, ReadOK, CacheOK, LineOK
<1>6. TildeOK /\ NamesInOnePiece
  BY <1>1 DEF TildeOK, NamesInOnePiece
<1>7. PlaceOK /\ ListedOK
  BY <1>1 DEF PlaceOK, ListedOK, Searching
<1> QED BY <1>3, <1>4, <1>5, <1>6, <1>7 DEF IInv

LEMMA NextKeeps == IInv /\ [Next]_vars => IInv'
BY FindFirstFileKeeps, CacheCreatedKeeps, CacheFailsKeeps, ReloadAtEndKeeps, ReloadKeeps,
   ReloadedKeeps, ReloadFailsKeeps, SkipBlankKeeps, CopyCharKeeps, LineEndsKeeps, MatchKeeps,
   NoMoreFilesKeeps, FileStepKeeps, StutterKeeps DEF Next

LEMMA Invariant == Spec => []IInv
BY InitHolds, NextKeeps, PTL DEF Spec

-----------------------------------------------------------------------------
\* THE THEOREMS

\* The variables have their types.
THEOREM TypeCorrect == Spec => []TypeOK
<1>1. IInv => TypeOK
  BY DEF IInv
<1> QED BY <1>1, Invariant, PTL

\* The cache gives the characters of the file at its position, whichever loads
\* of sectors have failed before.
THEOREM CacheCorrect == Spec => []CacheShowsFile
<1>1. IInv => CacheShowsFile
  <2> SUFFICES ASSUME IInv, pPos < Len(Buffer), pc # "loading"
               PROVE  Buffer = Bytes(cachePos, Smaller(CacheSize, fileSize - cachePos))
    BY DEF CacheShowsFile
  <2>1. pPos # Len(Buffer)
    <3>1. Len(Buffer) \in Nat
      BY DEF IInv, TypeOK
    <3> QED BY <3>1
  <2> QED BY <2>1 DEF IInv, CacheOK, Shown, Block
<1> QED BY <1>1, Invariant, PTL

\* A name is one piece of one line of the list file, whatever could not be
\* read before or inside of it.
THEOREM OnePiece == Spec => []NamesInOnePiece
<1>1. IInv => NamesInOnePiece
  BY DEF IInv
<1> QED BY <1>1, Invariant, PTL

\* A search that could read every block lists exactly the names of the list
\* file that its mask means, wherever blocks and sectors end.
THEOREM EveryNameListed == Spec => []ListsEveryName
<1>1. ASSUME IInv, pc = "closed", unread = {}, WellFormed
      PROVE  list = {NameAt(p) : p \in {q \in LineBegins : Glob(TextOf(NameAt(q)), Mask)}}
  <2>1. list = NamesBefore(fileSize)
    BY <1>1 DEF IInv, ListedOK
  <2>2. fileSize \in Nat /\ text \in Seq(STRING) /\ fileSize = Len(text)
    BY <1>1 DEF IInv, TypeOK, FileTypeOK, Constants
  <2>3. \A q \in LineBegins : q < fileSize
    BY <2>2 DEF LineBegins
  <2>4. ASSUME NEW q \in LineBegins PROVE Chosen(q) <=> Glob(TextOf(NameAt(q)), Mask)
    <3> DEFINE n == NameLength(q)
               s == TextOf(NameAt(q))
    <3>1. q \in 0..fileSize - 1 /\ n > 0
      BY <1>1 DEF LineBegins, WellFormed
    <3>2. n \in Nat \ {0} /\ q + n <= fileSize
      <4>1. LineLength(q) \in 1..fileSize - q
        BY <2>2, <3>1, LineLengthFacts
      <4>2. n \in 0..LineLength(q)
        BY <2>2, <3>1, NameLengthFacts
      <4> HIDE DEF n
      <4> QED BY <2>2, <3>1, <4>1, <4>2
    <3>3. NameAt(q) = Bytes(q, n)
      BY DEF NameAt
    <3> HIDE DEF n
    <3>4. Len(NameAt(q)) = n /\ \A i \in 1..n : NameAt(q)[i] = q + i - 1
      <4>1. q \in Int /\ n \in Nat
        BY <2>2, <3>1, <3>2
      <4> QED BY <3>3, <4>1, BytesFacts
    <3>5. s = [i \in 1..n |-> text[NameAt(q)[i] + 1]]
      BY <3>4 DEF TextOf, Char
    <3>6. \A i \in 1..n : text[NameAt(q)[i] + 1] \in STRING
      <4> TAKE i \in 1..n
      <4>1. q + i - 1 + 1 \in 1..Len(text)
        BY <2>2, <3>1, <3>2
      <4>2. NameAt(q)[i] = q + i - 1
        BY <3>4
      <4> QED BY <2>2, <4>1, <4>2
    <3> HIDE DEF s
    <3>7. s \in Seq(STRING) /\ Len(s) = n
      BY <3>2, <3>5, <3>6
    <3>8. s # <<>>
      BY <3>2, <3>7
    <3>9. \A t \in MaskTexts : Cardinality(Places(t, s, 1)) <= 1
      BY <1>1 DEF WellFormed, s
    <3>10. CheckWildCard(s, Mask) <=> Glob(s, Mask)
      BY <3>7, <3>8, <3>9, MaskMeaning
    <3> QED BY <3>10 DEF Chosen, s
  <2>5. NamesBefore(fileSize) = {NameAt(q) : q \in {r \in LineBegins : Glob(TextOf(NameAt(r)), Mask)}}
    BY <2>3, <2>4 DEF NamesBefore
  <2> QED BY <2>1, <2>5
<1>2. IInv => ListsEveryName
  BY <1>1 DEF ListsEveryName
<1> QED BY <1>2, Invariant, PTL
=============================================================================
