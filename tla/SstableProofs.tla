---------------------------- MODULE SstableProofs ----------------------------
(***************************************************************************)
(* Proofs about one memtable and one SSTable: sorting is possible, the     *)
(* skip list is in the order of the keys, and the search of a file finds   *)
(* the newest version that it holds, for any entries, block size and bits  *)
(* of the Bloom filter.                                                    *)
(***************************************************************************)
EXTENDS Sstable, FiniteSetTheorems, SequenceTheorems, WellFoundedInduction, TLAPS

\* R orders S strictly and totally.
Orders(R, S) ==
    /\ \A a \in S : <<a, a>> \notin R
    /\ \A a, b, c \in S : <<a, b>> \in R /\ <<b, c>> \in R => <<a, c>> \in R
    /\ \A a, b \in S : a # b => <<a, b>> \in R \/ <<b, a>> \in R

\* s lists the elements of S in the order R.
Lists(s, S, R) ==
    /\ s \in [1 .. Cardinality(S) -> S]
    /\ ToSet(s) = S
    /\ \A i, j \in DOMAIN s : i < j => <<s[i], s[j]>> \in R

\* A set of numbers that is not empty has a least element.
LEMMA LeastNumber ==
    ASSUME NEW T, T \subseteq Nat, T # {}
    PROVE  \E m \in T : \A n \in T : m <= n
<1> DEFINE R == {p \in Nat \X Nat : p[1] < p[2]}
<1>1. IsWellFoundedOn(R, Nat)
  BY NatLessThanWellFounded DEF OpToRel
<1>2. PICK m \in T : \A n \in T : ~ (<<n, m>> \in R)
  <2> HIDE DEF R
  <2> QED
    BY <1>1, WFMin
<1>3. ASSUME NEW n \in T, n < m PROVE FALSE
  <2>1. <<n, m>> \in R
    BY <1>3
  <2> QED
    BY <1>2, <2>1
<1> QED
  BY <1>2, <1>3

\* Among the subsets of a finite set that have a property there is one with the
\* fewest elements.
LEMMA FewestExists ==
    ASSUME NEW S, IsFiniteSet(S), NEW F, F \subseteq SUBSET S, F # {}
    PROVE  \E T \in F : \A U \in F : Cardinality(T) <= Cardinality(U)
<1> DEFINE N == {Cardinality(T) : T \in F}
<1>1. \A T \in F : Cardinality(T) \in Nat
  BY FS_Subset, FS_CardinalityType
<1>2. N \subseteq Nat /\ N # {}
  BY <1>1
<1>3. PICK m \in N : \A n \in N : m <= n
  <2> HIDE DEF N
  <2> QED
    BY <1>2, LeastNumber
<1> QED
  BY <1>3

\* A finite set with a strict total order has a least element.
LEMMA LeastExists ==
    ASSUME NEW S, IsFiniteSet(S), NEW R, Orders(R, S), S # {}
    PROVE  \E m \in S : \A x \in S \ {m} : <<m, x>> \in R
<1> DEFINE F == {T \in SUBSET S : T # {} /\ ~ \E m \in T : \A x \in T \ {m} : <<m, x>> \in R}
<1> SUFFICES ASSUME F # {} PROVE FALSE
  OBVIOUS
<1>1. F \subseteq SUBSET S
  OBVIOUS
<1>2. PICK T \in F : \A U \in F : Cardinality(T) <= Cardinality(U)
  <2> HIDE DEF F
  <2> QED
    BY <1>1, FewestExists
<1>3. PICK a \in T : TRUE
  OBVIOUS
<1> DEFINE U == T \ {a}
<1>4. IsFiniteSet(T) /\ Cardinality(T) \in Nat
  BY FS_Subset, FS_CardinalityType
<1>5. Cardinality(U) = Cardinality(T) - 1
  BY <1>3, <1>4, FS_RemoveElement
<1>6. U \notin F
  <2> HIDE DEF F, U
  <2> QED
    BY <1>2, <1>4, <1>5
<1>7. CASE U = {}
  BY <1>3, <1>7
<1>8. CASE U # {}
  <2>1. PICK m \in U : \A x \in U \ {m} : <<m, x>> \in R
    BY <1>6, <1>8
  <2>2. CASE <<m, a>> \in R
    <3>1. \A x \in T \ {m} : <<m, x>> \in R
      BY <2>1, <2>2
    <3> QED
      BY <2>1, <3>1
  <2>3. CASE <<a, m>> \in R
    <3>1. \A x \in T \ {a} : <<a, x>> \in R
      BY <2>1, <2>3, <1>3 DEF Orders
    <3> QED
      BY <1>3, <3>1
  <2>4. m \in S /\ a \in S /\ m # a
    BY <2>1, <1>3
  <2> QED
    BY <2>2, <2>3, <2>4 DEF Orders
<1> QED
  BY <1>7, <1>8

\* The least element in front of a list of the others is a list of all.
LEMMA ListWithLeast ==
    ASSUME NEW S, IsFiniteSet(S), NEW R, NEW m \in S,
           \A x \in S \ {m} : <<m, x>> \in R,
           NEW s, Lists(s, S \ {m}, R)
    PROVE  \E t : Lists(t, S, R)
<1> DEFINE n == Cardinality(S)
           t == [i \in 1 .. n |-> IF i = 1 THEN m ELSE s[i - 1]]
<1>1. n \in Nat /\ n # 0 /\ Cardinality(S \ {m}) = n - 1
  BY FS_CardinalityType, FS_RemoveElement, FS_EmptySet
<1>2. s \in [1 .. n - 1 -> S \ {m}] /\ ToSet(s) = S \ {m}
      /\ \A i, j \in 1 .. n - 1 : i < j => <<s[i], s[j]>> \in R
  BY <1>1 DEF Lists
<1> HIDE DEF n
<1>3. \A i \in 1 .. n : i # 1 => i - 1 \in 1 .. n - 1
  BY <1>1
<1>4. \A i \in 1 .. n : i # 1 => t[i] = s[i - 1] /\ s[i - 1] \in S \ {m}
  BY <1>2, <1>3
<1>5. t[1] = m /\ 1 \in 1 .. n
  BY <1>1
<1>6. t \in [1 .. n -> S]
  BY <1>4
<1>7. ToSet(t) = S
  <2>1. \A x \in S \ {m} : \E i \in 1 .. n - 1 : x = s[i]
    BY <1>2 DEF ToSet
  <2>2. \A i \in 1 .. n - 1 : i + 1 \in 1 .. n /\ t[i + 1] = s[i]
    BY <1>1
  <2>3. ASSUME NEW x \in S PROVE \E i \in 1 .. n : x = t[i]
    <3> HIDE DEF t
    <3>1. CASE x = m
      BY <1>5, <3>1
    <3>2. CASE x # m
      <4>1. PICK i \in 1 .. n - 1 : x = s[i]
        BY <2>1, <3>2
      <4>2. i + 1 \in 1 .. n /\ x = t[i + 1]
        BY <2>2, <4>1
      <4> QED
        BY <4>2
    <3> QED
      BY <3>1, <3>2
  <2> QED
    BY <1>6, <2>3 DEF ToSet
<1>8. ASSUME NEW i \in 1 .. n, NEW j \in 1 .. n, i < j PROVE <<t[i], t[j]>> \in R
  <2>1. j # 1 /\ t[j] = s[j - 1] /\ s[j - 1] \in S \ {m}
    BY <1>1, <1>4, <1>8
  <2>2. CASE i = 1
    BY <1>5, <2>1, <2>2
  <2>3. CASE i # 1
    <3>1. i - 1 \in 1 .. n - 1 /\ j - 1 \in 1 .. n - 1 /\ i - 1 < j - 1
      BY <1>1, <1>3, <1>8, <2>1, <2>3
    <3> QED
      BY <1>2, <1>4, <2>1, <2>3, <3>1
  <2> QED
    BY <2>2, <2>3
<1> HIDE DEF t
<1>9. DOMAIN t = 1 .. n
  BY <1>6
<1>10. Lists(t, S, R)
  BY <1>6, <1>7, <1>8, <1>9 DEF Lists, n
<1> QED
  BY <1>10

\* A finite set with a strict total order can be sorted.
LEMMA ListExists ==
    ASSUME NEW S, IsFiniteSet(S), NEW R, Orders(R, S)
    PROVE  \E s : Lists(s, S, R)
<1> DEFINE F == {T \in SUBSET S : ~ \E s : Lists(s, T, R)}
<1> SUFFICES ASSUME F # {} PROVE FALSE
  OBVIOUS
<1>1. F \subseteq SUBSET S
  OBVIOUS
<1>2. PICK T \in F : \A U \in F : Cardinality(T) <= Cardinality(U)
  <2> HIDE DEF F
  <2> QED
    BY <1>1, FewestExists
<1>3. IsFiniteSet(T) /\ Cardinality(T) \in Nat /\ T \subseteq S
  BY FS_Subset, FS_CardinalityType
<1>4. CASE T = {}
  <2>1. Cardinality(T) = 0
    BY <1>4, FS_EmptySet
  <2>2. Lists(<<>>, T, R)
    BY <1>4, <2>1 DEF Lists, ToSet
  <2> QED
    BY <2>2
<1>5. CASE T # {}
  <2>1. Orders(R, T)
    BY <1>3 DEF Orders
  <2>2. PICK m \in T : \A x \in T \ {m} : <<m, x>> \in R
    BY <1>3, <1>5, <2>1, LeastExists
  <2>3. Cardinality(T \ {m}) = Cardinality(T) - 1
    BY <1>3, FS_RemoveElement
  <2>4. T \ {m} \notin F
    BY <1>2, <1>3, <2>3
  <2>5. PICK s : Lists(s, T \ {m}, R)
    BY <1>3, <2>4
  <2> HIDE DEF F
  <2>6. \E t : Lists(t, T, R)
    BY <1>3, <2>2, <2>5, ListWithLeast
  <2> QED
    BY <2>6 DEF F
<1> QED
  BY <1>4, <1>5

\* Ordered lists a finite set in its order.
LEMMA OrderedFact ==
    ASSUME NEW S, IsFiniteSet(S), NEW R, Orders(R, S)
    PROVE  Lists(Ordered(S, R), S, R)
<1>1. PICK s : Lists(s, S, R)
  BY ListExists
<1> QED
  BY <1>1 DEF Lists, Ordered
-----------------------------------------------------------------------------
(* The order of the keys, and a memtable. *)

\* S is a set of entries, each with its own LSN.
Unique(S) == S \subseteq Entry /\ \A a, b \in S : a.lsn = b.lsn => a = b

\* Keys and LSNs are numbers.
LEMMA EntryType ==
    ASSUME NEW e \in Entry
    PROVE  e.key \in Nat \ {0} /\ e.lsn \in Nat
BY SstableAssumption DEF Entry

\* The order of the keys is a strict one.
LEMMA BeforeFact ==
    ASSUME NEW a \in Entry, NEW b \in Entry, NEW c \in Entry
    PROVE  /\ ~ Before(a, a)
           /\ ~ (Before(a, b) /\ Before(b, a))
           /\ Before(a, b) /\ Before(b, c) => Before(a, c)
           /\ NotAfter(a, b) /\ Before(b, c) => Before(a, c)
           /\ Before(a, b) /\ NotAfter(b, c) => Before(a, c)
           /\ NotAfter(a, b) /\ NotAfter(b, c) => NotAfter(a, c)
<1>1. \A e \in {a, b, c} : e.key \in Nat /\ e.lsn \in Nat
  BY SstableAssumption DEF Entry
<1> QED
  BY <1>1 DEF Before, NotAfter

\* It is total on entries with different LSNs.
LEMMA BeforeTotal ==
    ASSUME NEW S, Unique(S), NEW a \in S, NEW b \in S, a # b
    PROVE  Before(a, b) \/ Before(b, a)
<1>1. a.key \in Nat /\ a.lsn \in Nat /\ b.key \in Nat /\ b.lsn \in Nat /\ a.lsn # b.lsn
  BY SstableAssumption DEF Unique, Entry
<1> QED
  BY <1>1 DEF Before

\* The order of the keys as a set of pairs.
LEMMA BeforeOrders ==
    ASSUME NEW S, Unique(S)
    PROVE  Orders({p \in S \X S : Before(p[1], p[2])}, S)
<1> DEFINE R == {p \in S \X S : Before(p[1], p[2])}
<1>1. \A a, b \in S : <<a, b>> \in R <=> Before(a, b)
  OBVIOUS
<1> HIDE DEF R
<1>2. \A a \in S : a \in Entry
  BY DEF Unique
<1>3. \A a \in S : <<a, a>> \notin R
  BY <1>1, <1>2, BeforeFact
<1>4. \A a, b, c \in S : <<a, b>> \in R /\ <<b, c>> \in R => <<a, c>> \in R
  BY <1>1, <1>2, BeforeFact
<1>5. \A a, b \in S : a # b => <<a, b>> \in R \/ <<b, a>> \in R
  BY <1>1, BeforeTotal
<1>6. Orders(R, S)
  BY <1>3, <1>4, <1>5 DEF Orders
<1> QED
  BY <1>6 DEF R

\* The skip list of a memtable is a sorted sequence of its entries.
LEMMA InOrderFact ==
    ASSUME NEW S, IsFiniteSet(S), Unique(S)
    PROVE  /\ InOrder(S) \in Seq(Entry)
           /\ ToSet(InOrder(S)) = S
           /\ Sorted(InOrder(S))
           /\ Len(InOrder(S)) = Cardinality(S)
<1> DEFINE R == {p \in S \X S : Before(p[1], p[2])}
           s == InOrder(S)
<1>1. Lists(s, S, R)
  BY BeforeOrders, OrderedFact DEF InOrder
<1>2. \A a, b \in S : <<a, b>> \in R => Before(a, b)
  OBVIOUS
<1> HIDE DEF R, s
<1>3. Cardinality(S) \in Nat /\ S \subseteq Entry
  BY FS_CardinalityType DEF Unique
<1>4. /\ s \in [1 .. Cardinality(S) -> S] /\ ToSet(s) = S
      /\ \A i, j \in DOMAIN s : i < j => <<s[i], s[j]>> \in R
  BY <1>1 DEF Lists
<1>5. s \in Seq(Entry) /\ Len(s) = Cardinality(S)
  BY <1>3, <1>4
<1>6. Sorted(s)
  BY <1>2, <1>4 DEF Sorted
<1> QED
  BY <1>4, <1>5, <1>6 DEF s

\* Of the versions that a finite set has of a key one is the newest, and it comes first.
LEMMA NewestExists ==
    ASSUME NEW S, IsFiniteSet(S), Unique(S), NEW k, \E e \in S : e.key = k
    PROVE  \E e \in S : /\ e.key = k
                        /\ \A f \in S : f.key = k => f.lsn <= e.lsn /\ NotAfter(e, f)
<1> DEFINE T == {e \in S : e.key = k}
           R == {p \in T \X T : Before(p[1], p[2])}
<1>1. IsFiniteSet(T) /\ Unique(T) /\ T # {}
  BY FS_Subset DEF Unique
<1>2. Orders(R, T)
  BY <1>1, BeforeOrders
<1>3. \A a, b \in T : <<a, b>> \in R => Before(a, b)
  OBVIOUS
<1>4. \A a \in T : a.key = k /\ a \in S /\ a.lsn \in Nat /\ a.key \in Nat
  BY SstableAssumption DEF Unique, Entry
<1>5. \A a \in S : a.key = k => a \in T
  OBVIOUS
<1> HIDE DEF T, R
<1>6. PICK m \in T : \A x \in T \ {m} : <<m, x>> \in R
  BY <1>1, <1>2, LeastExists
<1>7. ASSUME NEW f \in T PROVE f.lsn <= m.lsn /\ NotAfter(m, f)
  <2>1. CASE f = m
    BY <1>4, <2>1 DEF NotAfter
  <2>2. CASE f # m
    <3>1. Before(m, f)
      BY <1>3, <1>6, <2>2
    <3>2. f.lsn <= m.lsn
      BY <1>4, <3>1 DEF Before
    <3> QED
      BY <3>1, <3>2 DEF NotAfter
  <2> QED
    BY <2>1, <2>2
<1> QED
  BY <1>4, <1>5, <1>6, <1>7

\* e is the newest version of k in S.
IsNewest(e, S, k) == e \in S /\ e.key = k /\ \A f \in S : f.key = k => f.lsn <= e.lsn

\* There is one newest version.
LEMMA NewestFact ==
    ASSUME NEW S, Unique(S), NEW k, NEW e, IsNewest(e, S, k)
    PROVE  Newest(S, k) = e
<1>1. ASSUME NEW f \in S, f.key = k, \A g \in {h \in S : h.key = k} : g.lsn <= f.lsn PROVE f = e
  <2>1. f.lsn <= e.lsn /\ e.lsn <= f.lsn /\ e \in S
    BY <1>1 DEF IsNewest
  <2>2. f.lsn \in Nat /\ e.lsn \in Nat
    BY <1>1, <2>1 DEF Unique, Entry
  <2>3. f.lsn = e.lsn
    BY <2>1, <2>2
  <2> QED
    BY <1>1, <2>1, <2>3 DEF Unique
<1>2. \E f \in {h \in S : h.key = k} : \A g \in {h \in S : h.key = k} : g.lsn <= f.lsn
  BY DEF IsNewest
<1> QED
  BY <1>1, <1>2, Zenon DEF Newest

\* A memtable answers with its newest version of a key, but for a tombstone.
LEMMA MemGetFact ==
    ASSUME NEW S, IsFiniteSet(S), Unique(S), NEW k \in Keys
    PROVE  \/ MemGet(S, k) = NoEntry /\ \A e \in S : e.key # k
           \/ MemGet(S, k) = NoEntry /\ \E e \in S : IsNewest(e, S, k) /\ e.del
           \/ IsNewest(MemGet(S, k), S, k) /\ ~ MemGet(S, k).del
<1>1. CASE \A e \in S : e.key # k
  BY <1>1 DEF MemGet
<1>2. CASE \E e \in S : e.key = k
  <2> DEFINE first == CHOOSE e \in S : e.key = k /\ \A f \in S : f.key = k => NotAfter(e, f)
  <2>1. \E e \in S : e.key = k /\ \A f \in S : f.key = k => NotAfter(e, f)
    BY <1>2, NewestExists
  <2>2. first \in S /\ first.key = k /\ \A f \in S : f.key = k => NotAfter(first, f)
    BY <2>1
  <2>3. MemGet(S, k) = IF first.del THEN NoEntry ELSE first
    BY <1>2 DEF MemGet
  <2> HIDE DEF first
  <2>4. IsNewest(first, S, k)
    <3>1. \A f \in S : f.lsn \in Nat /\ f.key \in Nat
      BY SstableAssumption DEF Unique, Entry
    <3>2. \A f \in S : f.key = k => f.lsn <= first.lsn
      BY <2>2, <3>1 DEF NotAfter, Before
    <3> QED
      BY <2>2, <3>2 DEF IsNewest
  <2> QED
    BY <2>2, <2>3, <2>4
<1> QED
  BY <1>1, <1>2
-----------------------------------------------------------------------------
(* The search of a file. *)

\* Division by a positive number.
LEMMA DivFact ==
    ASSUME NEW n \in Nat, NEW B \in Nat \ {0}
    PROVE  n \div B \in Nat /\ (n \div B) * B <= n /\ n < (n \div B) * B + B
OBVIOUS

\* Multiplication is monotone.
LEMMA TimesFact ==
    ASSUME NEW a \in Nat, NEW b \in Nat, NEW B \in Nat \ {0}
    PROVE  /\ a * B \in Nat /\ (a + 1) * B = a * B + B
           /\ a <= b => a * B <= b * B
           /\ a * B < b * B => a < b
OBVIOUS

\* The least element of a set of numbers.
LEMMA MinFact ==
    ASSUME NEW T, T \subseteq Nat, T # {}
    PROVE  Min(T) \in T /\ \A n \in T : Min(T) <= n
BY LeastNumber DEF Min

\* The place of a block's first and last entry.
BlockStart(b) == (b - 1) * BlockSize + 1
BlockEnd(s, b) == Min({b * BlockSize, Len(s)})

\* A block has a first and a last entry, which are entries of the file.
LEMMA BlockFact ==
    ASSUME NEW s \in Seq(Entry), NEW b \in Blocks(s)
    PROVE  /\ b \in Nat \ {0}
           /\ BlockStart(b) \in 1 .. Len(s) /\ BlockEnd(s, b) \in 1 .. Len(s) /\ BlockStart(b) <= BlockEnd(s, b)
           /\ BlockEnd(s, b) <= b * BlockSize /\ b * BlockSize \in Nat
           /\ BlockStart(b) + BlockSize = b * BlockSize + 1
           /\ b * BlockSize <= Len(s) => BlockEnd(s, b) = b * BlockSize
           /\ b * BlockSize >= Len(s) => BlockEnd(s, b) = Len(s)
<1> DEFINE n == Len(s)
           B == BlockSize
           q == (n + B - 1) \div B
<1>1. n \in Nat /\ B \in Nat \ {0} /\ n + B - 1 \in Nat
  BY SstableAssumption
<1>2. q \in Nat /\ q * B <= n + B - 1
  BY <1>1, DivFact
<1>3. b \in 1 .. q
  BY DEF Blocks
<1> HIDE DEF n, B, q
<1>4. b \in Nat \ {0} /\ b - 1 \in Nat /\ (b - 1) + 1 = b /\ b <= q /\ b \in Nat
  BY <1>2, <1>3
<1>5. (b - 1) * B \in Nat /\ b * B = (b - 1) * B + B /\ b * B <= q * B /\ b * B \in Nat
  <2>1. ((b - 1) + 1) * B = (b - 1) * B + B /\ (b - 1) * B \in Nat /\ b * B \in Nat
    BY <1>1, <1>4, TimesFact
  <2>2. b * B <= q * B
    BY <1>1, <1>2, <1>4, TimesFact
  <2> QED
    BY <1>4, <2>1, <2>2
<1>6. q * B \in Nat
  BY <1>1, <1>2, TimesFact
<1>7. BlockStart(b) = (b - 1) * B + 1
  BY DEF BlockStart, B
<1>8. BlockStart(b) \in 1 .. n /\ BlockStart(b) <= b * B /\ BlockStart(b) + B = b * B + 1
  BY <1>1, <1>2, <1>5, <1>6, <1>7
<1>9. /\ BlockEnd(s, b) \in {b * B, n} /\ BlockEnd(s, b) <= b * B /\ BlockEnd(s, b) <= n
  <2>1. {b * B, n} \subseteq Nat
    BY <1>1, <1>5
  <2> QED
    BY <2>1, MinFact DEF BlockEnd, B, n
<1>10. /\ BlockEnd(s, b) \in 1 .. n /\ BlockStart(b) <= BlockEnd(s, b)
       /\ b * B <= n => BlockEnd(s, b) = b * B
       /\ b * B >= n => BlockEnd(s, b) = n
  BY <1>1, <1>5, <1>8, <1>9
<1> QED
  BY <1>4, <1>5, <1>8, <1>9, <1>10 DEF B, n

\* Every entry of a file is in a block.
LEMMA InBlock ==
    ASSUME NEW s \in Seq(Entry), NEW m \in 1 .. Len(s)
    PROVE  \E b \in Blocks(s) : BlockStart(b) <= m /\ m <= b * BlockSize
<1> DEFINE n == Len(s)
           B == BlockSize
           q == (n + B - 1) \div B
           c == (m - 1) \div B
<1>1. n \in Nat /\ B \in Nat \ {0} /\ n + B - 1 \in Nat /\ m - 1 \in Nat /\ m <= n /\ m \in Nat
  BY SstableAssumption
<1>2. q \in Nat /\ n + B - 1 < q * B + B
  BY <1>1, DivFact
<1>3. c \in Nat /\ c * B <= m - 1 /\ m - 1 < c * B + B
  BY <1>1, DivFact
<1> HIDE DEF n, B, q, c
<1>4. c * B \in Nat /\ (c + 1) * B = c * B + B /\ q * B \in Nat
  BY <1>1, <1>2, <1>3, TimesFact
<1>5. c * B < q * B
  BY <1>1, <1>2, <1>3, <1>4
<1>6. c < q
  BY <1>1, <1>2, <1>3, <1>5, TimesFact
<1>7. c + 1 \in 1 .. q /\ (c + 1) - 1 = c
  BY <1>2, <1>3, <1>6
<1>8. c + 1 \in Blocks(s)
  BY <1>7 DEF Blocks, q, n, B
<1>9. BlockStart(c + 1) = c * B + 1
  BY <1>7 DEF BlockStart, B
<1>10. BlockStart(c + 1) <= m /\ m <= (c + 1) * B
  BY <1>1, <1>3, <1>4, <1>9
<1> QED
  BY <1>8, <1>10 DEF B

\* The scan of a block answers with a version of the key, or with nothing.
LEMMA ScanFact ==
    ASSUME NEW s \in Seq(Entry), NEW b \in Blocks(s), NEW k \in Keys
    PROVE  \/ SearchBlock(s, b, k) = NoEntry
           \/ \E i \in 1 .. Len(s) : SearchBlock(s, b, k) = s[i] /\ s[i].key = k
<1> DEFINE stop == {i \in BlockOf(s, b) : s[i].key >= k}
<1>1. BlockOf(s, b) \subseteq 1 .. Len(s)
  BY BlockFact DEF BlockOf, BlockStart, BlockEnd
<1>2. CASE stop # {}
  <2>1. stop \subseteq Nat
    BY <1>1
  <2>2. Min(stop) \in stop
    BY <1>2, <2>1, MinFact
  <2>3. Min(stop) \in 1 .. Len(s)
    BY <1>1, <2>2
  <2> QED
    BY <2>3, Zenon DEF SearchBlock
<1>3. CASE stop = {}
  BY <1>3 DEF SearchBlock
<1> QED
  BY <1>2, <1>3

\* The blocks from which a search takes the first.
Reached(s, k) == {b \in Blocks(s) : ~ (BlockMax(s, b).key < k)}

\* If a sorted file has a version of a key, the search answers with the first.
LEMMA SearchHits ==
    ASSUME NEW s \in Seq(Entry), Sorted(s), NEW k \in Keys, NEW m \in 1 .. Len(s),
           s[m].key = k, \A i \in 1 .. Len(s) : s[i].key = k => m <= i
    PROVE  Search(s, k) = s[m]
<1>1. \A i \in 1 .. Len(s) : s[i] \in Entry /\ s[i].key \in Nat
  <2>1. \A i \in 1 .. Len(s) : s[i] \in Entry
    OBVIOUS
  <2> QED
    BY <2>1, EntryType
<1>2. DOMAIN s = 1 .. Len(s) /\ k \in Nat /\ m \in Nat /\ Len(s) \in Nat
  BY SstableAssumption
<1>3. \A i, j \in 1 .. Len(s) : i <= j => s[i].key <= s[j].key
  <2>1. SUFFICES ASSUME NEW i \in 1 .. Len(s), NEW j \in 1 .. Len(s), i <= j
                 PROVE  s[i].key <= s[j].key
    OBVIOUS
  <2>2. CASE i = j
    BY <1>1, <2>2
  <2>3. CASE i < j
    <3>1. Before(s[i], s[j])
      BY <1>2, <2>3 DEF Sorted
    <3> QED
      BY <1>1, <3>1 DEF Before
  <2> QED
    BY <2>1, <2>2, <2>3
<1>4. \A i \in 1 .. Len(s) : i < m => s[i].key < k
  BY <1>1, <1>2, <1>3
<1>5. PICK b \in Blocks(s) : BlockStart(b) <= m /\ m <= b * BlockSize
  BY InBlock
<1>6. BlockMin(s, b) = s[BlockStart(b)] /\ BlockMax(s, b) = s[BlockEnd(s, b)]
  BY DEF BlockMin, BlockMax, BlockStart, BlockEnd
<1>7. BlockStart(b) \in 1 .. Len(s) /\ BlockEnd(s, b) \in 1 .. Len(s) /\ m <= BlockEnd(s, b)
  BY <1>2, <1>5, BlockFact
<1>8. b \in Reached(s, k)
  BY <1>1, <1>2, <1>3, <1>6, <1>7 DEF Reached
<1>9. ASSUME NEW c \in Reached(s, k), c < b PROVE FALSE
  <2>1. c \in Blocks(s) /\ c \in Nat \ {0} /\ b \in Nat \ {0}
    BY <1>9, BlockFact DEF Reached
  <2>2. BlockMax(s, c) = s[BlockEnd(s, c)] /\ ~ (BlockMax(s, c).key < k)
    BY <1>9 DEF BlockMax, BlockEnd, Reached
  <2>3. BlockEnd(s, c) \in 1 .. Len(s) /\ BlockEnd(s, c) <= c * BlockSize /\ c * BlockSize \in Nat
    BY <2>1, BlockFact
  <2>4. BlockStart(b) = (b - 1) * BlockSize + 1 /\ c <= b - 1 /\ b - 1 \in Nat
    BY <1>9, <2>1 DEF BlockStart
  <2>5. c * BlockSize <= (b - 1) * BlockSize /\ (b - 1) * BlockSize \in Nat
    BY <2>1, <2>4, TimesFact, SstableAssumption
  <2>6. BlockEnd(s, c) < m
    BY <1>2, <1>5, <2>3, <2>4, <2>5
  <2> QED
    BY <1>4, <2>2, <2>3, <2>6
<1>10. Min(Reached(s, k)) = b
  <2>1. Reached(s, k) \subseteq Nat
    BY BlockFact DEF Reached
  <2>2. Min(Reached(s, k)) \in Reached(s, k) /\ Min(Reached(s, k)) <= b
    BY <1>8, <2>1, MinFact
  <2>3. b \in Nat /\ Min(Reached(s, k)) \in Nat
    BY <1>8, <2>1, <2>2
  <2> QED
    BY <1>9, <2>2, <2>3
<1>11. BloomCheck(s, k)
  BY <1>2 DEF BloomCheck
<1>12. ~ (BlockMin(s, b).key > k)
  BY <1>1, <1>2, <1>3, <1>5, <1>6, <1>7
<1>13. Search(s, k) = SearchBlock(s, b, k)
  BY <1>8, <1>10, <1>11, <1>12 DEF Search, Reached
<1> DEFINE stop == {i \in BlockOf(s, b) : s[i].key >= k}
<1>14. BlockOf(s, b) = BlockStart(b) .. BlockEnd(s, b)
  BY DEF BlockOf, BlockStart, BlockEnd
<1>15. m \in stop /\ \A i \in stop : m <= i
  BY <1>1, <1>2, <1>4, <1>5, <1>7, <1>14
<1>16. stop \subseteq Nat
  BY <1>2, <1>7, <1>14
<1>17. Min(stop) = m
  <2> HIDE DEF stop
  <2>1. Min(stop) \in stop /\ Min(stop) <= m
    BY <1>15, <1>16, MinFact
  <2>2. Min(stop) \in Nat /\ m <= Min(stop)
    BY <1>15, <1>16, <2>1
  <2> QED
    BY <1>2, <2>1, <2>2
<1>18. SearchBlock(s, b, k) = s[m]
  BY <1>15, <1>17, Zenon DEF SearchBlock
<1> QED
  BY <1>13, <1>18

\* A search of a sorted file finds the newest version that the file holds of a key.
LEMMA SearchFact ==
    ASSUME NEW s \in Seq(Entry), Sorted(s), Unique(ToSet(s)), NEW k \in Keys
    PROVE  Search(s, k) = Newest(ToSet(s), k)
<1> DEFINE V == {i \in 1 .. Len(s) : s[i].key = k}
<1>1. DOMAIN s = 1 .. Len(s) /\ \A i \in 1 .. Len(s) : s[i] \in Entry
  OBVIOUS
<1>2. CASE V = {}
  <2>1. \A i \in 1 .. Len(s) : s[i].key # k
    BY <1>2
  <2>2. Newest(ToSet(s), k) = NoEntry
    BY <1>1, <2>1 DEF Newest, ToSet
  <2>3. CASE Reached(s, k) = {}
    BY <2>2, <2>3 DEF Search, Reached
  <2>4. CASE Reached(s, k) # {}
    <3>1. Min(Reached(s, k)) \in Blocks(s)
      <4>1. Reached(s, k) \subseteq Nat
        BY BlockFact DEF Reached
      <4> QED
        BY <2>4, <4>1, MinFact DEF Reached
    <3>2. SearchBlock(s, Min(Reached(s, k)), k) = NoEntry
      BY <2>1, <3>1, ScanFact
    <3> QED
      BY <2>2, <3>2 DEF Search, Reached
  <2> QED
    BY <2>3, <2>4
<1>3. CASE V # {}
  <2>1. V \subseteq Nat
    OBVIOUS
  <2>2. PICK m \in V : \A n \in V : m <= n
    BY <1>3, <2>1, LeastNumber
  <2>3. m \in 1 .. Len(s) /\ s[m].key = k /\ \A i \in 1 .. Len(s) : s[i].key = k => m <= i
    BY <2>2
  <2>4. Search(s, k) = s[m]
    BY <2>3, SearchHits
  <2>5. ASSUME NEW i \in 1 .. Len(s), s[i].key = k PROVE s[i].lsn <= s[m].lsn
    <3>1. s[i].lsn \in Nat /\ s[m].lsn \in Nat /\ s[m].key \in Nat /\ s[i].key \in Nat
      BY <1>1, <2>3, EntryType
    <3>2. CASE i = m
      BY <3>1, <3>2
    <3>3. CASE i # m
      <4>1. m < i
        BY <2>3, <2>5, <3>3
      <4>2. Before(s[m], s[i])
        BY <1>1, <2>3, <4>1 DEF Sorted
      <4> QED
        BY <2>3, <2>5, <3>1, <4>2 DEF Before
    <3> QED
      BY <3>2, <3>3
  <2>6. IsNewest(s[m], ToSet(s), k)
    BY <1>1, <2>3, <2>5 DEF IsNewest, ToSet
  <2> QED
    BY <2>4, <2>6, NewestFact
<1> QED
  BY <1>2, <1>3
-----------------------------------------------------------------------------
(* Sorted sequences. *)

\* The elements of a sequence with one more at its end.
LEMMA ToSetFact ==
    ASSUME NEW T, NEW s \in Seq(T)
    PROVE  /\ ToSet(<<>>) = {}
           /\ ToSet(s) \subseteq T
           /\ s # <<>> => ToSet(s) # {}
           /\ \A e \in T : ToSet(Append(s, e)) = ToSet(s) \cup {e}
           /\ \A e : ToSet(<<e>>) = {e}
<1>1. ToSet(<<>>) = {} /\ ToSet(s) \subseteq T /\ \A e : ToSet(<<e>>) = {e}
  BY DEF ToSet
<1>2. s # <<>> => ToSet(s) # {}
  <2> SUFFICES ASSUME s # <<>> PROVE ToSet(s) # {}
    OBVIOUS
  <2>1. 1 \in DOMAIN s
    BY EmptySeq, LenProperties
  <2> QED
    BY <2>1 DEF ToSet
<1>3. ASSUME NEW e \in T PROVE ToSet(Append(s, e)) = ToSet(s) \cup {e}
  <2> DEFINE t == Append(s, e)
             n == Len(s)
  <2>1. /\ n \in Nat /\ DOMAIN s = 1 .. n /\ DOMAIN t = 1 .. n + 1
        /\ \A i \in 1 .. n : t[i] = s[i]
        /\ t[n + 1] = e
    BY AppendProperties
  <2> HIDE DEF t, n
  <2>2. \A i \in 1 .. n + 1 : i \in 1 .. n \/ i = n + 1
    BY <2>1
  <2>3. n + 1 \in 1 .. n + 1 /\ \A i \in 1 .. n : i \in 1 .. n + 1
    BY <2>1
  <2>4. \A x : (\E i \in 1 .. n + 1 : x = t[i]) <=> ((\E i \in 1 .. n : x = s[i]) \/ x = e)
    BY <2>1, <2>2, <2>3
  <2>5. ToSet(t) = ToSet(s) \cup {e}
    BY <2>1, <2>4 DEF ToSet
  <2> QED
    BY <2>5 DEF t
<1> QED
  BY <1>1, <1>2, <1>3

\* A sorted file stays sorted when a later entry is appended.
LEMMA SortedAppend ==
    ASSUME NEW s \in Seq(Entry), Sorted(s), NEW e \in Entry, \A a \in ToSet(s) : Before(a, e)
    PROVE  Append(s, e) \in Seq(Entry) /\ Sorted(Append(s, e))
<1> DEFINE t == Append(s, e)
           n == Len(s)
<1>1. /\ n \in Nat /\ DOMAIN s = 1 .. n /\ DOMAIN t = 1 .. n + 1
      /\ \A i \in 1 .. n : t[i] = s[i]
      /\ t[n + 1] = e /\ t \in Seq(Entry)
  BY AppendProperties
<1> HIDE DEF t, n
<1>2. \A i \in 1 .. n : Before(t[i], e)
  BY <1>1 DEF ToSet
<1>3. \A i, j \in 1 .. n + 1 : i < j => i \in 1 .. n /\ (j \in 1 .. n \/ j = n + 1)
  BY <1>1
<1>4. \A i, j \in 1 .. n : i < j => Before(t[i], t[j])
  BY <1>1 DEF Sorted
<1>5. Sorted(t)
  BY <1>1, <1>2, <1>3, <1>4 DEF Sorted
<1> QED
  BY <1>1, <1>5 DEF t

\* The head of a sorted file precedes its tail, which is sorted.
LEMMA SortedTail ==
    ASSUME NEW s \in Seq(Entry), Sorted(s), s # <<>>
    PROVE  /\ Head(s) \in Entry /\ Tail(s) \in Seq(Entry) /\ Sorted(Tail(s))
           /\ ToSet(s) = {Head(s)} \cup ToSet(Tail(s))
           /\ \A b \in ToSet(Tail(s)) : Before(Head(s), b)
<1> DEFINE t == Tail(s)
           n == Len(s)
<1>1. /\ n \in Nat \ {0} /\ DOMAIN s = 1 .. n /\ DOMAIN t = 1 .. n - 1 /\ t \in Seq(Entry)
      /\ \A i \in 1 .. n - 1 : t[i] = s[i + 1]
      /\ Head(s) = s[1] /\ Head(s) \in Entry
  BY EmptySeq, HeadTailProperties
<1> HIDE DEF t, n
<1>2. /\ \A i \in 1 .. n - 1 : i + 1 \in 1 .. n /\ 1 < i + 1
      /\ \A i, j \in 1 .. n - 1 : i < j => i + 1 < j + 1
      /\ \A i \in 1 .. n : i = 1 \/ (i - 1 \in 1 .. n - 1 /\ (i - 1) + 1 = i)
      /\ 1 \in 1 .. n
  BY <1>1
<1>3. \A i, j \in 1 .. n : i < j => Before(s[i], s[j])
  BY <1>1 DEF Sorted
<1>4. Sorted(t)
  BY <1>1, <1>2, <1>3 DEF Sorted
<1>5. \A b \in ToSet(t) : Before(s[1], b)
  BY <1>1, <1>2, <1>3 DEF ToSet
<1>6. ToSet(s) = {s[1]} \cup ToSet(t)
  <2>1. \A i \in 1 .. n : s[i] = s[1] \/ \E j \in 1 .. n - 1 : s[i] = t[j]
    BY <1>1, <1>2
  <2>2. \A j \in 1 .. n - 1 : \E i \in 1 .. n : t[j] = s[i]
    BY <1>1, <1>2
  <2>3. \A x : (\E i \in 1 .. n : x = s[i]) <=> (x = s[1] \/ \E j \in 1 .. n - 1 : x = t[j])
    BY <1>2, <2>1, <2>2
  <2>4. \A x : x \in ToSet(s) <=> (x = s[1] \/ x \in ToSet(t))
    <3>1. \A x : x \in ToSet(s) <=> \E i \in 1 .. n : x = s[i]
      BY <1>1 DEF ToSet
    <3>2. \A x : x \in ToSet(t) <=> \E i \in 1 .. n - 1 : x = t[i]
      BY <1>1 DEF ToSet
    <3> QED
      BY <2>3, <3>1, <3>2
  <2> QED
    BY <2>4
<1> QED
  BY <1>1, <1>4, <1>5, <1>6 DEF t

\* The first and the last entry of a file bound the others.
LEMMA SortedEnds ==
    ASSUME NEW s \in Seq(Entry), Sorted(s), s # <<>>
    PROVE  /\ MinKey(s) \in ToSet(s) /\ MaxKey(s) \in ToSet(s)
           /\ \A a \in ToSet(s) : NotAfter(MinKey(s), a) /\ NotAfter(a, MaxKey(s))
<1> DEFINE n == Len(s)
<1>1. n \in Nat \ {0} /\ DOMAIN s = 1 .. n
  BY EmptySeq
<1> HIDE DEF n
<1>2. 1 \in 1 .. n /\ n \in 1 .. n /\ \A i \in 1 .. n : (i = 1 \/ 1 < i) /\ (i = n \/ i < n)
  BY <1>1
<1>3. \A i, j \in 1 .. n : i < j => Before(s[i], s[j])
  BY <1>1 DEF Sorted
<1>4. MinKey(s) = s[1] /\ MaxKey(s) = s[n]
  BY DEF MinKey, MaxKey, n
<1> QED
  BY <1>1, <1>2, <1>3, <1>4 DEF ToSet, NotAfter
=============================================================================
