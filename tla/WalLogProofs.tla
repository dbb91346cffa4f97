---------------------------- MODULE WalLogProofs ----------------------------
(***************************************************************************)
(* Proofs about a WAL over the lives of the process, for any number of     *)
(* writes, rotations and restarts, any size of the groups, and with or     *)
(* without I/O errors.                                                     *)
(***************************************************************************)
EXTENDS WalLog, SequenceTheorems, FiniteSetTheorems, TLAPS

\* The first n pieces of s are the two of each entry in turn.
Alternates(s, n) ==
    \A j \in 1 .. n : /\ 2 * j - 1 <= n => s[2 * j - 1][2] = 1
                      /\ 2 * j <= n => s[2 * j] = <<s[2 * j - 1][1], 2>>

Even(s) == \E m \in Nat : Len(s) = 2 * m

\* A tear at t: the first piece of an entry, and another first piece behind it.
Torn(f, t) ==
    /\ t < Len(f) /\ Alternates(f, t) /\ f[t + 1][2] = 1
    /\ \E m \in Nat : t = 2 * m + 1

\* The BufWriter has kept the rest of the entry whose first piece ends the file.
Owner(z) == z # <<>> /\ z[1][2] = 2

\* What a BufWriter has kept: that rest and whole entries, or whole entries alone.
Fits(f, z) ==
    z # <<>> =>
      \/ Owner(z) /\ Alternates(f \o z, Len(f \o z)) /\ Even(f \o z)
      \/ ~ Owner(z) /\ Alternates(z, Len(z)) /\ Even(z)

\* The LSNs in the order of the pieces, behind each whole entry.
Ordered(s, n, l) == \A i, j \in 1 .. n : i < j /\ s[i][2] = 2 => l[s[i][1]] < l[s[j][1]]
Below(s, n, l, next) == \A i \in 1 .. n : s[i][2] = 2 => l[s[i][1]] < next

\* The states of the start.
LifeInv ==
    /\ process # "Up" => buffer = <<>> /\ old = {} /\ group = {}
    /\ process = "Up" => mf = "whole" /\ magic = "whole"
    /\ process \in {"Create", "Persist"} => mf = "none"
    /\ process = "Create" => magic # "part"
    /\ mf # "whole" => file = <<>>
    /\ process = "Persist" \/ mf # "none" => magic = "whole"
    /\ magic = "part" \/ mf = "part" => cutStart

\* LSNs start again lower than the number of the writes, never higher.
LsnBound == \A w \in DOMAIN lsn : lsn[w] <= w

\* The pieces are of known writes.
PieceInv ==
    /\ \A i \in 1 .. Len(file) : file[i][1] \in DOMAIN lsn
    /\ \A z \in old \cup {buffer} : \A i \in 1 .. Len(z) : z[i][1] \in DOMAIN lsn

\* The file is whole entries up to its end or to its first tear.
FileInv ==
    /\ tear = 0 => Alternates(file, Len(file))
    /\ tear # 0 => Torn(file, tear)

\* As long as nothing is torn, every handle can go on where it stopped, and only one has
\* the rest of an entry.
PendInv ==
    tear = 0 =>
      /\ \A z \in old \cup {buffer} : Fits(file, z)
      /\ Owner(buffer) => \A b \in old : ~ Owner(b)
      /\ \A b, c \in old : Owner(b) /\ Owner(c) => b = c

\* The file is in the order of the LSNs up to a tear and to where a replaced handle wrote.
OrderInv ==
    \A n \in 0 .. Len(file) :
      (tear = 0 \/ n <= tear) /\ (late = 0 \/ n < late) =>
        /\ Ordered(file, n, lsn)
        /\ late = 0 /\ process = "Up" => Below(file, n, lsn, nextLsn)

\* What has been handed to the operating system, and what db.current has still to write.
Stream == file \o buffer

StreamInv ==
    tear = 0 /\ late = 0 =>
      /\ Ordered(Stream, Len(Stream), lsn)
      /\ process = "Up" => Below(Stream, Len(Stream), lsn, nextLsn)

\* What is acknowledged is synced, and a group on its way is in the file or the buffer.
SyncInv ==
    /\ \A w \in acked : \E i \in 1 .. synced : file[i] = <<w, 2>>
    /\ \A w \in group : \/ \E i \in 1 .. Len(file) : file[i] = <<w, 2>>
                        \/ \E i \in 1 .. Len(buffer) : buffer[i] = <<w, 2>>

Inv ==
    /\ TypeOK /\ LifeInv /\ LsnBound /\ PieceInv /\ FileInv /\ PendInv
    /\ OrderInv /\ StreamInv /\ SyncInv /\ RefusedOnlyIfTorn
-----------------------------------------------------------------------------
(* Sequences. *)

LEMMA HalfFact ==
    /\ \A n \in Nat : \E k \in Nat : n = 2 * k \/ n = 2 * k + 1
    /\ \A i, n \in Nat : i <= n \div 2 <=> 2 * i <= n
    /\ \A n \in Nat : n \div 2 \in Nat
<1>1. ASSUME NEW n \in Nat PROVE \E k \in Nat : n = 2 * k \/ n = 2 * k + 1
  <2>1. n \div 2 \in Nat /\ (n = 2 * (n \div 2) \/ n = 2 * (n \div 2) + 1)
    OBVIOUS
  <2> QED
    BY <2>1
<1> QED
  BY <1>1

LEMMA ConcatFact ==
    ASSUME NEW S, NEW f \in Seq(S), NEW g \in Seq(S)
    PROVE  /\ f \o g \in Seq(S) /\ Len(f \o g) = Len(f) + Len(g)
           /\ Len(f) \in Nat /\ Len(g) \in Nat
           /\ DOMAIN f = 1 .. Len(f) /\ DOMAIN g = 1 .. Len(g)
           /\ \A i \in 1 .. Len(f) : (f \o g)[i] = f[i]
           /\ \A i \in 1 .. Len(g) : (f \o g)[Len(f) + i] = g[i]
<1>1. Len(f) \in Nat /\ Len(g) \in Nat /\ DOMAIN f = 1 .. Len(f) /\ DOMAIN g = 1 .. Len(g)
  BY LenProperties
<1>2. /\ f \o g \in Seq(S) /\ Len(f \o g) = Len(f) + Len(g)
      /\ \A i \in 1 .. Len(f) + Len(g) : (f \o g)[i] = IF i <= Len(f) THEN f[i] ELSE g[i - Len(f)]
  BY ConcatProperties
<1>3. \A i \in 1 .. Len(f) : i \in 1 .. Len(f) + Len(g) /\ i <= Len(f)
  BY <1>1
<1>4. \A i \in 1 .. Len(g) : /\ Len(f) + i \in 1 .. Len(f) + Len(g)
                             /\ ~ (Len(f) + i <= Len(f)) /\ Len(f) + i - Len(f) = i
  BY <1>1
<1> QED
  BY <1>1, <1>2, <1>3, <1>4

\* The same, as one formula.
IsConcat(h, f, g, S) ==
    /\ h \in Seq(S) /\ Len(h) = Len(f) + Len(g) /\ Len(f) \in Nat /\ Len(g) \in Nat
    /\ \A i \in 1 .. Len(f) : h[i] = f[i]
    /\ \A i \in 1 .. Len(g) : h[Len(f) + i] = g[i]

LEMMA ConcatIs ==
    ASSUME NEW S, NEW f \in Seq(S), NEW g \in Seq(S) PROVE IsConcat(f \o g, f, g, S)
BY ConcatFact DEF IsConcat

Associates(f, g, h) == (f \o g) \o h = f \o (g \o h)

LEMMA AssociatesFact ==
    ASSUME NEW S, NEW f \in Seq(S), NEW g \in Seq(S), NEW h \in Seq(S)
    PROVE  Associates(f, g, h)
BY ConcatAssociative DEF Associates

\* a is the n elements of g behind the first d.
Segment(a, g, d, n) == Len(a) = n /\ \A i \in 1 .. n : a[i] = g[d + i]

\* g is a, which is c long, and the rest r; and what that means if a is moved behind f.
Split(S, g, c, a, r) ==
    /\ c \in Nat /\ c <= Len(g) /\ a \in Seq(S) /\ r \in Seq(S)
    /\ Segment(a, g, 0, c) /\ Segment(r, g, c, Len(g) - c)

Moved(S, f, g, c, a, r) ==
    /\ f \o a \in Seq(S) /\ f \o g \in Seq(S)
    /\ Segment(f \o a, f \o g, 0, Len(f) + c)
    /\ (f \o a) \o r = f \o g

LEMMA JoinFact ==
    ASSUME NEW S, NEW f \in Seq(S), NEW g \in Seq(S), NEW c, NEW a, NEW r,
           Split(S, g, c, a, r)
    PROVE  Moved(S, f, g, c, a, r)
<1> /\ c \in Nat /\ c <= Len(g) /\ a \in Seq(S) /\ r \in Seq(S)
    /\ Segment(a, g, 0, c) /\ Segment(r, g, c, Len(g) - c)
  BY DEF Split
<1>0. /\ Len(f) \in Nat /\ Len(g) \in Nat /\ Len(a) = c /\ Len(r) = Len(g) - c
      /\ \A i \in 1 .. c : a[i] = g[i]
      /\ \A i \in 1 .. Len(g) - c : r[i] = g[c + i]
  BY LenProperties DEF Segment
<1>1. /\ f \o a \in Seq(S) /\ Len(f \o a) = Len(f) + Len(a)
      /\ \A i \in 1 .. Len(f) : (f \o a)[i] = f[i]
      /\ \A i \in 1 .. Len(a) : (f \o a)[Len(f) + i] = a[i]
  <2>1. IsConcat(f \o a, f, a, S)
    BY ConcatIs
  <2> QED
    BY <2>1 DEF IsConcat
<1>2. /\ f \o g \in Seq(S) /\ Len(f \o g) = Len(f) + Len(g)
      /\ \A i \in 1 .. Len(f) : (f \o g)[i] = f[i]
      /\ \A i \in 1 .. Len(g) : (f \o g)[Len(f) + i] = g[i]
  BY ConcatFact
<1>3. \A i \in 1 .. Len(f) + c : (f \o a)[i] = (f \o g)[i]
  <2>1. ASSUME NEW i \in 1 .. Len(f) + c, i \notin 1 .. Len(f)
        PROVE  (f \o a)[i] = (f \o g)[i]
    <3>1. i - Len(f) \in 1 .. c /\ i - Len(f) \in 1 .. Len(g) /\ Len(f) + (i - Len(f)) = i
      BY <1>0, <2>1
    <3>2. (f \o a)[i] = a[i - Len(f)] /\ (f \o g)[i] = g[i - Len(f)]
      BY <1>0, <1>1, <1>2, <3>1
    <3> QED
      BY <1>0, <3>1, <3>2
  <2> QED
    BY <1>0, <1>1, <1>2, <2>1
<1>4. PICK h \in Seq(S) : h = f \o a
  BY <1>1
<1>5. /\ h \o r \in Seq(S) /\ Len(h \o r) = Len(h) + Len(r)
      /\ \A i \in 1 .. Len(h) : (h \o r)[i] = h[i]
      /\ \A i \in 1 .. Len(r) : (h \o r)[Len(h) + i] = r[i]
  BY ConcatFact
<1>6. Len(h) = Len(f) + c /\ Len(h \o r) = Len(f \o g)
  BY <1>0, <1>1, <1>2, <1>4, <1>5
<1>7. ASSUME NEW i \in 1 .. Len(h \o r) PROVE (h \o r)[i] = (f \o g)[i]
  <2>1. CASE i \in 1 .. Len(h)
    BY <1>3, <1>4, <1>5, <1>6, <2>1
  <2>2. CASE i \notin 1 .. Len(h)
    <3> DEFINE d == i - (Len(f) + c)
    <3>1. /\ d \in 1 .. Len(g) - c /\ Len(f) + c + d = i
          /\ c + d \in 1 .. Len(g) /\ Len(f) + (c + d) = i
      BY <1>0, <1>2, <1>6, <2>2
    <3> HIDE DEF d
    <3>2. (h \o r)[i] = g[c + d]
      <4>1. d \in 1 .. Len(r) /\ Len(h) + d = i
        BY <1>0, <1>6, <3>1
      <4>2. (h \o r)[i] = r[d]
        BY <1>5, <4>1
      <4> QED
        BY <1>0, <3>1, <4>2
    <3>3. (f \o g)[i] = g[c + d]
      BY <1>2, <3>1
    <3> QED
      BY <3>2, <3>3
  <2> QED
    BY <2>1, <2>2
<1>8. h \o r = f \o g
  BY <1>2, <1>5, <1>6, <1>7, SeqEqual
<1>9. Segment(f \o a, f \o g, 0, Len(f) + c)
  BY <1>0, <1>1, <1>3 DEF Segment
<1> QED
  BY <1>1, <1>2, <1>4, <1>8, <1>9 DEF Moved

LEMMA SplitFact ==
    ASSUME NEW S, NEW g \in Seq(S), NEW c \in 0 .. Len(g)
    PROVE  Split(S, g, c, SubSeq(g, 1, c), SubSeq(g, c + 1, Len(g)))
<1>0. Len(g) \in Nat /\ c \in Nat /\ c <= Len(g) /\ \A i \in 1 .. Len(g) : g[i] \in S
  BY LenProperties, ElementOfSeq
<1>1. SubSeq(g, 1, c) \in Seq(S) /\ Segment(SubSeq(g, 1, c), g, 0, c)
  BY <1>0, SubSeqProperties DEF Segment
<1>2. /\ SubSeq(g, c + 1, Len(g)) \in Seq(S)
      /\ Segment(SubSeq(g, c + 1, Len(g)), g, c, Len(g) - c)
  BY <1>0, SubSeqProperties DEF Segment
<1> QED
  BY <1>0, <1>1, <1>2 DEF Split

-----------------------------------------------------------------------------
(* Pieces in turn. *)

LEMMA PieceFact ==
    ASSUME NEW z \in Seq(Piece)
    PROVE  /\ Len(z) \in Nat /\ (z = <<>> <=> Len(z) = 0)
           /\ \A i \in 1 .. Len(z) : z[i] \in Piece /\ z[i][2] \in {1, 2}
           /\ z # <<>> => 1 \in 1 .. Len(z)
<1>1. Len(z) \in Nat /\ (z = <<>> <=> Len(z) = 0)
  BY LenProperties, EmptySeq
<1>2. \A i \in 1 .. Len(z) : z[i] \in Piece
  BY ElementOfSeq
<1>3. \A p \in Piece : p[2] \in {1, 2}
  BY DEF Piece
<1> QED
  BY <1>1, <1>2, <1>3

LEMMA AlternatesPrefix ==
    ASSUME NEW s, NEW p, NEW n \in Nat, NEW m \in 0 .. n, Alternates(s, n),
           \A i \in 1 .. m : p[i] = s[i]
    PROVE  Alternates(p, m)
<1> SUFFICES ASSUME NEW j \in 1 .. m
             PROVE  /\ 2 * j - 1 <= m => p[2 * j - 1][2] = 1
                    /\ 2 * j <= m => p[2 * j] = <<p[2 * j - 1][1], 2>>
  BY DEF Alternates
<1>1. j \in 1 .. n
  OBVIOUS
<1>2. /\ 2 * j - 1 <= n => s[2 * j - 1][2] = 1
      /\ 2 * j <= n => s[2 * j] = <<s[2 * j - 1][1], 2>>
  BY <1>1 DEF Alternates
<1>3. /\ 2 * j - 1 <= m => 2 * j - 1 \in 1 .. m /\ 2 * j - 1 <= n
      /\ 2 * j <= m => 2 * j \in 1 .. m /\ 2 * j - 1 \in 1 .. m /\ 2 * j <= n
  OBVIOUS
<1> QED
  BY <1>2, <1>3

\* Whole entries behind whole entries.
LEMMA AlternatesJoin ==
    ASSUME NEW S, NEW f \in Seq(S), NEW z \in Seq(S), Even(f), Even(z),
           Alternates(f, Len(f)), Alternates(z, Len(z))
    PROVE  Alternates(f \o z, Len(f \o z)) /\ Even(f \o z)
<1>1. IsConcat(f \o z, f, z, S)
  BY ConcatIs
<1>2. PICK h \in Seq(S) : h = f \o z
  BY <1>1 DEF IsConcat
<1>3. /\ Len(h) = Len(f) + Len(z) /\ Len(f) \in Nat /\ Len(z) \in Nat
      /\ \A i \in 1 .. Len(f) : h[i] = f[i]
      /\ \A i \in 1 .. Len(z) : h[Len(f) + i] = z[i]
  BY <1>1, <1>2 DEF IsConcat
<1>4. PICK m \in Nat : Len(f) = 2 * m
  BY DEF Even
<1>5. PICK k \in Nat : Len(z) = 2 * k
  BY DEF Even
<1>6. Even(h)
  <2>1. m + k \in Nat /\ Len(h) = 2 * (m + k)
    BY <1>3, <1>4, <1>5
  <2> QED
    BY <2>1 DEF Even
<1>7. ASSUME NEW j \in 1 .. Len(h)
      PROVE  /\ 2 * j - 1 <= Len(h) => h[2 * j - 1][2] = 1
             /\ 2 * j <= Len(h) => h[2 * j] = <<h[2 * j - 1][1], 2>>
  <2>1. CASE j <= m
    <3>1. 2 * j - 1 \in 1 .. Len(f) /\ 2 * j \in 1 .. Len(f) /\ j \in 1 .. Len(f)
      BY <1>4, <2>1
    <3>2. f[2 * j - 1][2] = 1 /\ f[2 * j] = <<f[2 * j - 1][1], 2>>
      BY <3>1 DEF Alternates
    <3> QED
      BY <1>3, <3>1, <3>2
  <2>2. CASE j > m /\ 2 * j - 1 <= Len(h)
    <3> DEFINE i == j - m
    <3>1. /\ i \in 1 .. Len(z) /\ 2 * i - 1 \in 1 .. Len(z) /\ 2 * i \in 1 .. Len(z)
          /\ Len(f) + (2 * i - 1) = 2 * j - 1 /\ Len(f) + 2 * i = 2 * j
      BY <1>3, <1>4, <1>5, <2>2
    <3> HIDE DEF i
    <3>2. z[2 * i - 1][2] = 1 /\ z[2 * i] = <<z[2 * i - 1][1], 2>>
      BY <3>1 DEF Alternates
    <3>3. h[2 * j - 1] = z[2 * i - 1] /\ h[2 * j] = z[2 * i]
      BY <1>3, <3>1
    <3> QED
      BY <3>2, <3>3
  <2> QED
    BY <1>3, <1>4, <2>1, <2>2
<1> QED
  BY <1>2, <1>6, <1>7 DEF Alternates

\* The rest of a sequence of whole entries fits what stands before it.
LEMMA RestFact ==
    ASSUME NEW g \in Seq(Piece), NEW r \in Seq(Piece),
           Alternates(g \o r, Len(g \o r)), Even(g \o r)
    PROVE  Fits(g, r)
<1> SUFFICES ASSUME r # <<>>, ~ Owner(r) PROVE Alternates(r, Len(r)) /\ Even(r)
  BY DEF Fits
<1>1. IsConcat(g \o r, g, r, Piece)
  BY ConcatIs
<1>2. PICK h \in Seq(Piece) : h = g \o r
  BY <1>1 DEF IsConcat
<1>3. /\ Len(h) = Len(g) + Len(r) /\ Len(g) \in Nat /\ Len(r) \in Nat
      /\ \A i \in 1 .. Len(r) : h[Len(g) + i] = r[i]
  BY <1>1, <1>2 DEF IsConcat
<1>4. PICK k \in Nat : Len(h) = 2 * k
  BY <1>2 DEF Even
<1>5. Alternates(h, Len(h))
  BY <1>2
<1>6. 1 \in 1 .. Len(r) /\ r[1][2] # 2
  BY PieceFact DEF Owner
<1>7. PICK m \in Nat : Len(g) = 2 * m
  <2>1. PICK m \in Nat : Len(g) = 2 * m \/ Len(g) = 2 * m + 1
    BY <1>3, HalfFact
  <2>2. ASSUME Len(g) = 2 * m + 1 PROVE FALSE
    <3>1. m + 1 \in 1 .. Len(h) /\ 2 * (m + 1) <= Len(h) /\ Len(g) + 1 = 2 * (m + 1)
      BY <1>3, <1>6, <2>2
    <3>2. h[2 * (m + 1)] = <<h[2 * (m + 1) - 1][1], 2>>
      BY <1>5, <3>1 DEF Alternates
    <3>3. h[2 * (m + 1)] = r[1]
      BY <1>3, <1>6, <3>1
    <3> QED
      BY <1>6, <3>2, <3>3
  <2> QED
    BY <2>1, <2>2
<1>8. Even(r)
  <2>1. k - m \in Nat /\ Len(r) = 2 * (k - m)
    BY <1>3, <1>4, <1>7
  <2> QED
    BY <2>1 DEF Even
<1>9. ASSUME NEW j \in 1 .. Len(r)
      PROVE  /\ 2 * j - 1 <= Len(r) => r[2 * j - 1][2] = 1
             /\ 2 * j <= Len(r) => r[2 * j] = <<r[2 * j - 1][1], 2>>
  <2> DEFINE i == m + j
  <2>1. /\ i \in 1 .. Len(h) /\ Len(g) + (2 * j - 1) = 2 * i - 1 /\ Len(g) + 2 * j = 2 * i
        /\ 2 * j - 1 <= Len(r) => 2 * i - 1 <= Len(h) /\ 2 * j - 1 \in 1 .. Len(r)
        /\ 2 * j <= Len(r) => 2 * i <= Len(h) /\ 2 * j \in 1 .. Len(r) /\ 2 * j - 1 \in 1 .. Len(r)
    BY <1>3, <1>7
  <2> HIDE DEF i
  <2>2. /\ 2 * i - 1 <= Len(h) => h[2 * i - 1][2] = 1
        /\ 2 * i <= Len(h) => h[2 * i] = <<h[2 * i - 1][1], 2>>
    BY <1>5, <2>1 DEF Alternates
  <2>3. /\ 2 * j - 1 \in 1 .. Len(r) => h[2 * i - 1] = r[2 * j - 1]
        /\ 2 * j \in 1 .. Len(r) => h[2 * i] = r[2 * j]
    BY <1>3, <2>1
  <2> QED
    BY <2>1, <2>2, <2>3
<1> QED
  BY <1>8, <1>9 DEF Alternates

\* An owner stands behind the first piece of an entry.
LEMMA OwnerFact ==
    ASSUME NEW f \in Seq(Piece), NEW z \in Seq(Piece), Fits(f, z), Owner(z)
    PROVE  ~ Even(f)
<1>1. IsConcat(f \o z, f, z, Piece)
  BY ConcatIs
<1>2. Alternates(f \o z, Len(f \o z)) /\ z # <<>> /\ z[1][2] = 2
  BY DEF Fits, Owner
<1> SUFFICES ASSUME NEW m \in Nat, Len(f) = 2 * m PROVE FALSE
  BY DEF Even
<1>3. 1 \in 1 .. Len(z) /\ Len(z) \in Nat
  BY <1>2, PieceFact
<1>4. m + 1 \in 1 .. Len(f \o z) /\ 2 * (m + 1) - 1 <= Len(f \o z) /\ Len(f) + 1 = 2 * (m + 1) - 1
  BY <1>1, <1>3 DEF IsConcat
<1>5. (f \o z)[2 * (m + 1) - 1][2] = 1
  BY <1>2, <1>4 DEF Alternates
<1>6. (f \o z)[Len(f) + 1] = z[1]
  BY <1>1, <1>3 DEF IsConcat
<1> QED
  BY <1>2, <1>4, <1>5, <1>6

\* A part a of what a BufWriter has kept is appended to the file: it goes on where the
\* file ends, and the rest r too, or it tears the file.
Tears(f, a) == f # <<>> /\ a # <<>> /\ Last(f)[2] = 1 /\ a[1][2] = 1

LEMMA AppendFact ==
    ASSUME NEW f \in Seq(Piece), NEW z \in Seq(Piece), NEW c, NEW a, NEW r,
           Split(Piece, z, c, a, r), Alternates(f, Len(f)), Fits(f, z)
    PROVE  /\ Tears(f, a) => Torn(f \o a, Len(f))
           /\ ~ Tears(f, a) => /\ Alternates(f \o a, Len(f \o a)) /\ Fits(f \o a, r)
                               /\ a = <<>> \/ Owner(z) \/ Even(f)
<1>1. /\ c \in Nat /\ c <= Len(z) /\ a \in Seq(Piece) /\ r \in Seq(Piece) /\ Len(a) = c
      /\ Len(f) \in Nat /\ Len(z) \in Nat /\ Len(r) = Len(z) - c
      /\ \A i \in 1 .. c : a[i] = z[i]
      /\ \A i \in 1 .. Len(r) : r[i] = z[c + i]
  BY PieceFact DEF Split, Segment
<1>2. IsConcat(f \o a, f, a, Piece) /\ IsConcat(f \o z, f, z, Piece)
  BY <1>1, ConcatIs
<1>3. /\ f \o a \in Seq(Piece) /\ Segment(f \o a, f \o z, 0, Len(f) + c)
      /\ (f \o a) \o r = f \o z
  BY JoinFact DEF Moved
<1>4. CASE a = <<>>
  <2>1. f \o a = f
    BY <1>4, ConcatEmptySeq
  <2>2. c = 0
    BY <1>1, <1>4
  <2>3. r = z
    <3>1. Len(r) = Len(z) /\ \A i \in 1 .. Len(r) : r[i] = z[i]
      BY <1>1, <2>2
    <3> QED
      BY <1>1, <3>1, SeqEqual
  <2> QED
    BY <1>4, <2>1, <2>3 DEF Tears
<1>5. ASSUME Alternates(f \o z, Len(f \o z)), Even(f \o z)
      PROVE  Alternates(f \o a, Len(f \o a)) /\ Fits(f \o a, r)
  <2>1. /\ Len(f \o a) = Len(f) + c /\ Len(f \o z) \in Nat /\ Len(f \o a) \in 0 .. Len(f \o z)
    BY <1>1, <1>2 DEF IsConcat
  <2>2. \A i \in 1 .. Len(f \o a) : (f \o a)[i] = (f \o z)[0 + i]
    BY <1>3, <2>1 DEF Segment
  <2>3. \A i \in 1 .. Len(f \o a) : (f \o a)[i] = (f \o z)[i]
    BY <2>1, <2>2
  <2>4. Alternates(f \o a, Len(f \o a))
    BY <1>5, <2>1, <2>3, AlternatesPrefix
  <2>5. PICK g \in Seq(Piece) : g = f \o a
    BY <1>3
  <2>6. Alternates(g \o r, Len(g \o r)) /\ Even(g \o r)
    BY <1>3, <1>5, <2>5
  <2>7. Fits(g, r)
    BY <1>1, <2>6, RestFact
  <2> QED
    BY <2>4, <2>5, <2>7
<1>6. ASSUME a # <<>> PROVE z # <<>> /\ a[1] = z[1] /\ 1 \in 1 .. Len(z) /\ 1 \in 1 .. Len(a)
  <2>1. 1 \in 1 .. Len(a)
    BY <1>1, <1>6, PieceFact
  <2>2. 1 \in 1 .. Len(z) /\ 1 \in 1 .. c
    BY <1>1, <2>1
  <2>3. z # <<>>
    BY <2>2
  <2> QED
    BY <1>1, <2>1, <2>2, <2>3
<1>7. CASE a # <<>> /\ Owner(z)
  <2>1. ~ Tears(f, a)
    BY <1>6, <1>7 DEF Tears, Owner
  <2>2. Alternates(f \o z, Len(f \o z)) /\ Even(f \o z)
    BY <1>6, <1>7 DEF Fits
  <2> QED
    BY <1>5, <1>7, <2>1, <2>2
<1>8. CASE a # <<>> /\ ~ Owner(z) /\ Even(f)
  <2>1. Alternates(z, Len(z)) /\ Even(z)
    BY <1>6, <1>8 DEF Fits
  <2>2. Alternates(f \o z, Len(f \o z)) /\ Even(f \o z)
    BY <1>8, <2>1, AlternatesJoin
  <2>3. ASSUME f # <<>> PROVE Last(f)[2] = 2
    <3>1. PICK m \in Nat : Len(f) = 2 * m
      BY <1>8 DEF Even
    <3>2. m \in 1 .. Len(f)
      BY <1>1, <2>3, <3>1, PieceFact
    <3>3. f[2 * m] = <<f[2 * m - 1][1], 2>>
      BY <3>1, <3>2 DEF Alternates
    <3> QED
      BY <3>1, <3>3 DEF Last
  <2> QED
    BY <1>5, <1>8, <2>2, <2>3 DEF Tears
<1>9. CASE a # <<>> /\ ~ Owner(z) /\ ~ Even(f)
  <2>1. PICK m \in Nat : Len(f) = 2 * m + 1
    BY <1>1, <1>9, HalfFact DEF Even
  <2>2. f[Len(f)][2] = 1 /\ f # <<>>
    <3>1. m + 1 \in 1 .. Len(f) /\ 2 * (m + 1) - 1 = Len(f)
      BY <2>1
    <3>2. f[2 * (m + 1) - 1][2] = 1
      BY <3>1 DEF Alternates
    <3> QED
      BY <1>1, <2>1, <3>1, <3>2, PieceFact
  <2>3. a[1][2] = 1
    <3>1. Alternates(z, Len(z))
      BY <1>6, <1>9 DEF Fits
    <3>2. z[2 * 1 - 1][2] = 1
      BY <1>1, <1>6, <1>9, <3>1 DEF Alternates
    <3> QED
      BY <1>6, <1>9, <3>2
  <2>4. Tears(f, a)
    BY <1>9, <2>2, <2>3 DEF Tears, Last
  <2>5. Alternates(f \o a, Len(f))
    <3>1. \A i \in 1 .. Len(f) : (f \o a)[i] = f[i]
      BY <1>2 DEF IsConcat
    <3> QED
      <4>1. Len(f) \in 0 .. Len(f)
        BY <1>1
      <4> QED
        BY <1>1, <3>1, <4>1, AlternatesPrefix
  <2>6. (f \o a)[Len(f) + 1] = a[1] /\ Len(f) < Len(f \o a)
    BY <1>1, <1>2, <1>6, <1>9 DEF IsConcat
  <2> QED
    BY <2>1, <2>3, <2>4, <2>5, <2>6 DEF Torn
<1> QED
  BY <1>4, <1>7, <1>8, <1>9

\* What is torn stays as it is.
LEMMA TornExtends ==
    ASSUME NEW f \in Seq(Piece), NEW a \in Seq(Piece), NEW t \in Nat, Torn(f, t)
    PROVE  Torn(f \o a, t)
<1>1. IsConcat(f \o a, f, a, Piece)
  BY ConcatIs
<1>2. t < Len(f \o a) /\ \A i \in 1 .. t + 1 : (f \o a)[i] = f[i]
  BY <1>1 DEF IsConcat, Torn
<1>3. Alternates(f \o a, t)
  <2>1. Alternates(f, t) /\ \A i \in 1 .. t : (f \o a)[i] = f[i]
    BY <1>2 DEF Torn
  <2>2. t \in 0 .. t
    OBVIOUS
  <2> QED
    BY <2>1, <2>2, AlternatesPrefix
<1> QED
  BY <1>2, <1>3 DEF Torn

\* A shorter prefix, and the same LSNs under other names.
LEMMA OrderedFact ==
    ASSUME NEW s, NEW p, NEW n \in Nat, NEW m \in 0 .. n, NEW l, NEW k,
           \A i \in 1 .. m : p[i] = s[i] /\ k[s[i][1]] = l[s[i][1]],
           Ordered(s, n, l)
    PROVE  /\ Ordered(p, m, k)
           /\ \A next : Below(s, n, l, next) => Below(p, m, k, next)
<1>1. \A i \in 1 .. m : i \in 1 .. n
  OBVIOUS
<1> QED
  BY <1>1 DEF Ordered, Below

-----------------------------------------------------------------------------
(* A group. *)

\* The LSNs l2 give those of l and n more, from next on.
MoreLsns(l, n, next, l2) ==
    /\ Len(l) \in Nat /\ DOMAIN l = 1 .. Len(l) /\ Len(l2) = Len(l) + n
    /\ \A w \in 1 .. Len(l) : l[w] \in Nat /\ l2[w] = l[w]
    /\ \A d \in 1 .. n : l2[Len(l) + d] = next + d - 1

\* e is what is encoded for n writes behind the w-th.
IsGroup(e, w, n) ==
    Len(e) = 2 * n /\ \A d \in 1 .. n : e[2 * d - 1] = <<w + d, 1>> /\ e[2 * d] = <<w + d, 2>>

\* The pieces of a group.
LEMMA EncodedFact ==
    ASSUME TypeOK, NEW n \in Nat, Len(lsn) + n <= MaxWrites
    PROVE  Encoded(n) \in Seq(Piece) /\ IsGroup(Encoded(n), Len(lsn), n)
<1>1. Len(lsn) \in Nat
  BY LenProperties DEF TypeOK
<1>2. \A i \in 1 .. 2 * n : (i + 1) \div 2 \in 1 .. n
  OBVIOUS
<1>3. \A i \in 1 .. 2 * n : <<Len(lsn) + (i + 1) \div 2, IF i % 2 = 1 THEN 1 ELSE 2>> \in Piece
  <2>1. \A d \in 1 .. n : Len(lsn) + d \in 1 .. MaxWrites
    BY <1>1, WalAssumption
  <2>2. \A i \in 1 .. 2 * n : Len(lsn) + (i + 1) \div 2 \in 1 .. MaxWrites
    BY <1>2, <2>1
  <2> QED
    BY <2>2 DEF Piece
<1>4. 2 * n \in Nat
  OBVIOUS
<1>5. Encoded(n) \in [1 .. 2 * n -> Piece]
  BY <1>3 DEF Encoded
<1>6. Encoded(n) \in Seq(Piece) /\ Len(Encoded(n)) = 2 * n
  BY <1>4, <1>5, SeqDef
<1>7. ASSUME NEW d \in 1 .. n
      PROVE  /\ Encoded(n)[2 * d - 1] = <<Len(lsn) + d, 1>>
             /\ Encoded(n)[2 * d] = <<Len(lsn) + d, 2>>
  <2>1. /\ 2 * d - 1 \in 1 .. 2 * n /\ (2 * d - 1 + 1) \div 2 = d /\ (2 * d - 1) % 2 = 1
        /\ 2 * d \in 1 .. 2 * n /\ (2 * d + 1) \div 2 = d /\ (2 * d) % 2 # 1
    OBVIOUS
  <2> QED
    BY <2>1 DEF Encoded
<1> QED
  BY <1>6, <1>7 DEF IsGroup

\* The LSNs of a group.
LEMMA LsnFact ==
    ASSUME TypeOK, NEW n \in Nat, NewGroup(n)
    PROVE  /\ MoreLsns(lsn, n, nextLsn, lsn') /\ nextLsn' = nextLsn + n
           /\ lsn' \in Seq(1 .. MaxWrites) /\ Len(lsn') <= MaxWrites
           /\ DOMAIN lsn' = 1 .. Len(lsn) + n
           /\ nextLsn' \in 1 .. Len(lsn') + 1
           /\ LsnBound => LsnBound'
<1> DEFINE g == [i \in 1 .. n |-> nextLsn + i - 1]
<1>1. /\ lsn \in Seq(1 .. MaxWrites) /\ Len(lsn) \in Nat /\ DOMAIN lsn = 1 .. Len(lsn)
      /\ nextLsn \in 1 .. Len(lsn) + 1 /\ MaxWrites \in Nat
  BY LenProperties, WalAssumption DEF TypeOK
<1>2. Len(lsn) + n <= MaxWrites /\ lsn' = lsn \o g /\ nextLsn' = nextLsn + n
  BY DEF NewGroup
<1>3. \A i \in 1 .. n : nextLsn + i - 1 \in 1 .. Len(lsn) + i /\ nextLsn + i - 1 \in 1 .. MaxWrites
  BY <1>1, <1>2
<1>4. g \in Seq(1 .. MaxWrites) /\ Len(g) = n /\ \A i \in 1 .. n : g[i] = nextLsn + i - 1
  <2>1. g \in [1 .. n -> 1 .. MaxWrites]
    BY <1>3
  <2> QED
    BY <2>1, SeqDef
<1> HIDE DEF g
<1>5. IsConcat(lsn', lsn, g, 1 .. MaxWrites)
  BY <1>1, <1>2, <1>4, ConcatIs
<1>6. /\ lsn' \in Seq(1 .. MaxWrites) /\ Len(lsn') = Len(lsn) + n
      /\ \A w \in 1 .. Len(lsn) : lsn'[w] = lsn[w]
      /\ \A d \in 1 .. n : lsn'[Len(lsn) + d] = nextLsn + d - 1
  BY <1>4, <1>5 DEF IsConcat
<1>7. DOMAIN lsn' = 1 .. Len(lsn) + n
  BY <1>6, LenProperties
<1>8. \A w \in 1 .. Len(lsn) : lsn[w] \in Nat
  <2>1. \A w \in 1 .. Len(lsn) : lsn[w] \in 1 .. MaxWrites
    BY <1>1, ElementOfSeq
  <2> QED
    BY <2>1
<1>9. MoreLsns(lsn, n, nextLsn, lsn')
  BY <1>1, <1>6, <1>8 DEF MoreLsns
<1>10. ASSUME LsnBound PROVE LsnBound'
  <2>1. ASSUME NEW w \in 1 .. Len(lsn) + n PROVE lsn'[w] <= w
    <3>1. CASE w \in 1 .. Len(lsn)
      BY <1>1, <1>6, <1>10, <3>1 DEF LsnBound
    <3>2. CASE w \notin 1 .. Len(lsn)
      <4>1. w - Len(lsn) \in 1 .. n /\ Len(lsn) + (w - Len(lsn)) = w
        BY <1>1, <3>2
      <4>2. lsn'[w] = nextLsn + (w - Len(lsn)) - 1
        BY <1>6, <4>1
      <4> QED
        BY <1>1, <4>1, <4>2
    <3> QED
      BY <3>1, <3>2
  <2> QED
    BY <1>7, <2>1 DEF LsnBound
<1>11. nextLsn' \in 1 .. Len(lsn') + 1 /\ Len(lsn') <= MaxWrites
  BY <1>1, <1>2, <1>6
<1> QED
  BY <1>2, <1>6, <1>7, <1>9, <1>10, <1>11

LEMMA GroupAlternates ==
    ASSUME NEW e \in Seq(Piece), NEW w \in Nat, NEW n \in Nat, IsGroup(e, w, n)
    PROVE  Alternates(e, Len(e)) /\ Even(e)
<1>1. Len(e) = 2 * n /\ \A d \in 1 .. n : e[2 * d - 1] = <<w + d, 1>> /\ e[2 * d] = <<w + d, 2>>
  BY DEF IsGroup
<1>2. Even(e)
  BY <1>1 DEF Even
<1>3. ASSUME NEW j \in 1 .. Len(e)
      PROVE  /\ 2 * j - 1 <= Len(e) => e[2 * j - 1][2] = 1
             /\ 2 * j <= Len(e) => e[2 * j] = <<e[2 * j - 1][1], 2>>
  <2>1. 2 * j - 1 <= Len(e) => j \in 1 .. n
    BY <1>1
  <2>2. 2 * j <= Len(e) => j \in 1 .. n
    BY <1>1
  <2>3. j \in 1 .. n => e[2 * j - 1] = <<w + j, 1>> /\ e[2 * j] = <<w + j, 2>>
    BY <1>1
  <2> QED
    BY <2>1, <2>2, <2>3
<1> QED
  BY <1>2, <1>3 DEF Alternates

\* A BufWriter that fits goes on with whole entries.
LEMMA FitsAppend ==
    ASSUME NEW f \in Seq(Piece), NEW z \in Seq(Piece), NEW e \in Seq(Piece), Fits(f, z),
           Alternates(e, Len(e)), Even(e)
    PROVE  Fits(f, z \o e) /\ (Owner(z \o e) => Owner(z))
<1>1. IsConcat(z \o e, z, e, Piece) /\ z \o e \in Seq(Piece)
  BY ConcatIs DEF IsConcat
<1>2. CASE z = <<>>
  <2>1. z \o e = e
    BY <1>2, ConcatEmptySeq
  <2>2. ASSUME e # <<>> PROVE e[1][2] = 1
    <3>1. 1 \in 1 .. Len(e) /\ Len(e) \in Nat
      BY <2>2, PieceFact
    <3>2. e[2 * 1 - 1][2] = 1
      BY <3>1 DEF Alternates
    <3> QED
      BY <3>2
  <2> QED
    BY <2>1, <2>2 DEF Fits, Owner
<1>3. ASSUME z # <<>> PROVE z \o e # <<>> /\ (z \o e)[1] = z[1]
  <2>1. 1 \in 1 .. Len(z)
    BY <1>3, PieceFact
  <2>2. (z \o e)[1] = z[1] /\ Len(z \o e) # 0
    BY <1>1, <2>1 DEF IsConcat
  <2> QED
    BY <1>1, <2>2, PieceFact
<1>4. CASE z # <<>> /\ Owner(z)
  <2>1. Alternates(f \o z, Len(f \o z)) /\ Even(f \o z) /\ f \o z \in Seq(Piece)
    BY <1>4, ConcatFact DEF Fits
  <2>2. Alternates((f \o z) \o e, Len((f \o z) \o e)) /\ Even((f \o z) \o e)
    BY <2>1, AlternatesJoin
  <2>3. (f \o z) \o e = f \o (z \o e)
    BY AssociatesFact DEF Associates
  <2> QED
    BY <1>3, <1>4, <2>2, <2>3 DEF Fits, Owner
<1>5. CASE z # <<>> /\ ~ Owner(z)
  <2>1. Alternates(z, Len(z)) /\ Even(z)
    BY <1>5 DEF Fits
  <2>2. Alternates(z \o e, Len(z \o e)) /\ Even(z \o e)
    BY <2>1, AlternatesJoin
  <2>3. ~ Owner(z \o e)
    BY <1>3, <1>5 DEF Owner
  <2> QED
    BY <2>2, <2>3 DEF Fits
<1> QED
  BY <1>2, <1>4, <1>5

\* A group behind a stream in the order of its LSNs.
LEMMA OrderedAppend ==
    ASSUME NEW S, NEW s \in Seq(S), NEW e \in Seq(S), NEW n \in Nat, NEW next \in Nat,
           NEW l, NEW k, MoreLsns(l, n, next, k), IsGroup(e, Len(l), n),
           \A i \in 1 .. Len(s) : s[i][1] \in DOMAIN l,
           Ordered(s, Len(s), l), Below(s, Len(s), l, next)
    PROVE  Ordered(s \o e, Len(s \o e), k) /\ Below(s \o e, Len(s \o e), k, next + n)
<1>1. IsConcat(s \o e, s, e, S)
  BY ConcatIs
<1>2. PICK z \in Seq(S) : z = s \o e
  BY <1>1 DEF IsConcat
<1>3. /\ Len(z) = Len(s) + 2 * n /\ Len(s) \in Nat /\ Len(e) = 2 * n
      /\ \A i \in 1 .. Len(s) : z[i] = s[i]
      /\ \A i \in 1 .. 2 * n : z[Len(s) + i] = e[i]
  BY <1>1, <1>2 DEF IsConcat, IsGroup
<1>4. ASSUME NEW i \in 1 .. Len(s)
      PROVE  /\ z[i] = s[i] /\ k[z[i][1]] = l[s[i][1]] /\ k[z[i][1]] \in Nat
             /\ z[i][2] = 2 => k[z[i][1]] < next
  <2>1. s[i][1] \in 1 .. Len(l) /\ z[i] = s[i]
    BY <1>3 DEF MoreLsns
  <2>2. k[s[i][1]] = l[s[i][1]] /\ l[s[i][1]] \in Nat
    BY <2>1 DEF MoreLsns
  <2> QED
    BY <2>1, <2>2 DEF Below
<1>5. ASSUME NEW i \in 1 .. Len(z), i \notin 1 .. Len(s)
      PROVE  \E d \in 1 .. n : /\ i = Len(s) + 2 * d \/ i = Len(s) + 2 * d - 1
                               /\ k[z[i][1]] = next + d - 1
                               /\ i = Len(s) + 2 * d - 1 => z[i][2] = 1
  <2>1. i - Len(s) \in 1 .. 2 * n /\ i - Len(s) \in Nat
    BY <1>3, <1>5
  <2>2. PICK m \in Nat : i - Len(s) = 2 * m \/ i - Len(s) = 2 * m + 1
    BY <2>1, HalfFact
  <2>3. ASSUME NEW d \in 1 .. n, i = Len(s) + 2 * d \/ i = Len(s) + 2 * d - 1
        PROVE  /\ k[z[i][1]] = next + d - 1
               /\ i = Len(s) + 2 * d - 1 => z[i][2] = 1
    <3>1. e[2 * d - 1] = <<Len(l) + d, 1>> /\ e[2 * d] = <<Len(l) + d, 2>>
      BY DEF IsGroup
    <3>2. /\ 2 * d \in 1 .. 2 * n /\ 2 * d - 1 \in 1 .. 2 * n
          /\ Len(s) + 2 * d - 1 = Len(s) + (2 * d - 1) /\ 2 * d # 2 * d - 1
          /\ Len(s) + 2 * d # Len(s) + 2 * d - 1
      BY <1>3
    <3>3. k[Len(l) + d] = next + d - 1
      BY DEF MoreLsns
    <3>4. z[Len(s) + 2 * d] = <<Len(l) + d, 2>> /\ z[Len(s) + 2 * d - 1] = <<Len(l) + d, 1>>
      BY <1>3, <3>1, <3>2
    <3> QED
      BY <2>3, <3>2, <3>3, <3>4
  <2>4. CASE i - Len(s) = 2 * m
    <3>1. m \in 1 .. n
      BY <2>1, <2>4
    <3>2. i = Len(s) + 2 * m
      <4>1. i \in Nat /\ Len(s) \in Nat
        BY <1>3
      <4> QED
        BY <2>4, <4>1
    <3> QED
      BY <2>3, <3>1, <3>2
  <2>5. CASE i - Len(s) = 2 * m + 1
    <3>1. m + 1 \in 1 .. n
      BY <2>1, <2>5
    <3>2. i = Len(s) + 2 * (m + 1) - 1
      <4>1. i \in Nat /\ Len(s) \in Nat
        BY <1>3
      <4> QED
        BY <2>5, <4>1
    <3> QED
      BY <2>3, <3>1, <3>2
  <2> QED
    BY <2>2, <2>4, <2>5
<1>6. ASSUME NEW i \in 1 .. Len(z), NEW j \in 1 .. Len(z), i < j, z[i][2] = 2
      PROVE  k[z[i][1]] < k[z[j][1]]
  <2>1. CASE j \in 1 .. Len(s)
    <3>1. i \in 1 .. Len(s)
      BY <1>3, <1>6, <2>1
    <3>2. l[s[i][1]] < l[s[j][1]]
      BY <1>4, <1>6, <2>1, <3>1 DEF Ordered
    <3> QED
      BY <1>4, <2>1, <3>1, <3>2
  <2>2. CASE j \notin 1 .. Len(s)
    <3>1. PICK d \in 1 .. n : /\ j = Len(s) + 2 * d \/ j = Len(s) + 2 * d - 1
                              /\ k[z[j][1]] = next + d - 1
      BY <1>5, <2>2
    <3>2. CASE i \in 1 .. Len(s)
      <4>1. k[z[i][1]] \in Nat /\ k[z[i][1]] < next
        BY <1>4, <1>6, <3>2
      <4>2. \A x \in Nat : x < next => x < next + d - 1
        OBVIOUS
      <4> QED
        BY <3>1, <4>1, <4>2
    <3>3. CASE i \notin 1 .. Len(s)
      <4>1. PICK c \in 1 .. n : /\ i = Len(s) + 2 * c \/ i = Len(s) + 2 * c - 1
                                /\ k[z[i][1]] = next + c - 1
                                /\ i = Len(s) + 2 * c - 1 => z[i][2] = 1
        BY <1>5, <3>3
      <4>2. i = Len(s) + 2 * c
        BY <1>6, <4>1
      <4>3. c < d
        BY <1>3, <1>6, <3>1, <4>2
      <4>4. next + c - 1 < next + d - 1
        BY <4>3
      <4> QED
        BY <3>1, <4>1, <4>4
    <3> QED
      BY <3>2, <3>3
  <2> QED
    BY <2>1, <2>2
<1>7. ASSUME NEW i \in 1 .. Len(z), z[i][2] = 2 PROVE k[z[i][1]] < next + n
  <2>1. CASE i \in 1 .. Len(s)
    <3>1. k[z[i][1]] \in Nat /\ k[z[i][1]] < next
      BY <1>4, <1>7, <2>1
    <3>2. \A x \in Nat : x < next => x < next + n
      OBVIOUS
    <3> QED
      BY <3>1, <3>2
  <2>2. CASE i \notin 1 .. Len(s)
    <3>1. PICK d \in 1 .. n : k[z[i][1]] = next + d - 1
      BY <1>5, <2>2
    <3> QED
      BY <3>1
  <2> QED
    BY <2>1, <2>2
<1> QED
  BY <1>2, <1>6, <1>7 DEF Ordered, Below

-----------------------------------------------------------------------------
(* What a replay yields. *)

LEMMA EntriesFact ==
    ASSUME NEW S, NEW f \in Seq(S), NEW k \in Nat, 2 * k <= Len(f), Whole(f, k),
           Len(f) < 2 * k + 2 \/ f[2 * k + 2][2] # 2
    PROVE  Len(Entries(f)) = k /\ Entries(f) = [i \in 1 .. k |-> f[2 * i][1]]
<1> DEFINE T == {i \in 0 .. Len(f) \div 2 : Whole(f, i)}
<1>1. Len(f) \in Nat
  BY LenProperties
<1>2. k \in T
  BY <1>1, HalfFact
<1>3. \A i \in T : i \in Nat /\ i <= k
  <2>0. \A i \in T : i \in Nat
    BY <1>1, HalfFact
  <2> SUFFICES ASSUME NEW i \in T, k < i PROVE FALSE
    BY <2>0
  <2>1. i \in Nat /\ 2 * i <= Len(f) /\ k + 1 \in 1 .. i
    BY <1>1, <2>0, HalfFact
  <2>2. f[2 * (k + 1)] = <<f[2 * (k + 1) - 1][1], 2>>
    BY <2>1 DEF Whole
  <2>3. 2 * (k + 1) = 2 * k + 2 /\ 2 * k + 2 <= Len(f)
    BY <1>1, <2>1
  <2> QED
    BY <1>1, <2>2, <2>3
<1> HIDE DEF T
<1>4. Max(T) = k
  <2>1. k \in T /\ \A x \in T : k >= x
    BY <1>2, <1>3
  <2>2. Max(T) \in T /\ \A x \in T : Max(T) >= x
    BY <2>1 DEF Max
  <2> QED
    <3>1. Max(T) \in Nat /\ Max(T) <= k
      BY <1>3, <2>2
    <3>2. k <= Max(T)
      BY <1>3, <2>1, <2>2
    <3> QED
      BY <3>1, <3>2
<1>5. Entries(f) = [i \in 1 .. k |-> f[2 * i][1]]
  BY <1>4 DEF Entries, T
<1> QED
  BY <1>5

\* The k entries of a file, all before the tear at t if there is one.
Yields(f, t, k) ==
    /\ k \in Nat /\ 2 * k <= Len(f) /\ Whole(f, k)
    /\ Len(Entries(f)) = k /\ Entries(f) = [i \in 1 .. k |-> f[2 * i][1]]
    /\ t = 0 => Len(f) \in {2 * k, 2 * k + 1}
    /\ t # 0 => t = 2 * k + 1

LEMMA YieldsFact ==
    ASSUME NEW f \in Seq(Piece), NEW t \in Nat,
           t = 0 => Alternates(f, Len(f)), t # 0 => Torn(f, t)
    PROVE  \E k \in Nat : Yields(f, t, k)
<1>1. Len(f) \in Nat
  BY LenProperties
<1>2. ASSUME NEW k \in Nat, NEW n \in Nat, Alternates(f, n), 2 * k <= n, n <= Len(f)
      PROVE  Whole(f, k)
  <2>1. ASSUME NEW j \in 1 .. k PROVE f[2 * j - 1][2] = 1 /\ f[2 * j] = <<f[2 * j - 1][1], 2>>
    <3>1. j \in 1 .. n /\ 2 * j - 1 <= n /\ 2 * j <= n
      BY <1>2
    <3> QED
      BY <1>2, <3>1 DEF Alternates
  <2> QED
    BY <2>1 DEF Whole
<1>3. CASE t = 0
  <2>1. PICK k \in Nat : Len(f) = 2 * k \/ Len(f) = 2 * k + 1
    BY <1>1, HalfFact
  <2>2. 2 * k <= Len(f) /\ Len(f) < 2 * k + 2
    BY <2>1
  <2>3. Whole(f, k)
    BY <1>1, <1>2, <1>3, <2>2
  <2>4. Len(Entries(f)) = k /\ Entries(f) = [i \in 1 .. k |-> f[2 * i][1]]
    BY <2>2, <2>3, EntriesFact
  <2> QED
    BY <1>3, <2>1, <2>2, <2>3, <2>4 DEF Yields
<1>4. CASE t # 0
  <2>1. t < Len(f) /\ Alternates(f, t) /\ f[t + 1][2] = 1
    BY <1>4 DEF Torn
  <2>2. PICK k \in Nat : t = 2 * k + 1
    BY <1>4 DEF Torn
  <2>3. 2 * k <= t /\ t <= Len(f) /\ t + 1 = 2 * k + 2
    BY <1>1, <2>1, <2>2
  <2>4. Whole(f, k) /\ 2 * k <= Len(f) /\ f[2 * k + 2][2] # 2
    BY <1>1, <1>2, <2>1, <2>3
  <2>5. Len(Entries(f)) = k /\ Entries(f) = [i \in 1 .. k |-> f[2 * i][1]]
    BY <2>4, EntriesFact
  <2> QED
    BY <1>4, <2>2, <2>4, <2>5 DEF Yields
<1> QED
  BY <1>3, <1>4

\* The first n pieces of a file.
LEMMA CutFact ==
    ASSUME NEW f \in Seq(Piece), NEW t \in Nat, NEW p \in Seq(Piece), NEW n \in 0 .. Len(f),
           t = 0 => Alternates(f, Len(f)), t # 0 => Torn(f, t),
           Len(p) = n, \A i \in 1 .. n : p[i] = f[i]
    PROVE  /\ t = 0 \/ t >= n => Alternates(p, Len(p))
           /\ t # 0 /\ ~ (t >= n) => Torn(p, t)
<1>1. Len(f) \in Nat /\ n \in Nat
  BY LenProperties
<1>2. CASE t = 0
  BY <1>1, <1>2, AlternatesPrefix
<1>3. CASE t # 0 /\ t >= n
  <2>1. Alternates(f, t) /\ n \in 0 .. t
    BY <1>1, <1>3 DEF Torn
  <2> QED
    BY <1>3, <2>1, AlternatesPrefix
<1>4. CASE t # 0 /\ ~ (t >= n)
  <2>1. Alternates(f, t) /\ t \in 0 .. t /\ \A i \in 1 .. t : p[i] = f[i]
    BY <1>1, <1>4 DEF Torn
  <2>2. Alternates(p, t)
    BY <2>1, AlternatesPrefix
  <2>3. t + 1 \in 1 .. n /\ t < Len(p)
    BY <1>1, <1>4
  <2> QED
    BY <1>4, <2>2, <2>3 DEF Torn
<1> QED
  BY <1>2, <1>3, <1>4
-----------------------------------------------------------------------------
(* The steps. *)

LEMMA Types ==
    ASSUME TypeOK
    PROVE  /\ file \in Seq(Piece) /\ Len(file) \in Nat /\ buffer \in Seq(Piece) /\ Len(buffer) \in Nat
           /\ \A z \in old \cup {buffer} : z \in Seq(Piece) /\ Len(z) \in Nat
           /\ \A z \in old : z # <<>>
           /\ synced \in 0 .. Len(file) /\ tear \in 0 .. Len(file) /\ late \in 0 .. Len(file) + 1
           /\ tear \in Nat /\ late \in Nat /\ synced \in Nat
           /\ lsn \in Seq(1 .. MaxWrites) /\ Len(lsn) \in Nat /\ DOMAIN lsn = 1 .. Len(lsn)
           /\ nextLsn \in 1 .. Len(lsn) + 1 /\ nextLsn \in Nat
           /\ \A w \in 1 .. Len(lsn) : lsn[w] \in Nat /\ lsn[w] >= 1
<1>1. /\ file \in Seq(Piece) /\ buffer \in Seq(Piece) /\ old \subseteq Seq(Piece) \ {<<>>}
      /\ synced \in 0 .. Len(file) /\ tear \in 0 .. Len(file) /\ late \in 0 .. Len(file) + 1
      /\ lsn \in Seq(1 .. MaxWrites) /\ nextLsn \in 1 .. Len(lsn) + 1
  BY DEF TypeOK
<1>2. Len(file) \in Nat /\ Len(buffer) \in Nat /\ Len(lsn) \in Nat /\ DOMAIN lsn = 1 .. Len(lsn)
  BY <1>1, LenProperties
<1>3. \A z \in old \cup {buffer} : z \in Seq(Piece) /\ Len(z) \in Nat
  BY <1>1, LenProperties
<1>4. \A w \in 1 .. Len(lsn) : lsn[w] \in 1 .. MaxWrites
  BY <1>1, ElementOfSeq
<1> QED
  BY <1>1, <1>2, <1>3, <1>4

\* The stream when db.current has nothing to write.
LEMMA StreamEmpty ==
    ASSUME file' \in Seq(Piece), buffer' = <<>>, OrderInv' PROVE StreamInv'
<1>1. Stream' = file'
  BY ConcatEmptySeq DEF Stream
<1>2. Len(file') \in Nat /\ Len(file') \in 0 .. Len(file')
  BY LenProperties
<1>3. ASSUME tear' = 0, late' = 0
      PROVE  /\ Ordered(file', Len(file'), lsn')
             /\ process' = "Up" => Below(file', Len(file'), lsn', nextLsn')
  BY <1>2, <1>3 DEF OrderInv
<1> QED
  BY <1>1, <1>3 DEF StreamInv

LEMMA InvInit == Init => Inv
<1> SUFFICES ASSUME Init PROVE Inv
  OBVIOUS
<1>1. /\ file = <<>> /\ synced = 0 /\ buffer = <<>> /\ old = {} /\ group = {}
      /\ nextLsn = 1 /\ lsn = <<>> /\ acked = {}
      /\ tear = 0 /\ late = 0 /\ cutStart = FALSE /\ stops = 0
      /\ \/ magic = "none" /\ mf = "none" /\ process = "Down" /\ sharing = FALSE
         \/ magic = "whole" /\ mf = "whole" /\ process = "Up" /\ sharing = TRUE
  BY DEF Init
<1>2. Len(<<>>) = 0 /\ DOMAIN <<>> = {} /\ <<>> \in Seq(Piece) /\ <<>> \in Seq(1 .. MaxWrites)
  OBVIOUS
<1>3. TypeOK
  <2>1. Len(lsn) <= MaxWrites /\ stops \in 0 .. MaxStops /\ nextLsn \in 1 .. Len(lsn) + 1
    BY <1>1, <1>2, WalAssumption
  <2>2. /\ file \in Seq(Piece) /\ buffer \in Seq(Piece) /\ lsn \in Seq(1 .. MaxWrites)
        /\ synced \in 0 .. Len(file) /\ tear \in 0 .. Len(file) /\ late \in 0 .. Len(file) + 1
    BY <1>1, <1>2
  <2>3. old \subseteq Seq(Piece) \ {<<>>} /\ group \cup acked \subseteq DOMAIN lsn
    BY <1>1
  <2> QED
    BY <1>1, <2>1, <2>2, <2>3 DEF TypeOK
<1>4. LifeInv /\ RefusedOnlyIfTorn
  BY <1>1 DEF LifeInv, RefusedOnlyIfTorn
<1>5. LsnBound /\ PieceInv /\ SyncInv
  BY <1>1, <1>2 DEF LsnBound, PieceInv, SyncInv
<1>6. FileInv /\ PendInv
  BY <1>1, <1>2 DEF FileInv, PendInv, Alternates, Fits, Owner
<1>7. OrderInv
  <2>1. \A n \in 0 .. Len(file) : n = 0
    BY <1>1, <1>2
  <2> QED
    BY <2>1 DEF OrderInv, Ordered, Below
<1>8. StreamInv
  <2>1. Len(Stream) = 0
    BY <1>1, <1>2, ConcatEmptySeq DEF Stream
  <2> QED
    BY <2>1 DEF StreamInv, Ordered, Below
<1> QED
  BY <1>3, <1>4, <1>5, <1>6, <1>7, <1>8 DEF Inv

LEMMA StartStep == ASSUME Inv, StartPristine \/ CreateWal \/ PersistManifest PROVE Inv'
<1>1. /\ TypeOK /\ LifeInv /\ LsnBound /\ PieceInv /\ FileInv /\ PendInv
      /\ OrderInv /\ StreamInv /\ SyncInv /\ RefusedOnlyIfTorn
      /\ UNCHANGED <<file, synced, handles, writeVars, history>>
  BY DEF Inv, StartPristine, CreateWal, PersistManifest, fileVars
<1>2. UNCHANGED <<sharing, buffer, old, group, lsn, nextLsn, acked, tear, late, cutStart, stops>>
  BY <1>1 DEF handles, writeVars, history
<1>3. /\ mf' \in {mf, "whole"} /\ magic' \in {magic, "whole"}
      /\ process' \in {"Refused", "Create", "Persist", "Up"} /\ process # "Up"
      /\ process' = "Up" => file = <<>>
  BY <1>1 DEF StartPristine, CreateWal, PersistManifest, fileVars, LifeInv
<1>4. TypeOK'
  BY <1>1, <1>2, <1>3 DEF TypeOK
<1>5. LsnBound' /\ PieceInv' /\ SyncInv' /\ FileInv' /\ PendInv'
  BY <1>1, <1>2 DEF LsnBound, PieceInv, SyncInv, FileInv, PendInv
<1>6. LifeInv' /\ RefusedOnlyIfTorn'
  BY <1>1, <1>2 DEF LifeInv, RefusedOnlyIfTorn, StartPristine, CreateWal, PersistManifest, fileVars
<1>7. OrderInv'
  <2> SUFFICES ASSUME NEW n \in 0 .. Len(file), tear = 0 \/ n <= tear, late = 0 \/ n < late
               PROVE  /\ Ordered(file, n, lsn)
                      /\ process' = "Up" => Below(file, n, lsn, nextLsn)
    BY <1>1, <1>2 DEF OrderInv
  <2>1. Ordered(file, n, lsn)
    BY <1>1 DEF OrderInv
  <2>2. file = <<>> => n = 0
    OBVIOUS
  <2> QED
    BY <1>3, <2>1, <2>2 DEF Below
<1>8. StreamInv'
  <2>1. file' \in Seq(Piece) /\ buffer' = <<>>
    BY <1>1, <1>2, <1>3 DEF TypeOK, LifeInv
  <2> QED
    BY <1>7, <2>1, StreamEmpty
<1> QED
  BY <1>4, <1>5, <1>6, <1>7, <1>8 DEF Inv

LEMMA OpenStep == ASSUME Inv, Open PROVE Inv'
<1>1. /\ TypeOK /\ LifeInv /\ LsnBound /\ PieceInv /\ FileInv /\ PendInv
      /\ OrderInv /\ StreamInv /\ SyncInv /\ RefusedOnlyIfTorn
      /\ process = "Down" /\ buffer = <<>> /\ mf # "none"
      /\ UNCHANGED <<magic, mf, file, synced, sharing, buffer, old, group, lsn, acked,
                     tear, late, cutStart, stops>>
  BY DEF Inv, LifeInv, Open, fileVars, handles, history
<1>2. /\ file \in Seq(Piece) /\ Len(file) \in Nat /\ tear \in Nat
      /\ DOMAIN lsn = 1 .. Len(lsn) /\ Len(lsn) \in Nat
      /\ \A w \in 1 .. Len(lsn) : lsn[w] \in Nat /\ lsn[w] >= 1
  BY <1>1, Types
<1>3. PICK k \in Nat : Yields(file, tear, k)
  BY <1>1, <1>2, YieldsFact DEF FileInv
<1>4. /\ 2 * k <= Len(file) /\ Len(Entries(file)) = k
      /\ Entries(file) = [i \in 1 .. k |-> file[2 * i][1]]
      /\ tear = 0 => Len(file) \in {2 * k, 2 * k + 1}
      /\ tear # 0 => tear = 2 * k + 1
  BY <1>3 DEF Yields
<1>5. LsnBound' /\ PieceInv' /\ SyncInv' /\ FileInv' /\ PendInv'
  BY <1>1 DEF LsnBound, PieceInv, SyncInv, FileInv, PendInv
<1>6. CASE process' = "Refused" /\ nextLsn' = nextLsn /\ (mf = "part" \/ magic # "whole" \/ Behind(file) > 1)
  <2>1. TypeOK' /\ LifeInv'
    BY <1>1, <1>6 DEF TypeOK, LifeInv
  <2>2. RefusedOnlyIfTorn'
    <3>1. tear = 0 => ~ (Behind(file) > 1)
      BY <1>2, <1>4 DEF Behind
    <3> QED
      BY <1>1, <1>6, <3>1 DEF LifeInv, RefusedOnlyIfTorn
  <2>3. OrderInv'
    BY <1>1, <1>6 DEF OrderInv
  <2>4. StreamInv'
    BY <1>1, <1>2, <2>3, StreamEmpty
  <2> QED
    BY <1>5, <2>1, <2>2, <2>3, <2>4 DEF Inv
<1>7. CASE /\ mf = "whole" /\ magic = "whole" /\ process' = "Up"
           /\ nextLsn' = IF Entries(file) = <<>> THEN 1 ELSE lsn[Last(Entries(file))] + 1
  <2>1. k = 0 => nextLsn' = 1
    BY <1>4, <1>7
  <2>2. ASSUME k # 0
        PROVE  /\ file[2 * k][1] \in 1 .. Len(lsn) /\ nextLsn' = lsn[file[2 * k][1]] + 1
               /\ 2 * k \in 1 .. Len(file)
    <3>1. k \in 1 .. k /\ 2 * k \in 1 .. Len(file)
      BY <1>2, <1>4, <2>2
    <3>2. Entries(file) # <<>> /\ Last(Entries(file)) = file[2 * k][1]
      BY <1>4, <2>2, <3>1 DEF Last
    <3> QED
      BY <1>1, <1>2, <1>7, <3>1, <3>2 DEF PieceInv
  <2>3. nextLsn' \in 1 .. Len(lsn) + 1
    <3>1. CASE k # 0
      <4>1. lsn[file[2 * k][1]] <= file[2 * k][1] /\ lsn[file[2 * k][1]] \in Nat
        BY <1>1, <1>2, <2>2, <3>1 DEF LsnBound
      <4> QED
        BY <1>2, <2>2, <3>1, <4>1
    <3> QED
      BY <1>2, <2>1, <3>1
  <2>4. TypeOK'
    <3>1. nextLsn' \in 1 .. Len(lsn') + 1
      BY <1>1, <2>3
    <3> QED
      BY <1>1, <1>7, <3>1 DEF TypeOK
  <2>5. LifeInv' /\ RefusedOnlyIfTorn'
    BY <1>1, <1>7 DEF LifeInv, RefusedOnlyIfTorn
  <2>6. OrderInv'
    <3> SUFFICES ASSUME NEW n \in 0 .. Len(file), tear = 0 \/ n <= tear, late = 0 \/ n < late
                 PROVE  /\ Ordered(file, n, lsn)
                        /\ late = 0 => Below(file, n, lsn, nextLsn')
      BY <1>1 DEF OrderInv
    <3>1. Ordered(file, n, lsn)
      BY <1>1 DEF OrderInv
    <3>2. ASSUME late = 0, NEW i \in 1 .. n, file[i][2] = 2
          PROVE  lsn[file[i][1]] < nextLsn'
      <4>0. i \in Nat /\ i <= n /\ n \in Nat /\ i \in 1 .. Len(file)
        BY <1>2
      <4>1. PICK j \in Nat : i = 2 * j \/ i = 2 * j + 1
        BY <4>0, HalfFact
      <4>2. i # 2 * j + 1
        <5> SUFFICES ASSUME i = 2 * j + 1 PROVE FALSE
          OBVIOUS
        <5>1. PICK m \in Nat : Alternates(file, m) /\ i <= m
          <6>1. CASE tear = 0
            BY <1>1, <1>2, <4>0, <6>1 DEF FileInv
          <6>2. CASE tear # 0
            BY <1>1, <1>2, <4>0, <6>2 DEF FileInv, Torn
          <6> QED
            BY <6>1, <6>2
        <5>2. j + 1 \in 1 .. m /\ 2 * (j + 1) - 1 <= m /\ 2 * (j + 1) - 1 = i
          BY <5>1
        <5>3. file[2 * (j + 1) - 1][2] = 1
          BY <5>1, <5>2 DEF Alternates
        <5> QED
          BY <3>2, <5>2, <5>3
      <4>3. i <= 2 * k /\ k # 0
        <5>1. i <= 2 * k + 1
          BY <1>2, <1>4, <4>0
        <5> QED
          BY <4>0, <4>1, <4>2, <5>1
      <4>4. Ordered(file, 2 * k, lsn)
        <5>1. 2 * k \in 0 .. Len(file) /\ (tear = 0 \/ 2 * k <= tear)
          BY <1>2, <1>4
        <5> QED
          BY <1>1, <3>2, <5>1 DEF OrderInv
      <4>5. i = 2 * k \/ lsn[file[i][1]] < lsn[file[2 * k][1]]
        <5>1. i \in 1 .. 2 * k /\ 2 * k \in 1 .. 2 * k
          BY <4>0, <4>3
        <5> QED
          BY <3>2, <4>0, <4>4, <5>1 DEF Ordered
      <4>6. lsn[file[i][1]] \in Nat /\ lsn[file[2 * k][1]] \in Nat
        <5>1. file[i][1] \in 1 .. Len(lsn)
          BY <1>1, <1>2, <4>0 DEF PieceInv
        <5> QED
          BY <1>2, <2>2, <4>3, <5>1
      <4> QED
        BY <2>2, <4>3, <4>5, <4>6
    <3> QED
      BY <3>1, <3>2 DEF Below
  <2>7. StreamInv'
    BY <1>1, <1>2, <2>6, StreamEmpty
  <2> QED
    BY <1>5, <2>4, <2>5, <2>6, <2>7 DEF Inv
<1> QED
  BY <1>6, <1>7 DEF Open

LEMMA StartWriteStep == ASSUME Inv, StartWrite PROVE Inv'
<1>1. /\ TypeOK /\ LifeInv /\ LsnBound /\ PieceInv /\ FileInv /\ PendInv
      /\ OrderInv /\ StreamInv /\ SyncInv /\ RefusedOnlyIfTorn
      /\ UNCHANGED <<magic, mf, file, synced, sharing, old, acked, process,
                     tear, late, cutStart, stops>>
  BY DEF Inv, StartWrite, fileVars, history
<1>2. PICK n \in 1 .. MaxGroup : /\ NewGroup(n)
                                 /\ buffer' = buffer \o Encoded(n) /\ group' = Group(n)
  BY DEF StartWrite
<1>3. n \in Nat /\ process = "Up" /\ group = {} /\ Len(lsn) + n <= MaxWrites
  BY <1>2, WalAssumption DEF NewGroup
<1>4. /\ file \in Seq(Piece) /\ Len(file) \in Nat /\ buffer \in Seq(Piece) /\ Len(buffer) \in Nat
      /\ \A z \in old \cup {buffer} : z \in Seq(Piece) /\ Len(z) \in Nat
      /\ Len(lsn) \in Nat /\ DOMAIN lsn = 1 .. Len(lsn) /\ nextLsn \in Nat
      /\ \A w \in 1 .. Len(lsn) : lsn[w] \in Nat /\ lsn[w] >= 1
  BY <1>1, Types
<1>5. PICK e \in Seq(Piece) : e = Encoded(n) /\ IsGroup(e, Len(lsn), n)
  BY <1>1, <1>3, EncodedFact
<1>6. /\ MoreLsns(lsn, n, nextLsn, lsn') /\ nextLsn' = nextLsn + n
      /\ lsn' \in Seq(1 .. MaxWrites) /\ Len(lsn') <= MaxWrites
      /\ DOMAIN lsn' = 1 .. Len(lsn) + n
      /\ nextLsn' \in 1 .. Len(lsn') + 1 /\ LsnBound'
  BY <1>1, <1>2, <1>3, LsnFact
<1>7. IsConcat(buffer', buffer, e, Piece)
  BY <1>2, <1>4, <1>5, ConcatIs
<1>8. /\ buffer' \in Seq(Piece) /\ Len(buffer') = Len(buffer) + 2 * n /\ Len(e) = 2 * n
      /\ \A i \in 1 .. Len(buffer) : buffer'[i] = buffer[i]
      /\ \A i \in 1 .. 2 * n : buffer'[Len(buffer) + i] = e[i]
  BY <1>5, <1>7 DEF IsConcat, IsGroup
<1>9. TypeOK'
  <2>1. Group(n) \subseteq DOMAIN lsn' /\ DOMAIN lsn \subseteq DOMAIN lsn'
    BY <1>3, <1>4, <1>6 DEF Group
  <2>2. group' \cup acked' \subseteq DOMAIN lsn'
    BY <1>1, <1>2, <2>1 DEF TypeOK
  <2> QED
    BY <1>1, <1>6, <1>8, <2>2 DEF TypeOK
<1>10. LifeInv' /\ RefusedOnlyIfTorn' /\ FileInv'
  BY <1>1, <1>3 DEF LifeInv, RefusedOnlyIfTorn, FileInv
<1>11. PieceInv'
  <2>1. ASSUME NEW i \in 1 .. Len(buffer') PROVE buffer'[i][1] \in DOMAIN lsn'
    <3>1. CASE i \in 1 .. Len(buffer)
      <4>1. buffer'[i] = buffer[i] /\ buffer[i][1] \in DOMAIN lsn
        BY <1>1, <1>8, <3>1 DEF PieceInv
      <4>2. DOMAIN lsn \subseteq DOMAIN lsn'
        BY <1>3, <1>4, <1>6
      <4> QED
        BY <4>1, <4>2
    <3>2. CASE i \notin 1 .. Len(buffer)
      <4>1. i - Len(buffer) \in 1 .. 2 * n /\ i - Len(buffer) \in Nat /\ Len(buffer) + (i - Len(buffer)) = i
        BY <1>3, <1>4, <1>8, <3>2
      <4>2. buffer'[i] = e[i - Len(buffer)]
        BY <1>8, <4>1
      <4>3. PICK m \in Nat : i - Len(buffer) = 2 * m \/ i - Len(buffer) = 2 * m + 1
        BY <4>1, HalfFact
      <4>4. CASE i - Len(buffer) = 2 * m
        <5>1. m \in 1 .. n
          BY <4>1, <4>4
        <5>2. e[2 * m] = <<Len(lsn) + m, 2>>
          BY <1>5, <5>1 DEF IsGroup
        <5> QED
          BY <1>4, <1>6, <4>2, <4>4, <5>1, <5>2
      <4>5. CASE i - Len(buffer) = 2 * m + 1
        <5>1. m + 1 \in 1 .. n /\ 2 * (m + 1) - 1 = 2 * m + 1
          BY <4>1, <4>5
        <5>2. e[2 * (m + 1) - 1] = <<Len(lsn) + (m + 1), 1>>
          BY <1>5, <5>1 DEF IsGroup
        <5>3. buffer'[i][1] = Len(lsn) + (m + 1)
          BY <4>2, <4>5, <5>1, <5>2
        <5> QED
          BY <1>4, <1>6, <5>1, <5>3
      <4> QED
        BY <4>3, <4>4, <4>5
    <3> QED
      BY <3>1, <3>2
  <2>2. DOMAIN lsn \subseteq DOMAIN lsn'
    BY <1>3, <1>4, <1>6
  <2> QED
    BY <1>1, <2>1, <2>2 DEF PieceInv
<1>12. PendInv'
  <2> SUFFICES ASSUME tear = 0
               PROVE  /\ \A z \in old \cup {buffer'} : Fits(file, z)
                      /\ Owner(buffer') => \A b \in old : ~ Owner(b)
                      /\ \A b, c \in old : Owner(b) /\ Owner(c) => b = c
    BY <1>1 DEF PendInv
  <2>1. Alternates(e, Len(e)) /\ Even(e)
    BY <1>3, <1>4, <1>5, GroupAlternates
  <2>2. Fits(file, buffer)
    BY <1>1 DEF PendInv
  <2>3. Fits(file, buffer \o e) /\ (Owner(buffer \o e) => Owner(buffer))
    BY <1>4, <2>1, <2>2, FitsAppend
  <2> QED
    BY <1>1, <1>2, <1>5, <2>3 DEF PendInv
<1>13. ASSUME NEW x \in Nat, x < nextLsn PROVE x < nextLsn'
  BY <1>3, <1>4, <1>6, <1>13
<1>14. OrderInv'
  <2> SUFFICES ASSUME NEW m \in 0 .. Len(file), tear = 0 \/ m <= tear, late = 0 \/ m < late
               PROVE  /\ Ordered(file, m, lsn')
                      /\ late = 0 => Below(file, m, lsn', nextLsn')
    BY <1>1 DEF OrderInv
  <2>1. Ordered(file, m, lsn) /\ (late = 0 => Below(file, m, lsn, nextLsn))
    BY <1>1, <1>3 DEF OrderInv
  <2>2. \A i \in 1 .. m : file[i][1] \in 1 .. Len(lsn)
    BY <1>1, <1>4 DEF PieceInv
  <2>3. \A i \in 1 .. m : lsn'[file[i][1]] = lsn[file[i][1]] /\ lsn[file[i][1]] \in Nat
    BY <1>6, <2>2 DEF MoreLsns
  <2>4. m \in Nat /\ m \in 0 .. m
    BY <1>4
  <2>5. /\ Ordered(file, m, lsn')
        /\ Below(file, m, lsn, nextLsn) => Below(file, m, lsn', nextLsn)
    BY <2>1, <2>3, <2>4, OrderedFact
  <2>6. Below(file, m, lsn', nextLsn) => Below(file, m, lsn', nextLsn')
    BY <1>13, <2>3 DEF Below
  <2> QED
    BY <2>1, <2>5, <2>6
<1>15. StreamInv'
  <2> SUFFICES ASSUME tear = 0, late = 0
               PROVE  /\ Ordered(Stream', Len(Stream'), lsn')
                      /\ Below(Stream', Len(Stream'), lsn', nextLsn')
    BY <1>1 DEF StreamInv
  <2>1. IsConcat(Stream, file, buffer, Piece)
    BY <1>4, ConcatIs DEF Stream
  <2>2. Stream \in Seq(Piece)
    BY <2>1 DEF IsConcat
  <2>3. Stream' = Stream \o e
    <3>1. Associates(file, buffer, e)
      BY <1>4, AssociatesFact
    <3> QED
      BY <1>1, <1>2, <1>5, <3>1 DEF Associates, Stream
  <2>4. \A i \in 1 .. Len(Stream) : Stream[i][1] \in DOMAIN lsn
    <3> SUFFICES ASSUME NEW i \in 1 .. Len(Stream) PROVE Stream[i][1] \in DOMAIN lsn
      OBVIOUS
    <3>1. CASE i \in 1 .. Len(file)
      BY <1>1, <2>1, <3>1 DEF IsConcat, PieceInv
    <3>2. CASE i \notin 1 .. Len(file)
      <4>1. i - Len(file) \in 1 .. Len(buffer) /\ Len(file) + (i - Len(file)) = i
        BY <1>4, <2>1, <3>2 DEF IsConcat
      <4>2. Stream[i] = buffer[i - Len(file)]
        BY <2>1, <4>1 DEF IsConcat
      <4> QED
        BY <1>1, <4>1, <4>2 DEF PieceInv
    <3> QED
      BY <3>1, <3>2
  <2>5. Ordered(Stream, Len(Stream), lsn) /\ Below(Stream, Len(Stream), lsn, nextLsn)
    BY <1>1, <1>3 DEF StreamInv
  <2>6. /\ Ordered(Stream \o e, Len(Stream \o e), lsn')
        /\ Below(Stream \o e, Len(Stream \o e), lsn', nextLsn + n)
    BY <1>3, <1>4, <1>5, <1>6, <2>2, <2>4, <2>5, OrderedAppend
  <2> QED
    BY <1>6, <2>3, <2>6
<1>16. SyncInv'
  <2>1. ASSUME NEW w \in Group(n) PROVE \E i \in 1 .. Len(buffer') : buffer'[i] = <<w, 2>>
    <3>1. w - Len(lsn) \in 1 .. n /\ Len(lsn) + (w - Len(lsn)) = w
      BY <1>3, <1>4 DEF Group
    <3>2. e[2 * (w - Len(lsn))] = <<w, 2>>
      BY <1>5, <3>1 DEF IsGroup
    <3>3. 2 * (w - Len(lsn)) \in 1 .. 2 * n
      BY <3>1
    <3>4. Len(buffer) + 2 * (w - Len(lsn)) \in 1 .. Len(buffer')
      BY <1>4, <1>8, <3>3
    <3> QED
      BY <1>8, <3>2, <3>3, <3>4
  <2> QED
    BY <1>1, <1>2, <2>1 DEF SyncInv
<1> QED
  BY <1>6, <1>9, <1>10, <1>11, <1>12, <1>14, <1>15, <1>16 DEF Inv

\* One write(2) of the pieces a of what the BufWriter with z has to write: what becomes of
\* the file, of the rest r, and of the other BufWriters.
LEMMA PushFact ==
    ASSUME Inv, NEW z \in old \cup {buffer}, NEW c, NEW a, NEW r,
           Split(Piece, z, c, a, r), AppendFile(a)
    PROVE  /\ file' \in Seq(Piece) /\ IsConcat(file', file, a, Piece) /\ a \in Seq(Piece)
           /\ tear' \in 0 .. Len(file') /\ tear' \in {tear, Len(file)}
           /\ tear # 0 => tear' = tear
           /\ FileInv'
           /\ \A i \in 1 .. Len(file') : file'[i][1] \in DOMAIN lsn
           /\ \A i \in 1 .. Len(r) : r[i][1] \in DOMAIN lsn
           /\ tear' = 0 =>
                /\ Fits(file', r)
                /\ \A o \in old \cup {buffer} :
                     /\ Owner(o) => Owner(z) \/ a = <<>>
                     /\ (Owner(o) /\ a # <<>>) \/ Fits(file', o)
<1>1. TypeOK /\ PieceInv /\ FileInv /\ PendInv /\ file' = file \o a /\ tear' = Tear(a)
  BY DEF Inv, AppendFile
<1>2. /\ file \in Seq(Piece) /\ Len(file) \in Nat /\ z \in Seq(Piece) /\ Len(z) \in Nat
      /\ \A o \in old \cup {buffer} : o \in Seq(Piece)
      /\ tear \in 0 .. Len(file) /\ tear \in Nat
  BY <1>1, Types
<1>3. /\ c \in Nat /\ c <= Len(z) /\ a \in Seq(Piece) /\ r \in Seq(Piece) /\ Len(a) = c
      /\ Len(r) = Len(z) - c
      /\ \A i \in 1 .. c : a[i] = z[i]
      /\ \A i \in 1 .. Len(r) : r[i] = z[c + i]
  <2>1. /\ c \in Nat /\ c <= Len(z) /\ a \in Seq(Piece) /\ r \in Seq(Piece)
        /\ Segment(a, z, 0, c) /\ Segment(r, z, c, Len(z) - c)
    BY DEF Split
  <2>2. \A i \in 1 .. c : a[i] = z[0 + i]
    BY <2>1 DEF Segment
  <2>3. \A i \in 1 .. c : 0 + i = i
    OBVIOUS
  <2> QED
    BY <2>1, <2>2, <2>3 DEF Segment
<1>4. IsConcat(file', file, a, Piece)
  BY <1>1, <1>2, <1>3, ConcatIs
<1>5. /\ file' \in Seq(Piece) /\ Len(file') = Len(file) + c
      /\ \A i \in 1 .. Len(file) : file'[i] = file[i]
      /\ \A i \in 1 .. c : file'[Len(file) + i] = a[i]
  BY <1>3, <1>4 DEF IsConcat
<1>6. /\ tear # 0 => tear' = tear
      /\ tear = 0 => tear' = IF Tears(file, a) THEN Len(file) ELSE 0
  BY <1>1 DEF Tear, Tears
<1>7. Tears(file, a) => Len(file) # 0
  BY <1>2, PieceFact DEF Tears
<1>8. tear' \in 0 .. Len(file') /\ tear' \in {tear, Len(file)}
  BY <1>2, <1>3, <1>5, <1>6
<1>9. \A i \in 1 .. Len(r) : r[i][1] \in DOMAIN lsn
  <2>1. \A i \in 1 .. Len(r) : c + i \in 1 .. Len(z)
    BY <1>2, <1>3
  <2> QED
    BY <1>1, <1>3, <2>1 DEF PieceInv
<1>10. ASSUME NEW i \in 1 .. Len(file') PROVE file'[i][1] \in DOMAIN lsn
  <2>1. CASE i \in 1 .. Len(file)
    BY <1>1, <1>5, <2>1 DEF PieceInv
  <2>2. CASE i \notin 1 .. Len(file)
    <3>1. /\ i - Len(file) \in 1 .. c /\ Len(file) + (i - Len(file)) = i
          /\ i - Len(file) \in 1 .. Len(z)
      BY <1>2, <1>3, <1>5, <2>2
    <3>2. file'[i] = z[i - Len(file)]
      BY <1>3, <1>5, <3>1
    <3> QED
      BY <1>1, <3>1, <3>2 DEF PieceInv
  <2> QED
    BY <2>1, <2>2
<1>11. ASSUME tear = 0
       PROVE  /\ Tears(file, a) => Torn(file', Len(file))
              /\ ~ Tears(file, a) => /\ Alternates(file', Len(file')) /\ Fits(file', r)
                                     /\ a = <<>> \/ Owner(z) \/ Even(file)
  <2>1. Alternates(file, Len(file)) /\ Fits(file, z)
    BY <1>1, <1>11 DEF FileInv, PendInv
  <2> QED
    BY <1>1, <1>2, <2>1, AppendFact
<1>12. FileInv'
  <2>1. CASE tear = 0 /\ Tears(file, a)
    BY <1>6, <1>7, <1>11, <2>1 DEF FileInv
  <2>2. CASE tear = 0 /\ ~ Tears(file, a)
    BY <1>6, <1>11, <2>2 DEF FileInv
  <2>3. CASE tear # 0
    <3>1. Torn(file, tear)
      BY <1>1, <2>3 DEF FileInv
    <3>2. Torn(file \o a, tear)
      BY <1>2, <1>3, <3>1, TornExtends
    <3> QED
      BY <1>1, <1>6, <2>3, <3>2 DEF FileInv
  <2> QED
    BY <2>1, <2>2, <2>3
<1>13. ASSUME tear' = 0
       PROVE  /\ Fits(file', r)
              /\ \A o \in old \cup {buffer} :
                   /\ Owner(o) => Owner(z) \/ a = <<>>
                   /\ (Owner(o) /\ a # <<>>) \/ Fits(file', o)
  <2>1. tear = 0 /\ ~ Tears(file, a)
    BY <1>6, <1>7, <1>13
  <2>2. Fits(file', r) /\ (a = <<>> \/ Owner(z) \/ Even(file))
    BY <1>11, <2>1
  <2>3. ASSUME NEW o \in old \cup {buffer} PROVE o \in Seq(Piece) /\ Fits(file, o)
    BY <1>1, <1>2, <2>1 DEF PendInv
  <2>4. \A o \in old \cup {buffer} : Owner(o) => Owner(z) \/ a = <<>>
    BY <1>2, <2>2, <2>3, OwnerFact
  <2>5. a = <<>> => file' = file
    BY <1>1, <1>2, ConcatEmptySeq
  <2>6. \A o \in old \cup {buffer} : ~ Owner(o) => Fits(file', o)
    BY <2>3 DEF Fits
  <2> QED
    BY <2>2, <2>3, <2>4, <2>5, <2>6
<1> QED
  BY <1>3, <1>4, <1>5, <1>6, <1>8, <1>9, <1>10, <1>12, <1>13

\* The order of the file, where the next pieces go on with the stream or come late.
LEMMA OrderPush ==
    ASSUME TypeOK, OrderInv, StreamInv, NEW a \in Seq(Piece), IsConcat(file', file, a, Piece),
           tear' \in {tear, Len(file)}, tear # 0 => tear' = tear, UNCHANGED <<lsn, nextLsn>>,
           process' = "Up" => process = "Up",
           \/ late' = late
           \/ late = 0 /\ late' = Len(file) + 1
           \/ late' = 0 /\ late > Len(file') /\ process' # "Up",
           late' = 0 => Len(file') <= Len(Stream) /\ \A i \in 1 .. Len(file') : file'[i] = Stream[i]
    PROVE  OrderInv'
<1>1. /\ Len(file) \in Nat /\ tear \in 0 .. Len(file) /\ late \in 0 .. Len(file) + 1
      /\ Len(a) \in Nat /\ Len(file') = Len(file) + Len(a)
      /\ \A i \in 1 .. Len(file) : file'[i] = file[i]
  BY Types, LenProperties DEF IsConcat
<1> SUFFICES ASSUME NEW n \in 0 .. Len(file'), tear' = 0 \/ n <= tear', late' = 0 \/ n < late'
             PROVE  /\ Ordered(file', n, lsn)
                    /\ late' = 0 /\ process' = "Up" => Below(file', n, lsn, nextLsn)
  BY DEF OrderInv
<1>2. n \in Nat
  BY <1>1
<1>3. CASE n <= Len(file)
  <2>1. n \in 0 .. Len(file) /\ (tear = 0 \/ n <= tear) /\ (late = 0 \/ n < late)
    BY <1>1, <1>2, <1>3
  <2>2. /\ Ordered(file, n, lsn)
        /\ late = 0 /\ process = "Up" => Below(file, n, lsn, nextLsn)
    BY <2>1 DEF OrderInv
  <2>3. n \in 0 .. n /\ \A i \in 1 .. n : file'[i] = file[i]
    BY <1>1, <1>2, <1>3
  <2>4. /\ Ordered(file', n, lsn)
        /\ \A next : Below(file, n, lsn, next) => Below(file', n, lsn, next)
    BY <1>2, <2>2, <2>3, OrderedFact
  <2>5. late' = 0 /\ process' = "Up" => late = 0 /\ process = "Up"
    BY <1>1
  <2> QED
    BY <2>2, <2>4, <2>5
<1>4. CASE ~ (n <= Len(file))
  <2>1. tear = 0 /\ late' = 0 /\ late = 0
    BY <1>1, <1>2, <1>4
  <2>2. /\ Ordered(Stream, Len(Stream), lsn)
        /\ process = "Up" => Below(Stream, Len(Stream), lsn, nextLsn)
    BY <2>1 DEF StreamInv
  <2>3. /\ Len(Stream) \in Nat /\ n \in 0 .. Len(Stream)
        /\ \A i \in 1 .. n : file'[i] = Stream[i]
    <3>1. Len(Stream) \in Nat
      BY Types, ConcatFact DEF Stream
    <3> QED
      BY <1>1, <1>2, <2>1, <3>1
  <2>4. /\ Ordered(file', n, lsn)
        /\ \A next : Below(Stream, Len(Stream), lsn, next) => Below(file', n, lsn, next)
    BY <2>2, <2>3, OrderedFact
  <2> QED
    BY <2>2, <2>4
<1> QED
  BY <1>3, <1>4

LEMMA WriteOutStep == ASSUME Inv, WriteOut PROVE Inv'
<1>1. /\ TypeOK /\ LifeInv /\ LsnBound /\ PieceInv /\ FileInv /\ PendInv
      /\ OrderInv /\ StreamInv /\ SyncInv /\ RefusedOnlyIfTorn
      /\ UNCHANGED <<magic, mf, synced, sharing, old, group, lsn, nextLsn, acked, process,
                     late, cutStart, stops>>
  BY DEF Inv, WriteOut, writeVars
<1>2. PICK cut \in 1 .. Len(buffer) :
        /\ AppendFile(SubSeq(buffer, 1, cut)) /\ buffer' = SubSeq(buffer, cut + 1, Len(buffer))
  BY DEF WriteOut
<1>3. /\ file \in Seq(Piece) /\ Len(file) \in Nat /\ buffer \in Seq(Piece) /\ Len(buffer) \in Nat
      /\ \A z \in old \cup {buffer} : z \in Seq(Piece)
      /\ synced \in 0 .. Len(file) /\ late \in 0 .. Len(file) + 1
  BY <1>1, Types
<1> DEFINE a == SubSeq(buffer, 1, cut)
<1>4. Split(Piece, buffer, cut, a, buffer')
  <2>1. cut \in 0 .. Len(buffer)
    BY <1>3
  <2> QED
    BY <1>2, <1>3, <2>1, SplitFact
<1>5. AppendFile(a) /\ file' = file \o a
  BY <1>2 DEF AppendFile
<1> HIDE DEF a
<1>6. /\ a \in Seq(Piece) /\ buffer' \in Seq(Piece) /\ Len(a) = cut /\ a # <<>>
      /\ Len(buffer') = Len(buffer) - cut
      /\ \A i \in 1 .. cut : a[i] = buffer[0 + i]
      /\ \A i \in 1 .. Len(buffer) - cut : buffer'[i] = buffer[cut + i]
  <2>1. a \in Seq(Piece) /\ buffer' \in Seq(Piece) /\ Segment(a, buffer, 0, cut)
        /\ Segment(buffer', buffer, cut, Len(buffer) - cut)
    BY <1>4 DEF Split
  <2>2. Len(a) = cut /\ cut # 0
    BY <2>1 DEF Segment
  <2>3. a # <<>>
    BY <2>1, <2>2, PieceFact
  <2> QED
    BY <2>1, <2>2, <2>3 DEF Segment
<1>7. /\ file' \in Seq(Piece) /\ IsConcat(file', file, a, Piece)
      /\ tear' \in 0 .. Len(file') /\ tear' \in {tear, Len(file)}
      /\ tear # 0 => tear' = tear
      /\ FileInv'
      /\ \A i \in 1 .. Len(file') : file'[i][1] \in DOMAIN lsn
      /\ \A i \in 1 .. Len(buffer') : buffer'[i][1] \in DOMAIN lsn
      /\ tear' = 0 =>
           /\ Fits(file', buffer')
           /\ \A o \in old \cup {buffer} :
                /\ Owner(o) => Owner(buffer) \/ a = <<>>
                /\ (Owner(o) /\ a # <<>>) \/ Fits(file', o)
  BY <1>4, <1>5, PushFact
<1>8. /\ Len(file') = Len(file) + cut /\ \A i \in 1 .. Len(file) : file'[i] = file[i]
      /\ \A i \in 1 .. cut : file'[Len(file) + i] = a[i]
  BY <1>6, <1>7 DEF IsConcat
<1>9. TypeOK'
  <2>1. synced' \in 0 .. Len(file') /\ late' \in 0 .. Len(file') + 1
    BY <1>1, <1>3, <1>8
  <2> QED
    BY <1>1, <1>6, <1>7, <2>1 DEF TypeOK
<1>10. process = "Up" /\ group # {}
  BY <1>1 DEF WriteOut, LifeInv
<1>11. LifeInv' /\ RefusedOnlyIfTorn' /\ LsnBound'
  <2>1. mf = "whole"
    BY <1>1, <1>10 DEF LifeInv
  <2> QED
    BY <1>1, <1>10, <2>1 DEF LifeInv, RefusedOnlyIfTorn, LsnBound
<1>12. PieceInv'
  BY <1>1, <1>7 DEF PieceInv
<1>13. PendInv'
  <2> SUFFICES ASSUME tear' = 0
               PROVE  /\ \A z \in old \cup {buffer'} : Fits(file', z)
                      /\ \A b \in old : ~ Owner(b)
    BY <1>1 DEF PendInv
  <2>1. tear = 0
    BY <1>7
  <2>2. \A b \in old : ~ Owner(b)
    BY <1>1, <1>6, <1>7, <2>1 DEF PendInv
  <2> QED
    BY <1>6, <1>7, <2>2
<1>14. Moved(Piece, file, buffer, cut, a, buffer')
  BY <1>3, <1>4, JoinFact
<1>15. Stream' = Stream
  BY <1>5, <1>14 DEF Moved, Stream
<1>16. Len(file') <= Len(Stream) /\ \A i \in 1 .. Len(file') : file'[i] = Stream[i]
  <2>1. Segment(file', Stream, 0, Len(file) + cut)
    BY <1>5, <1>14 DEF Moved, Stream
  <2>2. \A i \in 1 .. Len(file) + cut : file'[i] = Stream[0 + i]
    BY <2>1 DEF Segment
  <2>3. IsConcat(Stream, file, buffer, Piece)
    BY <1>3, ConcatIs DEF Stream
  <2> QED
    BY <1>3, <1>8, <2>2, <2>3 DEF IsConcat
<1>17. OrderInv'
  BY <1>1, <1>6, <1>7, <1>16, OrderPush
<1>18. StreamInv'
  <2>1. tear' = 0 => tear = 0
    BY <1>7
  <2> QED
    BY <1>1, <1>15, <2>1 DEF StreamInv
<1>19. SyncInv'
  <2>1. ASSUME NEW w \in acked PROVE \E i \in 1 .. synced : file'[i] = <<w, 2>>
    <3>1. PICK i \in 1 .. synced : file[i] = <<w, 2>>
      BY <1>1 DEF SyncInv
    <3>2. i \in 1 .. Len(file)
      BY <1>3
    <3> QED
      BY <1>8, <3>1, <3>2
  <2>2. ASSUME NEW w \in group
        PROVE  \/ \E i \in 1 .. Len(file') : file'[i] = <<w, 2>>
               \/ \E i \in 1 .. Len(buffer') : buffer'[i] = <<w, 2>>
    <3>1. CASE \E i \in 1 .. Len(file) : file[i] = <<w, 2>>
      <4>1. \A i \in 1 .. Len(file) : i \in 1 .. Len(file')
        BY <1>3, <1>8
      <4> QED
        BY <1>8, <3>1, <4>1
    <3>2. CASE \E i \in 1 .. Len(buffer) : buffer[i] = <<w, 2>>
      <4>1. PICK i \in 1 .. Len(buffer) : buffer[i] = <<w, 2>>
        BY <3>2
      <4>2. CASE i <= cut
        <5>1. i \in 1 .. cut /\ Len(file) + i \in 1 .. Len(file') /\ 0 + i = i
          BY <1>3, <1>8, <4>2
        <5>2. file'[Len(file) + i] = <<w, 2>>
          BY <1>6, <1>8, <4>1, <5>1
        <5> QED
          BY <5>1, <5>2
      <4>3. CASE ~ (i <= cut)
        <5>1. i - cut \in 1 .. Len(buffer) - cut /\ cut + (i - cut) = i
          BY <1>3, <4>3
        <5>2. buffer'[i - cut] = <<w, 2>> /\ i - cut \in 1 .. Len(buffer')
          BY <1>6, <4>1, <5>1
        <5> QED
          BY <5>2
      <4> QED
        BY <4>2, <4>3
    <3> QED
      BY <1>1, <3>1, <3>2 DEF SyncInv
  <2> QED
    BY <1>1, <2>1, <2>2 DEF SyncInv
<1> QED
  BY <1>9, <1>11, <1>12, <1>7, <1>13, <1>17, <1>18, <1>19 DEF Inv

LEMMA SyncStep == ASSUME Inv, Sync PROVE Inv'
<1>1. /\ TypeOK /\ LifeInv /\ LsnBound /\ PieceInv /\ FileInv /\ PendInv
      /\ OrderInv /\ StreamInv /\ SyncInv /\ RefusedOnlyIfTorn
      /\ buffer = <<>> /\ synced' = Len(file) /\ acked' = acked \cup group /\ group' = {}
      /\ UNCHANGED <<magic, mf, file, sharing, buffer, old, lsn, nextLsn, process,
                     tear, late, cutStart, stops>>
  BY DEF Inv, Sync, handles, history
<1>2. Len(file) \in Nat /\ synced \in 0 .. Len(file)
  BY <1>1, Types
<1>3. TypeOK'
  <2>1. Len(file) \in 0 .. Len(file)
    BY <1>2
  <2> QED
    BY <1>1, <2>1 DEF TypeOK
<1>4. LifeInv' /\ LsnBound' /\ PieceInv' /\ FileInv' /\ PendInv' /\ RefusedOnlyIfTorn'
  BY <1>1 DEF LifeInv, LsnBound, PieceInv, FileInv, PendInv, RefusedOnlyIfTorn
<1>5. OrderInv' /\ StreamInv'
  BY <1>1 DEF OrderInv, StreamInv, Stream
<1>6. SyncInv'
  <2>1. \A w \in acked : \E i \in 1 .. Len(file) : file[i] = <<w, 2>>
    <3>1. \A i \in 1 .. synced : i \in 1 .. Len(file)
      BY <1>2
    <3> QED
      BY <1>1, <3>1 DEF SyncInv
  <2>2. \A w \in group : \E i \in 1 .. Len(file) : file[i] = <<w, 2>>
    <3>1. \A i \in 1 .. Len(buffer) : FALSE
      BY <1>1
    <3> QED
      BY <1>1, <3>1 DEF SyncInv
  <2> QED
    BY <1>1, <2>1, <2>2 DEF SyncInv
<1> QED
  BY <1>3, <1>4, <1>5, <1>6 DEF Inv

\* Only what db.current has still to write is cut, if anything, by whole entries.
LEMMA WriteFailsStep == ASSUME Inv, WriteFails PROVE Inv'
<1>1. /\ TypeOK /\ LifeInv /\ LsnBound /\ PieceInv /\ FileInv /\ PendInv
      /\ OrderInv /\ StreamInv /\ SyncInv /\ RefusedOnlyIfTorn
      /\ group # {} /\ group' = {}
      /\ UNCHANGED <<magic, mf, file, synced, sharing, old, lsn, nextLsn, acked, process,
                     tear, late, cutStart, stops>>
  BY DEF Inv, WriteFails, fileVars, history
<1>2. /\ file \in Seq(Piece) /\ Len(file) \in Nat /\ buffer \in Seq(Piece) /\ Len(buffer) \in Nat
      /\ Len(lsn) \in Nat /\ DOMAIN lsn = 1 .. Len(lsn)
  BY <1>1, Types
<1>3. PICK n \in Nat :
        /\ n <= Len(buffer) /\ buffer' \in Seq(Piece) /\ Len(buffer') = n
        /\ \A i \in 1 .. n : buffer'[i] = buffer[i]
        /\ Even(buffer) => Even(buffer')
        /\ (\E k \in Nat : Len(buffer) = n + 2 * k) \/ buffer' = <<>>
  <2>1. CASE buffer' = buffer
    <3>1. Len(buffer) <= Len(buffer) /\ Len(buffer) = Len(buffer) + 2 * 0 /\ 0 \in Nat
      BY <1>2
    <3>2. \E k \in Nat : Len(buffer) = Len(buffer) + 2 * k
      BY <3>1
    <3>3. /\ buffer' \in Seq(Piece) /\ Len(buffer') = Len(buffer)
          /\ \A i \in 1 .. Len(buffer) : buffer'[i] = buffer[i]
          /\ Even(buffer) => Even(buffer')
      BY <1>2, <2>1
    <3> QED
      BY <1>2, <3>1, <3>2, <3>3
  <2>2. CASE buffer' = SubSeq(buffer, 1, Len(buffer) - 2 * Cardinality(group))
    <3>1. Cardinality(group) \in Nat
      <4>1. IsFiniteSet(1 .. Len(lsn)) /\ group \subseteq 1 .. Len(lsn)
        <5>1. 1 \in Int /\ Len(lsn) \in Int
          BY <1>2
        <5>2. IsFiniteSet(1 .. Len(lsn))
          BY <5>1, FS_Interval
        <5>3. group \subseteq 1 .. Len(lsn)
          BY <1>1, <1>2 DEF TypeOK
        <5> QED
          BY <5>2, <5>3
      <4>2. IsFiniteSet(group)
        BY <4>1, FS_Subset
      <4> QED
        BY <4>2, FS_CardinalityType
    <3>2. PICK k \in Nat : k = Cardinality(group)
      BY <3>1
    <3>3. CASE 2 * k <= Len(buffer)
      <4>1. PICK n \in Nat : n = Len(buffer) - 2 * k
        BY <1>2, <3>3
      <4>2. n \in 0 .. Len(buffer) /\ Len(buffer) = n + 2 * k
        BY <1>2, <4>1
      <4>3. Split(Piece, buffer, n, SubSeq(buffer, 1, n), SubSeq(buffer, n + 1, Len(buffer)))
        BY <1>2, <4>2, SplitFact
      <4>4. buffer' = SubSeq(buffer, 1, n)
        BY <2>2, <3>2, <4>1
      <4>5. buffer' \in Seq(Piece) /\ Segment(buffer', buffer, 0, n)
        BY <4>3, <4>4 DEF Split
      <4>6. \A i \in 1 .. n : buffer'[i] = buffer[0 + i]
        BY <4>5 DEF Segment
      <4>7. Len(buffer') = n
        BY <4>5 DEF Segment
      <4>8. ASSUME Even(buffer) PROVE Even(buffer')
        <5>1. PICK m \in Nat : Len(buffer) = 2 * m
          BY <4>8 DEF Even
        <5>2. m - k \in Nat /\ n = 2 * (m - k)
          BY <4>2, <5>1
        <5> QED
          BY <4>7, <5>2 DEF Even
      <4> QED
        BY <4>2, <4>5, <4>6, <4>7, <4>8
    <3>4. CASE ~ (2 * k <= Len(buffer))
      <4>1. buffer' = <<>>
        <5>1. Len(buffer) - 2 * k < 1 /\ Len(buffer) - 2 * k \in Int
          BY <1>2, <3>4
        <5>2. \A i \in 1 .. Len(buffer) - 2 * k : buffer[i] \in Piece
          BY <5>1
        <5>3. SubSeq(buffer, 1, Len(buffer) - 2 * k) = <<>>
          BY <5>1
        <5> QED
          BY <2>2, <3>2, <5>3
      <4>2. Even(<<>>)
        BY DEF Even
      <4> QED
        BY <1>2, <4>1, <4>2
    <3> QED
      BY <3>3, <3>4
  <2> QED
    BY <2>1, <2>2 DEF WriteFails
<1>4. TypeOK'
  BY <1>1, <1>3 DEF TypeOK
<1>5. LifeInv' /\ LsnBound' /\ FileInv' /\ RefusedOnlyIfTorn'
  BY <1>1 DEF LifeInv, LsnBound, FileInv, RefusedOnlyIfTorn
<1>6. PieceInv'
  <2>1. \A i \in 1 .. n : i \in 1 .. Len(buffer)
    BY <1>2, <1>3
  <2> QED
    BY <1>1, <1>3, <2>1 DEF PieceInv
<1>7. IsConcat(Stream, file, buffer, Piece) /\ IsConcat(Stream', file, buffer', Piece)
  BY <1>1, <1>2, <1>3, ConcatIs DEF Stream
<1>8. /\ Len(Stream) = Len(file) + Len(buffer) /\ Len(Stream') = Len(file) + n
      /\ Len(Stream') \in 0 .. Len(Stream) /\ Len(Stream) \in Nat
  BY <1>2, <1>3, <1>7 DEF IsConcat
<1>9. ASSUME NEW i \in 1 .. Len(Stream') PROVE Stream'[i] = Stream[i]
  <2>1. CASE i \in 1 .. Len(file)
    BY <1>7, <2>1 DEF IsConcat
  <2>2. CASE i \notin 1 .. Len(file)
    <3>1. /\ i - Len(file) \in 1 .. n /\ Len(file) + (i - Len(file)) = i
          /\ i - Len(file) \in 1 .. Len(buffer)
      BY <1>2, <1>3, <1>8, <2>2
    <3> QED
      BY <1>3, <1>7, <3>1 DEF IsConcat
  <2> QED
    BY <2>1, <2>2
<1>10. PendInv'
  <2> SUFFICES ASSUME tear = 0
               PROVE  Fits(file, buffer') /\ (Owner(buffer') => Owner(buffer))
    BY <1>1 DEF PendInv
  <2>1. Fits(file, buffer)
    BY <1>1 DEF PendInv
  <2>2. CASE buffer' = <<>>
    BY <2>2 DEF Fits, Owner
  <2>3. CASE buffer' # <<>>
    <3>1. 1 \in 1 .. n /\ 1 \in 1 .. Len(buffer)
      BY <1>2, <1>3, <2>3, PieceFact
    <3>2. buffer # <<>> /\ buffer'[1] = buffer[1]
      BY <1>2, <1>3, <3>1, PieceFact
    <3>3. CASE Owner(buffer)
      <4>1. Alternates(Stream, Len(Stream)) /\ Even(Stream)
        BY <2>1, <3>2, <3>3 DEF Fits, Stream
      <4>2. Alternates(Stream', Len(Stream'))
        BY <1>8, <1>9, <4>1, AlternatesPrefix
      <4>3. Even(Stream')
        <5>1. PICK k \in Nat : Len(buffer) = n + 2 * k
          BY <1>3, <2>3
        <5>2. PICK m \in Nat : Len(Stream) = 2 * m
          BY <4>1 DEF Even
        <5>3. m - k \in Nat /\ Len(Stream') = 2 * (m - k)
          BY <1>2, <1>8, <5>1, <5>2
        <5> QED
          BY <5>3 DEF Even
      <4>4. Owner(buffer')
        BY <2>3, <3>2, <3>3 DEF Owner
      <4> QED
        BY <1>1, <3>3, <4>2, <4>3, <4>4 DEF Fits, Stream
    <3>4. CASE ~ Owner(buffer)
      <4>1. Alternates(buffer, Len(buffer)) /\ Even(buffer)
        BY <2>1, <3>2, <3>4 DEF Fits
      <4>2. n \in 0 .. Len(buffer)
        BY <1>2, <1>3
      <4>3. Alternates(buffer', Len(buffer')) /\ Even(buffer')
        BY <1>2, <1>3, <4>1, <4>2, AlternatesPrefix
      <4>4. ~ Owner(buffer')
        BY <3>2, <3>4 DEF Owner
      <4> QED
        BY <4>3, <4>4 DEF Fits
    <3> QED
      BY <3>3, <3>4
  <2> QED
    BY <2>2, <2>3
<1>11. OrderInv'
  BY <1>1 DEF OrderInv
<1>12. StreamInv'
  <2> SUFFICES ASSUME tear = 0, late = 0
               PROVE  /\ Ordered(Stream', Len(Stream'), lsn)
                      /\ process = "Up" => Below(Stream', Len(Stream'), lsn, nextLsn)
    BY <1>1 DEF StreamInv
  <2>1. /\ Ordered(Stream, Len(Stream), lsn)
        /\ process = "Up" => Below(Stream, Len(Stream), lsn, nextLsn)
    BY <1>1 DEF StreamInv
  <2>2. ASSUME NEW s, s = Stream'
        PROVE  /\ Ordered(s, Len(s), lsn)
               /\ process = "Up" => Below(s, Len(s), lsn, nextLsn)
    <3>1. Len(s) \in 0 .. Len(Stream) /\ \A i \in 1 .. Len(s) : s[i] = Stream[i]
      BY <1>8, <1>9, <2>2
    <3> QED
      BY <1>8, <2>1, <3>1, OrderedFact
  <2> QED
    BY <2>2
<1>13. SyncInv'
  BY <1>1 DEF SyncInv
<1> QED
  BY <1>4, <1>5, <1>6, <1>10, <1>11, <1>12, <1>13 DEF Inv

LEMMA RotateStep == ASSUME Inv, Rotate PROVE Inv'
<1>1. /\ TypeOK /\ LifeInv /\ LsnBound /\ PieceInv /\ FileInv /\ PendInv
      /\ OrderInv /\ StreamInv /\ SyncInv /\ RefusedOnlyIfTorn
      /\ process = "Up" /\ group = {} /\ buffer # <<>>
      /\ old' = old \cup {buffer} /\ buffer' = <<>>
      /\ UNCHANGED <<magic, mf, file, synced, sharing, group, lsn, nextLsn, acked, process,
                     tear, late, cutStart, stops>>
  BY DEF Inv, Rotate, fileVars, writeVars, history
<1>2. TypeOK'
  BY <1>1 DEF TypeOK
<1>3. LifeInv' /\ LsnBound' /\ FileInv' /\ RefusedOnlyIfTorn'
  BY <1>1 DEF LifeInv, LsnBound, FileInv, RefusedOnlyIfTorn
<1>4. PieceInv'
  <2>1. \A i \in 1 .. Len(<<>>) : FALSE
    OBVIOUS
  <2> QED
    BY <1>1, <2>1 DEF PieceInv
<1>5. PendInv'
  <2>1. ~ Owner(<<>>) /\ Fits(file, <<>>)
    BY DEF Owner, Fits
  <2> QED
    BY <1>1, <2>1 DEF PendInv
<1>6. OrderInv'
  BY <1>1 DEF OrderInv
<1>7. StreamInv'
  <2>1. file' \in Seq(Piece)
    BY <1>1 DEF TypeOK
  <2> QED
    BY <1>1, <1>6, <2>1, StreamEmpty
<1>8. SyncInv'
  BY <1>1 DEF SyncInv
<1> QED
  BY <1>2, <1>3, <1>4, <1>5, <1>6, <1>7, <1>8 DEF Inv

LEMMA PutBackStep == ASSUME Inv, PutBack PROVE Inv'
<1>1. /\ TypeOK /\ LifeInv /\ LsnBound /\ PieceInv /\ FileInv /\ PendInv
      /\ OrderInv /\ StreamInv /\ SyncInv /\ RefusedOnlyIfTorn
      /\ process = "Up" /\ group = {}
      /\ late' = IF late = 0 THEN Len(file) + 1 ELSE late
      /\ UNCHANGED <<magic, mf, file, synced, sharing, group, lsn, nextLsn, acked, process,
                     tear, cutStart, stops>>
  BY DEF Inv, PutBack, fileVars, writeVars
<1>2. PICK b \in old : buffer' = b /\ old' = (old \ {b}) \cup ({buffer} \ {<<>>})
  BY DEF PutBack
<1>3. Len(file) \in Nat /\ late \in 0 .. Len(file) + 1
  BY <1>1, Types
<1>4. late' \in 0 .. Len(file) + 1 /\ late' # 0
  BY <1>1, <1>3
<1>5. \A z \in old' \cup {buffer'} : z \in old \cup {buffer}
  BY <1>2
<1>6. TypeOK'
  BY <1>1, <1>2, <1>4 DEF TypeOK
<1>7. LifeInv' /\ LsnBound' /\ FileInv' /\ RefusedOnlyIfTorn'
  BY <1>1 DEF LifeInv, LsnBound, FileInv, RefusedOnlyIfTorn
<1>8. PieceInv'
  BY <1>1, <1>5 DEF PieceInv
<1>9. PendInv'
  BY <1>1, <1>2, <1>5 DEF PendInv
<1>10. OrderInv'
  <2> SUFFICES ASSUME NEW n \in 0 .. Len(file), tear = 0 \/ n <= tear, n < late'
               PROVE  Ordered(file, n, lsn)
    BY <1>1, <1>4 DEF OrderInv
  <2>1. late = 0 \/ n < late
    BY <1>1
  <2> QED
    BY <1>1, <2>1 DEF OrderInv
<1>11. StreamInv'
  BY <1>4 DEF StreamInv
<1>12. SyncInv'
  BY <1>1 DEF SyncInv
<1> QED
  BY <1>6, <1>7, <1>8, <1>9, <1>10, <1>11, <1>12 DEF Inv

LEMMA DropHandleStep == ASSUME Inv, DropHandle PROVE Inv'
<1>1. /\ TypeOK /\ LifeInv /\ LsnBound /\ PieceInv /\ FileInv /\ PendInv
      /\ OrderInv /\ StreamInv /\ SyncInv /\ RefusedOnlyIfTorn
      /\ UNCHANGED <<magic, mf, synced, sharing, buffer, group, lsn, nextLsn, acked, process,
                     cutStart, stops>>
  BY DEF Inv, DropHandle, writeVars
<1>0. PICK b \in old : \E cut \in 0 .. Len(b) :
        /\ AppendFile(SubSeq(b, 1, cut)) /\ old' = old \ {b}
        /\ late' = IF late = 0 /\ cut > 0 THEN Len(file) + 1 ELSE late
  BY DEF DropHandle
<1>2. PICK cut \in 0 .. Len(b) :
        /\ AppendFile(SubSeq(b, 1, cut)) /\ old' = old \ {b}
        /\ late' = IF late = 0 /\ cut > 0 THEN Len(file) + 1 ELSE late
  BY <1>0
<1>3. /\ file \in Seq(Piece) /\ Len(file) \in Nat /\ b \in Seq(Piece) /\ Len(b) \in Nat
      /\ buffer \in Seq(Piece) /\ Len(buffer) \in Nat
      /\ synced \in 0 .. Len(file) /\ late \in 0 .. Len(file) + 1
  BY <1>1, Types
<1> DEFINE a == SubSeq(b, 1, cut)
           r == SubSeq(b, cut + 1, Len(b))
<1>4. Split(Piece, b, cut, a, r)
  BY <1>3, SplitFact
<1>5. AppendFile(a)
  BY <1>2
<1> HIDE DEF a, r
<1>6. /\ file' \in Seq(Piece) /\ IsConcat(file', file, a, Piece) /\ a \in Seq(Piece)
      /\ tear' \in 0 .. Len(file') /\ tear' \in {tear, Len(file)}
      /\ tear # 0 => tear' = tear
      /\ FileInv'
      /\ \A i \in 1 .. Len(file') : file'[i][1] \in DOMAIN lsn
      /\ tear' = 0 =>
           /\ \A o \in old \cup {buffer} :
                /\ Owner(o) => Owner(b) \/ a = <<>>
                /\ (Owner(o) /\ a # <<>>) \/ Fits(file', o)
  BY <1>4, <1>5, PushFact
<1>7. Len(a) = cut
  BY <1>4 DEF Split, Segment
<1>8. /\ Len(file') = Len(file) + cut /\ \A i \in 1 .. Len(file) : file'[i] = file[i]
  BY <1>6, <1>7 DEF IsConcat
<1>9. TypeOK'
  <2>1. synced' \in 0 .. Len(file') /\ late' \in 0 .. Len(file') + 1
    BY <1>1, <1>2, <1>3, <1>8
  <2>2. old' \subseteq Seq(Piece) \ {<<>>}
    BY <1>1, <1>2 DEF TypeOK
  <2> QED
    BY <1>1, <1>6, <2>1, <2>2 DEF TypeOK
<1>10. LifeInv' /\ RefusedOnlyIfTorn' /\ LsnBound'
  <2>1. process = "Up" /\ mf = "whole"
    BY <1>1, <1>2 DEF LifeInv
  <2> QED
    BY <1>1, <1>2, <2>1 DEF LifeInv, RefusedOnlyIfTorn, LsnBound
<1>11. PieceInv'
  BY <1>1, <1>2, <1>6 DEF PieceInv
<1>12. PendInv'
  <2> SUFFICES ASSUME tear' = 0
               PROVE  /\ \A z \in old' \cup {buffer} : Fits(file', z)
                      /\ Owner(buffer) => \A o \in old' : ~ Owner(o)
                      /\ \A o, c \in old' : Owner(o) /\ Owner(c) => o = c
    BY <1>1 DEF PendInv
  <2>1. /\ Owner(buffer) => \A o \in old : ~ Owner(o)
        /\ \A o, c \in old : Owner(o) /\ Owner(c) => o = c
    BY <1>1, <1>6 DEF PendInv
  <2>2. \A z \in old' \cup {buffer} : Owner(z) => a = <<>>
    BY <1>2, <1>6, <2>1
  <2> QED
    BY <1>2, <1>6, <2>1, <2>2
<1>13. ASSUME late' = 0
       PROVE  cut = 0 /\ file' = file /\ late = 0
  <2>1. cut = 0 /\ late = 0
    BY <1>2, <1>3, <1>13
  <2>2. a = <<>>
    BY <1>6, <1>7, <2>1, PieceFact
  <2> QED
    BY <1>3, <1>5, <2>1, <2>2, ConcatEmptySeq DEF AppendFile
<1>14. OrderInv'
  <2>1. late' = 0 => Len(file') <= Len(Stream) /\ \A i \in 1 .. Len(file') : file'[i] = Stream[i]
    <3>1. IsConcat(Stream, file, buffer, Piece)
      BY <1>3, ConcatIs DEF Stream
    <3> QED
      BY <1>3, <1>13, <3>1 DEF IsConcat
  <2>2. late' = late \/ (late = 0 /\ late' = Len(file) + 1)
    BY <1>2
  <2> QED
    BY <1>1, <1>6, <2>1, <2>2, OrderPush
<1>15. StreamInv'
  <2>1. tear' = 0 => tear = 0
    BY <1>6
  <2>2. late' = 0 => late = 0 /\ Stream' = Stream
    BY <1>1, <1>13 DEF Stream
  <2> QED
    BY <1>1, <2>1, <2>2 DEF StreamInv
<1>16. SyncInv'
  <2>1. ASSUME NEW w \in acked PROVE \E i \in 1 .. synced : file'[i] = <<w, 2>>
    <3>1. PICK i \in 1 .. synced : file[i] = <<w, 2>>
      BY <1>1 DEF SyncInv
    <3>2. i \in 1 .. Len(file)
      BY <1>3
    <3> QED
      BY <1>8, <3>1, <3>2
  <2>2. ASSUME NEW w, \E i \in 1 .. Len(file) : file[i] = <<w, 2>>
        PROVE  \E i \in 1 .. Len(file') : file'[i] = <<w, 2>>
    <3>1. \A i \in 1 .. Len(file) : i \in 1 .. Len(file')
      BY <1>3, <1>8
    <3> QED
      BY <1>8, <2>2, <3>1
  <2> QED
    BY <1>1, <2>1, <2>2 DEF SyncInv
<1> QED
  BY <1>6, <1>9, <1>10, <1>11, <1>12, <1>14, <1>15, <1>16 DEF Inv

LEMMA DropStep == ASSUME Inv, Drop PROVE Inv'
<1>1. /\ TypeOK /\ LifeInv /\ LsnBound /\ PieceInv /\ FileInv /\ PendInv
      /\ OrderInv /\ StreamInv /\ SyncInv /\ RefusedOnlyIfTorn
      /\ process = "Up" /\ process' = "Down" /\ sharing' = FALSE /\ buffer' = <<>>
      /\ old' = {} /\ group' = {}
      /\ late' = IF late > Len(file') THEN 0 ELSE late
      /\ stops' \in 0 .. MaxStops
      /\ UNCHANGED <<magic, mf, synced, cutStart, lsn, nextLsn, acked>>
  <2>1. stops \in 0 .. MaxStops /\ MaxStops \in Nat /\ stops < MaxStops /\ stops' = stops + 1
    BY WalAssumption DEF Inv, TypeOK, Drop, Stop
  <2>2. stops' \in 0 .. MaxStops
    BY <2>1
  <2> QED
    BY <2>2 DEF Inv, Drop, Stop
<1>2. PICK cut \in 0 .. Len(buffer) : AppendFile(SubSeq(buffer, 1, cut))
  BY DEF Drop
<1>3. /\ file \in Seq(Piece) /\ Len(file) \in Nat /\ buffer \in Seq(Piece) /\ Len(buffer) \in Nat
      /\ synced \in 0 .. Len(file) /\ late \in 0 .. Len(file) + 1
  BY <1>1, Types
<1> DEFINE a == SubSeq(buffer, 1, cut)
           r == SubSeq(buffer, cut + 1, Len(buffer))
<1>4. Split(Piece, buffer, cut, a, r)
  BY <1>3, SplitFact
<1>5. AppendFile(a)
  BY <1>2
<1> HIDE DEF a, r
<1>6. /\ file' \in Seq(Piece) /\ IsConcat(file', file, a, Piece) /\ a \in Seq(Piece)
      /\ tear' \in 0 .. Len(file') /\ tear' \in {tear, Len(file)}
      /\ tear # 0 => tear' = tear
      /\ FileInv'
      /\ \A i \in 1 .. Len(file') : file'[i][1] \in DOMAIN lsn
  BY <1>4, <1>5, PushFact
<1>7. Len(a) = cut
  BY <1>4 DEF Split, Segment
<1>8. /\ Len(file') = Len(file) + cut /\ \A i \in 1 .. Len(file) : file'[i] = file[i]
  BY <1>6, <1>7 DEF IsConcat
<1>9. TypeOK'
  <2>1. synced' \in 0 .. Len(file') /\ late' \in 0 .. Len(file') + 1
    BY <1>1, <1>3, <1>8
  <2>2. buffer' \in Seq(Piece) /\ old' \subseteq Seq(Piece) \ {<<>>}
    BY <1>1
  <2>3. group' \cup acked' \subseteq DOMAIN lsn' /\ tear' \in 0 .. Len(file')
    BY <1>1, <1>6 DEF TypeOK
  <2> QED
    BY <1>1, <1>6, <2>1, <2>2, <2>3 DEF TypeOK
<1>10. LifeInv' /\ RefusedOnlyIfTorn' /\ LsnBound'
  BY <1>1 DEF LifeInv, RefusedOnlyIfTorn, LsnBound
<1>11. PieceInv'
  <2>1. \A i \in 1 .. Len(<<>>) : FALSE
    OBVIOUS
  <2> QED
    BY <1>1, <1>6, <2>1 DEF PieceInv
<1>12. PendInv'
  <2>1. ~ Owner(<<>>) /\ Fits(file', <<>>)
    BY DEF Owner, Fits
  <2> QED
    BY <1>1, <2>1 DEF PendInv
<1>13. Len(file') <= Len(Stream) /\ \A i \in 1 .. Len(file') : file'[i] = Stream[i]
  <2>1. Moved(Piece, file, buffer, cut, a, r) /\ file' = file \o a
    BY <1>3, <1>4, <1>5, JoinFact DEF AppendFile
  <2>2. Segment(file', Stream, 0, Len(file) + cut)
    BY <2>1 DEF Moved, Stream
  <2>3. \A i \in 1 .. Len(file) + cut : file'[i] = Stream[0 + i]
    BY <2>2 DEF Segment
  <2>4. IsConcat(Stream, file, buffer, Piece)
    BY <1>3, ConcatIs DEF Stream
  <2> QED
    BY <1>3, <1>8, <2>3, <2>4 DEF IsConcat
<1>14. OrderInv'
  <2>1. \/ late' = late
        \/ late' = 0 /\ late > Len(file') /\ process' # "Up"
    BY <1>1
  <2> QED
    BY <1>1, <1>6, <1>13, <2>1, OrderPush
<1>15. StreamInv'
  BY <1>1, <1>6, <1>14, StreamEmpty
<1>16. SyncInv'
  <2>1. ASSUME NEW w \in acked PROVE \E i \in 1 .. synced : file'[i] = <<w, 2>>
    <3>1. PICK i \in 1 .. synced : file[i] = <<w, 2>>
      BY <1>1 DEF SyncInv
    <3>2. i \in 1 .. Len(file)
      BY <1>3
    <3> QED
      BY <1>8, <3>1, <3>2
  <2> QED
    BY <1>1, <2>1 DEF SyncInv
<1> QED
  BY <1>6, <1>9, <1>10, <1>11, <1>12, <1>14, <1>15, <1>16 DEF Inv

LEMMA CrashStep == ASSUME Inv, Crash PROVE Inv'
<1>1. /\ TypeOK /\ LifeInv /\ LsnBound /\ PieceInv /\ FileInv /\ PendInv
      /\ OrderInv /\ StreamInv /\ SyncInv /\ RefusedOnlyIfTorn
      /\ process = "Up" /\ process' = "Down" /\ sharing' = FALSE /\ buffer' = <<>>
      /\ old' = {} /\ group' = {}
      /\ late' = IF late > Len(file') THEN 0 ELSE late
      /\ stops' \in 0 .. MaxStops
      /\ synced' \in synced .. Len(file) /\ file' = SubSeq(file, 1, synced')
      /\ tear' = IF tear >= synced' THEN 0 ELSE tear
      /\ UNCHANGED <<magic, mf, cutStart, lsn, nextLsn, acked>>
  <2>1. stops \in 0 .. MaxStops /\ MaxStops \in Nat /\ stops < MaxStops /\ stops' = stops + 1
    BY WalAssumption DEF Inv, TypeOK, Crash, Stop
  <2>2. stops' \in 0 .. MaxStops
    BY <2>1
  <2> QED
    BY <2>2 DEF Inv, Crash, Stop
<1>2. /\ file \in Seq(Piece) /\ Len(file) \in Nat /\ synced \in 0 .. Len(file)
      /\ tear \in Nat /\ late \in Nat
  BY <1>1, Types
<1>3. synced' \in 0 .. Len(file) /\ synced \in Nat /\ synced <= synced'
  BY <1>1, <1>2
<1>4. /\ file' \in Seq(Piece) /\ Len(file') = synced'
      /\ \A i \in 1 .. synced' : file'[i] = file[i]
  <2>1. Split(Piece, file, synced', file', SubSeq(file, synced' + 1, Len(file)))
    BY <1>1, <1>2, <1>3, SplitFact
  <2>2. \A i \in 1 .. synced' : 0 + i = i
    BY <1>3
  <2> QED
    BY <2>1, <2>2 DEF Split, Segment
<1>5. FileInv'
  <2>1. /\ tear = 0 \/ tear >= synced' => Alternates(file', Len(file'))
        /\ tear # 0 /\ ~ (tear >= synced') => Torn(file', tear)
    BY <1>1, <1>2, <1>3, <1>4, CutFact DEF FileInv
  <2> QED
    BY <1>1, <1>2, <2>1 DEF FileInv
<1>6. TypeOK'
  <2>1. /\ tear' \in 0 .. Len(file') /\ synced' \in 0 .. Len(file')
        /\ late' \in 0 .. Len(file') + 1
    BY <1>1, <1>2, <1>3, <1>4
  <2>2. buffer' \in Seq(Piece) /\ old' \subseteq Seq(Piece) \ {<<>>}
    BY <1>1
  <2>3. group' \cup acked' \subseteq DOMAIN lsn'
    BY <1>1 DEF TypeOK
  <2> QED
    BY <1>1, <1>4, <2>1, <2>2, <2>3 DEF TypeOK
<1>7. LifeInv' /\ LsnBound' /\ RefusedOnlyIfTorn'
  BY <1>1 DEF LifeInv, LsnBound, RefusedOnlyIfTorn
<1>8. PieceInv'
  <2>1. \A i \in 1 .. synced' : i \in 1 .. Len(file)
    BY <1>2, <1>3
  <2>2. \A i \in 1 .. Len(<<>>) : FALSE
    OBVIOUS
  <2> QED
    BY <1>1, <1>4, <2>1, <2>2 DEF PieceInv
<1>9. PendInv'
  <2>1. ~ Owner(<<>>) /\ Fits(file', <<>>)
    BY DEF Owner, Fits
  <2> QED
    BY <1>1, <2>1 DEF PendInv
<1>10. OrderInv'
  <2> SUFFICES ASSUME NEW n \in 0 .. Len(file'), tear' = 0 \/ n <= tear', late' = 0 \/ n < late'
               PROVE  Ordered(file', n, lsn)
    BY <1>1 DEF OrderInv
  <2>1. n \in Nat /\ n <= synced' /\ synced' <= Len(file) /\ synced' \in Nat
    BY <1>2, <1>3, <1>4
  <2>2. tear = 0 \/ n <= tear
    BY <1>1, <1>2, <2>1
  <2>3. late = 0 \/ n < late
    <3>1. late > synced' \/ late' = late
      BY <1>1, <1>4
    <3>2. late > synced' => n < late
      BY <1>2, <2>1
    <3> QED
      BY <3>1, <3>2
  <2>4. n \in 0 .. Len(file) /\ (tear = 0 \/ n <= tear) /\ (late = 0 \/ n < late)
    BY <1>2, <2>1, <2>2, <2>3
  <2>5. Ordered(file, n, lsn)
    BY <1>1, <2>4 DEF OrderInv
  <2>6. n \in Nat /\ n \in 0 .. n /\ \A i \in 1 .. n : file'[i] = file[i]
    BY <1>2, <1>3, <1>4
  <2> QED
    BY <2>5, <2>6, OrderedFact
<1>11. StreamInv'
  BY <1>1, <1>4, <1>10, StreamEmpty
<1>12. SyncInv'
  <2>1. \A i \in 1 .. synced : i \in 1 .. synced'
    BY <1>2, <1>3
  <2> QED
    BY <1>1, <1>4, <2>1 DEF SyncInv
<1> QED
  BY <1>5, <1>6, <1>7, <1>8, <1>9, <1>10, <1>11, <1>12 DEF Inv

LEMMA CrashInStartStep == ASSUME Inv, CrashInStart PROVE Inv'
<1>1. /\ TypeOK /\ LifeInv /\ LsnBound /\ PieceInv /\ FileInv /\ PendInv
      /\ OrderInv /\ StreamInv /\ SyncInv /\ RefusedOnlyIfTorn
      /\ process \in {"Create", "Persist"} /\ process' = "Down" /\ sharing' = FALSE
      /\ buffer' = <<>> /\ old' = {} /\ group' = {} /\ cutStart' = TRUE
      /\ late' = IF late > Len(file) THEN 0 ELSE late
      /\ stops' \in 0 .. MaxStops
      /\ UNCHANGED <<file, synced, tear, lsn, nextLsn, acked>>
  <2>1. stops \in 0 .. MaxStops /\ MaxStops \in Nat /\ stops < MaxStops /\ stops' = stops + 1
    BY WalAssumption DEF Inv, TypeOK, CrashInStart, Stop
  <2>2. stops' \in 0 .. MaxStops
    BY <2>1
  <2> QED
    BY <2>2 DEF Inv, CrashInStart, Stop
<1>2. \/ process = "Create" /\ mf' = mf /\ magic' \in {"none", "empty", "part", "whole"}
      \/ process = "Persist" /\ mf' \in {"none", "part", "whole"} /\ magic' = magic
  <2>1. magic \in {"none", "empty", "part", "whole"}
    BY <1>1 DEF TypeOK
  <2> QED
    BY <2>1 DEF CrashInStart
<1>3. /\ buffer = <<>> /\ old = {} /\ group = {} /\ mf = "none" /\ file = <<>>
      /\ process = "Persist" => magic = "whole"
  BY <1>1 DEF LifeInv
<1>4. Len(file) = 0 /\ late \in 0 .. Len(file) + 1
  BY <1>1, <1>3, Types
<1>5. late' = 0
  BY <1>1, <1>4
<1>6. TypeOK'
  <2>1. buffer' \in Seq(Piece) /\ old' \subseteq Seq(Piece) \ {<<>>}
    BY <1>1
  <2>2. group' \cup acked' \subseteq DOMAIN lsn'
    BY <1>1 DEF TypeOK
  <2>3. late' \in 0 .. Len(file') + 1
    BY <1>1, <1>4, <1>5
  <2>4. magic' \in {"none", "empty", "part", "whole"} /\ mf' \in {"none", "part", "whole"}
    BY <1>1, <1>2 DEF TypeOK
  <2> QED
    BY <1>1, <2>1, <2>2, <2>3, <2>4 DEF TypeOK
<1>7. LifeInv' /\ LsnBound' /\ FileInv' /\ SyncInv' /\ RefusedOnlyIfTorn'
  BY <1>1, <1>2, <1>3 DEF LifeInv, LsnBound, FileInv, SyncInv, RefusedOnlyIfTorn
<1>8. PieceInv' /\ PendInv'
  BY <1>1, <1>3 DEF PieceInv, PendInv
<1>9. OrderInv'
  <2>1. \A n \in 0 .. Len(file) : n = 0
    BY <1>4
  <2> QED
    BY <1>1, <2>1 DEF OrderInv, Ordered, Below
<1>10. StreamInv'
  BY <1>1, <1>6, <1>9, StreamEmpty DEF TypeOK
<1> QED
  BY <1>6, <1>7, <1>8, <1>9, <1>10 DEF Inv

LEMMA InvStep == Inv /\ [Next]_vars => Inv'
<1> SUFFICES ASSUME Inv, [Next]_vars PROVE Inv'
  OBVIOUS
<1>1. CASE StartPristine \/ CreateWal \/ PersistManifest
  BY <1>1, StartStep
<1>2. CASE Open
  BY <1>2, OpenStep
<1>3. CASE StartWrite
  BY <1>3, StartWriteStep
<1>4. CASE WriteOut
  BY <1>4, WriteOutStep
<1>5. CASE Sync
  BY <1>5, SyncStep
<1>6. CASE WriteFails
  BY <1>6, WriteFailsStep
<1>7. CASE Rotate
  BY <1>7, RotateStep
<1>8. CASE PutBack
  BY <1>8, PutBackStep
<1>9. CASE DropHandle
  BY <1>9, DropHandleStep
<1>10. CASE Crash
  BY <1>10, CrashStep
<1>11. CASE CrashInStart
  BY <1>11, CrashInStartStep
<1>12. CASE Drop
  BY <1>12, DropStep
<1>13. CASE UNCHANGED vars
  <2>1. UNCHANGED <<magic, mf, file, synced, sharing, buffer, old, group, lsn, nextLsn, acked,
                    process, tear, late, cutStart, stops>>
    BY <1>13 DEF vars, fileVars, handles, writeVars, history
  <2>2. TypeOK' /\ LifeInv' /\ LsnBound' /\ PieceInv' /\ FileInv' /\ PendInv'
    BY <2>1 DEF Inv, TypeOK, LifeInv, LsnBound, PieceInv, FileInv, PendInv
  <2>3. OrderInv' /\ StreamInv'
    BY <2>1 DEF Inv, OrderInv, StreamInv, Stream
  <2>4. SyncInv' /\ RefusedOnlyIfTorn'
    BY <2>1 DEF Inv, SyncInv, RefusedOnlyIfTorn
  <2> QED
    BY <2>2, <2>3, <2>4 DEF Inv
<1> QED
  BY <1>1, <1>2, <1>3, <1>4, <1>5, <1>6, <1>7, <1>8, <1>9, <1>10, <1>11, <1>12, <1>13 DEF Next

LEMMA Invariance == Spec => []Inv
BY InvInit, InvStep, PTL DEF Spec
-----------------------------------------------------------------------------
(* Theorems. *)

\* The files, the BufWriters and the LSNs of the WAL stay of their types, through all that
\* Wal::write, rotate_memtable, Db::new and a crash do to them.
THEOREM TypeCorrect == Spec => []TypeOK
<1>1. Inv => TypeOK
  BY DEF Inv
<1> QED
  BY <1>1, Invariance, PTL

\* Db::new refuses a directory only if a crash hit its first start, or bytes were appended
\* to a torn entry: WalIterator takes a torn tail for the end of the file.
THEOREM TornTailAccepted == Spec => []RefusedOnlyIfTorn
<1>1. Inv => RefusedOnlyIfTorn
  BY DEF Inv
<1> QED
  BY <1>1, Invariance, PTL

\* The entries of the file as it is now.
LEMMA FileYields ==
    ASSUME Inv
    PROVE  \E k \in Nat : Yields(file, tear, k)
<1>1. TypeOK /\ FileInv
  BY DEF Inv
<1>2. file \in Seq(Piece) /\ tear \in Nat
  BY <1>1, Types
<1> QED
  BY <1>1, <1>2, YieldsFact DEF FileInv

\* What replay_mutable_wal yields has increasing LSNs up to where the handle of a replaced
\* version wrote, failed writes that come back included, for any number of rotations that
\* share the file; and if no such handle wrote, the next writes get larger LSNs.
THEOREM ReplayInOrder == Spec => []LsnsFollowFile
<1>1. Inv => LsnsFollowFile
  <2> SUFFICES ASSUME Inv PROVE LsnsFollowFile
    OBVIOUS
  <2>1. TypeOK /\ OrderInv
    BY DEF Inv
  <2>2. Len(file) \in Nat /\ tear \in Nat /\ late \in Nat
    BY <2>1, Types
  <2>3. PICK k \in Nat : Yields(file, tear, k)
    BY FileYields
  <2>4. /\ 2 * k <= Len(file) /\ Whole(file, k)
        /\ DOMAIN Entries(file) = 1 .. k
        /\ \A i \in 1 .. k : Entries(file)[i] = file[2 * i][1]
        /\ tear # 0 => tear = 2 * k + 1
    BY <2>3 DEF Yields
  <2>5. ASSUME NEW j \in 1 .. k
        PROVE  /\ 2 * j \in 0 .. Len(file) /\ (tear = 0 \/ 2 * j <= tear)
               /\ file[2 * j][2] = 2
    <3>1. file[2 * j] = <<file[2 * j - 1][1], 2>>
      BY <2>4 DEF Whole
    <3> QED
      BY <2>2, <2>4, <3>1
  <2>6. ASSUME NEW i \in 1 .. k, NEW j \in 1 .. k, i < j, late = 0 \/ 2 * j < late
        PROVE  lsn[file[2 * i][1]] < lsn[file[2 * j][1]]
    <3>1. Ordered(file, 2 * j, lsn)
      BY <2>1, <2>5, <2>6 DEF OrderInv
    <3>2. 2 * i \in 1 .. 2 * j /\ 2 * j \in 1 .. 2 * j /\ 2 * i < 2 * j
      BY <2>6
    <3> QED
      BY <2>5, <3>1, <3>2 DEF Ordered
  <2>7. ASSUME process = "Up", late = 0, NEW i \in 1 .. k
        PROVE  lsn[file[2 * i][1]] < nextLsn
    <3>1. Below(file, 2 * i, lsn, nextLsn)
      BY <2>1, <2>5, <2>7 DEF OrderInv
    <3>2. 2 * i \in 1 .. 2 * i
      OBVIOUS
    <3> QED
      BY <2>5, <3>1, <3>2 DEF Below
  <2>8. ASSUME NEW i \in DOMAIN Entries(file), NEW j \in DOMAIN Entries(file), i < j,
               late = 0 \/ 2 * j < late
        PROVE  lsn[Entries(file)[i]] < lsn[Entries(file)[j]]
    <3>1. i \in 1 .. k /\ j \in 1 .. k
      BY <2>4
    <3>2. lsn[file[2 * i][1]] < lsn[file[2 * j][1]]
      BY <2>6, <2>8, <3>1
    <3> QED
      BY <2>4, <3>1, <3>2
  <2>9. ASSUME process = "Up", late = 0, NEW i \in DOMAIN Entries(file)
        PROVE  lsn[Entries(file)[i]] < nextLsn
    <3>1. i \in 1 .. k
      BY <2>4
    <3>2. lsn[file[2 * i][1]] < nextLsn
      BY <2>7, <2>9, <3>1
    <3> QED
      BY <2>4, <3>1, <3>2
  <2> QED
    BY <2>8, <2>9 DEF LsnsFollowFile
<1> QED
  BY <1>1, Invariance, PTL

\* A write that Wal::write has synced is replayed by the next Db::new whatever part of the
\* bytes behind it a crash loses, unless it was appended behind a torn entry.
THEOREM AckedWritesReplayed == Spec => []AckedReplayed
<1>1. Inv => AckedReplayed
  <2> SUFFICES ASSUME Inv, NEW w \in acked,
                      ~ (tear # 0 /\ \E i \in tear + 1 .. Len(file) : file[i] = <<w, 2>>),
                      NEW n \in synced .. Len(file)
               PROVE  w \in ToSet(Entries(SubSeq(file, 1, n)))
    BY DEF AckedReplayed, AfterCrash
  <2>1. TypeOK /\ FileInv /\ SyncInv
    BY DEF Inv
  <2>2. /\ file \in Seq(Piece) /\ Len(file) \in Nat /\ synced \in 0 .. Len(file)
        /\ tear \in 0 .. Len(file) /\ tear \in Nat
    BY <2>1, Types
  <2>3. n \in 0 .. Len(file) /\ synced <= n /\ n \in Nat
    BY <2>2
  <2>4. PICK i \in 1 .. synced : file[i] = <<w, 2>>
    BY <2>1 DEF SyncInv
  <2>5. i \in Nat /\ i >= 1 /\ i <= n /\ i <= Len(file) /\ i \in 1 .. Len(file)
    BY <2>2, <2>3
  <2>6. tear = 0 \/ i <= tear
    <3>1. tear # 0 /\ ~ (i <= tear) => i \in tear + 1 .. Len(file)
      BY <2>2, <2>5
    <3> QED
      BY <2>4, <3>1
  <2>7. PICK j \in Nat : i = 2 * j
    <3>1. PICK m \in Nat : Alternates(file, m) /\ i <= m
      <4>1. CASE tear = 0
        BY <2>1, <2>2, <2>5, <4>1 DEF FileInv
      <4>2. CASE tear # 0
        BY <2>1, <2>2, <2>6, <4>2 DEF FileInv, Torn
      <4> QED
        BY <4>1, <4>2
    <3>2. PICK j \in Nat : i = 2 * j \/ i = 2 * j + 1
      BY <2>5, HalfFact
    <3>3. i # 2 * j + 1
      <4> SUFFICES ASSUME i = 2 * j + 1 PROVE FALSE
        OBVIOUS
      <4>1. j + 1 \in 1 .. m /\ 2 * (j + 1) - 1 <= m /\ 2 * (j + 1) - 1 = i
        BY <3>1
      <4>2. file[i][2] = 1
        BY <3>1, <4>1 DEF Alternates
      <4> QED
        BY <2>4, <4>2
    <3> QED
      BY <3>2, <3>3
  <2> DEFINE p == SubSeq(file, 1, n)
             t == IF tear >= n THEN 0 ELSE tear
  <2>8. p \in Seq(Piece) /\ Len(p) = n /\ \A d \in 1 .. n : p[d] = file[d]
    <3>1. Split(Piece, file, n, p, SubSeq(file, n + 1, Len(file)))
      BY <2>2, <2>3, SplitFact
    <3>2. \A d \in 1 .. n : 0 + d = d
      BY <2>3
    <3> QED
      BY <3>1, <3>2 DEF Split, Segment
  <2> HIDE DEF p
  <2>9. PICK k \in Nat : Yields(p, t, k)
    <3>1. /\ tear = 0 \/ tear >= n => Alternates(p, Len(p))
          /\ tear # 0 /\ ~ (tear >= n) => Torn(p, tear)
      BY <2>1, <2>2, <2>3, <2>8, CutFact DEF FileInv
    <3>2. t \in Nat /\ (t = 0 => Alternates(p, Len(p))) /\ (t # 0 => Torn(p, t))
      BY <2>2, <3>1
    <3> HIDE DEF t
    <3> QED
      BY <2>8, <3>2, YieldsFact
  <2>10. j \in 1 .. k
    <3>1. t = 0 => n <= 2 * k + 1
      BY <2>8, <2>9 DEF Yields
    <3>2. t # 0 => tear = t /\ tear = 2 * k + 1
      BY <2>2, <2>9 DEF Yields
    <3>3. i <= 2 * k + 1
      BY <2>2, <2>5, <2>6, <3>1, <3>2
    <3> QED
      BY <2>5, <2>7, <3>3
  <2>11. DOMAIN Entries(p) = 1 .. k /\ Entries(p)[j] = w
    <3>1. DOMAIN Entries(p) = 1 .. k /\ Entries(p)[j] = p[2 * j][1]
      BY <2>9, <2>10 DEF Yields
    <3>2. p[i] = <<w, 2>>
      BY <2>4, <2>5, <2>8
    <3> QED
      BY <2>7, <3>1, <3>2
  <2>12. w \in ToSet(Entries(p))
    BY <2>10, <2>11 DEF ToSet
  <2> QED
    BY <2>12 DEF p
<1> QED
  BY <1>1, Invariance, PTL
=============================================================================
