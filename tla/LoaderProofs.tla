---------------------------- MODULE LoaderProofs ----------------------------
(***************************************************************************)
(* Proofs about Loader: the format of a program file for every radix, and  *)
(* the way through the calls that read one.                                *)
(*                                                                         *)
(* What a loop adds up is a recursive function.  A fact about all of its   *)
(* values is proved by way of the first one it would not hold of.          *)
(***************************************************************************)
EXTENDS Loader, WellFoundedInduction, TLAPS

-----------------------------------------------------------------------------
(* Numbers.                                                                *)

LEMMA LeastNumber ==
    ASSUME NEW T, T \subseteq Nat, T # {}
    PROVE  \E x \in T : \A y \in T : x <= y
  <1>1. PICK x \in T : \A y \in T : <<y, x>> \notin OpToRel(<, Nat)
    BY NatLessThanWellFounded, WFMin
  <1>2. \A y \in T : ~(y < x)
    BY <1>1 DEF OpToRel
  <1> QED BY <1>2

LEMMA Quotient ==
    ASSUME NEW m \in Nat, m > 0, NEW q \in Int, NEW r \in 0..(m - 1)
    PROVE  /\ (m * q + r) % m = r
           /\ (m * q + r) \div m = q
  OBVIOUS

LEMMA DivMod ==
    ASSUME NEW m \in Nat, m > 0, NEW a \in Int
    PROVE  /\ a \div m \in Int /\ a % m \in 0..(m - 1)
           /\ a = m * (a \div m) + (a % m)
  OBVIOUS

LEMMA SumOfRests ==
    ASSUME NEW m \in Nat, m > 0, NEW a \in Int, NEW b \in Int
    PROVE  ((a % m) + b) % m = (a + b) % m
  <1> DEFINE q == a \div m
             r == a % m
             p == (r + b) \div m
             s == (r + b) % m
  <1>1. q \in Int /\ r \in Int /\ a = m * q + r
    BY DivMod
  <1>2. p \in Int /\ s \in 0..(m - 1) /\ r + b = m * p + s
    BY <1>1, DivMod
  <1> HIDE DEF q, r, p, s
  <1>3. m * (q + p) = m * q + m * p
    BY <1>1, <1>2
  <1>4. a + b = m * (q + p) + s
    BY <1>1, <1>2, <1>3
  <1>5. q + p \in Int
    BY <1>1, <1>2
  <1>6. (a + b) % m = s
    BY <1>2, <1>4, <1>5, Quotient
  <1> QED BY <1>6 DEF s, r

(* A number that is not a multiple of m makes a difference.                *)
LEMMA RestsDiffer ==
    ASSUME NEW m \in Nat, m > 0, NEW a \in Int, NEW d \in Int, d # 0, -m < d, d < m
    PROVE  (a + d) % m # a % m
  <1> SUFFICES ASSUME (a + d) % m = a % m PROVE FALSE
    OBVIOUS
  <1> DEFINE q == a \div m
             r == a % m
             p == (a + d) \div m
  <1>1. q \in Int /\ r \in Int /\ a = m * q + r
    BY DivMod
  <1>2. p \in Int /\ a + d = m * p + r
    BY DivMod
  <1> HIDE DEF q, r, p
  <1> DEFINE e == p - q
  <1>3. e \in Int /\ d = m * e
    BY <1>1, <1>2
  <1> HIDE DEF e
  <1>4. CASE e = 0
    BY <1>3, <1>4
  <1>5. CASE e >= 1
    BY <1>3, <1>5
  <1>6. CASE e <= -1
    BY <1>3, <1>6
  <1> QED BY <1>3, <1>4, <1>5, <1>6

-----------------------------------------------------------------------------
(* Bytes and words.                                                        *)

Octet == 0..(Radix - 1)
Word  == 0..(Radix * Radix - 1)

LEMMA Radixes == Radix \in Nat /\ Radix > 1 /\ Radix * Radix \in Nat /\ Radix * Radix > 0
  BY FormatAssumption

(* A word is its two bytes, and two bytes are one word.                    *)
LEMMA BytesOfWord ==
    ASSUME NEW w \in Word
    PROVE  /\ w % Radix \in Octet /\ w \div Radix \in Octet
           /\ (w % Radix) + Radix * (w \div Radix) = w
  <1> DEFINE q == w \div Radix
             r == w % Radix
  <1>1. q \in Int /\ r \in Octet /\ w = Radix * q + r
    BY Radixes, DivMod DEF Word, Octet
  <1> HIDE DEF q, r
  <1>2. q >= 0
    <2> SUFFICES ASSUME q <= -1 PROVE FALSE
      BY <1>1
    <2>1. Radix * q <= -Radix
      BY <1>1, Radixes
    <2> QED BY <1>1, <2>1, Radixes DEF Octet, Word
  <1>3. q < Radix
    <2> SUFFICES ASSUME q >= Radix PROVE FALSE
      BY <1>1, Radixes
    <2>1. Radix * q >= Radix * Radix
      BY <1>1, Radixes
    <2> QED BY <1>1, <2>1, Radixes DEF Octet, Word
  <1>4. q \in Octet
    BY <1>1, <1>2, <1>3, Radixes DEF Octet
  <1>5. r + Radix * q = w
    BY <1>1, Radixes DEF Octet
  <1> QED BY <1>1, <1>4, <1>5 DEF q, r

LEMMA WordOfBytes ==
    ASSUME NEW a \in Octet, NEW b \in Octet
    PROVE  /\ a + Radix * b \in Word
           /\ (a + Radix * b) % Radix = a
           /\ (a + Radix * b) \div Radix = b
  <1>1. Radix * b + a = a + Radix * b /\ b \in Int
    BY Radixes DEF Octet
  <1>2. (a + Radix * b) % Radix = a /\ (a + Radix * b) \div Radix = b
    BY <1>1, Radixes, Quotient DEF Octet
  <1>3. Radix * b >= 0 /\ Radix * b <= Radix * (Radix - 1)
    BY Radixes DEF Octet
  <1>4. Radix * (Radix - 1) = Radix * Radix - Radix
    BY Radixes
  <1>5. Radix * b \in Int
    BY Radixes DEF Octet
  <1>6. a + Radix * b \in Word
    BY <1>3, <1>4, <1>5, Radixes DEF Octet, Word
  <1> QED BY <1>2, <1>6

-----------------------------------------------------------------------------
(* Sums.                                                                   *)

(* f[i] is the sum of L and of the first i numbers of g, as it is or       *)
(* reduced after every addition.                                           *)
Sums(f, n, L, g) == f = [i \in 0..n |-> IF i = 0 THEN L ELSE f[i - 1] + g[i]]
ReducedSums(f, n, L, g) ==
    f = [i \in 0..n |-> IF i = 0 THEN L ELSE UInt16(f[i - 1] + g[i])]

(* There are such sums...                                                  *)
LEMMA SumsExist ==
    ASSUME NEW n \in Nat, NEW L \in Nat, NEW g, \A i \in 1..n : g[i] \in Nat
    PROVE  \E f \in [0..n -> Nat] : Sums(f, n, L, g)
  <1> DEFINE T == {m \in 0..n : ~ \E f \in [0..m -> Nat] : Sums(f, m, L, g)}
  <1> SUFFICES ASSUME n \in T PROVE FALSE
    OBVIOUS
  <1>1. PICK m \in T : \A k \in T : m <= k
    <2>1. T \subseteq Nat
      OBVIOUS
    <2> HIDE DEF T
    <2> QED BY <2>1, LeastNumber
  <1>2. m \in 0..n
    BY <1>1
  <1>3. CASE m = 0
    <2> DEFINE f == [i \in 0..0 |-> L]
    <2>1. f \in [0..0 -> Nat] /\ Sums(f, 0, L, g)
      BY DEF Sums
    <2> QED BY <1>1, <1>3, <2>1
  <1>4. CASE m > 0
    <2>1. m - 1 \in 0..n /\ ~(m <= m - 1)
      BY <1>2, <1>4
    <2>2. PICK f \in [0..(m - 1) -> Nat] : Sums(f, m - 1, L, g)
      BY <1>1, <2>1
    <2> DEFINE h == [i \in 0..m |-> IF i = m THEN f[m - 1] + g[m] ELSE f[i]]
    <2>3. h \in [0..m -> Nat]
      BY <1>2, <1>4
    <2>4. \A i \in 0..m : h[i] = IF i = 0 THEN L ELSE h[i - 1] + g[i]
      <3> TAKE i \in 0..m
      <3>1. CASE i = m
        BY <3>1, <1>2, <1>4
      <3>2. CASE i = 0
        BY <3>2, <1>4, <2>2 DEF Sums
      <3>3. CASE i \in 1..(m - 1)
        <4>1. f[i] = f[i - 1] + g[i]
          BY <2>2, <3>3 DEF Sums
        <4> QED BY <3>3, <4>1
      <3> QED BY <3>1, <3>2, <3>3, <1>2
    <2>5. Sums(h, m, L, g)
      BY <2>4 DEF Sums
    <2> QED BY <1>1, <2>3, <2>5
  <1> QED BY <1>2, <1>3, <1>4

(* ... and there is one way to add up, reduced or not.                     *)
LEMMA OneSum ==
    ASSUME NEW n \in Nat, NEW L, NEW g, NEW f, NEW h,
           Sums(f, n, L, g), Sums(h, n, L, g)
    PROVE  f = h
  <1> DEFINE T == {m \in 0..n : f[m] # h[m]}
  <1>1. CASE T = {}
    <2>1. \A i \in 0..n : f[i] = h[i]
      BY <1>1
    <2> QED BY <2>1 DEF Sums
  <1>2. CASE T # {}
    <2>1. T \subseteq Nat
      OBVIOUS
    <2> HIDE DEF T
    <2>2. PICK m \in T : \A k \in T : m <= k
      BY <1>2, <2>1, LeastNumber
    <2>3. m \in 0..n /\ f[m] # h[m]
      BY DEF T
    <2>4. m - 1 \in 0..n /\ f[m - 1] = h[m - 1]
      BY <2>2, <2>3 DEF T, Sums
    <2> QED BY <2>3, <2>4 DEF Sums
  <1> QED BY <1>1, <1>2

LEMMA OneReducedSum ==
    ASSUME NEW n \in Nat, NEW L, NEW g, NEW f, NEW h,
           ReducedSums(f, n, L, g), ReducedSums(h, n, L, g)
    PROVE  f = h
  <1> DEFINE T == {m \in 0..n : f[m] # h[m]}
  <1>1. CASE T = {}
    <2>1. \A i \in 0..n : f[i] = h[i]
      BY <1>1
    <2> QED BY <2>1 DEF ReducedSums
  <1>2. CASE T # {}
    <2>1. T \subseteq Nat
      OBVIOUS
    <2> HIDE DEF T
    <2>2. PICK m \in T : \A k \in T : m <= k
      BY <1>2, <2>1, LeastNumber
    <2>3. m \in 0..n /\ f[m] # h[m]
      BY DEF T
    <2>4. m - 1 \in 0..n /\ f[m - 1] = h[m - 1]
      BY <2>2, <2>3 DEF T, ReducedSums
    <2> QED BY <2>3, <2>4 DEF ReducedSums
  <1> QED BY <1>1, <1>2

(* The total of some words is the last of their sums.                      *)
LEMMA TotalIsSum ==
    ASSUME NEW n \in Nat, NEW words, Len(words) = n, NEW f, Sums(f, n, n, words)
    PROVE  Total(words) = f[n]
  <1> DEFINE g == CHOOSE g : Sums(g, n, n, words)
  <1>1. Sums(g, n, n, words)
    OBVIOUS
  <1>2. Total(words) = g[n]
    BY DEF Total, Sums
  <1> HIDE DEF g
  <1>3. g = f
    BY <1>1, OneSum
  <1> QED BY <1>2, <1>3

(* The words of a file, as it is read.                                     *)
WordsOf(buf, n) == [i \in 1..n |-> Instruction(buf, i - 1)]

(* The checksum, which is reduced after every addition, is the total of    *)
(* the words, reduced once.                                                *)
LEMMA ChecksumIsTotal ==
    ASSUME NEW n \in Word, NEW buf, Length(buf) = n,
           \A i \in 1..n : Instruction(buf, i - 1) \in Nat
    PROVE  computed_checksum(buf, n) = UInt16(Total(WordsOf(buf, n)))
  <1> DEFINE words == WordsOf(buf, n)
             m == Radix * Radix
  <1>1. n \in Nat /\ n < m /\ m \in Nat /\ m > 0
    BY Radixes DEF Word
  <1>2. Len(words) = n /\ \A i \in 1..n : words[i] = Instruction(buf, i - 1)
    BY <1>1 DEF WordsOf
  <1>3. \A i \in 1..n : words[i] \in Nat
    BY <1>2
  <1> HIDE DEF words, m
  <1>4. PICK f \in [0..n -> Nat] : Sums(f, n, n, words)
    BY <1>1, <1>3, SumsExist
  <1> DEFINE h == [i \in 0..n |-> f[i] % m]
             s == CHOOSE s : ReducedSums(s, n, n, words)
  <1>5. ReducedSums(h, n, n, words)
    <2>1. ASSUME NEW i \in 0..n
          PROVE  h[i] = IF i = 0 THEN n ELSE UInt16(h[i - 1] + words[i])
      <3>1. CASE i = 0
        <4>1. n % m = n
          BY <1>1
        <4> QED BY <3>1, <1>4, <4>1 DEF Sums
      <3>2. CASE i \in 1..n
        <4>1. i - 1 \in 0..n /\ f[i] = f[i - 1] + words[i]
          BY <1>1, <1>4, <3>2 DEF Sums
        <4>2. f[i - 1] \in Int /\ words[i] \in Int
          BY <4>1, <1>3, <3>2
        <4>3. ((f[i - 1] % m) + words[i]) % m = (f[i - 1] + words[i]) % m
          BY <4>2, <1>1, SumOfRests
        <4> QED BY <4>1, <4>3, <3>2 DEF UInt16, m
      <3> QED BY <3>1, <3>2, <1>1
    <2> QED BY <2>1 DEF ReducedSums
  <1>6. ReducedSums(s, n, n, words)
    <2> HIDE DEF h
    <2> QED BY <1>5
  <1>7. computed_checksum(buf, n) = s[n]
    <2>1. ASSUME NEW t
          PROVE  ReducedSums(t, n, n, words) <=>
                 t = [i \in 0..n |-> IF i = 0 THEN Length(buf)
                                     ELSE UInt16(t[i - 1] + Instruction(buf, i - 1))]
      <3>1. \A i \in 0..n : i # 0 => words[i] = Instruction(buf, i - 1)
        BY <1>1, <1>2
      <3> QED BY <3>1 DEF ReducedSums
    <2> QED BY <2>1 DEF computed_checksum
  <1>8. s = h
    <2> HIDE DEF s, h
    <2> QED BY <1>1, <1>5, <1>6, OneReducedSum
  <1> HIDE DEF s
  <1>9. Total(words) = f[n]
    BY <1>1, <1>2, <1>4, TotalIsSum
  <1>10. s[n] = f[n] % m
    BY <1>8, <1>1
  <1> QED BY <1>7, <1>9, <1>10 DEF UInt16, m, words

-----------------------------------------------------------------------------
(* The format.                                                             *)

LEMMA MagicType == Magic \in Nat /\ Overhead \in Nat /\ Overhead = Magic + 4
  BY FormatAssumption DEF Magic, Overhead

(* What is read out of bytes are words.                                    *)
LEMMA WordRead ==
    ASSUME NEW buf \in Seq(Octet), NEW i \in Nat, i + 2 <= Len(buf)
    PROVE  /\ read_protocol_word(buf, i) \in Word
           /\ read_protocol_word(buf, i) % Radix = buf[i + 1]
           /\ read_protocol_word(buf, i) \div Radix = buf[i + 2]
  <1>1. buf[i + 1] \in Octet /\ buf[i + 2] \in Octet
    OBVIOUS
  <1> QED BY <1>1, WordOfBytes DEF read_protocol_word

(* A sequence of p things, whatever they are.                              *)
Listed(s, p) == s = [i \in 1..p |-> s[i]]

(* r is s, of p things, and then t, of q things.                           *)
Joins(r, s, p, t, q) ==
    /\ Listed(r, p + q)
    /\ \A i \in 1..p : r[i] = s[i]
    /\ \A i \in 1..q : r[p + i] = t[i]

LEMMA Joined ==
    ASSUME NEW p \in Nat, NEW q \in Nat, NEW s, NEW t, Listed(s, p), Listed(t, q)
    PROVE  Joins(s \o t, s, p, t, q)
  <1> DEFINE S == {s[i] : i \in 1..p} \cup {t[i] : i \in 1..q}
             st == s \o t
  <1>1. s \in Seq(S) /\ Len(s) = p
    BY DEF Listed
  <1>2. t \in Seq(S) /\ Len(t) = q
    BY DEF Listed
  <1> HIDE DEF S
  <1>3. st \in Seq(S) /\ Len(st) = p + q
    BY <1>1, <1>2
  <1>4. \A i \in 1..p : st[i] = s[i]
    BY <1>1, <1>2
  <1>5. \A i \in 1..q : st[p + i] = t[i]
    BY <1>1, <1>2
  <1> HIDE DEF st
  <1>6. Listed(st, p + q)
    BY <1>3 DEF Listed
  <1>7. Joins(st, s, p, t, q)
    BY <1>4, <1>5, <1>6 DEF Joins
  <1> QED BY <1>7 DEF st

LEMMA ListedLen ==
    ASSUME NEW p \in Nat, NEW s, Listed(s, p)
    PROVE  Len(s) = p
  BY DEF Listed

(* Where things are in an encoded program.                                 *)
LEMMA EncodedFields ==
    ASSUME NEW n \in Nat, NEW words, Len(words) = n
    PROVE  LET b == Encoded(words)
               c == UInt16(Total(words))
           IN  /\ Listed(b, Overhead + 2 * n)
               /\ \A j \in 1..Magic : b[j] = HEADER_MAGIC[j]
               /\ b[Magic + 1] = n % Radix /\ b[Magic + 2] = n \div Radix
               /\ \A i \in 0..(n - 1) : /\ b[Magic + 2 * i + 3] = words[i + 1] % Radix
                                        /\ b[Magic + 2 * i + 4] = words[i + 1] \div Radix
               /\ b[Magic + 2 * n + 3] = c % Radix /\ b[Magic + 2 * n + 4] = c \div Radix
  <1> DEFINE c == UInt16(Total(words))
             x == HEADER_MAGIC \o Bytes(n)
             y == Concatenated(words)
             z == Bytes(c)
             xy == x \o y
             b == xy \o z
  <1>1. Encoded(words) = b
    BY DEF Encoded
  <1>2. /\ Listed(x, Magic + 2)
        /\ \A j \in 1..Magic : x[j] = HEADER_MAGIC[j]
        /\ x[Magic + 1] = n % Radix /\ x[Magic + 2] = n \div Radix
    <2> DEFINE t == Bytes(n)
    <2>1. Listed(t, 2) /\ t[1] = n % Radix /\ t[2] = n \div Radix
      BY DEF Bytes, Listed
    <2> HIDE DEF t
    <2>2. Magic \in Nat /\ 2 \in Nat /\ Listed(HEADER_MAGIC, Magic)
      BY FormatAssumption, MagicType DEF Listed, Magic
    <2>3. x = HEADER_MAGIC \o t
      BY DEF t
    <2> HIDE DEF x
    <2>4. Joins(x, HEADER_MAGIC, Magic, t, 2)
      BY <2>1, <2>2, <2>3, Joined
    <2> QED BY <2>1, <2>2, <2>4 DEF Joins
  <1>3. /\ Listed(y, 2 * n)
        /\ \A i \in 0..(n - 1) : /\ y[2 * i + 1] = words[i + 1] % Radix
                                 /\ y[2 * i + 2] = words[i + 1] \div Radix
    <2>1. y = [i \in 1..(2 * n) |-> Bytes(words[(i + 1) \div 2])[2 - (i % 2)]]
      BY DEF Concatenated
    <2>2. ASSUME NEW i \in 0..(n - 1)
          PROVE  /\ y[2 * i + 1] = words[i + 1] % Radix
                 /\ y[2 * i + 2] = words[i + 1] \div Radix
      <3>1. /\ 2 * i + 1 \in 1..(2 * n) /\ 2 * i + 2 \in 1..(2 * n)
            /\ ((2 * i + 1) + 1) \div 2 = i + 1 /\ ((2 * i + 2) + 1) \div 2 = i + 1
            /\ 2 - ((2 * i + 1) % 2) = 1 /\ 2 - ((2 * i + 2) % 2) = 2
        OBVIOUS
      <3>2. y[2 * i + 1] = Bytes(words[i + 1])[1] /\ y[2 * i + 2] = Bytes(words[i + 1])[2]
        BY <2>1, <3>1
      <3> QED BY <3>2 DEF Bytes
    <2>3. Listed(y, 2 * n)
      BY <2>1 DEF Listed
    <2> QED BY <2>2, <2>3
  <1>4. Listed(z, 2) /\ z[1] = c % Radix /\ z[2] = c \div Radix
    BY DEF Bytes, Listed
  <1> HIDE DEF x, y, z
  <1>5. /\ Listed(xy, Magic + 2 + 2 * n)
        /\ \A j \in 1..(Magic + 2) : xy[j] = x[j]
        /\ \A j \in 1..(2 * n) : xy[Magic + 2 + j] = y[j]
    <2>1. Magic + 2 \in Nat /\ 2 * n \in Nat /\ xy = x \o y
      BY MagicType
    <2> HIDE DEF xy
    <2>2. Joins(xy, x, Magic + 2, y, 2 * n)
      BY <2>1, <1>2, <1>3, Joined
    <2> QED BY <2>2 DEF Joins
  <1>6. /\ Listed(b, Overhead + 2 * n)
        /\ \A j \in 1..(Magic + 2 + 2 * n) : b[j] = xy[j]
        /\ \A j \in 1..2 : b[Magic + 2 + 2 * n + j] = z[j]
    <2>1. /\ Magic + 2 + 2 * n \in Nat /\ 2 \in Nat /\ b = xy \o z
          /\ Magic + 2 + 2 * n + 2 = Overhead + 2 * n
      BY MagicType
    <2> HIDE DEF xy, b
    <2>2. Joins(b, xy, Magic + 2 + 2 * n, z, 2)
      BY <2>1, <1>4, <1>5, Joined
    <2> QED BY <2>1, <2>2 DEF Joins
  <1> HIDE DEF xy, b
  <1>7. \A j \in 1..(Magic + 2) : b[j] = x[j]
    <2>1. \A j \in 1..(Magic + 2) : j \in 1..(Magic + 2 + 2 * n)
      BY MagicType
    <2> QED BY <2>1, <1>5, <1>6
  <1>8. \A j \in 1..(2 * n) : b[Magic + 2 + j] = y[j]
    <2>1. \A j \in 1..(2 * n) : Magic + 2 + j \in 1..(Magic + 2 + 2 * n)
      BY MagicType
    <2> QED BY <2>1, <1>5, <1>6
  <1>9. \A i \in 0..(n - 1) : /\ b[Magic + 2 * i + 3] = words[i + 1] % Radix
                              /\ b[Magic + 2 * i + 4] = words[i + 1] \div Radix
    <2> TAKE i \in 0..(n - 1)
    <2>1. /\ 2 * i + 1 \in 1..(2 * n) /\ 2 * i + 2 \in 1..(2 * n)
          /\ Magic + 2 + (2 * i + 1) = Magic + 2 * i + 3
          /\ Magic + 2 + (2 * i + 2) = Magic + 2 * i + 4
      BY MagicType
    <2>2. b[Magic + 2 * i + 3] = y[2 * i + 1] /\ b[Magic + 2 * i + 4] = y[2 * i + 2]
      BY <1>8, <2>1
    <2> QED BY <2>2, <1>3
  <1>10. b[Magic + 2 * n + 3] = z[1] /\ b[Magic + 2 * n + 4] = z[2]
    <2>1. /\ 1 \in 1..2 /\ Magic + 2 + 2 * n + 1 = Magic + 2 * n + 3
          /\ 2 \in 1..2 /\ Magic + 2 + 2 * n + 2 = Magic + 2 * n + 4
      BY MagicType
    <2> QED BY <1>6, <2>1
  <1>11. \A j \in 1..Magic : b[j] = HEADER_MAGIC[j]
    BY <1>2, <1>7, MagicType
  <1>12. b[Magic + 1] = n % Radix /\ b[Magic + 2] = n \div Radix
    BY <1>2, <1>7, MagicType
  <1> QED BY <1>1, <1>4, <1>6, <1>9, <1>10, <1>11, <1>12

LEMMA TotalType ==
    ASSUME NEW n \in Nat, NEW words, Len(words) = n, \A i \in 1..n : words[i] \in Nat
    PROVE  Total(words) \in Nat /\ UInt16(Total(words)) \in Word
  <1>1. PICK f \in [0..n -> Nat] : Sums(f, n, n, words)
    BY SumsExist
  <1>2. Total(words) = f[n]
    BY <1>1, TotalIsSum
  <1>3. Total(words) \in Nat
    BY <1>1, <1>2
  <1> QED BY <1>3, Radixes, DivMod DEF UInt16, Word

(* The words of a buffer of the right size.                                *)
LEMMA WordsRead ==
    ASSUME NEW buf \in Seq(Octet), NEW n \in Nat, Len(buf) = Overhead + 2 * n
    PROVE  /\ Length(buf) \in Word
           /\ Length(buf) % Radix = buf[Magic + 1] /\ Length(buf) \div Radix = buf[Magic + 2]
           /\ \A i \in 0..n :
                 /\ Instruction(buf, i) \in Word
                 /\ Instruction(buf, i) % Radix = buf[Magic + 2 * i + 3]
                 /\ Instruction(buf, i) \div Radix = buf[Magic + 2 * i + 4]
  <1>1. Magic \in Nat /\ Magic + 2 <= Len(buf)
    BY MagicType
  <1>2. ASSUME NEW i \in 0..n
        PROVE  /\ Instruction(buf, i) \in Word
               /\ Instruction(buf, i) % Radix = buf[Magic + 2 * i + 3]
               /\ Instruction(buf, i) \div Radix = buf[Magic + 2 * i + 4]
    <2>1. /\ Magic + 2 + 2 * i \in Nat /\ (Magic + 2 + 2 * i) + 2 <= Len(buf)
          /\ (Magic + 2 + 2 * i) + 1 = Magic + 2 * i + 3
          /\ (Magic + 2 + 2 * i) + 2 = Magic + 2 * i + 4
      BY MagicType
    <2> QED BY <2>1, WordRead DEF Instruction
  <1> QED BY <1>1, <1>2, WordRead DEF Length

(* What load_program checks, of a whole file at once.                      *)
Good(buf) ==
    /\ Len(buf) >= Overhead
    /\ Len(buf) = Overhead + 2 * Length(buf)
    /\ SubSeq(buf, 1, Magic) = HEADER_MAGIC
    /\ computed_checksum(buf, Length(buf)) = Instruction(buf, Length(buf))

LEMMA MagicRead ==
    ASSUME NEW buf \in Seq(Octet), Magic <= Len(buf)
    PROVE  SubSeq(buf, 1, Magic) = HEADER_MAGIC <=> \A j \in 1..Magic : buf[j] = HEADER_MAGIC[j]
  <1>1. HEADER_MAGIC \in Seq(Octet) /\ Len(HEADER_MAGIC) = Magic /\ Magic \in Nat
    BY FormatAssumption, MagicType DEF Magic, Octet
  <1> DEFINE head == SubSeq(buf, 1, Magic)
  <1>2. head \in Seq(Octet) /\ Len(head) = Magic /\ \A j \in 1..Magic : head[j] = buf[j]
    BY <1>1
  <1> HIDE DEF head
  <1>3. head = HEADER_MAGIC <=> \A j \in 1..Magic : head[j] = HEADER_MAGIC[j]
    BY <1>1, <1>2
  <1> QED BY <1>2, <1>3 DEF head

(* The checks accept what is encoded...                                    *)
LEMMA EncodedIsGood ==
    ASSUME NEW buf \in Seq(Octet), WellFormed(buf)
    PROVE  Good(buf)
  <1>1. PICK n \in 0..Len(buf) : Len(buf) = Overhead + 2 * n /\ buf = Encoded(WordsOf(buf, n))
    BY DEF WellFormed, WordsOf
  <1> DEFINE words == WordsOf(buf, n)
             c == UInt16(Total(words))
  <1>2. n \in Nat /\ Len(words) = n /\ \A i \in 1..n : words[i] = Instruction(buf, i - 1)
    BY DEF WordsOf
  <1> HIDE DEF words
  <1>3. buf = Encoded(words)
    BY <1>1 DEF words
  <1>4. /\ \A j \in 1..Magic : buf[j] = HEADER_MAGIC[j]
        /\ buf[Magic + 1] = n % Radix /\ buf[Magic + 2] = n \div Radix
        /\ buf[Magic + 2 * n + 3] = c % Radix /\ buf[Magic + 2 * n + 4] = c \div Radix
    BY <1>2, <1>3, EncodedFields
  <1>5. Length(buf) = n /\ n \in Word
    <2>1. Length(buf) = buf[Magic + 1] + Radix * buf[Magic + 2]
      BY DEF Length, read_protocol_word
    <2>2. n = Radix * (n \div Radix) + (n % Radix)
      BY <1>2, Radixes, DivMod
    <2>3. n % Radix \in Int /\ Radix * (n \div Radix) \in Int
      BY <1>2, Radixes, DivMod
    <2>4. Length(buf) = n
      BY <2>1, <2>2, <2>3, <1>4
    <2> QED BY <2>4, <1>1, <1>2, WordsRead
  <1>6. \A i \in 1..n : Instruction(buf, i - 1) \in Nat
    <2>1. \A i \in 1..n : i - 1 \in 0..n
      BY <1>2
    <2> QED BY <2>1, <1>1, <1>2, WordsRead DEF Word
  <1>7. c \in Word
    BY <1>2, <1>6, TotalType
  <1>8. Instruction(buf, n) = c
    <2>1. Instruction(buf, n) = buf[Magic + 2 * n + 3] + Radix * buf[Magic + 2 * n + 4]
      <3>1. /\ (Magic + 2 + 2 * n) + 1 = Magic + 2 * n + 3
            /\ (Magic + 2 + 2 * n) + 2 = Magic + 2 * n + 4
        BY <1>2, MagicType
      <3> QED BY <3>1 DEF Instruction, read_protocol_word
    <2> QED BY <2>1, <1>4, <1>7, BytesOfWord
  <1>9. computed_checksum(buf, n) = c
    BY <1>5, <1>6, ChecksumIsTotal DEF words
  <1>10. SubSeq(buf, 1, Magic) = HEADER_MAGIC
    <2>1. Magic <= Len(buf)
      BY <1>1, <1>2, MagicType
    <2> QED BY <2>1, <1>4, MagicRead
  <1>11. Len(buf) >= Overhead
    BY <1>1, <1>2, MagicType
  <1> QED BY <1>1, <1>5, <1>8, <1>9, <1>10, <1>11 DEF Good

(* ... and nothing else.                                                   *)
LEMMA GoodIsEncoded ==
    ASSUME NEW buf \in Seq(Octet), Good(buf)
    PROVE  /\ Length(buf) \in Word
           /\ buf = Encoded(WordsOf(buf, Length(buf)))
  <1> DEFINE n == Length(buf)
             words == WordsOf(buf, n)
             c == UInt16(Total(words))
             b == Encoded(words)
  <1>1. /\ Len(buf) = Overhead + 2 * n
        /\ SubSeq(buf, 1, Magic) = HEADER_MAGIC
        /\ computed_checksum(buf, n) = Instruction(buf, n)
    BY DEF Good
  <1>2. n \in Word /\ n \in Nat
    <2>1. Magic \in Nat /\ Magic + 2 <= Len(buf)
      BY MagicType DEF Good
    <2> QED BY <2>1, WordRead DEF Length, Word
  <1>3. Len(words) = n /\ \A i \in 1..n : words[i] = Instruction(buf, i - 1)
    BY <1>2 DEF WordsOf
  <1>4. /\ n % Radix = buf[Magic + 1] /\ n \div Radix = buf[Magic + 2]
        /\ \A i \in 0..n :
              /\ Instruction(buf, i) \in Word
              /\ Instruction(buf, i) % Radix = buf[Magic + 2 * i + 3]
              /\ Instruction(buf, i) \div Radix = buf[Magic + 2 * i + 4]
    BY <1>1, <1>2, WordsRead
  <1>5. c = Instruction(buf, n)
    <2>1. ASSUME NEW i \in 1..n PROVE Instruction(buf, i - 1) \in Nat
      <3>1. i - 1 \in 0..n
        BY <1>2
      <3> QED BY <3>1, <1>4 DEF Word
    <2> QED BY <2>1, <1>1, <1>2, ChecksumIsTotal
  <1>6. \A j \in 1..Magic : buf[j] = HEADER_MAGIC[j]
    BY <1>1, MagicType, MagicRead DEF Good
  <1> HIDE DEF n, words, c
  <1>7. /\ Listed(b, Overhead + 2 * n)
        /\ \A j \in 1..Magic : b[j] = HEADER_MAGIC[j]
        /\ b[Magic + 1] = n % Radix /\ b[Magic + 2] = n \div Radix
        /\ \A i \in 0..(n - 1) : /\ b[Magic + 2 * i + 3] = words[i + 1] % Radix
                                 /\ b[Magic + 2 * i + 4] = words[i + 1] \div Radix
        /\ b[Magic + 2 * n + 3] = c % Radix /\ b[Magic + 2 * n + 4] = c \div Radix
    BY <1>2, <1>3, EncodedFields DEF c
  <1> HIDE DEF b
  <1>8. ASSUME NEW j \in 1..(Overhead + 2 * n) PROVE b[j] = buf[j]
    <2>1. CASE j \in 1..Magic
      BY <2>1, <1>6, <1>7
    <2>2. CASE j \in {Magic + 1, Magic + 2}
      BY <2>2, <1>4, <1>7
    <2>3. CASE \E i \in 0..(n - 1) : j \in {Magic + 2 * i + 3, Magic + 2 * i + 4}
      <3>1. PICK i \in 0..(n - 1) : j \in {Magic + 2 * i + 3, Magic + 2 * i + 4}
        BY <2>3
      <3>2. i \in 0..n /\ i + 1 \in 1..n /\ (i + 1) - 1 = i
        BY <1>2
      <3>3. words[i + 1] = Instruction(buf, i)
        BY <1>3, <3>2
      <3> QED BY <3>1, <3>2, <3>3, <1>4, <1>7
    <2>4. CASE j \in {Magic + 2 * n + 3, Magic + 2 * n + 4}
      <3>1. n \in 0..n
        BY <1>2
      <3> QED BY <3>1, <2>4, <1>4, <1>5, <1>7
    <2>5. ASSUME j > Magic + 2, j <= Magic + 2 * n + 2
          PROVE  \E i \in 0..(n - 1) : j \in {Magic + 2 * i + 3, Magic + 2 * i + 4}
      <3> DEFINE i == (j - (Magic + 3)) \div 2
      <3>1. i \in 0..(n - 1) /\ (j = Magic + 2 * i + 3 \/ j = Magic + 2 * i + 4)
        BY <2>5, <1>2, MagicType
      <3> QED BY <3>1
    <2> QED BY <2>1, <2>2, <2>3, <2>4, <2>5, <1>2, MagicType
  <1>9. Listed(buf, Overhead + 2 * n)
    BY <1>1 DEF Listed, n
  <1>10. b = buf
    BY <1>7, <1>8, <1>9 DEF Listed
  <1> QED BY <1>2, <1>10 DEF b, words, n

(* A word exchanged for another changes the total by the difference.       *)
LEMMA TotalShifted ==
    ASSUME NEW n \in Nat, NEW words, NEW other, Len(words) = n, Len(other) = n,
           \A i \in 1..n : words[i] \in Nat /\ other[i] \in Nat,
           NEW k \in 1..n, \A i \in 1..n : i # k => other[i] = words[i]
    PROVE  Total(other) = Total(words) + (other[k] - words[k])
  <1>1. PICK f \in [0..n -> Nat] : Sums(f, n, n, words)
    BY SumsExist
  <1>2. PICK h \in [0..n -> Nat] : Sums(h, n, n, other)
    BY SumsExist
  <1> DEFINE d == other[k] - words[k]
             Shift(m) == IF m < k THEN 0 ELSE d
             T == {m \in 0..n : h[m] # f[m] + Shift(m)}
  <1>3. /\ f[0] = n /\ \A i \in 1..n : f[i] = f[i - 1] + words[i]
        /\ h[0] = n /\ \A i \in 1..n : h[i] = h[i - 1] + other[i]
    BY <1>1, <1>2 DEF Sums
  <1>4. T = {}
    <2> SUFFICES ASSUME T # {} PROVE FALSE
      OBVIOUS
    <2>1. T \subseteq Nat
      OBVIOUS
    <2> HIDE DEF T
    <2>2. PICK m \in T : \A j \in T : m <= j
      BY <2>1, LeastNumber
    <2>3. m \in 0..n /\ h[m] # f[m] + Shift(m)
      BY <2>2 DEF T
    <2>4. m # 0
      BY <2>3, <1>3
    <2>5. m - 1 \in 0..n /\ h[m - 1] = f[m - 1] + Shift(m - 1)
      <3>1. m - 1 \in 0..n /\ ~(m <= m - 1)
        BY <2>3, <2>4
      <3>2. m - 1 \notin T
        BY <2>2, <3>1
      <3> QED BY <3>1, <3>2 DEF T
    <2>6. /\ m \in 1..n /\ f[m] = f[m - 1] + words[m] /\ h[m] = h[m - 1] + other[m]
          /\ f[m - 1] \in Nat /\ words[m] \in Nat /\ other[m] \in Nat
      BY <2>3, <2>4, <2>5, <1>3
    <2>7. CASE m < k
      BY <2>3, <2>5, <2>6, <2>7
    <2>8. CASE m = k
      BY <2>3, <2>5, <2>6, <2>8
    <2>9. CASE m > k
      <3>1. ~(m < k) /\ ~(m - 1 < k) /\ other[m] = words[m] /\ d \in Int
        BY <2>6, <2>9
      <3> HIDE DEF d
      <3> QED BY <2>3, <2>5, <2>6, <3>1
    <2> QED BY <2>6, <2>7, <2>8, <2>9
  <1>5. h[n] = f[n] + d
    <2>1. \A m \in 0..n : h[m] = f[m] + Shift(m)
      BY <1>4
    <2>2. n \in 0..n /\ ~(n < k)
      OBVIOUS
    <2> QED BY <2>1, <2>2
  <1> QED BY <1>1, <1>2, <1>5, TotalIsSum

-----------------------------------------------------------------------------
(* An altered file.                                                        *)

(* The words of a file in a row: its length, the instructions, the sum.    *)
Entry(buf, i) == read_protocol_word(buf, Magic + 2 * i)

LEMMA Entries ==
    ASSUME NEW buf
    PROVE  /\ Length(buf) = Entry(buf, 0)
           /\ \A i \in Nat : Instruction(buf, i) = Entry(buf, i + 1)
  <1>1. Magic + 2 * 0 = Magic /\ \A i \in Nat : Magic + 2 * (i + 1) = Magic + 2 + 2 * i
    BY MagicType
  <1> QED BY <1>1 DEF Entry, Length, Instruction

LEMMA AlteredEntries ==
    ASSUME NEW n \in Nat, NEW buf \in Seq(Octet), Len(buf) = Overhead + 2 * n,
           NEW k \in 0..(n + 1), NEW w \in Word, NEW altered,
           altered = Altered(buf, Magic + 2 * k + 1, w), altered # buf
    PROVE  /\ altered \in Seq(Octet) /\ Len(altered) = Len(buf)
           /\ Entry(altered, k) = w /\ Entry(buf, k) # w
           /\ \A i \in 0..(n + 1) : i # k => Entry(altered, i) = Entry(buf, i)
  <1> DEFINE p == Magic + 2 * k + 1
  <1>1. p \in 1..Len(buf) /\ p + 1 \in 1..Len(buf) /\ p = (Magic + 2 * k) + 1
    BY MagicType
  <1>2. w % Radix \in Octet /\ w \div Radix \in Octet /\ (w % Radix) + Radix * (w \div Radix) = w
    BY BytesOfWord
  <1>3. altered = [buf EXCEPT ![p] = w % Radix, ![p + 1] = w \div Radix]
    BY DEF Altered
  <1> HIDE DEF p
  <1>4. altered \in Seq(Octet) /\ Len(altered) = Len(buf)
    BY <1>1, <1>2, <1>3
  <1>5. /\ altered[p] = w % Radix /\ altered[p + 1] = w \div Radix
        /\ \A j \in 1..Len(buf) : j # p /\ j # p + 1 => altered[j] = buf[j]
    BY <1>1, <1>3
  <1>6. Entry(altered, k) = w
    BY <1>1, <1>2, <1>5, MagicType DEF Entry, read_protocol_word
  <1>7. Entry(buf, k) # w
    <2> SUFFICES ASSUME Entry(buf, k) = w PROVE FALSE
      OBVIOUS
    <2>1. Magic + 2 * k \in Nat /\ (Magic + 2 * k) + 2 <= Len(buf) /\ (Magic + 2 * k) + 2 = p + 1
      BY <1>1, MagicType
    <2>2. w % Radix = buf[p] /\ w \div Radix = buf[p + 1]
      BY <2>1, <1>1, WordRead DEF Entry
    <2>3. \A j \in 1..Len(buf) : altered[j] = buf[j]
      BY <2>2, <1>5
    <2>4. altered = buf
      BY <2>3, <1>4
    <2> QED BY <2>4
  <1>8. ASSUME NEW i \in 0..(n + 1), i # k
        PROVE  Entry(altered, i) = Entry(buf, i)
    <2> DEFINE q == Magic + 2 * i
    <2>1. /\ q + 1 \in 1..Len(buf) /\ q + 2 \in 1..Len(buf)
          /\ q + 1 # p /\ q + 1 # p + 1 /\ q + 2 # p /\ q + 2 # p + 1
      BY <1>8, MagicType DEF p
    <2>2. altered[q + 1] = buf[q + 1] /\ altered[q + 2] = buf[q + 2]
      BY <2>1, <1>5
    <2> QED BY <2>2 DEF Entry, read_protocol_word
  <1> QED BY <1>4, <1>6, <1>7, <1>8

LEMMA AlteredIsRefused ==
    ASSUME NEW buf \in Seq(Octet), Good(buf), NEW k \in 0..(Length(buf) + 1), NEW w \in Word,
           Altered(buf, Magic + 2 * k + 1, w) # buf
    PROVE  ~Acceptable(Altered(buf, Magic + 2 * k + 1, w))
  <1> DEFINE n == Length(buf)
             altered == Altered(buf, Magic + 2 * k + 1, w)
  <1>1. /\ n \in Word /\ n \in Nat /\ Len(buf) = Overhead + 2 * n
        /\ computed_checksum(buf, n) = Instruction(buf, n)
    BY GoodIsEncoded DEF Good, Word
  <1>2. /\ altered \in Seq(Octet) /\ Len(altered) = Len(buf)
        /\ Entry(altered, k) = w /\ Entry(buf, k) # w
        /\ \A i \in 0..(n + 1) : i # k => Entry(altered, i) = Entry(buf, i)
    <2> HIDE DEF altered
    <2> QED BY <1>1, AlteredEntries DEF altered
  <1> HIDE DEF n, altered
  <1>3. /\ Length(altered) = Entry(altered, 0) /\ n = Entry(buf, 0)
        /\ \A i \in Nat : /\ Instruction(altered, i) = Entry(altered, i + 1)
                          /\ Instruction(buf, i) = Entry(buf, i + 1)
    BY Entries DEF n
  <1> SUFFICES ASSUME Acceptable(altered) PROVE FALSE
    BY DEF altered
  <1>4. /\ Len(altered) = Overhead + 2 * Length(altered)
        /\ computed_checksum(altered, Length(altered)) = Instruction(altered, Length(altered))
    BY DEF Acceptable
  <1>5. Length(altered) \in Word
    <2>1. Magic \in Nat /\ Magic + 2 <= Len(altered)
      BY <1>1, <1>2, MagicType
    <2> QED BY <2>1, <1>2, WordRead DEF Length
  <1>6. Length(altered) = n
    BY <1>1, <1>2, <1>4, <1>5, MagicType DEF Word
  <1>7. k # 0
    BY <1>2, <1>3, <1>6
  <1> DEFINE words == WordsOf(buf, n)
             other == WordsOf(altered, n)
  <1>8. \A i \in 0..n : Instruction(buf, i) \in Word /\ Instruction(altered, i) \in Word
    BY <1>1, <1>2, WordsRead
  <1>9. /\ Len(words) = n /\ Len(other) = n
        /\ \A i \in 1..n : /\ words[i] = Entry(buf, i) /\ other[i] = Entry(altered, i)
                           /\ words[i] \in Word /\ other[i] \in Word
    <2>1. \A i \in 1..n : i - 1 \in 0..n /\ i - 1 \in Nat /\ (i - 1) + 1 = i
      BY <1>1
    <2> QED BY <2>1, <1>1, <1>3, <1>8 DEF WordsOf
  <1>10. /\ computed_checksum(buf, n) = UInt16(Total(words))
         /\ computed_checksum(altered, n) = UInt16(Total(other))
    <2>1. \A i \in 1..n : Instruction(buf, i - 1) \in Nat /\ Instruction(altered, i - 1) \in Nat
      <3>1. \A i \in 1..n : i - 1 \in 0..n
        BY <1>1
      <3> QED BY <3>1, <1>8 DEF Word
    <2> QED BY <2>1, <1>1, <1>6, ChecksumIsTotal DEF n
  <1> HIDE DEF words, other
  <1>11. CASE k = n + 1
    <2>1. \A i \in 1..n : words[i] = other[i]
      BY <1>1, <1>2, <1>9, <1>11
    <2>2. words = other
      BY <2>1, <1>1 DEF WordsOf, words, other
    <2>3. Instruction(buf, n) = Instruction(altered, n)
      <3>1. UInt16(Total(words)) = UInt16(Total(other))
        BY <2>2
      <3>2. computed_checksum(altered, n) = Instruction(altered, n)
        BY <1>4, <1>6
      <3> QED BY <3>1, <3>2, <1>1, <1>10
    <2> QED BY <2>3, <1>1, <1>2, <1>3, <1>11
  <1>12. CASE k \in 1..n
    <2> DEFINE d == other[k] - words[k]
    <2>1. \A i \in 1..n : words[i] \in Nat /\ other[i] \in Nat
      BY <1>9 DEF Word
    <2>2. \A i \in 1..n : i # k => other[i] = words[i]
      BY <1>1, <1>2, <1>9
    <2>3. Total(other) = Total(words) + d
      BY <2>1, <2>2, <1>1, <1>9, <1>12, TotalShifted
    <2>4. /\ d \in Int /\ d # 0 /\ -(Radix * Radix) < d /\ d < Radix * Radix
      <3>1. words[k] \in Word /\ other[k] \in Word /\ words[k] # other[k]
        BY <1>2, <1>9, <1>12
      <3> QED BY <3>1, Radixes DEF Word
    <2>5. Total(words) \in Nat
      BY <2>1, <1>1, <1>9, TotalType
    <2> HIDE DEF d
    <2>6. UInt16(Total(other)) # UInt16(Total(words))
      BY <2>3, <2>4, <2>5, Radixes, RestsDiffer DEF UInt16
    <2>7. Instruction(buf, n) = Instruction(altered, n)
      <3>1. n + 1 \in 0..(n + 1) /\ n + 1 # k
        BY <1>1, <1>12
      <3>2. Entry(altered, n + 1) = Entry(buf, n + 1)
        BY <3>1, <1>2
      <3> QED BY <3>2, <1>1, <1>3
    <2> QED BY <2>6, <2>7, <1>1, <1>4, <1>6, <1>10
  <1> QED BY <1>1, <1>7, <1>11, <1>12 DEF n

-----------------------------------------------------------------------------
(* The way through the calls.                                              *)

Holding == {"read", "short", "parse", "copy", "rejected", "loaded"}

LoaderType ==
    /\ at \in {"open", "allocate", "start"} \cup Holding \cup Final
    /\ file \in Seq(Octet)
    /\ size \in Nat
    /\ buffer \in Seq(Octet)
    /\ prg \in [length : Nat, instructions : Seq(Word)]

(* The bytes read are as many as were measured.                            *)
ReadInFull == at \in {"parse", "copy", "loaded"} => Len(buffer) = size

(* The words copied are the first of the buffer, which was checked before. *)
NothingCopied == at \in {"open", "allocate", "read", "parse"} => prg.instructions = <<>>
CopiedInOrder ==
    at \in {"copy", "loaded"} =>
        /\ ~Malformed
        /\ prg.length = Length(buffer)
        /\ Len(prg.instructions) <= prg.length
        /\ \A i \in 1..Len(prg.instructions) : prg.instructions[i] = Instruction(buffer, i - 1)
AcceptedInFull == at = "loaded" => Len(prg.instructions) = prg.length /\ SumGood

(* Which blocks there are.                                                 *)
BufferKept == at # "crashed" => ("buf" \in heap <=> at \in Holding)
ProgramKept ==
    /\ at \in {"copy", "loaded", "start"} => "prg" \in heap
    /\ "prg" \in heap => at \in {"copy", "loaded", "start"} \cup Final
    /\ at = "start" => buffer = <<>>
    /\ at = "failed" /\ "prg" \in heap => buffer = <<>>

LoaderInv ==
    /\ LoaderType
    /\ ReadInFull /\ NothingCopied /\ CopiedInOrder /\ AcceptedInFull
    /\ BufferKept /\ ProgramKept

LEMMA FileType ==
    ASSUME NEW f \in Files \cup Rewrites
    PROVE  f \in Seq(Octet) /\ Len(f) \in Nat /\ Len(f) # Unseekable
  BY FormatAssumption DEF Octet

LEMMA LoaderInit == Init => LoaderInv
  <1> SUFFICES ASSUME Init PROVE LoaderInv
    OBVIOUS
  <1>1. file \in Seq(Octet)
    BY FileType DEF Init
  <1>2. /\ at = "open" /\ size = 0 /\ buffer = <<>> /\ heap = {}
        /\ prg = [length |-> 0, instructions |-> <<>>]
    BY DEF Init
  <1>3. LoaderType
    BY <1>1, <1>2 DEF LoaderType
  <1> QED BY <1>2, <1>3 DEF LoaderInv, ReadInFull, NothingCopied, CopiedInOrder, AcceptedInFull,
                            BufferKept, ProgramKept, Holding, Final

(* A file that passes the checks on its length and size.                   *)
LEMMA Checked ==
    ASSUME buffer \in Seq(Octet), size \in Nat, Len(buffer) = size, ~Malformed
    PROVE  /\ Length(buffer) \in Word /\ Length(buffer) \in Nat
           /\ Len(buffer) >= Overhead
           /\ Len(buffer) = Overhead + 2 * Length(buffer)
           /\ SubSeq(buffer, 1, Magic) = HEADER_MAGIC
           /\ \A i \in 0..Length(buffer) : Instruction(buffer, i) \in Word
  <1>1. /\ size >= Overhead /\ size = Overhead + 2 * Length(buffer)
        /\ SubSeq(buffer, 1, Magic) = HEADER_MAGIC
    BY DEF Malformed, LongEnough, HasMagic, RightSize
  <1>2. Length(buffer) \in Word
    <2>1. Magic \in Nat /\ Magic + 2 <= Len(buffer)
      BY <1>1, MagicType
    <2> QED BY <2>1, WordRead DEF Length
  <1>3. Length(buffer) \in Nat
    BY <1>2 DEF Word
  <1> QED BY <1>1, <1>2, <1>3, WordsRead

LEMMA LoaderStep == LoaderInv /\ [Next]_vars => LoaderInv'
  <1> SUFFICES ASSUME LoaderInv, [Next]_vars PROVE LoaderInv'
    OBVIOUS
  <1> USE DEF LoaderInv
  <1>1. CASE UNCHANGED vars
    BY <1>1 DEF LoaderType, ReadInFull, NothingCopied, CopiedInOrder, AcceptedInFull, BufferKept,
                ProgramKept, Holding, Final, vars, SumGood, Malformed, LongEnough, HasMagic, RightSize
  <1>2. ASSUME NEW f \in Rewrites, Rewrite(f) PROVE LoaderInv'
    <2>1. file' \in Seq(Octet) /\ UNCHANGED <<at, size, buffer, prg, heap>>
      BY <1>2, FileType DEF Rewrite
    <2> QED BY <2>1 DEF LoaderType, ReadInFull, NothingCopied, CopiedInOrder, AcceptedInFull,
          BufferKept, ProgramKept, Holding, Final, SumGood, Malformed, LongEnough, HasMagic, RightSize
  <1>3. CASE Open
    <2>1. size' \in Nat
      BY <1>3, FormatAssumption DEF Open, LoaderType
    <2> QED BY <1>3, <2>1 DEF Open, Goes, LoaderType, ReadInFull, NothingCopied,
          CopiedInOrder, AcceptedInFull, BufferKept, ProgramKept, Holding, Final
  <1>4. CASE OpenFails
    BY <1>4 DEF OpenFails, Goes, Allocates, Frees, LoaderType, ReadInFull, NothingCopied,
         CopiedInOrder, AcceptedInFull, BufferKept, ProgramKept, Holding, Final
  <1>5. CASE AllocateBuffer
    BY <1>5 DEF AllocateBuffer, Goes, Allocates, Frees, LoaderType, ReadInFull, NothingCopied,
         CopiedInOrder, AcceptedInFull, BufferKept, ProgramKept, Holding, Final
  <1>6. CASE AllocateBufferFails
    BY <1>6 DEF AllocateBufferFails, Goes, Allocates, Frees, LoaderType, ReadInFull, NothingCopied,
         CopiedInOrder, AcceptedInFull, BufferKept, ProgramKept, Holding, Final
  <1>7. CASE Read \/ ReadFails
    <2>1. CASE Read
      BY <2>1 DEF Read, Goes, Allocates, Frees, LoaderType, ReadInFull, NothingCopied,
           CopiedInOrder, AcceptedInFull, BufferKept, ProgramKept, Holding, Final
    <2>2. CASE ReadFails
      BY <2>2 DEF ReadFails, Goes, Allocates, Frees, LoaderType, ReadInFull, NothingCopied,
           CopiedInOrder, AcceptedInFull, BufferKept, ProgramKept, Holding, Final
    <2> QED BY <1>7, <2>1, <2>2
  <1>8. CASE ShortRead
    BY <1>8 DEF ShortRead, Goes, Allocates, Frees, LoaderType, ReadInFull, NothingCopied,
         CopiedInOrder, AcceptedInFull, BufferKept, ProgramKept, Holding, Final
  <1>9. CASE Reject
    BY <1>9 DEF Reject, Goes, Allocates, Frees, LoaderType, ReadInFull, NothingCopied,
         CopiedInOrder, AcceptedInFull, BufferKept, ProgramKept, Holding, Final
  <1>10. CASE AllocateProgram
    <2>1. /\ at = "parse" /\ at' = "copy" /\ heap' = heap \cup {"prg"}
          /\ ~Malformed /\ UNCHANGED <<file, size, buffer>>
      BY <1>10 DEF AllocateProgram, Allocates, Goes
    <2>2. prg' = [length |-> Length(buffer), instructions |-> <<>>]
      BY <1>10, <2>1 DEF AllocateProgram, LoaderType, NothingCopied
    <2>3. Length(buffer) \in Nat
      BY <2>1, Checked DEF LoaderType, ReadInFull
    <2>4. LoaderType'
      BY <2>1, <2>2, <2>3 DEF LoaderType, Holding
    <2>5. Malformed' = Malformed
      BY <2>1 DEF Malformed, LongEnough, HasMagic, RightSize
    <2>6. CopiedInOrder'
      BY <2>1, <2>2, <2>3, <2>5 DEF CopiedInOrder
    <2> QED BY <2>1, <2>4, <2>6 DEF ReadInFull, NothingCopied, AcceptedInFull, BufferKept,
                                    ProgramKept, Holding, Final
  <1>11. CASE AllocateProgramFails
    BY <1>11 DEF AllocateProgramFails, Goes, Allocates, Frees, LoaderType, ReadInFull, NothingCopied,
         CopiedInOrder, AcceptedInFull, BufferKept, ProgramKept, Holding, Final
  <1>12. CASE Copy \/ Overrun
    <2> DEFINE i == Len(prg.instructions)
    <2>1. /\ at = "copy" /\ at' \in {"copy", "crashed"} /\ i < prg.length
          /\ prg' = [prg EXCEPT !.instructions = Append(@, Instruction(buffer, i))]
          /\ UNCHANGED <<file, size, buffer, heap>>
      BY <1>12 DEF Copy, Overrun, Goes
    <2>2. /\ ~Malformed /\ prg.length = Length(buffer)
          /\ \A j \in 1..i : prg.instructions[j] = Instruction(buffer, j - 1)
      BY <2>1 DEF CopiedInOrder
    <2>3. Instruction(buffer, i) \in Word /\ i \in Nat
      <3>1. \A j \in 0..Length(buffer) : Instruction(buffer, j) \in Word
        BY <2>1, <2>2, Checked DEF LoaderType, ReadInFull
      <3>2. i \in 0..Length(buffer)
        BY <2>1, <2>2 DEF LoaderType
      <3> QED BY <3>1, <3>2
    <2>4. /\ prg'.length = prg.length /\ prg'.instructions \in Seq(Word)
          /\ prg' \in [length : Nat, instructions : Seq(Word)]
          /\ Len(prg'.instructions) = i + 1
          /\ prg'.instructions[i + 1] = Instruction(buffer, i)
          /\ \A j \in 1..i : prg'.instructions[j] = prg.instructions[j]
      <3> DEFINE more == Append(prg.instructions, Instruction(buffer, i))
      <3>1. prg \in [length : Nat, instructions : Seq(Word)]
        BY DEF LoaderType
      <3>2. prg' = [length |-> prg.length, instructions |-> more]
        BY <2>1, <3>1
      <3>3. /\ more \in Seq(Word) /\ Len(more) = i + 1 /\ more[i + 1] = Instruction(buffer, i)
            /\ \A j \in 1..i : more[j] = prg.instructions[j]
        BY <2>3, <3>1
      <3> HIDE DEF more
      <3> QED BY <3>1, <3>2, <3>3
    <2>5. LoaderType'
      BY <2>1, <2>4 DEF LoaderType, Holding, Final
    <2>6. Malformed' = Malformed
      BY <2>1 DEF Malformed, LongEnough, HasMagic, RightSize
    <2>7. CopiedInOrder'
      <3>1. prg'.length = Length(buffer') /\ ~Malformed' /\ i + 1 <= prg'.length
        BY <2>1, <2>2, <2>3, <2>4, <2>6 DEF LoaderType
      <3>2. ASSUME NEW j \in 1..(i + 1)
            PROVE  prg'.instructions[j] = Instruction(buffer', j - 1)
        <4>1. CASE j = i + 1
          BY <4>1, <2>1, <2>3, <2>4
        <4>2. CASE j \in 1..i
          BY <4>2, <2>1, <2>2, <2>4
        <4> QED BY <4>1, <4>2, <2>3
      <3> QED BY <2>4, <3>1, <3>2 DEF CopiedInOrder
    <2> QED BY <2>1, <2>5, <2>7 DEF ReadInFull, NothingCopied, AcceptedInFull, BufferKept,
                                    ProgramKept, Holding, Final
  <1>13. CASE BadChecksum
    BY <1>13 DEF BadChecksum, Goes, Allocates, Frees, LoaderType, ReadInFull, NothingCopied,
         CopiedInOrder, AcceptedInFull, BufferKept, ProgramKept, Holding, Final
  <1>14. CASE Accept
    <2>1. /\ at = "copy" /\ at' = "loaded" /\ Len(prg.instructions) = prg.length /\ SumGood
          /\ UNCHANGED <<file, size, buffer, prg, heap>>
      BY <1>14 DEF Accept, Goes, Copied
    <2>2. SumGood' = SumGood /\ Malformed' = Malformed
      BY <2>1 DEF SumGood, Malformed, LongEnough, HasMagic, RightSize
    <2> QED BY <2>1, <2>2 DEF LoaderType, ReadInFull, NothingCopied, CopiedInOrder,
          AcceptedInFull, BufferKept, ProgramKept, Holding, Final
  <1>15. CASE GiveUp
    BY <1>15 DEF GiveUp, Goes, Allocates, Frees, LoaderType, ReadInFull, NothingCopied,
         CopiedInOrder, AcceptedInFull, BufferKept, ProgramKept, Holding, Final
  <1>16. CASE FreeBuffer
    BY <1>16 DEF FreeBuffer, Goes, Allocates, Frees, LoaderType, ReadInFull, NothingCopied,
         CopiedInOrder, AcceptedInFull, BufferKept, ProgramKept, Holding, Final
  <1>17. CASE AllocateVm
    BY <1>17 DEF AllocateVm, Goes, Allocates, Frees, LoaderType, ReadInFull, NothingCopied,
         CopiedInOrder, AcceptedInFull, BufferKept, ProgramKept, Holding, Final
  <1>18. CASE AllocateVmFails
    BY <1>18 DEF AllocateVmFails, Goes, Allocates, Frees, LoaderType, ReadInFull, NothingCopied,
         CopiedInOrder, AcceptedInFull, BufferKept, ProgramKept, Holding, Final
  <1> QED BY <1>1, <1>2, <1>3, <1>4, <1>5, <1>6, <1>7, <1>8, <1>9, <1>10, <1>11, <1>12, <1>13, <1>14, <1>15, <1>16, <1>17, <1>18 DEF Next

-----------------------------------------------------------------------------
(* What the invariant is for.                                              *)

(* What is loaded was checked.                                             *)
LEMMA LoadedIsGood ==
    ASSUME LoaderInv, at = "loaded"
    PROVE  /\ buffer \in Seq(Octet) /\ Good(buffer)
           /\ prg.length = Length(buffer) /\ Len(prg.instructions) = prg.length
           /\ prg.instructions = WordsOf(buffer, prg.length)
  <1>1. /\ buffer \in Seq(Octet) /\ size \in Nat /\ Len(buffer) = size /\ ~Malformed
        /\ prg \in [length : Nat, instructions : Seq(Word)]
        /\ prg.length = Length(buffer) /\ Len(prg.instructions) = prg.length
        /\ \A i \in 1..Len(prg.instructions) : prg.instructions[i] = Instruction(buffer, i - 1)
        /\ computed_checksum(buffer, prg.length) = Instruction(buffer, prg.length)
    BY DEF LoaderInv, LoaderType, ReadInFull, CopiedInOrder, AcceptedInFull, SumGood
  <1>2. Good(buffer)
    BY <1>1, Checked DEF Good
  <1>3. prg.instructions = WordsOf(buffer, prg.length)
    <2> DEFINE n == prg.length
               words == prg.instructions
    <2>1. words \in Seq(Word) /\ n \in Nat /\ Len(words) = n
          /\ \A i \in 1..n : words[i] = Instruction(buffer, i - 1)
      BY <1>1
    <2> HIDE DEF words, n
    <2>2. words = WordsOf(buffer, n)
      BY <2>1 DEF WordsOf
    <2> QED BY <2>2 DEF words, n
  <1> QED BY <1>1, <1>2, <1>3

LEMMA RunsTheFileHolds == LoaderInv => RunsTheFile
  <1> SUFFICES ASSUME LoaderInv, at = "loaded"
               PROVE  Len(prg.instructions) = prg.length /\ buffer = Encoded(prg.instructions)
    BY DEF RunsTheFile
  <1> QED BY LoadedIsGood, GoodIsEncoded

LEMMA AlterationNoticedHolds == LoaderInv => AlterationNoticed
  <1> SUFFICES ASSUME LoaderInv, at = "loaded", NEW k \in 0..(prg.length + 1),
                      NEW w \in 0..(Radix * Radix - 1),
                      Altered(buffer, Magic + 2 * k + 1, w) # buffer
               PROVE  ~Acceptable(Altered(buffer, Magic + 2 * k + 1, w))
    BY DEF AlterationNoticed
  <1>1. buffer \in Seq(Octet) /\ Good(buffer) /\ k \in 0..(Length(buffer) + 1) /\ w \in Word
    BY LoadedIsGood DEF Word
  <1> QED BY <1>1, AlteredIsRefused

LEMMA BalancedHolds == LoaderInv => Balanced
  BY DEF LoaderInv, BufferKept, ProgramKept, Balanced, Holding, Final

LEMMA TurnedAwayHolds == LoaderInv /\ (Reject \/ BadChecksum) => ~WellFormed(buffer)
  <1> SUFFICES ASSUME LoaderInv, Reject \/ BadChecksum, WellFormed(buffer) PROVE FALSE
    OBVIOUS
  <1>1. at \in {"parse", "copy"}
    BY DEF Reject, BadChecksum, Goes, Frees
  <1>2. buffer \in Seq(Octet) /\ size \in Nat /\ Len(buffer) = size
    BY <1>1 DEF LoaderInv, LoaderType, ReadInFull
  <1>3. Good(buffer)
    BY <1>2, EncodedIsGood
  <1>4. ~Malformed
    BY <1>2, <1>3 DEF Good, Malformed, LongEnough, HasMagic, RightSize
  <1>5. at = "copy" /\ ~SumGood
    BY <1>4 DEF Reject, BadChecksum, Goes, Frees, Copied
  <1>6. prg.length = Length(buffer)
    BY <1>5 DEF LoaderInv, CopiedInOrder
  <1> QED BY <1>3, <1>5, <1>6 DEF Good, SumGood

=============================================================================
