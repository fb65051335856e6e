--------------------------- MODULE BleSession_proofs ---------------------------
(***************************************************************************)
(* Theorems about the frames of ble.py for all payloads, keys and software *)
(* versions, and about BleSession for every deadline, chatter and gate.    *)
(***************************************************************************)
EXTENDS BleSession, SequenceTheorems, FiniteSetTheorems, WellFoundedInduction, TLAPS

Byte == 0..255
Word == {n \in Nat : n < 256 * 256}
Bytes == Seq(Byte)

\* What is known of sequences, for bytes.
LEMMA BytesAre ==
    ASSUME NEW b \in Bytes
    PROVE  Len(b) \in Nat /\ DOMAIN b = 1..Len(b) /\ \A i \in 1..Len(b) : b[i] \in Byte
BY LenProperties, ElementOfSeq DEF Bytes

\* A part of bytes is bytes, with its length and its elements.
LEMMA BytesSub ==
    ASSUME NEW b \in Bytes, NEW m \in Nat, NEW n \in Nat, 1 <= m, m <= n + 1, n <= Len(b)
    PROVE  /\ SubSeq(b, m, n) \in Bytes /\ Len(SubSeq(b, m, n)) = n - m + 1
           /\ \A i \in 1..n - m + 1 : SubSeq(b, m, n)[i] = b[m + i - 1]
<1>1. Len(b) \in Nat /\ \A i \in 1..Len(b) : b[i] \in Byte
  BY BytesAre
<1>2. m \in Int /\ n \in Int /\ \A i \in m..n : b[i] \in Byte
  BY <1>1
<1>3. /\ SubSeq(b, m, n) \in Seq(Byte)
      /\ Len(SubSeq(b, m, n)) = IF m <= n THEN n - m + 1 ELSE 0
      /\ \A i \in 1..n - m + 1 : SubSeq(b, m, n)[i] = b[m + i - 1]
  BY <1>2, SubSeqProperties
<1>4. QED
  BY <1>1, <1>2, <1>3 DEF Bytes

\* Bytes of one length with the same elements are the same.
LEMMA BytesEqual ==
    ASSUME NEW a \in Bytes, NEW b \in Bytes, Len(a) = Len(b), \A i \in 1..Len(a) : a[i] = b[i]
    PROVE  a = b
BY SeqEqual DEF Bytes

\* The operators of Sequences by names of their own: the lemmas below are all that the proofs
\* about frames need to know of them.
Size(b) == Len(b)
Join(a, b) == a \o b
Part(b, m, n) == SubSeq(b, m, n)
Added(b, x) == Append(b, x)

\* The length and the elements of bytes.
LEMMA Sized == ASSUME NEW b \in Bytes PROVE Size(b) \in Nat /\ \A i \in 1..Size(b) : b[i] \in Byte
BY BytesAre DEF Size

\* Bytes after bytes.
LEMMA Joined ==
    ASSUME NEW a \in Bytes, NEW b \in Bytes, NEW m \in Nat, NEW n \in Nat,
           Size(a) = m, Size(b) = n
    PROVE  /\ Join(a, b) \in Bytes /\ Size(Join(a, b)) = m + n
           /\ \A i \in 1..m : Join(a, b)[i] = a[i]
           /\ \A i \in 1..n : Join(a, b)[m + i] = b[i]
<1>1. /\ a \o b \in Bytes /\ Len(a \o b) = Len(a) + Len(b)
      /\ \A i \in 1..Len(a) + Len(b) :
            (a \o b)[i] = IF i <= Len(a) THEN a[i] ELSE b[i - Len(a)]
  BY ConcatProperties DEF Bytes
<1>2. /\ Join(a, b) \in Bytes /\ Size(Join(a, b)) = m + n
      /\ \A i \in 1..m + n : Join(a, b)[i] = IF i <= m THEN a[i] ELSE b[i - m]
  <2>1. /\ Join(a, b) \in Bytes /\ Size(Join(a, b)) = Size(a) + Size(b)
        /\ \A i \in 1..Size(a) + Size(b) :
              Join(a, b)[i] = IF i <= Size(a) THEN a[i] ELSE b[i - Size(a)]
    BY <1>1, Zenon DEF Join, Size
  <2>2. QED
    BY <2>1
<1>3. ASSUME NEW i \in 1..m PROVE Join(a, b)[i] = a[i]
  BY <1>2
<1>4. ASSUME NEW i \in 1..n PROVE Join(a, b)[m + i] = b[i]
  <2>1. m + i \in 1..m + n /\ ~(m + i <= m) /\ m + i - m = i
    OBVIOUS
  <2>2. QED
    BY <1>2, <2>1
<1>5. QED
  BY <1>2, <1>3, <1>4

\* A byte after bytes.
LEMMA AddedTo ==
    ASSUME NEW b \in Bytes, NEW x \in Byte, NEW n \in Nat, Size(b) = n
    PROVE  /\ Added(b, x) \in Bytes /\ Size(Added(b, x)) = n + 1
           /\ \A i \in 1..n : Added(b, x)[i] = b[i]
           /\ Added(b, x)[n + 1] = x
<1>1. /\ Append(b, x) \in Bytes /\ Len(Append(b, x)) = Len(b) + 1
      /\ \A i \in 1..Len(b) : Append(b, x)[i] = b[i]
      /\ Append(b, x)[Len(b) + 1] = x
  BY AppendProperties DEF Bytes
<1>2. /\ Added(b, x) \in Bytes /\ Size(Added(b, x)) = Size(b) + 1
      /\ \A i \in 1..Size(b) : Added(b, x)[i] = b[i]
      /\ Added(b, x)[Size(b) + 1] = x
  BY <1>1, Zenon DEF Added, Size
<1>3. QED
  BY <1>2

\* A part of bytes, in the terms of the lemmas below.
LEMMA PartOf ==
    ASSUME NEW b \in Bytes, NEW first \in Nat, NEW n \in Nat,
           1 <= first, first <= n + 1, n <= Size(b)
    PROVE  /\ Part(b, first, n) \in Bytes /\ Size(Part(b, first, n)) = n - first + 1
           /\ \A i \in 1..n - first + 1 : Part(b, first, n)[i] = b[first - 1 + i]
<1>1. n <= Len(b)
  BY DEF Size
<1>2. /\ SubSeq(b, first, n) \in Bytes /\ Len(SubSeq(b, first, n)) = n - first + 1
      /\ \A i \in 1..n - first + 1 : SubSeq(b, first, n)[i] = b[first + i - 1]
  BY <1>1, BytesSub
<1>3. /\ Part(b, first, n) \in Bytes /\ Size(Part(b, first, n)) = n - first + 1
      /\ \A i \in 1..n - first + 1 : Part(b, first, n)[i] = b[first + i - 1]
  BY <1>2, Zenon DEF Part, Size
<1>4. \A i \in 1..n - first + 1 : first + i - 1 = first - 1 + i
  OBVIOUS
<1>5. QED
  BY <1>3, <1>4

\* They are equal to bytes that they agree with.
LEMMA Slice ==
    ASSUME NEW b \in Bytes, NEW e \in Bytes, NEW l \in Nat, Size(e) = l,
           NEW first \in Nat, NEW n \in Nat, 1 <= first, n = first + l - 1, n <= Size(b),
           \A i \in 1..l : b[first - 1 + i] = e[i]
    PROVE  Part(b, first, n) = e
<1> DEFINE s == Part(b, first, n)
<1>1. first <= n + 1 /\ n - first + 1 = l
  OBVIOUS
<1>2. s \in Bytes /\ Size(s) = l /\ \A i \in 1..l : s[i] = b[first - 1 + i]
  BY <1>1, PartOf
<1> HIDE DEF s
<1>3. s = e
  BY <1>2, BytesEqual DEF Size
<1>4. QED
  BY <1>3 DEF s

------------------------------------------------------------------------------
(* Induction, over sets of numbers                                          *)

\* A set of numbers that is not empty has a least one.
LEMMA LeastNumber ==
    ASSUME NEW T \in SUBSET Nat, T # {}
    PROVE  \E m \in T : \A k \in T : m <= k
<1> DEFINE R == OpToRel(<, Nat)
<1>1. IsWellFoundedOn(R, Nat)
  BY NatLessThanWellFounded
<1>2. ASSUME NEW x \in Nat, NEW y \in Nat, <<x, y>> \notin R PROVE y <= x
  <2>1. ~(x < y)
    BY <1>2, Zenon DEF OpToRel
  <2>2. QED
    BY <2>1
<1> HIDE DEF R
<1>3. PICK m \in T : \A k \in T : ~(<<k, m>> \in R)
  BY <1>1, WFMin
<1>4. QED
  BY <1>2, <1>3, Zenon

\* Numbers among which 0 is, and with each its successor up to n, are all of them.
LEMMA Upwards ==
    ASSUME NEW n \in Nat, NEW G \in SUBSET (0..n), 0 \in G,
           \A k \in 1..n : k - 1 \in G => k \in G
    PROVE  G = 0..n
<1> SUFFICES ASSUME (0..n) \ G # {} PROVE FALSE
  OBVIOUS
<1>1. PICK m \in (0..n) \ G : \A k \in (0..n) \ G : m <= k
  <2>1. (0..n) \ G \in SUBSET Nat
    OBVIOUS
  <2>2. QED
    BY <2>1, LeastNumber
<1>2. m \in 1..n /\ m - 1 \in 0..n /\ ~(m <= m - 1)
  BY <1>1
<1>3. m - 1 \in G
  BY <1>1, <1>2
<1>4. QED
  BY <1>1, <1>2, <1>3

\* The same from above.
LEMMA Downwards ==
    ASSUME NEW n \in Nat, NEW G \in SUBSET (0..n), n \in G,
           \A k \in 0..n - 1 : (\A i \in k + 1..n : i \in G) => k \in G
    PROVE  G = 0..n
<1> DEFINE H == {j \in 0..n : \A i \in n - j..n : i \in G}
<1>1. 0 \in H
  OBVIOUS
<1>2. ASSUME NEW k \in 1..n, k - 1 \in H PROVE k \in H
  <2>1. n - k \in 0..n - 1 /\ \A i \in n - k + 1..n : i \in G
    BY <1>2
  <2>2. n - k \in G
    BY <2>1
  <2>3. \A i \in n - k..n : i = n - k \/ i \in n - k + 1..n
    OBVIOUS
  <2>4. QED
    BY <2>1, <2>2, <2>3
<1>3. H = 0..n
  <2>1. H \in SUBSET (0..n)
    OBVIOUS
  <2> HIDE DEF H
  <2>2. QED
    BY <1>1, <1>2, <2>1, Upwards
<1>4. n \in H /\ n - n = 0
  BY <1>3
<1>5. \A i \in 0..n : i \in G
  BY <1>4
<1>6. QED
  BY <1>5

------------------------------------------------------------------------------
(* Numbers and checksums                                                    *)

\* What is left of a number is a byte.
LEMMA ModByte == \A n \in Int : n % 256 \in Byte
BY DEF Byte

\* The sum of two bytes wraps at most once.
LEMMA AddBytes ==
    ASSUME NEW a \in Byte, NEW x \in Byte
    PROVE  a + x \in Int /\ (a + x) % 256 = IF a + x < 256 THEN a + x ELSE a + x - 256
<1>1. a \in Int /\ x \in Int /\ 0 <= a /\ a <= 255 /\ 0 <= x /\ x <= 255
  BY DEF Byte
<1>2. QED
  BY <1>1

\* The sums that Checksum counts up do exist: each is the one before plus a byte.
LEMMA ChecksumSums ==
    ASSUME NEW bytes \in Bytes
    PROVE  \E sum \in [0..Len(bytes) -> Byte] :
              /\ Checksum(bytes) = sum[Len(bytes)]
              /\ sum[0] = 0
              /\ \A i \in 1..Len(bytes) : sum[i] = (sum[i - 1] + bytes[i]) % 256
<1> DEFINE Sums(s, n) == s = [i \in 0..n |-> IF i = 0 THEN 0 ELSE (s[i - 1] + bytes[i]) % 256]
           Summed == {n \in 0..Len(bytes) : \E s \in [0..n -> Byte] : Sums(s, n)}
<1>0. Len(bytes) \in Nat /\ \A i \in 1..Len(bytes) : bytes[i] \in Byte
  BY LenProperties, ElementOfSeq DEF Bytes
<1>1. 0 \in Summed
  <2> DEFINE s == [i \in 0..0 |-> 0]
  <2>1. s \in [0..0 -> Byte] /\ Sums(s, 0) /\ 0 \in 0..Len(bytes)
    BY <1>0 DEF Byte
  <2> HIDE DEF s, Sums
  <2>2. QED
    BY <2>1
<1>2. ASSUME NEW m \in 1..Len(bytes), m - 1 \in Summed PROVE m \in Summed
  <2>1. PICK s \in [0..m - 1 -> Byte] : Sums(s, m - 1)
    BY <1>2
  <2> DEFINE t == [i \in 0..m |-> IF i = m THEN (s[m - 1] + bytes[m]) % 256 ELSE s[i]]
  <2>2. m - 1 \in 0..m - 1 /\ m \in Nat /\ m # 0
    BY <1>0
  <2>3. \A i \in 0..m - 1 : s[i] \in Byte /\ t[i] = s[i]
    BY <1>0
  <2>4. s[0] = 0 /\ \A i \in 1..m - 1 : s[i] = (s[i - 1] + bytes[i]) % 256
    BY <1>0, <2>1
  <2>5. (s[m - 1] + bytes[m]) % 256 \in Byte
    <3>1. s[m - 1] \in Byte /\ bytes[m] \in Byte
      BY <1>0, <2>2, <2>3
    <3>2. s[m - 1] + bytes[m] \in Int
      BY <3>1, AddBytes
    <3>3. QED
      BY <3>2, ModByte
  <2>6. t \in [0..m -> Byte]
    BY <2>2, <2>3, <2>5
  <2>7. ASSUME NEW i \in 0..m
        PROVE  t[i] = IF i = 0 THEN 0 ELSE (t[i - 1] + bytes[i]) % 256
    <3>1. CASE i = 0
      BY <2>2, <2>3, <2>4, <3>1
    <3>2. CASE i = m
      BY <2>2, <2>3, <3>2
    <3>3. CASE i \in 1..m - 1
      BY <2>2, <2>3, <2>4, <3>3
    <3>4. QED
      BY <2>2, <3>1, <3>2, <3>3
  <2>8. Sums(t, m)
    BY <2>7
  <2>9. QED
    BY <2>6, <2>8
<1>3. Summed = 0..Len(bytes)
  <2>1. Summed \in SUBSET (0..Len(bytes))
    OBVIOUS
  <2> HIDE DEF Summed
  <2>2. QED
    BY <1>0, <1>1, <1>2, <2>1, Upwards
<1>4. PICK s \in [0..Len(bytes) -> Byte] : Sums(s, Len(bytes))
  BY <1>0, <1>3
<1> DEFINE sum == CHOOSE u : Sums(u, Len(bytes))
           Same == {i \in 0..Len(bytes) : sum[i] = s[i]}
<1>5. Sums(sum, Len(bytes))
  BY <1>4, Zenon
<1>6. Checksum(bytes) = sum[Len(bytes)]
  BY Zenon DEF Checksum
<1> HIDE DEF sum
<1>7. /\ sum[0] = 0
      /\ \A i \in 1..Len(bytes) : sum[i] = (sum[i - 1] + bytes[i]) % 256
  BY <1>0, <1>5
<1>8. /\ s[0] = 0
      /\ \A i \in 1..Len(bytes) : s[i] = (s[i - 1] + bytes[i]) % 256
  BY <1>0, <1>4
<1>9. Same = 0..Len(bytes)
  <2>1. Same \in SUBSET (0..Len(bytes)) /\ 0 \in Same
    BY <1>0, <1>7, <1>8
  <2>2. \A k \in 1..Len(bytes) : k - 1 \in Same => k \in Same
    BY <1>0, <1>7, <1>8
  <2> HIDE DEF Same
  <2>3. QED
    BY <1>0, <2>1, <2>2, Upwards
<1>10. sum \in [0..Len(bytes) -> Byte]
  <2>1. sum = [i \in 0..Len(bytes) |-> sum[i]]
    BY <1>5
  <2>2. QED
    BY <1>9, <2>1
<1>11. QED
  BY <1>6, <1>7, <1>10

\* A checksum is a byte.
LEMMA ChecksumByte == ASSUME NEW bytes \in Bytes PROVE Checksum(bytes) \in Byte
<1>1. Len(bytes) \in 0..Len(bytes)
  BY LenProperties DEF Bytes
<1>2. QED
  BY <1>1, ChecksumSums

\* Bytes that differ in one place do not have the same checksum.
LEMMA ChecksumDiffers ==
    ASSUME NEW bytes \in Bytes, NEW others \in Bytes, Len(others) = Len(bytes),
           NEW i \in 1..Len(bytes), others[i] # bytes[i],
           \A j \in 1..Len(bytes) : j # i => others[j] = bytes[j]
    PROVE  Checksum(others) # Checksum(bytes)
<1>0. Len(bytes) \in Nat /\ \A j \in 1..Len(bytes) : bytes[j] \in Byte /\ others[j] \in Byte
  BY LenProperties, ElementOfSeq DEF Bytes
<1>1. PICK s \in [0..Len(bytes) -> Byte] :
         /\ Checksum(bytes) = s[Len(bytes)] /\ s[0] = 0
         /\ \A j \in 1..Len(bytes) : s[j] = (s[j - 1] + bytes[j]) % 256
  BY ChecksumSums
<1>2. PICK t \in [0..Len(bytes) -> Byte] :
         /\ Checksum(others) = t[Len(bytes)] /\ t[0] = 0
         /\ \A j \in 1..Len(bytes) : t[j] = (t[j - 1] + others[j]) % 256
  BY ChecksumSums
<1> DEFINE G == {j \in 0..Len(bytes) : t[j] = s[j] <=> j < i}
<1>3. 0 \in G
  BY <1>0, <1>1, <1>2
<1>4. ASSUME NEW k \in 1..Len(bytes), k - 1 \in G PROVE k \in G
  <2>1. ASSUME NEW a \in Byte, NEW b \in Byte, NEW x \in Byte, NEW y \in Byte,
               (a + x) % 256 = (b + y) % 256, a = b \/ x = y
        PROVE  a = b /\ x = y
    <3>1. /\ (a + x) % 256 = IF a + x < 256 THEN a + x ELSE a + x - 256
          /\ (b + y) % 256 = IF b + y < 256 THEN b + y ELSE b + y - 256
      BY AddBytes
    <3>2. /\ a \in Int /\ 0 <= a /\ a <= 255 /\ x \in Int /\ 0 <= x /\ x <= 255
          /\ b \in Int /\ 0 <= b /\ b <= 255 /\ y \in Int /\ 0 <= y /\ y <= 255
      BY DEF Byte
    <3>3. a + x = b + y \/ a + x = b + y + 256 \/ a + x + 256 = b + y
      BY <2>1, <3>1, <3>2
    <3>4. QED
      BY <2>1, <3>2, <3>3
  <2>2. /\ s[k] = (s[k - 1] + bytes[k]) % 256 /\ t[k] = (t[k - 1] + others[k]) % 256
        /\ {s[k - 1], t[k - 1], bytes[k], others[k]} \subseteq Byte
    BY <1>0, <1>1, <1>2
  <2>3. t[k - 1] = s[k - 1] <=> k - 1 < i
    BY <1>4
  <2>4. CASE k < i
    BY <1>0, <2>2, <2>3, <2>4
  <2>5. CASE k = i
    BY <1>0, <2>1, <2>2, <2>3, <2>5
  <2>6. CASE k > i
    <3>1. t[k - 1] # s[k - 1] /\ others[k] = bytes[k]
      BY <1>0, <2>3, <2>6
    <3>2. t[k] # s[k]
      BY <2>1, <2>2, <3>1
    <3>3. QED
      BY <1>0, <2>6, <3>2
  <2>7. QED
    BY <1>0, <2>4, <2>5, <2>6
<1>5. G = 0..Len(bytes)
  <2>1. G \in SUBSET (0..Len(bytes))
    OBVIOUS
  <2> HIDE DEF G
  <2>2. QED
    BY <1>0, <1>3, <1>4, <2>1, Upwards
<1>6. Len(bytes) \in G /\ ~(Len(bytes) < i)
  BY <1>0, <1>5
<1>7. QED
  BY <1>1, <1>2, <1>6

\* A number in one or two bytes, and what int.from_bytes makes of them.
LEMMA FromLittleOf ==
    ASSUME NEW a \in Byte, NEW b \in Byte
    PROVE  FromLittle(<<a>>) = a /\ FromLittle(<<a, b>>) = a + 256 * b
<1> DEFINE Values(bytes, v) ==
               v = [i \in 1..Len(bytes) + 1 |->
                      IF i > Len(bytes) THEN 0 ELSE bytes[i] + 256 * v[i + 1]]
           Value(bytes) == CHOOSE v : Values(bytes, v)
<1>1. \A bytes : FromLittle(bytes) = Value(bytes)[1]
  BY Zenon DEF FromLittle
<1>2. FromLittle(<<a>>) = a
  <2> DEFINE w == [i \in 1..2 |-> IF i = 2 THEN 0 ELSE a]
  <2>1. Values(<<a>>, w)
    <3>1. \A i \in 1..2 : (i > 1 /\ i = 2) \/ i = 1
      OBVIOUS
    <3>2. w[2] = 0 /\ <<a>>[1] = a /\ a + 256 * 0 = a /\ Len(<<a>>) = 1
      BY DEF Byte
    <3>3. QED
      BY <3>1, <3>2
  <2>2. Values(<<a>>, Value(<<a>>))
    BY <2>1, Zenon
  <2> HIDE DEF Value
  <2>3. Value(<<a>>)[2] = 0 /\ Value(<<a>>)[1] = <<a>>[1] + 256 * Value(<<a>>)[2]
    BY <2>2
  <2>4. QED
    BY <1>1, <2>3 DEF Byte
<1>3. FromLittle(<<a, b>>) = a + 256 * b
  <2> DEFINE w == [i \in 1..3 |-> IF i = 3 THEN 0 ELSE IF i = 2 THEN b ELSE a + 256 * b]
             two == <<a, b>>
  <2>1. Values(two, w)
    <3>1. \A i \in 1..3 : (i > 2 /\ i = 3) \/ i = 2 \/ i = 1
      OBVIOUS
    <3>2. /\ w[3] = 0 /\ w[2] = b /\ two[1] = a /\ two[2] = b /\ b + 256 * 0 = b
          /\ Len(two) = 2
      BY DEF Byte
    <3>3. QED
      BY <3>1, <3>2
  <2>2. Values(two, Value(two))
    BY <2>1, Zenon
  <2> HIDE DEF Value
  <2>3. /\ Value(two)[3] = 0 /\ Value(two)[2] = two[2] + 256 * Value(two)[3]
        /\ Value(two)[1] = two[1] + 256 * Value(two)[2]
    BY <2>2
  <2>4. QED
    BY <1>1, <2>3 DEF Byte
<1>4. QED
  BY <1>2, <1>3

\* A number that fits is read back from its little-endian bytes (int.to_bytes, int.from_bytes).
LEMMA LittleBytes ==
    ASSUME NEW n \in Nat, NEW width \in {1, 2}
    PROVE  /\ Little(n, width) \in Bytes /\ Size(Little(n, width)) = width
           /\ n < (IF width = 1 THEN 256 ELSE 65536) => FromLittle(Little(n, width)) = n
<1>1. n % 256 \in Byte /\ (n \div 256) % 256 \in Byte
  BY ModByte
<1>2. CASE width = 1
  <2>1. Little(n, width) = <<n % 256>>
    BY <1>2 DEF Little
  <2>2. n < 256 => n % 256 = n
    OBVIOUS
  <2>3. <<n % 256>> \in Bytes /\ Size(<<n % 256>>) = 1
    BY <1>1 DEF Bytes, Size
  <2>4. FromLittle(<<n % 256>>) = n % 256
    BY <1>1, FromLittleOf
  <2>5. QED
    BY <1>2, <2>1, <2>2, <2>3, <2>4
<1>3. CASE width = 2
  <2>1. Little(n, width) = <<n % 256, (n \div 256) % 256>>
    BY <1>3 DEF Little
  <2>2. n < 65536 => (n % 256) + 256 * ((n \div 256) % 256) = n
    OBVIOUS
  <2> DEFINE low == n % 256
             high == (n \div 256) % 256
  <2>3. <<low, high>> \in Bytes /\ Size(<<low, high>>) = 2
    BY <1>1 DEF Bytes, Size
  <2>4. FromLittle(<<low, high>>) = low + 256 * high
    BY <1>1, FromLittleOf
  <2>5. QED
    BY <1>3, <2>1, <2>2, <2>3, <2>4
<1>4. QED
  BY <1>2, <1>3

------------------------------------------------------------------------------
(* The cipher                                                               *)

\* A function from 1..n is a sequence.
LEMMA FunctionIsSeq ==
    ASSUME NEW S, NEW n \in Nat, NEW f \in [1..n -> S]
    PROVE  f \in Seq(S) /\ Len(f) = n
<1>1. f \in Seq(S)
  BY SeqDef, Zenon
<1>2. 1..Len(f) = 1..n /\ Len(f) \in Nat
  BY <1>1, LenProperties
<1>3. QED
  BY <1>1, <1>2

\* Adding a key to a byte and taking it away again gives the byte.
LEMMA ShiftBack ==
    ASSUME NEW x \in Byte, NEW k \in Int
    PROVE  (x + k) % 256 \in Byte /\ (((x + k) % 256) - k) % 256 = x
<1>1. x \in Int /\ 0 <= x /\ x <= 255
  BY DEF Byte
<1>2. (x + k) % 256 \in Byte
  BY <1>1, ModByte
<1>3. (((x + k) % 256) - k) % 256 = x
  BY <1>1
<1>4. QED
  BY <1>2, <1>3

\* The cipher gives back what was encrypted with the same key.
LEMMA CipherRoundTrip ==
    ASSUME NEW plain \in Bytes, NEW k \in Int
    PROVE  /\ Encrypt(k, plain) \in Bytes
           /\ Len(Encrypt(k, plain)) \in Len(plain) + 1..Len(plain) + Block
           /\ Decrypt(k, Encrypt(k, plain)) = plain
<1> DEFINE n == Len(plain)
           pad == Block - (Len(plain) % Block)
           tail == [i \in 1..pad |-> pad]
           padded == plain \o tail
           cipher == Encrypt(k, plain)
<1>1. n \in Nat /\ pad \in 1..4 /\ (n + pad) % 4 = 0
  BY LenProperties DEF Bytes, Block
<1>2. tail \in Bytes /\ Len(tail) = pad
  <2>1. tail \in [1..pad -> Byte] /\ pad \in Nat
    BY <1>1 DEF Byte
  <2>2. QED
    BY <2>1, FunctionIsSeq DEF Bytes
<1>3. /\ padded \in Bytes /\ Len(padded) = n + pad
      /\ \A i \in 1..n + pad : padded[i] = IF i <= n THEN plain[i] ELSE tail[i - n]
  BY <1>2, ConcatProperties DEF Bytes
<1>4. /\ DOMAIN padded = 1..n + pad /\ \A i \in 1..n + pad : padded[i] \in Byte
      /\ n + pad \in Nat
  BY <1>1, <1>3, LenProperties, ElementOfSeq DEF Bytes
<1>5. cipher = [i \in 1..n + pad |-> (padded[i] + k) % 256]
  BY <1>4, Zenon DEF Encrypt
<1>6. ASSUME NEW i \in 1..n + pad
      PROVE  cipher[i] \in Byte /\ (cipher[i] - k) % 256 = padded[i]
  <2> HIDE DEF padded, cipher
  <2>1. cipher[i] = (padded[i] + k) % 256 /\ padded[i] \in Byte
    BY <1>4, <1>5
  <2>2. QED
    BY <2>1, ShiftBack
<1>7. cipher \in Bytes /\ Len(cipher) = n + pad /\ DOMAIN cipher = 1..n + pad
  <2>1. cipher \in [1..n + pad -> Byte]
    <3> HIDE DEF padded, cipher
    <3>1. cipher = [i \in 1..n + pad |-> cipher[i]]
      BY <1>5
    <3>2. QED
      BY <1>6, <3>1
  <2>2. QED
    BY <1>4, <2>1, FunctionIsSeq DEF Bytes
<1> DEFINE opened == [i \in DOMAIN cipher |-> (cipher[i] - k) % 256]
<1> HIDE DEF cipher, padded, tail
<1>8. opened = padded
  <2>1. padded = [i \in 1..n + pad |-> padded[i]]
    BY <1>3, <1>4, LenProperties DEF Bytes
  <2>2. QED
    BY <1>6, <1>7, <2>1
<1>9. padded[n + pad] = pad /\ \A i \in n + pad - pad + 1..n + pad : padded[i] = pad
  BY <1>1, <1>3 DEF tail
<1>10. cipher # <<>>
  BY <1>1, <1>7
<1>11. SubSeq(padded, 1, n + pad - pad) = plain
  <2>1. n + pad - pad = n
    BY <1>1
  <2>2. \A i \in 1..n : padded[i] \in Byte
    BY <1>1, <1>4
  <2>3. /\ SubSeq(padded, 1, n) \in Bytes /\ Len(SubSeq(padded, 1, n)) = n
        /\ \A i \in 1..n : SubSeq(padded, 1, n)[i] = padded[i]
    BY <1>1, <2>2, SubSeqProperties DEF Bytes
  <2>4. \A i \in 1..n : SubSeq(padded, 1, n)[i] = plain[i]
    BY <1>1, <1>3, <2>3
  <2>5. QED
    BY <2>1, <2>3, <2>4, SeqEqual DEF Bytes
<1>12. Decrypt(k, cipher) = plain
  <2>1. Decrypt(k, cipher) =
          LET last == IF cipher = <<>> THEN 0 ELSE Last(opened)
          IN  IF /\ Len(cipher) % Block = 0 /\ last \in 1..Block
                 /\ \A i \in Len(cipher) - last + 1..Len(cipher) : opened[i] = last
              THEN SubSeq(opened, 1, Len(cipher) - last) ELSE <<>>
    BY DEF Decrypt
  <2>2. Last(opened) = pad
    BY <1>3, <1>8, <1>9 DEF Last
  <2> HIDE DEF opened, pad
  <2>3. QED
    BY <1>1, <1>7, <1>8, <1>9, <1>10, <1>11, <2>1, <2>2 DEF Block
<1>13. QED
  BY <1>1, <1>7, <1>12 DEF cipher, Block

------------------------------------------------------------------------------
(* Frames                                                                   *)

\* A frame with a length field of w bytes, a checksum, and a body of n bytes between them.
Framed(f, w, body, n) ==
    /\ f \in Bytes /\ body \in Bytes
    /\ Size(body) = n /\ 5 <= n /\ n <= 250 /\ Size(f) = 3 + w + n
    /\ f[1] = 170 /\ f[2] = 85
    /\ Part(f, 3, 2 + w) = Little(n + 1, w)
    /\ Part(f, 3 + w, 2 + w + n) = body
    /\ f[3 + w + n] = Checksum(Part(f, 4, 2 + w + n))

Plain(command, payload) == Join(Little(command, 2), payload)

Text(command, payload, k) ==
    IF k = NoKey THEN Plain(command, payload) ELSE Encrypt(k, Plain(command, payload))

Body(command, payload, sequence, k) ==
    Join(<<0, IF k = NoKey THEN 0 ELSE 1, sequence % 256>>, Text(command, payload, k))

\* The length field of a frame has one byte or two.
LEMMA TwoWidths == \A version : LengthWidth(version) \in {1, 2}
BY DEF LengthWidth

\* The plain text of a frame has the command, then the payload.
LEMMA PlainShape ==
    ASSUME NEW command \in Nat, NEW payload \in Bytes, NEW l \in Nat, Size(payload) = l
    PROVE  LET plain == Plain(command, payload)
           IN  /\ plain \in Bytes /\ Size(plain) = 2 + l
               /\ Part(plain, 1, 2) = Little(command, 2)
               /\ Part(plain, 3, 2 + l) = payload
<1> DEFINE head == Little(command, 2)
           plain == Join(head, payload)
<1>1. head \in Bytes /\ Size(head) = 2
  BY LittleBytes
<1> HIDE DEF head
<1>2. /\ plain \in Bytes /\ Size(plain) = 2 + l
      /\ \A i \in 1..2 : plain[i] = head[i]
      /\ \A i \in 1..l : plain[2 + i] = payload[i]
  BY <1>1, Joined
<1> HIDE DEF plain
<1>3. Part(plain, 1, 2) = head
  <2>1. \A i \in 1..2 : plain[1 - 1 + i] = head[i]
    BY <1>2
  <2>2. 2 <= Size(plain)
    BY <1>2
  <2>3. QED
    BY <1>1, <1>2, <2>1, <2>2, Slice
<1>4. Part(plain, 3, 2 + l) = payload
  <2>1. 3 = 2 + 1 /\ 2 + l <= Size(plain) /\ 2 + l \in Nat
    BY <1>2
  <2>2. QED
    BY <1>2, <2>1, Slice
<1>5. QED
  BY <1>2, <1>3, <1>4, Zenon DEF Plain, plain, head

\* The text of a frame, encrypted or not, is not much longer than its payload.
LEMMA TextShape ==
    ASSUME NEW command \in Nat, NEW payload \in Bytes, NEW k \in Int, Size(payload) <= 200
    PROVE  LET text == Text(command, payload, k)
           IN  /\ text \in Bytes
               /\ \E l \in Nat : Size(text) = l /\ 2 <= l /\ l <= 206
<1> DEFINE plain == Plain(command, payload)
           text == Text(command, payload, k)
<1>1. PICK p \in Nat : Size(payload) = p /\ p <= 200
  BY Sized
<1>2. plain \in Bytes /\ Size(plain) = 2 + p
  BY <1>1, PlainShape
<1>3. CASE k = NoKey
  <2>1. text = plain
    BY <1>3 DEF Text
  <2> HIDE DEF text, plain
  <2>2. 2 + p \in Nat /\ 2 <= 2 + p /\ 2 + p <= 206
    BY <1>1
  <2>3. QED
    BY <1>2, <2>1, <2>2 DEF text
<1>4. CASE k # NoKey
  <2>1. text = Encrypt(k, plain)
    BY <1>4 DEF Text
  <2> HIDE DEF plain
  <2>2. /\ Encrypt(k, plain) \in Bytes
        /\ Size(Encrypt(k, plain)) \in Size(plain) + 1..Size(plain) + 4
    BY <1>2, CipherRoundTrip, Zenon DEF Size, Block
  <2> HIDE DEF text
  <2>3. PICK c \in Nat : Size(text) = c
    BY <2>1, <2>2, Sized
  <2>4. c \in 2 + p + 1..2 + p + 4
    BY <1>2, <2>1, <2>2, <2>3
  <2>5. 2 <= c /\ c <= 206
    BY <1>1, <2>4
  <2>6. QED
    BY <2>1, <2>2, <2>3, <2>5 DEF text
<1>5. QED
  BY <1>3, <1>4

\* The bytes between the length field and the checksum.
LEMMA BodyShape ==
    ASSUME NEW text \in Bytes, NEW flag \in {0, 1}, NEW sequence \in Nat, NEW l \in Nat,
           Size(text) = l
    PROVE  LET body == Join(<<0, flag, sequence % 256>>, text)
           IN  /\ body \in Bytes /\ Size(body) = 3 + l /\ body[1] = 0 /\ body[2] = flag
               /\ Part(body, 4, 3 + l) = text
<1> DEFINE control == <<0, flag, sequence % 256>>
           body == Join(control, text)
<1>1. control \in Bytes /\ Size(control) = 3 /\ control[1] = 0 /\ control[2] = flag
  <2>1. sequence % 256 \in Byte /\ 0 \in Byte /\ flag \in Byte
    BY ModByte DEF Byte
  <2>2. QED
    BY <2>1 DEF Bytes, Size
<1> HIDE DEF control
<1>2. /\ body \in Bytes /\ Size(body) = 3 + l
      /\ \A i \in 1..3 : body[i] = control[i]
      /\ \A i \in 1..l : body[3 + i] = text[i]
  BY <1>1, Joined
<1> HIDE DEF body
<1>3. body[1] = 0 /\ body[2] = flag
  BY <1>1, <1>2
<1>4. Part(body, 4, 3 + l) = text
  <2>1. PICK p \in Nat, q \in Nat : p = 4 /\ q = 3 + l
    OBVIOUS
  <2>2. 1 <= p /\ q = p + l - 1 /\ q <= Size(body) /\ \A i \in 1..l : p - 1 + i = 3 + i
    BY <1>2, <2>1
  <2>3. \A i \in 1..l : body[p - 1 + i] = text[i]
    BY <1>2, <2>2
  <2>4. Part(body, p, q) = text
    BY <1>2, <2>2, <2>3, Slice
  <2>5. QED
    BY <2>1, <2>4
<1>5. QED
  BY <1>2, <1>3, <1>4, Zenon DEF body, control

\* A body behind its length, between the header and the checksum.
LEMMA Laid ==
    ASSUME NEW body \in Bytes, NEW w \in {1, 2}, NEW n \in Nat, Size(body) = n, 5 <= n, n <= 250
    PROVE  LET partial == Join(Join(Header, Little(n + 1, w)), body)
           IN  /\ Size(partial) = 2 + w + n
               /\ Framed(Added(partial, Checksum(Part(partial, 4, 2 + w + n))), w, body, n)
<1> DEFINE length == Little(n + 1, w)
           start == Join(Header, length)
           partial == Join(start, body)
           part == Part(partial, 4, 2 + w + n)
           sum == Checksum(part)
           f == Added(partial, sum)
<1>1. length \in Bytes /\ Size(length) = w
  <2>1. n + 1 \in Nat
    OBVIOUS
  <2>2. QED
    BY <2>1, LittleBytes
<1>2. Header \in Bytes /\ Size(Header) = 2 /\ Header[1] = 170 /\ Header[2] = 85
  BY DEF Header, Bytes, Byte, Size
<1> HIDE DEF length
<1>3. /\ start \in Bytes /\ Size(start) = 2 + w
      /\ \A i \in 1..2 : start[i] = Header[i]
      /\ \A i \in 1..w : start[2 + i] = length[i]
  BY <1>1, <1>2, Joined
<1> HIDE DEF start
<1>4. /\ partial \in Bytes /\ Size(partial) = 2 + w + n
      /\ \A i \in 1..2 + w : partial[i] = start[i]
      /\ \A i \in 1..n : partial[2 + w + i] = body[i]
  <2>1. 2 + w \in Nat
    OBVIOUS
  <2>2. QED
    BY <1>3, <2>1, Joined
<1> HIDE DEF partial
<1>5. /\ part \in Bytes /\ Size(part) = w + n - 1
      /\ \A i \in 1..w + n - 1 : part[i] = partial[3 + i]
  <2>1. 4 <= 2 + w + n + 1 /\ 2 + w + n <= Size(partial) /\ 2 + w + n \in Nat
    BY <1>4
  <2>2. /\ part \in Bytes /\ Size(part) = 2 + w + n - 4 + 1
        /\ \A i \in 1..2 + w + n - 4 + 1 : part[i] = partial[4 - 1 + i]
    BY <1>4, <2>1, PartOf
  <2> HIDE DEF part
  <2>3. QED
    BY <2>2
<1> HIDE DEF part
<1>6. sum \in Byte
  BY <1>5, ChecksumByte
<1> HIDE DEF sum
<1>7. /\ f \in Bytes /\ Size(f) = 3 + w + n
      /\ \A i \in 1..2 + w + n : f[i] = partial[i]
      /\ f[3 + w + n] = sum
  <2>1. 2 + w + n \in Nat /\ 2 + w + n + 1 = 3 + w + n
    OBVIOUS
  <2>2. /\ f \in Bytes /\ Size(f) = 2 + w + n + 1
        /\ \A i \in 1..2 + w + n : f[i] = partial[i]
        /\ f[2 + w + n + 1] = sum
    BY <1>4, <1>6, <2>1, AddedTo
  <2>3. QED
    BY <2>1, <2>2
<1> HIDE DEF f
<1>8. Part(f, 3, 2 + w) = length
  <2>1. \A i \in 1..w : f[2 + i] = length[i]
    BY <1>3, <1>4, <1>7
  <2>2. 3 = 2 + 1 /\ 2 + w <= Size(f) /\ 2 + w \in Nat /\ w \in Nat
    BY <1>7
  <2>3. QED
    BY <1>1, <1>7, <2>1, <2>2, Slice
<1>9. Part(f, 3 + w, 2 + w + n) = body
  <2>1. \A i \in 1..n : f[2 + w + i] = body[i]
    BY <1>4, <1>7
  <2>2. /\ 3 + w = (2 + w) + 1 /\ 2 + w + n <= Size(f)
        /\ 2 + w \in Nat /\ 3 + w \in Nat /\ 2 + w + n \in Nat
    BY <1>7
  <2>3. QED
    BY <1>7, <2>1, <2>2, Slice
<1>10. Part(f, 4, 2 + w + n) = part
  <2>1. \A i \in 1..w + n - 1 : f[3 + i] = part[i]
    BY <1>5, <1>7
  <2>2. /\ 4 = 3 + 1 /\ 2 + w + n <= Size(f) /\ w + n - 1 \in Nat
        /\ 2 + w + n = 3 + (w + n - 1) /\ 2 + w + n \in Nat
    BY <1>7
  <2>3. QED
    BY <1>5, <1>7, <2>1, <2>2, Slice
<1>11. f[1] = 170 /\ f[2] = 85
  BY <1>2, <1>3, <1>4, <1>7
<1>12. Framed(f, w, body, n)
  <2>1. f[3 + w + n] = Checksum(Part(f, 4, 2 + w + n))
    BY <1>7, <1>10 DEF sum
  <2>2. Part(f, 3, 2 + w) = Little(n + 1, w)
    BY <1>8 DEF length
  <2>3. QED
    BY <1>7, <1>9, <1>11, <2>1, <2>2 DEF Framed
<1>13. QED
  BY <1>4, <1>12, Zenon DEF f, sum, part, partial, start, length

\* Every frame that _build_frame makes is framed, whichever width its length field has.
LEMMA BuildsFrames ==
    ASSUME NEW command \in Nat, NEW payload \in Bytes, NEW sequence \in Nat, NEW k \in Int,
           NEW version, Size(payload) <= 200
    PROVE  LET body == Body(command, payload, sequence, k)
               text == Text(command, payload, k)
           IN  \E n \in Nat :
                 /\ Framed(BuildFrame(command, payload, sequence, version, k),
                           LengthWidth(version), body, n)
                 /\ body[1] = 0 /\ body[2] = (IF k = NoKey THEN 0 ELSE 1)
                 /\ Part(body, 4, n) = text
<1> DEFINE body == Body(command, payload, sequence, k)
           text == Text(command, payload, k)
           flag == IF k = NoKey THEN 0 ELSE 1
           w == LengthWidth(version)
           partial == Join(Join(Header, Little(Size(body) + 1, w)), body)
           frame == BuildFrame(command, payload, sequence, version, k)
<1>1. text \in Bytes /\ \E l \in Nat : Size(text) = l /\ 2 <= l /\ l <= 206
  BY TextShape
<1>2. PICK l \in Nat : Size(text) = l /\ 2 <= l /\ l <= 206
  BY <1>1
<1>3. body = Join(<<0, flag, sequence % 256>>, text)
  BY Zenon DEF Body
<1>4. frame = Added(partial, Checksum(Part(partial, 4, Size(partial))))
  BY Zenon DEF BuildFrame, Body, Text, Plain, Join, Part, Added, Size
<1> HIDE DEF text, body, w, frame
<1>5. /\ body \in Bytes /\ Size(body) = 3 + l /\ body[1] = 0 /\ body[2] = flag
      /\ Part(body, 4, 3 + l) = text
  <2>1. flag \in {0, 1}
    OBVIOUS
  <2> HIDE DEF flag
  <2>2. QED
    BY <1>1, <1>2, <1>3, <2>1, BodyShape
<1>6. w \in {1, 2}
  BY TwoWidths DEF w
<1>7. 3 + l \in Nat /\ 5 <= 3 + l /\ 3 + l <= 250
  BY <1>2
<1> DEFINE laid == Join(Join(Header, Little(3 + l + 1, w)), body)
<1>8. /\ Size(laid) = 2 + w + (3 + l)
      /\ Framed(Added(laid, Checksum(Part(laid, 4, 2 + w + (3 + l)))), w, body, 3 + l)
  BY <1>5, <1>6, <1>7, Laid
<1>9. frame = Added(laid, Checksum(Part(laid, 4, Size(laid))))
  BY <1>4, <1>5, Zenon
<1>10. Framed(frame, w, body, 3 + l)
  BY <1>8, <1>9, Zenon
<1>11. QED
  BY <1>5, <1>7, <1>10, Zenon DEF text, body, w, frame

------------------------------------------------------------------------------
(* What _parse_frame makes of them                                          *)

\* _parse_frame in the terms of these lemmas.
LEMMA ParseFrameIs ==
    ASSUME NEW f, NEW version, NEW k
    PROVE  LET w == LengthWidth(version)
           IN  ParseFrame(f, version, k) =
                 IF \/ Size(f) < 9 \/ Part(f, 1, 2) # Header
                    \/ Size(f) # FromLittle(Part(f, 3, 2 + w)) + 2 + w
                    \/ f[Size(f)] # Checksum(Part(f, 4, Size(f) - 1))
                    \/ f[3 + w] >= 128
                 THEN Unreadable
                 ELSE Parsed(Opened(Part(f, 3 + w, Size(f) - 1), k))
BY Zenon DEF ParseFrame, Last, Size, Part

\* Reading the text of a frame, in the same terms.
LEMMA ParsedIs ==
    ASSUME NEW text
    PROVE  Parsed(text) = IF Size(text) < 2 THEN Unreadable
                          ELSE [command |-> FromLittle(Part(text, 1, 2)),
                                payload |-> Part(text, 3, Size(text))]
BY Zenon DEF Parsed, Size, Part

\* Decrypting the body of a frame, in the same terms.
LEMMA OpenedIs ==
    ASSUME NEW body, NEW k
    PROVE  Opened(body, k) =
             IF body[2] % 2 = 0 THEN Part(body, 4, Size(body))
             ELSE IF k = NoKey THEN <<>> ELSE Decrypt(k, Part(body, 4, Size(body)))
BY Zenon DEF Opened, Part, Size

\* What starts with the two bytes of the header has the header.
LEMMA FramedHeader ==
    ASSUME NEW f \in Bytes, Size(f) >= 9, f[1] = 170, f[2] = 85
    PROVE  Part(f, 1, 2) = Header
<1>1. Header \in Bytes /\ Size(Header) = 2 /\ Header[1] = 170 /\ Header[2] = 85
  BY DEF Header, Bytes, Byte, Size
<1>2. PICK l \in Nat : Size(f) = l /\ l >= 9
  BY Sized
<1>3. \A i \in 1..2 : f[1 - 1 + i] = Header[i]
  BY <1>1
<1>4. 2 <= Size(f)
  BY <1>2
<1>5. QED
  BY <1>1, <1>3, <1>4, Slice

\* Whatever is framed well is read by opening its body.
LEMMA ParseFramed ==
    ASSUME NEW version, NEW f, NEW body, NEW n \in Nat, NEW k,
           Framed(f, LengthWidth(version), body, n), body[1] < 128
    PROVE  ParseFrame(f, version, k) = Parsed(Opened(body, k))
<1> DEFINE w == LengthWidth(version)
<1>1. w \in {1, 2}
  BY TwoWidths
<1>2. ParseFrame(f, version, k) =
        IF \/ Size(f) < 9 \/ Part(f, 1, 2) # Header
           \/ Size(f) # FromLittle(Part(f, 3, 2 + w)) + 2 + w
           \/ f[Size(f)] # Checksum(Part(f, 4, Size(f) - 1))
           \/ f[3 + w] >= 128
        THEN Unreadable
        ELSE Parsed(Opened(Part(f, 3 + w, Size(f) - 1), k))
  BY ParseFrameIs
<1>3. Framed(f, w, body, n)
  OBVIOUS
<1> HIDE DEF w
<1>4. /\ f \in Bytes /\ body \in Bytes
      /\ Size(body) = n /\ 5 <= n /\ n <= 250 /\ Size(f) = 3 + w + n
      /\ f[1] = 170 /\ f[2] = 85
      /\ Part(f, 3, 2 + w) = Little(n + 1, w)
      /\ Part(f, 3 + w, 2 + w + n) = body
      /\ f[3 + w + n] = Checksum(Part(f, 4, 2 + w + n))
  BY <1>3 DEF Framed
<1>5. FromLittle(Little(n + 1, w)) = n + 1
  <2>1. n + 1 \in Nat /\ n + 1 < 256
    BY <1>4
  <2>2. n + 1 < IF w = 1 THEN 256 ELSE 65536
    BY <2>1
  <2>3. QED
    BY <1>1, <2>1, <2>2, LittleBytes
<1>6. Size(f) >= 9 /\ Size(f) = n + 1 + 2 + w /\ Size(f) - 1 = 2 + w + n
  BY <1>1, <1>4
<1>7. Part(f, 1, 2) = Header
  BY <1>4, <1>6, FramedHeader
<1>8. f[3 + w] = body[1]
  <2> DEFINE first == 3 + w
             last == 2 + w + n
  <2>1. 1 <= first /\ first <= last + 1 /\ last <= Size(f) /\ first \in Nat /\ last \in Nat
    BY <1>1, <1>4
  <2> HIDE DEF first, last
  <2>2. \A i \in 1..last - first + 1 : Part(f, first, last)[i] = f[first - 1 + i]
    BY <1>4, <2>1, PartOf
  <2>3. 1 \in 1..last - first + 1 /\ first - 1 + 1 = first
    BY <1>1, <1>4 DEF first, last
  <2>4. Part(f, first, last)[1] = f[first]
    BY <2>2, <2>3
  <2>5. QED
    BY <1>4, <2>4 DEF first, last
<1>9. body[1] \in Int
  BY <1>4, Sized DEF Byte
<1>10. ~(Size(f) < 9) /\ ~(f[3 + w] >= 128)
  BY <1>1, <1>4, <1>6, <1>8, <1>9
<1>11. /\ Size(f) = FromLittle(Part(f, 3, 2 + w)) + 2 + w
       /\ Part(f, 3 + w, Size(f) - 1) = body
       /\ f[Size(f)] = Checksum(Part(f, 4, Size(f) - 1))
  BY <1>4, <1>5, <1>6
<1>12. QED
  BY <1>2, <1>7, <1>10, <1>11, Zenon

\* Command and payload are read back from the plain text.
LEMMA ParsedPlain ==
    ASSUME NEW command \in Word, NEW payload \in Bytes
    PROVE  Parsed(Plain(command, payload)) = [command |-> command, payload |-> payload]
<1> DEFINE plain == Plain(command, payload)
<1>1. PICK l \in Nat : Size(payload) = l
  BY Sized
<1>2. /\ plain \in Bytes /\ Size(plain) = 2 + l /\ Part(plain, 1, 2) = Little(command, 2)
      /\ Part(plain, 3, 2 + l) = payload
  <2>1. command \in Nat
    BY DEF Word
  <2>2. QED
    BY <1>1, <2>1, PlainShape
<1>3. FromLittle(Little(command, 2)) = command
  <2>1. command \in Nat /\ command < 65536
    BY DEF Word
  <2>2. QED
    BY <2>1, LittleBytes
<1> HIDE DEF plain
<1>4. Parsed(plain) = IF Size(plain) < 2 THEN Unreadable
                      ELSE [command |-> FromLittle(Part(plain, 1, 2)),
                            payload |-> Part(plain, 3, Size(plain))]
  BY ParsedIs, Zenon
<1>5. ~(Size(plain) < 2)
  BY <1>2
<1>6. QED
  BY <1>2, <1>3, <1>4, <1>5, Zenon DEF plain

\* Either end reads what the other has written, whatever the software version, the payload
\* of up to 200 bytes and the key: a frame in clear with any key, an encrypted one with its
\* own, and not without one (_build_frame, _parse_frame).
THEOREM FrameRoundTrip ==
    ASSUME NEW command \in Word, NEW payload \in Bytes, NEW sequence \in Nat,
           NEW version, NEW k \in Int, Len(payload) <= 200
    PROVE  LET f == BuildFrame(command, payload, sequence, version, k)
               read == [command |-> command, payload |-> payload]
           IN  /\ ParseFrame(f, version, k) = read
               /\ k = NoKey => \A other : ParseFrame(f, version, other) = read
               /\ k # NoKey => ParseFrame(f, version, NoKey) = Unreadable
<1> DEFINE f == BuildFrame(command, payload, sequence, version, k)
           body == Body(command, payload, sequence, k)
           plain == Plain(command, payload)
           text == Text(command, payload, k)
           read == [command |-> command, payload |-> payload]
<1>1. Size(payload) <= 200 /\ command \in Nat
  BY DEF Size, Word
<1>2. PICK n \in Nat : /\ Framed(f, LengthWidth(version), body, n)
                       /\ body[1] = 0 /\ body[2] = (IF k = NoKey THEN 0 ELSE 1)
                       /\ Part(body, 4, n) = text
  BY <1>1, BuildsFrames
<1>3. plain \in Bytes /\ text = IF k = NoKey THEN plain ELSE Encrypt(k, plain)
  <2>1. PICK l \in Nat : Size(payload) = l
    BY Sized
  <2>2. QED
    BY <1>1, <2>1, PlainShape DEF Text
<1>4. k # NoKey => Decrypt(k, text) = plain
  BY <1>3, CipherRoundTrip
<1>5. Parsed(plain) = read
  BY ParsedPlain
<1> HIDE DEF f, body, plain, text, read
<1>6. \A other : ParseFrame(f, version, other) = Parsed(Opened(body, other))
  <2>1. body[1] < 128
    BY <1>2
  <2>2. QED
    BY <1>2, <2>1, ParseFramed
<1>7. ASSUME NEW other
      PROVE  Opened(body, other) =
               IF k = NoKey THEN text ELSE IF other = NoKey THEN <<>> ELSE Decrypt(other, text)
  <2>1. Opened(body, other) =
           IF body[2] % 2 = 0 THEN Part(body, 4, Size(body))
           ELSE IF other = NoKey THEN <<>> ELSE Decrypt(other, Part(body, 4, Size(body)))
    BY OpenedIs, Zenon
  <2>2. Part(body, 4, Size(body)) = text
    BY <1>2 DEF Framed
  <2>3. body[2] % 2 = 0 <=> k = NoKey
    <3>1. 0 % 2 = 0 /\ ~(1 % 2 = 0)
      OBVIOUS
    <3>2. QED
      BY <1>2, <3>1, Zenon
  <2>4. QED
    BY <2>1, <2>2, <2>3, Zenon
<1>8. Parsed(<<>>) = Unreadable
  BY DEF Parsed
<1>9. CASE k = NoKey
  <2>1. \A other : Opened(body, other) = plain
    BY <1>3, <1>7, <1>9, Zenon
  <2>2. \A other : ParseFrame(f, version, other) = read
    BY <1>5, <1>6, <2>1
  <2>3. QED
    BY <1>9, <2>2, Zenon DEF f, read
<1>10. CASE k # NoKey
  BY <1>4, <1>5, <1>6, <1>7, <1>8, <1>10, Zenon DEF f, read
<1>11. QED
  BY <1>9, <1>10

------------------------------------------------------------------------------
(* A byte that has changed on the way                                       *)

\* A change of one byte leaves the others alone.
LEMMA Changed ==
    ASSUME NEW f \in Bytes, NEW i \in 1..Size(f), NEW byte \in Byte
    PROVE  LET g == [f EXCEPT ![i] = byte]
           IN  /\ g \in Bytes /\ Size(g) = Size(f) /\ g[i] = byte
               /\ \A j \in 1..Size(f) : j # i => g[j] = f[j]
<1> DEFINE g == [f EXCEPT ![i] = byte]
<1>1. PICK n \in Nat : Len(f) = n
  BY BytesAre
<1>2. f \in [1..n -> Byte] /\ i \in 1..n
  <2>1. DOMAIN f = 1..n /\ (\A j \in 1..n : f[j] \in Byte) /\ i \in 1..n
    BY <1>1, BytesAre DEF Size
  <2>2. f = [j \in DOMAIN f |-> f[j]]
    BY LenProperties DEF Bytes
  <2>3. QED
    BY <2>1, <2>2
<1>3. g \in [1..n -> Byte] /\ g[i] = byte /\ \A j \in 1..n : j # i => g[j] = f[j]
  BY <1>2
<1> HIDE DEF g
<1>4. g \in Bytes /\ Len(g) = n
  BY <1>3, FunctionIsSeq DEF Bytes
<1>5. QED
  BY <1>1, <1>3, <1>4 DEF g, Size

\* What int.from_bytes makes of a field.
LEMMA FieldNumber ==
    ASSUME NEW w \in {1, 2}, NEW field \in Bytes, Size(field) = w
    PROVE  /\ field[1] \in Byte /\ (w = 2 => field[2] \in Byte)
           /\ FromLittle(field) = IF w = 1 THEN field[1] ELSE field[1] + 256 * field[2]
<1> DEFINE a == field[1]
           b == field[2]
<1>1. a \in Byte /\ (w = 2 => b \in Byte)
  BY Sized
<1>2. w = 1 => field = <<a>>
  BY DEF Size, Bytes
<1>3. w = 2 => field = <<a, b>>
  BY DEF Size, Bytes
<1> HIDE DEF a, b
<1>4. CASE w = 1
  <2>1. FromLittle(<<a>>) = a
    BY <1>1, FromLittleOf
  <2>2. QED
    BY <1>1, <1>2, <1>4, <2>1, Zenon DEF a, b
<1>5. CASE w = 2
  <2>1. FromLittle(<<a, b>>) = a + 256 * b
    BY <1>1, <1>5, FromLittleOf
  <2>2. w # 1
    BY <1>5
  <2>3. QED
    BY <1>1, <1>3, <1>5, <2>1, <2>2, Zenon DEF a, b
<1>6. QED
  BY <1>4, <1>5

\* A length field in which one byte has changed gives another length.
LEMMA LengthChanged ==
    ASSUME NEW w \in {1, 2}, NEW n \in Nat, n < 256, NEW field \in Bytes, Size(field) = w,
           NEW i \in 1..w, field[i] # Little(n, w)[i]
    PROVE  FromLittle(field) \in Int /\ FromLittle(field) # n
<1> DEFINE number == FromLittle(field)
<1>1. n % 256 = n /\ (n \div 256) % 256 = 0
  OBVIOUS
<1>2. /\ field[1] \in Byte /\ (w = 2 => field[2] \in Byte)
      /\ number = IF w = 1 THEN field[1] ELSE field[1] + 256 * field[2]
  BY FieldNumber
<1> HIDE DEF number
<1>3. CASE w = 1
  <2>1. Little(n, w)[1] = n
    BY <1>1, <1>3 DEF Little
  <2>2. QED
    BY <1>2, <1>3, <2>1 DEF number, Byte
<1>4. CASE w = 2
  <2>1. Little(n, w)[1] = n /\ Little(n, w)[2] = 0
    BY <1>1, <1>4 DEF Little
  <2>2. field[1] # n \/ field[2] # 0
    BY <1>4, <2>1
  <2>3. ASSUME NEW a \in Byte, NEW b \in Byte, a # n \/ b # 0
        PROVE  a + 256 * b \in Int /\ a + 256 * b # n
    BY <2>3 DEF Byte
  <2>4. QED
    BY <1>2, <1>4, <2>2, <2>3 DEF number
<1>5. QED
  BY <1>3, <1>4

\* Of what is framed well, no byte can change unnoticed.
LEMMA ChangedFramed ==
    ASSUME NEW version, NEW f, NEW body, NEW n \in Nat, NEW k,
           Framed(f, LengthWidth(version), body, n),
           NEW i \in 1..Size(f), NEW byte \in Byte, byte # f[i]
    PROVE  ParseFrame([f EXCEPT ![i] = byte], version, k) = Unreadable
<1> DEFINE w == LengthWidth(version)
           g == [f EXCEPT ![i] = byte]
           last == 2 + w + n
<1>1. w \in {1, 2}
  BY TwoWidths
<1>2. ParseFrame(g, version, k) =
        IF \/ Size(g) < 9 \/ Part(g, 1, 2) # Header
           \/ Size(g) # FromLittle(Part(g, 3, 2 + w)) + 2 + w
           \/ g[Size(g)] # Checksum(Part(g, 4, Size(g) - 1))
           \/ g[3 + w] >= 128
        THEN Unreadable
        ELSE Parsed(Opened(Part(g, 3 + w, Size(g) - 1), k))
  BY ParseFrameIs
<1>3. Framed(f, w, body, n)
  OBVIOUS
<1> HIDE DEF w
<1>4. /\ f \in Bytes /\ body \in Bytes
      /\ Size(body) = n /\ 5 <= n /\ n <= 250 /\ Size(f) = 3 + w + n
      /\ f[1] = 170 /\ f[2] = 85
      /\ Part(f, 3, 2 + w) = Little(n + 1, w)
      /\ f[3 + w + n] = Checksum(Part(f, 4, 2 + w + n))
  BY <1>3 DEF Framed
<1>5. /\ g \in Bytes /\ Size(g) = 3 + w + n /\ g[i] = byte
      /\ \A j \in 1..3 + w + n : j # i => g[j] = f[j]
  BY <1>4, Changed
<1>6. i \in 1..3 + w + n
  BY <1>4
<1> HIDE DEF g
<1>7. CASE i \in 1..2
  <2>1. 2 <= Size(g) /\ 2 - 1 + 1 = 2
    BY <1>1, <1>4, <1>5
  <2>2. \A j \in 1..2 : Part(g, 1, 2)[j] = g[j]
    <3>1. \A j \in 1..2 - 1 + 1 : Part(g, 1, 2)[j] = g[1 - 1 + j]
      BY <1>5, <2>1, PartOf
    <3>2. QED
      BY <3>1
  <2>3. f[i] = Header[i]
    BY <1>4, <1>7 DEF Header
  <2>4. Part(g, 1, 2)[i] # Header[i]
    BY <1>5, <1>7, <2>2, <2>3
  <2>5. QED
    BY <1>2, <2>4, Zenon DEF g
<1>8. CASE i \in 3..2 + w
  <2> DEFINE to == 2 + w
             field == Part(g, 3, to)
  <2>1. /\ to <= Size(g) /\ to <= Size(f) /\ to \in Nat /\ 3 <= to + 1 /\ to - 3 + 1 = w
        /\ to = 2 + w
    BY <1>1, <1>4, <1>5
  <2> HIDE DEF to
  <2>2. field \in Bytes /\ Size(field) = w /\ \A j \in 1..w : field[j] = g[2 + j]
    <3>1. /\ field \in Bytes /\ Size(field) = to - 3 + 1
          /\ \A j \in 1..to - 3 + 1 : field[j] = g[3 - 1 + j]
      BY <1>5, <2>1, PartOf
    <3> HIDE DEF field
    <3>2. QED
      BY <1>1, <2>1, <3>1
  <2>3. \A j \in 1..w : Little(n + 1, w)[j] = f[2 + j]
    <3>1. \A j \in 1..to - 3 + 1 : Part(f, 3, to)[j] = f[3 - 1 + j]
      BY <1>4, <2>1, PartOf
    <3>2. QED
      BY <1>1, <1>4, <2>1, <3>1
  <2> HIDE DEF field
  <2>4. i - 2 \in 1..w /\ 2 + (i - 2) = i
    BY <1>1, <1>8
  <2>5. field[i - 2] # Little(n + 1, w)[i - 2]
    BY <1>5, <2>2, <2>3, <2>4
  <2>6. FromLittle(field) \in Int /\ FromLittle(field) # n + 1
    <3>1. n + 1 \in Nat /\ n + 1 < 256
      BY <1>4
    <3>2. QED
      BY <1>1, <2>2, <2>4, <2>5, <3>1, LengthChanged
  <2>7. Size(g) # FromLittle(field) + 2 + w
    BY <1>1, <1>5, <2>6
  <2>8. QED
    BY <1>2, <2>1, <2>7, Zenon DEF g, field
<1>9. ASSUME i \in 3 + w..3 + w + n
      PROVE  g[Size(g)] # Checksum(Part(g, 4, Size(g) - 1))
  <2> DEFINE a == Part(f, 4, last)
             b == Part(g, 4, last)
             l == w + n - 1
  <2>1. /\ last \in Nat /\ last <= Size(f) /\ last <= Size(g) /\ 4 <= last + 1 /\ last - 4 + 1 = l
        /\ l \in Nat /\ Size(g) - 1 = last /\ Size(g) = 3 + w + n
    BY <1>1, <1>4, <1>5
  <2> HIDE DEF last
  <2>2. a \in Bytes /\ Size(a) = l /\ \A j \in 1..l : a[j] = f[3 + j]
    <3>1. /\ a \in Bytes /\ Size(a) = last - 4 + 1
          /\ \A j \in 1..last - 4 + 1 : a[j] = f[4 - 1 + j]
      BY <1>4, <2>1, PartOf
    <3> HIDE DEF a, l
    <3>2. QED
      BY <2>1, <3>1
  <2>3. b \in Bytes /\ Size(b) = l /\ \A j \in 1..l : b[j] = g[3 + j]
    <3>1. /\ b \in Bytes /\ Size(b) = last - 4 + 1
          /\ \A j \in 1..last - 4 + 1 : b[j] = g[4 - 1 + j]
      BY <1>5, <2>1, PartOf
    <3> HIDE DEF b, l
    <3>2. QED
      BY <2>1, <3>1
  <2>4. f[3 + w + n] = Checksum(a)
    BY <1>4 DEF last
  <2> HIDE DEF a, b
  <2>5. CASE i = 3 + w + n
    <3>1. \A j \in 1..l : b[j] = a[j]
      BY <1>1, <1>5, <2>2, <2>3, <2>5
    <3>2. a = b
      BY <2>2, <2>3, <3>1, BytesEqual DEF Size
    <3>3. QED
      BY <1>5, <2>1, <2>4, <2>5, <3>2 DEF b
  <2>6. CASE i # 3 + w + n
    <3>1. i - 3 \in 1..l /\ 3 + (i - 3) = i
      BY <1>1, <1>9, <2>6
    <3>2. b[i - 3] # a[i - 3]
      BY <1>5, <2>2, <2>3, <3>1
    <3>3. \A j \in 1..l : j # i - 3 => b[j] = a[j]
      BY <1>1, <1>5, <1>6, <2>2, <2>3, <3>1
    <3>4. Checksum(b) # Checksum(a)
      <4> DEFINE p == i - 3
      <4> HIDE DEF p, l
      <4>1. p \in 1..l /\ b[p] # a[p] /\ \A j \in 1..l : j # p => b[j] = a[j]
        BY <3>1, <3>2, <3>3 DEF p
      <4>2. QED
        BY <2>1, <2>2, <2>3, <4>1, ChecksumDiffers DEF Size
    <3>5. g[3 + w + n] = f[3 + w + n]
      BY <1>1, <1>5, <2>6
    <3>6. QED
      BY <2>1, <2>4, <3>4, <3>5 DEF b
  <2>7. QED
    BY <2>5, <2>6
<1>10. CASE i \in 3 + w..3 + w + n
  BY <1>2, <1>9, <1>10, Zenon DEF g
<1>11. QED
  BY <1>1, <1>6, <1>7, <1>8, <1>10

\* A frame in which one byte has changed is not read as anything, with any key: the header,
\* the length or the checksum gives it away (_parse_frame).
THEOREM ChangedFrameUnreadable ==
    ASSUME NEW command \in Nat, NEW payload \in Bytes, NEW sequence \in Nat,
           NEW version, NEW k \in Int, Len(payload) <= 200
    PROVE  LET f == BuildFrame(command, payload, sequence, version, k)
           IN  \A i \in DOMAIN f : \A byte \in Byte \ {f[i]} : \A other :
                  ParseFrame([f EXCEPT ![i] = byte], version, other) = Unreadable
<1> DEFINE f == BuildFrame(command, payload, sequence, version, k)
           body == Body(command, payload, sequence, k)
<1>1. Size(payload) <= 200
  BY DEF Size
<1>2. PICK n \in Nat : Framed(f, LengthWidth(version), body, n)
  BY <1>1, BuildsFrames
<1> HIDE DEF f, body
<1>3. DOMAIN f = 1..Size(f)
  <2>1. f \in Bytes
    BY <1>2 DEF Framed
  <2>2. QED
    BY <2>1, BytesAre, Zenon DEF Size
<1>4. \A i \in DOMAIN f : \A byte \in Byte \ {f[i]} : \A other :
         ParseFrame([f EXCEPT ![i] = byte], version, other) = Unreadable
  BY <1>2, <1>3, ChangedFramed
<1>5. QED
  BY <1>4 DEF f

------------------------------------------------------------------------------
(* Tag, length, value: what _parse_tlvs makes of what _make_tlv has made     *)

\* The fields from cursor c on, if g has those from every later one on.
FieldsFrom(data, w, g, c) ==
    IF c = Size(data) THEN NoFields
    ELSE IF c + 1 + w > Size(data) THEN Truncated
    ELSE LET start == c + 1 + w
             length == FromLittle(Part(data, c + 2, start))
             rest == g[start + length]
         IN  IF start + length > Size(data) THEN Truncated
             ELSE IF rest = Truncated \/ length = 0 THEN rest
             ELSE WithField(rest, data[c + 1], Part(data, start + 1, start + length))

Reads(data, w, g) == g = [c \in 0..Size(data) |-> FieldsFrom(data, w, g, c)]

\* The length field of a tag-length-value field has one byte or two.
LEMMA TlvWidths == \A version : TlvWidth(version) \in {1, 2}
BY DEF TlvWidth

\* The length at a cursor is a number, so that the next field is a later one.
LEMMA LengthAt ==
    ASSUME NEW data \in Bytes, NEW w \in {1, 2}, NEW c \in Nat, c + 1 + w <= Size(data)
    PROVE  FromLittle(Part(data, c + 2, c + 1 + w)) \in Nat
<1> DEFINE first == c + 2
           start == c + 1 + w
           field == Part(data, first, start)
<1>1. /\ first \in Nat /\ start \in Nat /\ 1 <= first /\ first <= start + 1
      /\ start - first + 1 = w /\ start <= Size(data)
  OBVIOUS
<1> HIDE DEF first, start
<1>2. field \in Bytes /\ Size(field) = w
  BY <1>1, PartOf
<1> HIDE DEF field
<1>3. /\ field[1] \in Byte /\ (w = 2 => field[2] \in Byte)
      /\ FromLittle(field) = IF w = 1 THEN field[1] ELSE field[1] + 256 * field[2]
  BY <1>2, FieldNumber
<1>4. \A a \in Byte : a \in Nat /\ \A b \in Byte : a + 256 * b \in Nat
  BY DEF Byte
<1>5. FromLittle(field) \in Nat
  BY <1>3, <1>4
<1>6. QED
  BY <1>5 DEF field, first, start

\* The fields from a cursor on only depend on those of later cursors.
LEMMA LaterFieldsDecide ==
    ASSUME NEW data \in Bytes, NEW w \in {1, 2}, NEW g, NEW h, NEW n \in Nat, Size(data) = n,
           NEW c \in Nat, \A i \in c + 1..n : g[i] = h[i]
    PROVE  FieldsFrom(data, w, g, c) = FieldsFrom(data, w, h, c)
<1>1. CASE c = n \/ c + 1 + w > n
  BY <1>1 DEF FieldsFrom
<1>2. CASE c # n /\ ~(c + 1 + w > n)
  <2> DEFINE start == c + 1 + w
             length == FromLittle(Part(data, c + 2, start))
  <2>1. start \in Nat /\ start > c /\ start <= Size(data)
    BY <1>2
  <2>2. length \in Nat
    BY <2>1, LengthAt
  <2> HIDE DEF length
  <2>3. start + length \in Nat /\ (start + length <= n => start + length \in c + 1..n)
    BY <2>1, <2>2
  <2>4. ~(start + length > n) => g[start + length] = h[start + length]
    BY <2>3
  <2> HIDE DEF start
  <2>5. FieldsFrom(data, w, g, c) =
          IF start + length > n THEN Truncated
          ELSE IF g[start + length] = Truncated \/ length = 0 THEN g[start + length]
          ELSE WithField(g[start + length], data[c + 1], Part(data, start + 1, start + length))
    BY <1>2, Zenon DEF FieldsFrom, start, length
  <2>6. FieldsFrom(data, w, h, c) =
          IF start + length > n THEN Truncated
          ELSE IF h[start + length] = Truncated \/ length = 0 THEN h[start + length]
          ELSE WithField(h[start + length], data[c + 1], Part(data, start + 1, start + length))
    BY <1>2, Zenon DEF FieldsFrom, start, length
  <2>7. QED
    BY <2>4, <2>5, <2>6
<1>3. QED
  BY <1>1, <1>2

\* The recursion of ParseTlvs has a solution.
LEMMA ReadsAll ==
    ASSUME NEW data \in Bytes, NEW w \in {1, 2}
    PROVE  \E g : Reads(data, w, g)
<1>1. PICK n \in Nat : Size(data) = n
  BY Sized
<1> DEFINE To(k, g) == g = [c \in k..n |-> FieldsFrom(data, w, g, c)]
           Read == {k \in 0..n : \E g : To(k, g)}
<1>2. n \in Read
  <2> DEFINE g == [c \in n..n |-> NoFields]
  <2>1. \A c \in n..n : FieldsFrom(data, w, g, c) = NoFields
    BY <1>1 DEF FieldsFrom
  <2>2. To(n, g)
    BY <2>1
  <2>3. QED
    BY <2>2
<1>3. ASSUME NEW k \in 0..n - 1, k + 1 \in Read PROVE k \in Read
  <2>1. PICK g : To(k + 1, g)
    BY <1>3
  <2> DEFINE h == [c \in k..n |-> IF c = k THEN FieldsFrom(data, w, g, k) ELSE g[c]]
  <2>2. k \in Nat /\ k + 1 \in Nat /\ \A c \in k..n : c = k \/ c \in k + 1..n
    OBVIOUS
  <2>3. \A c \in k + 1..n : h[c] = g[c] /\ g[c] = FieldsFrom(data, w, g, c)
    BY <2>1
  <2>4. h[k] = FieldsFrom(data, w, g, k)
    OBVIOUS
  <2> HIDE DEF To
  <2>5. ASSUME NEW c \in k..n PROVE FieldsFrom(data, w, h, c) = FieldsFrom(data, w, g, c)
    <3>1. c \in Nat /\ \A i \in c + 1..n : i \in k + 1..n
      OBVIOUS
    <3>2. \A i \in c + 1..n : h[i] = g[i]
      BY <2>3, <3>1
    <3> HIDE DEF h
    <3>3. QED
      BY <1>1, <3>1, <3>2, LaterFieldsDecide
  <2>6. \A c \in k..n : h[c] = FieldsFrom(data, w, h, c)
    BY <2>2, <2>3, <2>4, <2>5
  <2>7. To(k, h)
    BY <2>6 DEF To
  <2>8. QED
    BY <2>7
<1>4. Read = 0..n
  <2>1. Read \in SUBSET (0..n)
    OBVIOUS
  <2>2. \A k \in 0..n - 1 : (\A i \in k + 1..n : i \in Read) => k \in Read
    <3>1. \A k \in 0..n - 1 : k + 1 \in k + 1..n
      OBVIOUS
    <3> HIDE DEF Read
    <3>2. QED
      BY <1>3, <3>1
  <2> HIDE DEF Read
  <2>3. QED
    BY <1>2, <2>1, <2>2, Downwards
<1>5. PICK g : To(0, g)
  BY <1>4
<1>6. QED
  BY <1>1, <1>5 DEF Reads

\* _parse_tlvs satisfies its recursive definition: the step that its proofs unfold.
LEMMA ParseTlvsIs ==
    ASSUME NEW data \in Bytes, NEW version
    PROVE  \E g : Reads(data, TlvWidth(version), g) /\ ParseTlvs(data, version) = g[0]
<1> DEFINE g == CHOOSE h : Reads(data, TlvWidth(version), h)
<1>1. Reads(data, TlvWidth(version), g)
  BY ReadsAll, TlvWidths, Zenon
<1>2. ParseTlvs(data, version) = g[0]
  BY Zenon DEF ParseTlvs, Reads, FieldsFrom, Size, Part
<1>3. QED
  BY <1>1, <1>2, Zenon

\* Behind some bytes, the fields are those that the rest has by itself.
LEMMA FieldsBehind ==
    ASSUME NEW head \in Bytes, NEW rest \in Bytes, NEW w \in {1, 2}, NEW h \in Nat, Size(head) = h,
           NEW g, Reads(Join(head, rest), w, g), NEW r, Reads(rest, w, r)
    PROVE  g[h] = r[0]
<1> DEFINE data == Join(head, rest)
<1>1. PICK n \in Nat : Size(rest) = n
  BY Sized
<1>2. /\ data \in Bytes /\ Size(data) = h + n
      /\ \A i \in 1..n : data[h + i] = rest[i]
  BY <1>1, Joined
<1> HIDE DEF data
<1>3. \A c \in 0..h + n : g[c] = FieldsFrom(data, w, g, c)
  BY <1>2, Zenon DEF Reads, data
<1>4. \A c \in 0..n : r[c] = FieldsFrom(rest, w, r, c)
  BY <1>1, Zenon DEF Reads
<1> DEFINE Same == {c \in 0..n : g[h + c] = r[c]}
<1>5. n \in Same
  <2>1. n \in 0..n /\ h + n \in 0..h + n
    OBVIOUS
  <2>2. g[h + n] = NoFields /\ r[n] = NoFields
    BY <1>1, <1>2, <1>3, <1>4, <2>1 DEF FieldsFrom
  <2>3. QED
    BY <2>1, <2>2
<1>6. ASSUME NEW c \in 0..n - 1, \A i \in c + 1..n : i \in Same PROVE c \in Same
  <2>1. c \in 0..n /\ h + c \in 0..h + n /\ c # n /\ h + c # h + n /\ c \in Nat /\ h + c \in Nat
    OBVIOUS
  <2>2. \A i \in c + 1..n : g[h + i] = r[i]
    BY <1>6
  <2>3. g[h + c] = FieldsFrom(data, w, g, h + c) /\ r[c] = FieldsFrom(rest, w, r, c)
    BY <1>3, <1>4, <2>1
  <2>4. CASE c + 1 + w > n
    <3>1. h + c + 1 + w > h + n
      BY <2>4
    <3>2. g[h + c] = Truncated /\ r[c] = Truncated
      BY <1>1, <1>2, <2>1, <2>3, <2>4, <3>1 DEF FieldsFrom
    <3>3. QED
      BY <2>1, <3>2
  <2>5. CASE ~(c + 1 + w > n)
    <3> DEFINE start == c + 1 + w
               first == c + 2
               length == FromLittle(Part(rest, first, start))
    <3>1. /\ start \in Nat /\ first \in Nat /\ start <= n /\ 1 <= first /\ first <= start + 1
          /\ start - first + 1 = w /\ start > c
      BY <2>1, <2>5
    <3>2. length \in Nat
      BY <1>1, <2>1, <2>5, LengthAt
    <3> HIDE DEF start, first, length
    <3>3. Part(data, h + first, h + start) = Part(rest, first, start)
      <4> DEFINE e == Part(rest, first, start)
                 a == h + first
                 b == h + start
      <4>1. e \in Bytes /\ Size(e) = w /\ \A i \in 1..w : e[i] = rest[first - 1 + i]
        <5>1. /\ e \in Bytes /\ Size(e) = start - first + 1
              /\ \A i \in 1..start - first + 1 : e[i] = rest[first - 1 + i]
          BY <1>1, <3>1, PartOf
        <5> HIDE DEF e
        <5>2. QED
          BY <3>1, <5>1
      <4>2. \A i \in 1..w : data[h + (first - 1 + i)] = rest[first - 1 + i]
        <5>1. \A i \in 1..w : first - 1 + i \in 1..n
          BY <3>1
        <5>2. QED
          BY <1>2, <5>1
      <4>3. /\ a \in Nat /\ b \in Nat /\ 1 <= a /\ b = a + w - 1 /\ b <= Size(data)
            /\ w \in Nat /\ \A i \in 1..w : a - 1 + i = h + (first - 1 + i)
        BY <1>2, <3>1
      <4> HIDE DEF e, a, b
      <4>4. \A i \in 1..w : data[a - 1 + i] = e[i]
        BY <4>1, <4>2, <4>3
      <4>5. Part(data, a, b) = e
        BY <1>2, <4>1, <4>3, <4>4, Slice
      <4>6. QED
        BY <4>5 DEF a, b, e
    <3>4. /\ h + c + 1 + w = h + start /\ h + c + 2 = h + first /\ c + 1 + w = start
          /\ c + 2 = first /\ h + c + 1 = h + (c + 1)
      BY DEF start, first
    <3>5. data[h + c + 1] = rest[c + 1]
      <4>1. c + 1 \in 1..n
        OBVIOUS
      <4>2. QED
        BY <1>2, <3>4, <4>1
    <3>6. ~(h + c + 1 + w > h + n)
      BY <2>1, <2>5
    <3>7. g[h + c] =
            IF h + start + length > h + n THEN Truncated
            ELSE IF g[h + start + length] = Truncated \/ length = 0 THEN g[h + start + length]
            ELSE WithField(g[h + start + length], rest[c + 1],
                           Part(data, h + start + 1, h + start + length))
      <4>1. g[h + c] =
              LET size == FromLittle(Part(data, h + c + 2, h + c + 1 + w))
                  behind == g[h + c + 1 + w + size]
              IN  IF h + c + 1 + w + size > h + n THEN Truncated
                  ELSE IF behind = Truncated \/ size = 0 THEN behind
                  ELSE WithField(behind, data[h + c + 1],
                                 Part(data, h + c + 1 + w + 1, h + c + 1 + w + size))
        BY <1>2, <2>1, <2>3, <3>6, Zenon DEF FieldsFrom
      <4>2. FromLittle(Part(data, h + c + 2, h + c + 1 + w)) = length
        BY <3>3, <3>4, Zenon DEF length
      <4>3. QED
        BY <3>4, <3>5, <4>1, <4>2, Zenon
    <3>8. r[c] =
            IF start + length > n THEN Truncated
            ELSE IF r[start + length] = Truncated \/ length = 0 THEN r[start + length]
            ELSE WithField(r[start + length], rest[c + 1],
                           Part(rest, start + 1, start + length))
      BY <1>1, <2>1, <2>3, <2>5, Zenon DEF FieldsFrom, start, first, length
    <3>9. CASE start + length > n
      <4>1. h + start + length > h + n
        BY <3>1, <3>2, <3>9
      <4>2. g[h + c] = Truncated /\ r[c] = Truncated
        BY <3>7, <3>8, <3>9, <4>1, Zenon
      <4>3. QED
        BY <2>1, <4>2
    <3>10. CASE ~(start + length > n)
      <4> DEFINE next == start + length
      <4>1. /\ ~(h + start + length > h + n) /\ next \in c + 1..n
            /\ h + start + length = h + next
        BY <2>1, <3>1, <3>2, <3>10
      <4>2. g[h + start + length] = r[next]
        BY <2>2, <4>1
      <4>3. Part(data, h + start + 1, h + start + length) = Part(rest, start + 1, next)
        <5> DEFINE from == start + 1
                   e == Part(rest, from, next)
                   a == h + start + 1
                   b == h + start + length
        <5>1. /\ from \in Nat /\ next \in Nat /\ 1 <= from /\ from <= next + 1 /\ next <= n
              /\ next - from + 1 = length
          BY <3>1, <3>2, <3>10
        <5>2. /\ a \in Nat /\ b \in Nat /\ 1 <= a /\ b = a + length - 1 /\ b <= h + n
              /\ \A i \in 1..length : a - 1 + i = h + (from - 1 + i) /\ from - 1 + i \in 1..n
          BY <3>1, <3>2, <3>10
        <5> HIDE DEF from, next, a, b
        <5>3. e \in Bytes /\ Size(e) = length /\ \A i \in 1..length : e[i] = rest[from - 1 + i]
          <6>1. /\ e \in Bytes /\ Size(e) = next - from + 1
                /\ \A i \in 1..next - from + 1 : e[i] = rest[from - 1 + i]
            BY <1>1, <5>1, PartOf
          <6> HIDE DEF e
          <6>2. QED
            BY <5>1, <6>1
        <5> HIDE DEF e
        <5>4. \A i \in 1..length : data[a - 1 + i] = e[i]
          BY <1>2, <5>2, <5>3
        <5>5. Part(data, a, b) = e
          BY <1>2, <3>2, <5>2, <5>3, <5>4, Slice
        <5>6. QED
          BY <5>5 DEF from, next, a, b, e
      <4>4. g[h + c] = r[c]
        BY <3>7, <3>8, <3>10, <4>1, <4>2, <4>3
      <4>5. QED
        BY <2>1, <4>4
    <3>11. QED
      BY <3>9, <3>10
  <2>6. QED
    BY <2>4, <2>5
<1>7. Same = 0..n
  <2>1. Same \in SUBSET (0..n)
    OBVIOUS
  <2> HIDE DEF Same
  <2>2. QED
    BY <1>5, <1>6, <2>1, Downwards
<1>8. 0 \in Same /\ h + 0 = h
  BY <1>7
<1>9. QED
  BY <1>8

\* Where kind, length and value are in what _make_tlv makes.
LEMMA TlvShape ==
    ASSUME NEW kind \in Byte, NEW value \in Bytes, NEW l \in Nat, Size(value) = l, l < 256,
           NEW version
    PROVE  LET w == TlvWidth(version)
               tlv == MakeTlv(kind, value, version)
           IN  /\ tlv \in Bytes /\ Size(tlv) = 1 + w + l
               /\ tlv[1] = kind
               /\ \A i \in 1..w : tlv[1 + i] = Little(l, w)[i]
               /\ \A i \in 1..l : tlv[1 + w + i] = value[i]
<1> DEFINE w == TlvWidth(version)
           length == Little(l, w)
           head == <<kind>>
           start == Join(head, length)
           tlv == MakeTlv(kind, value, version)
<1>1. tlv = Join(start, value)
  BY Zenon DEF MakeTlv, Join, Size
<1> HIDE DEF tlv
<1>2. w \in {1, 2}
  BY TlvWidths
<1> HIDE DEF w
<1>3. length \in Bytes /\ Size(length) = w
  BY <1>2, LittleBytes
<1> HIDE DEF length
<1>4. head \in Bytes /\ Size(head) = 1 /\ head[1] = kind
  BY DEF Bytes, Size
<1> HIDE DEF head
<1>5. /\ start \in Bytes /\ Size(start) = 1 + w
      /\ \A i \in 1..1 : start[i] = head[i]
      /\ \A i \in 1..w : start[1 + i] = length[i]
  BY <1>2, <1>3, <1>4, Joined
<1> HIDE DEF start
<1>6. /\ tlv \in Bytes /\ Size(tlv) = 1 + w + l
      /\ \A i \in 1..1 + w : tlv[i] = start[i]
      /\ \A i \in 1..l : tlv[1 + w + i] = value[i]
  <2>1. PICK m \in Nat : m = 1 + w
    BY <1>2
  <2>2. /\ Join(start, value) \in Bytes /\ Size(Join(start, value)) = m + l
        /\ \A i \in 1..m : Join(start, value)[i] = start[i]
        /\ \A i \in 1..l : Join(start, value)[m + i] = value[i]
    BY <1>5, <2>1, Joined
  <2>3. QED
    BY <1>1, <2>1, <2>2
<1>7. tlv[1] = kind /\ \A i \in 1..w : tlv[1 + i] = length[i]
  BY <1>2, <1>4, <1>5, <1>6
<1>8. QED
  BY <1>6, <1>7 DEF tlv, w, length

\* The fields of a payload are its first field and those of the rest, of which an earlier one
\* gives way to a later one of its kind and an empty one is left out, whatever the width of
\* the lengths (_make_tlv, _parse_tlvs).
THEOREM TlvRoundTrip ==
    ASSUME NEW kind \in Byte, NEW value \in Bytes, Len(value) < 256, NEW rest \in Bytes, NEW version
    PROVE  LET others == ParseTlvs(rest, version)
           IN  ParseTlvs(MakeTlv(kind, value, version) \o rest, version) =
                 IF others = Truncated \/ value = <<>> THEN others
                 ELSE WithField(others, kind, value)
<1> DEFINE w == TlvWidth(version)
           tlv == MakeTlv(kind, value, version)
           data == Join(tlv, rest)
           others == ParseTlvs(rest, version)
<1>1. PICK l \in Nat : Size(value) = l /\ l < 256
  BY BytesAre DEF Size
<1>2. PICK n \in Nat : Size(rest) = n
  BY Sized
<1>3. w \in {1, 2}
  BY TlvWidths
<1>4. /\ tlv \in Bytes /\ Size(tlv) = 1 + w + l
      /\ tlv[1] = kind
      /\ \A i \in 1..w : tlv[1 + i] = Little(l, w)[i]
      /\ \A i \in 1..l : tlv[1 + w + i] = value[i]
  BY <1>1, TlvShape
<1> HIDE DEF tlv
<1> DEFINE h == 1 + w + l
           start == 1 + w
<1>5. h \in Nat /\ start \in Nat /\ h = start + l /\ start >= 2 /\ start <= h
  BY <1>3
<1>6. /\ data \in Bytes /\ Size(data) = h + n
      /\ \A i \in 1..h : data[i] = tlv[i]
  BY <1>2, <1>4, <1>5, Joined
<1>7. PICK g : Reads(data, w, g) /\ ParseTlvs(data, version) = g[0]
  BY <1>6, ParseTlvsIs
<1>8. PICK r : Reads(rest, w, r) /\ others = r[0]
  BY ParseTlvsIs
<1>9. g[h] = others
  BY <1>3, <1>4, <1>5, <1>7, <1>8, FieldsBehind
<1> HIDE DEF data, others, w
<1>10. Part(data, 2, start) = Little(l, w)
  <2>1. /\ start <= Size(data) /\ 1 <= 2 /\ start = 2 + w - 1 /\ w \in Nat
        /\ \A i \in 1..w : 1 + i \in 1..h /\ 2 - 1 + i = 1 + i
    BY <1>3, <1>5, <1>6
  <2>2. \A i \in 1..w : data[2 - 1 + i] = Little(l, w)[i]
    BY <1>4, <1>6, <2>1
  <2>3. Little(l, w) \in Bytes /\ Size(Little(l, w)) = w
    BY <1>3, LittleBytes
  <2> HIDE DEF start, h
  <2>4. QED
    BY <1>5, <1>6, <2>1, <2>2, <2>3, Slice
<1>11. FromLittle(Little(l, w)) = l
  <2>1. l < IF w = 1 THEN 256 ELSE 65536
    BY <1>1
  <2>2. QED
    BY <1>3, <2>1, LittleBytes
<1>12. Part(data, start + 1, start + l) = value
  <2> DEFINE a == start + 1
  <2>1. /\ a \in Nat /\ 1 <= a /\ h = a + l - 1 /\ h <= Size(data)
        /\ \A i \in 1..l : start + i \in 1..h /\ a - 1 + i = start + i
    BY <1>3, <1>5, <1>6
  <2>2. \A i \in 1..l : data[a - 1 + i] = value[i]
    BY <1>4, <1>6, <2>1
  <2> HIDE DEF start, h, a
  <2>3. PICK p \in Nat, q \in Nat : p = a /\ q = h
    BY <1>5, <2>1
  <2>4. Part(data, p, q) = value
    <3>1. /\ 1 <= p /\ q = p + l - 1 /\ q <= Size(data) /\ \A i \in 1..l : data[p - 1 + i] = value[i]
          /\ data \in Bytes /\ Size(value) = l
      BY <1>1, <1>6, <2>1, <2>2, <2>3
    <3> HIDE DEF data
    <3>2. QED
      BY <3>1, Slice
  <2>5. QED
    BY <1>5, <2>3, <2>4 DEF a
<1>13. data[1] = kind
  <2>1. 1 \in 1..h
    BY <1>3, <1>5
  <2>2. QED
    BY <1>4, <1>6, <2>1
<1>14. 0 \in 0..Size(data) /\ 0 # Size(data) /\ ~(0 + 1 + w > Size(data))
       /\ 0 + 1 + w = start /\ 0 + 2 = 2 /\ 0 + 1 = 1 /\ ~(start + l > Size(data))
  BY <1>2, <1>3, <1>5, <1>6
<1> HIDE DEF start, h
<1>15. g[0] = IF others = Truncated \/ l = 0 THEN others ELSE WithField(others, kind, value)
  <2>1. g[0] = FieldsFrom(data, w, g, 0)
    BY <1>7, <1>14, Zenon DEF Reads
  <2>2. FieldsFrom(data, w, g, 0) =
          LET length == FromLittle(Part(data, 0 + 2, 0 + 1 + w))
              behind == g[0 + 1 + w + length]
          IN  IF 0 + 1 + w + length > Size(data) THEN Truncated
              ELSE IF behind = Truncated \/ length = 0 THEN behind
              ELSE WithField(behind, data[0 + 1],
                             Part(data, 0 + 1 + w + 1, 0 + 1 + w + length))
    BY <1>14, Zenon DEF FieldsFrom
  <2>3. FromLittle(Part(data, 0 + 2, 0 + 1 + w)) = l
    BY <1>10, <1>11, <1>14, Zenon
  <2>4. g[0 + 1 + w + l] = others
    BY <1>5, <1>9, <1>14, Zenon
  <2>5. Part(data, 0 + 1 + w + 1, 0 + 1 + w + l) = value /\ data[0 + 1] = kind
    BY <1>12, <1>13, <1>14, Zenon
  <2>6. ~(0 + 1 + w + l > Size(data))
    BY <1>14, Zenon
  <2>7. QED
    BY <2>1, <2>2, <2>3, <2>4, <2>5, <2>6, Zenon
<1>16. l = 0 <=> value = <<>>
  BY <1>1, EmptySeq DEF Size, Bytes
<1>17. QED
  BY <1>7, <1>15, <1>16, Zenon DEF data, others, tlv, Join

------------------------------------------------------------------------------
(* The invariant of a call                                                  *)

Command == {CMD_LOCAL_AUTH_PUBKEY, CMD_LOCAL_AUTH_CHECK, CMD_SEND_TRANSPORT}

\* The key that both ends compute when all goes well.
Common == SessionKey(Random, TRUE)

\* The app computes another one if its code does not match.
SessionKeys == {Common, SessionKey(Random, FALSE)}

CommonPayload(command, result, v) ==
    MakeTlv(2, Little(command, 2), v) \o MakeTlv(3, <<result>>, v)

KeyAnswer(v) ==
    MakeTlv(3, << 0 >>, v) \o MakeTlv(1, GatePublic, v) \o MakeTlv(4, <<>>, v)
        \o MakeTlv(2, Encrypt(MasterKey(GatePublic), Random), v)

\* What a gate may have said, and under which key: it accepts the proof only if it has the
\* key, and agrees to the motor request only if it has taken it.
Said(c, p, k, v, g) ==
    \/ c = CMD_LOCAL_AUTH_PUBKEY /\ p = KeyAnswer(v) /\ k = NoKey
    \/ /\ c = CMD_LOCAL_AUTH_CHECK /\ k = NoKey
       /\ (p = MakeTlv(2, << 0 >>, v) /\ g.key = Common) \/ p = MakeTlv(2, << 1 >>, v)
    \/ /\ c = CMD_SEND_TRANSPORT
       /\ (p = MotorResponse(0) /\ g.taken) \/ p = MotorResponse(1)
    \/ /\ c = CMD_COMMON_REPLY /\ k = NoKey
       /\ \E d \in Command \cup {4097}, result \in {0, 1} : p = CommonPayload(d, result, v)
    \/ c \in Command /\ p = MakeTlv(3, << 1 >>, v) /\ k = NoKey
    \/ c = 4097 /\ p = <<>>

\* The frames of it, and one that is none.
Flying(v, g) ==
    {<< 0 >>} \cup {f \in Bytes : \E c \in Word, p \in Bytes, k \in {NoKey, g.key} :
                     Len(p) <= 200 /\ Said(c, p, k, v, g) /\ f = Sends(c, p, v, k)}

\* What is in flight for a software version and a gate.
Told(a, q, v, g) == a \subseteq Flying(v, g) /\ q \in Seq(Flying(v, g))

GateStates == [key : {NoKey, Common}, taken : BOOLEAN]

Early == {"new", "lock", "connection", "start"}
Over == {"disconnect", "over"}

Types ==
    /\ pc \in Early \cup DOMAIN Requested \cup {"settle"} \cup Over
    /\ link \in BOOLEAN /\ stuck \in BOOLEAN /\ disturbed \in BOOLEAN
    /\ outcome \in {"none", "returned", "raised"}
    /\ gate \in GateStates
    /\ key \in {NoKey} \cup SessionKeys
    /\ written \in Nat /\ left \in Nat
    /\ IsFiniteSet(air)

InAir == Told(air, queue, soft, gate)

\* Nothing has been said before the first request, and there is no link before the connection.
Quiet ==
    /\ pc \in Early => air = {} /\ queue = <<>>
    /\ pc \in Early \ {"start"} => ~link

\* The gate's key comes with the proof, which only the app's own key can be the proof of.
Keys ==
    /\ gate.key # NoKey => key = gate.key
    /\ pc \in Early \cup {"keyExchange"} => gate.key = NoKey
    /\ pc \in {"settle", "motorReply"} \/ written > 0 => gate.key # NoKey

Inv == Types /\ InAir /\ Quiet /\ Keys

------------------------------------------------------------------------------
(* The payloads of a session are bytes, and short                           *)

Short(payload) == payload \in Bytes /\ \E l \in Nat : Size(payload) = l /\ l <= 200

\* A short value makes a short field.
LEMMA ShortTlv ==
    ASSUME NEW kind \in Byte, NEW value \in Bytes, NEW l \in Nat, Size(value) = l, l <= 20, NEW version
    PROVE  /\ MakeTlv(kind, value, version) \in Bytes
           /\ \E n \in Nat : Size(MakeTlv(kind, value, version)) = n /\ n <= l + 3
<1> DEFINE w == TlvWidth(version)
           tlv == MakeTlv(kind, value, version)
<1>1. w \in {1, 2}
  BY TlvWidths
<1>2. l < 256
  OBVIOUS
<1>3. tlv \in Bytes /\ Size(tlv) = 1 + w + l
  BY <1>2, TlvShape
<1> HIDE DEF tlv, w
<1>4. 1 + w + l \in Nat /\ 1 + w + l <= l + 3
  BY <1>1
<1>5. QED
  BY <1>3, <1>4, Zenon DEF tlv

\* One byte is bytes.
LEMMA OneByte == \A x \in Byte : <<x>> \in Bytes /\ Size(<<x>>) = 1
BY DEF Bytes, Size

\* No byte is bytes.
LEMMA NoByte == <<>> \in Bytes /\ Size(<<>>) = 0
BY DEF Bytes, Size

\* Two short sequences of bytes make one that is not much longer.
LEMMA ShortJoin ==
    ASSUME NEW a \in Bytes, NEW b \in Bytes, NEW m \in Nat, NEW n \in Nat,
           \E k \in Nat : Size(a) = k /\ k <= m, \E k \in Nat : Size(b) = k /\ k <= n
    PROVE  a \o b \in Bytes /\ \E k \in Nat : Size(a \o b) = k /\ k <= m + n
<1>1. PICK p \in Nat, q \in Nat : Size(a) = p /\ Size(b) = q /\ p <= m /\ q <= n
  OBVIOUS
<1>2. Join(a, b) \in Bytes /\ Size(Join(a, b)) = p + q
  BY <1>1, Joined
<1>3. p + q \in Nat /\ p + q <= m + n
  BY <1>1
<1>4. QED
  BY <1>2, <1>3, Zenon DEF Join

\* The session's values are bytes.
LEMMA SessionBytes ==
    /\ 0 \in Byte /\ 1 \in Byte /\ 2 \in Byte /\ 3 \in Byte /\ 4 \in Byte
    /\ AppPublic \in Bytes /\ Size(AppPublic) = 1 /\ GatePublic \in Bytes /\ Size(GatePublic) = 1
    /\ Random \in Bytes /\ Size(Random) = 1
    /\ \A public : MasterKey(public) \in Int
    /\ \A random, code : SessionKey(random, code) \in Byte
    /\ Common = 80 /\ NoKey = -1
<1>1. 3 \in Byte /\ 5 \in Byte /\ 9 \in Byte
  BY DEF Byte
<1>2. /\ AppPublic \in Bytes /\ Size(AppPublic) = 1 /\ GatePublic \in Bytes /\ Size(GatePublic) = 1
      /\ Random \in Bytes /\ Size(Random) = 1
  BY <1>1, OneByte DEF AppPublic, GatePublic, Random
<1>3. QED
  BY <1>2 DEF Byte, MasterKey, SessionKey, Common, NoKey

\* What is encrypted is of one block.
LEMMA ShortCipher ==
    ASSUME NEW plain \in Bytes, Size(plain) = 1, NEW k \in Int
    PROVE  Encrypt(k, plain) \in Bytes /\ \E n \in Nat : Size(Encrypt(k, plain)) = n /\ n <= 5 /\ 1 <= n
<1> DEFINE cipher == Encrypt(k, plain)
<1>1. cipher \in Bytes /\ Size(cipher) \in Size(plain) + 1..Size(plain) + 4
  BY CipherRoundTrip, Zenon DEF Size, Block
<1>2. PICK n \in Nat : Size(cipher) = n
  BY <1>1, Sized
<1>3. n <= 5 /\ 1 <= n
  BY <1>1, <1>2
<1>4. QED
  BY <1>1, <1>2, <1>3, Zenon

\* The fields of a session are short payloads.
LEMMA ShortTlvOf ==
    ASSUME NEW kind \in Byte, NEW value \in Bytes, \E l \in Nat : Size(value) = l /\ l <= 5, NEW version
    PROVE  /\ MakeTlv(kind, value, version) \in Bytes
           /\ \E n \in Nat : Size(MakeTlv(kind, value, version)) = n /\ n <= 8
           /\ Short(MakeTlv(kind, value, version))
<1> DEFINE tlv == MakeTlv(kind, value, version)
<1>1. PICK l \in Nat : Size(value) = l /\ l <= 5
  OBVIOUS
<1>2. l <= 20
  BY <1>1
<1>3. tlv \in Bytes /\ \E n \in Nat : Size(tlv) = n /\ n <= l + 3
  BY <1>1, <1>2, ShortTlv
<1> HIDE DEF tlv
<1>4. PICK n \in Nat : Size(tlv) = n /\ n <= l + 3
  BY <1>3
<1>5. n <= 8 /\ n <= 200
  BY <1>1, <1>4
<1>6. QED
  BY <1>3, <1>4, <1>5, Zenon DEF tlv, Short

\* Every payload that the two sides send is short bytes.
LEMMA ShortPayloads ==
    ASSUME NEW v
    PROVE  /\ \A kind \in Byte, x \in Byte : Short(MakeTlv(kind, <<x>>, v))
           /\ \A s \in Byte, k \in Int : Short(MakeTlv(1, Encrypt(k, <<s>>), v))
           /\ Short(MakeTlv(1, AppPublic, v))
           /\ Short(KeyAnswer(v))
           /\ \A c \in Word, x \in Byte : Short(CommonPayload(c, x, v))
           /\ Short(<<>>)
<1>1. \A x \in Byte : <<x>> \in Bytes /\ \E l \in Nat : Size(<<x>>) = l /\ l <= 5
  <2>1. 1 \in Nat /\ 1 <= 5
    OBVIOUS
  <2>2. QED
    BY <2>1, OneByte, Zenon
<1>2. \A kind \in Byte, x \in Byte : Short(MakeTlv(kind, <<x>>, v))
  BY <1>1, ShortTlvOf, Zenon
<1>3. ASSUME NEW s \in Byte, NEW k \in Int PROVE Short(MakeTlv(1, Encrypt(k, <<s>>), v))
  <2>1. Encrypt(k, <<s>>) \in Bytes /\ \E n \in Nat : Size(Encrypt(k, <<s>>)) = n /\ n <= 5
    BY OneByte, ShortCipher, Zenon
  <2>2. QED
    BY <2>1, ShortTlvOf, SessionBytes, Zenon
<1>4. Short(MakeTlv(1, AppPublic, v))
  <2>1. AppPublic \in Bytes /\ \E l \in Nat : Size(AppPublic) = l /\ l <= 5
    BY SessionBytes
  <2>2. QED
    BY <2>1, ShortTlvOf, SessionBytes, Zenon
<1>5. Short(KeyAnswer(v))
  <2> DEFINE a == MakeTlv(3, << 0 >>, v)
             b == MakeTlv(1, GatePublic, v)
             c == MakeTlv(4, <<>>, v)
             d == MakeTlv(2, Encrypt(MasterKey(GatePublic), Random), v)
  <2>1. a \in Bytes /\ \E n \in Nat : Size(a) = n /\ n <= 8
    BY <1>1, ShortTlvOf, SessionBytes, Zenon
  <2>2. b \in Bytes /\ \E n \in Nat : Size(b) = n /\ n <= 8
    <3>1. GatePublic \in Bytes /\ \E l \in Nat : Size(GatePublic) = l /\ l <= 5
      BY SessionBytes
    <3>2. QED
      BY <3>1, ShortTlvOf, SessionBytes, Zenon
  <2>3. c \in Bytes /\ \E n \in Nat : Size(c) = n /\ n <= 8
    <3>1. <<>> \in Bytes /\ \E l \in Nat : Size(<<>>) = l /\ l <= 5
      BY NoByte
    <3>2. QED
      BY <3>1, ShortTlvOf, SessionBytes, Zenon
  <2>4. d \in Bytes /\ \E n \in Nat : Size(d) = n /\ n <= 8
    <3> DEFINE e == Encrypt(MasterKey(GatePublic), Random)
    <3>1. e \in Bytes /\ \E n \in Nat : Size(e) = n /\ n <= 5
      BY ShortCipher, SessionBytes, Zenon
    <3> HIDE DEF e
    <3>2. MakeTlv(2, e, v) \in Bytes /\ \E n \in Nat : Size(MakeTlv(2, e, v)) = n /\ n <= 8
      BY <3>1, ShortTlvOf, SessionBytes, Zenon
    <3>3. QED
      BY <3>2 DEF e
  <2>5. KeyAnswer(v) = ((a \o b) \o c) \o d
    BY Zenon DEF KeyAnswer
  <2> HIDE DEF a, b, c, d
  <2> DEFINE ab == a \o b
             abc == ab \o c
  <2>6. ab \in Bytes /\ \E n \in Nat : Size(ab) = n /\ n <= 16
    <3>1. ab \in Bytes /\ \E n \in Nat : Size(ab) = n /\ n <= 8 + 8
      BY <2>1, <2>2, ShortJoin, Zenon
    <3> HIDE DEF ab
    <3>2. QED
      BY <3>1
  <2> HIDE DEF ab
  <2>7. abc \in Bytes /\ \E n \in Nat : Size(abc) = n /\ n <= 24
    <3>1. 16 \in Nat /\ 8 \in Nat
      OBVIOUS
    <3>2. abc \in Bytes /\ \E n \in Nat : Size(abc) = n /\ n <= 16 + 8
      BY <2>3, <2>6, <3>1, ShortJoin, Zenon
    <3> HIDE DEF abc
    <3>3. QED
      BY <3>2
  <2> HIDE DEF abc
  <2>8. abc \o d \in Bytes /\ \E n \in Nat : Size(abc \o d) = n /\ n <= 24 + 8
    <3>1. 24 \in Nat /\ 8 \in Nat
      OBVIOUS
    <3>2. QED
      BY <2>4, <2>7, <3>1, ShortJoin, Zenon
  <2>9. KeyAnswer(v) = abc \o d
    BY <2>5 DEF abc, ab
  <2>10. \A n \in Nat : n <= 24 + 8 => n <= 200
    OBVIOUS
  <2>11. QED
    BY <2>8, <2>9, <2>10, Zenon DEF Short
<1>6. ASSUME NEW c \in Word, NEW x \in Byte PROVE Short(CommonPayload(c, x, v))
  <2> DEFINE a == MakeTlv(2, Little(c, 2), v)
             b == MakeTlv(3, <<x>>, v)
  <2>1. Little(c, 2) \in Bytes /\ \E n \in Nat : Size(Little(c, 2)) = n /\ n <= 5
    <3>1. Little(c, 2) \in Bytes /\ Size(Little(c, 2)) = 2
      BY LittleBytes DEF Word
    <3>2. QED
      BY <3>1
  <2>2. a \in Bytes /\ \E n \in Nat : Size(a) = n /\ n <= 8
    BY <2>1, ShortTlvOf, SessionBytes, Zenon
  <2>3. b \in Bytes /\ \E n \in Nat : Size(b) = n /\ n <= 8
    BY <1>1, ShortTlvOf, SessionBytes, Zenon
  <2> HIDE DEF a, b
  <2>4. a \o b \in Bytes /\ \E n \in Nat : Size(a \o b) = n /\ n <= 8 + 8
    BY <2>2, <2>3, ShortJoin
  <2>5. \A n \in Nat : n <= 8 + 8 => n <= 200
    OBVIOUS
  <2>6. CommonPayload(c, x, v) = a \o b
    BY Zenon DEF CommonPayload, a, b
  <2>7. QED
    BY <2>4, <2>5, <2>6, Zenon DEF Short
<1>7. Short(<<>>)
  BY NoByte DEF Short
<1>8. QED
  BY <1>2, <1>3, <1>4, <1>5, <1>6, <1>7, Zenon

\* So is the answer to a motor command,
LEMMA ShortMotorResponse == \A result \in {0, 1} : Short(MotorResponse(result))
<1> SUFFICES ASSUME NEW result \in {0, 1} PROVE Short(MotorResponse(result))
  OBVIOUS
<1>1. /\ 170 \in Byte /\ 16 \in Byte /\ 2 \in Byte /\ 0 \in Byte /\ 8 \in Byte /\ 26 \in Byte
      /\ 39 \in Byte /\ result \in Byte
  BY DEF Byte
<1>2. MotorResponse(result) \in Bytes /\ Size(MotorResponse(result)) = 16
  BY <1>1 DEF MotorResponse, Bytes, Size
<1>3. 16 \in Nat /\ 16 <= 200
  OBVIOUS
<1>4. QED
  BY <1>2, <1>3, Zenon DEF Short

\* and the motor command.
LEMMA ShortMotorFrame == Short(BuildMotorFrame("open"))
<1> DEFINE payload == <<26, 39, 1, 0, 0, ActionValue["open"]>>
           head == <<170, 16, 2, 0>>
           first == head \o Little(Len(payload) + 2, 2)
           second == first \o Little(0, 2)
           frame == second \o payload
           sum == Checksum(SubSeq(frame, 3, Len(frame)))
           end == <<sum, 0>>
<1>1. /\ 170 \in Byte /\ 16 \in Byte /\ 2 \in Byte /\ 0 \in Byte /\ 1 \in Byte /\ 26 \in Byte
      /\ 39 \in Byte /\ ActionValue["open"] \in Byte
  BY DEF Byte, ActionValue
<1>2. head \in Bytes /\ Size(head) = 4 /\ payload \in Bytes /\ Size(payload) = 6
  BY <1>1 DEF Bytes, Size
<1>3. BuildMotorFrame("open") = frame \o end
  BY Zenon DEF BuildMotorFrame
<1>4. Little(Len(payload) + 2, 2) \in Bytes /\ Size(Little(Len(payload) + 2, 2)) = 2
  <2>1. Len(payload) + 2 \in Nat
    BY <1>2 DEF Size
  <2>2. QED
    BY <2>1, LittleBytes
<1>5. Little(0, 2) \in Bytes /\ Size(Little(0, 2)) = 2
  BY LittleBytes
<1> HIDE DEF payload, head
<1>6. first \in Bytes /\ Size(first) = 4 + 2
  <2>1. Join(head, Little(Len(payload) + 2, 2)) \in Bytes
        /\ Size(Join(head, Little(Len(payload) + 2, 2))) = 4 + 2
    BY <1>2, <1>4, Joined
  <2>2. QED
    BY <2>1, Zenon DEF Join
<1> HIDE DEF first
<1>7. second \in Bytes /\ Size(second) = 4 + 2 + 2
  <2>1. Join(first, Little(0, 2)) \in Bytes /\ Size(Join(first, Little(0, 2))) = 4 + 2 + 2
    BY <1>5, <1>6, Joined
  <2>2. QED
    BY <2>1, Zenon DEF Join
<1> HIDE DEF second
<1>8. frame \in Bytes /\ Size(frame) = 4 + 2 + 2 + 6
  <2>1. Join(second, payload) \in Bytes /\ Size(Join(second, payload)) = 4 + 2 + 2 + 6
    BY <1>2, <1>7, Joined
  <2>2. QED
    BY <2>1, Zenon DEF Join
<1> HIDE DEF frame
<1>9. sum \in Byte
  <2>1. Size(frame) = 14
    BY <1>8
  <2>2. Part(frame, 3, 14) \in Bytes
    BY <1>8, <2>1, PartOf
  <2>3. sum = Checksum(Part(frame, 3, 14))
    BY <2>1, Zenon DEF Part, Size
  <2> HIDE DEF sum
  <2>4. QED
    BY <2>2, <2>3, ChecksumByte
<1> HIDE DEF sum
<1>10. end \in Bytes /\ Size(end) = 2
  BY <1>1, <1>9 DEF Bytes, Size
<1> HIDE DEF end
<1>11. Join(frame, end) \in Bytes /\ Size(Join(frame, end)) = 4 + 2 + 2 + 6 + 2
  BY <1>8, <1>10, Joined
<1>12. Size(Join(frame, end)) = 16 /\ 16 \in Nat /\ 16 <= 200
  BY <1>11
<1>13. QED
  BY <1>3, <1>11, <1>12, Zenon DEF Join, Short

------------------------------------------------------------------------------
(* What the gate says                                                       *)

\* A gate keeps its key and what it has taken.
Follows(h, g) ==
    /\ h \in GateStates
    /\ g.key # NoKey => h.key = g.key
    /\ g.taken => h.taken

\* The commands' numbers.
LEMMA Commands ==
    /\ Command \subseteq Word /\ 4097 \in Word /\ CMD_COMMON_REPLY \in Word
    /\ CMD_LOCAL_AUTH_PUBKEY = 8199 /\ CMD_LOCAL_AUTH_CHECK = 8200
    /\ CMD_SEND_TRANSPORT = 1282 /\ CMD_COMMON_REPLY = 257
BY DEF Command, Word, CMD_LOCAL_AUTH_PUBKEY, CMD_LOCAL_AUTH_CHECK, CMD_SEND_TRANSPORT,
       CMD_COMMON_REPLY

\* All that the gate may say fits in a frame.
LEMMA SaidIsShort ==
    ASSUME NEW c, NEW p, NEW k, NEW v, NEW g, Said(c, p, k, v, g)
    PROVE  c \in Word /\ Short(p)
<1>1. \A d \in Command \cup {4097} : d \in Word
  BY Commands
<1>2. \A result \in {0, 1} : result \in Byte
  BY SessionBytes
<1>3. CASE c = CMD_LOCAL_AUTH_PUBKEY /\ p = KeyAnswer(v)
  <2>1. Short(KeyAnswer(v))
    BY ShortPayloads
  <2>2. QED
    BY <1>3, <2>1, Commands DEF Command
<1>4. CASE c = CMD_LOCAL_AUTH_CHECK /\ (p = MakeTlv(2, << 0 >>, v) \/ p = MakeTlv(2, << 1 >>, v))
  <2>1. Short(MakeTlv(2, << 0 >>, v)) /\ Short(MakeTlv(2, << 1 >>, v))
    BY SessionBytes, ShortPayloads
  <2>2. QED
    BY <1>4, <2>1, Commands DEF Command
<1>5. CASE c = CMD_SEND_TRANSPORT /\ (p = MotorResponse(0) \/ p = MotorResponse(1))
  <2>1. Short(MotorResponse(0)) /\ Short(MotorResponse(1))
    BY ShortMotorResponse
  <2>2. QED
    BY <1>5, <2>1, Commands DEF Command
<1>6. CASE /\ c = CMD_COMMON_REPLY
           /\ \E d \in Command \cup {4097}, result \in {0, 1} : p = CommonPayload(d, result, v)
  <2>1. PICK d \in Command \cup {4097}, result \in {0, 1} : p = CommonPayload(d, result, v)
    BY <1>6
  <2>2. Short(CommonPayload(d, result, v))
    BY <1>1, <1>2, ShortPayloads
  <2>3. QED
    BY <1>6, <2>1, <2>2, Commands
<1>7. CASE c \in Command /\ p = MakeTlv(3, << 1 >>, v)
  <2>1. Short(MakeTlv(3, << 1 >>, v))
    BY SessionBytes, ShortPayloads
  <2>2. QED
    BY <1>1, <1>7, <2>1
<1>8. CASE c = 4097 /\ p = <<>>
  BY <1>1, <1>8, ShortPayloads
<1>9. QED
  BY <1>3, <1>4, <1>5, <1>6, <1>7, <1>8 DEF Said

\* A frame of a session is read as what it was made of, not without the key it was made with, and not
\* at all once a byte of it has changed.
LEMMA FrameOf ==
    ASSUME NEW c \in Word, NEW p, Short(p), NEW s \in Nat, NEW v, NEW k \in Int
    PROVE  LET f == BuildFrame(c, p, s, v, k)
               read == [command |-> c, payload |-> p]
           IN  /\ f \in Bytes /\ f # <<>>
               /\ ParseFrame(f, v, k) = read /\ read # Unreadable
               /\ k = NoKey => \A other : ParseFrame(f, v, other) = read
               /\ k # NoKey => ParseFrame(f, v, NoKey) = Unreadable
               /\ \A i \in DOMAIN f : \A byte \in Byte \ {f[i]} : \A other :
                     ParseFrame([f EXCEPT ![i] = byte], v, other) = Unreadable
<1> DEFINE f == BuildFrame(c, p, s, v, k)
           read == [command |-> c, payload |-> p]
<1>1. p \in Bytes /\ Size(p) <= 200 /\ c \in Nat
  BY DEF Short, Word
<1>2. Len(p) <= 200
  BY <1>1 DEF Size
<1>3. /\ ParseFrame(f, v, k) = read
      /\ k = NoKey => \A other : ParseFrame(f, v, other) = read
      /\ k # NoKey => ParseFrame(f, v, NoKey) = Unreadable
  BY <1>1, <1>2, FrameRoundTrip
<1>4. \A i \in DOMAIN f : \A byte \in Byte \ {f[i]} : \A other :
         ParseFrame([f EXCEPT ![i] = byte], v, other) = Unreadable
  BY <1>1, <1>2, ChangedFrameUnreadable
<1>5. PICK n \in Nat : Framed(f, LengthWidth(v), Body(c, p, s, k), n)
  BY <1>1, BuildsFrames
<1> HIDE DEF f
<1>6. f \in Bytes /\ Size(f) = 3 + LengthWidth(v) + n
  BY <1>5, Zenon DEF Framed
<1>7. f # <<>>
  <2>1. 3 + LengthWidth(v) + n # 0
    BY TwoWidths
  <2>2. QED
    BY <1>6, <2>1, NoByte
<1>8. read # Unreadable
  BY <1>1 DEF Unreadable
<1>9. QED
  BY <1>3, <1>4, <1>6, <1>7, <1>8, Zenon DEF f

\* What the gate may say is among what may be in flight.
LEMMA SaidFlies ==
    ASSUME NEW v, NEW g \in GateStates, NEW c, NEW p, NEW k \in {NoKey, g.key},
           Said(c, p, k, v, g)
    PROVE  Sends(c, p, v, k) \in Flying(v, g)
<1>1. c \in Word /\ Short(p)
  BY SaidIsShort
<1>2. k \in Int
  BY SessionBytes DEF GateStates
<1>3. p \in Bytes /\ Len(p) <= 200
  BY <1>1 DEF Short, Size
<1>4. Sends(c, p, v, k) \in Bytes
  BY <1>1, <1>2, FrameOf DEF Sends
<1>5. QED
  BY <1>1, <1>3, <1>4 DEF Flying

\* A frame in flight, and what it says.
LEMMA InFlightIs ==
    ASSUME NEW v, NEW g \in GateStates, NEW f \in Flying(v, g), f # << 0 >>
    PROVE  \E c \in Word, p \in Bytes, k \in {NoKey, g.key} :
             /\ Short(p) /\ Said(c, p, k, v, g) /\ f = BuildFrame(c, p, 0, v, k) /\ k \in Int
<1>1. PICK c \in Word, p \in Bytes, k \in {NoKey, g.key} :
         Len(p) <= 200 /\ Said(c, p, k, v, g) /\ f = Sends(c, p, v, k)
  BY DEF Flying
<1>2. Short(p)
  BY <1>1, SaidIsShort
<1>3. k \in Int
  BY SessionBytes DEF GateStates
<1>4. QED
  BY <1>1, <1>2, <1>3 DEF Sends

\* What may be in flight once may be so for good.
LEMMA FlyingGrows ==
    ASSUME NEW v, NEW g \in GateStates, NEW h, Follows(h, g)
    PROVE  Flying(v, g) \subseteq Flying(v, h)
<1> SUFFICES ASSUME NEW f \in Flying(v, g), f # << 0 >> PROVE f \in Flying(v, h)
  BY DEF Flying
<1>1. PICK c \in Word, p \in Bytes, k \in {NoKey, g.key} :
         Short(p) /\ Said(c, p, k, v, g) /\ f = BuildFrame(c, p, 0, v, k)
  BY InFlightIs
<1>2. k \in {NoKey, h.key} /\ h \in GateStates
  BY DEF Follows
<1>3. g.key = Common => h.key = Common
  BY SessionBytes DEF Follows
<1>4. Said(c, p, k, v, h)
  BY <1>1, <1>3 DEF Said, Follows
<1>5. QED
  BY <1>1, <1>2, <1>4, SaidFlies DEF Sends

\* The proof of the common key, in a request.
Proof(v) == MakeTlv(1, Encrypt(MasterKey(GatePublic), <<Common>>), v)

\* What the gate does with a request: it says something of the kind above, keeps its key and
\* what it has taken, gets a key only by the right proof and takes a value only if asked to.
Reacts(r, c, p, v) ==
    /\ Follows(r.gate, gate)
    /\ r.frame = NoFrame \/ r.frame \in Flying(v, r.gate)
    /\ r.gate.key # gate.key => c = CMD_LOCAL_AUTH_CHECK /\ p = Proof(v)
    /\ r.gate.taken # gate.taken => c = CMD_SEND_TRANSPORT

\* The gate's compliance with a request.
Obeys(r, c, p, v) ==
    \/ /\ c = CMD_LOCAL_AUTH_PUBKEY /\ r.gate = gate
       /\ r.frame = Sends(CMD_LOCAL_AUTH_PUBKEY, KeyAnswer(v), v, NoKey)
    \/ /\ c = CMD_LOCAL_AUTH_CHECK /\ p = Proof(v) /\ r.gate = [gate EXCEPT !.key = Common]
       /\ r.frame = Sends(CMD_LOCAL_AUTH_CHECK, MakeTlv(2, << 0 >>, v), v, NoKey)
    \/ /\ c = CMD_LOCAL_AUTH_CHECK /\ r.gate = gate /\ ~r.good
       /\ r.frame = Sends(CMD_LOCAL_AUTH_CHECK, MakeTlv(2, << 1 >>, v), v, NoKey)
    \/ /\ c = CMD_SEND_TRANSPORT /\ r.gate = Taken
       /\ r.frame = Sends(CMD_SEND_TRANSPORT, MotorResponse(0), v, gate.key)

\* What the gate does if it complies with a request, case by case.
LEMMA CompliesIs ==
    ASSUME NEW request, NEW v, NEW r \in Complies(request, v), NEW c, request.command = c,
           NEW p, request.payload = p
    PROVE  Obeys(r, c, p, v)
<1> DEFINE right == p = Proof(v)
           gates == IF right THEN [gate EXCEPT !.key = Common] ELSE gate
           first == Sends(CMD_LOCAL_AUTH_PUBKEY, KeyAnswer(v), v, NoKey)
           judged == Sends(CMD_LOCAL_AUTH_CHECK, MakeTlv(2, <<IF right THEN 0 ELSE 1>>, v), v, NoKey)
           agreed == Sends(CMD_SEND_TRANSPORT, MotorResponse(0), v, gate.key)
           asked == p = BuildMotorFrame("open")
<1>1. Complies(request, v) =
        CASE request.command = CMD_LOCAL_AUTH_PUBKEY -> {Reaction(gate, first, TRUE)}
          [] request.command = CMD_LOCAL_AUTH_CHECK -> {Reaction(gates, judged, right)}
          [] request.command = CMD_SEND_TRANSPORT /\ asked -> {Reaction(Taken, agreed, TRUE)}
          [] OTHER -> {}
  BY Zenon DEF Complies, KeyAnswer, Proof, Common
<1> HIDE DEF first, judged, agreed, gates, asked
<1>2. CASE c = CMD_LOCAL_AUTH_PUBKEY
  <2>1. r.gate = gate /\ r.frame = first
    BY <1>1, <1>2, Commands DEF Reaction
  <2>2. QED
    BY <1>2, <2>1, Zenon DEF Obeys, first
<1>3. CASE c = CMD_LOCAL_AUTH_CHECK
  <2>1. r.gate = gates /\ r.frame = judged /\ r.good = right
    BY <1>1, <1>3, Commands DEF Reaction
  <2>2. CASE right
    <3>1. gates = [gate EXCEPT !.key = Common]
      BY <2>2 DEF gates
    <3>2. judged = Sends(CMD_LOCAL_AUTH_CHECK, MakeTlv(2, << 0 >>, v), v, NoKey)
      BY <2>2 DEF judged
    <3>3. QED
      BY <1>3, <2>1, <2>2, <3>1, <3>2 DEF Obeys
  <2>3. CASE ~right
    <3>1. gates = gate
      BY <2>3 DEF gates
    <3>2. judged = Sends(CMD_LOCAL_AUTH_CHECK, MakeTlv(2, << 1 >>, v), v, NoKey)
      BY <2>3 DEF judged
    <3>3. QED
      BY <1>3, <2>1, <2>3, <3>1, <3>2 DEF Obeys
  <2>4. QED
    BY <2>2, <2>3
<1>4. CASE c = CMD_SEND_TRANSPORT
  <2>1. r.gate = Taken /\ r.frame = agreed
    BY <1>1, <1>4, Commands DEF Reaction
  <2>2. QED
    BY <1>4, <2>1, Zenon DEF Obeys, agreed
<1>5. CASE c \notin Command
  BY <1>1, <1>5 DEF Command
<1>6. QED
  BY <1>2, <1>3, <1>4, <1>5 DEF Command

\* A gate that complies only says what it may say, and keeps its key.
LEMMA ComplianceReacts ==
    ASSUME gate \in GateStates, NEW c, NEW p, NEW v, NEW r, Obeys(r, c, p, v)
    PROVE  Reacts(r, c, p, v)
<1>1. /\ Follows(gate, gate) /\ Follows(Taken, gate) /\ Taken.taken /\ Taken.key = gate.key
      /\ Follows([gate EXCEPT !.key = Common], gate)
      /\ [gate EXCEPT !.key = Common].key = Common
      /\ [gate EXCEPT !.key = Common].taken = gate.taken
  BY SessionBytes DEF Taken, Follows, GateStates
<1>2. CASE /\ c = CMD_LOCAL_AUTH_PUBKEY /\ r.gate = gate
           /\ r.frame = Sends(CMD_LOCAL_AUTH_PUBKEY, KeyAnswer(v), v, NoKey)
  <2>1. Said(CMD_LOCAL_AUTH_PUBKEY, KeyAnswer(v), NoKey, v, gate)
    BY DEF Said
  <2>2. r.frame \in Flying(v, r.gate)
    BY <1>2, <2>1, SaidFlies
  <2>3. QED
    BY <1>1, <1>2, <2>2 DEF Reacts
<1>3. CASE /\ c = CMD_LOCAL_AUTH_CHECK /\ p = Proof(v) /\ r.gate = [gate EXCEPT !.key = Common]
           /\ r.frame = Sends(CMD_LOCAL_AUTH_CHECK, MakeTlv(2, << 0 >>, v), v, NoKey)
  <2>1. r.gate \in GateStates /\ r.gate.key = Common
    BY <1>1, <1>3 DEF Follows
  <2>2. Said(CMD_LOCAL_AUTH_CHECK, MakeTlv(2, << 0 >>, v), NoKey, v, r.gate)
    BY <2>1 DEF Said
  <2>3. r.frame \in Flying(v, r.gate)
    BY <1>3, <2>1, <2>2, SaidFlies
  <2>4. QED
    BY <1>1, <1>3, <2>3 DEF Reacts
<1>4. CASE /\ c = CMD_LOCAL_AUTH_CHECK /\ r.gate = gate
           /\ r.frame = Sends(CMD_LOCAL_AUTH_CHECK, MakeTlv(2, << 1 >>, v), v, NoKey)
  <2>1. Said(CMD_LOCAL_AUTH_CHECK, MakeTlv(2, << 1 >>, v), NoKey, v, gate)
    BY DEF Said
  <2>2. r.frame \in Flying(v, r.gate)
    BY <1>4, <2>1, SaidFlies
  <2>3. QED
    BY <1>1, <1>4, <2>2 DEF Reacts
<1>5. CASE /\ c = CMD_SEND_TRANSPORT /\ r.gate = Taken
           /\ r.frame = Sends(CMD_SEND_TRANSPORT, MotorResponse(0), v, gate.key)
  <2>1. r.gate \in GateStates /\ r.gate.taken /\ r.gate.key = gate.key
    BY <1>1, <1>5 DEF Follows
  <2>2. Said(CMD_SEND_TRANSPORT, MotorResponse(0), gate.key, v, r.gate)
    BY <2>1 DEF Said
  <2>3. r.frame \in Flying(v, r.gate)
    BY <1>5, <2>1, <2>2, SaidFlies
  <2>4. QED
    BY <1>1, <1>5, <2>3 DEF Reacts
<1>6. QED
  BY <1>2, <1>3, <1>4, <1>5 DEF Obeys

\* So does one that refuses.
LEMMA RefusalReacts ==
    ASSUME gate \in GateStates, NEW c \in Command, NEW p, NEW v,
           NEW r \in Refuses([command |-> c, payload |-> p], v)
    PROVE  Reacts(r, c, p, v)
<1> DEFINE common == CommonReply(c, 1, v)
           error == Sends(c, MakeTlv(3, << 1 >>, v), v, NoKey)
           refusal == Sends(CMD_SEND_TRANSPORT, MotorResponse(1), v, gate.key)
<1>1. \/ \E frame \in {NoFrame, common, error} : r = Reaction(gate, frame, FALSE)
      \/ c = CMD_SEND_TRANSPORT /\ r = Reaction(Taken, NoFrame, FALSE)
      \/ r = Reaction(gate, refusal, FALSE)
  BY DEF Refuses
<1>2. common \in Flying(v, gate)
  <2>1. common = Sends(CMD_COMMON_REPLY, CommonPayload(c, 1, v), v, NoKey)
    BY DEF CommonReply, CommonPayload
  <2>2. Said(CMD_COMMON_REPLY, CommonPayload(c, 1, v), NoKey, v, gate)
    BY DEF Said
  <2>3. QED
    BY <2>1, <2>2, SaidFlies
<1>3. error \in Flying(v, gate)
  <2>1. Said(c, MakeTlv(3, << 1 >>, v), NoKey, v, gate)
    BY DEF Said
  <2>2. QED
    BY <2>1, SaidFlies
<1>4. refusal \in Flying(v, gate)
  <2>1. Said(CMD_SEND_TRANSPORT, MotorResponse(1), gate.key, v, gate)
    BY DEF Said
  <2>2. QED
    BY <2>1, SaidFlies
<1>5. Follows(gate, gate) /\ Follows(Taken, gate) /\ Taken.key = gate.key
  BY DEF Taken, Follows, GateStates
<1> HIDE DEF common, error, refusal
<1>6. CASE \E frame \in {NoFrame, common, error} : r = Reaction(gate, frame, FALSE)
  BY <1>2, <1>3, <1>5, <1>6 DEF Reacts, Reaction
<1>7. CASE c = CMD_SEND_TRANSPORT /\ r = Reaction(Taken, NoFrame, FALSE)
  BY <1>5, <1>7 DEF Reacts, Reaction
<1>8. CASE r = Reaction(gate, refusal, FALSE)
  BY <1>4, <1>5, <1>8 DEF Reacts, Reaction
<1>9. QED
  BY <1>1, <1>6, <1>7, <1>8

\* A request that is written in clear, or under the gate's key, is read.
LEMMA RequestIsRead ==
    ASSUME gate \in GateStates, NEW c \in Command, NEW p, Short(p), NEW s \in Nat, NEW v,
           NEW k \in {NoKey, gate.key},
           NEW r \in Reactions(BuildFrame(c, p, s, v, k), v)
    PROVE  r \in Complies([command |-> c, payload |-> p], v) \cup Refuses([command |-> c, payload |-> p], v)
<1> DEFINE request == [command |-> c, payload |-> p]
           raw == BuildFrame(c, p, s, v, k)
<1>1. c \in Word /\ k \in Int
  BY Commands, SessionBytes DEF GateStates
<1>2. ParseFrame(raw, v, gate.key) = request /\ request # Unreadable
  BY <1>1, FrameOf
<1> HIDE DEF request, raw
<1>3. Reactions(raw, v) = Complies(request, v) \cup Refuses(request, v)
  BY <1>2, Zenon DEF Reactions
<1>4. QED
  BY <1>3 DEF request, raw

\* Whatever the gate makes of a request's frame, it only says what it may say, and a good reaction is
\* what the request asked for.
LEMMA RequestReacts ==
    ASSUME gate \in GateStates, NEW c \in Command, NEW p, Short(p), NEW s \in Nat, NEW v,
           NEW k \in {NoKey, gate.key},
           NEW r \in Reactions(BuildFrame(c, p, s, v, k), v)
    PROVE  Reacts(r, c, p, v) /\ (r.good => Obeys(r, c, p, v))
<1> DEFINE request == [command |-> c, payload |-> p]
<1>1. r \in Complies(request, v) \cup Refuses(request, v)
  BY RequestIsRead
<1>2. CASE r \in Complies(request, v)
  <2>1. request.command = c /\ request.payload = p
    OBVIOUS
  <2> HIDE DEF request
  <2>2. Obeys(r, c, p, v)
    BY <1>2, <2>1, CompliesIs, Zenon
  <2>3. QED
    BY <2>2, ComplianceReacts
<1>3. CASE r \in Refuses(request, v)
  <2>1. ~r.good
    BY <1>3 DEF Refuses, Reaction
  <2>2. QED
    BY <1>3, <2>1, RefusalReacts
<1>4. QED
  BY <1>1, <1>2, <1>3

------------------------------------------------------------------------------
(* What the app reads in what the gate says                                 *)

\* A field that is added is there, and changes no other; fields are not those of a payload
\* that is cut off.
LEMMA FieldWith ==
    ASSUME NEW fields, NEW kind \in Byte, NEW value
    PROVE  /\ \A x : Field(WithField(fields, kind, value), x) =
                       IF x = kind /\ kind \notin DOMAIN fields THEN value ELSE Field(fields, x)
           /\ WithField(fields, kind, value) # Truncated
           /\ DOMAIN WithField(fields, kind, value) = DOMAIN fields \cup {kind}
<1> DEFINE more == WithField(fields, kind, value)
<1>1. /\ DOMAIN more = DOMAIN fields \cup {kind}
      /\ \A k \in DOMAIN more : more[k] = IF k \in DOMAIN fields THEN fields[k] ELSE value
  BY DEF WithField
<1> HIDE DEF more
<1>2. \A x : Field(more, x) = IF x = kind /\ kind \notin DOMAIN fields THEN value ELSE Field(fields, x)
  BY <1>1 DEF Field
<1>3. more # Truncated
  <2>1. kind \in DOMAIN more /\ kind # -1 /\ DOMAIN Truncated = {-1}
    BY <1>1 DEF Truncated, Byte
  <2>2. QED
    BY <2>1
<1>4. QED
  BY <1>1, <1>2, <1>3 DEF more

\* There is no field in no bytes.
LEMMA NothingParsed ==
    ASSUME NEW v
    PROVE  /\ ParseTlvs(<<>>, v) = NoFields /\ DOMAIN NoFields = {} /\ NoFields # Truncated
           /\ \A x : Field(NoFields, x) = <<>>
<1>1. DOMAIN NoFields = {} /\ DOMAIN Truncated = {-1}
  BY DEF NoFields, Truncated
<1>2. \A x : Field(NoFields, x) = <<>>
  BY <1>1 DEF Field
<1>3. ParseTlvs(<<>>, v) = NoFields
  <2>1. PICK g : Reads(<<>>, TlvWidth(v), g) /\ ParseTlvs(<<>>, v) = g[0]
    BY NoByte, ParseTlvsIs
  <2>2. Size(<<>>) = 0 /\ 0 \in 0..0
    BY NoByte
  <2>3. g[0] = FieldsFrom(<<>>, TlvWidth(v), g, 0)
    BY <2>1, <2>2 DEF Reads
  <2>4. QED
    BY <2>1, <2>2, <2>3, Zenon DEF FieldsFrom
<1>4. QED
  BY <1>1, <1>2, <1>3

\* A payload of one field.
LEMMA OneField ==
    ASSUME NEW kind \in Byte, NEW value \in Bytes, value # <<>>, Len(value) < 256, NEW v
    PROVE  LET fields == ParseTlvs(MakeTlv(kind, value, v), v)
           IN  /\ fields # Truncated
               /\ DOMAIN fields = {kind}
               /\ \A x : Field(fields, x) = IF x = kind THEN value ELSE <<>>
<1> DEFINE tlv == MakeTlv(kind, value, v)
           fields == ParseTlvs(tlv, v)
<1>1. tlv \in Bytes
  <2>1. PICK l \in Nat : Size(value) = l
    BY Sized
  <2>2. l < 256
    BY <2>1 DEF Size
  <2>3. QED
    BY <2>1, <2>2, TlvShape
<1>2. tlv \o <<>> = tlv
  BY <1>1, ConcatEmptySeq DEF Bytes
<1>3. <<>> \in Bytes
  BY NoByte
<1> DEFINE others == ParseTlvs(<<>>, v)
<1>4. ParseTlvs(tlv \o <<>>, v) =
         IF others = Truncated \/ value = <<>> THEN others ELSE WithField(others, kind, value)
  BY <1>3, TlvRoundTrip
<1>5. fields = WithField(NoFields, kind, value)
  BY <1>2, <1>4, NothingParsed, Zenon
<1>6. /\ WithField(NoFields, kind, value) # Truncated
      /\ DOMAIN WithField(NoFields, kind, value) = {kind}
      /\ \A x : Field(WithField(NoFields, kind, value), x) = IF x = kind THEN value ELSE <<>>
  <2>1. /\ WithField(NoFields, kind, value) # Truncated
        /\ DOMAIN WithField(NoFields, kind, value) = DOMAIN NoFields \cup {kind}
        /\ \A x : Field(WithField(NoFields, kind, value), x) =
              IF x = kind /\ kind \notin DOMAIN NoFields THEN value ELSE Field(NoFields, x)
    BY FieldWith, Zenon
  <2>2. QED
    BY <2>1, NothingParsed
<1> HIDE DEF fields
<1>7. QED
  BY <1>5, <1>6, Zenon DEF fields

\* Fields with one more in front.
InFront(fields, others, kind, value) ==
    /\ fields # Truncated
    /\ DOMAIN fields = IF value = <<>> THEN DOMAIN others ELSE DOMAIN others \cup {kind}
    /\ \A x : Field(fields, x) =
            IF x = kind /\ value # <<>> /\ kind \notin DOMAIN others THEN value ELSE Field(others, x)

\* The field in front of a payload is read beside those of the rest, which decide if they are of its kind.
LEMMA FirstField ==
    ASSUME NEW kind \in Byte, NEW value \in Bytes, Len(value) < 256, NEW rest \in Bytes, NEW v,
           ParseTlvs(rest, v) # Truncated
    PROVE  InFront(ParseTlvs(MakeTlv(kind, value, v) \o rest, v), ParseTlvs(rest, v), kind, value)
<1> DEFINE fields == ParseTlvs(MakeTlv(kind, value, v) \o rest, v)
           others == ParseTlvs(rest, v)
           more == WithField(others, kind, value)
<1>1. fields = IF others = Truncated \/ value = <<>> THEN others ELSE more
  BY TlvRoundTrip
<1>2. /\ more # Truncated
      /\ DOMAIN more = DOMAIN others \cup {kind}
      /\ \A x : Field(more, x) =
            IF x = kind /\ kind \notin DOMAIN others THEN value ELSE Field(others, x)
  BY FieldWith, Zenon
<1> HIDE DEF fields, more
<1>3. others # Truncated
  OBVIOUS
<1> HIDE DEF others
<1>4. InFront(fields, others, kind, value)
  <2>1. CASE value = <<>>
    BY <1>1, <1>3, <2>1 DEF InFront
  <2>2. CASE value # <<>>
    BY <1>1, <1>2, <1>3, <2>2 DEF InFront
  <2>3. QED
    BY <2>1, <2>2
<1>5. QED
  BY <1>4, Zenon DEF fields, others

\* The numbers that the app reads back.
LEMMA NumbersRead ==
    /\ \A x \in Byte : \A other : LittleInt(<<x>>, other) = x
    /\ \A c \in Word : \A other : LittleInt(Little(c, 2), other) = c
    /\ \A other : LittleInt(<<>>, other) = other
    /\ \A c \in Word : Little(c, 2) \in Bytes /\ Size(Little(c, 2)) = 2 /\ Little(c, 2) # <<>>
<1>1. ASSUME NEW c \in Word
      PROVE  /\ FromLittle(Little(c, 2)) = c
             /\ Little(c, 2) \in Bytes /\ Size(Little(c, 2)) = 2 /\ Little(c, 2) # <<>>
  <2>1. c \in Nat /\ c < 65536
    BY DEF Word
  <2>2. FromLittle(Little(c, 2)) = c /\ Little(c, 2) \in Bytes /\ Size(Little(c, 2)) = 2
    BY <2>1, LittleBytes
  <2>3. Little(c, 2) # <<>>
    BY <2>2, NoByte
  <2>4. QED
    BY <2>2, <2>3
<1>2. ASSUME NEW x \in Byte PROVE FromLittle(<<x>>) = x /\ <<x>> # <<>>
  <2>1. <<x>> # <<>>
    BY OneByte, NoByte
  <2>2. FromLittle(<<x>>) = x
    BY SessionBytes, FromLittleOf
  <2>3. QED
    BY <2>1, <2>2
<1>3. QED
  BY <1>1, <1>2 DEF LittleInt

\* A common reply names its command and its result.
LEMMA CommonRead ==
    ASSUME NEW c \in Word, NEW x \in Byte, NEW v
    PROVE  LET fields == ParseTlvs(CommonPayload(c, x, v), v)
           IN  /\ fields # Truncated
               /\ LittleInt(Field(fields, 2), -1) = c
               /\ LittleInt(Field(fields, 3), -1) = x
<1> DEFINE rest == MakeTlv(3, <<x>>, v)
           others == ParseTlvs(rest, v)
           fields == ParseTlvs(CommonPayload(c, x, v), v)
<1>0. 2 \in Byte /\ 3 \in Byte
  BY SessionBytes
<1>1. <<x>> \in Bytes /\ Len(<<x>>) < 256 /\ <<x>> # <<>>
  BY OneByte DEF Size
<1>2. rest \in Bytes
  BY SessionBytes, ShortPayloads DEF Short
<1>3. /\ others # Truncated
      /\ DOMAIN others = {3}
      /\ \A k : Field(others, k) = IF k = 3 THEN <<x>> ELSE <<>>
  BY <1>0, <1>1, OneField
<1>4. Little(c, 2) \in Bytes /\ Len(Little(c, 2)) < 256 /\ Little(c, 2) # <<>>
  <2>1. Little(c, 2) \in Bytes /\ Size(Little(c, 2)) = 2 /\ Little(c, 2) # <<>>
    BY NumbersRead
  <2>2. Size(Little(c, 2)) < 256
    BY <2>1
  <2>3. QED
    BY <2>1, <2>2, Zenon DEF Size
<1> HIDE DEF rest
<1>5. InFront(fields, others, 2, Little(c, 2))
  BY <1>0, <1>2, <1>3, <1>4, FirstField DEF CommonPayload, rest
<1> HIDE DEF others, fields
<1>6. Field(fields, 2) = Little(c, 2) /\ Field(fields, 3) = <<x>>
  BY <1>3, <1>4, <1>5 DEF InFront
<1>7. QED
  BY <1>5, <1>6, NumbersRead DEF fields, InFront

\* The app reads the gate's key and what it makes up.
LEMMA KeyRead ==
    ASSUME NEW v
    PROVE  LET fields == ParseTlvs(KeyAnswer(v), v)
           IN  /\ fields # Truncated
               /\ Field(fields, 1) = GatePublic
               /\ Field(fields, 2) = Encrypt(MasterKey(GatePublic), Random)
               /\ Field(fields, 3) = << 0 >>
               /\ Field(fields, 4) = <<>>
<1> DEFINE cipher == Encrypt(MasterKey(GatePublic), Random)
           a == MakeTlv(3, << 0 >>, v)
           b == MakeTlv(1, GatePublic, v)
           c == MakeTlv(4, <<>>, v)
           d == MakeTlv(2, cipher, v)
           cd == c \o d
           bcd == b \o cd
           fields == ParseTlvs(KeyAnswer(v), v)
<1>1. 1 \in Byte /\ 2 \in Byte /\ 3 \in Byte /\ 4 \in Byte
  BY SessionBytes
<1>2. /\ << 0 >> \in Bytes /\ Len(<< 0 >>) < 256 /\ << 0 >> # <<>>
      /\ GatePublic \in Bytes /\ Len(GatePublic) < 256 /\ GatePublic # <<>>
      /\ <<>> \in Bytes /\ Len(<<>>) < 256
  <2>1. /\ << 0 >> \in Bytes /\ Size(<< 0 >>) = 1 /\ GatePublic \in Bytes /\ Size(GatePublic) = 1
        /\ <<>> \in Bytes /\ Size(<<>>) = 0
    BY SessionBytes, OneByte, NoByte
  <2>2. /\ Size(<< 0 >>) < 256 /\ Size(GatePublic) < 256 /\ Size(<<>>) < 256
        /\ << 0 >> # <<>> /\ GatePublic # <<>>
    BY <2>1
  <2>3. QED
    BY <2>1, <2>2, Zenon DEF Size
<1>3. cipher \in Bytes /\ Len(cipher) < 256 /\ cipher # <<>>
  <2>1. PICK n \in Nat : cipher \in Bytes /\ Size(cipher) = n /\ n <= 5 /\ 1 <= n
    BY SessionBytes, ShortCipher
  <2>2. Size(cipher) < 256 /\ Size(cipher) # 0
    BY <2>1
  <2>3. QED
    BY <2>1, <2>2, NoByte, Zenon DEF Size
<1> HIDE DEF cipher
<1>4. ASSUME NEW kind \in Byte, NEW value \in Bytes, Len(value) < 256
      PROVE  MakeTlv(kind, value, v) \in Bytes
  <2>1. PICK l \in Nat : Size(value) = l
    BY Sized
  <2>2. l < 256
    BY <1>4, <2>1 DEF Size
  <2>3. QED
    BY <2>1, <2>2, TlvShape
<1>5. a \in Bytes /\ b \in Bytes /\ c \in Bytes /\ d \in Bytes
  BY <1>1, <1>2, <1>3, <1>4
<1>6. /\ ParseTlvs(d, v) # Truncated
      /\ DOMAIN ParseTlvs(d, v) = {2}
      /\ \A k : Field(ParseTlvs(d, v), k) = IF k = 2 THEN cipher ELSE <<>>
  BY <1>1, <1>3, OneField
<1> HIDE DEF a, b, c, d
<1>7. cd \in Bytes
  BY <1>5, ConcatProperties DEF Bytes
<1>8. bcd \in Bytes
  BY <1>5, <1>7, ConcatProperties DEF Bytes
<1>9. KeyAnswer(v) = a \o bcd
  <2>1. KeyAnswer(v) = ((a \o b) \o c) \o d
    BY DEF KeyAnswer, a, b, c, d, cipher
  <2>2. a \o b \in Bytes
    BY <1>5, ConcatProperties DEF Bytes
  <2>3. ((a \o b) \o c) \o d = (a \o b) \o cd
    BY <1>5, <2>2, ConcatAssociative DEF Bytes
  <2>4. (a \o b) \o cd = a \o bcd
    BY <1>5, <1>7, ConcatAssociative DEF Bytes
  <2>5. QED
    BY <2>1, <2>3, <2>4
<1>10. InFront(ParseTlvs(cd, v), ParseTlvs(d, v), 4, <<>>)
  BY <1>1, <1>2, <1>5, <1>6, FirstField DEF c
<1> HIDE DEF cd
<1>11. InFront(ParseTlvs(bcd, v), ParseTlvs(cd, v), 1, GatePublic)
  <2>1. ParseTlvs(cd, v) # Truncated
    BY <1>10, Zenon DEF InFront
  <2>2. QED
    BY <1>1, <1>2, <1>7, <2>1, FirstField DEF b
<1> HIDE DEF bcd
<1>12. InFront(fields, ParseTlvs(bcd, v), 3, << 0 >>)
  <2>1. InFront(ParseTlvs(a \o bcd, v), ParseTlvs(bcd, v), 3, << 0 >>)
    <3>1. ParseTlvs(bcd, v) # Truncated
      BY <1>11, Zenon DEF InFront
    <3>2. QED
      BY <1>1, <1>2, <1>8, <3>1, FirstField DEF a
  <2>2. QED
    BY <1>9, <2>1
<1> HIDE DEF fields
<1>13. DOMAIN ParseTlvs(cd, v) = {2} /\ DOMAIN ParseTlvs(bcd, v) = {1, 2}
  BY <1>2, <1>6, <1>10, <1>11 DEF InFront
<1>14. /\ Field(fields, 1) = GatePublic /\ Field(fields, 2) = cipher
       /\ Field(fields, 3) = << 0 >> /\ Field(fields, 4) = <<>>
  BY <1>2, <1>6, <1>10, <1>11, <1>12, <1>13 DEF InFront
<1>15. QED
  BY <1>12, <1>14 DEF InFront, fields, cipher

------------------------------------------------------------------------------
(* The exchange of keys                                                     *)

\* The keys of the model's small ciphers, all different.
LEMMA KeysAre ==
    /\ SessionKeys = {80, 100} /\ Common = 80 /\ NoKey \notin SessionKeys
    /\ \A random, code : SessionKey(random, code) \in SessionKeys
    /\ \A public : MasterKey(public) \in {40, 50}
    /\ MasterKey(GatePublic) = 40
BY DEF SessionKeys, Common, SessionKey, MasterKey, NoKey

\* The first bytes of the proof of a key.
LEMMA ProofBytes ==
    ASSUME NEW s \in {80, 100}, NEW m \in {40, 50}
    PROVE  LET e == Encrypt(m, <<s>>)
           IN  e \in Bytes /\ Size(e) = 4 /\ e[1] = s + m /\ e[2] = 3 + m
<1> DEFINE plain == <<s>>
           pad == Block - (Len(plain) % Block)
           tail == [i \in 1..pad |-> pad]
           padded == plain \o tail
           e == Encrypt(m, plain)
<1>1. plain \in Bytes /\ Size(plain) = 1 /\ plain[1] = s
  <2>1. s \in Byte
    BY DEF Byte
  <2>2. QED
    BY <2>1, OneByte
<1>2. pad = 3
  BY DEF Block
<1>3. tail \in Bytes /\ Size(tail) = 3 /\ tail[1] = 3
  <2>1. tail \in [1..3 -> Byte] /\ tail[1] = 3
    BY <1>2, SessionBytes
  <2>2. tail \in Seq(Byte) /\ Len(tail) = 3
    BY <2>1, FunctionIsSeq
  <2>3. QED
    BY <2>1, <2>2, Zenon DEF Bytes, Size
<1>4. e = [i \in DOMAIN padded |-> (padded[i] + m) % 256] /\ padded = Join(plain, tail)
  BY Zenon DEF Encrypt, Join
<1> HIDE DEF plain, tail, e, padded
<1>5. padded \in Bytes /\ Size(padded) = 4 /\ padded[1] = s /\ padded[2] = 3
  <2>1. 1 \in Nat /\ 3 \in Nat /\ 1 + 3 = 4 /\ 1 \in 1..1 /\ 1 \in 1..3 /\ 1 + 1 = 2
    OBVIOUS
  <2>2. /\ padded \in Bytes /\ Size(padded) = 1 + 3
        /\ \A i \in 1..1 : padded[i] = plain[i]
        /\ \A i \in 1..3 : padded[1 + i] = tail[i]
    BY <1>1, <1>3, <1>4, <2>1, Joined
  <2>3. QED
    BY <1>1, <1>3, <2>1, <2>2
<1>6. e \in [1..4 -> Byte] /\ e[1] = (s + m) % 256 /\ e[2] = (3 + m) % 256
  <2>1. DOMAIN padded = 1..4 /\ \A i \in 1..4 : padded[i] \in Int
    <3>1. /\ DOMAIN padded = 1..Size(padded) /\ \A i \in 1..Size(padded) : padded[i] \in Byte
      BY <1>5, BytesAre, Zenon DEF Size
    <3>2. QED
      BY <1>5, <3>1 DEF Byte
  <2>2. \A i \in 1..4 : (padded[i] + m) % 256 \in Byte
    BY <2>1, ModByte
  <2>3. QED
    BY <1>4, <1>5, <2>1, <2>2
<1>7. e \in Bytes /\ Size(e) = 4
  <2>1. e \in Seq(Byte) /\ Len(e) = 4
    <3>1. PICK n \in Nat : n = 4
      OBVIOUS
    <3>2. e \in [1..n -> Byte]
      BY <1>6, <3>1
    <3>3. e \in Seq(Byte) /\ Len(e) = n
      BY <3>2, FunctionIsSeq, Zenon
    <3>4. QED
      BY <3>1, <3>3
  <2>2. QED
    BY <2>1, Zenon DEF Bytes, Size
<1>8. (s + m) % 256 = s + m /\ (3 + m) % 256 = 3 + m
  OBVIOUS
<1>9. QED
  BY <1>6, <1>7, <1>8, Zenon DEF e, plain

\* The right proof is the proof of the common key, by an app that has the gate's own key.
LEMMA ProofOfCommon ==
    ASSUME NEW s \in SessionKeys, NEW public, NEW v,
           MakeTlv(1, Encrypt(MasterKey(public), <<s>>), v) = Proof(v)
    PROVE  s = Common
<1> DEFINE m == MasterKey(public)
           a == Encrypt(m, <<s>>)
           b == Encrypt(MasterKey(GatePublic), <<Common>>)
           w == TlvWidth(v)
<1>1. s \in {80, 100} /\ m \in {40, 50}
  BY KeysAre
<1>2. a \in Bytes /\ Size(a) = 4 /\ a[1] = s + m /\ a[2] = 3 + m
  BY <1>1, ProofBytes
<1>3. b \in Bytes /\ Size(b) = 4 /\ b[1] = 120 /\ b[2] = 43
  BY KeysAre, ProofBytes
<1> HIDE DEF a, b
<1>4. /\ \A i \in 1..4 : MakeTlv(1, a, v)[1 + w + i] = a[i]
      /\ \A i \in 1..4 : MakeTlv(1, b, v)[1 + w + i] = b[i]
  <2>1. 1 \in Byte /\ 4 \in Nat /\ 4 < 256
    BY DEF Byte
  <2>2. QED
    BY <1>2, <1>3, <2>1, TlvShape
<1>5. MakeTlv(1, a, v) = MakeTlv(1, b, v)
  BY DEF Proof, a, b
<1>6. 1 \in 1..4 /\ 2 \in 1..4
  OBVIOUS
<1>7. a[1] = b[1] /\ a[2] = b[2]
  <2> DEFINE same(i) == MakeTlv(1, a, v)[1 + w + i]
  <2>1. a[1] = same(1) /\ b[1] = same(1) /\ a[2] = same(2) /\ b[2] = same(2)
    BY <1>4, <1>5, <1>6
  <2> HIDE DEF same
  <2>2. QED
    BY <2>1
<1>8. s = 80
  BY <1>1, <1>2, <1>3, <1>7
<1>9. QED
  BY <1>8, KeysAre

------------------------------------------------------------------------------
(* The invariant is inductive                                               *)

\* What was told of a gate holds of the gate later on.
LEMMA TellsMore ==
    ASSUME NEW a, NEW q, NEW v, NEW g \in GateStates, NEW h, Told(a, q, v, g), Follows(h, g)
    PROVE  Told(a, q, v, h)
BY FlyingGrows, SeqMonotonic, Zenon DEF Told

\* A request adds what the gate says to it.
LEMMA Written ==
    ASSUME gate \in GateStates, Told(air, queue', soft', gate),
           NEW phase, NEW c \in Command, NEW p, Short(p), NEW s \in Nat, NEW k \in {NoKey, gate.key},
           Writes(phase, c, p, s, k)
    PROVE  /\ Follows(gate', gate) /\ gate' \in GateStates
           /\ Told(air', queue', soft', gate')
           /\ gate'.key # gate.key => c = CMD_LOCAL_AUTH_CHECK /\ p = Proof(soft')
           /\ gate'.taken # gate.taken => c = CMD_SEND_TRANSPORT
           /\ pc' = phase /\ link /\ UNCHANGED <<outcome, link, stuck>>
           /\ disturbed' \in BOOLEAN
           /\ left' = Timeout /\ (IsFiniteSet(air) => IsFiniteSet(air'))
<1>1. PICK r \in Reactions(BuildFrame(c, p, s, soft', k), soft') :
         /\ gate' = r.gate
         /\ air' = IF r.frame = NoFrame THEN air ELSE air \cup {r.frame}
         /\ disturbed' = (disturbed \/ ~r.good)
  BY Zenon DEF Writes
<1>2. Reacts(r, c, p, soft')
  BY RequestReacts
<1>3. Follows(gate', gate) /\ gate' \in GateStates
  BY <1>1, <1>2 DEF Reacts, Follows
<1>4. Told(air, queue', soft', gate')
  BY <1>3, TellsMore
<1>5. air' \subseteq Flying(soft', gate')
  <2>1. r.frame = NoFrame \/ r.frame \in Flying(soft', gate')
    BY <1>1, <1>2, Zenon DEF Reacts
  <2>2. QED
    BY <1>1, <1>4, <2>1, Zenon DEF Told
<1>6. Told(air', queue', soft', gate')
  BY <1>4, <1>5, Zenon DEF Told
<1>7. /\ gate'.key # gate.key => c = CMD_LOCAL_AUTH_CHECK /\ p = Proof(soft')
      /\ gate'.taken # gate.taken => c = CMD_SEND_TRANSPORT
  BY <1>1, <1>2, Zenon DEF Reacts
<1>8. pc' = phase /\ link /\ UNCHANGED <<outcome, link, stuck>>
  BY DEF Writes
<1>9. disturbed' \in BOOLEAN
  BY <1>1, Zenon
<1>10. left' = Timeout
  BY DEF Writes
<1>11. IsFiniteSet(air) => IsFiniteSet(air')
  BY <1>1, FS_AddElement
<1>12. QED
  BY <1>3, <1>6, <1>7, <1>8, <1>9, <1>10, <1>11, Zenon

\* What is in no frame is not read.
LEMMA NoFrameRead == \A v, k : ParseFrame(<< 0 >>, v, k) = Unreadable
<1>1. Len(<< 0 >>) < 9
  OBVIOUS
<1>2. QED
  BY <1>1, Zenon DEF ParseFrame

\* The key that async_request reads frames with.
ReadKey == IF pc = "motorReply" THEN key ELSE NoKey

\* An answer is a frame of the command, or a common reply that accepts it.
Answers(frame, payload) ==
    LET common == ParseTlvs(frame.payload, soft)
    IN  /\ frame # Unreadable /\ payload = frame.payload
        /\ \/ frame.command = Requested[pc]
           \/ /\ frame.command = CMD_COMMON_REPLY
              /\ LittleInt(Field(common, 2), -1) = Requested[pc]

\* The command that each phase of a call awaits an answer to.
LEMMA RequestedIs ==
    /\ DOMAIN Requested = {"keyExchange", "authCheck", "motorReply"}
    /\ Requested["keyExchange"] = CMD_LOCAL_AUTH_PUBKEY
    /\ Requested["authCheck"] = CMD_LOCAL_AUTH_CHECK
    /\ Requested["motorReply"] = CMD_SEND_TRANSPORT
    /\ \A phase \in DOMAIN Requested :
          /\ Requested[phase] \in Command
          /\ Requested[phase] # CMD_COMMON_REPLY /\ Requested[phase] # Unreadable.command
BY DEF Requested, Command, CMD_COMMON_REPLY, CMD_LOCAL_AUTH_PUBKEY, CMD_LOCAL_AUTH_CHECK,
       CMD_SEND_TRANSPORT, Unreadable

\* A frame of the command is an answer; one of another command is ignored, unless it is a
\* common reply to the request; and nothing else is an answer.
LEMMA ReadAsIs ==
    ASSUME pc \in DOMAIN Requested, NEW raw
    PROVE  LET frame == ParseFrame(raw, soft, ReadKey)
               common == ParseTlvs(frame.payload, soft)
           IN  /\ frame # Unreadable /\ frame.command = Requested[pc] =>
                     ReadAs(raw).what = "answer" /\ ReadAs(raw).payload = frame.payload
               /\ /\ frame # Unreadable /\ frame.command # Requested[pc]
                  /\ frame.command = CMD_COMMON_REPLY =>
                        common # Truncated /\ LittleInt(Field(common, 2), -1) # Requested[pc]
                  => ReadAs(raw).what = "ignored"
               /\ ReadAs(raw).what = "answer" => Answers(frame, ReadAs(raw).payload)
<1> DEFINE frame == ParseFrame(raw, soft, ReadKey)
           common == ParseTlvs(frame.payload, soft)
           names == LittleInt(Field(common, 2), -1) = Requested[pc]
           accepts == LittleInt(Field(common, 3), -1) = 0
           as(what) == [what |-> what, payload |-> frame.payload]
<1>1. ReadAs(raw) =
        CASE frame = Unreadable -> as("error")
          [] frame.command = Requested[pc] -> as("answer")
          [] frame.command = CMD_COMMON_REPLY /\ common = Truncated -> as("error")
          [] frame.command = CMD_COMMON_REPLY /\ common # Truncated /\ names
                -> as(IF accepts THEN "answer" ELSE "error")
          [] OTHER -> as("ignored")
  BY Zenon DEF ReadAs, ReadKey
<1>2. /\ Requested[pc] # CMD_COMMON_REPLY /\ Requested[pc] # Unreadable.command
      /\ Unreadable.command # CMD_COMMON_REPLY
  BY RequestedIs DEF Unreadable, CMD_COMMON_REPLY
<1> HIDE DEF frame, common
<1>3. CASE frame = Unreadable
  <2>1. ReadAs(raw) = as("error")
    BY <1>1, <1>2, <1>3
  <2>2. QED
    BY <1>3, <2>1 DEF frame, common
<1>4. CASE frame # Unreadable /\ frame.command = Requested[pc]
  <2>1. ReadAs(raw) = as("answer")
    BY <1>1, <1>2, <1>4
  <2>2. QED
    BY <1>4, <2>1 DEF Answers, frame, common
<1>5. CASE frame # Unreadable /\ frame.command = CMD_COMMON_REPLY /\ common = Truncated
  <2>1. ReadAs(raw) = as("error")
    BY <1>1, <1>2, <1>5
  <2>2. QED
    BY <1>2, <1>5, <2>1 DEF frame, common
<1>6. CASE frame # Unreadable /\ frame.command = CMD_COMMON_REPLY /\ common # Truncated /\ names
  <2>1. ReadAs(raw).payload = frame.payload
    BY <1>1, <1>2, <1>6
  <2>2. QED
    BY <1>2, <1>6, <2>1 DEF Answers, frame, common
<1>7. CASE /\ frame # Unreadable /\ frame.command # Requested[pc]
           /\ frame.command # CMD_COMMON_REPLY \/ (common # Truncated /\ ~names)
  <2>1. ReadAs(raw) = as("ignored")
    BY <1>1, <1>2, <1>7
  <2>2. QED
    BY <1>7, <2>1 DEF frame, common
<1>8. QED
  BY <1>3, <1>4, <1>5, <1>6, <1>7

\* What an answer says, if it is one that may be in flight: it says it under no key, or under
\* the app's own.
LEMMA AnswerSays ==
    ASSUME pc \in DOMAIN Requested, gate \in GateStates, NEW f \in Flying(soft, gate),
           ReadAs(f).what = "answer",
           ReadKey \in {NoKey, gate.key}
    PROVE  \E c \in Word, p \in Bytes, k \in {NoKey, gate.key} :
             /\ Said(c, p, k, soft, gate)
             /\ Answers([command |-> c, payload |-> p], ReadAs(f).payload)
<1>1. Answers(ParseFrame(f, soft, ReadKey), ReadAs(f).payload)
  BY ReadAsIs
<1>2. ParseFrame(f, soft, ReadKey) # Unreadable
  BY <1>1, Zenon DEF Answers
<1>3. f # << 0 >>
  BY <1>2, NoFrameRead
<1>4. PICK c \in Word, p \in Bytes, k \in {NoKey, gate.key} :
        Short(p) /\ Said(c, p, k, soft, gate) /\ f = BuildFrame(c, p, 0, soft, k) /\ k \in Int
  BY <1>3, InFlightIs
<1> DEFINE read == [command |-> c, payload |-> p]
<1>5. /\ ParseFrame(f, soft, k) = read
      /\ k = NoKey => \A other : ParseFrame(f, soft, other) = read
      /\ k # NoKey => ParseFrame(f, soft, NoKey) = Unreadable
  <2>1. PICK s \in Nat : s = 0
    OBVIOUS
  <2>2. f = BuildFrame(c, p, s, soft, k)
    BY <1>4, <2>1
  <2>3. QED
    BY <1>4, <2>2, FrameOf
<1> HIDE DEF read
<1>6. ParseFrame(f, soft, ReadKey) = read
  BY <1>2, <1>5, Zenon
<1>7. QED
  BY <1>1, <1>4, <1>6, Zenon DEF read

\* The gate's judgement accepts the proof only if the gate has the key.
LEMMA AcceptedHasKey ==
    ASSUME pc = "authCheck", gate \in GateStates, NEW f \in Flying(soft, gate),
           ReadAs(f).what = "answer",
           LittleInt(Field(ParseTlvs(ReadAs(f).payload, soft), 2), -1) = 0
    PROVE  gate.key = Common
<1> DEFINE payload == ReadAs(f).payload
           result(p) == LittleInt(Field(ParseTlvs(p, soft), 2), -1)
<1>1. pc \in DOMAIN Requested /\ Requested[pc] = CMD_LOCAL_AUTH_CHECK /\ ReadKey = NoKey
  BY RequestedIs DEF ReadKey
<1>2. PICK c \in Word, p \in Bytes, k \in {NoKey, gate.key} :
         Said(c, p, k, soft, gate) /\ Answers([command |-> c, payload |-> p], payload)
  BY <1>1, AnswerSays
<1>3. payload = p /\ (c = CMD_LOCAL_AUTH_CHECK \/ (c = CMD_COMMON_REPLY /\ result(p) = CMD_LOCAL_AUTH_CHECK))
  BY <1>1, <1>2 DEF Answers
<1>4. result(p) = 0
  BY <1>3
<1> HIDE DEF result, payload
<1>5. c = CMD_LOCAL_AUTH_CHECK
  BY <1>3, <1>4, Commands
<1>6. CASE p = MakeTlv(2, << 0 >>, soft) /\ gate.key = Common
  BY <1>6
<1>7. p # MakeTlv(2, << 1 >>, soft) /\ p # MakeTlv(3, << 1 >>, soft)
  <2>1. 1 \in Byte /\ 2 \in Byte /\ 3 \in Byte
    BY SessionBytes
  <2>2. << 1 >> \in Bytes /\ Len(<< 1 >>) < 256 /\ << 1 >> # <<>>
    BY OneByte, <2>1 DEF Size
  <2>3. /\ \A x : Field(ParseTlvs(MakeTlv(2, << 1 >>, soft), soft), x) = IF x = 2 THEN << 1 >> ELSE <<>>
        /\ \A x : Field(ParseTlvs(MakeTlv(3, << 1 >>, soft), soft), x) = IF x = 3 THEN << 1 >> ELSE <<>>
    <3>1. ASSUME NEW kind \in Byte
          PROVE  \A x : Field(ParseTlvs(MakeTlv(kind, << 1 >>, soft), soft), x) =
                           IF x = kind THEN << 1 >> ELSE <<>>
      BY <2>2, OneField
    <3>2. QED
      BY <2>1, <3>1
  <2>4. result(MakeTlv(2, << 1 >>, soft)) = 1 /\ result(MakeTlv(3, << 1 >>, soft)) = -1
    BY <2>1, <2>3, NumbersRead DEF result
  <2>5. QED
    BY <1>4, <2>4
<1>8. QED
  BY <1>2, <1>5, <1>6, <1>7, Commands DEF Said

\* A valid answer of the motor comes from a gate that has taken the value.
LEMMA ValidWasTaken ==
    ASSUME pc = "motorReply", gate \in GateStates, key = gate.key, NEW f \in Flying(soft, gate),
           ReadAs(f).what = "answer", ValidMotorResponse(ReadAs(f).payload)
    PROVE  gate.taken
<1> DEFINE payload == ReadAs(f).payload
<1>1. pc \in DOMAIN Requested /\ Requested[pc] = CMD_SEND_TRANSPORT /\ ReadKey = gate.key
  BY RequestedIs DEF ReadKey
<1>2. PICK c \in Word, p \in Bytes, k \in {NoKey, gate.key} :
         Said(c, p, k, soft, gate) /\ Answers([command |-> c, payload |-> p], payload)
  BY <1>1, AnswerSays
<1>3. payload = p /\ (c = CMD_SEND_TRANSPORT \/ c = CMD_COMMON_REPLY)
  BY <1>1, <1>2 DEF Answers
<1>4. Size(p) >= 14 /\ SubSeq(p, 12, 14) = <<0, 0, 0>>
  BY <1>3 DEF ValidMotorResponse, Size
<1> HIDE DEF payload
<1>5. p # MotorResponse(1)
  <2>1. Part(p, 12, 14) = <<0, 0, 0>>
    BY <1>4 DEF Part
  <2>2. PICK first \in Nat, n \in Nat : first = 12 /\ n = 14
    OBVIOUS
  <2>3. 3 \in 1..n - first + 1 /\ first - 1 + 3 = 14 /\ 1 <= first /\ first <= n + 1 /\ n <= Size(p)
    BY <1>4, <2>2, Sized
  <2>4. Part(p, first, n)[3] = p[first - 1 + 3]
    BY <2>3, PartOf
  <2>5. p[14] = 0
    BY <2>1, <2>2, <2>3, <2>4
  <2>6. QED
    BY <2>5 DEF MotorResponse
<1>6. 1 \in Byte /\ 2 \in Byte /\ 3 \in Byte
  BY SessionBytes
<1>7. ASSUME NEW value \in Bytes, NEW kind \in Byte, Size(value) \in {1, 2}
      PROVE  /\ MakeTlv(kind, value, soft) \in Bytes
             /\ \E n \in Nat : Size(MakeTlv(kind, value, soft)) = n /\ n <= 5
  <2>1. PICK l \in Nat : Size(value) = l /\ l <= 2
    BY <1>7
  <2>2. l <= 20
    BY <2>1
  <2>3. PICK n \in Nat : Size(MakeTlv(kind, value, soft)) = n /\ n <= l + 3
    BY <2>1, <2>2, ShortTlv
  <2>4. MakeTlv(kind, value, soft) \in Bytes
    BY <2>1, <2>2, ShortTlv
  <2>5. n <= 5
    BY <2>1, <2>3
  <2>6. QED
    BY <2>3, <2>4, <2>5
<1>8. \A x \in Byte : <<x>> \in Bytes /\ Size(<<x>>) \in {1, 2}
  BY OneByte
<1>9. p # MakeTlv(3, << 1 >>, soft)
  <2>1. PICK n \in Nat : Size(MakeTlv(3, << 1 >>, soft)) = n /\ n <= 5
    BY <1>6, <1>7, <1>8
  <2>2. QED
    BY <1>4, <2>1
<1>10. ASSUME NEW d \in Command \cup {4097}, NEW x \in {0, 1}
       PROVE  p # CommonPayload(d, x, soft)
  <2> DEFINE a == MakeTlv(2, Little(d, 2), soft)
             b == MakeTlv(3, <<x>>, soft)
  <2>1. d \in Word /\ x \in Byte
    BY Commands, SessionBytes
  <2>2. Little(d, 2) \in Bytes /\ Size(Little(d, 2)) \in {1, 2}
    BY <2>1, NumbersRead
  <2>3. PICK m \in Nat : a \in Bytes /\ Size(a) = m /\ m <= 5
    BY <1>6, <1>7, <2>2
  <2>4. PICK n \in Nat : b \in Bytes /\ Size(b) = n /\ n <= 5
    BY <1>6, <1>7, <1>8, <2>1
  <2> HIDE DEF a, b
  <2>5. Size(Join(a, b)) = m + n
    BY <2>3, <2>4, Joined
  <2>6. ~(Size(Join(a, b)) >= 14)
    BY <2>3, <2>4, <2>5
  <2>7. CommonPayload(d, x, soft) = Join(a, b)
    BY DEF CommonPayload, Join, a, b
  <2>8. QED
    BY <1>4, <2>6, <2>7
<1>11. QED
  BY <1>2, <1>3, <1>5, <1>9, <1>10, Commands DEF Said

\* Before a call, nothing has been said.
LEMMA InitInv == Init => Inv
<1> SUFFICES ASSUME Init PROVE Inv
  OBVIOUS
<1>1. Types
  BY FS_EmptySet DEF Init, Types, Early, GateStates
<1>2. InAir
  BY EmptySeq DEF Init, InAir, Told
<1>3. Quiet /\ Keys
  BY DEF Init, Quiet, Keys, Early
<1>4. QED
  BY <1>1, <1>2, <1>3 DEF Inv

\* Steps that leave the session's keys, the gate and what is written alone, and what is in
\* flight the frames of it.
LEMMA Kept ==
    ASSUME Inv, Types', Quiet', UNCHANGED <<soft, key, gate, written>>,
           Told(air', queue', soft, gate), pc' = pc \/ pc' \in Over
    PROVE  Inv'
<1>1. InAir'
  BY DEF InAir
<1>2. Keys'
  BY DEF Inv, Keys, Early, Over
<1>3. QED
  BY <1>1, <1>2 DEF Inv

\* The call ends, or disconnects: what was in flight stays.
LEMMA Ended ==
    ASSUME Inv, NEW out \in {"returned", "raised"}, Stops(out),
           UNCHANGED <<link, soft, key, air, left, gate, written, stuck>>,
           disturbed' \in BOOLEAN, Told(air, queue', soft, gate)
    PROVE  Inv'
<1>1. pc' \in Over
  BY DEF Stops, Over
<1>2. Types'
  BY <1>1 DEF Inv, Types, Stops, Over
<1>3. Quiet'
  BY <1>1 DEF Quiet, Early, Over
<1>4. QED
  BY <1>1, <1>2, <1>3, Kept

\* The steps keep the invariant, one action after the other.
LEMMA OpensInv == Inv /\ Opens => Inv'
<1> SUFFICES ASSUME Inv, Opens PROVE Inv'
  OBVIOUS
<1>1. /\ UNCHANGED <<outcome, soft, key, air, queue, left, gate, written, stuck, disturbed>>
      /\ pc \in Early \ {"start"} /\ pc' \in Early
      /\ link' \in BOOLEAN /\ link' = (pc' = "start")
  BY DEF Opens, Reaches, Early
<1>2. Types'
  BY <1>1 DEF Inv, Types
<1>3. Quiet'
  BY <1>1 DEF Inv, Quiet
<1>4. InAir' /\ Keys'
  BY <1>1 DEF Inv, InAir, Keys, Early
<1>5. QED
  BY <1>2, <1>3, <1>4 DEF Inv

LEMMA OpenFailsInv == Inv /\ (OpenFails \/ SessionFails \/ TimesOut) => Inv'
<1> SUFFICES ASSUME Inv, OpenFails \/ SessionFails \/ TimesOut PROVE Inv'
  OBVIOUS
<1>1. /\ Stops("raised") /\ disturbed' \in BOOLEAN
      /\ UNCHANGED <<link, soft, key, air, queue, left, gate, written, stuck>>
  BY DEF OpenFails, SessionFails, TimesOut, Fails, Inv, Types
<1>2. Told(air, queue', soft, gate)
  BY <1>1 DEF Inv, InAir
<1>3. QED
  BY <1>1, <1>2, Ended

LEMMA CancelledInv == Inv /\ Cancelled => Inv'
<1> SUFFICES ASSUME Inv, Cancelled PROVE Inv'
  OBVIOUS
<1>1. /\ UNCHANGED <<link, soft, key, air, queue, left, gate, written>>
      /\ pc' \in Over /\ outcome' = "raised" /\ disturbed' = TRUE /\ stuck' \in BOOLEAN
  BY DEF Cancelled, Fails, Stops, Inv, Types, Over
<1>2. Types'
  BY <1>1 DEF Inv, Types
<1>3. Quiet'
  BY <1>1 DEF Quiet, Early, Over
<1>4. Told(air', queue', soft, gate)
  BY <1>1 DEF Inv, InAir
<1>5. QED
  BY <1>1, <1>2, <1>3, <1>4, Kept

LEMMA DisconnectsInv == Inv /\ Disconnects => Inv'
<1> SUFFICES ASSUME Inv, Disconnects PROVE Inv'
  OBVIOUS
<1>1. /\ UNCHANGED <<outcome, soft, key, air, queue, left, gate, written, disturbed>>
      /\ pc' \in Over /\ link' \in BOOLEAN /\ stuck' \in BOOLEAN
  BY DEF Disconnects, Inv, Types, Over
<1>2. Types'
  BY <1>1 DEF Inv, Types
<1>3. Quiet'
  BY <1>1 DEF Quiet, Early, Over
<1>4. Told(air', queue', soft, gate)
  BY <1>1 DEF Inv, InAir
<1>5. QED
  BY <1>1, <1>2, <1>3, <1>4, Kept

LEMMA LinkDropsInv == Inv /\ LinkDrops => Inv'
<1> SUFFICES ASSUME Inv, LinkDrops PROVE Inv'
  OBVIOUS
<1>1. /\ UNCHANGED <<pc, outcome, soft, key, queue, left, gate, written, stuck>>
      /\ link' = FALSE /\ disturbed' = TRUE /\ air' = {}
  BY DEF LinkDrops
<1>2. Types'
  BY <1>1, FS_EmptySet DEF Inv, Types
<1>3. Quiet'
  BY <1>1 DEF Inv, Quiet
<1>4. Told(air', queue', soft, gate)
  BY <1>1 DEF Inv, InAir, Told
<1>5. QED
  BY <1>1, <1>2, <1>3, <1>4, Kept

LEMMA TickInv == Inv /\ Tick => Inv'
<1> SUFFICES ASSUME Inv, Tick PROVE Inv'
  OBVIOUS
<1>1. /\ UNCHANGED <<pc, outcome, link, soft, key, air, queue, gate, written, stuck>>
      /\ left' \in Nat /\ disturbed' \in BOOLEAN
  BY DEF Tick, Inv, Types
<1>2. Types'
  BY <1>1 DEF Inv, Types
<1>3. Quiet'
  BY <1>1 DEF Inv, Quiet
<1>4. Told(air', queue', soft, gate)
  BY <1>1 DEF Inv, InAir, Told
<1>5. QED
  BY <1>1, <1>2, <1>3, <1>4, Kept

LEMMA NotificationInv == Inv /\ Notification => Inv'
<1> SUFFICES ASSUME Inv, Notification PROVE Inv'
  OBVIOUS
<1>1. PICK f \in air : queue' = Append(queue, f) /\ air' = air \ {f}
  BY DEF Notification
<1>2. UNCHANGED <<pc, outcome, link, soft, key, left, gate, written, stuck, disturbed>>
  BY DEF Notification
<1>3. Types'
  BY <1>1, <1>2, FS_RemoveElement DEF Inv, Types
<1>4. Quiet'
  BY <1>1, <1>2 DEF Inv, Quiet
<1>5. Told(air', queue', soft, gate)
  <2>1. air \subseteq Flying(soft, gate) /\ queue \in Seq(Flying(soft, gate))
    BY DEF Inv, InAir, Told
  <2>2. queue' \in Seq(Flying(soft, gate))
    BY <1>1, <2>1, AppendProperties
  <2>3. QED
    BY <1>1, <2>1, <2>2 DEF Told
<1>6. QED
  BY <1>2, <1>3, <1>4, <1>5, Kept

\* What a gate sends unasked it may say.
LEMMA ChatterFlies ==
    ASSUME gate \in GateStates, pc \in {"settle"} \cup DOMAIN Requested,
           NEW f \in Harmless \cup Harmful
    PROVE  f \in Flying(soft, gate)
<1>1. ASSUME NEW c \in Command \cup {4097}, NEW result \in {0, 1}
      PROVE  CommonReply(c, result, soft) \in Flying(soft, gate)
  <2>1. Said(CMD_COMMON_REPLY, CommonPayload(c, result, soft), NoKey, soft, gate)
    BY DEF Said
  <2>2. QED
    BY <2>1, SaidFlies DEF CommonReply, CommonPayload
<1>2. ASSUME NEW k \in {NoKey, gate.key}
      PROVE  Sends(4097, <<>>, soft, k) \in Flying(soft, gate)
  <2>1. Said(4097, <<>>, k, soft, gate)
    BY DEF Said
  <2>2. QED
    BY <2>1, SaidFlies
<1>3. << 0 >> \in Flying(soft, gate)
  BY DEF Flying
<1>4. pc \in DOMAIN Requested => Requested[pc] \in Command
  BY RequestedIs
<1>5. CASE f \in Harmless
  BY <1>1, <1>2, <1>5 DEF Harmless
<1>6. CASE f \in Harmful
  BY <1>1, <1>2, <1>3, <1>4, <1>6 DEF Harmful
<1>7. QED
  BY <1>5, <1>6

LEMMA ChatsInv == Inv /\ Chats => Inv'
<1> SUFFICES ASSUME Inv, Chats PROVE Inv'
  OBVIOUS
<1>1. PICK f \in Harmless \cup Harmful :
         air' = air \cup {f} /\ disturbed' = (disturbed \/ f \in Harmful)
  BY DEF Chats
<1>2. /\ pc \in {"settle"} \cup DOMAIN Requested
      /\ UNCHANGED <<pc, outcome, link, soft, key, queue, left, gate, written, stuck>>
  BY DEF Chats
<1>3. disturbed' \in BOOLEAN /\ IsFiniteSet(air')
  BY <1>1, FS_AddElement DEF Inv, Types
<1>4. Types'
  BY <1>2, <1>3 DEF Inv, Types
<1>5. Quiet'
  BY <1>2, RequestedIs DEF Inv, Quiet, Early
<1>6. Told(air', queue', soft, gate)
  <2>1. gate \in GateStates
    BY DEF Inv, Types
  <2>2. f \in Flying(soft, gate)
    BY <1>2, <2>1, ChatterFlies
  <2>3. QED
    BY <1>1, <1>2, <2>2 DEF Inv, InAir, Told
<1>7. QED
  BY <1>2, <1>4, <1>5, <1>6, Kept

\* The app's own key is sent in a request that the gate can read.
LEMMA StartsWrites ==
    ASSUME Inv, Starts
    PROVE  /\ pc = "start" /\ pc' = "keyExchange" /\ UNCHANGED <<key, queue, written>>
           /\ gate' \in GateStates /\ Told(air', queue', soft', gate')
           /\ gate'.key = gate.key /\ gate'.taken = gate.taken
           /\ link /\ UNCHANGED <<outcome, link, stuck>>
           /\ disturbed' \in BOOLEAN /\ left' = Timeout /\ IsFiniteSet(air')
<1>1. /\ pc = "start" /\ UNCHANGED <<key, queue, written>>
      /\ Writes("keyExchange", CMD_LOCAL_AUTH_PUBKEY, MakeTlv(1, AppPublic, soft'), 0, NoKey)
  BY DEF Starts
<1>2. gate \in GateStates /\ gate.key = NoKey /\ air = {} /\ queue = <<>> /\ IsFiniteSet(air)
  BY <1>1 DEF Inv, Types, Quiet, Keys, Early
<1>3. Told(air, queue', soft', gate)
  BY <1>1, <1>2, EmptySeq DEF Told
<1>4. Short(MakeTlv(1, AppPublic, soft'))
  BY ShortPayloads
<1>5. /\ CMD_LOCAL_AUTH_PUBKEY \in Command /\ CMD_LOCAL_AUTH_PUBKEY # CMD_LOCAL_AUTH_CHECK
      /\ CMD_LOCAL_AUTH_PUBKEY # CMD_SEND_TRANSPORT /\ 0 \in Nat
  BY Commands DEF Command
<1>6. QED
  BY <1>1, <1>2, <1>3, <1>4, <1>5, Written

LEMMA StartsInv == Inv /\ Starts => Inv'
<1> SUFFICES ASSUME Inv, Starts PROVE Inv'
  OBVIOUS
<1>1. /\ pc = "start" /\ pc' = "keyExchange" /\ UNCHANGED <<key, queue, written>>
      /\ gate' \in GateStates /\ Told(air', queue', soft', gate') /\ gate'.key = gate.key
      /\ link /\ UNCHANGED <<outcome, link, stuck>>
      /\ disturbed' \in BOOLEAN /\ left' = Timeout /\ IsFiniteSet(air')
  BY StartsWrites
<1>2. gate.key = NoKey /\ written \in Nat /\ ~(written > 0)
  BY <1>1 DEF Inv, Types, Keys, Early
<1>3. Types'
  BY <1>1, RequestedIs, SessionAssumption DEF Inv, Types
<1>4. Quiet' /\ Keys'
  BY <1>1, <1>2 DEF Quiet, Keys, Early
<1>5. InAir'
  BY <1>1 DEF InAir
<1>6. QED
  BY <1>3, <1>4, <1>5 DEF Inv

LEMMA WritesMotorInv == Inv /\ WritesMotor => Inv'
<1> SUFFICES ASSUME Inv, WritesMotor PROVE Inv'
  OBVIOUS
<1>1. pc = "settle" /\ soft' = soft /\ written' = written + 1 /\ UNCHANGED <<key, queue>>
  BY DEF WritesMotor
<1>2. /\ gate \in GateStates /\ gate.key # NoKey /\ key = gate.key /\ written' \in Nat
      /\ Told(air, queue, soft, gate) /\ IsFiniteSet(air)
  BY <1>1 DEF Inv, Types, Keys, InAir
<1>6. Told(air, queue', soft', gate)
  BY <1>1, <1>2
<1>3. CASE Writes("motorReply", CMD_SEND_TRANSPORT, BuildMotorFrame("open"), 2, key)
  <2>1. CMD_SEND_TRANSPORT \in Command /\ CMD_SEND_TRANSPORT # CMD_LOCAL_AUTH_CHECK /\ 2 \in Nat
    BY Commands DEF Command
  <2>2. /\ gate' \in GateStates /\ Told(air', queue', soft', gate') /\ gate'.key = gate.key
        /\ pc' = "motorReply" /\ link /\ UNCHANGED <<outcome, link, stuck>>
        /\ disturbed' \in BOOLEAN /\ left' = Timeout /\ IsFiniteSet(air')
    BY <1>1, <1>2, <1>3, <1>6, <2>1, Written, ShortMotorFrame
  <2>3. Types'
    BY <1>1, <1>2, <2>2, RequestedIs, SessionAssumption DEF Inv, Types
  <2>4. Quiet' /\ Keys'
    BY <1>1, <1>2, <2>2 DEF Quiet, Keys, Early
  <2>5. InAir'
    BY <2>2 DEF InAir
  <2>6. QED
    BY <2>3, <2>4, <2>5 DEF Inv
<1>4. CASE /\ Fails
           /\ gate' \in {gate} \cup (IF link /\ gate.key = key THEN {Taken} ELSE {})
           /\ UNCHANGED <<link, air, left, stuck>>
  <2>1. Follows(Taken, gate) /\ Follows(gate, gate) /\ Taken.key = gate.key
    BY <1>2 DEF Taken, Follows, GateStates
  <2>2. Follows(gate', gate) /\ gate' \in GateStates /\ gate'.key = gate.key
    BY <1>2, <1>4, <2>1 DEF Follows
  <2>3. pc' \in Over /\ outcome' = "raised" /\ disturbed' = TRUE
    BY <1>4 DEF Fails, Stops, Over
  <2>4. Types'
    BY <1>1, <1>2, <1>4, <2>2, <2>3 DEF Inv, Types
  <2>5. Quiet' /\ Keys'
    BY <1>1, <1>2, <2>2, <2>3 DEF Quiet, Keys, Early, Over
  <2>6. InAir'
    BY <1>1, <1>2, <1>4, <2>2, TellsMore DEF InAir
  <2>7. QED
    BY <2>4, <2>5, <2>6 DEF Inv
<1>5. QED
  BY <1>3, <1>4 DEF WritesMotor

\* The app's proof is the proof of its key.
LEMMA ExchangedIs ==
    ASSUME NEW payload, Exchanged(payload).key # NoKey
    PROVE  /\ Exchanged(payload).key \in SessionKeys
           /\ \E public : Exchanged(payload).proof =
                            Encrypt(MasterKey(public), <<Exchanged(payload).key>>)
<1> DEFINE fields == ParseTlvs(payload, soft)
           public == Field(fields, 1)
           random == Decrypt(MasterKey(public), Field(fields, 2))
           session == SessionKey(random, CodeMatches)
           complete == /\ fields # Truncated /\ LittleInt(Field(fields, 3), -1) = 0
                       /\ Len(public) = PublicKeyLength /\ random # <<>>
                       /\ LittleInt(Field(fields, 4), 0) = 0
           proof == Encrypt(MasterKey(public), <<session>>)
<1>1. Exchanged(payload) = IF complete THEN [key |-> session, proof |-> proof]
                           ELSE [key |-> NoKey, proof |-> <<>>]
  BY Zenon DEF Exchanged
<1>2. session \in SessionKeys
  BY KeysAre, Zenon
<1>3. \E other : proof = Encrypt(MasterKey(other), <<session>>)
  BY Zenon
<1> HIDE DEF complete, session, proof
<1>4. Exchanged(payload).key = session /\ Exchanged(payload).proof = proof
  BY <1>1
<1>5. QED
  BY <1>2, <1>3, <1>4

\* The proof is sent in a request that the gate can read.
LEMMA ProofWrites ==
    ASSUME Inv, pc = "keyExchange", NEW payload, KeyArrives(payload), ~Raises,
           UNCHANGED <<soft, written>>, Told(air, queue', soft, gate)
    PROVE  /\ key' \in SessionKeys /\ pc' = "authCheck"
           /\ gate' \in GateStates /\ Told(air', queue', soft', gate')
           /\ gate'.key # NoKey => key' = gate'.key
           /\ gate'.taken = gate.taken
           /\ link /\ UNCHANGED <<outcome, link, stuck>>
           /\ disturbed' \in BOOLEAN /\ left' = Timeout /\ IsFiniteSet(air')
<1> DEFINE e == Exchanged(payload)
           proof == MakeTlv(1, e.proof, soft)
<1>1. /\ e.key # NoKey /\ key' = e.key
      /\ Writes("authCheck", CMD_LOCAL_AUTH_CHECK, proof, 1, NoKey)
  BY DEF KeyArrives
<1>2. gate \in GateStates /\ gate.key = NoKey /\ IsFiniteSet(air)
  BY DEF Inv, Types, Keys, Early
<1> HIDE DEF e
<1>3. e.key \in SessionKeys
  BY <1>1, ExchangedIs DEF e
<1>4. PICK public : e.proof = Encrypt(MasterKey(public), <<e.key>>)
  BY <1>1, ExchangedIs DEF e
<1>5. e.key \in Byte /\ MasterKey(public) \in Int
  BY <1>3, KeysAre, SessionBytes DEF Byte
<1>6. Short(proof)
  BY <1>4, <1>5, ShortPayloads
<1>7. proof = Proof(soft) => e.key = Common
  BY <1>3, <1>4, ProofOfCommon
<1>8. CMD_LOCAL_AUTH_CHECK \in Command /\ CMD_LOCAL_AUTH_CHECK # CMD_SEND_TRANSPORT /\ 1 \in Nat
  BY Commands DEF Command
<1>9. Told(air, queue', soft', gate)
  OBVIOUS
<1> HIDE DEF proof
<1>10. /\ gate' \in GateStates /\ Told(air', queue', soft', gate')
       /\ gate'.key # gate.key => proof = Proof(soft')
       /\ gate'.taken = gate.taken
       /\ pc' = "authCheck" /\ link /\ UNCHANGED <<outcome, link, stuck>>
       /\ disturbed' \in BOOLEAN /\ left' = Timeout /\ IsFiniteSet(air')
  BY <1>1, <1>2, <1>6, <1>8, <1>9, Written
<1>11. gate'.key # NoKey => key' = gate'.key
  BY <1>1, <1>2, <1>7, <1>10 DEF GateStates
<1>12. QED
  BY <1>1, <1>3, <1>10, <1>11

\* An answer to the exchange of keys: the app only accepts a session key that the gate holds too.
LEMMA KeyArrivesInv ==
    ASSUME Inv, pc = "keyExchange", NEW payload, KeyArrives(payload),
           UNCHANGED <<soft, written>>, Told(air, queue', soft, gate)
    PROVE  Inv'
<1>1. CASE Raises
  <2>1. Stops("raised") /\ UNCHANGED <<link, key, air, left, gate, stuck, disturbed>>
    BY <1>1 DEF Raises
  <2>2. disturbed' \in BOOLEAN
    BY <2>1 DEF Inv, Types
  <2>3. QED
    BY <2>1, <2>2, Ended
<1>2. CASE ~Raises
  <2>1. /\ key' \in SessionKeys /\ pc' = "authCheck"
        /\ gate' \in GateStates /\ Told(air', queue', soft', gate')
        /\ gate'.key # NoKey => key' = gate'.key
        /\ link /\ UNCHANGED <<outcome, link, stuck>>
        /\ disturbed' \in BOOLEAN /\ left' = Timeout /\ IsFiniteSet(air')
    BY <1>2, ProofWrites
  <2>2. written \in Nat /\ ~(written > 0)
    BY DEF Inv, Types, Keys, Early
  <2>3. Types'
    BY <2>1, <2>2, RequestedIs, SessionAssumption DEF Inv, Types
  <2>4. Quiet' /\ Keys'
    BY <2>1, <2>2 DEF Quiet, Keys, Early
  <2>5. InAir'
    BY <2>1 DEF InAir
  <2>6. QED
    BY <2>3, <2>4, <2>5 DEF Inv
<1>3. QED
  BY <1>1, <1>2

\* An answer to the app's proof.
LEMMA ProofJudgedInv ==
    ASSUME Inv, pc = "authCheck", NEW f \in Flying(soft, gate), ReadAs(f).what = "answer",
           ProofJudged(ReadAs(f).payload), UNCHANGED <<soft, written>>, Told(air, queue', soft, gate)
    PROVE  Inv'
<1> DEFINE fields == ParseTlvs(ReadAs(f).payload, soft)
<1>1. \/ Raises
      \/ /\ LittleInt(Field(fields, 2), -1) = 0 /\ pc' = "settle"
         /\ UNCHANGED <<outcome, link, key, air, left, gate, stuck, disturbed>>
  BY DEF ProofJudged
<1>2. gate \in GateStates
  BY DEF Inv, Types
<1>3. CASE Raises
  <2>1. Stops("raised") /\ UNCHANGED <<link, key, air, left, gate, stuck, disturbed>>
    BY <1>3 DEF Raises
  <2>2. disturbed' \in BOOLEAN
    BY <2>1 DEF Inv, Types
  <2>3. QED
    BY <2>1, <2>2, Ended
<1>4. CASE /\ LittleInt(Field(fields, 2), -1) = 0 /\ pc' = "settle"
           /\ UNCHANGED <<outcome, link, key, air, left, gate, stuck, disturbed>>
  <2>1. gate.key = Common
    BY <1>2, <1>4, AcceptedHasKey
  <2> HIDE DEF fields
  <2>2. gate.key # NoKey
    BY <2>1, SessionBytes
  <2>3. Types'
    BY <1>4 DEF Inv, Types
  <2>4. Quiet' /\ Keys'
    BY <1>4, <2>2 DEF Inv, Quiet, Keys, Early
  <2>5. InAir'
    BY <1>4 DEF InAir
  <2>6. QED
    BY <2>3, <2>4, <2>5 DEF Inv
<1>5. QED
  BY <1>1, <1>3, <1>4

LEMMA ReceivesInv == Inv /\ Receives => Inv'
<1> SUFFICES ASSUME Inv, Receives PROVE Inv'
  OBVIOUS
<1> DEFINE f == Head(queue)
           read == ReadAs(f)
<1>1. /\ pc \in DOMAIN Requested /\ queue # <<>> /\ queue' = Tail(queue)
      /\ UNCHANGED <<soft, written>>
      /\ \/ read.what = "answer" /\ Answered(read.payload)
         \/ read.what = "error" /\ Raises
         \/ read.what = "ignored" /\ Ignores
  BY DEF Receives
<1>2. f \in Flying(soft, gate) /\ Told(air, queue', soft, gate)
  BY <1>1, HeadTailProperties DEF Inv, InAir, Told
<1>3. CASE Raises
  <2>1. Stops("raised") /\ UNCHANGED <<link, key, air, left, gate, stuck, disturbed>>
    BY <1>3 DEF Raises
  <2>2. disturbed' \in BOOLEAN
    BY <2>1 DEF Inv, Types
  <2>3. QED
    BY <1>1, <1>2, <2>1, <2>2, Ended
<1>4. CASE Ignores
  <2>1. UNCHANGED <<pc, outcome, link, key, air, left, gate, stuck, disturbed>>
    BY <1>4 DEF Ignores
  <2>2. Types'
    BY <1>1, <2>1 DEF Inv, Types
  <2>3. Quiet'
    BY <1>1, <2>1, RequestedIs DEF Inv, Quiet, Early
  <2>4. QED
    BY <1>1, <1>2, <2>1, <2>2, <2>3, Kept
<1> HIDE DEF f
<1>5. CASE read.what = "answer" /\ pc = "keyExchange" /\ KeyArrives(read.payload)
  BY <1>1, <1>2, <1>5, KeyArrivesInv
<1>6. CASE read.what = "answer" /\ pc = "authCheck" /\ ProofJudged(read.payload)
  BY <1>1, <1>2, <1>6, ProofJudgedInv
<1>7. CASE read.what = "answer" /\ pc = "motorReply" /\ MotorAnswers(read.payload)
  <2>1. PICK out \in {"returned", "raised"} : Stops(out)
    BY <1>7 DEF MotorAnswers
  <2>2. UNCHANGED <<link, key, air, left, gate, stuck, disturbed>>
    BY <1>7 DEF MotorAnswers
  <2>3. disturbed' \in BOOLEAN
    BY <2>2 DEF Inv, Types
  <2>4. QED
    BY <1>1, <1>2, <2>1, <2>2, <2>3, Ended
<1>8. QED
  BY <1>1, <1>3, <1>4, <1>5, <1>6, <1>7 DEF Answered

\* So every step keeps it.
LEMMA NextInv == Inv /\ [Next]_vars => Inv'
<1> SUFFICES ASSUME Inv, [Next]_vars PROVE Inv'
  OBVIOUS
<1>1. CASE UNCHANGED vars
  BY <1>1 DEF vars, Inv, Types, InAir, Told, Quiet, Keys
<1>2. CASE Next
  BY <1>2, OpensInv, OpenFailsInv, StartsInv, WritesMotorInv, ReceivesInv, DisconnectsInv, TickInv,
     NotificationInv, ChatsInv, CancelledInv, LinkDropsInv DEF Next
<1>3. QED
  BY <1>1, <1>2

\* A call keeps its types and its keys, and all that is in flight is something that the gate may have
\* said, under the lengths' width and the keys of its session (ble.py: the whole of a session).
THEOREM Invariant == Spec => []Inv
BY InitInv, NextInv, PTL DEF Spec

\* The motor value is only ever written to a gate that has accepted the proof, under the key
\* that the gate holds, whatever it says and does not say (async_send, async_authenticate).
THEOREM MotorNeedsProof == Spec => []OnlyAuthenticated
<1>1. Inv => OnlyAuthenticated
  BY DEF Inv, Keys, OnlyAuthenticated
<1>2. QED
  BY <1>1, Invariant, PTL

\* A change of a byte of any frame of a session is noticed (_parse_frame).
THEOREM ChangesNoticed == Spec => []ChangeIsNoticed
<1>1. ASSUME Inv PROVE ChangeIsNoticed
  <2> SUFFICES ASSUME NEW f \in air, NEW i \in DOMAIN f,
                      NEW byte \in {(f[i] + d) % 256 : d \in {1, 16, 128, 255}}
               PROVE  ParseFrame([f EXCEPT ![i] = byte], soft, gate.key) = Unreadable
    BY DEF ChangeIsNoticed
  <2>1. gate \in GateStates /\ f \in Flying(soft, gate)
    BY <1>1 DEF Inv, Types, InAir, Told
  <2>2. CASE f = << 0 >>
    <3>1. Len([f EXCEPT ![i] = byte]) < 9
      BY <2>2
    <3>2. QED
      BY <3>1, Zenon DEF ParseFrame
  <2>3. CASE f # << 0 >>
    <3>1. PICK c \in Word, p \in Bytes, k \in {NoKey, gate.key} :
             Short(p) /\ Said(c, p, k, soft, gate) /\ f = BuildFrame(c, p, 0, soft, k) /\ k \in Int
      BY <2>1, <2>3, InFlightIs
    <3>2. PICK s \in Nat : s = 0
      OBVIOUS
    <3>3. /\ f \in Bytes
          /\ \A j \in DOMAIN f : \A other \in Byte \ {f[j]} : \A any :
                ParseFrame([f EXCEPT ![j] = other], soft, any) = Unreadable
      <4> DEFINE frame == BuildFrame(c, p, s, soft, k)
      <4>1. /\ frame \in Bytes
            /\ \A j \in DOMAIN frame : \A other \in Byte \ {frame[j]} : \A any :
                  ParseFrame([frame EXCEPT ![j] = other], soft, any) = Unreadable
        BY <3>1, FrameOf
      <4>2. f = frame
        BY <3>1, <3>2
      <4> HIDE DEF frame
      <4>3. QED
        BY <4>1, <4>2
    <3>4. f[i] \in Byte
      BY <3>3, BytesAre
    <3>5. byte \in Byte \ {f[i]}
      <4>1. PICK d \in {1, 16, 128, 255} : byte = (f[i] + d) % 256
        OBVIOUS
      <4>2. QED
        BY <3>4, <4>1 DEF Byte
    <3>6. QED
      BY <3>3, <3>5
  <2>4. QED
    BY <2>2, <2>3
<1>2. QED
  BY <1>1, Invariant, PTL

------------------------------------------------------------------------------
(* What BleController says of a call                                        *)

\* The end of a session is the end of a call, with its outcome.
LEMMA CallExits ==
    ASSUME pc \notin {"new", "over"}, pc' = "over", NEW out, outcome' = out
    PROVE  Call!Exits("call", out)
<1>1. Call!Unlocks("call")
  BY DEF Call!Unlocks, Call!RemoveAt
<1>2. Call!Goto("call", "over") /\ Call!EndsWith("call", out)
  BY DEF Call!Goto, Call!EndsWith
<1>3. QED
  BY <1>1, <1>2 DEF Call!Exits

\* The finally clause of a session is the one of a call.
LEMMA CallEnds ==
    ASSUME pc \notin {"new", "over"}, NEW out, Stops(out)
    PROVE  Call!Finally("call", out)
<1>1. CASE link
  <2>1. pc' = "disconnect" /\ outcome' = out
    BY <1>1 DEF Stops
  <2>2. QED
    BY <1>1, <2>1 DEF Call!Finally, Call!Goto, Call!EndsWith
<1>2. CASE ~link
  <2>1. pc' = "over" /\ outcome' = out
    BY <1>2 DEF Stops
  <2>2. Call!Exits("call", out)
    BY <2>1, CallExits
  <2>3. QED
    BY <1>2, <2>2 DEF Call!Finally
<1>3. QED
  BY <1>1, <1>2

\* BleController's variables, as functions of the session's.
CallState == <<pc, outcome, link, written, gate.taken, stuck>>

\* BleController does not see a step that keeps CallState.
LEMMA CallStutters == UNCHANGED CallState => UNCHANGED Call!vars
BY DEF CallState, Call!vars

\* The start of a session is the start of a controller with one call.
LEMMA CallInit == Init => Call!Init
BY DEF Init, Call!Init

\* The steps of a session are steps of a controller with one call, one action after the other.
LEMMA CallOpens ==
    ASSUME Inv, Opens PROVE Call!Next
<1>1. /\ UNCHANGED <<outcome, written, gate, stuck>>
      /\ \/ pc = "new" /\ pc' = "lock" /\ link' = FALSE
         \/ pc = "lock" /\ pc' = "connection" /\ link' = FALSE
         \/ pc = "connection" /\ pc' = "start" /\ link' = TRUE
  BY DEF Opens, Reaches
<1>2. pc \in {"new", "lock", "connection"} => ~link
  BY DEF Inv, Quiet, Early
<1>3. CASE pc = "new"
  <2>1. Call!AsyncSend("call")
    BY <1>1, <1>2, <1>3 DEF Call!AsyncSend, Call!Goto
  <2>2. QED
    BY <2>1 DEF Call!Next
<1>4. CASE pc = "lock"
  <2>1. Call!FindsDevice("call")
    BY <1>1, <1>2, <1>4 DEF Call!FindsDevice, Call!Goto, Call!HasLock
  <2>2. QED
    BY <2>1 DEF Call!Next, Call!Continues
<1>5. CASE pc = "connection"
  <2>1. Call!Connects("call")
    BY <1>1, <1>2, <1>5 DEF Call!Connects, Call!Goto
  <2>2. QED
    BY <2>1 DEF Call!Next, Call!Continues
<1>6. QED
  BY <1>1, <1>3, <1>4, <1>5

LEMMA CallOpenFails ==
    ASSUME Inv, OpenFails PROVE Call!Next
<1>1. pc \in {"lock", "connection"} /\ Stops("raised") /\ UNCHANGED <<link, written, gate, stuck>>
  BY DEF OpenFails, Fails
<1>2. ~link
  BY <1>1 DEF Inv, Quiet, Early
<1>3. Call!Exits("call", "raised")
  BY <1>1, <1>2, CallExits DEF Stops
<1>4. Call!FindsDevice("call") \/ Call!Connects("call")
  BY <1>1, <1>2, <1>3 DEF Call!FindsDevice, Call!Connects, Call!HasLock
<1>5. QED
  BY <1>4 DEF Call!Next, Call!Continues

\* A session that fails before the motor request, in whatever way.
LEMMA CallGivesUp ==
    ASSUME pc \in {"start", "keyExchange", "authCheck"}, Stops("raised"),
           UNCHANGED <<link, written, gate, stuck>>
    PROVE  Call!Next
<1>1. Call!Finally("call", "raised")
  BY CallEnds
<1>2. Call!Advances("call")
  BY <1>1 DEF Call!Advances, Call!NextPhase
<1>3. QED
  BY <1>2 DEF Call!Next, Call!Continues

\* A session that goes on to its next phase.
LEMMA CallAdvances ==
    ASSUME \/ pc = "start" /\ pc' = "keyExchange" /\ link
           \/ pc = "keyExchange" /\ pc' = "authCheck" /\ link
           \/ pc = "authCheck" /\ pc' = "settle",
           UNCHANGED <<outcome, link, written, gate.taken, stuck>>
    PROVE  Call!Next
<1>1. Call!Advances("call")
  BY DEF Call!Advances, Call!NextPhase, Call!Goto
<1>2. QED
  BY <1>1 DEF Call!Next, Call!Continues

\* The wait of the motor request ends.
LEMMA CallAnswered ==
    ASSUME pc = "motorReply", NEW out \in {"returned", "raised"}, Stops(out),
           out = "returned" => gate.taken,
           UNCHANGED <<link, written, gate, stuck>>
    PROVE  Call!Next
<1>1. Call!Finally("call", out)
  BY CallEnds
<1>2. Call!MotorAnswered("call")
  BY <1>1 DEF Call!MotorAnswered
<1>3. QED
  BY <1>2 DEF Call!Next, Call!Continues

LEMMA CallWritesMotor ==
    ASSUME Inv, WritesMotor PROVE Call!Next
<1>1. pc = "settle" /\ written' = written + 1 /\ UNCHANGED <<soft, key, queue>>
  BY DEF WritesMotor
<1>2. gate \in GateStates /\ key = gate.key /\ Told(air, queue', soft', gate)
  BY <1>1 DEF Inv, Types, Keys, InAir
<1>3. /\ UNCHANGED <<link, stuck>>
      /\ gate'.taken \in {gate.taken} \cup (IF link THEN {TRUE} ELSE {})
      /\ \/ link /\ pc' = "motorReply" /\ UNCHANGED outcome
         \/ Stops("raised")
  <2>1. CASE Writes("motorReply", CMD_SEND_TRANSPORT, BuildMotorFrame("open"), 2, key)
    <3>1. CMD_SEND_TRANSPORT \in Command /\ 2 \in Nat
      BY Commands DEF Command
    <3>2. /\ Follows(gate', gate) /\ gate' \in GateStates
          /\ pc' = "motorReply" /\ link /\ UNCHANGED <<outcome, link, stuck>>
      BY <1>2, <2>1, <3>1, Written, ShortMotorFrame
    <3>3. gate.taken \in BOOLEAN /\ gate'.taken \in BOOLEAN /\ (gate.taken => gate'.taken)
      BY <1>2, <3>2 DEF Follows, GateStates
    <3>4. gate'.taken = gate.taken \/ gate'.taken = TRUE
      BY <3>3
    <3>5. QED
      BY <3>2, <3>4
  <2>2. CASE /\ Fails
             /\ gate' \in {gate} \cup (IF link /\ gate.key = key THEN {Taken} ELSE {})
             /\ UNCHANGED <<link, air, left, stuck>>
    BY <1>2, <2>2 DEF Fails, Taken, GateStates
  <2>3. QED
    BY <2>1, <2>2 DEF WritesMotor
<1>4. Stops("raised") => Call!Finally("call", "raised")
  BY <1>1, CallEnds
<1>5. Call!WritesMotor("call")
  BY <1>1, <1>2, <1>3, <1>4 DEF Call!WritesMotor, Call!Goto, GateStates
<1>6. QED
  BY <1>5 DEF Call!Next, Call!Continues

LEMMA CallReceives ==
    ASSUME Inv, Receives PROVE Call!Next \/ UNCHANGED Call!vars
<1> DEFINE f == Head(queue)
           read == ReadAs(f)
<1>1. /\ pc \in DOMAIN Requested /\ queue # <<>> /\ queue' = Tail(queue)
      /\ UNCHANGED <<soft, written>>
      /\ \/ read.what = "answer" /\ Answered(read.payload)
         \/ read.what = "error" /\ Raises
         \/ read.what = "ignored" /\ Ignores
  BY DEF Receives
<1>2. f \in Flying(soft, gate) /\ Told(air, queue', soft, gate) /\ gate \in GateStates
  BY <1>1, HeadTailProperties DEF Inv, Types, InAir, Told
<1>3. CASE Ignores
  BY <1>1, <1>3, CallStutters DEF Ignores, CallState
<1>4. CASE Raises
  <2>1. Stops("raised") /\ UNCHANGED <<link, gate, stuck>>
    BY <1>4 DEF Raises
  <2>2. CASE pc = "motorReply"
    BY <1>1, <2>1, <2>2, CallAnswered
  <2>3. CASE pc # "motorReply"
    BY <1>1, <2>1, <2>3, CallGivesUp, RequestedIs
  <2>4. QED
    BY <2>2, <2>3
<1> HIDE DEF f
<1>5. CASE read.what = "answer" /\ pc = "keyExchange" /\ KeyArrives(read.payload) /\ ~Raises
  <2>1. /\ pc' = "authCheck" /\ gate'.taken = gate.taken /\ link
        /\ UNCHANGED <<outcome, link, stuck>>
    BY <1>1, <1>2, <1>5, ProofWrites
  <2>2. QED
    BY <1>1, <1>5, <2>1, CallAdvances
<1>6. CASE read.what = "answer" /\ pc = "authCheck" /\ ProofJudged(read.payload) /\ ~Raises
  <2>1. pc' = "settle" /\ UNCHANGED <<outcome, link, gate, stuck>>
    BY <1>6 DEF ProofJudged
  <2>2. QED
    BY <1>1, <1>6, <2>1, CallAdvances
<1>7. CASE read.what = "answer" /\ pc = "motorReply" /\ MotorAnswers(read.payload)
  <2>1. key = gate.key
    BY <1>7 DEF Inv, Keys
  <2>2. PICK out \in {"returned", "raised"} :
           Stops(out) /\ (out = "returned" => ValidMotorResponse(read.payload))
    BY <1>7 DEF MotorAnswers
  <2>3. UNCHANGED <<link, gate, stuck>>
    BY <1>7 DEF MotorAnswers
  <2>4. out = "returned" => gate.taken
    BY <1>2, <1>7, <2>1, <2>2, ValidWasTaken
  <2>5. QED
    BY <1>1, <1>7, <2>2, <2>3, <2>4, CallAnswered
<1>8. QED
  BY <1>1, <1>3, <1>4, <1>5, <1>6, <1>7 DEF Answered

LEMMA CallTimesOut ==
    ASSUME TimesOut PROVE Call!Next
<1>1. pc \in DOMAIN Requested /\ Stops("raised") /\ UNCHANGED <<link, gate, written, stuck>>
  BY DEF TimesOut
<1>2. CASE pc = "motorReply"
  BY <1>1, <1>2, CallAnswered
<1>3. CASE pc # "motorReply"
  BY <1>1, <1>3, CallGivesUp, RequestedIs
<1>4. QED
  BY <1>2, <1>3

LEMMA CallDisconnects ==
    ASSUME Inv, Disconnects PROVE Call!Next
<1>1. /\ pc = "disconnect" /\ pc' = "over" /\ UNCHANGED <<outcome, gate, written>>
      /\ \/ link' = FALSE /\ UNCHANGED stuck
         \/ stuck' = TRUE /\ UNCHANGED link
  BY DEF Disconnects
<1>2. Call!Exits("call", outcome)
  BY <1>1, CallExits
<1>3. Call!Disconnects("call")
  BY <1>1, <1>2 DEF Call!Disconnects
<1>4. QED
  BY <1>3 DEF Call!Next, Call!Continues

LEMMA CallCancelled ==
    ASSUME Inv, Cancelled PROVE Call!Next
<1>1. pc \notin {"new", "over"} /\ UNCHANGED <<link, gate, written>>
  BY DEF Cancelled
<1>2. CASE pc = "disconnect"
  <2>1. pc' = "over" /\ outcome' = "raised" /\ stuck' = TRUE
    BY <1>2 DEF Cancelled
  <2>2. Call!Exits("call", "raised")
    BY <1>2, <2>1, CallExits
  <2>3. Call!Cancelled("call")
    BY <1>1, <1>2, <2>1, <2>2 DEF Call!Cancelled
  <2>4. QED
    BY <2>3 DEF Call!Next
<1>3. CASE pc # "disconnect"
  <2>1. Stops("raised") /\ UNCHANGED stuck
    BY <1>3 DEF Cancelled, Fails
  <2>2. CASE pc \in {"lock", "connection"}
    <3>1. ~link
      BY <2>2 DEF Inv, Quiet, Early
    <3>2. Call!Exits("call", "raised")
      BY <1>1, <2>1, <3>1, CallExits DEF Stops
    <3>3. Call!Cancelled("call")
      BY <1>1, <2>1, <2>2, <3>2 DEF Call!Cancelled
    <3>4. QED
      BY <3>3 DEF Call!Next
  <2>3. CASE pc \notin {"lock", "connection"}
    <3>1. pc \in {"start", "keyExchange", "authCheck", "settle", "motorReply"}
      BY <1>1, <1>3, <2>3, RequestedIs DEF Inv, Types, Early, Over
    <3>2. Call!Finally("call", "raised")
      BY <1>1, <2>1, CallEnds
    <3>3. Call!Cancelled("call")
      BY <1>1, <2>1, <3>1, <3>2 DEF Call!Cancelled
    <3>4. QED
      BY <3>3 DEF Call!Next
  <2>4. QED
    BY <2>2, <2>3
<1>4. QED
  BY <1>2, <1>3

\* So every step of a session is a step of the controller or a stutter.
LEMMA CallNext ==
    ASSUME Inv, [Next]_vars PROVE Call!Next \/ UNCHANGED Call!vars
<1>1. CASE UNCHANGED vars
  BY <1>1, CallStutters DEF vars, CallState
<1>2. CASE Tick \/ Notification \/ Chats
  BY <1>2, CallStutters DEF Tick, Notification, Chats, CallState
<1>3. CASE Starts
  <2>1. /\ pc = "start" /\ pc' = "keyExchange" /\ link /\ gate'.taken = gate.taken
        /\ UNCHANGED <<outcome, link, written, stuck>>
    BY <1>3, StartsWrites
  <2>2. QED
    BY <2>1, CallAdvances
<1>4. CASE SessionFails
  BY <1>4, CallGivesUp DEF SessionFails, Fails
<1>5. CASE LinkDrops
  <2>1. Call!LinkDrops
    BY <1>5 DEF LinkDrops, Call!LinkDrops
  <2>2. QED
    BY <2>1 DEF Call!Next
<1>6. QED
  BY <1>1, <1>2, <1>3, <1>4, <1>5, CallOpens, CallOpenFails, CallWritesMotor, CallReceives,
     CallTimesOut, CallDisconnects, CallCancelled DEF Next

\* A session is a call as BleController has it: it goes on only over a live link, and returns
\* only if the gate took the motor value, which no frame but the gate's own agreement to it
\* makes the app believe (async_send, async_authenticate, _validate_motor_response).
THEOREM SessionImplementsCall == Spec => ImplementsCall
<1>1. Inv /\ [Next]_vars => [Call!Next]_Call!vars
  BY CallNext
<1>2. QED
  BY <1>1, CallInit, Invariant, PTL DEF Spec, ImplementsCall, Call!Spec

------------------------------------------------------------------------------
(* A call that nothing disturbs                                             *)

\* The answers that the app hopes for, and the frames that it ignores.
Payload(v) == [keyExchange |-> KeyAnswer(v), authCheck |-> MakeTlv(2, << 0 >>, v),
               motorReply |-> MotorResponse(0)]
HopedKey == [keyExchange |-> NoKey, authCheck |-> NoKey, motorReply |-> Common]
HopedFor(phase, v) == Sends(Requested[phase], Payload(v)[phase], v, HopedKey[phase])

Event(v) == Sends(4097, <<>>, v, NoKey)

\* Those that may be in flight in a phase: the motor's answer only in its own.
Calm(phase, v) ==
    {Event(v), CommonReply(4097, 0, v), HopedFor("keyExchange", v), HopedFor("authCheck", v)}
        \cup (IF phase = "motorReply" THEN {HopedFor("motorReply", v)} ELSE {})

Coming(f, a, q) == f \in a \/ \E i \in 1..Len(q) : q[i] = f

\* A call that is going well: what the app waits for is on its way, and in time.
Going ==
    /\ outcome # "raised"
    /\ pc \in {"start", "settle"} \cup DOMAIN Requested => link
    /\ pc \in {"settle"} \cup DOMAIN Requested =>
          air \subseteq Calm(pc, soft) /\ queue \in Seq(Calm(pc, soft))
    /\ pc \in DOMAIN Requested => left > 0 /\ Coming(HopedFor(pc, soft), air, queue)

Undisturbed == ~disturbed /\ CodeMatches => Going

\* How the app reads a frame, if it can.
LEMMA ReadsFrame ==
    ASSUME NEW c \in Word, NEW p, Short(p), NEW k \in Int,
           k # NoKey => ReadKey = k, NEW v
    PROVE  /\ ParseFrame(Sends(c, p, v, k), v, ReadKey) = [command |-> c, payload |-> p]
           /\ [command |-> c, payload |-> p] # Unreadable
           /\ Sends(c, p, v, k) # NoFrame
<1> DEFINE read == [command |-> c, payload |-> p]
           frame == Sends(c, p, v, k)
<1>1. PICK s \in Nat : s = 0
  OBVIOUS
<1>2. frame = BuildFrame(c, p, s, v, k)
  BY <1>1 DEF Sends
<1>3. /\ ParseFrame(BuildFrame(c, p, s, v, k), v, k) = read /\ read # Unreadable
      /\ k = NoKey => \A other : ParseFrame(BuildFrame(c, p, s, v, k), v, other) = read
      /\ BuildFrame(c, p, s, v, k) # <<>>
  BY FrameOf
<1> HIDE DEF read, frame
<1>4. ParseFrame(frame, v, ReadKey) = read /\ frame # NoFrame
  BY <1>2, <1>3, Zenon DEF NoFrame
<1>5. QED
  BY <1>3, <1>4, Zenon DEF read, frame

\* The answers that the app hopes for are short payloads of the requests' commands.
LEMMA PayloadsAre ==
    ASSUME NEW v, NEW phase \in DOMAIN Requested
    PROVE  /\ Short(Payload(v)[phase]) /\ Requested[phase] \in Word
           /\ HopedKey[phase] = (IF phase = "motorReply" THEN Common ELSE NoKey)
           /\ HopedKey[phase] \in Int
<1>1. /\ Payload(v)["keyExchange"] = KeyAnswer(v)
      /\ Payload(v)["authCheck"] = MakeTlv(2, << 0 >>, v)
      /\ Payload(v)["motorReply"] = MotorResponse(0)
  BY DEF Payload
<1>2. Short(KeyAnswer(v)) /\ Short(MakeTlv(2, << 0 >>, v)) /\ Short(MotorResponse(0))
  BY SessionBytes, ShortPayloads, ShortMotorResponse
<1>3. HopedKey[phase] = IF phase = "motorReply" THEN Common ELSE NoKey
  BY RequestedIs DEF HopedKey
<1>4. Requested[phase] \in Word
  BY RequestedIs, Commands
<1>5. phase \in {"keyExchange", "authCheck", "motorReply"}
  BY RequestedIs
<1>6. Short(Payload(v)[phase])
  BY <1>1, <1>2, <1>5
<1>7. QED
  BY <1>3, <1>4, <1>6, SessionBytes

\* The app takes the answer it hopes for, and ignores the other frames.
LEMMA ReadsCalm ==
    ASSUME pc \in DOMAIN Requested, pc = "motorReply" => ReadKey = Common, NEW f \in Calm(pc, soft)
    PROVE  \/ /\ f = HopedFor(pc, soft)
              /\ ReadAs(f).what = "answer" /\ ReadAs(f).payload = Payload(soft)[pc]
           \/ f # HopedFor(pc, soft) /\ ReadAs(f).what = "ignored"
<1>1. ASSUME NEW phase \in DOMAIN Requested, phase = "motorReply" => pc = phase
      PROVE  /\ ParseFrame(HopedFor(phase, soft), soft, ReadKey) =
                   [command |-> Requested[phase], payload |-> Payload(soft)[phase]]
             /\ ParseFrame(HopedFor(phase, soft), soft, ReadKey) # Unreadable
  <2>1. /\ Short(Payload(soft)[phase]) /\ Requested[phase] \in Word
        /\ HopedKey[phase] \in Int /\ (HopedKey[phase] # NoKey => ReadKey = HopedKey[phase])
    BY <1>1, PayloadsAre
  <2>2. QED
    BY <2>1, ReadsFrame DEF HopedFor
<1>2. ReadAs(HopedFor(pc, soft)).what = "answer" /\ ReadAs(HopedFor(pc, soft)).payload = Payload(soft)[pc]
  BY <1>1, ReadAsIs
<1>3. ASSUME NEW phase \in DOMAIN Requested, phase # pc, phase # "motorReply"
      PROVE  ReadAs(HopedFor(phase, soft)).what = "ignored"
  <2>1. Requested[phase] # Requested[pc] /\ Requested[phase] # CMD_COMMON_REPLY
    BY <1>3, RequestedIs, Commands
  <2>2. QED
    BY <1>1, <1>3, <2>1, ReadAsIs
<1>4. NoKey \in Int /\ 4097 \in Word /\ CMD_COMMON_REPLY \in Word /\ Requested[pc] # 4097
  BY SessionBytes, Commands, RequestedIs
<1>5. ReadAs(Event(soft)).what = "ignored"
  <2>1. /\ ParseFrame(Event(soft), soft, ReadKey) = [command |-> 4097, payload |-> <<>>]
        /\ ParseFrame(Event(soft), soft, ReadKey) # Unreadable
    BY <1>4, ReadsFrame, ShortPayloads DEF Event
  <2>2. QED
    BY <1>4, <2>1, ReadAsIs, Commands
<1>6. ReadAs(CommonReply(4097, 0, soft)).what = "ignored"
  <2> DEFINE p == CommonPayload(4097, 0, soft)
  <2>1. /\ ParseTlvs(p, soft) # Truncated
        /\ LittleInt(Field(ParseTlvs(p, soft), 2), -1) = 4097
    BY <1>4, SessionBytes, CommonRead
  <2>2. Short(p)
    <3>1. \A c \in Word, x \in Byte : Short(CommonPayload(c, x, soft))
      BY ShortPayloads
    <3>2. 0 \in Byte
      BY SessionBytes
    <3>3. PICK c \in Word, x \in Byte : c = 4097 /\ x = 0
      BY <1>4, <3>2
    <3>4. Short(CommonPayload(c, x, soft))
      BY <3>1
    <3>5. QED
      BY <3>3, <3>4
  <2>3. CommonReply(4097, 0, soft) = Sends(CMD_COMMON_REPLY, p, soft, NoKey)
    BY DEF CommonReply, CommonPayload
  <2> HIDE DEF p
  <2>4. /\ ParseFrame(CommonReply(4097, 0, soft), soft, ReadKey) =
             [command |-> CMD_COMMON_REPLY, payload |-> p]
        /\ ParseFrame(CommonReply(4097, 0, soft), soft, ReadKey) # Unreadable
    BY <1>4, <2>2, <2>3, ReadsFrame
  <2>5. Requested[pc] # CMD_COMMON_REPLY
    BY RequestedIs
  <2>6. QED
    BY <1>4, <2>1, <2>4, <2>5, ReadAsIs
<1>7. CASE f = HopedFor(pc, soft)
  BY <1>2, <1>7
<1>8. CASE f # HopedFor(pc, soft)
  <2>1. \/ f \in {Event(soft), CommonReply(4097, 0, soft)}
        \/ \E phase \in {"keyExchange", "authCheck"} : f = HopedFor(phase, soft)
    BY <1>8 DEF Calm
  <2>2. \A phase \in {"keyExchange", "authCheck"} : phase \in DOMAIN Requested /\ phase # "motorReply"
    BY RequestedIs
  <2>3. QED
    BY <1>3, <1>5, <1>6, <1>8, <2>1, <2>2
<1>9. QED
  BY <1>7, <1>8

\* With the right code the app computes the key that the gate has, and its proof.
LEMMA ExchangeAgrees ==
    ASSUME CodeMatches
    PROVE  /\ Exchanged(KeyAnswer(soft)).key = Common
           /\ MakeTlv(1, Exchanged(KeyAnswer(soft)).proof, soft) = Proof(soft)
<1> DEFINE fields == ParseTlvs(KeyAnswer(soft), soft)
           public == Field(fields, 1)
           random == Decrypt(MasterKey(public), Field(fields, 2))
           session == SessionKey(random, CodeMatches)
           complete == /\ fields # Truncated /\ LittleInt(Field(fields, 3), -1) = 0
                       /\ Len(public) = PublicKeyLength /\ random # <<>>
                       /\ LittleInt(Field(fields, 4), 0) = 0
           proof == Encrypt(MasterKey(public), <<session>>)
           e == Exchanged(KeyAnswer(soft))
<1>1. e = IF complete THEN [key |-> session, proof |-> proof] ELSE [key |-> NoKey, proof |-> <<>>]
  BY Zenon DEF Exchanged
<1>2. /\ fields # Truncated /\ public = GatePublic
      /\ Field(fields, 2) = Encrypt(MasterKey(GatePublic), Random)
      /\ Field(fields, 3) = << 0 >> /\ Field(fields, 4) = <<>>
  BY KeyRead
<1>3. random = Random
  <2>1. Decrypt(MasterKey(GatePublic), Encrypt(MasterKey(GatePublic), Random)) = Random
    BY SessionBytes, CipherRoundTrip
  <2>2. QED
    BY <1>2, <2>1
<1> HIDE DEF fields, e
<1>4. session = Common
  <2>1. CodeMatches = TRUE
    BY SessionAssumption
  <2>2. QED
    BY <1>3, <2>1, Zenon DEF Common
<1>5. Random # <<>> /\ Len(GatePublic) = PublicKeyLength
  BY DEF Random, GatePublic, PublicKeyLength
<1>6. LittleInt(<< 0 >>, -1) = 0 /\ LittleInt(<<>>, 0) = 0
  BY SessionBytes, NumbersRead
<1>7. complete
  BY <1>2, <1>3, <1>5, <1>6
<1> HIDE DEF complete, session, public, random
<1>8. e.key = session /\ e.proof = proof
  BY <1>1, <1>7
<1>9. e.key = Common /\ e.proof = Encrypt(MasterKey(GatePublic), <<Common>>)
  BY <1>2, <1>4, <1>8
<1>10. QED
  BY <1>9 DEF Proof, e

\* A good reaction to a request brings the answer that the app hopes for.
LEMMA GoodReaction ==
    ASSUME gate \in GateStates, NEW phase \in DOMAIN Requested, NEW p, Short(p), NEW s \in Nat, NEW v,
           NEW k \in {NoKey, gate.key},
           NEW r \in Reactions(BuildFrame(Requested[phase], p, s, v, k), v), r.good,
           phase = "motorReply" => gate.key = Common
    PROVE  r.frame = HopedFor(phase, v) /\ r.frame # NoFrame
<1> DEFINE c == Requested[phase]
<1>1. c \in Command
  BY RequestedIs
<1>2. Obeys(r, c, p, v)
  BY <1>1, RequestReacts
<1>3. HopedFor(phase, v) = Sends(c, Payload(v)[phase], v, HopedKey[phase])
  BY DEF HopedFor
<1>4. HopedKey[phase] = IF phase = "motorReply" THEN gate.key ELSE NoKey
  BY PayloadsAre
<1>5. r.frame = HopedFor(phase, v)
  <2>1. CASE phase = "keyExchange"
    <3>1. c = CMD_LOCAL_AUTH_PUBKEY /\ Payload(v)[phase] = KeyAnswer(v)
      BY <2>1, RequestedIs DEF Payload
    <3>2. QED
      BY <1>2, <1>3, <1>4, <2>1, <3>1, Commands DEF Obeys
  <2>2. CASE phase = "authCheck"
    <3>1. c = CMD_LOCAL_AUTH_CHECK /\ Payload(v)[phase] = MakeTlv(2, << 0 >>, v)
      BY <2>2, RequestedIs DEF Payload
    <3>2. QED
      BY <1>2, <1>3, <1>4, <2>2, <3>1, Commands DEF Obeys
  <2>3. CASE phase = "motorReply"
    <3>1. c = CMD_SEND_TRANSPORT /\ Payload(v)[phase] = MotorResponse(0)
      BY <2>3, RequestedIs DEF Payload
    <3>2. QED
      BY <1>2, <1>3, <1>4, <2>3, <3>1, Commands DEF Obeys
  <2>4. QED
    BY <2>1, <2>2, <2>3, RequestedIs
<1>6. HopedFor(phase, v) # NoFrame
  <2>1. Short(Payload(v)[phase]) /\ Requested[phase] \in Word /\ HopedKey[phase] \in Int
    BY PayloadsAre
  <2>2. PICK z \in Nat : z = 0
    OBVIOUS
  <2>3. BuildFrame(Requested[phase], Payload(v)[phase], z, v, HopedKey[phase]) # <<>>
    BY <2>1, FrameOf
  <2>4. QED
    BY <2>2, <2>3 DEF HopedFor, Sends, NoFrame
<1>7. QED
  BY <1>5, <1>6

\* What may be in flight in a phase may be in flight in the next one.
LEMMA CalmGrows ==
    ASSUME NEW phase \in {"start", "settle"} \cup DOMAIN Requested, phase # "motorReply", NEW next, NEW v
    PROVE  /\ Calm(phase, v) \subseteq Calm(next, v)
           /\ Seq(Calm(phase, v)) \subseteq Seq(Calm(next, v))
<1>1. Calm(phase, v) \subseteq Calm(next, v)
  BY DEF Calm
<1>2. QED
  BY <1>1, SeqMonotonic, Zenon

\* What the app hopes for does not disturb it.
LEMMA HopedIsCalm == \A phase \in DOMAIN Requested : \A v : HopedFor(phase, v) \in Calm(phase, v)
BY RequestedIs DEF Calm

\* A request that the gate complies with leaves the call going.
LEMMA GoodWrite ==
    ASSUME gate \in GateStates, NEW phase \in DOMAIN Requested, NEW p, Short(p), NEW s \in Nat,
           NEW k \in {NoKey, gate.key}, phase = "motorReply" => gate.key = Common,
           Writes(phase, Requested[phase], p, s, k), ~disturbed', outcome # "raised",
           air \subseteq Calm(phase, soft'), queue' \in Seq(Calm(phase, soft'))
    PROVE  Going'
<1>1. /\ pc' = phase /\ left' = Timeout /\ link /\ UNCHANGED <<outcome, link>>
      /\ \E r \in Reactions(BuildFrame(Requested[phase], p, s, soft', k), soft') :
           /\ gate' = r.gate
           /\ air' = IF r.frame = NoFrame THEN air ELSE air \cup {r.frame}
           /\ disturbed' = (disturbed \/ ~r.good)
  BY Zenon DEF Writes
<1>2. PICK r \in Reactions(BuildFrame(Requested[phase], p, s, soft', k), soft') :
         /\ air' = IF r.frame = NoFrame THEN air ELSE air \cup {r.frame}
         /\ r.good
  BY <1>1, Zenon
<1>3. r.frame = HopedFor(phase, soft') /\ r.frame # NoFrame
  BY <1>2, GoodReaction
<1>4. air' = air \cup {HopedFor(phase, soft')}
  BY <1>2, <1>3, Zenon
<1>5. air' \subseteq Calm(phase, soft') /\ Coming(HopedFor(phase, soft'), air', queue')
  BY <1>4, HopedIsCalm DEF Coming
<1>6. left' > 0
  BY <1>1, SessionAssumption
<1>7. QED
  BY <1>1, <1>5, <1>6 DEF Going

\* The steps of an undisturbed call keep Going, one action after the other.
LEMMA StartsGoing ==
    ASSUME Inv, Undisturbed, CodeMatches, Starts, ~disturbed'
    PROVE  Going'
<1>1. /\ pc = "start" /\ UNCHANGED queue
      /\ Writes("keyExchange", CMD_LOCAL_AUTH_PUBKEY, MakeTlv(1, AppPublic, soft'), 0, NoKey)
  BY DEF Starts
<1>2. ~disturbed
  BY <1>1 DEF Writes, Inv, Types
<1>3. gate \in GateStates /\ air = {} /\ queue = <<>> /\ outcome # "raised"
  BY <1>1, <1>2 DEF Inv, Types, Quiet, Early, Undisturbed, Going
<1>4. /\ Short(MakeTlv(1, AppPublic, soft')) /\ "keyExchange" \in DOMAIN Requested
      /\ Requested["keyExchange"] = CMD_LOCAL_AUTH_PUBKEY /\ 0 \in Nat
  BY ShortPayloads, RequestedIs
<1>5. air \subseteq Calm("keyExchange", soft') /\ queue' \in Seq(Calm("keyExchange", soft'))
  BY <1>1, <1>3, EmptySeq
<1>6. Writes("keyExchange", Requested["keyExchange"], MakeTlv(1, AppPublic, soft'), 0, NoKey)
  BY <1>1, <1>4
<1>7. QED
  BY <1>3, <1>4, <1>5, <1>6, GoodWrite

LEMMA WritesMotorGoing ==
    ASSUME Inv, Undisturbed, CodeMatches, WritesMotor, ~disturbed'
    PROVE  Going'
<1>1. /\ pc = "settle" /\ soft' = soft /\ UNCHANGED queue
      /\ Writes("motorReply", CMD_SEND_TRANSPORT, BuildMotorFrame("open"), 2, key)
  BY DEF WritesMotor, Fails
<1>2. ~disturbed
  BY <1>1 DEF Writes, Inv, Types
<1>3. /\ gate \in GateStates /\ gate.key = Common /\ key = gate.key /\ outcome # "raised"
      /\ air \subseteq Calm("settle", soft) /\ queue \in Seq(Calm("settle", soft))
  BY <1>1, <1>2 DEF Inv, Types, Keys, GateStates, Undisturbed, Going
<1>4. /\ "motorReply" \in DOMAIN Requested /\ Requested["motorReply"] = CMD_SEND_TRANSPORT /\ 2 \in Nat
  BY RequestedIs
<1>5. air \subseteq Calm("motorReply", soft') /\ queue' \in Seq(Calm("motorReply", soft'))
  BY <1>1, <1>3, CalmGrows
<1>6. Writes("motorReply", Requested["motorReply"], BuildMotorFrame("open"), 2, key)
  BY <1>1, <1>4
<1>7. QED
  BY <1>3, <1>4, <1>5, <1>6, GoodWrite, ShortMotorFrame

\* The gate's key: the app computes the same, and proves it.
LEMMA KeyArrivesGoing ==
    ASSUME Inv, Undisturbed, CodeMatches, ~disturbed', pc = "keyExchange",
           KeyArrives(KeyAnswer(soft)), UNCHANGED soft, queue' \in Seq(Calm(pc, soft))
    PROVE  Going'
<1> DEFINE e == Exchanged(KeyAnswer(soft))
<1>1. e.key = Common /\ MakeTlv(1, e.proof, soft) = Proof(soft)
  BY ExchangeAgrees
<1>2. \/ (e.key = NoKey \/ ~link) /\ Raises
      \/ e.key # NoKey /\ link /\ Writes("authCheck", CMD_LOCAL_AUTH_CHECK, MakeTlv(1, e.proof, soft), 1, NoKey)
  BY Zenon DEF KeyArrives
<1> HIDE DEF e
<1>3. ~disturbed
  BY <1>2 DEF Raises, Writes, Inv, Types
<1>4. /\ gate \in GateStates /\ link /\ outcome # "raised"
      /\ air \subseteq Calm(pc, soft) /\ pc \in DOMAIN Requested
  BY <1>3, RequestedIs DEF Inv, Types, Undisturbed, Going
<1>5. /\ "authCheck" \in DOMAIN Requested /\ Requested["authCheck"] = CMD_LOCAL_AUTH_CHECK /\ 1 \in Nat
  BY RequestedIs
<1>6. Writes("authCheck", Requested["authCheck"], Proof(soft), 1, NoKey)
  BY <1>1, <1>2, <1>4, <1>5, SessionBytes
<1>7. Short(Proof(soft))
  <2>1. Common \in Byte /\ MasterKey(GatePublic) \in Int
    BY SessionBytes, Zenon DEF Common
  <2>2. QED
    BY <2>1, ShortPayloads DEF Proof
<1>8. air \subseteq Calm("authCheck", soft') /\ queue' \in Seq(Calm("authCheck", soft'))
  BY <1>4, CalmGrows
<1>9. QED
  BY <1>4, <1>5, <1>6, <1>7, <1>8, GoodWrite

\* The gate's judgement: the proof is accepted.
LEMMA ProofJudgedGoing ==
    ASSUME Inv, Undisturbed, CodeMatches, ~disturbed', pc = "authCheck",
           ProofJudged(MakeTlv(2, << 0 >>, soft)), UNCHANGED soft, queue' \in Seq(Calm(pc, soft))
    PROVE  Going'
<1> DEFINE fields == ParseTlvs(MakeTlv(2, << 0 >>, soft), soft)
<1>1. fields # Truncated /\ LittleInt(Field(fields, 2), -1) = 0
  <2>1. 2 \in Byte /\ 0 \in Byte /\ << 0 >> \in Bytes /\ << 0 >> # <<>> /\ Size(<< 0 >>) = 1
    BY SessionBytes, OneByte, NoByte
  <2>2. Len(<< 0 >>) < 256
    OBVIOUS
  <2>3. fields # Truncated /\ Field(fields, 2) = << 0 >>
    BY <2>1, <2>2, OneField
  <2> HIDE DEF fields
  <2>4. QED
    BY <2>1, <2>3, NumbersRead
<1>2. pc' = "settle" /\ UNCHANGED <<outcome, link, key, air, left, gate, stuck, disturbed>>
  BY <1>1, Zenon DEF ProofJudged
<1>3. ~disturbed /\ pc \in DOMAIN Requested
  BY <1>2, RequestedIs
<1>4. /\ link /\ outcome # "raised" /\ air \subseteq Calm(pc, soft)
  BY <1>3 DEF Undisturbed, Going
<1>5. air' \subseteq Calm("settle", soft') /\ queue' \in Seq(Calm("settle", soft'))
  BY <1>2, <1>3, <1>4, CalmGrows
<1>6. "settle" \notin DOMAIN Requested
  BY RequestedIs
<1>7. QED
  BY <1>2, <1>4, <1>5, <1>6 DEF Going

\* The motor's answer: the call is over, and returns.
LEMMA MotorAnswersGoing ==
    ASSUME MotorAnswers(MotorResponse(0)) PROVE Going'
<1> DEFINE m == MotorResponse(0)
<1>1. ValidMotorResponse(m)
  <2>1. m \in Bytes /\ Len(m) = 16
    BY ShortMotorResponse DEF Short, MotorResponse
  <2>2. ASSUME NEW first \in 1..16, NEW last \in 1..16, first <= last
        PROVE  /\ SubSeq(m, first, last) \in Bytes /\ Len(SubSeq(m, first, last)) = last - first + 1
               /\ \A i \in 1..last - first + 1 : SubSeq(m, first, last)[i] = m[first + i - 1]
    <3> HIDE DEF m
    <3>1. first \in Nat /\ last \in Nat /\ 1 <= first /\ first <= last + 1 /\ last <= Len(m)
      BY <2>1, <2>2
    <3>2. QED
      BY <2>1, <3>1, BytesSub
  <2>3. SubSeq(m, 1, 2) = <<170, 16>>
    <3>1. /\ SubSeq(m, 1, 2) \in Bytes /\ Len(SubSeq(m, 1, 2)) = 2
          /\ \A i \in 1..2 : SubSeq(m, 1, 2)[i] = m[1 + i - 1]
      BY <2>2
    <3>2. <<170, 16>> \in Bytes /\ Len(<<170, 16>>) = 2
      BY DEF Bytes, Byte
    <3>3. \A i \in 1..2 : SubSeq(m, 1, 2)[i] = <<170, 16>>[i]
      BY <3>1 DEF MotorResponse
    <3>4. PICK a \in Bytes, b \in Bytes : a = SubSeq(m, 1, 2) /\ b = <<170, 16>>
      BY <3>1, <3>2
    <3> HIDE DEF m
    <3>5. Len(a) = 2 /\ Len(b) = 2 /\ \A i \in 1..2 : a[i] = b[i]
      BY <3>1, <3>2, <3>3, <3>4
    <3>6. a = b
      BY <3>5, BytesEqual
    <3>7. QED
      BY <3>4, <3>6
  <2>4. SubSeq(m, 9, 11) = <<26, 39, 2>>
    <3>1. /\ SubSeq(m, 9, 11) \in Bytes /\ Len(SubSeq(m, 9, 11)) = 3
          /\ \A i \in 1..3 : SubSeq(m, 9, 11)[i] = m[9 + i - 1]
      BY <2>2
    <3>2. <<26, 39, 2>> \in Bytes /\ Len(<<26, 39, 2>>) = 3
      BY DEF Bytes, Byte
    <3>3. \A i \in 1..3 : SubSeq(m, 9, 11)[i] = <<26, 39, 2>>[i]
      BY <3>1 DEF MotorResponse
    <3>4. QED
      BY <3>1, <3>2, <3>3, BytesEqual
  <2>5. SubSeq(m, 12, 14) = <<0, 0, 0>>
    <3>1. /\ SubSeq(m, 12, 14) \in Bytes /\ Len(SubSeq(m, 12, 14)) = 3
          /\ \A i \in 1..3 : SubSeq(m, 12, 14)[i] = m[12 + i - 1]
      BY <2>2
    <3>2. <<0, 0, 0>> \in Bytes /\ Len(<<0, 0, 0>>) = 3
      BY DEF Bytes, Byte
    <3>3. \A i \in 1..3 : SubSeq(m, 12, 14)[i] = <<0, 0, 0>>[i]
      BY <3>1 DEF MotorResponse
    <3>4. QED
      BY <3>1, <3>2, <3>3, BytesEqual
  <2> HIDE DEF m
  <2>6. QED
    BY <2>1, <2>3, <2>4, <2>5 DEF ValidMotorResponse
<1>2. pc' \in Over /\ outcome' = "returned"
  BY <1>1 DEF MotorAnswers, Stops, Over
<1>3. pc' \notin {"start", "settle"} \cup DOMAIN Requested
  BY <1>2, RequestedIs DEF Over
<1>4. QED
  BY <1>2, <1>3 DEF Going

LEMMA ReceivesGoing ==
    ASSUME Inv, Undisturbed, CodeMatches, Receives, ~disturbed'
    PROVE  Going'
<1> DEFINE f == Head(queue)
           read == ReadAs(f)
<1>1. /\ pc \in DOMAIN Requested /\ queue # <<>> /\ queue' = Tail(queue) /\ UNCHANGED soft
      /\ \/ read.what = "answer" /\ Answered(read.payload)
         \/ read.what = "error" /\ Raises
         \/ read.what = "ignored" /\ Ignores
  BY DEF Receives
<1>2. ~disturbed
  BY <1>1 DEF Answered, KeyArrives, Writes, ProofJudged, MotorAnswers, Raises, Ignores, Inv, Types
<1>3. /\ link /\ outcome # "raised" /\ air \subseteq Calm(pc, soft) /\ queue \in Seq(Calm(pc, soft))
      /\ left > 0 /\ Coming(HopedFor(pc, soft), air, queue)
  BY <1>1, <1>2 DEF Undisturbed, Going
<1>4. f \in Calm(pc, soft) /\ queue' \in Seq(Calm(pc, soft))
  BY <1>1, <1>3, HeadTailProperties
<1>5. pc = "motorReply" => ReadKey = Common
  <2>1. pc = "motorReply" => key = gate.key /\ gate.key # NoKey /\ gate \in GateStates
    BY DEF Inv, Types, Keys
  <2>2. QED
    BY <2>1 DEF ReadKey, GateStates
<1>6. \/ /\ f = HopedFor(pc, soft)
         /\ read.what = "answer" /\ read.payload = Payload(soft)[pc]
      \/ f # HopedFor(pc, soft) /\ read.what = "ignored"
  BY <1>1, <1>4, <1>5, ReadsCalm
<1>7. CASE read.what = "ignored"
  <2>1. f # HopedFor(pc, soft) /\ UNCHANGED <<pc, outcome, link, air, left>>
    BY <1>1, <1>6, <1>7 DEF Ignores
  <2>2. Coming(HopedFor(pc, soft), air, queue')
    <3>1. ASSUME NEW i \in 1..Len(queue), queue[i] = HopedFor(pc, soft)
          PROVE  \E j \in 1..Len(queue') : queue'[j] = HopedFor(pc, soft)
      <4>1. i # 1
        BY <2>1, <3>1
      <4>2. i - 1 \in 1..Len(queue') /\ queue'[i - 1] = queue[i]
        BY <1>1, <1>3, <4>1, HeadTailProperties
      <4>3. QED
        BY <3>1, <4>2
    <3>2. QED
      BY <1>3, <3>1 DEF Coming
  <2>3. QED
    BY <1>1, <1>3, <1>4, <2>1, <2>2 DEF Going
<1>8. CASE read.what = "answer"
  <2>1. Answered(Payload(soft)[pc])
    BY <1>1, <1>6, <1>8
  <2> HIDE DEF read, f
  <2>2. CASE pc = "keyExchange" /\ KeyArrives(Payload(soft)[pc])
    <3>1. Payload(soft)[pc] = KeyAnswer(soft)
      BY <2>2 DEF Payload
    <3>2. QED
      BY <1>1, <1>4, <2>2, <3>1, KeyArrivesGoing
  <2>3. CASE pc = "authCheck" /\ ProofJudged(Payload(soft)[pc])
    <3>1. Payload(soft)[pc] = MakeTlv(2, << 0 >>, soft)
      BY <2>3 DEF Payload
    <3>2. QED
      BY <1>1, <1>4, <2>3, <3>1, ProofJudgedGoing
  <2>4. CASE pc = "motorReply" /\ MotorAnswers(Payload(soft)[pc])
    <3>1. Payload(soft)[pc] = MotorResponse(0)
      BY <2>4 DEF Payload
    <3>2. QED
      BY <2>4, <3>1, MotorAnswersGoing
  <2>5. QED
    BY <2>1, <2>2, <2>3, <2>4 DEF Answered
<1>9. QED
  BY <1>6, <1>7, <1>8

\* The deadline disturbs a call only if what it waits for has come too late.
LEMMA TickGoing ==
    ASSUME Inv, Undisturbed, CodeMatches, Tick, ~disturbed'
    PROVE  Going'
<1>1. /\ pc \in DOMAIN Requested /\ left' = left - 1 /\ UNCHANGED <<pc, outcome, link, soft, air, queue>>
      /\ ~disturbed /\ ~(left = 1 /\ InFlight > 0)
  BY DEF Tick, Inv, Types
<1>2. /\ outcome # "raised" /\ link /\ left > 0 /\ left \in Nat /\ IsFiniteSet(air)
      /\ air \subseteq Calm(pc, soft) /\ queue \in Seq(Calm(pc, soft))
      /\ Coming(HopedFor(pc, soft), air, queue)
  BY <1>1 DEF Undisturbed, Going, Inv, Types
<1>3. InFlight > 0
  <2>1. /\ Cardinality(air) \in Nat /\ (Cardinality(air) = 0 <=> air = {}) /\ Len(queue) \in Nat
    BY <1>2, FS_CardinalityType, FS_EmptySet, LenProperties
  <2>2. air # {} \/ Len(queue) > 0
    BY <1>2, <2>1 DEF Coming
  <2>3. QED
    BY <2>1, <2>2 DEF InFlight
<1>4. left' > 0
  BY <1>1, <1>2, <1>3
<1>5. QED
  BY <1>1, <1>2, <1>4 DEF Going

\* A frame that arrives is still to come to async_request.
LEMMA NotificationGoing ==
    ASSUME Inv, Undisturbed, CodeMatches, Notification, ~disturbed'
    PROVE  Going'
<1>1. PICK f \in air : queue' = Append(queue, f) /\ air' = air \ {f}
  BY DEF Notification
<1>2. UNCHANGED <<pc, outcome, link, soft, left, disturbed>>
  BY DEF Notification
<1>3. Going
  BY <1>2 DEF Undisturbed
<1>4. ASSUME NEW S, queue \in Seq(S), f \in S, NEW g, Coming(g, air, queue)
      PROVE  queue' \in Seq(S) /\ Coming(g, air', queue')
  <2>1. /\ queue' \in Seq(S) /\ Len(queue') = Len(queue) + 1 /\ Len(queue) \in Nat
        /\ \A i \in 1..Len(queue) : queue'[i] = queue[i]
        /\ queue'[Len(queue) + 1] = f
    BY <1>1, <1>4, AppendProperties, LenProperties
  <2>2. CASE g = f
    <3>1. Len(queue) + 1 \in 1..Len(queue') /\ queue'[Len(queue) + 1] = g
      BY <2>1, <2>2
    <3>2. QED
      BY <2>1, <3>1 DEF Coming
  <2>3. CASE g # f /\ g \in air
    BY <1>1, <2>1, <2>3 DEF Coming
  <2>4. CASE \E i \in 1..Len(queue) : queue[i] = g
    <3>1. PICK i \in 1..Len(queue) : queue[i] = g
      BY <2>4
    <3>2. i \in 1..Len(queue') /\ queue'[i] = g
      BY <2>1, <3>1
    <3>3. QED
      BY <2>1, <3>2 DEF Coming
  <2>5. QED
    BY <1>4, <2>2, <2>3, <2>4 DEF Coming
<1>5. pc \in {"settle"} \cup DOMAIN Requested =>
         air' \subseteq Calm(pc, soft) /\ queue' \in Seq(Calm(pc, soft))
  <2> SUFFICES ASSUME pc \in {"settle"} \cup DOMAIN Requested
               PROVE  air' \subseteq Calm(pc, soft) /\ queue' \in Seq(Calm(pc, soft))
    OBVIOUS
  <2>1. air \subseteq Calm(pc, soft) /\ queue \in Seq(Calm(pc, soft)) /\ Coming(f, air, queue)
    BY <1>3 DEF Going, Coming
  <2>2. QED
    BY <1>1, <1>4, <2>1
<1>6. pc \in DOMAIN Requested => Coming(HopedFor(pc, soft), air', queue')
  <2> SUFFICES ASSUME pc \in DOMAIN Requested PROVE Coming(HopedFor(pc, soft), air', queue')
    OBVIOUS
  <2>1. /\ air \subseteq Calm(pc, soft) /\ queue \in Seq(Calm(pc, soft))
        /\ Coming(HopedFor(pc, soft), air, queue)
    BY <1>3 DEF Going
  <2>2. QED
    BY <1>1, <1>4, <2>1
<1>7. QED
  BY <1>2, <1>3, <1>5, <1>6 DEF Going

\* Frames of no concern leave a call going.
LEMMA ChatsGoing ==
    ASSUME Inv, Undisturbed, CodeMatches, Chats, ~disturbed'
    PROVE  Going'
<1>1. PICK f \in Harmless \cup Harmful :
         air' = air \cup {f} /\ disturbed' = (disturbed \/ f \in Harmful)
  BY DEF Chats
<1>2. UNCHANGED <<pc, outcome, link, soft, queue, left>> /\ pc \in {"settle"} \cup DOMAIN Requested
  BY DEF Chats
<1>3. f \in Calm(pc, soft) /\ ~disturbed
  <2>1. ~disturbed /\ f \in Harmless
    BY <1>1, Zenon
  <2>2. Harmless = {Event(soft), CommonReply(4097, 0, soft)}
    BY DEF Harmless, Event
  <2>3. QED
    BY <2>1, <2>2 DEF Calm
<1>4. Going
  BY <1>3 DEF Undisturbed
<1>5. QED
  BY <1>1, <1>2, <1>3, <1>4 DEF Going, Coming

\* So every step does, or disturbs the call.
LEMMA UndisturbedNext == Inv /\ Undisturbed /\ [Next]_vars => Undisturbed'
<1> SUFFICES ASSUME Inv, Undisturbed, [Next]_vars, CodeMatches, ~disturbed' PROVE Going'
  BY DEF Undisturbed
<1>1. CASE UNCHANGED vars
  BY <1>1 DEF vars, Undisturbed, Going
<1>2. CASE Opens
  <2>1. /\ pc' \in Early \ {"new"} /\ link' = (pc' = "start")
        /\ UNCHANGED <<outcome, disturbed>>
    BY <1>2 DEF Opens, Reaches, Early
  <2>2. pc' \notin {"settle"} \cup DOMAIN Requested
    BY <2>1, RequestedIs DEF Early
  <2>3. QED
    BY <2>1, <2>2 DEF Undisturbed, Going
<1>3. CASE OpenFails \/ SessionFails \/ Cancelled \/ LinkDrops
  BY <1>3 DEF OpenFails, SessionFails, Cancelled, LinkDrops, Fails
<1>4. CASE TimesOut
  <2>1. pc \in DOMAIN Requested /\ left = 0 /\ ~disturbed
    BY <1>4 DEF TimesOut, Inv, Types
  <2>2. QED
    BY <2>1 DEF Undisturbed, Going
<1>5. CASE Disconnects
  <2>1. pc' = "over" /\ UNCHANGED <<outcome, disturbed>>
    BY <1>5 DEF Disconnects
  <2>2. pc' \notin {"start", "settle"} \cup DOMAIN Requested
    BY <2>1, RequestedIs
  <2>3. QED
    BY <2>1, <2>2 DEF Undisturbed, Going
<1>6. QED
  BY <1>1, <1>2, <1>3, <1>4, <1>5, StartsGoing, WritesMotorGoing, ReceivesGoing, TickGoing,
     NotificationGoing, ChatsGoing DEF Next

\* A call that nothing disturbs succeeds, if the verification code is the gate's: what either
\* side writes the other one reads, with every width of the length fields and whatever frames
\* of no concern come between, and both compute the same key (async_send, async_authenticate).
THEOREM UndisturbedCallReturns == Spec => []UndisturbedSucceeds
<1>1. Init => Undisturbed
  <2>1. Init => pc \notin {"start", "settle"} \cup DOMAIN Requested /\ outcome = "none"
    BY RequestedIs DEF Init
  <2>2. QED
    BY <2>1 DEF Undisturbed, Going
<1>2. Undisturbed /\ Inv => UndisturbedSucceeds
  BY DEF Undisturbed, Going, UndisturbedSucceeds
<1>3. QED
  BY <1>1, <1>2, UndisturbedNext, Invariant, PTL DEF Spec

==============================================================================
