--------------------------- MODULE EncRangeProofs ---------------------------
(***************************************************************************)
(* Proofs about EncRange, for every chunk, tag and header size, every      *)
(* plaintext, range and number of overwrites.  First the arithmetic of the *)
(* layout; then the inductive invariant Inv: what a call has fetched when, *)
(* and that the regions it plans hold every chunk age will ask for.        *)
(***************************************************************************)
EXTENDS EncRange, FiniteSetTheorems, TLAPS

-----------------------------------------------------------------------------
\* Products and quotients.

\* A greater multiple is greater by one more step at least.
LEMMA MulLess ==
  ASSUME NEW b \in Nat \ {0}, NEW i \in Int, NEW j \in Int, i < j
  PROVE  i * b + b <= j * b
<1>1. j - i >= 1 /\ j - i \in Nat
  OBVIOUS
<1>2. (j - i) * b >= b
  BY <1>1
<1>3. (j - i) * b = j * b - i * b
  OBVIOUS
<1> QED  BY <1>2, <1>3

\* What the quotient leaves over is less than the divisor.
LEMMA DivBounds ==
  ASSUME NEW a \in Int, NEW b \in Nat \ {0}
  PROVE  a \div b \in Int /\ (a \div b) * b <= a /\ a < (a \div b) * b + b
OBVIOUS

\* ... and only the quotient does that.
LEMMA DivUnique ==
  ASSUME NEW a \in Int, NEW b \in Nat \ {0}, NEW q \in Int, q * b <= a, a < q * b + b
  PROVE  a \div b = q
<1> DEFINE d == a \div b
<1>1. d \in Int /\ d * b <= a /\ a < d * b + b
  BY DivBounds
<1> HIDE DEF d
<1>2. ASSUME d < q PROVE FALSE
  <2>1. d * b + b <= q * b
    BY <1>1, <1>2, MulLess
  <2> QED  BY <2>1, <1>1
<1>3. ASSUME q < d PROVE FALSE
  <2>1. q * b + b <= d * b
    BY <1>1, <1>3, MulLess
  <2> QED  BY <2>1, <1>1
<1>4. d = q
  BY <1>1, <1>2, <1>3
<1> QED  BY <1>4 DEF d

\* The quotient rounded up: the number of blocks of b that hold a.
LEMMA RoundUp ==
  ASSUME NEW a \in Int, NEW b \in Nat \ {0}
  PROVE  LET k == (a + b - 1) \div b
         IN k \in Int /\ k * b - b < a /\ a <= k * b
<1> DEFINE k == (a + b - 1) \div b
<1>1. k \in Int /\ k * b <= a + b - 1 /\ a + b - 1 < k * b + b
  BY DivBounds, a + b - 1 \in Int
<1> HIDE DEF k
<1>2. k * b \in Int
  BY <1>1
<1>3. k \in Int /\ k * b - b < a /\ a <= k * b
  BY <1>1, <1>2
<1> QED  BY <1>3 DEF k

\* ... and only that number does.
LEMMA RoundUpUnique ==
  ASSUME NEW a \in Int, NEW b \in Nat \ {0}, NEW k \in Int, k * b - b < a, a <= k * b
  PROVE  (a + b - 1) \div b = k
<1>1. k * b \in Int
  OBVIOUS
<1>2. k * b <= a + b - 1 /\ a + b - 1 < k * b + b /\ a + b - 1 \in Int
  BY <1>1
<1> QED  BY <1>2, DivUnique

-----------------------------------------------------------------------------
\* The layout.  Chunk i is at Start(i).

Start(i) == PayloadOffset + i * EncChunkSize

\* The sizes are what layout.go declares them to be.
LEMMA Sizes ==
  /\ EncChunkSize \in Nat \ {0} /\ EncChunkSize = ChunkSize + TagSize
  /\ ChunkSize \in Nat \ {0} /\ TagSize \in Nat \ {0} /\ PayloadOffset \in Nat
BY EncSizes DEF EncChunkSize

\* age writes as many chunks as hold the plaintext, and one for an empty one.
LEMMA CountFacts ==
  ASSUME NEW n \in Nat
  PROVE  /\ ChunkCount(n) \in Nat \ {0} /\ n <= ChunkCount(n) * ChunkSize
         /\ \/ ChunkCount(n) * ChunkSize - ChunkSize < n
            \/ n = 0 /\ ChunkCount(n) = 1
<1>1. CASE n = 0
  BY <1>1, Sizes DEF ChunkCount
<1>2. CASE n > 0
  <2> DEFINE k == (n + ChunkSize - 1) \div ChunkSize
  <2>1. k \in Int /\ k * ChunkSize - ChunkSize < n /\ n <= k * ChunkSize
    BY RoundUp, Sizes
  <2>2. ChunkCount(n) = k
    BY <1>2 DEF ChunkCount
  <2> HIDE DEF k
  <2>3. ASSUME k <= 0 PROVE FALSE
    <3>1. k * ChunkSize <= 0
      BY <2>1, <2>3, Sizes
    <3> QED  BY <3>1, <2>1, <1>2, Sizes
  <2> QED  BY <2>1, <2>2, <2>3
<1> QED  BY <1>1, <1>2

\* ... and that number of chunks is the only one.
LEMMA CountUnique ==
  ASSUME NEW n \in Nat, NEW k \in Nat \ {0}, n <= k * ChunkSize,
         (k * ChunkSize - ChunkSize < n) \/ (n = 0 /\ k = 1)
  PROVE  ChunkCount(n) = k
<1>1. CASE n = 0
  <2>1. ASSUME k > 1 PROVE FALSE
    <3>1. 1 * ChunkSize + ChunkSize <= k * ChunkSize
      BY <2>1, MulLess, Sizes
    <3> QED  BY <3>1, <1>1, <2>1, Sizes
  <2> QED  BY <1>1, <2>1 DEF ChunkCount
<1>2. CASE n > 0
  BY <1>2, RoundUpUnique, Sizes DEF ChunkCount
<1> QED  BY <1>1, <1>2

\* The chunks of a payload.
LEMMA ChunksFacts ==
  ASSUME NEW p \in Int
  PROVE  /\ Chunks(p) \in Int /\ p <= Chunks(p) * EncChunkSize
         /\ Chunks(p) * EncChunkSize - EncChunkSize < p
         /\ p > 0 => Chunks(p) > 0
<1> DEFINE k == Chunks(p)
<1>1. k \in Int /\ k * EncChunkSize - EncChunkSize < p /\ p <= k * EncChunkSize
  BY RoundUp, Sizes DEF Chunks
<1> HIDE DEF k
<1>2. ASSUME k <= 0, p > 0 PROVE FALSE
  <2>1. k * EncChunkSize <= 0
    BY <1>1, <1>2, Sizes
  <2> QED  BY <2>1, <1>1, <1>2, Sizes
<1>3. p > 0 => k > 0
  BY <1>1, <1>2
<1> QED  BY <1>1, <1>3 DEF k

\* What age writes of n bytes: as many chunks as the plaintext has, of which the
\* last is not empty of tag, and whose size plaintextSize takes back to n.
LEMMA SizeOf ==
  ASSUME NEW n \in Nat
  PROVE  /\ EncryptedSize(n) \in Nat /\ EncryptedSize(n) >= PayloadOffset + TagSize
         /\ Chunks(EncryptedSize(n) - PayloadOffset) = ChunkCount(n)
         /\ Start(ChunkCount(n) - 1) < EncryptedSize(n)
         /\ EncryptedSize(n) <= Start(ChunkCount(n) - 1) + EncChunkSize
         /\ PlaintextSize(EncryptedSize(n)) = n
<1> DEFINE k == ChunkCount(n)
           p == n + k * TagSize
<1>1. /\ k \in Nat \ {0} /\ n <= k * ChunkSize
      /\ (k * ChunkSize - ChunkSize < n) \/ (n = 0 /\ k = 1)
  BY CountFacts
<1>2. EncryptedSize(n) = PayloadOffset + p
  <2>1. k * TagSize \in Int
    BY <1>1, Sizes
  <2> QED  BY <2>1, Sizes DEF EncryptedSize
<1>3. Start(k - 1) = PayloadOffset + (k - 1) * EncChunkSize
  BY DEF Start
<1>4. n # 0 => k = (n + ChunkSize - 1) \div ChunkSize
  BY DEF ChunkCount
<1> HIDE DEF k
<1>5. /\ k * ChunkSize \in Nat /\ k * TagSize \in Nat /\ k * TagSize >= TagSize
      /\ k * EncChunkSize = k * ChunkSize + k * TagSize
      /\ (k - 1) * EncChunkSize = k * EncChunkSize - EncChunkSize
  BY <1>1, Sizes
<1>6. p \in Nat /\ p >= TagSize /\ p <= k * EncChunkSize /\ k * EncChunkSize - EncChunkSize < p
  BY <1>1, <1>5, Sizes
<1>7. Chunks(p) = k
  BY <1>1, <1>6, RoundUpUnique, Sizes DEF Chunks
<1>8. Most((n + ChunkSize - 1) \div ChunkSize, 1) = k
  <2>1. CASE n = 0
    <3>1. (n + ChunkSize - 1) \div ChunkSize = 0
      BY <2>1, DivUnique, Sizes
    <3>2. k = 1
      BY <2>1, CountUnique, Sizes DEF k
    <3> QED  BY <3>1, <3>2 DEF Most
  <2>2. CASE n # 0
    BY <2>2, <1>1, <1>4 DEF Most
  <2> QED  BY <2>1, <2>2
<1>9. EncryptedSize(n) - PayloadOffset = p
  BY <1>2, <1>6, Sizes
<1>10. p - Chunks(p) * TagSize = n
  BY <1>5, <1>7
<1>11. PlaintextSize(EncryptedSize(n)) = n
  <2> HIDE DEF p
  <2> QED  BY <1>6, <1>7, <1>8, <1>9, <1>10, Sizes DEF PlaintextSize
<1>12. Chunks(EncryptedSize(n) - PayloadOffset) = k
  BY <1>7, <1>9
<1>13. /\ EncryptedSize(n) \in Nat /\ EncryptedSize(n) >= PayloadOffset + TagSize
       /\ Start(k - 1) < EncryptedSize(n) /\ EncryptedSize(n) <= Start(k - 1) + EncChunkSize
  <2> HIDE DEF p
  <2> QED  BY <1>1, <1>2, <1>3, <1>5, <1>6, Sizes
<1> QED  BY <1>11, <1>12, <1>13 DEF k

\* ... and a size that plaintextSize accepts is one age writes.
LEMMA SizeBack ==
  ASSUME NEW s \in Int, PlaintextSize(s) # -1
  PROVE  PlaintextSize(s) \in Nat /\ EncryptedSize(PlaintextSize(s)) = s
<1> DEFINE p == s - PayloadOffset
           k == Chunks(p)
           n == p - k * TagSize
<1>1. p >= TagSize /\ Most((n + ChunkSize - 1) \div ChunkSize, 1) = k /\ PlaintextSize(s) = n
  <2>1. p \in Int
    BY Sizes
  <2> QED  BY <2>1, Sizes DEF PlaintextSize
<1>2. p \in Int /\ p > 0 /\ s = PayloadOffset + p
  BY <1>1, Sizes
<1>3. k \in Nat \ {0} /\ p <= k * EncChunkSize /\ k * EncChunkSize - EncChunkSize < p
  BY <1>2, ChunksFacts
<1> HIDE DEF p, k
<1>4. k * TagSize \in Nat /\ n \in Int
  BY <1>2, <1>3, Sizes
<1> DEFINE q == (n + ChunkSize - 1) \div ChunkSize
<1>5. q \in Int /\ q * ChunkSize - ChunkSize < n /\ n <= q * ChunkSize
  BY <1>4, RoundUp, Sizes
<1>6. Most(q, 1) = k
  BY <1>1
<1> HIDE DEF q
<1>7. n \in Nat
  <2>1. CASE k = 1
    <3>1. n = p - TagSize
      BY <2>1, <1>2, Sizes
    <3> HIDE DEF n
    <3> QED  BY <3>1, <1>1, <1>2, <1>4, Sizes
  <2>2. CASE k > 1
    <3>1. q = k
      BY <2>2, <1>5, <1>6 DEF Most
    <3>2. k * ChunkSize - ChunkSize >= ChunkSize
      BY <2>2, <1>3, MulLess, Sizes
    <3>3. q * ChunkSize \in Int
      BY <1>5, Sizes
    <3> HIDE DEF n
    <3> QED  BY <3>1, <3>2, <3>3, <1>4, <1>5, Sizes
  <2> QED  BY <2>1, <2>2, <1>3
<1>8. ChunkCount(n) = k
  <2>1. CASE n = 0
    <3>1. q = 0
      BY <2>1, DivUnique, Sizes DEF q
    <3> QED  BY <3>1, <2>1, <1>6 DEF Most, ChunkCount
  <2>2. CASE n # 0
    <3>1. ChunkCount(n) = q
      BY <2>2 DEF ChunkCount, q
    <3>2. q >= 1
      BY <3>1, <1>7, CountFacts
    <3> QED  BY <3>1, <3>2, <1>5, <1>6 DEF Most
  <2> QED  BY <2>1, <2>2
<1>9. EncryptedSize(n) = PayloadOffset + n + k * TagSize
  BY <1>8 DEF EncryptedSize
<1>10. EncryptedSize(n) = s
  BY <1>9, <1>2, <1>4, Sizes
<1> QED  BY <1>1, <1>7, <1>10

\* A longer plaintext has more chunks, or as many.
LEMMA CountMono ==
  ASSUME NEW m \in Nat, NEW n \in Nat, m <= n
  PROVE  ChunkCount(m) <= ChunkCount(n)
<1> DEFINE j == ChunkCount(m)
           k == ChunkCount(n)
<1>1. /\ j \in Nat \ {0}
      /\ (j * ChunkSize - ChunkSize < m) \/ (m = 0 /\ j = 1)
      /\ k \in Nat \ {0} /\ n <= k * ChunkSize
  BY CountFacts
<1> HIDE DEF j, k
<1>2. ASSUME k < j PROVE FALSE
  <2>1. k * ChunkSize + ChunkSize <= j * ChunkSize /\ k * ChunkSize \in Int /\ j * ChunkSize \in Int
    BY <1>1, <1>2, MulLess, Sizes
  <2> QED  BY <2>1, <1>1, <1>2, Sizes
<1>3. j <= k
  BY <1>1, <1>2
<1> QED  BY <1>3 DEF j, k

\* A longer plaintext is encrypted to more bytes.
LEMMA SizeMono ==
  ASSUME NEW m \in Nat, NEW n \in Nat, m < n
  PROVE  EncryptedSize(m) < EncryptedSize(n)
<1> DEFINE j == ChunkCount(m)
           k == ChunkCount(n)
<1>1. j \in Nat /\ k \in Nat /\ j <= k
  BY CountFacts, CountMono
<1> HIDE DEF j, k
<1>2. j * TagSize <= k * TagSize /\ j * TagSize \in Int /\ k * TagSize \in Int
  <2>1. j * TagSize \in Int /\ k * TagSize \in Int
    BY <1>1, Sizes
  <2>2. ASSUME j < k PROVE j * TagSize + TagSize <= k * TagSize
    BY <1>1, <2>2, MulLess, Sizes
  <2> QED  BY <1>1, <2>1, <2>2, Sizes
<1>3. PayloadOffset + m + j * TagSize < PayloadOffset + n + k * TagSize
  BY <1>2, Sizes
<1> QED  BY <1>3 DEF EncryptedSize, j, k

\* Chunks follow one another.
LEMMA StartMono ==
  ASSUME NEW i \in Int, NEW j \in Int
  PROVE  /\ Start(i) \in Int /\ Start(i + 1) = Start(i) + EncChunkSize
         /\ i < j => Start(i) + EncChunkSize <= Start(j)
         /\ i <= j => Start(i) <= Start(j)
         /\ i >= 0 => Start(i) >= PayloadOffset
         /\ Start(i) < Start(j) => i < j
<1>1. \A a, b \in Int : Start(a) \in Int /\ (a < b => Start(a) + EncChunkSize <= Start(b))
  <2> TAKE a, b \in Int
  <2>1. a * EncChunkSize \in Int /\ b * EncChunkSize \in Int
    BY Sizes
  <2>2. a < b => a * EncChunkSize + EncChunkSize <= b * EncChunkSize
    BY MulLess, Sizes
  <2> QED  BY <2>1, <2>2, Sizes DEF Start
<1>2. Start(i + 1) = Start(i) + EncChunkSize
  <2>1. (i + 1) * EncChunkSize = i * EncChunkSize + EncChunkSize /\ i * EncChunkSize \in Int
    BY Sizes
  <2> QED  BY <2>1, Sizes DEF Start
<1>3. Start(0) = PayloadOffset
  BY Sizes DEF Start
<1>4. Start(i) \in Int /\ Start(j) \in Int /\ (i < j => Start(i) + EncChunkSize <= Start(j))
  BY <1>1
<1>5. j < i => Start(j) + EncChunkSize <= Start(i)
  BY <1>1
<1>6. 0 < i => Start(0) + EncChunkSize <= Start(i)
  BY <1>1
<1> QED  BY <1>2, <1>3, <1>4, <1>5, <1>6, Sizes

-----------------------------------------------------------------------------
\* The chunk a plaintext byte is in.

LEMMA Index ==
  ASSUME NEW a \in Nat
  PROVE  LET c == a \div ChunkSize
         IN c \in Nat /\ c * ChunkSize <= a /\ a < (c + 1) * ChunkSize
<1> DEFINE c == a \div ChunkSize
<1>1. c \in Int /\ c * ChunkSize <= a /\ a < c * ChunkSize + ChunkSize
  BY DivBounds, Sizes
<1> HIDE DEF c
<1>2. (c + 1) * ChunkSize = c * ChunkSize + ChunkSize
  BY <1>1, Sizes
<1>3. ASSUME c < 0 PROVE FALSE
  <2>1. c * ChunkSize + ChunkSize <= 0 * ChunkSize
    BY <1>1, <1>3, MulLess, Sizes
  <2> QED  BY <2>1, <1>1, Sizes
<1>4. c \in Nat /\ c * ChunkSize <= a /\ a < (c + 1) * ChunkSize
  BY <1>1, <1>2, <1>3
<1> QED  BY <1>4 DEF c

\* A later byte is in the same chunk or a later one.
LEMMA IndexMono ==
  ASSUME NEW a \in Nat, NEW b \in Nat, a <= b
  PROVE  a \div ChunkSize <= b \div ChunkSize
<1> DEFINE c == a \div ChunkSize
           d == b \div ChunkSize
<1>1. /\ c \in Int /\ c * ChunkSize <= a
      /\ d \in Int /\ b < d * ChunkSize + ChunkSize
  BY DivBounds, Sizes
<1> HIDE DEF c, d
<1>2. ASSUME d < c PROVE FALSE
  <2>1. d * ChunkSize + ChunkSize <= c * ChunkSize /\ c * ChunkSize \in Int /\ d * ChunkSize \in Int
    BY <1>1, <1>2, MulLess, Sizes
  <2> QED  BY <2>1, <1>1, Sizes
<1>3. c <= d
  BY <1>1, <1>2
<1> QED  BY <1>3 DEF c, d

\* A byte of the plaintext is in one of its chunks.
LEMMA IndexBelow ==
  ASSUME NEW n \in Nat, NEW a \in Nat, a < n
  PROVE  a \div ChunkSize < ChunkCount(n)
<1> DEFINE c == a \div ChunkSize
           k == ChunkCount(n)
<1>1. c \in Int /\ c * ChunkSize <= a /\ k \in Nat /\ n <= k * ChunkSize
  BY DivBounds, CountFacts, Sizes
<1> HIDE DEF c, k
<1>2. ASSUME k <= c PROVE FALSE
  <2>1. k * ChunkSize <= c * ChunkSize /\ c * ChunkSize \in Int /\ k * ChunkSize \in Int
    <3>1. k < c => k * ChunkSize + ChunkSize <= c * ChunkSize
      BY <1>1, MulLess, Sizes
    <3> QED  BY <1>1, <1>2, <3>1, Sizes
  <2> QED  BY <2>1, <1>1
<1>3. c < k
  BY <1>1, <1>2
<1> QED  BY <1>3 DEF c, k

\* The first byte of a chunk is in it.
LEMMA IndexOfFirst ==
  ASSUME NEW c \in Nat
  PROVE  (c * ChunkSize) \div ChunkSize = c /\ c * ChunkSize \in Nat
<1>1. c * ChunkSize \in Nat /\ c * ChunkSize < c * ChunkSize + ChunkSize
  BY Sizes
<1> QED  BY <1>1, DivUnique, Sizes

\* Where the chunks of n encrypted bytes are: one after the other, each whole but
\* the last, which ends where the object does.
LEMMA ChunkAt ==
  ASSUME NEW n \in Nat, NEW i \in Nat, i < ChunkCount(n)
  PROVE  LET s == EncryptedSize(n)
             stop == Least(Start(i) + EncChunkSize, s)
             last == ChunkCount(n) - 1
         IN /\ FinalChunkOffset(s) = Start(last)
            /\ stop \in Int /\ Start(i) < stop /\ stop <= Start(i + 1) /\ stop <= s
            /\ i < last => stop = Start(i + 1) /\ stop <= Start(last) /\ Start(i) < Start(last)
            /\ i = last => stop = s
            /\ Start(last) < s
<1> DEFINE k == ChunkCount(n)
           s == EncryptedSize(n)
<1>1. /\ s \in Nat /\ Chunks(s - PayloadOffset) = k /\ k \in Nat \ {0}
      /\ Start(k - 1) < s /\ s <= Start(k - 1) + EncChunkSize
  BY SizeOf, CountFacts
<1>2. FinalChunkOffset(s) = Start(k - 1)
  BY <1>1 DEF FinalChunkOffset, Start
<1> HIDE DEF k, s
<1>3. i < k
  BY DEF k
<1>4. /\ Start(i) \in Int /\ Start(k - 1) \in Int /\ Start(i + 1) = Start(i) + EncChunkSize
      /\ i < k - 1 => Start(i) + EncChunkSize <= Start(k - 1)
      /\ i <= k - 1 => Start(i) <= Start(k - 1)
  BY <1>1, StartMono, k - 1 \in Int
<1>5. /\ Least(Start(i) + EncChunkSize, s) \in Int
      /\ Start(i) < Least(Start(i) + EncChunkSize, s)
      /\ Least(Start(i) + EncChunkSize, s) <= Start(i + 1)
      /\ Least(Start(i) + EncChunkSize, s) <= s
  BY <1>1, <1>3, <1>4, Sizes DEF Least
<1>6. i < k - 1 => /\ Least(Start(i) + EncChunkSize, s) = Start(i + 1)
                   /\ Start(i + 1) <= Start(k - 1) /\ Start(i) < Start(k - 1)
  BY <1>1, <1>3, <1>4, Sizes DEF Least
<1>7. i = k - 1 => Least(Start(i) + EncChunkSize, s) = s
  BY <1>1, <1>4, Sizes DEF Least
<1> QED  BY <1>1, <1>2, <1>5, <1>6, <1>7 DEF k, s

-----------------------------------------------------------------------------
\* The inductive invariant.

Pcs == {"stat", "open", "head", "tail", "stream", "decrypt", "read", "header", "plain", "done"}
Requests == {"head", "tail", "stream", "decrypt", "read"}

Types ==
  /\ obj \in seen /\ IsFiniteSet(seen)
  /\ \A o \in seen : o = None \/ \E v \in 1..MaxVersion : o \in Objects(v)
  /\ \E o \in seen : o # None
  /\ \A o, p \in seen : o # None /\ p # None /\ o.v = p.v => o = p
  /\ op \in {"range", "get", "stat"} /\ pc \in Pcs /\ (pc # "done" => result = "none")
  /\ off \in Nat /\ len \in Int /\ size \in Int /\ end \in Int
  /\ op = "get" => off = 0 /\ len = -1
  /\ head \in seen \cup {None} /\ tail \in seen \cup {None} /\ stream \in seen \cup {None}
  /\ pos \in Int /\ streamEnd \in Int
  /\ out \in Seq((1..MaxVersion) \X Int)
  /\ pc \in Pcs \ {"read", "plain", "done"} => out = <<>>

\* One object has been stored during the call, and it is as it was put.
Sound == seen = {obj} /\ obj # None /\ obj.size = EncryptedSize(obj.n)

\* The plaintext of version v from byte a on.
Bytes(s, v, a) == \A i \in 1..Len(s) : s[i] = <<v, a + i - 1>>

\* A range that Stat has accepted.
RangeInv == pc = "open" \/ pc \in Requests =>
  /\ op = "range" /\ len # 0
  /\ PlaintextSize(size) # -1 /\ off < end /\ end = End(PlaintextSize(size))
  /\ Sound => size = obj.size

\* The requests: the stream holds every chunk of the range before the last of the
\* object, and each source is there when it is read.
RequestInv ==
  /\ pc \in Requests =>
       /\ streamEnd <= size
       /\ \A a \in off..(end - 1) : a \div ChunkSize < Last =>
            Start(a \div ChunkSize + 1) <= streamEnd
  /\ pc \in Requests \ {"read"} => pos <= Start(off \div ChunkSize)
  /\ pc = "head" => size > WholeObjectSize
  /\ pc \in Requests \ {"head"} => head # None
  /\ pc \in Requests \ {"head", "tail"} => tail # None
  /\ pc = "stream" => pos < streamEnd
  /\ pc \in {"decrypt", "read"} /\ stream = None => pos >= streamEnd

\* Once the final chunk has authenticated, the size is that of the object whose
\* header was read; the stream is not past the chunk that is next.
ReadInv == pc = "read" =>
  /\ head.own /\ tail = head /\ size = EncryptedSize(head.n)
  /\ At <= end /\ (At < end => pos <= ChunkStart)
  /\ Bytes(out, head.v, off)

\* GetObject is between two chunks.
PlainInv ==
  /\ pc \in {"header", "plain"} => op = "get" /\ stream # None
  /\ pc = "plain" =>
       /\ stream.own
       /\ \E i \in 0..(ChunkCount(stream.n) - 1) : Len(out) = i * ChunkSize /\ pos = Start(i)
       /\ Bytes(out, stream.v, 0)

\* What Stat reports is computed from the size of an object that was stored.
StatInv == op = "stat" /\ result = "ok" =>
  \E o \in seen : o # None /\ size = ReportedSize(o.size)

Inv ==
  /\ Types /\ RangeInv /\ RequestInv /\ ReadInv /\ PlainInv /\ StatInv
  /\ RangeIsExact /\ FailuresAreTold

-----------------------------------------------------------------------------
\* What is stored.

\* An object is not longer than what was put.
LEMMA ObjectFacts ==
  ASSUME Types, NEW o \in seen, o # None
  PROVE  /\ o.v \in 1..MaxVersion /\ o.n \in 0..MaxPlain /\ o.size \in Nat
         /\ o.size <= EncryptedSize(o.n) /\ o.size <= EncryptedSize(MaxPlain)
<1>1. PICK v \in 1..MaxVersion : o \in Objects(v)
  BY DEF Types
<1>2. /\ o.v = v /\ o.n \in 0..MaxPlain /\ o.size \in 0..EncryptedSize(MaxPlain)
      /\ o.size \in (EncryptedSize(o.n) - Cut)..EncryptedSize(o.n)
  BY <1>1 DEF Objects
<1>3. o.n \in Nat /\ MaxPlain \in Nat /\ Cut \in Nat
  BY <1>2, EncBounds
<1>4. EncryptedSize(o.n) \in Nat /\ EncryptedSize(MaxPlain) \in Nat
  BY <1>3, SizeOf
<1> QED  BY <1>2, <1>3, <1>4

\* Of two objects in a finite set there are two.
LEMMA TwoAreTwo ==
  ASSUME NEW S, IsFiniteSet(S), NEW a \in S, NEW b \in S, a # b
  PROVE  Cardinality(S) > 1
<1>1. IsFiniteSet({a}) /\ Cardinality({a}) = 1
  BY FS_Singleton
<1>2. IsFiniteSet({a} \cup {b}) /\ Cardinality({a} \cup {b}) = 2
  <2>1. Cardinality({a} \cup {b}) = IF b \in {a} THEN Cardinality({a}) ELSE Cardinality({a}) + 1
    BY <1>1, FS_AddElement, Zenon
  <2>2. IsFiniteSet({a} \cup {b})
    BY <1>1, FS_AddElement, Zenon
  <2> QED  BY <2>1, <2>2, <1>1
<1>3. Cardinality({a} \cup {b}) <= Cardinality(S)
  BY FS_Subset, {a} \cup {b} \subseteq S
<1>4. Cardinality(S) \in Nat
  BY FS_CardinalityType
<1> QED  BY <1>2, <1>3, <1>4

\* Nothing changed and nothing is damaged: one sound object was there throughout.
LEMMA LeftAlone ==
  ASSUME Types, ~(Cardinality(seen) > 1),
         ~ \E o \in seen : o # None /\ o.size # EncryptedSize(o.n)
  PROVE  Sound
<1>1. \A x \in seen : x = obj
  BY TwoAreTwo DEF Types
<1> QED  BY <1>1 DEF Types, Sound

\* What changes afterwards only adds to what was seen.
LEMMA SoundStays ==
  ASSUME Types, seen \subseteq seen', Sound'
  PROVE  Sound /\ obj' = obj
BY DEF Types, Sound

\* A call that has not ended has no result to judge.
LEMMA NoResult ==
  ASSUME result' = "none"
  PROVE  StatInv' /\ RangeIsExact' /\ FailuresAreTold'
BY DEF StatInv, RangeIsExact, FailuresAreTold

\* The end of a range that begins inside the plaintext, and its bytes.
LEMMA WantedIs ==
  ASSUME NEW o, o.n \in Nat, off \in Nat, len \in Int, len # 0, off < o.n
  PROVE  /\ End(o.n) \in Nat /\ off < End(o.n) /\ End(o.n) <= o.n
         /\ Cardinality(Wanted(o)) = End(o.n) - off
<1>1. End(o.n) \in Nat /\ off < End(o.n) /\ End(o.n) <= o.n
  BY DEF End
<1>2. Wanted(o) = off..(End(o.n) - 1)
  BY DEF End, Wanted
<1>3. Cardinality(off..(End(o.n) - 1)) = End(o.n) - off
  BY <1>1, FS_Interval, off \in Int, End(o.n) - 1 \in Int
<1> QED  BY <1>1, <1>2, <1>3

\* More bytes of the same object.
LEMMA Extend ==
  ASSUME NEW s \in Seq((1..MaxVersion) \X Int), NEW r \in Seq((1..MaxVersion) \X Int),
         NEW v, NEW a \in Int, NEW b \in Int, b = a + Len(s), Bytes(s, v, a), Bytes(r, v, b)
  PROVE  /\ s \o r \in Seq((1..MaxVersion) \X Int) /\ Len(s \o r) = Len(s) + Len(r)
         /\ Bytes(s \o r, v, a)
<1> DEFINE X == (1..MaxVersion) \X Int
<1>1. Len(s) \in Nat /\ Len(r) \in Nat /\ s \in Seq(X) /\ r \in Seq(X)
  OBVIOUS
<1> HIDE DEF X
<1>2. s \o r \in Seq(X) /\ Len(s \o r) = Len(s) + Len(r)
  BY <1>1
<1>3. ASSUME NEW i \in 1..(Len(s) + Len(r)) PROVE (s \o r)[i] = <<v, a + i - 1>>
  <2>1. CASE i <= Len(s)
    BY <2>1, <1>1 DEF Bytes
  <2>2. CASE i > Len(s)
    <3>1. i - Len(s) \in 1..Len(r) /\ (s \o r)[i] = r[i - Len(s)]
      BY <2>2, <1>1
    <3>2. r[i - Len(s)] = <<v, b + (i - Len(s)) - 1>>
      BY <3>1 DEF Bytes
    <3>3. b + (i - Len(s)) - 1 = a + i - 1
      BY <1>1
    <3> QED  BY <3>1, <3>2, <3>3, Zenon
  <2>3. i <= Len(s) \/ i > Len(s)
    BY <1>1
  <2> QED  BY <2>1, <2>2, <2>3, Zenon
<1> QED  BY <1>2, <1>3 DEF X, Bytes

\* What a chunk of n bytes adds.
LEMMA Piece ==
  ASSUME NEW v \in 1..MaxVersion, NEW a \in Int, NEW n \in Nat
  PROVE  LET r == [i \in 1..n |-> <<v, a + i - 1>>]
         IN r \in Seq((1..MaxVersion) \X Int) /\ Len(r) = n /\ Bytes(r, v, a)
BY DEF Bytes

-----------------------------------------------------------------------------
\* The steps.

USE DEF Pcs, Requests

\* A call returns: what it says is true, and nothing else is claimed any more.
LEMMA ReturnInv ==
  ASSUME Inv, NEW r, Return(r),
         UNCHANGED <<obj, seen, op, off, len, end, head, tail, stream, streamEnd>>,
         size' \in Int, pos' \in Int, out' \in Seq((1..MaxVersion) \X Int),
         r = "store" => failed',
         r = "corrupt" => ~Sound,
         r = "nokey" => \E o \in seen : o # None /\ ~o.own,
         r = "missing" => None \in seen,
         r = "invalid" /\ Sound => Wanted(obj) = {},
         r = "invalid" => len = 0 \/ PastEnd \/ ShortAtStream, pos' = pos \/ r # "invalid",
         r = "ok" /\ op = "stat" => \E o \in seen : o # None /\ size' = ReportedSize(o.size),
         r = "ok" /\ op # "stat" =>
           \E o \in seen : /\ o # None /\ o.own /\ Len(out') = Cardinality(Wanted(o))
                           /\ Bytes(out', o.v, off)
  PROVE  Inv'
<1>1. Types'
  BY DEF Inv, Types, Return
<1>2. RangeInv' /\ RequestInv' /\ ReadInv' /\ PlainInv'
  BY DEF Return, RangeInv, RequestInv, ReadInv, PlainInv
<1>3. StatInv'
  BY DEF Return, StatInv
<1>4. RangeIsExact'
  BY DEF Return, RangeIsExact, Wanted, Bytes
<1>5. FailuresAreTold'
  <2> DEFINE changed == Cardinality(seen) > 1
             damaged == \E o \in seen : o # None /\ o.size # EncryptedSize(o.n)
  <2>1. changed \/ damaged \/ Sound
    BY LeftAlone DEF Inv
  <2>2. r = "corrupt" => changed \/ damaged
    BY <2>1
  <2>3. r = "invalid" => changed \/ damaged \/ \A o \in seen : Wanted(o) = {}
    BY <2>1 DEF Sound
  <2>4. \A o : Wanted(o)' = Wanted(o)
    BY DEF Wanted
  <2>5. r = "invalid" => (len = 0 \/ PastEnd \/ ShortAtStream)'
    BY DEF PastEnd, ShortAtStream
  <2> QED  BY <2>2, <2>3, <2>5 DEF Return, FailuresAreTold, Wanted
<1> QED  BY <1>1, <1>2, <1>3, <1>4, <1>5 DEF Inv

\* plaintextSize is an integer, and so is what Stat reports.
LEMMA ReportedInt ==
  ASSUME NEW s \in Int
  PROVE  PlaintextSize(s) \in Int /\ ReportedSize(s) \in Int
BY SizeBack DEF ReportedSize

LEMMA StatObjectInv == Inv /\ StatObject => Inv'
<1> SUFFICES ASSUME Inv, StatObject PROVE Inv'
  OBVIOUS
<1>1. obj \in seen /\ (obj # None => ReportedSize(obj.size) \in Int)
  <2>1. obj \in seen
    BY DEF Inv, Types
  <2> QED  BY <2>1, ObjectFacts, ReportedInt DEF Inv
<1>2. /\ size \in Int /\ pos \in Int /\ out \in Seq((1..MaxVersion) \X Int)
  BY DEF Inv, Types
<1>3. UNCHANGED <<obj, seen, failed, op, off, len, end, head, tail, stream, pos, streamEnd, out>>
  BY DEF StatObject, sources
<1>4. CASE obj = None /\ Return("missing") /\ UNCHANGED size
  BY <1>1, <1>2, <1>3, <1>4, ReturnInv
<1>5. CASE obj # None /\ size' = ReportedSize(obj.size) /\ Return("ok")
  BY <1>1, <1>2, <1>3, <1>5, ReturnInv DEF StatObject
<1> QED  BY <1>4, <1>5 DEF StatObject

LEMMA GetObjectInv == Inv /\ GetObject => Inv'
<1> SUFFICES ASSUME Inv, GetObject PROVE Inv'
  OBVIOUS
<1>1. obj \in seen /\ size \in Int /\ pos \in Int /\ out \in Seq((1..MaxVersion) \X Int)
  BY DEF Inv, Types
<1>2. UNCHANGED <<obj, seen, failed, op, off, len, size, end, head, tail, pos, streamEnd, out>>
  BY DEF GetObject
<1>3. CASE obj = None /\ Return("missing") /\ UNCHANGED stream
  BY <1>1, <1>2, <1>3, ReturnInv
<1>4. CASE obj # None /\ stream' = obj /\ Goto("header")
  <2>1. Types'
    BY <1>2, <1>4 DEF Inv, Types, Goto, GetObject
  <2>2. RangeInv' /\ RequestInv' /\ ReadInv'
    BY <1>4 DEF Goto, RangeInv, RequestInv, ReadInv
  <2>3. PlainInv'
    BY <1>2, <1>4 DEF Goto, PlainInv, GetObject
  <2>4. result' = "none"
    BY <1>4 DEF Inv, Types, Goto, GetObject
  <2> QED  BY <2>1, <2>2, <2>3, <2>4, NoResult DEF Inv
<1> QED  BY <1>3, <1>4 DEF GetObject

\* Sound again after a step that leaves the store alone.
LEMMA SoundSame ==
  ASSUME UNCHANGED <<obj, seen>>
  PROVE  Sound' = Sound
BY DEF Sound

LEMMA StatStepInv == Inv /\ Stat => Inv'
<1> SUFFICES ASSUME Inv, Stat PROVE Inv'
  OBVIOUS
<1>1. /\ obj \in seen /\ size \in Int /\ pos \in Int /\ end \in Int
      /\ out \in Seq((1..MaxVersion) \X Int) /\ off \in Nat /\ len \in Int
  BY DEF Inv, Types
<1>2. UNCHANGED <<obj, seen, failed, op, off, len, head, tail, stream, pos, streamEnd, out>>
  BY DEF Stat, sources
<1>3. obj # None => obj.size \in Int /\ obj.n \in Nat
  BY <1>1, ObjectFacts DEF Inv
<1>4. Sound => obj # None /\ PlaintextSize(obj.size) = obj.n /\ obj.n \in Nat
  BY <1>3, SizeOf DEF Sound
<1>5. ASSUME UNCHANGED <<size, end>>,
             len = 0 \/ (obj # None /\ PlaintextSize(obj.size) # -1 /\ off >= PlaintextSize(obj.size)),
             Return("invalid")
      PROVE  Inv'
  <2>1. Sound => Wanted(obj) = {}
    BY <1>1, <1>4, <1>5 DEF Wanted
  <2>2. len = 0 \/ PastEnd
    BY <1>1, <1>5 DEF PastEnd
  <2> QED  BY <2>1, <2>2, <1>1, <1>2, <1>5, ReturnInv
<1>6. ASSUME UNCHANGED <<size, end>>, obj = None, Return("missing") PROVE Inv'
  BY <1>1, <1>2, <1>6, ReturnInv
<1>7. ASSUME UNCHANGED <<size, end>>, PlaintextSize(obj.size) = -1, Return("corrupt") PROVE Inv'
  <2>1. ~Sound
    BY <1>4, <1>7
  <2> QED  BY <2>1, <1>1, <1>2, <1>7, ReturnInv
<1>8. ASSUME len # 0, obj # None, off < PlaintextSize(obj.size),
             size' = obj.size, end' = End(PlaintextSize(obj.size)), Goto("open")
      PROVE  Inv'
  <2> DEFINE plain == PlaintextSize(obj.size)
  <2>1. plain # -1 /\ plain \in Nat
    BY <1>1, <1>3, <1>8, SizeBack
  <2>2. End(plain) \in Int /\ off < End(plain)
    <3> HIDE DEF plain
    <3> QED  BY <1>1, <1>8, <2>1 DEF End, plain
  <2>3. End(plain)' = End(plain)
    BY <1>2 DEF End
  <2>4. Types'
    <3> HIDE DEF plain
    <3> QED  BY <1>2, <1>3, <1>8, <2>2 DEF Inv, Types, Goto, Stat, plain
  <2>5. RangeInv'
    <3>1. Sound' => size' = obj'.size
      BY <1>2, <1>8
    <3>2. end' = End(PlaintextSize(size))'
      BY <1>2, <1>8 DEF End
    <3> QED  BY <3>1, <3>2, <1>2, <1>8, <2>1, <2>2 DEF Goto, RangeInv, Stat
  <2>6. RequestInv' /\ ReadInv' /\ PlainInv'
    BY <1>8 DEF Goto, RequestInv, ReadInv, PlainInv
  <2>7. result' = "none"
    BY <1>8 DEF Inv, Types, Goto, Stat
  <2> QED  BY <2>4, <2>5, <2>6, <2>7, NoResult DEF Inv
<1> QED  BY <1>5, <1>6, <1>7, <1>8 DEF Stat

LEMMA ReadWholeInv == Inv /\ ReadWhole => Inv'
<1> SUFFICES ASSUME Inv, ReadWhole PROVE Inv'
  OBVIOUS
<1>1. /\ obj \in seen /\ size \in Int /\ pos \in Int /\ end \in Int
      /\ out \in Seq((1..MaxVersion) \X Int) /\ off \in Nat /\ len \in Int
  BY DEF Inv, Types
<1>2. UNCHANGED <<obj, seen, failed, op, off, len, size, end, out>>
  BY DEF ReadWhole
<1>3. CASE obj = None /\ Return("missing") /\ UNCHANGED sources
  BY <1>1, <1>2, <1>3, ReturnInv DEF sources
<1>4. ASSUME obj # None, head' = obj, tail' = obj, stream' = obj,
             pos' = 0, streamEnd' = size, Goto("decrypt")
      PROVE  Inv'
  <2>1. Types'
    BY <1>2, <1>4 DEF Inv, Types, Goto, ReadWhole
  <2>2. RangeInv'
    BY <1>2, <1>4, SoundSame DEF Inv, RangeInv, Goto, ReadWhole, End
  <2>3. RequestInv'
    <3>1. PICK n \in Nat : size = EncryptedSize(n) /\ n = PlaintextSize(size)
      BY <1>1, SizeBack DEF Inv, RangeInv, ReadWhole
    <3>2. Last = ChunkCount(n) - 1 /\ ChunkCount(n) \in Nat
      BY <3>1, SizeOf, CountFacts DEF Last
    <3>3. ASSUME NEW a \in off..(end - 1), a \div ChunkSize < Last
          PROVE  Start(a \div ChunkSize + 1) <= size
      <4>1. a \in Nat
        BY <1>1
      <4>2. a \div ChunkSize \in Nat
        BY <4>1, Index
      <4> QED  BY <4>2, <3>1, <3>2, <3>3, ChunkAt
    <3>4. 0 <= Start(off \div ChunkSize)
      <4>1. off \div ChunkSize \in Nat
        BY <1>1, Index
      <4> QED  BY <4>1, StartMono, Sizes
    <3>5. Last' = Last
      BY <1>2 DEF Last
    <3> QED  BY <1>1, <1>2, <1>4, <3>3, <3>4, <3>5 DEF RequestInv, Goto
  <2>4. ReadInv' /\ PlainInv'
    BY <1>4 DEF Goto, ReadInv, PlainInv
  <2>5. result' = "none"
    BY <1>4 DEF Inv, Types, Goto, ReadWhole
  <2> QED  BY <2>1, <2>2, <2>3, <2>4, <2>5, NoResult DEF Inv
<1> QED  BY <1>3, <1>4 DEF ReadWhole

\* The regions of openChunkSource: the stream begins with the chunk of the first
\* byte and reaches to the last chunk of the range or of the object.
LEMMA OpenChunksInv == Inv /\ OpenChunks => Inv'
<1> SUFFICES ASSUME Inv, OpenChunks PROVE Inv'
  OBVIOUS
<1>1. /\ size \in Int /\ end \in Int /\ off \in Nat /\ len \in Int
      /\ off < end /\ PlaintextSize(size) # -1 /\ end = End(PlaintextSize(size))
  BY DEF Inv, Types, RangeInv, OpenChunks
<1>2. UNCHANGED <<obj, seen, failed, op, off, len, size, end, head, tail, stream, out>>
  BY DEF OpenChunks
<1>3. PICK n \in Nat : size = EncryptedSize(n) /\ n = PlaintextSize(size)
  BY <1>1, SizeBack
<1> DEFINE k == ChunkCount(n)
           c == (end - 1) \div ChunkSize
           first == off \div ChunkSize
           to == Least(Least(Start(c + 1), size), Start(k - 1))
<1>4. k \in Nat \ {0} /\ Last = k - 1 /\ FinalChunkOffset(size) = Start(k - 1)
  BY <1>3, SizeOf, CountFacts DEF Last, FinalChunkOffset, Start
<1>5. c \in Nat /\ first \in Nat
  BY <1>1, Index, end - 1 \in Nat
<1>6. pos' = Start(first) /\ streamEnd' = to /\ Goto("head")
  BY <1>4 DEF OpenChunks, ChunkSpanStart, ChunkSpanStop, Start
<1>7. Start(first) \in Int /\ Start(c + 1) \in Int /\ Start(k - 1) \in Int /\ Start(k - 1) < size
  BY <1>3, <1>4, <1>5, SizeOf, StartMono, k - 1 \in Int, c + 1 \in Int
<1>8. to \in Int /\ to <= size
  BY <1>1, <1>7 DEF Least
<1>9. ASSUME NEW a \in off..(end - 1), a \div ChunkSize < Last
      PROVE  Start(a \div ChunkSize + 1) <= to
  <2> DEFINE i == a \div ChunkSize
  <2>1. a \in Nat /\ end - 1 \in Nat /\ a <= end - 1
    BY <1>1
  <2>2. i \in Nat /\ i <= c
    BY <2>1, Index, IndexMono
  <2> HIDE DEF i, c
  <2>3. Start(i + 1) <= Start(c + 1)
    BY <2>2, <1>5, StartMono, i + 1 \in Int, c + 1 \in Int
  <2>4. i < k - 1
    BY <1>4, <1>9 DEF i
  <2>5. Start(i + 1) <= Start(k - 1)
    BY <2>2, <2>4, <1>4, StartMono, i + 1 \in Int, k - 1 \in Int
  <2>6. Start(i + 1) \in Int
    BY <2>2, StartMono, i + 1 \in Int
  <2>7. Start(i + 1) <= to
    BY <1>1, <1>7, <2>3, <2>5, <2>6 DEF Least
  <2> QED  BY <2>7 DEF i
<1> HIDE DEF k, c, to
<1>10. Types'
  BY <1>2, <1>6, <1>7, <1>8 DEF Inv, Types, Goto, OpenChunks
<1>11. RangeInv'
  BY <1>2, <1>6, SoundSame DEF Inv, RangeInv, Goto, OpenChunks, End
<1>12. RequestInv'
  <2>1. Last' = Last
    BY <1>2 DEF Last
  <2>2. Start(first) <= Start(first)
    BY <1>7
  <2> QED  BY <1>2, <1>6, <1>8, <1>9, <2>1, <2>2 DEF RequestInv, Goto, OpenChunks
<1>13. ReadInv' /\ PlainInv'
  BY <1>6 DEF Goto, ReadInv, PlainInv
<1>14. result' = "none"
  BY <1>6 DEF Inv, Types, Goto, OpenChunks
<1> QED  BY <1>10, <1>11, <1>12, <1>13, <1>14, NoResult DEF Inv

LEMMA FetchHeadInv == Inv /\ FetchHead => Inv'
<1> SUFFICES ASSUME Inv, FetchHead PROVE Inv'
  OBVIOUS
<1>1. /\ obj \in seen /\ size \in Int /\ pos \in Int /\ size > WholeObjectSize
      /\ out \in Seq((1..MaxVersion) \X Int) /\ (Sound => size = obj.size)
  BY DEF Inv, Types, RangeInv, RequestInv, FetchHead
<1>2. UNCHANGED <<obj, seen, failed, op, off, len, size, end, tail, stream, pos, streamEnd, out>>
  BY DEF FetchHead
<1>3. ASSUME obj = None, Return("missing"), UNCHANGED head PROVE Inv'
  BY <1>1, <1>2, <1>3, ReturnInv
<1>4. ASSUME obj.size < HeaderReadSize, Return("corrupt"), UNCHANGED head PROVE Inv'
  <2>1. ~Sound
    BY <1>1, <1>4, EncSizes
  <2> QED  BY <2>1, <1>1, <1>2, <1>4, ReturnInv
<1>5. ASSUME obj # None, head' = obj, Goto("tail") PROVE Inv'
  <2>1. Types'
    BY <1>2, <1>5 DEF Inv, Types, Goto, FetchHead
  <2>2. RangeInv'
    BY <1>2, <1>5, SoundSame DEF Inv, RangeInv, Goto, FetchHead, End
  <2>3. RequestInv'
    BY <1>2, <1>5 DEF Inv, RequestInv, Goto, FetchHead, Last
  <2>4. ReadInv' /\ PlainInv'
    BY <1>5 DEF Goto, ReadInv, PlainInv
  <2>5. result' = "none"
    BY <1>5 DEF Inv, Types, Goto, FetchHead
  <2> QED  BY <2>1, <2>2, <2>3, <2>4, <2>5, NoResult DEF Inv
<1> QED  BY <1>3, <1>4, <1>5 DEF FetchHead, Fetch

LEMMA FetchTailInv == Inv /\ FetchTail => Inv'
<1> SUFFICES ASSUME Inv, FetchTail PROVE Inv'
  OBVIOUS
<1>1. /\ obj \in seen /\ size \in Int /\ pos \in Int /\ streamEnd \in Int
      /\ out \in Seq((1..MaxVersion) \X Int) /\ (Sound => size = obj.size)
  BY DEF Inv, Types, RangeInv, FetchTail
<1>2. UNCHANGED <<obj, seen, failed, op, off, len, size, end, head, stream, pos, streamEnd, out>>
  BY DEF FetchTail
<1>3. ASSUME obj = None, Return("missing"), UNCHANGED tail PROVE Inv'
  BY <1>1, <1>2, <1>3, ReturnInv
<1>4. ASSUME obj.size < size, Return("corrupt"), UNCHANGED tail PROVE Inv'
  <2>1. ~Sound
    BY <1>1, <1>4
  <2> QED  BY <2>1, <1>1, <1>2, <1>4, ReturnInv
<1>5. ASSUME obj # None, tail' = obj, Goto(IF pos < streamEnd THEN "stream" ELSE "decrypt")
      PROVE  Inv'
  <2> DEFINE at == IF pos < streamEnd THEN "stream" ELSE "decrypt"
  <2>1. at \in {"stream", "decrypt"} /\ pc' = at /\ result' = result
    BY <1>5 DEF Goto
  <2>2. pc' = "stream" => pos < streamEnd
    BY <2>1
  <2>3. pc' = "decrypt" => pos >= streamEnd
    BY <2>1, <1>1
  <2> HIDE DEF at
  <2>4. Types'
    BY <1>2, <1>5, <2>1 DEF Inv, Types, FetchTail
  <2>5. RangeInv'
    BY <1>2, <1>5, <2>1, SoundSame DEF Inv, RangeInv, FetchTail, End
  <2>6. RequestInv'
    BY <1>2, <1>5, <2>1, <2>2, <2>3 DEF Inv, RequestInv, FetchTail, Last
  <2>7. ReadInv' /\ PlainInv'
    BY <2>1 DEF ReadInv, PlainInv
  <2>8. result' = "none"
    BY <2>1 DEF Inv, Types, FetchTail
  <2> QED  BY <2>4, <2>5, <2>6, <2>7, <2>8, NoResult DEF Inv
<1> QED  BY <1>3, <1>4, <1>5 DEF FetchTail, Fetch

LEMMA OpenStreamInv == Inv /\ OpenStream => Inv'
<1> SUFFICES ASSUME Inv, OpenStream PROVE Inv'
  OBVIOUS
<1>1. /\ obj \in seen /\ size \in Int /\ pos \in Int /\ streamEnd \in Int
      /\ out \in Seq((1..MaxVersion) \X Int) /\ (Sound => size = obj.size)
      /\ pos < streamEnd /\ streamEnd <= size
  BY DEF Inv, Types, RangeInv, RequestInv, OpenStream
<1>2. UNCHANGED <<obj, seen, failed, op, off, len, size, end, head, tail, pos, streamEnd, out>>
  BY DEF OpenStream
<1>3. ASSUME obj = None, Return("missing"), UNCHANGED stream PROVE Inv'
  BY <1>1, <1>2, <1>3, ReturnInv
<1>4. ASSUME obj # None, pos >= obj.size, Return("invalid"), UNCHANGED stream PROVE Inv'
  <2>1. ~Sound
    BY <1>1, <1>4
  <2>2. obj.size \in Int /\ tail # None
    BY <1>1, <1>4, ObjectFacts DEF Inv, RequestInv, OpenStream
  <2>3. ShortAtStream
    BY <1>1, <1>4, <2>2 DEF ShortAtStream
  <2> QED  BY <2>1, <2>3, <1>1, <1>2, <1>4, ReturnInv
<1>5. ASSUME obj # None, stream' = obj, Goto("decrypt") PROVE Inv'
  <2>1. Types'
    BY <1>2, <1>5 DEF Inv, Types, Goto, OpenStream
  <2>2. RangeInv'
    BY <1>2, <1>5, SoundSame DEF Inv, RangeInv, Goto, OpenStream, End
  <2>3. RequestInv'
    BY <1>2, <1>5 DEF Inv, RequestInv, Goto, OpenStream, Last
  <2>4. ReadInv' /\ PlainInv'
    BY <1>5 DEF Goto, ReadInv, PlainInv
  <2>5. result' = "none"
    BY <1>5 DEF Inv, Types, Goto, OpenStream
  <2> QED  BY <2>1, <2>2, <2>3, <2>4, <2>5, NoResult DEF Inv
<1> QED  BY <1>3, <1>4, <1>5 DEF OpenStream

\* Of an object that was left alone, the final chunk authenticates.  Of any, one
\* that does tells the length of its object.
LEMMA FinalChunk ==
  ASSUME Inv, pc \in Requests, NEW o \in seen, o # None
  PROVE  /\ Sound => Authentic(o, Last, FinalChunkOffset(size), size, TRUE)
         /\ Authentic(o, Last, FinalChunkOffset(size), size, TRUE) => size = EncryptedSize(o.n)
<1>1. o.n \in Nat /\ o.size <= EncryptedSize(o.n) /\ o.size \in Nat
  BY ObjectFacts, EncBounds DEF Inv
<1> DEFINE k == ChunkCount(o.n)
           s == EncryptedSize(o.n)
<1>2. k \in Nat \ {0} /\ s \in Nat /\ Chunks(s - PayloadOffset) = k
  BY <1>1, CountFacts, SizeOf
<1>3. /\ FinalChunkOffset(s) = Start(k - 1)
      /\ Least(Start(k - 1) + EncChunkSize, s) = s
  BY <1>1, <1>2, ChunkAt, k - 1 \in Nat
<1>4. ASSUME Sound PROVE Authentic(o, Last, FinalChunkOffset(size), size, TRUE)
  <2>1. o = obj /\ size = s /\ o.size = s
    BY <1>4 DEF Sound, Inv, RangeInv
  <2>2. Last = k - 1
    BY <2>1, <1>2 DEF Last
  <2>3. FinalChunkOffset(size) = PayloadOffset + (k - 1) * EncChunkSize
    BY <2>1, <1>3 DEF Start
  <2>4. Least(FinalChunkOffset(size) + EncChunkSize, s) = s
    BY <2>1, <1>3
  <2> HIDE DEF k, s
  <2>5. s = EncryptedSize(o.n) /\ k = ChunkCount(o.n)
    BY DEF k, s
  <2>6. k - 1 < k /\ size <= o.size
    BY <2>1, <1>2
  <2> QED  BY <2>1, <2>2, <2>3, <2>4, <2>5, <2>6 DEF Authentic
<1>5. ASSUME Authentic(o, Last, FinalChunkOffset(size), size, TRUE) PROVE size = s
  <2>1. /\ Last = k - 1 /\ FinalChunkOffset(size) = Start(Last)
        /\ size = Least(FinalChunkOffset(size) + EncChunkSize, s)
    BY <1>5 DEF Authentic, Start
  <2> QED  BY <2>1, <1>3
<1> QED  BY <1>4, <1>5

LEMMA DecryptReaderAtInv == Inv /\ DecryptReaderAt => Inv'
<1> SUFFICES ASSUME Inv, DecryptReaderAt PROVE Inv'
  OBVIOUS
<1>1. /\ size \in Int /\ pos \in Int /\ off \in Nat /\ end \in Int /\ out = <<>>
      /\ head \in seen /\ head # None /\ tail \in seen /\ tail # None
      /\ out \in Seq((1..MaxVersion) \X Int)
  BY DEF Inv, Types, RequestInv, DecryptReaderAt
<1>2. UNCHANGED <<obj, seen, failed, op, off, len, size, end, head, tail, stream, pos, streamEnd, out>>
  BY DEF DecryptReaderAt, sources
<1>3. ASSUME head.size < PayloadOffset, Return("corrupt") PROVE Inv'
  <2>1. ASSUME Sound PROVE FALSE
    <3>1. head = obj /\ head.size = EncryptedSize(head.n)
      BY <1>1, <2>1 DEF Sound
    <3>2. head.n \in Nat
      BY <1>1, ObjectFacts, EncBounds DEF Inv
    <3> QED  BY <3>1, <3>2, <1>3, SizeOf, Sizes
  <2> QED  BY <2>1, <1>1, <1>2, <1>3, ReturnInv
<1>4. ASSUME ~head.own, Return("nokey") PROVE Inv'
  BY <1>1, <1>2, <1>4, ReturnInv
<1>5. ASSUME ~(tail.v = head.v /\ Authentic(tail, Last, FinalChunkOffset(size), size, TRUE)),
             Return("corrupt")
      PROVE  Inv'
  <2>1. Sound => tail = head
    BY <1>1 DEF Sound
  <2>2. ~Sound
    BY <2>1, <1>1, <1>5, FinalChunk DEF DecryptReaderAt
  <2> QED  BY <2>2, <1>1, <1>2, <1>5, ReturnInv
<1>6. ASSUME head.own, tail.v = head.v, Goto("read"),
             Authentic(tail, Last, FinalChunkOffset(size), size, TRUE)
      PROVE  Inv'
  <2>1. tail = head
    BY <1>1, <1>6 DEF Inv, Types
  <2>2. size = EncryptedSize(head.n)
    BY <1>1, <1>6, <2>1, FinalChunk DEF DecryptReaderAt
  <2>3. Types'
    BY <1>2, <1>6 DEF Inv, Types, Goto, DecryptReaderAt
  <2>4. RangeInv'
    BY <1>2, <1>6, SoundSame DEF Inv, RangeInv, Goto, DecryptReaderAt, End
  <2>5. RequestInv'
    BY <1>2, <1>6 DEF Inv, RequestInv, Goto, DecryptReaderAt, Last
  <2>6. ReadInv'
    <3>1. At' = off /\ Len(out') = 0
      BY <1>1, <1>2 DEF At
    <3>2. off < end /\ pos <= Start(off \div ChunkSize)
      BY DEF Inv, RangeInv, RequestInv, DecryptReaderAt
    <3>3. ChunkStart' = Start(off \div ChunkSize)
      BY <3>1 DEF ChunkStart, Chunk, Start
    <3>4. off <= end
      BY <3>2, <1>1
    <3> QED  BY <1>2, <1>6, <2>1, <2>2, <3>1, <3>2, <3>3, <3>4 DEF ReadInv, Bytes
  <2>7. PlainInv'
    BY <1>6 DEF Goto, PlainInv
  <2>8. result' = "none"
    BY <1>6 DEF Inv, Types, Goto, DecryptReaderAt
  <2> QED  BY <2>3, <2>4, <2>5, <2>6, <2>7, <2>8, NoResult DEF Inv
<1> QED  BY <1>3, <1>4, <1>5, <1>6 DEF DecryptReaderAt

\* The chunk that is read next: where it is, and that it is planned for.
LEMMA NextChunk ==
  ASSUME Inv, pc = "read", At < end
  PROVE  /\ At \in Nat /\ Chunk \in Nat /\ Chunk * ChunkSize <= At /\ At < (Chunk + 1) * ChunkSize
         /\ ChunkStart = Start(Chunk) /\ ChunkStart \in Int /\ ChunkStop \in Int
         /\ ChunkStart < ChunkStop /\ ChunkStop <= Start(Chunk + 1) /\ ChunkStop <= size
         /\ ChunkStart < FinalChunkOffset(size) => ChunkStop <= streamEnd
         /\ Sound => Authentic(obj, Chunk, ChunkStart, ChunkStop, Chunk = Last)
<1>1. /\ off \in Nat /\ Len(out) \in Nat /\ end \in Int /\ size \in Int /\ len \in Int
      /\ head \in seen /\ head # None /\ size = EncryptedSize(head.n)
  BY DEF Inv, Types, RequestInv, ReadInv
<1>2. head.n \in Nat
  BY <1>1, ObjectFacts, EncBounds DEF Inv
<1>3. PlaintextSize(size) = head.n
  BY <1>1, <1>2, SizeOf
<1>4. At \in Nat /\ end <= head.n
  <2>1. end = End(head.n) /\ off < end
    BY <1>3 DEF Inv, RangeInv
  <2> QED  BY <2>1, <1>1, <1>2 DEF At, End
<1>5. Chunk \in Nat /\ Chunk * ChunkSize <= At /\ At < (Chunk + 1) * ChunkSize
  BY <1>4, Index DEF Chunk
<1>6. Chunk < ChunkCount(head.n)
  BY <1>1, <1>2, <1>4, IndexBelow DEF Chunk
<1>7. Last = ChunkCount(head.n) - 1 /\ ChunkCount(head.n) \in Nat \ {0}
  BY <1>1, <1>2, SizeOf, CountFacts DEF Last
<1>8. ChunkStart = Start(Chunk) /\ ChunkStop = Least(Start(Chunk) + EncChunkSize, size)
  BY DEF ChunkStart, ChunkStop, Start
<1>9. /\ FinalChunkOffset(size) = Start(Last)
      /\ ChunkStop \in Int /\ ChunkStart < ChunkStop /\ ChunkStop <= Start(Chunk + 1)
      /\ ChunkStop <= size
      /\ Chunk < Last => ChunkStop = Start(Chunk + 1)
  BY <1>1, <1>2, <1>5, <1>6, <1>7, <1>8, ChunkAt
<1>10. ChunkStart \in Int /\ (Start(Chunk) < Start(Last) => Chunk < Last)
  BY <1>5, <1>7, <1>8, StartMono, Last \in Int
<1>11. Chunk < Last => Start(Chunk + 1) <= streamEnd
  <2>1. At \in off..(end - 1)
    BY <1>1, <1>4 DEF At
  <2> QED  BY <2>1 DEF Inv, RequestInv, Chunk
<1>12. ASSUME Sound PROVE Authentic(obj, Chunk, ChunkStart, ChunkStop, Chunk = Last)
  <2>1. obj = head /\ obj.size = EncryptedSize(obj.n)
    BY <1>1, <1>12 DEF Sound
  <2>2. Chunk < ChunkCount(obj.n) /\ (Chunk = Last <=> Chunk = ChunkCount(obj.n) - 1)
    BY <2>1, <1>6, <1>7
  <2>3. ChunkStart = PayloadOffset + Chunk * EncChunkSize
    BY DEF ChunkStart
  <2>4. ChunkStop = Least(ChunkStart + EncChunkSize, EncryptedSize(obj.n)) /\ ChunkStop <= obj.size
    BY <2>1, <1>1, <1>8, <1>9
  <2> QED  BY <2>2, <2>3, <2>4 DEF Authentic
<1> QED  BY <1>4, <1>5, <1>8, <1>9, <1>10, <1>11, <1>12

\* A chunk that is delivered is of the object whose header was read, and the next
\* chunk is the one after it; an object left alone delivers.
LEMMA DeliverInv ==
  ASSUME Inv, pc = "read", At < end, NEW o \in seen, o # None, Deliver(o),
         UNCHANGED <<obj, seen, failed, op, off, len, size, end, head, tail, stream, streamEnd>>,
         pos' \in Int, pos' <= Start(Chunk + 1), stream = None => pos' = pos
  PROVE  Inv'
<1>1. /\ off \in Nat /\ Len(out) \in Nat /\ end \in Int /\ size \in Int
      /\ head \in seen /\ head # None /\ out \in Seq((1..MaxVersion) \X Int)
      /\ Bytes(out, head.v, off)
  BY DEF Inv, Types, RequestInv, ReadInv
<1>2. /\ At \in Nat /\ Chunk \in Nat /\ At < (Chunk + 1) * ChunkSize
  BY NextChunk
<1> DEFINE ok == o.v = head.v /\ Authentic(o, Chunk, ChunkStart, ChunkStop, Chunk = Last)
           next == Least((Chunk + 1) * ChunkSize, end)
<1>3. CASE ~ok
  <2>1. Sound => o = obj /\ head = obj
    BY <1>1 DEF Sound
  <2>2. ~Sound
    BY <2>1, <1>3, NextChunk
  <2>3. Return("corrupt") /\ UNCHANGED out
    BY <1>3 DEF Deliver
  <2> QED  BY <2>2, <2>3, <1>1, ReturnInv
<1>4. CASE ok
  <2>1. /\ out' = out \o [i \in 1..(next - At) |-> <<o.v, At + i - 1>>]
        /\ Goto("read")
    BY <1>4 DEF Deliver
  <2>2. o = head
    BY <1>1, <1>4 DEF Inv, Types
  <2>3. /\ (Chunk + 1) * ChunkSize \in Nat
        /\ ((Chunk + 1) * ChunkSize) \div ChunkSize = Chunk + 1
    BY <1>2, IndexOfFirst, Chunk + 1 \in Nat
  <2>4. next \in Int /\ next - At \in Nat /\ next <= end /\ (next < end => next = (Chunk + 1) * ChunkSize)
    BY <1>1, <1>2, <2>3 DEF Least
  <2>5. head.v \in 1..MaxVersion
    BY <1>1, ObjectFacts DEF Inv
  <2> HIDE DEF next
  <2>6. /\ out' \in Seq((1..MaxVersion) \X Int) /\ Len(out') = Len(out) + (next - At)
        /\ Bytes(out', head.v, off)
    <3> DEFINE r == [i \in 1..(next - At) |-> <<head.v, At + i - 1>>]
    <3>1. /\ r \in Seq((1..MaxVersion) \X Int) /\ Len(r) = next - At
          /\ Bytes(r, head.v, At)
      BY <1>2, <2>4, <2>5, Piece, At \in Int
    <3>2. out' = out \o r
      BY <2>1, <2>2
    <3> HIDE DEF r
    <3>3. /\ out \o r \in Seq((1..MaxVersion) \X Int) /\ Len(out \o r) = Len(out) + Len(r)
          /\ Bytes(out \o r, head.v, off)
      BY <1>1, <1>2, <3>1, Extend, off \in Int, At \in Int, At = off + Len(out) DEF At
    <3> QED  BY <3>1, <3>2, <3>3
  <2>7. At' = next
    <3>1. Len(out') = Len(out) + (next - At) /\ At' = off + Len(out')
      BY <2>6 DEF At
    <3>2. At = off + Len(out)
      BY DEF At
    <3> QED  BY <3>1, <3>2, <1>1, <1>2, <2>4
  <2>8. next < end => ChunkStart' = Start(Chunk + 1)
    BY <2>3, <2>4, <2>7 DEF ChunkStart, Chunk, Start
  <2>9. Types'
    BY <2>1, <2>6 DEF Inv, Types, Goto
  <2>10. RangeInv'
    BY <2>1, SoundSame DEF Inv, RangeInv, Goto, End
  <2>11. RequestInv'
    BY <2>1 DEF Inv, RequestInv, Goto, Last
  <2>12. ReadInv'
    BY <2>1, <2>4, <2>6, <2>7, <2>8 DEF Inv, ReadInv, Goto
  <2>13. PlainInv'
    BY <2>1 DEF Goto, PlainInv
  <2>14. result' = "none"
    BY <2>1 DEF Inv, Types, Goto
  <2> QED  BY <2>9, <2>10, <2>11, <2>12, <2>13, <2>14, NoResult DEF Inv
<1> QED  BY <1>3, <1>4

LEMMA ReadTailInv == Inv /\ ReadTail => Inv'
<1> SUFFICES ASSUME Inv, ReadTail PROVE Inv'
  OBVIOUS
<1>1. pc = "read" /\ At < end /\ Deliver(tail)
  BY DEF ReadTail
<1>2. UNCHANGED <<obj, seen, failed, op, off, len, size, end, head, tail, stream, pos, streamEnd>>
  BY DEF ReadTail, sources
<1>3. tail \in seen /\ tail # None /\ pos \in Int /\ pos <= ChunkStart
  BY <1>1 DEF Inv, Types, RequestInv, ReadInv
<1>4. pos <= Start(Chunk + 1)
  BY <1>1, <1>3, NextChunk, StartMono, Chunk \in Int, Sizes
<1> QED  BY <1>1, <1>2, <1>3, <1>4, DeliverInv

LEMMA ReadStreamInv == Inv /\ ReadStream => Inv'
<1> SUFFICES ASSUME Inv, ReadStream PROVE Inv'
  OBVIOUS
<1>1. pc = "read" /\ At < end /\ ChunkStart < FinalChunkOffset(size)
  BY DEF ReadStream
<1>2. UNCHANGED <<obj, seen, failed, op, off, len, size, end, head, tail, stream, streamEnd>>
  BY DEF ReadStream
<1>3. /\ pos \in Int /\ streamEnd \in Int /\ size \in Int /\ pos <= ChunkStart
      /\ stream \in seen \cup {None} /\ out \in Seq((1..MaxVersion) \X Int)
      /\ stream = None => pos >= streamEnd
      /\ Sound => size = obj.size
  BY <1>1 DEF Inv, Types, RangeInv, RequestInv, ReadInv
<1>4. /\ ChunkStart \in Int /\ ChunkStop \in Int /\ ChunkStart < ChunkStop
      /\ ChunkStop <= streamEnd /\ ChunkStop <= size /\ ChunkStop <= Start(Chunk + 1)
  BY <1>1, NextChunk
<1>5. ~(stream = None \/ ChunkStart < pos \/ ChunkStop > streamEnd)
  BY <1>3, <1>4
<1>6. ASSUME stream.size < ChunkStop, Return("corrupt"), UNCHANGED <<pos, out>> PROVE Inv'
  <2>1. ~Sound
    BY <1>3, <1>4, <1>5, <1>6 DEF Sound
  <2> QED  BY <2>1, <1>2, <1>3, <1>6, ReturnInv
<1>7. ASSUME pos' = ChunkStop, Deliver(stream) PROVE Inv'
  BY <1>1, <1>2, <1>3, <1>4, <1>5, <1>7, DeliverInv
<1> QED  BY <1>5, <1>6, <1>7 DEF ReadStream

\* The range is read to its end: these are the bytes that were wanted.
LEMMA ReadDoneInv == Inv /\ ReadDone => Inv'
<1> SUFFICES ASSUME Inv, ReadDone PROVE Inv'
  OBVIOUS
<1>1. /\ pc = "read" /\ At >= end /\ Return("ok")
      /\ UNCHANGED <<obj, seen, failed, op, off, len, size, end, head, tail, stream, pos, streamEnd, out>>
  BY DEF ReadDone, sources
<1>2. /\ off \in Nat /\ len \in Int /\ Len(out) \in Nat /\ end \in Int /\ size \in Int
      /\ head \in seen /\ head # None /\ out \in Seq((1..MaxVersion) \X Int) /\ pos \in Int
  BY <1>1 DEF Inv, Types, RequestInv
<1>3. /\ size = EncryptedSize(head.n) /\ At <= end /\ head.own
      /\ Bytes(out, head.v, off)
      /\ op = "range" /\ len # 0 /\ off < end /\ end = End(PlaintextSize(size))
  BY <1>1 DEF Inv, RangeInv, ReadInv
<1>4. head.n \in Nat
  BY <1>2, ObjectFacts, EncBounds DEF Inv
<1>5. PlaintextSize(size) = head.n
  BY <1>3, <1>4, SizeOf
<1>6. off < head.n
  BY <1>2, <1>3, <1>4, <1>5 DEF End
<1>7. Cardinality(Wanted(head)) = end - off
  BY <1>2, <1>3, <1>4, <1>5, <1>6, WantedIs
<1>8. Len(out) = end - off
  BY <1>1, <1>2, <1>3 DEF At
<1> QED  BY <1>1, <1>2, <1>3, <1>7, <1>8, ReturnInv

LEMMA DecryptInv == Inv /\ Decrypt => Inv'
<1> SUFFICES ASSUME Inv, Decrypt PROVE Inv'
  OBVIOUS
<1>1. /\ stream \in seen /\ stream # None /\ size \in Int /\ pos \in Int /\ op = "get"
      /\ out = <<>> /\ out \in Seq((1..MaxVersion) \X Int)
  BY DEF Inv, Types, PlainInv, Decrypt
<1>2. UNCHANGED <<obj, seen, failed, op, off, len, size, end, head, tail, stream, streamEnd, out>>
  BY DEF Decrypt
<1>3. stream.n \in Nat
  BY <1>1, ObjectFacts, EncBounds DEF Inv
<1>4. ASSUME stream.size < PayloadOffset, Return("corrupt"), UNCHANGED pos PROVE Inv'
  <2>1. Sound => stream.size = EncryptedSize(stream.n)
    BY <1>1 DEF Sound
  <2>2. ~Sound
    BY <2>1, <1>3, <1>4, SizeOf, Sizes
  <2> QED  BY <2>2, <1>1, <1>2, <1>4, ReturnInv
<1>5. ASSUME ~stream.own, Return("nokey"), UNCHANGED pos PROVE Inv'
  BY <1>1, <1>2, <1>5, ReturnInv
<1>6. ASSUME stream.own, pos' = PayloadOffset, Goto("plain") PROVE Inv'
  <2>1. Types'
    BY <1>2, <1>6, Sizes DEF Inv, Types, Goto, Decrypt
  <2>2. RangeInv' /\ RequestInv' /\ ReadInv'
    BY <1>6 DEF Goto, RangeInv, RequestInv, ReadInv
  <2>3. PlainInv'
    <3>1. 0 \in 0..(ChunkCount(stream.n) - 1)
      BY <1>3, CountFacts
    <3>2. Len(out) = 0 /\ 0 * ChunkSize = 0 /\ Start(0) = PayloadOffset
      BY <1>1, Sizes DEF Start
    <3> QED  BY <1>1, <1>2, <1>6, <3>1, <3>2 DEF PlainInv, Goto, Bytes
  <2>4. result' = "none"
    BY <1>6 DEF Inv, Types, Goto, Decrypt
  <2> QED  BY <2>1, <2>2, <2>3, <2>4, NoResult DEF Inv
<1> QED  BY <1>4, <1>5, <1>6 DEF Decrypt

\* The plaintext of n bytes, chunk by chunk.
LEMMA PlainChunk ==
  ASSUME NEW n \in Nat, NEW i \in 0..(ChunkCount(n) - 1)
  PROVE  LET upto == Least((i + 1) * ChunkSize, n)
         IN /\ i * ChunkSize \in Nat /\ (i * ChunkSize) \div ChunkSize = i
            /\ upto \in Nat /\ i * ChunkSize <= upto
            /\ i < ChunkCount(n) - 1 => upto = (i + 1) * ChunkSize
            /\ i = ChunkCount(n) - 1 => upto = n
<1> DEFINE k == ChunkCount(n)
<1>1. /\ k \in Nat \ {0} /\ n <= k * ChunkSize
      /\ (k * ChunkSize - ChunkSize < n) \/ (n = 0 /\ k = 1)
  BY CountFacts
<1>2. i \in Nat /\ i <= k - 1
  BY <1>1
<1> HIDE DEF k
<1>3. i * ChunkSize \in Nat /\ (i * ChunkSize) \div ChunkSize = i
  BY <1>2, IndexOfFirst
<1>4. (i + 1) * ChunkSize = i * ChunkSize + ChunkSize /\ k * ChunkSize \in Nat
  BY <1>1, <1>2, Sizes
<1>5. i < k - 1 => (i + 1) * ChunkSize < n
  <2> SUFFICES ASSUME i < k - 1 PROVE (i + 1) * ChunkSize < n
    OBVIOUS
  <2>1. (i + 1) * ChunkSize + ChunkSize <= k * ChunkSize
    BY <1>1, <1>2, MulLess, Sizes, i + 1 \in Int
  <2> QED  BY <2>1, <1>1, <1>2, <1>3, <1>4, Sizes
<1>6. i = k - 1 => n <= (i + 1) * ChunkSize /\ i * ChunkSize <= n
  <2> SUFFICES ASSUME i = k - 1 PROVE n <= (i + 1) * ChunkSize /\ i * ChunkSize <= n
    OBVIOUS
  <2>1. i + 1 = k
    BY <1>1
  <2>2. k = 1 => i * ChunkSize = 0
    BY <2>1, <1>2, Sizes
  <2> QED  BY <2>1, <2>2, <1>1, <1>3, <1>4, Sizes
<1>7. Least((i + 1) * ChunkSize, n) \in Nat /\ i * ChunkSize <= Least((i + 1) * ChunkSize, n)
  BY <1>1, <1>2, <1>3, <1>4, <1>5, <1>6, Sizes DEF Least
<1>8. i < k - 1 => Least((i + 1) * ChunkSize, n) = (i + 1) * ChunkSize
  BY <1>5 DEF Least
<1>9. i = k - 1 => Least((i + 1) * ChunkSize, n) = n
  BY <1>3, <1>4, <1>6, Sizes DEF Least
<1> QED  BY <1>3, <1>7, <1>8, <1>9 DEF k

\* GetObject goes on to the next chunk, ends with the last, or refuses one that
\* does not authenticate, which is none of an object left alone.
LEMMA ReadPlainInv == Inv /\ ReadPlain => Inv'
<1> SUFFICES ASSUME Inv, ReadPlain PROVE Inv'
  OBVIOUS
<1>1. /\ stream \in seen /\ stream # None /\ stream.own /\ Bytes(out, stream.v, 0)
      /\ size \in Int /\ pos \in Int /\ op = "get" /\ off = 0 /\ len = -1
      /\ out \in Seq((1..MaxVersion) \X Int)
  BY DEF Inv, Types, PlainInv, ReadPlain
<1>2. UNCHANGED <<obj, seen, failed, op, off, len, size, end, head, tail, stream, streamEnd>>
  BY DEF ReadPlain
<1>3. stream.n \in Nat /\ stream.v \in 1..MaxVersion /\ stream.size \in Nat
  BY <1>1, ObjectFacts, EncBounds DEF Inv
<1> DEFINE k == ChunkCount(stream.n)
<1>4. PICK i \in 0..(k - 1) : Len(out) = i * ChunkSize /\ pos = Start(i)
  BY DEF Inv, PlainInv, ReadPlain
<1> DEFINE stop == Least(pos + EncChunkSize, stream.size)
           upto == Least((i + 1) * ChunkSize, stream.n)
           r == [j \in 1..(upto - Len(out)) |-> <<stream.v, Len(out) + j - 1>>]
<1>5. /\ Len(out) \in Nat /\ Len(out) \div ChunkSize = i
      /\ upto \in Nat /\ upto - Len(out) \in Nat
      /\ i < k - 1 => upto = (i + 1) * ChunkSize
      /\ i = k - 1 => upto = stream.n
  BY <1>3, <1>4, PlainChunk
<1>6. k \in Nat \ {0} /\ i \in Nat /\ i < k
  <2>1. k \in Nat \ {0}
    BY <1>3, CountFacts
  <2> HIDE DEF k
  <2> QED  BY <2>1, <1>4
<1>7. /\ r \in Seq((1..MaxVersion) \X Int) /\ Len(r) = upto - Len(out)
      /\ Bytes(r, stream.v, Len(out))
  <2> HIDE DEF upto
  <2>1. Len(out) \in Int
    BY <1>5
  <2> QED  BY <2>1, <1>3, <1>5, Piece
<1> HIDE DEF k, upto, r
<1>8. /\ out \o r \in Seq((1..MaxVersion) \X Int) /\ Len(out \o r) = upto
      /\ Bytes(out \o r, stream.v, 0)
  <2> DEFINE z == 0
  <2>1. z \in Int /\ Len(out) \in Int /\ Len(out) = z + Len(out) /\ Bytes(out, stream.v, z)
    BY <1>1, <1>5
  <2> HIDE DEF z
  <2>2. /\ out \o r \in Seq((1..MaxVersion) \X Int) /\ Len(out \o r) = Len(out) + Len(r)
        /\ Bytes(out \o r, stream.v, z)
    BY <1>1, <1>7, <2>1, Extend
  <2> QED  BY <2>2, <1>5, <1>7 DEF z
<1>9. stop \in Int
  BY <1>1, <1>3, Sizes DEF Least
<1>10. ASSUME NEW last \in BOOLEAN, Authentic(stream, i, pos, stop, last),
              IF last THEN Return("ok") ELSE Goto("plain"), pos' = stop, out' = out \o r
       PROVE  Inv'
  <2>1. (last <=> i = k - 1) /\ stop = Least(pos + EncChunkSize, EncryptedSize(stream.n))
    BY <1>10 DEF Authentic, k
  <2>2. CASE last
    <3>1. Return("ok") /\ Len(out') = stream.n
      BY <1>5, <1>8, <1>10, <2>1, <2>2
    <3>2. Wanted(stream) = 0..(stream.n - 1)
      BY <1>1, <1>3 DEF Wanted
    <3>3. Cardinality(Wanted(stream)) = stream.n
      <4> DEFINE m == stream.n - 1
      <4>1. m \in Int /\ (0 > m <=> stream.n = 0) /\ m - 0 + 1 = stream.n
        BY <1>3
      <4>2. Wanted(stream) = 0..m
        BY <3>2
      <4> HIDE DEF m
      <4>3. Cardinality(0..m) = IF 0 > m THEN 0 ELSE m - 0 + 1
        BY <4>1, FS_Interval
      <4> QED  BY <4>1, <4>2, <4>3
    <3> QED  BY <3>1, <3>3, <1>1, <1>2, <1>8, <1>9, <1>10, ReturnInv
  <2>3. CASE ~last
    <3>1. Goto("plain") /\ i < k - 1
      BY <1>6, <1>10, <2>1, <2>3
    <3>2. pos' = Start(i + 1)
      BY <3>1, <1>3, <1>4, <1>6, <1>10, <2>1, ChunkAt DEF k
    <3>3. Types'
      BY <3>1, <1>2, <1>8, <1>9, <1>10 DEF Inv, Types, Goto, ReadPlain
    <3>4. RangeInv' /\ RequestInv' /\ ReadInv'
      BY <3>1 DEF Goto, RangeInv, RequestInv, ReadInv
    <3>5. PlainInv'
      <4>1. i + 1 \in 0..(k - 1) /\ Len(out') = (i + 1) * ChunkSize
        BY <3>1, <1>5, <1>6, <1>8, <1>10
      <4> QED  BY <4>1, <3>1, <3>2, <1>1, <1>2, <1>8, <1>10 DEF PlainInv, Goto, k
    <3>6. result' = "none"
      BY <3>1 DEF Inv, Types, Goto, ReadPlain
    <3> QED  BY <3>3, <3>4, <3>5, <3>6, NoResult DEF Inv
  <2> QED  BY <2>2, <2>3
<1>11. ASSUME \A last \in BOOLEAN : ~Authentic(stream, i, pos, stop, last),
              Return("corrupt"), UNCHANGED <<pos, out>>
       PROVE  Inv'
  <2>1. ASSUME Sound PROVE FALSE
    <3>1. stream.size = EncryptedSize(stream.n)
      BY <1>1, <2>1 DEF Sound
    <3>2. stop <= stream.size
      BY <1>3, <1>4, <1>6, <3>1, ChunkAt DEF k
    <3>3. Authentic(stream, i, pos, stop, i = k - 1)
      BY <1>4, <1>6, <3>1, <3>2 DEF Authentic, Start, k
    <3>4. (i = k - 1) \in BOOLEAN
      OBVIOUS
    <3> QED  BY <3>3, <3>4, <1>11
  <2> QED  BY <2>1, <1>1, <1>2, <1>11, ReturnInv
<1> QED
  <2>1. Len(out) \div ChunkSize = i
    BY <1>5
  <2> QED  BY <2>1, <1>10, <1>11 DEF ReadPlain, r, upto

LEMMA StoreFailsInv == Inv /\ StoreFails => Inv'
<1> SUFFICES ASSUME Inv, StoreFails PROVE Inv'
  OBVIOUS
<1>1. size \in Int /\ pos \in Int /\ out \in Seq((1..MaxVersion) \X Int)
  BY DEF Inv, Types
<1>2. /\ UNCHANGED <<obj, seen, op, off, len, size, end, head, tail, stream, pos, streamEnd, out>>
      /\ failed' = TRUE /\ Return("store")
  BY DEF StoreFails, sources
<1> QED  BY <1>1, <1>2, ReturnInv

\* An overwrite or a deletion: what was read stays read, and the object is not
\* left alone any more.
LEMMA ChangeInv == Inv /\ Change => Inv'
<1> SUFFICES ASSUME Inv, Change PROVE Inv'
  OBVIOUS
<1>1. PICK v \in 2..MaxVersion :
        (\A o \in seen : o # None => o.v < v) /\ obj' \in Objects(v) \cup {None}
  BY DEF Change
<1>2. /\ obj' # obj /\ seen' = seen \cup {obj'}
      /\ UNCHANGED <<failed, op, pc, off, len, size, end, head, tail, stream, pos, streamEnd, out, result>>
  BY DEF Change, sources
<1>3. Types'
  <2>1. IsFiniteSet(seen') /\ obj' \in seen'
    BY <1>2, FS_AddElement DEF Inv, Types
  <2>2. \A o \in seen' : o = None \/ \E w \in 1..MaxVersion : o \in Objects(w)
    BY <1>1, <1>2, v \in 1..MaxVersion DEF Inv, Types
  <2>3. obj' # None => obj'.v = v
    <3>1. \A o \in Objects(v) : o.v = v
      BY DEF Objects
    <3> QED  BY <3>1, <1>1
  <2>4. \A o \in seen : o # None => o.v \in Int
    BY ObjectFacts DEF Inv
  <2>5. \A o, p \in seen' : o # None /\ p # None /\ o.v = p.v => o = p
    BY <1>1, <1>2, <2>3, <2>4 DEF Inv, Types
  <2> QED  BY <1>2, <2>1, <2>2, <2>5 DEF Inv, Types
<1>4. ~Sound'
  BY <1>2, SoundStays DEF Inv
<1>5. RangeInv' /\ RequestInv'
  BY <1>2, <1>4 DEF Inv, RangeInv, RequestInv, End, Last
<1>6. ReadInv' /\ PlainInv'
  BY <1>2 DEF Inv, ReadInv, PlainInv, At, Chunk, ChunkStart
<1>7. result' = "none"
  BY <1>2 DEF Inv, Types, Change
<1> QED  BY <1>3, <1>5, <1>6, <1>7, NoResult DEF Inv

\* A call begins with one object stored and nothing read.
LEMMA InitInv == Init => Inv
<1> SUFFICES ASSUME Init PROVE Inv
  OBVIOUS
<1>1. Types
  <2>1. 1 \in 1..MaxVersion /\ MaxInt \in Int
    BY EncBounds
  <2>2. obj # None /\ IsFiniteSet(seen) /\ obj \in Objects(1)
    BY <2>1, NoneIsNoObject, FS_Singleton DEF Init
  <2>3. off \in Nat /\ len \in Int
    BY <2>1, EncBounds DEF Init
  <2> QED  BY <2>1, <2>2, <2>3 DEF Init, Types
<1>2. RangeInv /\ RequestInv /\ ReadInv /\ PlainInv
  BY DEF Init, RangeInv, RequestInv, ReadInv, PlainInv
<1>3. StatInv /\ RangeIsExact /\ FailuresAreTold
  BY DEF Init, StatInv, RangeIsExact, FailuresAreTold
<1> QED  BY <1>1, <1>2, <1>3 DEF Inv

\* Every step keeps the invariant.
LEMMA NextInv == Inv /\ [Next]_vars => Inv'
<1> SUFFICES ASSUME Inv, [Next]_vars PROVE Inv'
  OBVIOUS
<1>1. CASE UNCHANGED vars
  <2> USE <1>1 DEF vars, sources
  <2>1. Types' = Types
    BY DEF Types
  <2>2. RangeInv' = RangeInv /\ RequestInv' = RequestInv
    BY DEF RangeInv, RequestInv, Sound, End, Last
  <2>3. ReadInv' = ReadInv /\ PlainInv' = PlainInv /\ StatInv' = StatInv
    BY DEF ReadInv, PlainInv, StatInv, At, Chunk, ChunkStart
  <2>4. RangeIsExact' = RangeIsExact /\ FailuresAreTold' = FailuresAreTold
    BY DEF RangeIsExact, FailuresAreTold, Wanted, PastEnd, ShortAtStream
  <2> QED  BY <2>1, <2>2, <2>3, <2>4 DEF Inv
<1>2. Done => UNCHANGED vars
  BY DEF Done
<1> QED  BY <1>1, <1>2, StatObjectInv, GetObjectInv, DecryptInv, ReadPlainInv, StatStepInv,
            ReadWholeInv, OpenChunksInv, FetchHeadInv, FetchTailInv, OpenStreamInv,
            DecryptReaderAtInv, ReadTailInv, ReadStreamInv, ReadDoneInv, StoreFailsInv, ChangeInv
         DEF Next

-----------------------------------------------------------------------------
\* The sizes follow from the types: what is stored is no longer than the longest
\* plaintext allows, so plaintextSize of it is no longer plaintext either.
LEMMA InvSizes == Inv => SizesInvert
<1> SUFFICES ASSUME Inv PROVE SizesInvert
  OBVIOUS
<1>1. ASSUME obj # None
      PROVE  IF \E n \in 0..MaxPlain : obj.size = EncryptedSize(n)
               THEN obj.size = EncryptedSize(PlaintextSize(obj.size))
               ELSE PlaintextSize(obj.size) = -1
  <2>1. obj \in seen
    BY DEF Inv, Types
  <2>2. obj.size \in Nat /\ obj.size <= EncryptedSize(MaxPlain) /\ MaxPlain \in Nat
    BY <1>1, <2>1, ObjectFacts, EncBounds DEF Inv
  <2>3. ASSUME NEW n \in 0..MaxPlain, obj.size = EncryptedSize(n)
        PROVE  obj.size = EncryptedSize(PlaintextSize(obj.size))
    BY <2>2, <2>3, SizeOf, n \in Nat
  <2>4. ASSUME PlaintextSize(obj.size) # -1
        PROVE  \E n \in 0..MaxPlain : obj.size = EncryptedSize(n)
    <3> DEFINE m == PlaintextSize(obj.size)
    <3>1. m \in Nat /\ EncryptedSize(m) = obj.size
      BY <2>2, <2>4, SizeBack
    <3> HIDE DEF m
    <3>2. ~(MaxPlain < m)
      BY <3>1, <2>2, SizeMono, SizeOf
    <3> QED  BY <3>1, <3>2, <2>2
  <2> QED  BY <2>3, <2>4
<1>2. ASSUME op = "stat", result = "ok"
      PROVE  \E o \in seen : /\ o # None
                              /\ \/ size = o.n
                                 \/ o.size < EncryptedSize(o.n) /\ size = ReportedSize(o.size)
  <2>1. PICK o \in seen : o # None /\ size = ReportedSize(o.size)
    BY <1>2 DEF Inv, StatInv
  <2>2. o.n \in Nat /\ o.size \in Nat /\ o.size <= EncryptedSize(o.n)
    BY <2>1, ObjectFacts, EncBounds DEF Inv
  <2>3. o.size = EncryptedSize(o.n) => ReportedSize(o.size) = o.n
    BY <2>2, SizeOf DEF ReportedSize
  <2>4. EncryptedSize(o.n) \in Nat
    BY <2>2, SizeOf
  <2> QED  BY <2>1, <2>2, <2>3, <2>4
<1> QED  BY <1>1, <1>2 DEF SizesInvert

\* plaintextSize inverts the layout of every object stored, and what Stat, List
\* and Copy report is a plaintext length unless the object is damaged.
THEOREM SizesInverted == Spec => []SizesInvert
BY InitInv, NextInv, InvSizes, PTL DEF Spec

\* A read of encrypted data that ends well returned exactly the bytes asked for,
\* all of one object that was stored meanwhile, whatever was overwritten between
\* its requests.
THEOREM RangeExact == Spec => []RangeIsExact
<1>1. Inv => RangeIsExact
  BY DEF Inv
<1> QED  BY InitInv, NextInv, <1>1, PTL DEF Spec

\* A read of encrypted data that fails says what was wrong: an object left alone is
\* never called corrupt, and age never reads outside the regions fetched for it.  An
\* invalid range is one outside the plaintext, but for the case of ShortAtStream.
THEOREM FailuresTold == Spec => []FailuresAreTold
<1>1. Inv => FailuresAreTold
  BY DEF Inv
<1> QED  BY InitInv, NextInv, <1>1, PTL DEF Spec
=============================================================================
