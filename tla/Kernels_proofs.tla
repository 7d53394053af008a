-------------------------- MODULE Kernels_proofs --------------------------
(* Theorems about modules FileBuffer, VectorSearch and ExtensionTable: for      *)
(* files, literals and vectors of any length the buffer holds the file, and the  *)
(* vectorized operations on it give what the plain ones give on the file; for   *)
(* any extensions the tables they are looked up in are exact.                  *)
EXTENDS FileBuffer, ExtensionTable, FiniteSetTheorems, SequenceTheorems, WellFoundedInduction, TLAPS

-----------------------------------------------------------------------------
(* The buffer                                                                *)

(* A buffer is there exactly when an alignment is recorded; it has the size that is  *)
(* recorded and the padding.                                                 *)
BufferInv ==
    /\ bufferSize \in Nat /\ alignment \in Nat
    /\ alignment = 0 => mem = NoBuffer /\ bufferSize = 0
    /\ alignment # 0 => \E n \in Nat : bufferSize + Padding <= n /\ DOMAIN mem = 0 .. n - 1

(* What is known of the file's bytes while it is read in one go.                *)
ReadInv ==
    /\ file.data \in Contents \cup {<<>>} /\ file.blksize \in Nat
    /\ left \in Seq(Nat)
    /\ reading \in {"pull", "realloc", "read", "failed", "scan", "bad_alloc"}
    /\ reading \notin {"pull"} => size # 0
    /\ reading = "realloc" => left = file.data
    /\ reading \in {"read", "failed", "scan"} => alignment # 0 /\ size <= bufferSize
    /\ reading \in {"read", "scan"} =>
           /\ \A a \in size .. size + Padding - 1 : mem[a] = 0
           /\ \/ reading = "read" /\ left = file.data
              \/ left = <<>> /\ \A a \in 0 .. size - 1 : mem[a] = file.data[a + 1]

IInv == BufferInv /\ ReadInv

(* Every file can be had with one read().                                     *)
OneReadSuffices == \A data \in Contents : Len(data) <= MaxRead

LEMMA DataFacts ==
    ASSUME ReadInv
    PROVE  file.data \in Seq(Nat) /\ size \in Nat /\ DOMAIN file.data = 1 .. size
<1>1. file.data \in Contents \/ file.data = <<>>
  BY DEF ReadInv
<1>2. file.data \in Seq(Nat)
  BY <1>1, FileBufferAssumption, EmptySeq
<1> QED
  BY <1>2 DEF size

LEMMA BufferInitInv == BufferInit => IInv
<1> SUFFICES ASSUME BufferInit PROVE IInv
  OBVIOUS
<1>1. BufferInv
  BY DEF BufferInit, BufferInv
<1>2. ReadInv
  BY FileBufferAssumption DEF BufferInit, ReadInv
<1> QED
  BY <1>1, <1>2 DEF IInv

LEMMA NextFileInv == IInv /\ NextFile => IInv'
<1> SUFFICES ASSUME IInv, NextFile PROVE IInv'
  OBVIOUS
<1>1. PICK data \in Contents, blksize \in BlockSizes :
        /\ file' = [data |-> data, blksize |-> blksize] /\ left' = data
        /\ reading' = IF data = <<>> THEN "pull" ELSE "realloc"
        /\ UNCHANGED <<mem, bufferSize, alignment>>
  BY DEF NextFile
<1>2. BufferInv'
  BY <1>1 DEF IInv, BufferInv
<1>3. data \in Seq(Nat) /\ blksize \in Nat /\ file'.data = data /\ file'.blksize = blksize
  BY <1>1, FileBufferAssumption
<1>4. size' = Len(data) /\ (Len(data) = 0 => data = <<>>)
  BY <1>3, EmptySeq DEF size
<1> QED
  BY <1>1, <1>2, <1>3, <1>4 DEF IInv, ReadInv

(* The size asked for has room for the file and the padding.                    *)
LEMMA SizeSuffices ==
    ASSUME NEW needed \in Nat, NEW align \in Nat \ {0}
    PROVE  overaligned_size(needed, align) \in Nat /\ overaligned_size(needed, align) >= needed + Padding
<1> PICK m \in Nat : m = needed + Padding
  BY FileBufferAssumption
<1>1. m % align \in 0 .. align - 1
  OBVIOUS
<1>2. overaligned_size(needed, align) = (m + align) - (m % align)
  BY DEF overaligned_size
<1> QED
  BY <1>1, <1>2

LEMMA ZeroesBehind ==
    ASSUME NEW buffer, NEW n \in Nat
    PROVE  /\ DOMAIN ZeroBehind(buffer, n) = DOMAIN buffer
           /\ \A a \in n .. n + Padding - 1 : a \in DOMAIN buffer => ZeroBehind(buffer, n)[a] = 0
BY DEF ZeroBehind

LEMMA ReallocInv == IInv /\ Realloc => IInv'
<1> SUFFICES ASSUME IInv, Realloc PROVE IInv'
  OBVIOUS
<1> DEFINE align == Clamp(file.blksize, LeastBlock, MostBlock)
<1>1. /\ reading = "realloc" /\ UNCHANGED <<file, left>> /\ size' = size
      /\ left = file.data /\ size # 0 /\ BufferInv /\ ReadInv
  BY DEF Realloc, IInv, ReadInv, size
<1>2. size \in Nat /\ align \in Nat \ {0} /\ Padding \in Nat /\ MostBlock \in Nat \ {0}
  BY <1>1, DataFacts, FileBufferAssumption DEF Clamp, ReadInv
<1> HIDE DEF align
<1>3. CASE ~TooSmall(size) /\ alignment >= align /\ mem' = ZeroBehind(mem, size)
           /\ reading' = "read" /\ UNCHANGED <<bufferSize, alignment>>
  <2>1. size <= bufferSize /\ alignment # 0
    BY <1>1, <1>2, <1>3 DEF TooSmall, BufferInv
  <2>2. PICK n \in Nat : bufferSize + Padding <= n /\ DOMAIN mem = 0 .. n - 1
    BY <1>1, <2>1 DEF BufferInv
  <2>3. DOMAIN mem' = 0 .. n - 1
    BY <1>2, <1>3, <2>2, ZeroesBehind
  <2>4. BufferInv'
    BY <1>1, <1>3, <2>1, <2>2, <2>3 DEF BufferInv
  <2>5. \A a \in size .. size + Padding - 1 : a \in DOMAIN mem
    BY <1>1, <1>2, <2>1, <2>2 DEF BufferInv
  <2>6. \A a \in size .. size + Padding - 1 : mem'[a] = 0
    BY <1>2, <1>3, <2>5, ZeroesBehind
  <2>7. ReadInv'
    BY <1>1, <1>3, <2>1, <2>6 DEF ReadInv
  <2> QED
    BY <2>4, <2>7 DEF IInv
<1>4. ASSUME NEW byte \in Stale, NEW got \in {align, MostBlock},
             mem' = ZeroBehind([a \in 0 .. overaligned_size(size, align) - 1 |-> byte], size),
             alignment' = got, bufferSize' = size, reading' = "read"
      PROVE  IInv'
  <2>1. PICK n \in Nat : n = overaligned_size(size, align) /\ size + Padding <= n
    BY <1>2, SizeSuffices
  <2> DEFINE fresh == [a \in 0 .. n - 1 |-> byte]
  <2>2. mem' = ZeroBehind(fresh, size) /\ DOMAIN fresh = 0 .. n - 1
    BY <1>4, <2>1
  <2> HIDE DEF fresh
  <2>3. DOMAIN mem' = 0 .. n - 1
    BY <1>2, <2>2, ZeroesBehind
  <2>4. BufferInv'
    BY <1>2, <1>4, <2>1, <2>3 DEF BufferInv
  <2>5. \A a \in size .. size + Padding - 1 : a \in 0 .. n - 1
    BY <1>2, <2>1
  <2>6. \A a \in size .. size + Padding - 1 : mem'[a] = 0
    BY <1>2, <2>2, <2>5, ZeroesBehind
  <2>7. alignment' # 0 /\ size' <= bufferSize'
    BY <1>1, <1>2, <1>4
  <2>8. ReadInv'
    BY <1>1, <1>4, <2>6, <2>7 DEF ReadInv
  <2> QED
    BY <2>4, <2>8 DEF IInv
<1>5. CASE reading' = "bad_alloc" /\ UNCHANGED <<mem, bufferSize, alignment>>
  BY <1>1, <1>5 DEF IInv, BufferInv, ReadInv
<1> QED
  BY <1>3, <1>4, <1>5 DEF Realloc, align, size

LEMMA ReadStepInv ==
    ASSUME OneReadSuffices, IInv, Read
    PROVE  IInv'
<1> DEFINE n == Lesser(Lesser(size, MaxRead), Len(left))
<1>1. /\ reading = "read" /\ UNCHANGED <<bufferSize, alignment, file>> /\ size' = size
      /\ mem' = [a \in DOMAIN mem |-> IF a < n THEN left[a + 1] ELSE mem[a]]
      /\ left' = SubSeq(left, n + 1, Len(left))
      /\ reading' = IF n > 0 THEN "read" ELSE "scan"
      /\ BufferInv /\ ReadInv
  BY DEF Read, IInv, size
<1>2. /\ size \in Nat \ {0} /\ size <= bufferSize /\ bufferSize \in Nat /\ Padding \in Nat
      /\ MaxRead \in Nat \ {0} /\ Len(left) \in Nat /\ left \in Seq(Nat) /\ alignment # 0
  BY <1>1, DataFacts, FileBufferAssumption DEF ReadInv, BufferInv
<1>3. PICK m \in Nat : bufferSize + Padding <= m /\ DOMAIN mem = 0 .. m - 1
  BY <1>1, <1>2 DEF BufferInv
<1>4. BufferInv'
  <2>1. DOMAIN mem' = DOMAIN mem
    BY <1>1
  <2> QED
    BY <1>1, <1>2, <1>3, <2>1 DEF BufferInv
<1>5. n \in 0 .. Len(left) /\ n <= size
  BY <1>2 DEF Lesser
<1>6. \A a \in size .. size + Padding - 1 : mem'[a] = 0
  <2>1. ASSUME NEW a \in size .. size + Padding - 1 PROVE mem'[a] = mem[a]
    <3>1. a \in DOMAIN mem /\ ~(a < n)
      BY <1>2, <1>3, <1>5
    <3> QED
      BY <1>1, <3>1
  <2> QED
    BY <1>1, <2>1 DEF ReadInv
<1>7. CASE left = file.data
  <2>1. file.data \in Contents
    BY <1>1, <1>2, EmptySeq DEF ReadInv, size
  <2>2. n = size
    BY <1>2, <1>7, <2>1 DEF Lesser, size, OneReadSuffices
  <2>3. left' = <<>>
    BY <1>1, <1>2, <1>7, <2>2 DEF size
  <2>4. \A a \in 0 .. size - 1 : mem'[a] = file.data[a + 1]
    BY <1>1, <1>2, <1>3, <1>7, <2>2
  <2>5. reading' = "read"
    BY <1>1, <1>2, <2>2
  <2>6. left' \in Seq(Nat)
    BY <2>3, EmptySeq
  <2>7. /\ file'.data \in Contents \cup {<<>>} /\ file'.blksize \in Nat
        /\ size' # 0 /\ alignment' # 0 /\ size' <= bufferSize'
    BY <1>1, <1>2 DEF ReadInv
  <2>8. /\ \A a \in size' .. size' + Padding - 1 : mem'[a] = 0
        /\ \A a \in 0 .. size' - 1 : mem'[a] = file'.data[a + 1]
    BY <1>1, <1>6, <2>4
  <2>9. ReadInv'
    BY <2>3, <2>5, <2>6, <2>7, <2>8 DEF ReadInv
  <2> QED
    BY <1>4, <2>9 DEF IInv
<1>8. CASE left = <<>> /\ \A a \in 0 .. size - 1 : mem[a] = file.data[a + 1]
  <2>1. n = 0
    BY <1>5, <1>8
  <2>2. left' = <<>> /\ reading' = "scan"
    BY <1>1, <1>8, <2>1
  <2>3. \A a \in 0 .. size - 1 : mem'[a] = file.data[a + 1]
    <3>1. ASSUME NEW a \in 0 .. size - 1 PROVE mem'[a] = mem[a]
      <4>1. a \in DOMAIN mem /\ ~(a < 0)
        BY <1>2, <1>3
      <4> QED
        BY <1>1, <2>1, <4>1
    <3> QED
      BY <1>8, <3>1
  <2>4. ReadInv'
    BY <1>1, <1>2, <1>6, EmptySeq, <2>2, <2>3 DEF ReadInv
  <2> QED
    BY <1>4, <2>4 DEF IInv
<1> QED
  BY <1>1, <1>7, <1>8 DEF ReadInv

LEMMA ReadFailsInv == IInv /\ ReadFails => IInv'
BY DEF ReadFails, IInv, BufferInv, ReadInv, size

(* What holds between any two steps of GetFileData() and realloc(): the buffer has room for what  *)
(* is recorded of it, zeros are behind the file, and the file's bytes are in front of them or still *)
(* to be read.                                                               *)
THEOREM BufferInvariant == OneReadSuffices => (BufferSpec => []IInv)
<1> SUFFICES ASSUME OneReadSuffices PROVE BufferSpec => []IInv
  OBVIOUS
<1>1. BufferInit => IInv
  BY BufferInitInv
<1>2. IInv /\ [BufferNext]_buffer_vars => IInv'
  <2> SUFFICES ASSUME IInv, [BufferNext]_buffer_vars PROVE IInv'
    OBVIOUS
  <2>1. CASE NextFile
    BY <2>1, NextFileInv
  <2>2. CASE Realloc
    BY <2>2, ReallocInv
  <2>3. CASE Read
    BY <2>3, ReadStepInv
  <2>4. CASE ReadFails
    BY <2>4, ReadFailsInv
  <2>5. CASE UNCHANGED buffer_vars
    BY <2>5 DEF buffer_vars, IInv, BufferInv, ReadInv, size
  <2> QED
    BY <2>1, <2>2, <2>3, <2>4, <2>5 DEF BufferNext
<1> QED
  BY <1>1, <1>2, PTL DEF BufferSpec

(* The state has the declared shape, and the buffer the recorded size.             *)
THEOREM BufferTypes == OneReadSuffices => (BufferSpec => []BufferTypeOK)
<1> SUFFICES ASSUME OneReadSuffices PROVE BufferSpec => []BufferTypeOK
  OBVIOUS
<1>1. IInv => BufferTypeOK
  <2> SUFFICES ASSUME IInv, mem # NoBuffer PROVE bufferSize + Padding <= Cardinality(DOMAIN mem)
    BY DEF IInv, ReadInv, BufferTypeOK
  <2>1. bufferSize \in Nat /\ Padding \in Nat
    BY FileBufferAssumption DEF IInv, BufferInv
  <2>2. PICK n \in Nat : bufferSize + Padding <= n /\ DOMAIN mem = 0 .. n - 1
    BY DEF IInv, BufferInv
  <2>3. Cardinality(0 .. n - 1) = n
    BY FS_Interval
  <2> QED
    BY <2>1, <2>2, <2>3
<1> QED
  BY <1>1, BufferInvariant, PTL

(* What a scanner finds in the buffer: the file's bytes, and zeros behind them.      *)
LEMMA FileInBuffer ==
    ASSUME IInv, Scanning
    PROVE  /\ file.data \in Seq(Nat) /\ size \in Nat
           /\ \A a \in 0 .. size + Width - 1 : a \in DOMAIN mem
           /\ \A a \in 0 .. size - 1 : mem[a] = file.data[a + 1]
           /\ \A a \in size .. size + Width - 1 : mem[a] = 0
<1>1. /\ \A a \in 0 .. size - 1 : mem[a] = file.data[a + 1]
      /\ \A a \in size .. size + Padding - 1 : mem[a] = 0
      /\ size <= bufferSize /\ alignment # 0 /\ bufferSize \in Nat
  BY DEF Scanning, IInv, BufferInv, ReadInv
<1>2. file.data \in Seq(Nat) /\ size \in Nat /\ Padding \in Nat /\ Width \in Nat /\ Width <= Padding
  BY FileBufferAssumption, WidthAssumption, DataFacts DEF IInv
<1>3. PICK n \in Nat : bufferSize + Padding <= n /\ DOMAIN mem = 0 .. n - 1
  BY <1>1 DEF IInv, BufferInv
<1>4. \A a \in 0 .. size + Width - 1 : a \in 0 .. n - 1
  BY <1>1, <1>2, <1>3
<1>5. \A a \in size .. size + Width - 1 : a \in size .. size + Padding - 1
  BY <1>2
<1> QED
  BY <1>1, <1>2, <1>3, <1>4, <1>5

(* Where a file can be read in one go, what a scanner searches is what the file holds, with a  *)
(* vector of zeros behind it, whatever other files the buffer was used for.          *)
THEOREM BufferIsTheFile == OneReadSuffices => (BufferSpec => []BufferHoldsFile)
<1> SUFFICES ASSUME OneReadSuffices PROVE BufferSpec => []BufferHoldsFile
  OBVIOUS
<1>1. IInv => BufferHoldsFile
  <2> SUFFICES ASSUME IInv, Scanning
               PROVE  /\ \A a \in 0 .. size - 1 : mem[a] = file.data[a + 1]
                      /\ \A a \in size .. size + Width - 1 : a \in DOMAIN mem /\ mem[a] = 0
    BY DEF BufferHoldsFile
  <2>1. size \in Nat /\ Width \in Nat
    BY FileInBuffer, WidthAssumption
  <2>2. \A a \in size .. size + Width - 1 : a \in 0 .. size + Width - 1
    BY <2>1
  <2> QED
    BY <2>2, FileInBuffer
<1> QED
  BY <1>1, BufferInvariant, PTL

-----------------------------------------------------------------------------
(* Multiples of the width                                                    *)

LEMMA DivMod ==
    ASSUME NEW a \in Int
    PROVE  /\ a % Width \in 0 .. Width - 1
           /\ \E q \in Int : a = (q * Width) + (a % Width)
<1>1. Width \in Nat \ {0}
  BY WidthAssumption
<1>2. a % Width \in 0 .. Width - 1
  BY <1>1
<1>3. a = ((a \div Width) * Width) + (a % Width) /\ a \div Width \in Int
  BY <1>1
<1> QED
  BY <1>2, <1>3

LEMMA ModIs ==
    ASSUME NEW q \in Int, NEW r \in 0 .. Width - 1
    PROVE  ((q * Width) + r) % Width = r
BY WidthAssumption

LEMMA ModSum ==
    ASSUME NEW a \in Int, NEW b \in Int, a % Width = 0, b % Width = 0
    PROVE  (a + b) % Width = 0 /\ (a - b) % Width = 0
<1>1. PICK p \in Int : a = (p * Width) + (a % Width)
  BY DivMod
<1>2. PICK q \in Int : b = (q * Width) + (b % Width)
  BY DivMod
<1>3. a + b = ((p + q) * Width) + 0 /\ a - b = ((p - q) * Width) + 0 /\ p + q \in Int /\ p - q \in Int
  BY <1>1, <1>2, WidthAssumption
<1>4. 0 \in 0 .. Width - 1
  BY WidthAssumption
<1> QED
  BY <1>3, <1>4, ModIs

LEMMA ModFar ==
    ASSUME NEW a \in Int, a % Width = 0
    PROVE  a = 0 \/ a >= Width \/ a <= -Width
BY WidthAssumption

LEMMA ModPart ==
    ASSUME NEW a \in Int
    PROVE  (a - (a % Width)) % Width = 0
BY WidthAssumption

-----------------------------------------------------------------------------
(* The lines of a block                                                      *)

LinesIn(bytes, from, to) == {i \in from .. to - 1 : bytes[i] = Newline}

LEMMA LinesFinite ==
    ASSUME NEW bytes, NEW a \in Int, NEW b \in Int
    PROVE  IsFiniteSet(LinesIn(bytes, a, b)) /\ Cardinality(LinesIn(bytes, a, b)) \in Nat
<1>1. IsFiniteSet(a .. b - 1) /\ LinesIn(bytes, a, b) \in SUBSET (a .. b - 1)
  BY FS_Interval DEF LinesIn
<1> QED
  BY <1>1, FS_Subset, FS_CardinalityType

LEMMA LinesSplit ==
    ASSUME NEW bytes, NEW a \in Int, NEW b \in Int, NEW c \in Int, a <= b, b <= c
    PROVE  Cardinality(LinesIn(bytes, a, c)) =
               Cardinality(LinesIn(bytes, a, b)) + Cardinality(LinesIn(bytes, b, c))
<1>1. /\ LinesIn(bytes, a, c) = LinesIn(bytes, a, b) \cup LinesIn(bytes, b, c)
      /\ LinesIn(bytes, a, b) \cap LinesIn(bytes, b, c) = {}
  <2>1. \A i : i \in a .. c - 1 <=> i \in a .. b - 1 \/ i \in b .. c - 1
    OBVIOUS
  <2>2. \A i : ~(i \in a .. b - 1 /\ i \in b .. c - 1)
    OBVIOUS
  <2> QED
    BY <2>1, <2>2 DEF LinesIn
<1>2. /\ IsFiniteSet(LinesIn(bytes, a, b)) /\ Cardinality(LinesIn(bytes, a, b)) \in Nat
      /\ IsFiniteSet(LinesIn(bytes, b, c)) /\ Cardinality(LinesIn(bytes, b, c)) \in Nat
  BY LinesFinite
<1>3. Cardinality(LinesIn(bytes, a, c)) =
        Cardinality(LinesIn(bytes, a, b)) + Cardinality(LinesIn(bytes, b, c)) - Cardinality({})
  BY <1>1, <1>2, FS_Union
<1> QED
  BY <1>2, <1>3, FS_EmptySet

(* The bits of a block, some of them masked, are the line ends among the bytes that are left. *)
LEMMA BlockLines ==
    ASSUME NEW bytes, NEW base \in Nat, NEW a \in Nat, NEW b \in Nat,
           base <= a, b <= base + Width, \A i \in a .. b - 1 : i \in DOMAIN bytes
    PROVE  Cardinality({k \in NewlineBits(bytes, base) : a <= base + k /\ base + k < b}) =
               Cardinality(LinesIn(bytes, a, b))
<1> DEFINE bits == {k \in NewlineBits(bytes, base) : a <= base + k /\ base + k < b}
           lines == LinesIn(bytes, a, b)
           f == [i \in lines |-> i - base]
<1>1. Width \in Nat
  BY WidthAssumption
<1>2. \A k \in 0 .. Width - 1 : base + k \in DOMAIN bytes => Load(bytes, base)[k] = bytes[base + k]
  BY DEF Load
<1>3. ASSUME NEW i \in lines PROVE i - base \in bits /\ i \in Nat
  <2>1. i \in a .. b - 1 /\ bytes[i] = Newline /\ i \in DOMAIN bytes
    BY DEF LinesIn
  <2>2. i - base \in 0 .. Width - 1 /\ base + (i - base) = i
    BY <1>1, <2>1
  <2> QED
    BY <1>2, <2>1, <2>2 DEF NewlineBits
<1>4. ASSUME NEW k \in bits PROVE base + k \in lines /\ (base + k) - base = k
  <2>1. k \in 0 .. Width - 1 /\ Load(bytes, base)[k] = Newline /\ a <= base + k /\ base + k < b
    BY DEF NewlineBits
  <2>2. base + k \in a .. b - 1 /\ (base + k) - base = k
    BY <1>1, <2>1
  <2> QED
    BY <1>2, <2>1, <2>2 DEF LinesIn
<1>5. f \in Bijection(lines, bits)
  <2>1. f \in [lines -> bits]
    BY <1>3
  <2>2. \A i, j \in lines : f[i] = f[j] => i = j
    <3>1. \A i, j \in lines : i \in Nat /\ j \in Nat
      BY <1>3
    <3> QED
      BY <3>1
  <2>3. \A k \in bits : \E i \in lines : f[i] = k
    BY <1>4
  <2> HIDE DEF f, lines, bits
  <2> QED
    BY <2>1, <2>2, <2>3 DEF Bijection, Injection, Surjection, IsInjective
<1>6. ExistsBijection(lines, bits)
  <2> HIDE DEF f, lines, bits
  <2> QED
    BY <1>5 DEF ExistsBijection
<1>7. IsFiniteSet(lines)
  BY LinesFinite
<1> QED
  BY <1>6, <1>7, FS_Bijection

-----------------------------------------------------------------------------
(* The sum over the aligned blocks                                           *)

LEMMA LeastNumber ==
    ASSUME NEW S \in SUBSET Nat, S # {}
    PROVE  \E n \in S : \A m \in S : n <= m
<1> PICK R : R = {ss \in Nat \X Nat : ss[1] < ss[2]}
  OBVIOUS
<1>1. R = OpToRel(<, Nat)
  BY DEF OpToRel
<1>2. IsWellFoundedOn(R, Nat)
  BY ONLY <1>1, NatLessThanWellFounded
<1>3. PICK x \in S : \A y \in S : <<y, x>> \notin R
  BY <1>2, WFMin
<1>4. ASSUME NEW y \in S PROVE ~(y < x)
  <2>1. <<y, x>> \in Nat \X Nat /\ <<y, x>>[1] = y /\ <<y, x>>[2] = x
    OBVIOUS
  <2> QED
    BY <1>3, <2>1
<1> QED
  BY <1>4

(* The line ends in some of the blocks between two aligned addresses.              *)
AlignedBlocks(first, last) == {a \in first .. last - 1 : (a - first) % Width = 0}

Covered(bytes, first, last, blocks) ==
    {i \in LinesIn(bytes, first, last) : \E a \in blocks : a <= i /\ i < a + Width}

LEMMA CoveredByOneMore ==
    ASSUME NEW bytes, NEW first \in Nat, NEW last \in Nat, (last - first) % Width = 0,
           \A i \in 0 .. last - 1 : i \in DOMAIN bytes,
           NEW blocks \in SUBSET AlignedBlocks(first, last), NEW x \in blocks
    PROVE  /\ Cardinality(Covered(bytes, first, last, blocks)) \in Nat
           /\ Cardinality(Covered(bytes, first, last, blocks)) =
                  Cardinality(Covered(bytes, first, last, blocks \ {x})) + Cardinality(NewlineBits(bytes, x))
<1> DEFINE all == Covered(bytes, first, last, blocks)
           rest == Covered(bytes, first, last, blocks \ {x})
           block == LinesIn(bytes, x, x + Width)
<1>1. Width \in Nat \ {0}
  BY WidthAssumption
<1>2. ASSUME NEW a \in blocks PROVE a \in Nat /\ a >= first /\ a < last /\ (a - first) % Width = 0
  BY DEF AlignedBlocks
<1>3. x + Width <= last
  <2>1. ((last - first) - (x - first)) % Width = 0
    BY <1>2, ModSum
  <2>2. (last - first) - (x - first) = last - x /\ last - x > 0 /\ last - x \in Int
    BY <1>2
  <2>3. last - x >= Width
    BY <1>1, <2>1, <2>2, ModFar
  <2> QED
    BY <1>1, <1>2, <2>3
<1>4. ASSUME NEW a \in blocks, a # x PROVE a + Width <= x \/ x + Width <= a
  <2>1. ((a - first) - (x - first)) % Width = 0
    BY <1>2, ModSum
  <2>2. (a - first) - (x - first) = a - x /\ a - x # 0 /\ a - x \in Int
    BY <1>2, <1>4
  <2>3. a - x >= Width \/ a - x <= -Width
    BY <2>1, <2>2, ModFar
  <2> QED
    BY <1>1, <1>2, <2>3
<1>5. all = rest \cup block
  <2>1. ASSUME NEW i \in all PROVE i \in rest \/ i \in block
    <3>1. PICK a \in blocks : a <= i /\ i < a + Width
      BY DEF Covered
    <3>2. i \in first .. last - 1 /\ bytes[i] = Newline
      BY DEF Covered, LinesIn
    <3>3. a = x => i \in block
      BY <1>1, <1>2, <3>1, <3>2 DEF LinesIn
    <3>4. a # x => i \in rest
      BY <3>1 DEF Covered
    <3> QED
      BY <3>3, <3>4
  <2>2. ASSUME NEW i \in block PROVE i \in all
    <3>1. i \in x .. (x + Width) - 1 /\ bytes[i] = Newline
      BY DEF LinesIn
    <3>2. i \in first .. last - 1 /\ x <= i /\ i < x + Width
      BY <1>1, <1>2, <1>3, <3>1
    <3> QED
      BY <3>1, <3>2 DEF Covered, LinesIn
  <2>3. rest \subseteq all
    BY DEF Covered
  <2> QED
    BY <2>1, <2>2, <2>3
<1>6. rest \cap block = {}
  <2>1. ASSUME NEW i \in rest, i \in block PROVE FALSE
    <3>1. PICK a \in blocks \ {x} : a <= i /\ i < a + Width
      BY DEF Covered
    <3>2. i \in x .. (x + Width) - 1
      BY <2>1 DEF LinesIn
    <3>3. a + Width <= x \/ x + Width <= a
      BY <1>4
    <3> QED
      BY <1>1, <1>2, <3>1, <3>2, <3>3
  <2> QED
    BY <2>1
<1>7. IsFiniteSet(rest) /\ IsFiniteSet(block) /\ IsFiniteSet(all)
  <2>1. IsFiniteSet(LinesIn(bytes, first, last)) /\ IsFiniteSet(LinesIn(bytes, x, x + Width))
    BY <1>1, <1>2, LinesFinite
  <2>2. rest \subseteq LinesIn(bytes, first, last) /\ all \subseteq LinesIn(bytes, first, last)
    BY DEF Covered
  <2> QED
    BY <2>1, <2>2, FS_Subset
<1>8. Cardinality(NewlineBits(bytes, x)) = Cardinality(block)
  <2> DEFINE bits == {k \in NewlineBits(bytes, x) : x <= x + k /\ x + k < x + Width}
  <2>1. x \in Nat /\ x + Width \in Nat
    BY <1>1, <1>2
  <2>2. \A i \in x .. (x + Width) - 1 : i \in DOMAIN bytes
    <3>1. \A i \in x .. (x + Width) - 1 : i \in 0 .. last - 1
      BY <1>1, <1>2, <1>3
    <3> QED
      BY <3>1
  <2>3. Cardinality(bits) = Cardinality(block)
    <3>1. x <= x /\ x + Width <= x + Width
      BY <2>1
    <3> QED
      BY <2>1, <2>2, <3>1, BlockLines
  <2>4. bits = NewlineBits(bytes, x)
    BY <1>1, <2>1 DEF NewlineBits
  <2> QED
    BY <2>3, <2>4
<1> HIDE DEF all, rest, block
<1>9. /\ Cardinality(all) \in Nat /\ Cardinality(rest) \in Nat /\ Cardinality(block) \in Nat
      /\ Cardinality(all) = Cardinality(rest) + Cardinality(block) - Cardinality({})
  BY <1>5, <1>6, <1>7, FS_Union, FS_CardinalityType
<1>10. Cardinality(all) = Cardinality(rest) + Cardinality(block)
  BY <1>9, FS_EmptySet
<1> QED
  BY <1>8, <1>9, <1>10 DEF all, rest

(* The fold of CountLinesSinceLastMatch, as the function that FoldSet chooses.      *)
SumsOf(bytes, blocks, h) ==
    [s \in SUBSET blocks |->
        IF s = {} THEN 0
        ELSE LET x == CHOOSE y \in s : TRUE IN h[s \ {x}] + Cardinality(NewlineBits(bytes, x))]

BlockSums(bytes, blocks) == CHOOSE h : h = SumsOf(bytes, blocks, h)

LEMMA FoldLines ==
    ASSUME NEW bytes, NEW first \in Nat, NEW last \in Nat, (last - first) % Width = 0,
           \A i \in 0 .. last - 1 : i \in DOMAIN bytes
    PROVE  BlockSums(bytes, AlignedBlocks(first, last))[AlignedBlocks(first, last)] =
               Cardinality(LinesIn(bytes, first, last))
<1> DEFINE blocks == AlignedBlocks(first, last)
           counted == [s \in SUBSET blocks |-> Cardinality(Covered(bytes, first, last, s))]
           Rec(h) == SumsOf(bytes, blocks, h)
           sum == BlockSums(bytes, blocks)
<1>2. Width \in Nat \ {0}
  BY WidthAssumption
<1>3. ASSUME NEW s \in SUBSET blocks, s # {}
      PROVE  LET x == CHOOSE y \in s : TRUE
             IN /\ s \ {x} \in SUBSET blocks /\ x \in s
                /\ counted[s] = counted[s \ {x}] + Cardinality(NewlineBits(bytes, x))
  <2>1. PICK x : x = (CHOOSE y \in s : TRUE) /\ x \in s
    BY <1>3
  <2>2. Cardinality(Covered(bytes, first, last, s)) =
          Cardinality(Covered(bytes, first, last, s \ {x})) + Cardinality(NewlineBits(bytes, x))
    BY <2>1, CoveredByOneMore
  <2>3. s \ {x} \in SUBSET blocks
    OBVIOUS
  <2>4. counted[s] = counted[s \ {x}] + Cardinality(NewlineBits(bytes, x))
    BY <2>2, <2>3
  <2> QED
    BY <2>1, <2>3, <2>4
<1>4. counted[{}] = 0
  <2>1. Covered(bytes, first, last, {}) = {}
    BY DEF Covered
  <2> QED
    BY <2>1, FS_EmptySet
<1>5. counted = Rec(counted)
  <2>1. \A s \in SUBSET blocks : counted[s] = Rec(counted)[s]
    BY <1>3, <1>4 DEF SumsOf
  <2> QED
    BY <2>1 DEF SumsOf
<1>6. sum = Rec(sum)
  <2> HIDE DEF counted
  <2> QED
    BY <1>5 DEF BlockSums
<1>7. ASSUME NEW s \in SUBSET blocks PROVE IsFiniteSet(s) /\ Cardinality(s) \in Nat
  <2>1. IsFiniteSet(first .. last - 1) /\ s \subseteq first .. last - 1
    BY FS_Interval DEF AlignedBlocks
  <2> QED
    BY <2>1, FS_Subset, FS_CardinalityType
<1> HIDE DEF counted, sum
<1>8. \A s \in SUBSET blocks : sum[s] = counted[s]
  <2> DEFINE bad == {Cardinality(s) : s \in {t \in SUBSET blocks : sum[t] # counted[t]}}
  <2> SUFFICES ASSUME bad # {} PROVE FALSE
    OBVIOUS
  <2>1. bad \in SUBSET Nat
    BY <1>7
  <2>2. PICK n \in bad : \A m \in bad : n <= m
    <3> HIDE DEF bad
    <3> QED
      BY <2>1, LeastNumber
  <2>3. PICK s \in SUBSET blocks : n = Cardinality(s) /\ sum[s] # counted[s]
    OBVIOUS
  <2>4. s # {}
    BY <1>4, <1>6, <2>3 DEF SumsOf
  <2>5. PICK x \in s : /\ x = (CHOOSE y \in s : TRUE) /\ s \ {x} \in SUBSET blocks
                       /\ counted[s] = counted[s \ {x}] + Cardinality(NewlineBits(bytes, x))
    BY <1>3, <2>4
  <2>6. sum[s] = sum[s \ {x}] + Cardinality(NewlineBits(bytes, x))
    BY <1>6, <2>4, <2>5 DEF SumsOf
  <2>7. sum[s \ {x}] # counted[s \ {x}]
    BY <2>3, <2>5, <2>6
  <2>8. Cardinality(s \ {x}) \in bad
    BY <2>5, <2>7
  <2>9. Cardinality(s \ {x}) = Cardinality(s) - 1 /\ Cardinality(s) \in Nat
    BY <1>7, FS_RemoveElement
  <2>10. n <= Cardinality(s \ {x})
    BY <2>2, <2>8
  <2> QED
    BY <2>3, <2>9, <2>10
<1>9. Covered(bytes, first, last, blocks) = LinesIn(bytes, first, last)
  <2>1. ASSUME NEW i \in LinesIn(bytes, first, last)
        PROVE  \E a \in blocks : a <= i /\ i < a + Width
    <3>1. i \in first .. last - 1
      BY DEF LinesIn
    <3>2. PICK d \in Nat : d = i - first
      BY <3>1
    <3>3. d % Width \in 0 .. Width - 1 /\ (d - (d % Width)) % Width = 0
      BY DivMod, ModPart
    <3>4. PICK r \in 0 .. Width - 1 : r = d % Width /\ r <= d
      BY <1>2, <3>3
    <3>5. i - r \in first .. last - 1 /\ (i - r) - first = d - r /\ i - r <= i /\ i < (i - r) + Width
      BY <1>2, <3>1, <3>2, <3>4
    <3>6. i - r \in blocks
      BY <3>3, <3>4, <3>5 DEF AlignedBlocks
    <3> QED
      BY <3>5, <3>6
  <2> QED
    BY <2>1 DEF Covered
<1>10. counted[blocks] = Cardinality(LinesIn(bytes, first, last))
  BY <1>9 DEF counted
<1> QED
  BY <1>8, <1>10 DEF sum

-----------------------------------------------------------------------------
(* The counting of lines                                                     *)

(* The numbers CountLinesSinceLastMatch() works with.                           *)
Unaligned(begin) == (Width - (begin % Width)) % Width
Consumed(begin, end) == Lesser(end - begin, Unaligned(begin))
Prologue(bytes, begin, end) ==
    IF Unaligned(begin) = 0 THEN 0 ELSE memcnt_prologue(bytes, begin, Unaligned(begin), end - begin)
FirstAligned(begin, end) == begin + Consumed(begin, end)
LastAligned(end) == end - (end % Width)
BlocksOf(begin, end) == AlignedBlocks(FirstAligned(begin, end), LastAligned(end))
TailFrom(begin, end) ==
    IF FirstAligned(begin, end) < LastAligned(end) THEN LastAligned(end) ELSE FirstAligned(begin, end)

LEMMA CountedInParts ==
    ASSUME NEW bytes, NEW begin, NEW end
    PROVE  CountLinesSinceLastMatch(bytes, begin, end) =
               IF end - begin = Consumed(begin, end) THEN Prologue(bytes, begin, end)
               ELSE Prologue(bytes, begin, end)
                    + BlockSums(bytes, BlocksOf(begin, end))[BlocksOf(begin, end)]
                    + Cardinality(LinesIn(bytes, TailFrom(begin, end), end))
BY DEF CountLinesSinceLastMatch, Unaligned, Consumed, Prologue, FirstAligned, LastAligned, BlocksOf,
       TailFrom, AlignedBlocks, LinesIn, FoldSet, MapThenFoldSet, BlockSums, SumsOf

(* An unaligned beginning lies in the block that the prologue loads.                *)
LEMMA UnalignedNumbers ==
    ASSUME NEW begin \in Nat, NEW end \in Nat, begin <= end
    PROVE  /\ Unaligned(begin) \in 0 .. Width - 1 /\ Consumed(begin, end) \in 0 .. end - begin
           /\ Consumed(begin, end) <= Unaligned(begin)
           /\ end - begin # Consumed(begin, end) => Consumed(begin, end) = Unaligned(begin)
           /\ (begin + Unaligned(begin)) % Width = 0
           /\ Unaligned(begin) # 0 => begin - (Width - Unaligned(begin)) \in Nat
<1> DEFINE r == begin % Width
           u == Unaligned(begin)
<1>1. Width \in Nat \ {0}
  BY WidthAssumption
<1>2. r \in 0 .. Width - 1 /\ r <= begin
  BY <1>1
<1>3. PICK q \in Int : begin = (q * Width) + r
  BY DivMod
<1>4. r = 0 => u = 0
  BY <1>1 DEF Unaligned
<1>5. r # 0 => u = Width - r
  <2>1. ASSUME r # 0 PROVE (0 * Width) + (Width - r) = Width - r /\ Width - r \in 0 .. Width - 1
    BY <1>1, <1>2, <2>1
  <2> QED
    BY <2>1, ModIs DEF Unaligned
<1>6. u \in 0 .. Width - 1
  BY <1>1, <1>2, <1>4, <1>5
<1>7. (begin + u) % Width = 0
  <2>1. CASE r = 0
    BY <1>1, <1>2, <1>4, <2>1
  <2>2. CASE r # 0
    <3>1. begin + u = ((q + 1) * Width) + 0 /\ q + 1 \in Int /\ 0 \in 0 .. Width - 1
      <4>1. q * Width \in Int /\ (q + 1) * Width = (q * Width) + Width
        BY <1>1
      <4> QED
        BY <1>1, <1>2, <1>3, <1>5, <2>2, <4>1
    <3> QED
      BY <3>1, ModIs
  <2> QED
    BY <2>1, <2>2
<1>8. u # 0 => begin - (Width - u) \in Nat
  <2>1. ASSUME u # 0 PROVE begin - (Width - u) = begin - r
    BY <1>1, <1>2, <1>4, <1>5, <2>1
  <2> QED
    BY <1>2, <2>1
<1>9. /\ Consumed(begin, end) \in 0 .. end - begin /\ Consumed(begin, end) <= u
      /\ end - begin # Consumed(begin, end) => Consumed(begin, end) = u
  <2>1. Consumed(begin, end) = IF end - begin < u THEN end - begin ELSE u
    BY DEF Consumed, Lesser
  <2> HIDE DEF u
  <2> QED
    BY <1>1, <1>6, <2>1
<1> QED
  BY <1>6, <1>7, <1>8, <1>9

LEMMA PrologueLines ==
    ASSUME NEW bytes, NEW begin \in Nat, NEW end \in Nat, begin <= end,
           \A i \in 0 .. end - 1 : i \in DOMAIN bytes
    PROVE  Prologue(bytes, begin, end) =
               Cardinality(LinesIn(bytes, begin, FirstAligned(begin, end)))
<1> DEFINE u == Unaligned(begin)
           c == Consumed(begin, end)
           base == begin - (Width - u)
<1>1. Width \in Nat \ {0}
  BY WidthAssumption
<1>2. /\ u \in 0 .. Width - 1 /\ c \in 0 .. end - begin /\ c <= u
      /\ u # 0 => base \in Nat
  BY UnalignedNumbers
<1>3. CASE u = 0
  <2>1. c = 0 /\ begin .. (begin + 0) - 1 = {} /\ begin + 0 = begin
    BY <1>2, <1>3
  <2>2. LinesIn(bytes, begin, begin + c) = {}
    BY <2>1 DEF LinesIn
  <2> QED
    BY <1>3, <2>2, FS_EmptySet DEF Prologue, FirstAligned
<1>4. CASE u # 0
  <2>1. base \in Nat /\ base <= begin /\ begin + c \in Nat /\ begin + c <= base + Width
    BY <1>1, <1>2, <1>4
  <2>2. \A i \in begin .. (begin + c) - 1 : i \in DOMAIN bytes
    BY <1>2
  <2>3. c = IF end - begin < u THEN end - begin ELSE u
    BY DEF Consumed, Lesser
  <2>4. ASSUME NEW k \in NewlineBits(bytes, base)
        PROVE  (k >= Width - u /\ (end - begin < u => k < Width - (u - (end - begin))))
                 <=> (begin <= base + k /\ base + k < begin + c)
    <3>1. k \in 0 .. Width - 1
      BY DEF NewlineBits
    <3>2. k >= Width - u <=> begin <= base + k
      BY <1>1, <1>2, <3>1
    <3>3. CASE end - begin < u
      BY <1>1, <1>2, <2>3, <3>1, <3>2, <3>3
    <3>4. CASE ~(end - begin < u)
      BY <1>1, <1>2, <2>3, <3>1, <3>2, <3>4
    <3> QED
      BY <3>3, <3>4
  <2>5. {k \in NewlineBits(bytes, base) :
            k >= Width - u /\ (end - begin < u => k < Width - (u - (end - begin)))}
          = {k \in NewlineBits(bytes, base) : begin <= base + k /\ base + k < begin + c}
    BY <2>4
  <2>6. Cardinality({k \in NewlineBits(bytes, base) : begin <= base + k /\ base + k < begin + c})
          = Cardinality(LinesIn(bytes, begin, begin + c))
    <3> HIDE DEF base, c, u
    <3> QED
      BY <2>1, <2>2, BlockLines
  <2> QED
    BY <1>4, <2>5, <2>6 DEF Prologue, memcnt_prologue, FirstAligned
<1> QED
  BY <1>3, <1>4

LEMMA CountsLines ==
    ASSUME NEW bytes, NEW begin \in Nat, NEW end \in Nat, begin <= end,
           \A i \in 0 .. end - 1 : i \in DOMAIN bytes
    PROVE  CountLinesSinceLastMatch(bytes, begin, end) = Cardinality(LinesIn(bytes, begin, end))
<1> DEFINE first == FirstAligned(begin, end)
           last == LastAligned(end)
           tail == TailFrom(begin, end)
           sum == BlockSums(bytes, AlignedBlocks(first, last))[AlignedBlocks(first, last)]
<1>1. Width \in Nat \ {0}
  BY WidthAssumption
<1>2. /\ first = begin + Consumed(begin, end) /\ Consumed(begin, end) \in 0 .. end - begin
      /\ end - begin # Consumed(begin, end) => first % Width = 0
  BY UnalignedNumbers DEF FirstAligned
<1>3. Prologue(bytes, begin, end) = Cardinality(LinesIn(bytes, begin, first))
  BY PrologueLines
<1>4. CASE end - begin = Consumed(begin, end)
  <2>1. first = end
    BY <1>2, <1>4
  <2> QED
    BY <1>3, <1>4, <2>1, CountedInParts
<1>5. CASE end - begin # Consumed(begin, end)
  <2>1. first \in Nat /\ begin <= first /\ first <= end /\ first % Width = 0
    BY <1>2, <1>5
  <2>2. last \in Nat /\ last <= end /\ last % Width = 0
    <3>1. end % Width \in 0 .. Width - 1 /\ end % Width <= end
      BY <1>1
    <3>2. (end - (end % Width)) % Width = 0
      BY ModPart
    <3> QED
      BY <3>1, <3>2 DEF LastAligned
  <2>3. sum = Cardinality(LinesIn(bytes, first, last))
    <3>1. (last - first) % Width = 0
      BY <2>1, <2>2, ModSum
    <3>2. \A i \in 0 .. last - 1 : i \in DOMAIN bytes
      BY <2>2
    <3> HIDE DEF first, last
    <3> QED
      BY <2>1, <2>2, <3>1, <3>2, FoldLines DEF sum
  <2>4. tail = IF first < last THEN last ELSE first
    BY DEF TailFrom
  <2>5. sum + Cardinality(LinesIn(bytes, tail, end)) = Cardinality(LinesIn(bytes, first, end))
    <3>1. CASE first < last
      <4>1. Cardinality(LinesIn(bytes, first, end)) =
              Cardinality(LinesIn(bytes, first, last)) + Cardinality(LinesIn(bytes, last, end))
        <5> HIDE DEF first, last
        <5> QED
          BY <2>1, <2>2, <3>1, LinesSplit
      <4> QED
        BY <2>3, <2>4, <3>1, <4>1
    <3>2. CASE ~(first < last)
      <4>1. first .. last - 1 = {}
        BY <2>1, <2>2, <3>2
      <4>2. sum = 0
        BY <2>3, <4>1, FS_EmptySet DEF LinesIn
      <4>3. Cardinality(LinesIn(bytes, first, end)) \in Nat
        BY <2>1, LinesFinite
      <4> HIDE DEF sum, tail, first
      <4> QED
        BY <2>4, <3>2, <4>2, <4>3
    <3> QED
      BY <3>1, <3>2
  <2>6. Cardinality(LinesIn(bytes, begin, end)) =
          Cardinality(LinesIn(bytes, begin, first)) + Cardinality(LinesIn(bytes, first, end))
    <3> HIDE DEF first
    <3> QED
      BY <2>1, LinesSplit
  <2>7. CountLinesSinceLastMatch(bytes, begin, end) =
          Prologue(bytes, begin, end) + sum + Cardinality(LinesIn(bytes, tail, end))
    BY <1>5, CountedInParts DEF BlocksOf
  <2>8. /\ Cardinality(LinesIn(bytes, begin, first)) \in Nat
        /\ Cardinality(LinesIn(bytes, tail, end)) \in Nat /\ sum \in Nat
    <3>1. tail \in Nat
      BY <2>1, <2>2, <2>4
    <3> HIDE DEF tail, first, last, sum
    <3> QED
      BY <2>1, <2>2, <2>3, <3>1, LinesFinite
  <2> HIDE DEF sum, tail, first
  <2> QED
    BY <1>3, <2>5, <2>6, <2>7, <2>8
<1> QED
  BY <1>4, <1>5

(* The reference (module Matcher) counts with the same operator.                   *)
LEMMA SameCardinality == ASSUME NEW S PROVE M!Cardinality(S) = Cardinality(S)
BY DEF M!Cardinality, Cardinality, M!IsFiniteSet, IsFiniteSet

(* The line numbers that are printed: in the buffer as in the file, the line ends of any range are *)
(* counted once each, at whatever offsets from the vectors it begins and ends.       *)
THEOREM LinesCounted == OneReadSuffices => (BufferSpec => []LinesAreCounted)
<1> SUFFICES ASSUME OneReadSuffices PROVE BufferSpec => []LinesAreCounted
  OBVIOUS
<1>1. IInv => LinesAreCounted
  <2> SUFFICES ASSUME IInv, Scanning, NEW begin \in 0 .. size, NEW end \in begin .. size
               PROVE  CountLinesSinceLastMatch(mem, begin, end) =
                        M!CountLinesSinceLastMatch(file.data, begin, end)
    BY DEF LinesAreCounted
  <2>1. /\ size \in Nat /\ Width \in Nat
        /\ \A a \in 0 .. size + Width - 1 : a \in DOMAIN mem
        /\ \A a \in 0 .. size - 1 : mem[a] = file.data[a + 1]
    BY FileInBuffer, WidthAssumption
  <2>2. begin \in Nat /\ end \in Nat /\ begin <= end /\ end <= size
    BY <2>1
  <2>3. \A i \in 0 .. end - 1 : i \in DOMAIN mem
    BY <2>1, <2>2
  <2>4. LinesIn(mem, begin, end) = M!NewlinesIn(file.data, begin, end)
    <3>1. \A i \in begin .. end - 1 : mem[i] = file.data[i + 1]
      <4>1. \A i \in begin .. end - 1 : i \in 0 .. size - 1
        BY <2>1, <2>2
      <4> QED
        BY <2>1, <4>1
    <3> QED
      BY <3>1 DEF LinesIn, M!NewlinesIn, M!Byte
  <2>5. CountLinesSinceLastMatch(mem, begin, end) = Cardinality(LinesIn(mem, begin, end))
    BY <2>2, <2>3, CountsLines
  <2> QED
    BY <2>4, <2>5, SameCardinality DEF M!CountLinesSinceLastMatch
<1> QED
  BY <1>1, BufferInvariant, PTL

-----------------------------------------------------------------------------
(* The literal search                                                        *)

(* Where the pattern lies in "len" bytes from "from" on.                         *)
Occurs(bytes, from, len, pattern) ==
    {p \in 0 .. len - Len(pattern) :
        \A j \in 1 .. Len(pattern) : bytes[from + p + j - 1] = pattern[j]}

(* The least of some offsets that is not before p.                               *)
Leftmost(S, p) ==
    LET later == {o \in S : o >= p} IN IF later = {} THEN -1 ELSE Min(later)

LEMMA MinIs ==
    ASSUME NEW S \in SUBSET Nat, NEW m \in S, \A o \in S : m <= o
    PROVE  Min(S) = m
<1>1. PICK n : n = Min(S) /\ n \in S /\ \A o \in S : n <= o
  BY DEF Min
<1> QED
  BY <1>1

LEMMA LeftmostIs ==
    ASSUME NEW S \in SUBSET Nat, NEW p \in Nat, NEW m \in S, m >= p,
           \A o \in S : o >= p => m <= o
    PROVE  Leftmost(S, p) = m
<1> DEFINE later == {o \in S : o >= p}
<1>1. later \in SUBSET Nat /\ m \in later /\ \A o \in later : m <= o
  OBVIOUS
<1>2. Min(later) = m /\ later # {}
  <2> HIDE DEF later
  <2> QED
    BY <1>1, MinIs
<1> QED
  BY <1>2 DEF Leftmost

LEMMA LeftmostNone ==
    ASSUME NEW S, NEW p, \A o \in S : ~(o >= p)
    PROVE  Leftmost(S, p) = -1
BY DEF Leftmost

LEMMA LeftmostSkip ==
    ASSUME NEW S \in SUBSET Nat, NEW p \in Nat, NEW q \in Nat, p <= q,
           \A o \in S : ~(p <= o /\ o < q)
    PROVE  Leftmost(S, p) = Leftmost(S, q)
<1>1. \A o \in S : o >= p <=> o >= q
  <2>1. \A o \in S : o \in Nat
    OBVIOUS
  <2> QED
    BY <2>1
<1>2. {o \in S : o >= p} = {o \in S : o >= q}
  BY <1>1
<1> QED
  BY <1>2 DEF Leftmost

LEMMA FirstHitIs ==
    ASSUME NEW H \in SUBSET (0 .. Width - 1)
    PROVE  /\ H = {} => FirstHit(H) = Width
           /\ H # {} => FirstHit(H) \in H /\ FirstHit(H) # Width /\ \A k \in H : FirstHit(H) <= k
<1>1. Width \in Nat /\ H \in SUBSET Nat
  BY WidthAssumption
<1>2. ASSUME H # {} PROVE \E m \in H : Min(H) = m /\ \A k \in H : m <= k
  BY <1>1, <1>2, LeastNumber, MinIs
<1> QED
  BY <1>1, <1>2 DEF FirstHit

HitsAt(bytes, address, len, pattern) ==
    {k \in 0 .. Width - 1 :
        \A j \in 1 .. Len(pattern) :
            k + j <= Width => k + j <= len /\ Load(bytes, address)[k + j - 1] = pattern[j]}

(* What memmem_short_pattern() relies on: a short pattern without zeros, and a vector of zeros *)
(* behind the bytes.                                                         *)
Searchable(bytes, from, len, pattern) ==
    /\ from \in Nat /\ len \in Nat \ {0}
    /\ pattern \in Seq(Nat \ {0}) /\ Len(pattern) \in 1 .. Width
    /\ \A a \in from .. from + len + Width - 1 : a \in DOMAIN bytes
    /\ \A a \in from + len .. from + len + Width - 1 : bytes[a] = 0

LEMMA HitsInBytes ==
    ASSUME NEW bytes, NEW from, NEW len, NEW pattern, Searchable(bytes, from, len, pattern),
           NEW p \in 0 .. len - 1, NEW n \in Int, NEW k \in 0 .. Width - 1
    PROVE  k \in HitsAt(bytes, from + p, n, pattern) <=>
               \A j \in 1 .. Len(pattern) :
                   k + j <= Width => k + j <= n /\ bytes[from + (p + k) + j - 1] = pattern[j]
<1>1. /\ Width \in Nat /\ Len(pattern) \in Nat /\ from \in Nat /\ len \in Nat
      /\ \A a \in from .. from + len + Width - 1 : a \in DOMAIN bytes
  BY WidthAssumption DEF Searchable
<1>2. ASSUME NEW j \in 1 .. Len(pattern), k + j <= Width
      PROVE  Load(bytes, from + p)[k + j - 1] = bytes[from + (p + k) + j - 1]
  <2>1. k + j - 1 \in 0 .. Width - 1 /\ (from + p) + (k + j - 1) = from + (p + k) + j - 1
    BY <1>1, <1>2
  <2>2. from + (p + k) + j - 1 \in from .. from + len + Width - 1
    BY <1>1, <1>2
  <2> QED
    BY <1>1, <2>1, <2>2 DEF Load
<1> QED
  BY <1>2 DEF HitsAt

(* One call of the recursion in memmem_short_pattern(), with h for what it returns.        *)
SearchRest(bytes, from, len, pattern, p) ==
    IF len - p < Len(pattern) THEN -1
    ELSE LET hit == EqualOrdered(pattern, Load(bytes, from + p), len - p)
         IN IF hit = Width THEN -1 ELSE p + hit

SearchBlock(h, bytes, from, pattern, p) ==
    LET hit == EqualOrdered(pattern, Load(bytes, from + p), Width)
    IN CASE hit = Width -> h[p + Width]
         [] hit # Width /\ hit + Len(pattern) <= Width -> p + hit
         [] OTHER -> h[p + hit]

SearchStep(h, bytes, from, len, pattern) ==
    [p \in 0 .. len + Width |->
        IF p >= len - (len % Width)
        THEN IF p < len THEN SearchRest(bytes, from, len, pattern, p) ELSE -1
        ELSE SearchBlock(h, bytes, from, pattern, p)]

ShortSearch(bytes, from, len, pattern) == CHOOSE h : h = SearchStep(h, bytes, from, len, pattern)

LEMMA ShortPattern ==
    ASSUME NEW bytes, NEW from, NEW len, NEW pattern
    PROVE  memmem_short_pattern(bytes, from, len, pattern) =
               IF len = 0 \/ Len(pattern) > len \/ pattern = <<>> THEN -1
               ELSE ShortSearch(bytes, from, len, pattern)[0]
BY DEF memmem_short_pattern, ShortSearch, SearchStep, SearchRest, SearchBlock, AfterPartialMatch

LEMMA HitIsFirst ==
    ASSUME NEW bytes, NEW address, NEW n, NEW pattern
    PROVE  /\ EqualOrdered(pattern, Load(bytes, address), n) = FirstHit(HitsAt(bytes, address, n, pattern))
           /\ HitsAt(bytes, address, n, pattern) \in SUBSET (0 .. Width - 1)
BY DEF EqualOrdered, HitsAt

(* In what fills no vector a hit is an occurrence: the comparison stops at the end.        *)
LEMMA RestFinds ==
    ASSUME NEW bytes, NEW from, NEW len, NEW pattern, Searchable(bytes, from, len, pattern),
           NEW p \in 0 .. len - 1, len - p < Width
    PROVE  SearchRest(bytes, from, len, pattern, p) = Leftmost(Occurs(bytes, from, len, pattern), p)
<1> DEFINE S == Occurs(bytes, from, len, pattern)
           H == HitsAt(bytes, from + p, len - p, pattern)
<1>1. /\ Width \in Nat /\ len \in Nat /\ Len(pattern) \in 1 .. Width
  BY WidthAssumption DEF Searchable
<1>2. S \in SUBSET Nat /\ \A o \in S : o + Len(pattern) <= len
  BY <1>1 DEF Occurs
<1>3. ASSUME NEW k \in H PROVE p + k \in S /\ k \in Nat
  <2>1. k \in 0 .. Width - 1
    BY DEF HitsAt
  <2>2. \A j \in 1 .. Len(pattern) :
            k + j <= Width => k + j <= len - p /\ bytes[from + (p + k) + j - 1] = pattern[j]
    BY <1>1, <2>1, HitsInBytes
  <2>3. k + 1 <= len - p
    BY <1>1, <2>1, <2>2
  <2>4. k + Len(pattern) <= len - p
    <3>1. SUFFICES ASSUME k + Len(pattern) > len - p PROVE FALSE
      BY <1>1, <2>1
    <3>2. PICK j \in 1 .. Len(pattern) : k + j = len - p + 1
      <4>1. len - p + 1 - k \in 1 .. Len(pattern) /\ k + (len - p + 1 - k) = len - p + 1
        BY <1>1, <2>1, <2>3, <3>1
      <4> QED
        BY <4>1
    <3> QED
      BY <1>1, <2>1, <2>2, <3>2
  <2>5. \A j \in 1 .. Len(pattern) : bytes[from + (p + k) + j - 1] = pattern[j]
    BY <1>1, <2>1, <2>2, <2>4
  <2>6. p + k \in 0 .. len - Len(pattern)
    BY <1>1, <2>1, <2>4
  <2> QED
    BY <2>1, <2>5, <2>6 DEF Occurs
<1>4. ASSUME NEW o \in S, o >= p PROVE o - p \in H
  <2>1. o \in 0 .. len - Len(pattern) /\ \A j \in 1 .. Len(pattern) : bytes[from + o + j - 1] = pattern[j]
    BY DEF Occurs
  <2>2. PICK k \in 0 .. Width - 1 : k = o - p /\ p + k = o
    BY <1>1, <1>4, <2>1
  <2>3. \A j \in 1 .. Len(pattern) : k + j <= len - p
    BY <1>1, <2>1, <2>2
  <2>4. k \in H
    BY <1>1, <2>1, <2>2, <2>3, HitsInBytes
  <2> QED
    BY <2>2, <2>4
<1> HIDE DEF S, H
<1>5. CASE len - p < Len(pattern)
  <2>1. \A o \in S : ~(o >= p)
    BY <1>1, <1>2, <1>5
  <2>2. Leftmost(S, p) = -1
    BY <2>1, LeftmostNone
  <2> QED
    BY <1>5, <2>2 DEF SearchRest, S
<1>6. CASE ~(len - p < Len(pattern)) /\ H = {}
  <2>1. \A o \in S : ~(o >= p)
    BY <1>4, <1>6
  <2>2. Leftmost(S, p) = -1
    BY <2>1, LeftmostNone
  <2>3. EqualOrdered(pattern, Load(bytes, from + p), len - p) = Width
    BY <1>6, HitIsFirst, FirstHitIs DEF H
  <2> QED
    BY <1>6, <2>2, <2>3 DEF SearchRest, S
<1>7. CASE ~(len - p < Len(pattern)) /\ H # {}
  <2>1. PICK k \in H : /\ k = EqualOrdered(pattern, Load(bytes, from + p), len - p) /\ k # Width
                       /\ \A i \in H : k <= i
    BY <1>7, HitIsFirst, FirstHitIs DEF H
  <2>2. p + k \in S /\ k \in Nat /\ p \in Nat /\ p + k >= p
    BY <1>3
  <2>3. \A o \in S : o >= p => p + k <= o
    BY <1>2, <1>4, <2>1, <2>2
  <2>4. Leftmost(S, p) = p + k
    BY <1>2, <2>2, <2>3, LeftmostIs
  <2> QED
    BY <1>7, <2>1, <2>4 DEF SearchRest, S
<1> QED
  BY <1>5, <1>6, <1>7

(* In a whole vector a hit that ends in it is an occurrence, for no zero is a part of the      *)
(* pattern; one that leaves the vector says that nothing begins before it.              *)
LEMMA BlockFinds ==
    ASSUME NEW bytes, NEW from, NEW len, NEW pattern, Searchable(bytes, from, len, pattern),
           NEW p \in 0 .. len - 1, NEW h,
           \A q \in p + 1 .. p + Width : h[q] = Leftmost(Occurs(bytes, from, len, pattern), q)
    PROVE  SearchBlock(h, bytes, from, pattern, p) = Leftmost(Occurs(bytes, from, len, pattern), p)
<1> DEFINE S == Occurs(bytes, from, len, pattern)
           H == HitsAt(bytes, from + p, Width, pattern)
<1>1. /\ Width \in Nat \ {0} /\ len \in Nat /\ Len(pattern) \in 1 .. Width /\ p \in Nat /\ from \in Nat
      /\ \A j \in 1 .. Len(pattern) : pattern[j] # 0
      /\ \A a \in from + len .. from + len + Width - 1 : bytes[a] = 0
  BY WidthAssumption DEF Searchable
<1>1a. Width \in Int
  BY <1>1
<1>2. S \in SUBSET Nat
  BY <1>1 DEF Occurs
<1>3. ASSUME NEW o \in S, o >= p, o < p + Width PROVE o - p \in H
  <2>1. o \in 0 .. len - Len(pattern) /\ \A j \in 1 .. Len(pattern) : bytes[from + o + j - 1] = pattern[j]
    BY DEF Occurs
  <2>2. PICK k \in 0 .. Width - 1 : k = o - p /\ p + k = o
    BY <1>1, <1>3, <2>1
  <2>3. k \in H <=> \A j \in 1 .. Len(pattern) :
            k + j <= Width => k + j <= Width /\ bytes[from + (p + k) + j - 1] = pattern[j]
    BY <1>1a, HitsInBytes DEF H
  <2> QED
    BY <2>1, <2>2, <2>3
<1>4. ASSUME NEW k \in H, k + Len(pattern) <= Width PROVE p + k \in S
  <2>1. k \in 0 .. Width - 1
    BY DEF HitsAt
  <2>2. k \in H <=> \A j \in 1 .. Len(pattern) :
            k + j <= Width => k + j <= Width /\ bytes[from + (p + k) + j - 1] = pattern[j]
    BY <1>1a, <2>1, HitsInBytes DEF H
  <2>3. \A j \in 1 .. Len(pattern) : bytes[from + (p + k) + j - 1] = pattern[j]
    BY <1>1, <1>4, <2>1, <2>2
  <2>4. p + k <= len - Len(pattern)
    <3>1. SUFFICES ASSUME p + k > len - Len(pattern) PROVE FALSE
      BY <1>1, <2>1
    <3>2. PICK j : j = Len(pattern)
      OBVIOUS
    <3>3. from + (p + k) + j - 1 \in from + len .. from + len + Width - 1
      BY <1>1, <1>4, <2>1, <3>1, <3>2
    <3>4. bytes[from + (p + k) + j - 1] = 0
      BY <1>1, <3>3
    <3> QED
      BY <1>1, <2>3, <3>2, <3>4
  <2>5. p + k \in 0 .. len - Len(pattern)
    BY <1>1, <2>1, <2>4
  <2> QED
    BY <2>3, <2>5 DEF Occurs
<1> HIDE DEF S, H
<1>5. CASE H = {}
  <2>1. EqualOrdered(pattern, Load(bytes, from + p), Width) = Width
    BY <1>5, HitIsFirst, FirstHitIs DEF H
  <2>2. \A o \in S : ~(p <= o /\ o < p + Width)
    BY <1>1, <1>2, <1>3, <1>5
  <2>3. Leftmost(S, p) = Leftmost(S, p + Width)
    BY <1>1, <1>2, <2>2, LeftmostSkip
  <2>4. h[p + Width] = Leftmost(S, p + Width)
    BY <1>1 DEF S
  <2> QED
    BY <2>1, <2>3, <2>4 DEF SearchBlock, S
<1>6. CASE H # {}
  <2>1. PICK k \in H : /\ k = EqualOrdered(pattern, Load(bytes, from + p), Width) /\ k # Width
                       /\ \A i \in H : k <= i
    BY <1>6, HitIsFirst, FirstHitIs DEF H
  <2>2. k \in 0 .. Width - 1 /\ p + k \in Nat
    BY <1>1 DEF H, HitsAt
  <2>3. CASE k + Len(pattern) <= Width
    <3>1. \A o \in S : o >= p => p + k <= o
      <4>1. SUFFICES ASSUME NEW o \in S, o >= p, o < p + k PROVE FALSE
        BY <1>2, <2>2
      <4>2. o - p \in H
        BY <1>1, <1>2, <1>3, <2>2, <4>1
      <4> QED
        BY <1>1, <1>2, <2>1, <2>2, <4>1, <4>2
    <3>2. p + k \in S /\ p + k >= p
      BY <1>1, <1>4, <2>2, <2>3
    <3>3. PICK m \in S : m = p + k
      BY <3>2
    <3>4. Leftmost(S, p) = m
      BY <1>1, <1>2, <3>1, <3>2, <3>3, LeftmostIs
    <3> QED
      BY <2>1, <2>3, <3>3, <3>4 DEF SearchBlock, S
  <2>4. CASE ~(k + Len(pattern) <= Width)
    <3>1. \A o \in S : ~(p <= o /\ o < p + k)
      <4>1. SUFFICES ASSUME NEW o \in S, o >= p, o < p + k PROVE FALSE
        BY <1>1, <1>2
      <4>2. o - p \in H
        BY <1>1, <1>2, <1>3, <2>2, <4>1
      <4> QED
        BY <1>1, <1>2, <2>1, <2>2, <4>1, <4>2
    <3>2. Leftmost(S, p) = Leftmost(S, p + k)
      BY <1>1, <1>2, <2>2, <3>1, LeftmostSkip
    <3>3. p + k \in p + 1 .. p + Width
      BY <1>1, <2>2, <2>4
    <3>4. h[p + k] = Leftmost(S, p + k)
      BY <3>3 DEF S
    <3> QED
      BY <2>1, <2>4, <3>2, <3>4 DEF SearchBlock, S
  <2> QED
    BY <2>3, <2>4
<1> QED
  BY <1>5, <1>6

LEMMA StepFinds ==
    ASSUME NEW bytes, NEW from, NEW len, NEW pattern, Searchable(bytes, from, len, pattern),
           NEW p \in 0 .. len + Width, NEW h,
           p < len - (len % Width) =>
               \A q \in p + 1 .. p + Width : h[q] = Leftmost(Occurs(bytes, from, len, pattern), q)
    PROVE  SearchStep(h, bytes, from, len, pattern)[p] = Leftmost(Occurs(bytes, from, len, pattern), p)
<1>1. /\ Width \in Nat \ {0} /\ len \in Nat /\ Len(pattern) \in 1 .. Width
      /\ len % Width \in 0 .. Width - 1
  BY WidthAssumption DEF Searchable
<1>2. CASE p >= len - (len % Width) /\ p < len
  <2>1. p \in 0 .. len - 1 /\ len - p < Width
    BY <1>1, <1>2
  <2>2. SearchRest(bytes, from, len, pattern, p) = Leftmost(Occurs(bytes, from, len, pattern), p)
    BY <2>1, RestFinds
  <2> QED
    BY <1>2, <2>2 DEF SearchStep
<1>3. CASE p >= len
  <2>1. \A o \in Occurs(bytes, from, len, pattern) : ~(o >= p)
    BY <1>1, <1>3 DEF Occurs
  <2>2. Leftmost(Occurs(bytes, from, len, pattern), p) = -1
    BY <2>1, LeftmostNone
  <2>3. p >= len - (len % Width) /\ ~(p < len)
    BY <1>1, <1>3
  <2> QED
    BY <2>2, <2>3 DEF SearchStep
<1>4. CASE ~(p >= len - (len % Width))
  <2>1. p \in 0 .. len - 1 /\ p < len - (len % Width)
    BY <1>1, <1>4
  <2>2. SearchBlock(h, bytes, from, pattern, p) = Leftmost(Occurs(bytes, from, len, pattern), p)
    BY <2>1, BlockFinds
  <2> QED
    BY <1>4, <2>2 DEF SearchStep
<1> QED
  BY <1>1, <1>2, <1>3, <1>4

(* The recursion has one solution: a later one of two would differ at an offset behind the   *)
(* last one where they do.                                                   *)
LEMMA SearchFinds ==
    ASSUME NEW bytes, NEW from, NEW len, NEW pattern, Searchable(bytes, from, len, pattern)
    PROVE  ShortSearch(bytes, from, len, pattern)[0] = Leftmost(Occurs(bytes, from, len, pattern), 0)
<1> DEFINE S == Occurs(bytes, from, len, pattern)
           found == [p \in 0 .. len + Width |-> Leftmost(S, p)]
           search == ShortSearch(bytes, from, len, pattern)
           Step(h) == SearchStep(h, bytes, from, len, pattern)
<1>1. /\ Width \in Nat \ {0} /\ len \in Nat /\ len % Width \in 0 .. Width - 1
  BY WidthAssumption DEF Searchable
<1>2. ASSUME NEW p \in 0 .. len + Width, p < len - (len % Width), NEW q \in p + 1 .. p + Width
      PROVE  q \in 0 .. len + Width
  BY <1>1, <1>2
<1>3. found = Step(found)
  <2>1. ASSUME NEW p \in 0 .. len + Width PROVE Step(found)[p] = Leftmost(S, p)
    <3>1. p < len - (len % Width) => \A q \in p + 1 .. p + Width : found[q] = Leftmost(S, q)
      BY <1>2
    <3> HIDE DEF found
    <3> QED
      BY <3>1, StepFinds
  <2>2. Step(found) = [p \in 0 .. len + Width |-> Step(found)[p]]
    BY DEF SearchStep
  <2> HIDE DEF Step
  <2> QED
    BY <2>1, <2>2
<1>4. search = Step(search)
  <2> HIDE DEF found
  <2> QED
    BY <1>3 DEF ShortSearch
<1>5. \A p \in 0 .. len + Width : search[p] = Leftmost(S, p)
  <2> DEFINE bad == {n \in Nat : \E p \in 0 .. len + Width : n = len + Width - p /\ search[p] # Leftmost(S, p)}
  <2> SUFFICES ASSUME bad # {} PROVE FALSE
    <3> SUFFICES ASSUME NEW p \in 0 .. len + Width, search[p] # Leftmost(S, p) PROVE bad # {}
      OBVIOUS
    <3>1. len + Width - p \in Nat
      BY <1>1
    <3> QED
      BY <3>1
  <2>1. PICK n \in bad : \A m \in bad : n <= m
    <3>1. bad \in SUBSET Nat
      OBVIOUS
    <3> HIDE DEF bad
    <3> QED
      BY <3>1, LeastNumber
  <2>2. PICK p \in 0 .. len + Width : n = len + Width - p /\ search[p] # Leftmost(S, p)
    OBVIOUS
  <2>3. ASSUME p < len - (len % Width), NEW q \in p + 1 .. p + Width PROVE search[q] = Leftmost(S, q)
    <3>1. q \in 0 .. len + Width /\ len + Width - q \in Nat /\ len + Width - q < n
      BY <1>1, <1>2, <2>2, <2>3
    <3>2. len + Width - q \notin bad
      BY <1>1, <2>1, <2>2, <3>1
    <3> QED
      BY <3>1, <3>2
  <2>4. Step(search)[p] = Leftmost(S, p)
    <3> HIDE DEF bad, search
    <3> QED
      BY <2>3, StepFinds
  <2> QED
    BY <1>4, <2>2, <2>4
<1> QED
  BY <1>1, <1>5

LEMMA SameMin == ASSUME NEW S PROVE M!Min(S) = Min(S)
BY DEF M!Min, Min

LEMMA LeftmostOfAll ==
    ASSUME NEW S \in SUBSET Nat
    PROVE  Leftmost(S, 0) = IF S = {} THEN -1 ELSE Min(S)
<1>1. \A o \in S : o >= 0
  <2>1. \A o \in S : o \in Nat
    OBVIOUS
  <2> QED
    BY <2>1
<1>2. {o \in S : o >= 0} = S
  BY <1>1
<1> QED
  BY <1>2 DEF Leftmost

(* Both searches give the first place where the pattern lies in the bytes.               *)
LEMMA LiteralMatchFinds ==
    ASSUME NEW bytes, NEW end \in Nat, NEW from \in 0 .. end - 1, NEW pattern \in Seq(Nat \ {0}),
           \A a \in 0 .. end + Width - 1 : a \in DOMAIN bytes,
           \A a \in end .. end + Width - 1 : bytes[a] = 0
    PROVE  LET S == Occurs(bytes, from, end - from, pattern)
           IN LiteralMatch(bytes, end, from, pattern) = IF S = {} THEN end ELSE from + Min(S)
<1> DEFINE len == end - from
           S == Occurs(bytes, from, len, pattern)
           hit == IF S = {} THEN -1 ELSE Min(S)
<1>1. /\ Width \in Nat \ {0} /\ len \in Nat \ {0} /\ from + len = end /\ Len(pattern) \in Nat
  BY WidthAssumption
<1>2. S \in SUBSET Nat
  BY <1>1 DEF Occurs
<1>3. S # {} => Min(S) \in Nat
  <2> HIDE DEF S
  <2> QED
    BY <1>2, LeastNumber, MinIs
<1>4. CASE Len(pattern) \in 1 .. Width
  <2>1. memmem_short_pattern(bytes, from, len, pattern) = hit
    <3>1. CASE Len(pattern) > len
      <4>1. 0 .. len - Len(pattern) = {}
        BY <1>1, <3>1
      <4> HIDE DEF len
      <4> QED
        BY <1>1, <3>1, <4>1, ShortPattern DEF Occurs
    <3>2. CASE ~(Len(pattern) > len)
      <4>1. Searchable(bytes, from, len, pattern)
        <5>1. /\ \A a \in from .. from + len + Width - 1 : a \in 0 .. end + Width - 1
              /\ \A a \in from + len .. from + len + Width - 1 : a \in end .. end + Width - 1
          BY <1>1
        <5> QED
          BY <1>1, <1>4, <5>1 DEF Searchable
      <4>2. ShortSearch(bytes, from, len, pattern)[0] = hit
        <5> HIDE DEF len
        <5> QED
          BY <1>2, <4>1, SearchFinds, LeftmostOfAll
      <4>3. pattern # <<>> /\ len # 0
        BY <1>1, <1>4
      <4> HIDE DEF len, hit
      <4> QED
        BY <3>2, <4>2, <4>3, ShortPattern
    <3> QED
      BY <3>1, <3>2
  <2> QED
    BY <1>4, <1>3, <2>1 DEF LiteralMatch
<1>5. CASE Len(pattern) \notin 1 .. Width
  <2>1. memmem(bytes, from, len, pattern) = hit
    BY DEF memmem, Occurs
  <2> QED
    BY <1>5, <1>3, <2>1 DEF LiteralMatch
<1> QED
  BY <1>4, <1>5

LEMMA AlsoSeq == ASSUME NEW s \in Seq(Nat \ {0}) PROVE s \in Seq(Nat)
<1>1. Len(s) \in Nat /\ DOMAIN s = 1 .. Len(s) /\ \A i \in 1 .. Len(s) : s[i] \in Nat
  OBVIOUS
<1>2. s = [i \in 1 .. Len(s) |-> s[i]]
  BY <1>1
<1> QED
  BY <1>1, <1>2

LEMMA PartOf ==
    ASSUME NEW s \in Seq(Nat), NEW a \in Nat, NEW n \in Nat, a + n <= Len(s)
    PROVE  /\ SubSeq(s, a + 1, a + n) \in Seq(Nat) /\ Len(SubSeq(s, a + 1, a + n)) = n
           /\ \A j \in 1 .. n : SubSeq(s, a + 1, a + n)[j] = s[a + j]
BY SubSeqProperties

(* In the buffer the pattern lies where it lies in the file, counted from the offset.         *)
LEMMA OccurrencesInFile ==
    ASSUME IInv, Scanning, NEW pattern \in Seq(Nat \ {0}), NEW from \in 0 .. size - 1, NEW p \in Nat
    PROVE  p \in Occurs(mem, from, size - from, pattern) <=>
               from + p \in M!Occurrences(file.data, pattern, from)
<1>1. /\ size \in Nat /\ file.data \in Seq(Nat) /\ Len(pattern) \in Nat /\ size = Len(file.data)
      /\ \A a \in 0 .. size - 1 : mem[a] = file.data[a + 1]
  <2>1. size = Len(file.data)
    BY DEF size
  <2>2. Len(pattern) \in Nat
    OBVIOUS
  <2> QED
    BY <2>1, <2>2, FileInBuffer
<1>2. p \in 0 .. (size - from) - Len(pattern) <=> from + p \in from .. size - Len(pattern)
  BY <1>1
<1>3. ASSUME p \in 0 .. (size - from) - Len(pattern)
      PROVE  (\A j \in 1 .. Len(pattern) : mem[from + p + j - 1] = pattern[j])
                 <=> SubSeq(file.data, from + p + 1, from + p + Len(pattern)) = pattern
  <2> DEFINE part == SubSeq(file.data, from + p + 1, from + p + Len(pattern))
  <2>1. /\ part \in Seq(Nat) /\ Len(part) = Len(pattern)
        /\ \A j \in 1 .. Len(pattern) : part[j] = file.data[from + p + j]
    <3>1. PICK a \in Nat : a = from + p
      BY <1>1
    <3>2. PICK n \in Nat : n = Len(pattern)
      BY <1>1
    <3>3. file.data \in Seq(Nat) /\ a + n <= Len(file.data)
      BY <1>1, <1>3, <3>1, <3>2
    <3>4. /\ SubSeq(file.data, a + 1, a + n) \in Seq(Nat) /\ Len(SubSeq(file.data, a + 1, a + n)) = n
          /\ \A j \in 1 .. n : SubSeq(file.data, a + 1, a + n)[j] = file.data[a + j]
      BY <3>3, PartOf
    <3> QED
      BY <3>1, <3>2, <3>4
  <2>2. \A j \in 1 .. Len(pattern) : mem[from + p + j - 1] = file.data[from + p + j]
    <3>1. \A j \in 1 .. Len(pattern) : from + p + j - 1 \in 0 .. size - 1 /\ (from + p + j - 1) + 1 = from + p + j
      BY <1>1, <1>3
    <3> QED
      BY <1>1, <3>1
  <2>3. part = pattern <=> \A j \in 1 .. Len(pattern) : part[j] = pattern[j]
    <3>1. pattern \in Seq(Nat)
      BY AlsoSeq
    <3> HIDE DEF part
    <3>2. ASSUME \A j \in 1 .. Len(pattern) : part[j] = pattern[j] PROVE part = pattern
      BY <2>1, <3>1, <3>2, SeqEqual
    <3> QED
      BY <3>2
  <2> HIDE DEF part
  <2>4. (\A j \in 1 .. Len(pattern) : mem[from + p + j - 1] = pattern[j]) <=> part = pattern
    BY <2>1, <2>2, <2>3
  <2> QED
    BY <2>4 DEF part
<1> QED
  BY <1>1, <1>2, <1>3 DEF Occurs, M!Occurrences, M!OccursAt

(* What --literal and a plain PATTERN rely on: in the buffer, whatever the lengths of file, pattern *)
(* and vector, the search from any offset finds the first occurrence in the file, although it *)
(* compares bytes behind the end, and nothing if there is none.                    *)
THEOREM LiteralsAreFound == OneReadSuffices => (BufferSpec => []LiteralSearchIsExact)
<1> SUFFICES ASSUME OneReadSuffices PROVE BufferSpec => []LiteralSearchIsExact
  OBVIOUS
<1>1. IInv => LiteralSearchIsExact
  <2> SUFFICES ASSUME IInv, Scanning, NEW pattern \in Literals, NEW from \in 0 .. size - 1
               PROVE  LET found == M!LiteralMatch(file.data, pattern, from)
                      IN LiteralMatch(mem, size, from, pattern) =
                             IF found = M!NoMatch THEN size ELSE found.begin
    BY DEF LiteralSearchIsExact
  <2> DEFINE S == Occurs(mem, from, size - from, pattern)
             T == M!Occurrences(file.data, pattern, from)
  <2>1. /\ size \in Nat /\ pattern \in Seq(Nat \ {0}) /\ Len(pattern) \in Nat
        /\ Len(file.data) = size
        /\ \A a \in 0 .. size + Width - 1 : a \in DOMAIN mem
        /\ \A a \in size .. size + Width - 1 : mem[a] = 0
    BY FileInBuffer, FileBufferAssumption DEF size
  <2>2. LiteralMatch(mem, size, from, pattern) = IF S = {} THEN size ELSE from + Min(S)
    BY <2>1, LiteralMatchFinds
  <2>3. /\ S \in SUBSET Nat /\ T \in SUBSET Nat /\ \A o \in T : o >= from
    BY <2>1 DEF Occurs, M!Occurrences
  <2>4. \A p \in Nat : p \in S <=> from + p \in T
    BY <2>1, OccurrencesInFile
  <2>5. M!LiteralMatch(file.data, pattern, from) =
          IF T = {} THEN M!NoMatch ELSE [begin |-> Min(T), end |-> Min(T) + Len(pattern)]
    BY SameMin DEF M!LiteralMatch
  <2> HIDE DEF S, T
  <2>6. CASE S = {}
    <3>1. T = {}
      <4>1. ASSUME NEW o \in T PROVE FALSE
        <5>1. o - from \in Nat /\ from + (o - from) = o
          BY <2>1, <2>3
        <5> QED
          BY <2>4, <2>6, <5>1
      <4> QED
        BY <4>1
    <3> QED
      BY <2>2, <2>5, <2>6, <3>1
  <2>7. CASE S # {}
    <3>1. PICK m \in S : Min(S) = m /\ \A p \in S : m <= p
      <4>1. PICK m \in S : \A p \in S : m <= p
        BY <2>3, <2>7, LeastNumber
      <4> QED
        BY <2>3, <4>1, MinIs
    <3>2. PICK n \in T : n = from + m
      BY <2>3, <2>4
    <3>3. \A o \in T : n <= o
      <4>1. ASSUME NEW o \in T PROVE n <= o
        <5>1. o - from \in Nat /\ from + (o - from) = o
          BY <2>1, <2>3
        <5>2. m <= o - from
          BY <2>4, <3>1, <5>1
        <5> QED
          BY <2>1, <2>3, <3>2, <5>1, <5>2
      <4> QED
        BY <4>1
    <3>4. Min(T) = n /\ n \in Nat
      BY <2>3, <3>3, MinIs
    <3>5. [begin |-> n, end |-> n + Len(pattern)] # M!NoMatch
      <4>1. [begin |-> n, end |-> n + Len(pattern)].begin # M!NoMatch.begin
        BY <3>4 DEF M!NoMatch
      <4> QED
        BY <4>1
    <3> QED
      BY <2>2, <2>5, <2>7, <3>1, <3>2, <3>4, <3>5
  <2> QED
    BY <2>6, <2>7
<1> QED
  BY <1>1, BufferInvariant, PTL
-----------------------------------------------------------------------------
(* The tables of first bytes                                                 *)

(* How many members of S are smaller than b.                                    *)
Below(S, b) == {c \in S : c < b}
Rank(S, b) == Cardinality(Below(S, b))

LEMMA RankGrows ==
    ASSUME NEW S \in SUBSET Nat, IsFiniteSet(S), NEW b \in S, NEW d \in S
    PROVE  /\ Rank(S, b) \in 0 .. Cardinality(S) - 1
           /\ b < d => Rank(S, b) < Rank(S, d)
<1>1. /\ IsFiniteSet(Below(S, b)) /\ IsFiniteSet(Below(S, d)) /\ Cardinality(S) \in Nat
      /\ Rank(S, b) \in Nat /\ Rank(S, d) \in Nat
  BY FS_Subset, FS_CardinalityType DEF Below, Rank
<1>2. b \notin Below(S, b)
  BY DEF Below
<1>3. IsFiniteSet(Below(S, b) \cup {b}) /\ Cardinality(Below(S, b) \cup {b}) = Rank(S, b) + 1
  BY <1>1, <1>2, FS_AddElement DEF Rank
<1>4. Rank(S, b) + 1 <= Cardinality(S)
  <2>1. Below(S, b) \cup {b} \in SUBSET S
    BY DEF Below
  <2> QED
    BY <1>3, <2>1, FS_Subset
<1>5. ASSUME b < d PROVE Rank(S, b) + 1 <= Rank(S, d)
  <2>1. Below(S, b) \cup {b} \in SUBSET Below(S, d)
    <3>1. \A c \in S : c < b => c < d
      <4>1. \A c \in S : c \in Nat
        OBVIOUS
      <4> QED
        BY <1>5, <4>1
    <3> QED
      BY <1>5, <3>1 DEF Below
  <2> QED
    BY <1>1, <1>3, <2>1, FS_Subset DEF Rank
<1> QED
  BY <1>1, <1>4, <1>5

(* Sorted() lists every member once, in ascending order.                          *)
LEMMA SortedIs ==
    ASSUME NEW S \in SUBSET Nat, IsFiniteSet(S)
    PROVE  /\ Cardinality(S) \in Nat /\ DOMAIN Sorted(S) = 1 .. Cardinality(S)
           /\ Sorted(S) \in Seq(S) /\ Len(Sorted(S)) = Cardinality(S)
           /\ \A n \in 1 .. Cardinality(S) : Sorted(S)[n] \in S
           /\ \A b \in S : \E n \in 1 .. Cardinality(S) : Sorted(S)[n] = b
           /\ \A m, n \in 1 .. Cardinality(S) : m < n => Sorted(S)[m] < Sorted(S)[n]
<1> DEFINE size1 == Cardinality(S)
           f == [b \in S |-> Rank(S, b) + 1]
<1>1. size1 \in Nat
  BY FS_CardinalityType
<1>2. \A b \in S : b \in Nat /\ Rank(S, b) \in 0 .. size1 - 1
  BY RankGrows
<1>3. \A b, d \in S : Rank(S, b) = Rank(S, d) => b = d
  <2>1. ASSUME NEW b \in S, NEW d \in S, Rank(S, b) = Rank(S, d) PROVE b = d
    <3>1. ~(b < d) /\ ~(d < b)
      BY <1>1, <1>2, <2>1, RankGrows
    <3> QED
      BY <1>2, <3>1
  <2> QED
    BY <2>1
<1>4. f \in Injection(S, 1 .. size1)
  <2>1. \A b \in S : Rank(S, b) + 1 \in 1 .. size1
    BY <1>1, <1>2
  <2>2. \A b, d \in S : Rank(S, b) + 1 = Rank(S, d) + 1 => Rank(S, b) = Rank(S, d)
    BY <1>1, <1>2
  <2>3. f \in [S -> 1 .. size1]
    BY <2>1
  <2>4. \A b, d \in S : f[b] = f[d] => b = d
    BY <1>3, <2>2
  <2> HIDE DEF f, size1
  <2> QED
    BY <2>3, <2>4 DEF Injection, IsInjective
<1>5. f \in Surjection(S, 1 .. size1)
  <2>1. IsFiniteSet(1 .. size1) /\ Cardinality(1 .. size1) = size1
    <3>1. IsFiniteSet(1 .. size1) /\ Cardinality(1 .. size1) = IF 1 > size1 THEN 0 ELSE size1 - 1 + 1
      BY <1>1, FS_Interval
    <3> QED
      BY <1>1, <3>1
  <2>2. Cardinality(S) = Cardinality(1 .. size1)
    BY <2>1
  <2> HIDE DEF f
  <2> QED
    BY <1>4, <2>1, <2>2, FS_Injection
<1>6. \A n \in 1 .. size1 : \E b \in S : Rank(S, b) = n - 1
  <2>1. \A n \in 1 .. size1 : \E b \in S : f[b] = n
    <3> HIDE DEF f
    <3> QED
      BY <1>5 DEF Surjection
  <2>2. ASSUME NEW n \in 1 .. size1 PROVE \E b \in S : Rank(S, b) = n - 1
    <3>1. PICK b \in S : Rank(S, b) + 1 = n
      BY <2>1
    <3>2. Rank(S, b) \in Int /\ n \in Int
      BY <1>1, <1>2
    <3> QED
      BY <3>1, <3>2
  <2> QED
    BY <2>2
<1>7. /\ DOMAIN Sorted(S) = 1 .. size1
      /\ \A n \in 1 .. size1 : Sorted(S)[n] = CHOOSE b \in S : Rank(S, b) = n - 1
  BY DEF Sorted, Rank, Below
<1>8. \A n \in 1 .. size1 : Sorted(S)[n] \in S /\ Rank(S, Sorted(S)[n]) = n - 1
  BY <1>6, <1>7
<1>9. \A b \in S : \E n \in 1 .. size1 : Sorted(S)[n] = b
  <2>1. ASSUME NEW b \in S PROVE \E n \in 1 .. size1 : Sorted(S)[n] = b
    <3>1. PICK n \in 1 .. size1 : n = Rank(S, b) + 1 /\ n - 1 = Rank(S, b)
      BY <1>1, <1>2
    <3>2. Rank(S, Sorted(S)[n]) = Rank(S, b) /\ Sorted(S)[n] \in S
      BY <1>8, <3>1
    <3> QED
      BY <1>3, <3>2
  <2> QED
    BY <2>1
<1>10. \A m, n \in 1 .. size1 : m < n => Sorted(S)[m] < Sorted(S)[n]
  <2>1. ASSUME NEW m \in 1 .. size1, NEW n \in 1 .. size1, m < n PROVE Sorted(S)[m] < Sorted(S)[n]
    <3>1. PICK b \in S : b = Sorted(S)[m] /\ Rank(S, b) = m - 1
      BY <1>8
    <3>2. PICK d \in S : d = Sorted(S)[n] /\ Rank(S, d) = n - 1
      BY <1>8
    <3>3. ~(d < b) /\ b # d
      BY <1>1, <2>1, <3>1, <3>2, RankGrows
    <3> QED
      BY <1>2, <3>1, <3>2, <3>3
  <2> QED
    BY <2>1
<1>11. Sorted(S) \in Seq(S) /\ Len(Sorted(S)) = size1
  <2> DEFINE g == Sorted(S)
  <2>1. \A n \in 1 .. size1 : (CHOOSE b \in S : Rank(S, b) = n - 1) \in S
    BY <1>6
  <2>2. g \in [1 .. size1 -> S] /\ size1 \in Nat
    <3>1. g = [n \in 1 .. size1 |-> CHOOSE b \in S : Rank(S, b) = n - 1]
      BY DEF Sorted, Rank, Below
    <3> HIDE DEF g
    <3> QED
      BY <1>1, <2>1, <3>1
  <2> HIDE DEF g, size1
  <2>3. g \in Seq(S) /\ Len(g) = size1
    BY <2>2
  <2> QED
    BY <2>3 DEF g
<1> QED
  BY <1>1, <1>7, <1>8, <1>9, <1>10, <1>11

(* Within a run every byte is one more than the one before.                       *)
LEMMA RunSteps ==
    ASSUME NEW table, NEW b \in Nat, NEW e \in Nat,
           \A x \in b .. e : table[x] \in Nat,
           \A x \in b + 1 .. e : table[x - 1] = table[x] - 1
    PROVE  \A x \in b .. e : table[x] = table[b] + (x - b)
<1> DEFINE bad == {x \in b .. e : table[x] # table[b] + (x - b)}
<1> SUFFICES ASSUME bad # {} PROVE FALSE
  OBVIOUS
<1>1. bad \in SUBSET Nat
  OBVIOUS
<1>2. PICK n \in bad : \A m \in bad : n <= m
  <2> HIDE DEF bad
  <2> QED
    BY <1>1, LeastNumber
<1>3. n \in b .. e /\ table[n] # table[b] + (n - b)
  OBVIOUS
<1>4. n # b
  <2>1. table[b] \in Nat
    BY <1>3
  <2> QED
    BY <1>3, <2>1
<1>5. n \in b + 1 .. e /\ n - 1 \in b .. e /\ ~(n <= n - 1)
  BY <1>3, <1>4
<1>6. n - 1 \notin bad
  <2> HIDE DEF bad
  <2> QED
    BY <1>2, <1>5
<1>7. table[n - 1] = table[b] + ((n - 1) - b) /\ table[n - 1] = table[n] - 1
  BY <1>5, <1>6
<1>8. table[n] \in Nat /\ table[b] \in Nat
  BY <1>3
<1> QED
  BY <1>3, <1>5, <1>7, <1>8

LEMMA BeginIs ==
    ASSUME NEW table, NEW k \in Nat, DOMAIN table = 1 .. k, NEW e \in 1 .. k
    PROVE  /\ BeginOf(table, e) \in RunBegins(table) /\ BeginOf(table, e) <= e
           /\ \A c \in RunBegins(table) : c <= e => c <= BeginOf(table, e)
<1> DEFINE before == {n \in 0 .. e : e - n \in RunBegins(table)}
<1>1. \A c \in RunBegins(table) : c \in 1 .. k
  BY DEF RunBegins
<1>2. e - 1 \in before
  <2>1. 1 \in RunBegins(table)
    BY DEF RunBegins
  <2>2. e - 1 \in 0 .. e /\ e - (e - 1) = 1
    OBVIOUS
  <2> QED
    BY <2>1, <2>2
<1>3. before \in SUBSET Nat
  OBVIOUS
<1>4. PICK n \in before : \A m \in before : n <= m
  <2> HIDE DEF before
  <2> QED
    BY <1>2, <1>3, LeastNumber
<1>5. e - n \in RunBegins(table) /\ n \in 0 .. e
  OBVIOUS
<1>6. ASSUME NEW c \in RunBegins(table), c <= e PROVE c <= e - n
  <2>1. e - c \in 0 .. e /\ e - (e - c) = c
    BY <1>1, <1>6
  <2>2. n <= e - c
    BY <1>4, <2>1
  <2> QED
    BY <1>1, <1>5, <1>6, <2>2
<1>7. \E b \in RunBegins(table) : b <= e /\ \A c \in RunBegins(table) : c <= e => c <= b
  BY <1>5, <1>6
<1> QED
  BY <1>7 DEF BeginOf

(* The pairs cover exactly the bytes in the table.                               *)
LEMMA RangesCover ==
    ASSUME NEW bytes \in SUBSET Nat, IsFiniteSet(bytes)
    PROVE  LET table == Sorted(bytes)
               pairs == ConstructRangePairTable(table)
           IN /\ Len(pairs) \in Nat /\ DOMAIN pairs = 1 .. Len(pairs)
              /\ \A n \in DOMAIN pairs : pairs[n] \in Nat \X Nat
              /\ \A v : (\E n \in DOMAIN pairs : v \in pairs[n][1] .. pairs[n][2]) <=> v \in bytes
<1> DEFINE table == Sorted(bytes)
           pairs == ConstructRangePairTable(table)
           k == Cardinality(bytes)
           ends == RunEnds(table)
<1>1. /\ k \in Nat /\ DOMAIN table = 1 .. k /\ Len(table) = k
      /\ \A n \in 1 .. k : table[n] \in bytes
      /\ \A b \in bytes : \E n \in 1 .. k : table[n] = b
      /\ \A m, n \in 1 .. k : m < n => table[m] < table[n]
  BY SortedIs
<1>2. \A n \in 1 .. k : table[n] \in Nat
  BY <1>1
<1> HIDE DEF table, k
<1>3. ends \in SUBSET Nat /\ IsFiniteSet(ends) /\ \A e \in ends : e \in 1 .. k
  <2>1. ends \in SUBSET (1 .. k)
    BY <1>1 DEF RunEnds
  <2> QED
    BY <1>1, <2>1, FS_Interval, FS_Subset
<1> DEFINE c == Cardinality(ends)
<1>4. /\ c \in Nat
      /\ \A n \in 1 .. c : Sorted(ends)[n] \in ends
      /\ \A e \in ends : \E n \in 1 .. c : Sorted(ends)[n] = e
  BY <1>3, SortedIs
<1>5. /\ DOMAIN pairs = 1 .. c
      /\ \A n \in 1 .. c : pairs[n] = <<table[BeginOf(table, Sorted(ends)[n])], table[Sorted(ends)[n]]>>
  BY DEF ConstructRangePairTable
<1>6. ASSUME NEW e \in ends
      PROVE  /\ BeginOf(table, e) \in 1 .. k /\ BeginOf(table, e) <= e
             /\ \A x \in BeginOf(table, e) .. e : table[x] = table[BeginOf(table, e)] + (x - BeginOf(table, e))
  <2>1. PICK b : /\ b = BeginOf(table, e) /\ b \in RunBegins(table) /\ b <= e
                 /\ \A d \in RunBegins(table) : d <= e => d <= b
    BY <1>1, <1>3, BeginIs
  <2>2. b \in 1 .. k /\ e \in 1 .. k
    BY <1>1, <1>3, <2>1 DEF RunBegins
  <2>3. ASSUME NEW x \in b + 1 .. e PROVE table[x - 1] = table[x] - 1
    <3>1. x \in 1 .. k /\ x <= e /\ ~(x <= b) /\ x # 1
      BY <1>1, <2>2
    <3>2. x \notin RunBegins(table)
      BY <2>1, <3>1
    <3> QED
      BY <1>1, <3>1, <3>2 DEF RunBegins
  <2>4. \A x \in b .. e : table[x] \in Nat
    <3>1. \A x \in b .. e : x \in 1 .. k
      BY <1>1, <2>2
    <3> QED
      BY <1>2, <3>1
  <2>5. b \in Nat /\ e \in Nat
    BY <1>1, <2>2
  <2>6. \A x \in b .. e : table[x] = table[b] + (x - b)
    BY <2>3, <2>4, <2>5, RunSteps
  <2> QED
    BY <2>1, <2>2, <2>6
<1>7. ASSUME NEW n \in 1 .. c, NEW v \in pairs[n][1] .. pairs[n][2]
      PROVE  v \in bytes
  <2>1. PICK e \in ends : pairs[n] = <<table[BeginOf(table, e)], table[e]>>
    BY <1>4, <1>5
  <2>2. PICK b \in 1 .. k : /\ b = BeginOf(table, e) /\ b <= e
                            /\ \A x \in b .. e : table[x] = table[b] + (x - b)
    BY <1>6
  <2>3. e \in 1 .. k /\ table[b] \in Nat /\ table[e] \in Nat /\ v \in table[b] .. table[e]
    BY <1>2, <1>3, <2>1, <2>2
  <2>4. table[e] = table[b] + (e - b)
    BY <1>1, <2>2, <2>3
  <2>5. PICK x : x = b + (v - table[b])
    OBVIOUS
  <2>6. x \in b .. e /\ x \in 1 .. k /\ table[b] + (x - b) = v
    <3>1. \A tb \in Nat : \A y \in tb .. tb + (e - b) :
            /\ b + (y - tb) \in b .. e /\ b + (y - tb) \in 1 .. k
            /\ tb + ((b + (y - tb)) - b) = y
      <4>1. b \in Int /\ e \in Int /\ k \in Int /\ 1 <= b /\ b <= e /\ e <= k
        BY <1>1, <2>2, <2>3
      <4> QED
        BY ONLY <4>1
    <3>2. v \in table[b] .. table[b] + (e - b) /\ table[b] \in Nat
      BY <2>3, <2>4
    <3>3. /\ b + (v - table[b]) \in b .. e /\ b + (v - table[b]) \in 1 .. k
          /\ table[b] + ((b + (v - table[b])) - b) = v
      BY <3>1, <3>2
    <3> QED
      BY ONLY <2>5, <3>3
  <2>7. table[x] = v
    BY <2>2, <2>6
  <2> QED
    BY <1>1, <2>6, <2>7
<1>8. ASSUME NEW v \in bytes
      PROVE  \E n \in 1 .. c : v \in pairs[n][1] .. pairs[n][2]
  <2>1. PICK j \in 1 .. k : table[j] = v
    BY <1>1
  <2> DEFINE behind == {e \in ends : e >= j}
  <2>2. behind \in SUBSET Nat /\ behind # {}
    <3>1. k \in 1 .. k /\ k >= j
      BY <1>1
    <3>2. k \in ends
      BY <1>1, <3>1 DEF RunEnds
    <3> QED
      BY <1>3, <3>1, <3>2
  <2>3. PICK e \in behind : \A d \in behind : e <= d
    <3> HIDE DEF behind
    <3> QED
      BY <2>2, LeastNumber
  <2>4. e \in ends /\ e \in 1 .. k /\ e >= j
    BY <1>3
  <2>5. PICK b \in RunBegins(table) : /\ b = BeginOf(table, e) /\ b <= e /\ b \in 1 .. k
                                      /\ \A x \in b .. e : table[x] = table[b] + (x - b)
    BY <1>1, <1>6, <2>4, BeginIs
  <2>6. b <= j
    <3> SUFFICES ASSUME b > j PROVE FALSE
      BY <1>1, <2>1, <2>5
    <3>1. b - 1 \in 1 .. k /\ b - 1 >= j /\ ~(e <= b - 1) /\ b # 1 /\ b - 1 # k /\ (b - 1) + 1 = b
      BY <1>1, <2>1, <2>4, <2>5
    <3>2. b - 1 \notin ends
      BY <2>3, <3>1
    <3>3. table[(b - 1) + 1] = table[b - 1] + 1
      BY <1>1, <3>1, <3>2 DEF RunEnds
    <3>4. table[b - 1] = table[b] - 1
      BY <1>2, <2>5, <3>1, <3>3
    <3> QED
      BY <2>5, <3>1, <3>4 DEF RunBegins
  <2>7. table[j] = table[b] + (j - b) /\ table[e] = table[b] + (e - b)
    BY <1>1, <2>1, <2>4, <2>5, <2>6
  <2>8. table[j] \in table[b] .. table[e]
    <3>1. b \in Nat /\ j \in Nat /\ e \in Nat /\ b <= j /\ j <= e
      BY <1>1, <2>1, <2>4, <2>5, <2>6
    <3>2. table[b] \in Nat
      BY <1>2, <2>5
    <3>3. \A tb \in Nat : tb + (j - b) \in tb .. tb + (e - b)
      BY <3>1
    <3> QED
      BY <2>7, <3>2, <3>3
  <2>9. PICK n \in 1 .. c : Sorted(ends)[n] = e
    BY <1>4, <2>4
  <2>10. pairs[n] = <<table[b], table[e]>>
    BY <1>5, <2>5, <2>9
  <2> QED
    BY <2>1, <2>8, <2>10
<1>9. \A n \in 1 .. c : pairs[n] \in Nat \X Nat
  <2>1. ASSUME NEW n \in 1 .. c PROVE pairs[n] \in Nat \X Nat
    <3>1. PICK e \in ends : pairs[n] = <<table[BeginOf(table, e)], table[e]>>
      BY <1>4, <1>5
    <3>2. table[BeginOf(table, e)] \in Nat /\ table[e] \in Nat
      BY <1>2, <1>3, <1>6
    <3> QED
      BY <3>1, <3>2
  <2> QED
    BY <2>1
<1>10. Len(pairs) = c
  <2> HIDE DEF c
  <2>1. pairs = [n \in 1 .. c |-> <<table[BeginOf(table, Sorted(ends)[n])], table[Sorted(ends)[n]]>>]
    BY DEF ConstructRangePairTable, c
  <2> HIDE DEF pairs, ends
  <2> QED
    BY <1>4, <2>1
<1> HIDE DEF c, pairs, ends
<1> QED
  BY <1>4, <1>5, <1>7, <1>8, <1>9, <1>10 DEF pairs, table
-----------------------------------------------------------------------------
(* The search for a first byte                                               *)

LEMMA MinWithEnd ==
    ASSUME NEW end \in Nat, NEW C \in SUBSET Nat, \A c \in C : c < end
    PROVE  /\ C = {} => Min({end} \cup C) = end
           /\ C # {} => Min({end} \cup C) = Min(C) /\ Min(C) \in C /\ \A c \in C : Min(C) <= c
<1>1. CASE C = {}
  <2>1. {end} \cup C \in SUBSET Nat /\ end \in {end} \cup C /\ \A o \in {end} \cup C : end <= o
    BY <1>1
  <2>2. Min({end} \cup C) = end
    BY <2>1, MinIs
  <2> QED
    BY <1>1, <2>2
<1>2. CASE C # {}
  <2>1. PICK m \in C : \A c \in C : m <= c
    BY <1>2, LeastNumber
  <2>2. Min(C) = m
    BY <2>1, MinIs
  <2>3. {end} \cup C \in SUBSET Nat /\ m \in {end} \cup C /\ \A o \in {end} \cup C : m <= o
    <3>1. m \in Nat /\ m < end
      OBVIOUS
    <3> QED
      BY <2>1, <3>1
  <2>4. Min({end} \cup C) = m
    BY <2>3, MinIs
  <2> QED
    BY <1>2, <2>1, <2>2, <2>4
<1> QED
  BY <1>1, <1>2

(* h[i] is the place of the first of the offsets C in the block at i, Width if it has none.   *)
FirstInBlock(len, C, h) ==
    \A i \in Blocks(len) :
        /\ h[i] \in 0 .. Width
        /\ (\E c \in C : i <= c /\ c < i + Width) => h[i] < Width
        /\ h[i] < Width => i + h[i] \in C /\ \A c \in C : c >= i => i + h[i] <= c

HitBlocks(len, h) == {i \in Blocks(len) : h[i] < Width}

(* The first block that has one decides.                                        *)
LEMMA FirstBlock ==
    ASSUME NEW len \in Nat, NEW C \in SUBSET (0 .. len - 1), NEW h, FirstInBlock(len, C, h)
    PROVE  LET B == HitBlocks(len, h)
           IN /\ B = {} => C = {}
              /\ B # {} => C # {} /\ Min(B) \in B /\ Min(B) + h[Min(B)] = Min(C) /\ Min(C) \in C
<1> DEFINE B == HitBlocks(len, h)
<1>1. Width \in Nat \ {0}
  BY WidthAssumption
<1>2. \A i \in Blocks(len) : i \in 0 .. len - 1 /\ i % Width = 0
  BY DEF Blocks
<1>3. CASE C = {}
  <2>1. B = {}
    BY <1>3 DEF FirstInBlock, HitBlocks
  <2> QED
    BY <1>3, <2>1
<1>4. CASE C # {}
  <2>1. PICK m \in C : Min(C) = m /\ \A c \in C : m <= c
    <3>1. C \in SUBSET Nat
      OBVIOUS
    <3>2. PICK m \in C : \A c \in C : m <= c
      BY <1>4, <3>1, LeastNumber
    <3> QED
      BY <3>1, <3>2, MinIs
  <2>2. m \in 0 .. len - 1
    OBVIOUS
  <2>3. m % Width \in 0 .. Width - 1 /\ (m - (m % Width)) % Width = 0
    BY <2>2, DivMod, ModPart
  <2>4. PICK r \in 0 .. Width - 1 : r = m % Width /\ r <= m
    BY <1>1, <2>2, <2>3
  <2>5. PICK b : b = m - r
    OBVIOUS
  <2>6. b \in 0 .. len - 1 /\ b % Width = 0 /\ b <= m /\ m < b + Width
    BY <1>1, <2>2, <2>3, <2>4, <2>5
  <2>7. b \in Blocks(len)
    BY <2>6 DEF Blocks
  <2>8. h[b] < Width /\ h[b] \in 0 .. Width /\ b + h[b] \in C /\ b + h[b] <= m
    BY <2>6, <2>7 DEF FirstInBlock
  <2>9. b + h[b] = m
    BY <1>1, <2>1, <2>2, <2>6, <2>8
  <2>10. ASSUME NEW i \in B PROVE b <= i
    <3>1. /\ i \in 0 .. len - 1 /\ i % Width = 0
          /\ h[i] \in 0 .. Width /\ h[i] < Width /\ m <= i + h[i]
      BY <1>2, <2>1 DEF FirstInBlock, HitBlocks
    <3>2. (i - b) % Width = 0 /\ i - b \in Int
      BY <2>6, <3>1, ModSum
    <3>3. i - b = 0 \/ i - b >= Width \/ i - b <= -Width
      BY <3>2, ModFar
    <3>4. i > m - Width
      BY <1>1, <2>2, <3>1
    <3> QED
      BY <1>1, <2>2, <2>6, <3>1, <3>3, <3>4
  <2>11. b \in B /\ B \in SUBSET Nat
    BY <1>2, <2>7, <2>8 DEF HitBlocks
  <2>12. Min(B) = b
    <3> HIDE DEF B
    <3> QED
      BY <2>10, <2>11, MinIs
  <2>13. B # {} /\ C # {} /\ Min(B) \in B /\ Min(B) + h[Min(B)] = Min(C) /\ Min(C) \in C
    <3> HIDE DEF B
    <3> QED
      BY <1>4, <2>1, <2>9, <2>11, <2>12
  <2> QED
    BY <2>13
<1> QED
  BY <1>3, <1>4

(* What fits into one vector is one piece.                                       *)
LEMMA OnePiece ==
    ASSUME NEW n \in 0 .. Width
    PROVE  Blocks(n) = IF n = 0 THEN {} ELSE {0}
<1>1. Width \in Nat \ {0} /\ 0 % Width = 0
  BY WidthAssumption
<1>2. ASSUME NEW i \in Blocks(n) PROVE i = 0
  <2>1. i \in 0 .. n - 1 /\ i % Width = 0
    BY DEF Blocks
  <2> QED
    BY <1>1, <2>1, ModFar
<1>3. n # 0 => 0 \in Blocks(n)
  BY <1>1 DEF Blocks
<1>4. n = 0 => Blocks(n) = {}
  BY DEF Blocks
<1> QED
  BY <1>2, <1>3, <1>4

(* With a single piece the search gives the first of the offsets, or the end.               *)
LEMMA OnePieceFinds ==
    ASSUME NEW len \in Nat, NEW C \in SUBSET (0 .. len - 1), NEW h, FirstInBlock(len, C, h),
           NEW hit, \A i \in Blocks(len) : hit[i][0] = h[i]
    PROVE  FirstInPieces(len, {0}, hit) = Min({len} \cup C)
<1> DEFINE B == HitBlocks(len, h)
<1>1. {i \in Blocks(len) : \E p \in {0} : hit[i][p] < Width} = B
  BY DEF HitBlocks
<1>2. C \in SUBSET Nat /\ \A c \in C : c < len
  OBVIOUS
<1>3. CASE B = {}
  <2>1. B = {} => C = {}
    BY FirstBlock
  <2>2. Min({len} \cup C) = len
    BY <1>2, <1>3, <2>1, MinWithEnd
  <2> HIDE DEF B
  <2> QED
    BY <1>1, <1>3, <2>2 DEF FirstInPieces
<1>4. CASE B # {}
  <2>1. C # {} /\ Min(B) \in B /\ Min(B) + h[Min(B)] = Min(C) /\ Min(C) \in C
    <3>1. B # {} => C # {} /\ Min(B) \in B /\ Min(B) + h[Min(B)] = Min(C) /\ Min(C) \in C
      BY FirstBlock
    <3> QED
      BY <1>4, <3>1
  <2>2. PICK i \in Blocks(len) : i = Min(B) /\ h[i] < Width /\ i + h[i] = Min(C)
    BY <2>1 DEF HitBlocks
  <2>3. {q \in {0} : hit[i][q] < Width} = {0}
    BY <2>2
  <2>4. Min({0}) = 0
    BY MinIs
  <2>5. Min({len} \cup C) = Min(C)
    BY <1>2, <2>1, MinWithEnd
  <2>6. Lesser(i + hit[i][0], len) = Min(C)
    <3>1. Min(C) < len
      BY <1>2, <2>1
    <3> QED
      BY <2>2, <3>1 DEF Lesser
  <2> HIDE DEF B
  <2>7. FirstInPieces(len, {0}, hit) = Lesser(i + hit[i][Min({q \in {0} : hit[i][q] < Width})], len)
    BY <1>1, <1>4, <2>2 DEF FirstInPieces
  <2> QED
    BY <2>3, <2>4, <2>5, <2>6, <2>7
<1> QED
  BY <1>3, <1>4

(* A vector can be loaded at any of the "len" bytes from "from" on.                  *)
Loaded(bytes, from, len) ==
    /\ from \in Nat /\ len \in Nat
    /\ \A a \in from .. from + len + Width - 1 : a \in DOMAIN bytes

(* The offsets of the bytes that are among the members.                             *)
Hopeful(bytes, from, len, members) == {o \in 0 .. len - 1 : bytes[from + o] \in members}

LEMMA BlockNumbers ==
    ASSUME NEW len \in Nat, NEW i \in Blocks(len)
    PROVE  /\ i \in 0 .. len - 1 /\ Width \in Nat \ {0}
           /\ Lesser(len - i, Width) \in 0 .. Width
           /\ \A k \in 0 .. Width - 1 : k \in 0 .. Lesser(len - i, Width) - 1 <=> i + k < len
<1>1. i \in 0 .. len - 1 /\ Width \in Nat \ {0}
  BY WidthAssumption DEF Blocks
<1> QED
  BY <1>1 DEF Lesser

LEMMA LoadIs ==
    ASSUME NEW bytes, NEW from, NEW len, Loaded(bytes, from, len), NEW i \in Blocks(len),
           NEW k \in 0 .. Width - 1
    PROVE  Load(bytes, from + i)[k] = bytes[from + (i + k)]
<1>1. i \in 0 .. len - 1 /\ Width \in Nat \ {0} /\ from \in Nat /\ len \in Nat
  BY BlockNumbers DEF Loaded
<1>2. from + i + k \in from .. from + len + Width - 1 /\ from + i + k = from + (i + k)
  BY <1>1
<1> QED
  BY <1>2 DEF Loaded, Load

(* A set of places in the blocks that has those of C gives the first of them.          *)
LEMMA FirstHitInBlock ==
    ASSUME NEW len \in Nat, NEW C \in SUBSET (0 .. len - 1), NEW i \in Blocks(len),
           NEW H \in SUBSET (0 .. Width - 1),
           \A k \in 0 .. Width - 1 : k \in H <=> i + k \in C
    PROVE  LET hit == FirstHit(H)
           IN /\ hit \in 0 .. Width
              /\ (\E c \in C : i <= c /\ c < i + Width) => hit < Width
              /\ hit < Width => i + hit \in C /\ \A c \in C : c >= i => i + hit <= c
<1>1. i \in 0 .. len - 1 /\ Width \in Nat \ {0}
  BY BlockNumbers
<1>2. ASSUME NEW c \in C, i <= c, c < i + Width PROVE c - i \in H
  <2>1. c - i \in 0 .. Width - 1 /\ i + (c - i) = c
    BY <1>1, <1>2
  <2> QED
    BY <2>1
<1>3. CASE H = {}
  <2>1. FirstHit(H) = Width
    BY <1>3, FirstHitIs
  <2> QED
    BY <1>1, <1>2, <1>3, <2>1
<1>4. CASE H # {}
  <2>1. PICK m \in H : m = FirstHit(H) /\ \A k \in H : m <= k
    BY <1>4, FirstHitIs
  <2>2. m \in 0 .. Width - 1 /\ i + m \in C
    OBVIOUS
  <2>3. ASSUME NEW c \in C, c >= i PROVE i + m <= c
    <3>1. CASE c < i + Width
      <4>1. c - i \in H
        BY <1>1, <1>2, <2>3, <3>1
      <4>2. m <= c - i
        BY <2>1, <4>1
      <4> QED
        BY <1>1, <2>2, <4>2
    <3>2. CASE ~(c < i + Width)
      BY <1>1, <2>2, <3>2
    <3> QED
      BY <3>1, <3>2
  <2>4. m < Width /\ m \in 0 .. Width
    BY <1>1, <2>2
  <2> QED
    BY <2>1, <2>2, <2>3, <2>4
<1> QED
  BY <1>3, <1>4

LEMMA AnyInBlock ==
    ASSUME NEW bytes, NEW from, NEW len, Loaded(bytes, from, len), NEW members,
           NEW h, \A i \in Blocks(len) : h[i] = EqualAny(members, Load(bytes, from + i), len - i)
    PROVE  FirstInBlock(len, Hopeful(bytes, from, len, members), h)
<1> DEFINE C == Hopeful(bytes, from, len, members)
<1>1. len \in Nat /\ C \in SUBSET (0 .. len - 1)
  BY DEF Loaded, Hopeful
<1>2. SUFFICES ASSUME NEW i \in Blocks(len)
               PROVE  /\ h[i] \in 0 .. Width
                      /\ (\E c \in C : i <= c /\ c < i + Width) => h[i] < Width
                      /\ h[i] < Width => i + h[i] \in C /\ \A c \in C : c >= i => i + h[i] <= c
  BY DEF FirstInBlock
<1> DEFINE H == {k \in 0 .. Lesser(len - i, Width) - 1 : Load(bytes, from + i)[k] \in members}
<1>3. h[i] = FirstHit(H)
  BY DEF EqualAny
<1>4. H \in SUBSET (0 .. Width - 1)
  <2>1. Lesser(len - i, Width) \in 0 .. Width /\ Width \in Nat
    BY <1>1, BlockNumbers
  <2>2. \A k \in 0 .. Lesser(len - i, Width) - 1 : k \in 0 .. Width - 1
    BY <2>1
  <2> QED
    BY <2>2
<1>5. ASSUME NEW k \in 0 .. Width - 1 PROVE k \in H <=> i + k \in C
  <2>1. k \in 0 .. Lesser(len - i, Width) - 1 <=> i + k < len
    BY <1>1, BlockNumbers
  <2>2. Load(bytes, from + i)[k] = bytes[from + (i + k)]
    BY LoadIs
  <2>3. i + k \in 0 .. len - 1 <=> i + k < len
    BY <1>1, BlockNumbers
  <2> QED
    BY <2>1, <2>2, <2>3 DEF Hopeful
<1>6. \A k \in 0 .. Width - 1 : k \in H <=> i + k \in C
  BY <1>5
<1> HIDE DEF C, H
<1>7. /\ FirstHit(H) \in 0 .. Width
      /\ (\E c \in C : i <= c /\ c < i + Width) => FirstHit(H) < Width
      /\ FirstHit(H) < Width => i + FirstHit(H) \in C /\ \A c \in C : c >= i => i + FirstHit(H) <= c
  BY ONLY <1>1, <1>4, <1>6, FirstHitInBlock
<1> QED
  BY ONLY <1>3, <1>7

(* The table in one register.                                                 *)
LEMMA TableFinds ==
    ASSUME NEW bytes, NEW from, NEW len, Loaded(bytes, from, len),
           NEW table, NEW k \in 1 .. Width, Len(table) = k, table \in Seq(Nat)
    PROVE  find_first_of(bytes, from, len, table)
               = Min({len} \cup Hopeful(bytes, from, len, ToSet(table)))
<1> DEFINE C == Hopeful(bytes, from, len, ToSet(table))
           h == [i \in Blocks(len) |-> EqualAny(ToSet(table), Load(bytes, from + i), len - i)]
           hit == [i \in Blocks(len) |-> [p \in {0} |->
                      EqualAny(ToSet(Piece(table, p, Width)), Load(bytes, from + i), len - i)]]
<1>1. Width \in Nat \ {0} /\ len \in Nat /\ C \in SUBSET (0 .. len - 1)
  BY WidthAssumption DEF Loaded, Hopeful
<1>2. Blocks(Len(table)) = {0}
  BY <1>1, OnePiece
<1>3. Piece(table, 0, Width) = table
  <2>1. 0 + 1 = 1 /\ Lesser(0 + Width, Len(table)) = Len(table)
    BY <1>1 DEF Lesser
  <2>2. SubSeq(table, 1, Len(table)) = table
    BY SubSeqFull
  <2> QED
    BY <2>1, <2>2 DEF Piece
<1>4. FirstInBlock(len, C, h)
  BY AnyInBlock
<1>5. \A i \in Blocks(len) : hit[i][0] = h[i]
  BY <1>3
<1>6. find_first_of(bytes, from, len, table) = FirstInPieces(len, {0}, hit)
  BY <1>2 DEF find_first_of
<1> HIDE DEF C, h, hit
<1>7. FirstInPieces(len, {0}, hit) = Min({len} \cup C)
  BY <1>1, <1>4, <1>5, OnePieceFinds
<1> QED
  BY <1>6, <1>7 DEF C

(* The pairs stand for the members, and for no other bytes.                           *)
Cover(pairs, members) ==
    \A v : (\E n \in DOMAIN pairs : v \in pairs[n][1] .. pairs[n][2]) <=> v \in members

(* The pairs in one register; they stand for the bytes they cover.                   *)
LEMMA RangesFind ==
    ASSUME NEW bytes, NEW from, NEW len, Loaded(bytes, from, len), NEW members,
           NEW pairs \in Seq(Nat \X Nat), NEW k \in Nat, Len(pairs) = k, 2 * k <= Width,
           Cover(pairs, members)
    PROVE  find_first_in_ranges(bytes, from, len, pairs)
               = Min({len} \cup Hopeful(bytes, from, len, members))
<1> DEFINE C == Hopeful(bytes, from, len, members)
           h == [i \in Blocks(len) |-> EqualAny(members, Load(bytes, from + i), len - i)]
           hit == [i \in Blocks(len) |-> [p \in Blocks(2 * Len(pairs)) |->
                      InRanges(ToSet(Piece(pairs, p \div 2, Width \div 2)), Load(bytes, from + i), len - i)]]
<1>1. Width \in Nat \ {0} /\ len \in Nat /\ C \in SUBSET (0 .. len - 1)
  BY WidthAssumption DEF Loaded, Hopeful
<1>2. CASE k = 0
  <2>1. members = {}
    <3>1. DOMAIN pairs = {}
      BY <1>2
    <3> QED
      BY <3>1 DEF Cover
  <2>2. C = {}
    BY <2>1 DEF Hopeful
  <2>3. Blocks(2 * Len(pairs)) = {}
    BY <1>2 DEF Blocks
  <2>4. find_first_in_ranges(bytes, from, len, pairs) = len
    BY <2>3 DEF find_first_in_ranges, FirstInPieces
  <2>5. Min({len} \cup C) = len
    BY <1>1, <2>2, MinWithEnd
  <2> QED
    BY <2>4, <2>5
<1>3. CASE k # 0
  <2>1. Blocks(2 * Len(pairs)) = {0}
    <3>1. 2 * k \in 0 .. Width /\ 2 * k # 0
      BY <1>1, <1>3
    <3> QED
      BY <3>1, OnePiece
  <2>2. Piece(pairs, 0 \div 2, Width \div 2) = pairs
    <3>1. 0 \div 2 = 0 /\ k <= Width \div 2
      BY <1>1
    <3>2. (0 \div 2) + 1 = 1 /\ Lesser((0 \div 2) + (Width \div 2), Len(pairs)) = Len(pairs)
      BY <1>1, <3>1 DEF Lesser
    <3>3. SubSeq(pairs, 1, Len(pairs)) = pairs
      BY SubSeqFull
    <3> QED
      BY <3>2, <3>3 DEF Piece
  <2>3. \A v : (\E r \in ToSet(pairs) : v \in r[1] .. r[2]) <=> v \in members
    BY DEF ToSet, Cover
  <2>4. ASSUME NEW i \in Blocks(len) PROVE hit[i][0] = h[i]
    <3> DEFINE fragment == Load(bytes, from + i)
               places == 0 .. Lesser(len - i, Width) - 1
    <3>1. {x \in places : \E r \in ToSet(pairs) : fragment[x] \in r[1] .. r[2]}
              = {x \in places : fragment[x] \in members}
      <4> HIDE DEF fragment, places
      <4> QED
        BY <2>3
    <3>2. InRanges(ToSet(pairs), fragment, len - i) = EqualAny(members, fragment, len - i)
      BY <3>1 DEF InRanges, EqualAny
    <3> QED
      BY <2>1, <2>2, <3>2
  <2>5. FirstInBlock(len, C, h)
    BY AnyInBlock
  <2>6. find_first_in_ranges(bytes, from, len, pairs) = FirstInPieces(len, {0}, hit)
    BY <2>1 DEF find_first_in_ranges
  <2>7. \A i \in Blocks(len) : hit[i][0] = h[i]
    BY <2>4
  <2> HIDE DEF C, h, hit
  <2>8. FirstInPieces(len, {0}, hit) = Min({len} \cup C)
    BY ONLY <1>1, <2>5, <2>7, OnePieceFinds
  <2> QED
    BY <2>6, <2>8 DEF C
<1> QED
  BY <1>2, <1>3

(* A single byte is looked for in whole vectors; what is found behind the end is rejected.  *)
LEMMA ByteFinds ==
    ASSUME NEW bytes, NEW from, NEW len, Loaded(bytes, from, len), NEW byte
    PROVE  find(bytes, from, len, byte) = Min({len} \cup Hopeful(bytes, from, len, {byte}))
<1> DEFINE C == Hopeful(bytes, from, len, {byte})
           Hits(i) == {k \in 0 .. Width - 1 : Load(bytes, from + i)[k] = byte}
           In(i) == {k \in 0 .. Width - 1 : i + k \in C}
           h == [i \in Blocks(len) |-> FirstHit(In(i))]
           B == {i \in Blocks(len) : Hits(i) # {} /\ i + Min(Hits(i)) < len}
<1>1. Width \in Nat \ {0} /\ len \in Nat /\ C \in SUBSET (0 .. len - 1)
  BY WidthAssumption DEF Loaded, Hopeful
<1>2. FirstInBlock(len, C, h)
  <2>1. SUFFICES ASSUME NEW i \in Blocks(len)
                 PROVE  /\ FirstHit(In(i)) \in 0 .. Width
                        /\ (\E c \in C : i <= c /\ c < i + Width) => FirstHit(In(i)) < Width
                        /\ FirstHit(In(i)) < Width =>
                               i + FirstHit(In(i)) \in C /\ \A c \in C : c >= i => i + FirstHit(In(i)) <= c
    BY DEF FirstInBlock
  <2>2. In(i) \in SUBSET (0 .. Width - 1) /\ \A k \in 0 .. Width - 1 : k \in In(i) <=> i + k \in C
    OBVIOUS
  <2> HIDE DEF In, C
  <2> QED
    BY <1>1, <2>2, FirstHitInBlock
<1>3. ASSUME NEW i \in Blocks(len)
      PROVE  /\ (Hits(i) # {} /\ i + Min(Hits(i)) < len) <=> h[i] < Width
             /\ h[i] < Width => Min(Hits(i)) = h[i]
  <2>1. i \in 0 .. len - 1 /\ h[i] = FirstHit(In(i))
    BY <1>1, BlockNumbers
  <2>2. ASSUME NEW k \in 0 .. Width - 1 PROVE k \in In(i) <=> k \in Hits(i) /\ i + k < len
    <3>1. Load(bytes, from + i)[k] = bytes[from + (i + k)]
      BY LoadIs
    <3>2. i + k \in 0 .. len - 1 <=> i + k < len
      BY <1>1, <2>1
    <3> QED
      BY <3>1, <3>2 DEF Hopeful
  <2>3. Hits(i) \in SUBSET (0 .. Width - 1) /\ Hits(i) \in SUBSET Nat /\ In(i) \in SUBSET (0 .. Width - 1)
    BY <1>1
  <2> HIDE DEF Hits, In, h, C
  <2>4. In(i) = {} => FirstHit(In(i)) = Width
    BY <2>3, FirstHitIs
  <2>5. CASE Hits(i) = {}
    <3>1. In(i) = {}
      BY <2>2, <2>3, <2>5
    <3> QED
      BY <1>1, <2>1, <2>4, <2>5, <3>1
  <2>6. CASE Hits(i) # {}
    <3>1. PICK m \in Hits(i) : Min(Hits(i)) = m /\ \A k \in Hits(i) : m <= k
      <4>1. PICK m \in Hits(i) : \A k \in Hits(i) : m <= k
        BY <2>3, <2>6, LeastNumber
      <4> QED
        BY <2>3, <4>1, MinIs
    <3>2. m \in 0 .. Width - 1
      BY <2>3
    <3>3. CASE i + m < len
      <4>1. m \in In(i) /\ \A k \in In(i) : m <= k
        BY <2>2, <2>3, <3>1, <3>2, <3>3
      <4>2. Min(In(i)) = m
        <5>1. In(i) \in SUBSET Nat
          BY <1>1, <2>3
        <5> QED
          BY <4>1, <5>1, MinIs
      <4>3. FirstHit(In(i)) = m /\ m < Width
        BY <1>1, <3>2, <4>1, <4>2 DEF FirstHit
      <4> QED
        BY <2>1, <2>6, <3>1, <3>3, <4>3
    <3>4. CASE ~(i + m < len)
      <4>1. In(i) = {}
        <5>1. ASSUME NEW k \in In(i) PROVE FALSE
          <6>1. k \in 0 .. Width - 1 /\ k \in Hits(i) /\ i + k < len
            BY <2>2, <2>3
          <6>2. m <= k
            BY <3>1, <6>1
          <6> QED
            BY <1>1, <2>1, <3>2, <3>4, <6>1, <6>2
        <5> QED
          BY <5>1
      <4> QED
        BY <1>1, <2>1, <2>4, <3>1, <3>4, <4>1
    <3> QED
      BY <3>3, <3>4
  <2> QED
    BY <2>5, <2>6
<1>4. B = HitBlocks(len, h)
  <2> HIDE DEF Hits, h
  <2> QED
    BY <1>3 DEF HitBlocks
<1>5. find(bytes, from, len, byte) = IF B = {} THEN len ELSE Min(B) + Min(Hits(Min(B)))
  BY DEF find
<1> HIDE DEF C, Hits, h, B
<1>6. C \in SUBSET Nat /\ \A c \in C : c < len
  BY <1>1
<1>7. CASE B = {}
  <2>1. C = {}
    BY <1>1, <1>2, <1>4, <1>7, FirstBlock
  <2>2. Min({len} \cup C) = len
    BY <1>1, <1>6, <2>1, MinWithEnd
  <2> QED
    BY <1>5, <1>7, <2>2 DEF C
<1>8. CASE B # {}
  <2>1. C # {} /\ Min(B) \in B /\ Min(B) + h[Min(B)] = Min(C)
    BY <1>1, <1>2, <1>4, <1>8, FirstBlock
  <2>2. Min(B) \in Blocks(len) /\ h[Min(B)] < Width
    BY <1>4, <2>1 DEF HitBlocks
  <2>3. Min(Hits(Min(B))) = h[Min(B)]
    BY <1>3, <2>2
  <2>4. Min({len} \cup C) = Min(C)
    BY <1>1, <1>6, <2>1, MinWithEnd
  <2> QED
    BY <1>5, <1>8, <2>1, <2>3, <2>4 DEF C
<1> QED
  BY <1>7, <1>8

(* What AnalyzeRegex() has chosen fits into one vector register.                      *)
TableFits(bytes) ==
    LET table == ConstructCodeUnitTable(bytes)
        pairs == ConstructRangePairTable(table)
    IN IF UsesRangePairs(table, pairs) THEN 2 * Len(pairs) <= Width ELSE Len(table) <= Width

(* Whichever search is chosen finds the first of the bytes.                            *)
LEMMA CandidateFound ==
    ASSUME NEW bytes, NEW from, NEW len, Loaded(bytes, from, len),
           NEW members \in SUBSET Nat, IsFiniteSet(members), TableFits(members)
    PROVE  FirstCandidate(bytes, from, len, members)
               = Min({len} \cup Hopeful(bytes, from, len, members))
<1> DEFINE table == Sorted(members)
           pairs == ConstructRangePairTable(table)
           C == Hopeful(bytes, from, len, members)
           k == Cardinality(members)
<1>1. /\ k \in Nat /\ DOMAIN table = 1 .. k /\ Len(table) = k /\ table \in Seq(members)
      /\ \A n \in 1 .. k : table[n] \in members
      /\ \A b \in members : \E n \in 1 .. k : table[n] = b
  BY SortedIs
<1>2. /\ Len(pairs) \in Nat /\ DOMAIN pairs = 1 .. Len(pairs)
      /\ \A n \in DOMAIN pairs : pairs[n] \in Nat \X Nat
      /\ \A v : (\E n \in DOMAIN pairs : v \in pairs[n][1] .. pairs[n][2]) <=> v \in members
  BY RangesCover
<1>3. pairs \in Seq(Nat \X Nat)
  <2>1. pairs = [n \in 1 .. Len(pairs) |-> pairs[n]]
    BY <1>2 DEF ConstructRangePairTable
  <2> HIDE DEF pairs
  <2> QED
    BY <1>2, <2>1
<1>4. ToSet(table) = members
  <2> HIDE DEF table, k
  <2> QED
    BY <1>1 DEF ToSet
<1>5. Width \in Nat \ {0} /\ len \in Nat
  BY WidthAssumption DEF Loaded
<1>6. CASE UsesRangePairs(table, pairs)
  <2>1. 2 * Len(pairs) <= Width
    BY <1>6 DEF TableFits, ConstructCodeUnitTable
  <2>2. FirstCandidate(bytes, from, len, members) = find_first_in_ranges(bytes, from, len, pairs)
    BY <1>6 DEF FirstCandidate, ConstructCodeUnitTable
  <2> HIDE DEF pairs, table
  <2>3. PICK l \in Nat : l = Len(pairs)
    <3>1. Len(pairs) \in Nat
      BY ONLY <1>2
    <3> QED
      BY ONLY <3>1
  <2>4. Cover(pairs, members)
    BY <1>2 DEF Cover
  <2>5. Loaded(bytes, from, len)
    OBVIOUS
  <2>6. find_first_in_ranges(bytes, from, len, pairs)
            = Min({len} \cup Hopeful(bytes, from, len, members))
    BY ONLY <1>3, <2>1, <2>3, <2>4, <2>5, RangesFind
  <2> QED
    BY <2>2, <2>6
<1>7. CASE ~UsesRangePairs(table, pairs)
  <2>1. Len(table) <= Width
    BY <1>7 DEF TableFits, ConstructCodeUnitTable
  <2>2. FirstCandidate(bytes, from, len, members) = FindFirstPossibleCodeUnit(bytes, from, len, table)
    BY <1>7 DEF FirstCandidate, ConstructCodeUnitTable
  <2> HIDE DEF pairs, table, k
  <2>3. CASE k > 1
    <3>1. k \in 1 .. Width /\ table \in Seq(Nat)
      <4>1. \A n \in 1 .. k : table[n] \in Nat
        BY <1>1
      <4>2. table = [n \in 1 .. k |-> table[n]]
        BY <1>1
      <4>3. k \in 1 .. Width
        BY <1>1, <1>5, <2>1, <2>3
      <4> QED
        BY <1>1, <4>1, <4>2, <4>3
    <3>2. find_first_of(bytes, from, len, table) = Min({len} \cup C)
      BY <1>1, <1>4, <3>1, TableFinds
    <3>3. FindFirstPossibleCodeUnit(bytes, from, len, table) = find_first_of(bytes, from, len, table)
      BY <1>1, <2>3 DEF FindFirstPossibleCodeUnit
    <3> QED
      BY <2>2, <3>2, <3>3
  <2>4. CASE k = 1
    <3>1. members = {table[1]}
      <4>1. table[1] \in members
        BY <1>1, <2>4
      <4>2. ASSUME NEW b \in members PROVE b = table[1]
        <5>1. PICK n \in 1 .. k : table[n] = b
          BY <1>1
        <5>2. n = 1
          BY <2>4
        <5> QED
          BY <5>1, <5>2
      <4> QED
        BY <4>1, <4>2
    <3>2. FindFirstPossibleCodeUnit(bytes, from, len, table) = find(bytes, from, len, table[1])
      BY <1>1, <2>4 DEF FindFirstPossibleCodeUnit
    <3>3. find(bytes, from, len, table[1]) = Min({len} \cup C)
      BY <3>1, ByteFinds
    <3> QED
      BY <2>2, <3>2, <3>3
  <2>5. CASE k = 0
    <3>1. members = {}
      BY <1>1, <2>5
    <3>2. C = {}
      BY <3>1 DEF Hopeful
    <3>3. FindFirstPossibleCodeUnit(bytes, from, len, table) = len
      BY <1>1, <2>5 DEF FindFirstPossibleCodeUnit
    <3>4. Min({len} \cup C) = len
      BY <1>5, <3>2, MinWithEnd
    <3> QED
      BY <2>2, <3>3, <3>4
  <2> QED
    BY <1>1, <2>3, <2>4, <2>5
<1> QED
  BY <1>6, <1>7

(* Offsets counted from an address, and the addresses.                                *)
Shifted(C, T, from, len) == \A o \in 0 .. len - 1 : o \in C <=> from + o \in T

LEMMA MinShifted ==
    ASSUME NEW from \in Nat, NEW len \in Nat, NEW C \in SUBSET (0 .. len - 1),
           NEW T \in SUBSET (from .. from + len - 1), Shifted(C, T, from, len)
    PROVE  from + Min({len} \cup C) = Min({from + len} \cup T)
<1>1. C \in SUBSET Nat /\ (\A c \in C : c < len) /\ T \in SUBSET Nat /\ \A t \in T : t < from + len
  OBVIOUS
<1>2. \A t \in T : t - from \in C /\ from + (t - from) = t
  <2>1. ASSUME NEW t \in T PROVE t - from \in 0 .. len - 1 /\ from + (t - from) = t
    OBVIOUS
  <2> QED
    BY <2>1 DEF Shifted
<1>3. CASE C = {}
  <2>1. T = {}
    BY <1>2, <1>3
  <2>2. Min({len} \cup C) = len
    BY <1>1, <1>3, MinWithEnd
  <2>3. Min({from + len} \cup T) = from + len
    <3>1. from + len \in Nat
      OBVIOUS
    <3> QED
      BY <1>1, <2>1, <3>1, MinWithEnd
  <2> QED
    BY <2>2, <2>3
<1>4. CASE C # {}
  <2>1. PICK m \in C : m = Min({len} \cup C) /\ \A c \in C : m <= c
    BY <1>1, <1>4, MinWithEnd
  <2>2. from + m \in T /\ \A t \in T : from + m <= t
    <3>1. m \in 0 .. len - 1
      OBVIOUS
    <3>2. ASSUME NEW t \in T PROVE from + m <= t
      <4>1. m <= t - from
        BY <1>2, <2>1
      <4> QED
        BY <1>2, <3>1, <4>1
    <3> QED
      BY <3>1, <3>2 DEF Shifted
  <2>3. Min(T) = from + m
    BY <1>1, <2>2, MinIs
  <2>4. Min({from + len} \cup T) = Min(T)
    <3>1. from + len \in Nat /\ T # {}
      BY <2>2
    <3> QED
      BY <1>1, <3>1, MinWithEnd
  <2> QED
    BY <2>1, <2>3, <2>4
<1> QED
  BY <1>3, <1>4

(* Every table that a pattern has fits into one vector register.                        *)
TablesFit == \A table \in Tables : TableFits(table)

(* What the search with a table of first bytes relies on: in the buffer, whatever the lengths of *)
(* file and vector, the regex engine is started at the first byte of the file, from any offset *)
(* on, that is in the table, although the table is searched as ranges, in vectors and across *)
(* the end of the file.  (With a table of several vectors it is not so.)              *)
THEOREM FirstCandidatesAreFound ==
    OneReadSuffices /\ TablesFit => (BufferSpec => []FirstCandidateIsFirst)
<1> SUFFICES ASSUME OneReadSuffices, TablesFit PROVE BufferSpec => []FirstCandidateIsFirst
  OBVIOUS
<1>1. IInv => FirstCandidateIsFirst
  <2> SUFFICES ASSUME IInv, Scanning, NEW table \in Tables, NEW from \in 0 .. size - 1
               PROVE  from + FirstCandidate(mem, from, size - from, table) =
                      Min({size} \cup M!Candidates(file.data, [search |-> "table", table |-> table], from))
    BY DEF FirstCandidateIsFirst
  <2> DEFINE len == size - from
             C == Hopeful(mem, from, len, table)
             T == {i \in from .. (Len(file.data) - 1) : file.data[i + 1] \in table}
  <2>1. /\ size \in Nat /\ Len(file.data) = size /\ Width \in Nat
        /\ \A a \in 0 .. size + Width - 1 : a \in DOMAIN mem
        /\ \A a \in 0 .. size - 1 : mem[a] = file.data[a + 1]
    BY FileInBuffer, WidthAssumption DEF size
  <2>2. from \in Nat /\ len \in Nat /\ from + len = size
    BY <2>1
  <2>3. Loaded(mem, from, len)
    <3>1. \A a \in from .. from + len + Width - 1 : a \in 0 .. size + Width - 1
      BY <2>1, <2>2
    <3> QED
      BY <2>1, <2>2, <3>1 DEF Loaded
  <2>4. M!Candidates(file.data, [search |-> "table", table |-> table], from) = T
    BY DEF M!Candidates, M!Byte
  <2>5. C \in SUBSET (0 .. len - 1) /\ T \in SUBSET (from .. from + len - 1)
    BY <2>1, <2>2 DEF Hopeful
  <2>6. ASSUME NEW o \in 0 .. len - 1 PROVE o \in C <=> from + o \in T
    <3>1. from + o \in 0 .. size - 1 /\ from + o \in from .. Len(file.data) - 1
      BY <2>1, <2>2
    <3>2. mem[from + o] = file.data[(from + o) + 1]
      BY <2>1, <3>1
    <3> QED
      BY <3>1, <3>2 DEF Hopeful
  <2>7. table \in SUBSET Nat /\ IsFiniteSet(table) /\ TableFits(table)
    BY FileBufferAssumption DEF TablesFit
  <2>8. FirstCandidate(mem, from, len, table) = Min({len} \cup C)
    BY <2>3, <2>7, CandidateFound
  <2>9. Shifted(C, T, from, len)
    BY <2>6 DEF Shifted
  <2> HIDE DEF C, T
  <2>10. from + Min({len} \cup C) = Min({from + len} \cup T)
    <3> HIDE DEF len
    <3> QED
      BY ONLY <2>2, <2>5, <2>9, MinShifted
  <2> QED
    BY <2>2, <2>4, <2>8, <2>10
<1> QED
  BY <1>1, BufferInvariant, PTL

-----------------------------------------------------------------------------
(* The table of extensions                                                   *)

(* N steps in S from a, one after the other.                                     *)
Steps(N, S) == [1 .. N -> [S -> S]]
Follows(g, N, S, a, step) ==
    /\ g \in [0 .. N -> S] /\ g[0] = a
    /\ \A n \in 1 .. N : g[n] = step[n][g[n - 1]]

LEMMA StepByStep ==
    ASSUME NEW N \in Nat, NEW S, NEW a \in S, NEW step, step \in Steps(N, S)
    PROVE  \E g : Follows(g, N, S, a, step)
<1> USE DEF Steps, Follows
<1> DEFINE Solves(g, k) == Follows(g, k, S, a, step)
           bad == {k \in 0 .. N : ~ \E g : Solves(g, k)}
<1>1. bad = {}
  <2> SUFFICES ASSUME bad # {} PROVE FALSE
    OBVIOUS
  <2>1. PICK k \in bad : \A m \in bad : k <= m
    <3>1. bad \in SUBSET Nat
      OBVIOUS
    <3> HIDE DEF bad
    <3> QED
      BY <3>1, LeastNumber
  <2>2. k \in 0 .. N /\ ~ \E g : Solves(g, k)
    OBVIOUS
  <2>3. CASE k = 0
    <3>1. Solves([n \in 0 .. 0 |-> a], 0)
      OBVIOUS
    <3> HIDE DEF Solves
    <3> QED
      BY <2>2, <2>3, <3>1
  <2>4. CASE k # 0
    <3>1. k - 1 \in 0 .. N /\ k - 1 < k /\ k \in 1 .. N
      BY <2>2, <2>4
    <3>2. k - 1 \notin bad
      <4> HIDE DEF bad
      <4> QED
        BY <2>1, <2>2, <3>1
    <3>3. PICK g : Solves(g, k - 1)
      BY <3>1, <3>2
    <3> DEFINE h == [n \in 0 .. k |-> IF n = k THEN step[k][g[k - 1]] ELSE g[n]]
    <3>4. g[k - 1] \in S /\ step[k][g[k - 1]] \in S
      <4>1. k - 1 \in 0 .. k - 1
        BY <3>1
      <4> QED
        BY <3>1, <3>3, <4>1
    <3>5. \A n \in 0 .. k : n # k => n \in 0 .. k - 1
      BY <2>2
    <3>6. h \in [0 .. k -> S]
      BY <3>3, <3>4, <3>5
    <3>7. h[0] = a
      BY <2>2, <2>4, <3>3
    <3>8. ASSUME NEW n \in 1 .. k PROVE h[n] = step[n][h[n - 1]]
      <4>1. n - 1 \in 0 .. k /\ n - 1 # k /\ n \in 0 .. k /\ (n # k => n \in 1 .. k - 1)
        BY <2>2
      <4>2. h[n - 1] = g[n - 1]
        BY <4>1
      <4> QED
        BY <3>3, <4>1, <4>2
    <3>9. Solves(h, k)
      BY <3>6, <3>7, <3>8
    <3> HIDE DEF Solves
    <3> QED
      BY <2>2, <3>9
  <2> QED
    BY <2>3, <2>4
<1>2. N \in 0 .. N /\ N \notin bad
  <2> HIDE DEF bad
  <2> QED
    BY <1>1
<1> HIDE DEF Solves
<1>3. \E g : Solves(g, N)
  BY <1>2
<1> QED
  BY <1>3 DEF Solves

(* A step cannot have two results, so the steps from a lead to one place.               *)
SameSteps(g, h, N) == g[0] = h[0] /\ \A n \in 1 .. N : g[n - 1] = h[n - 1] => g[n] = h[n]

LEMMA StepsAgree ==
    ASSUME NEW N \in Nat, NEW g, NEW h, SameSteps(g, h, N)
    PROVE  \A n \in 0 .. N : g[n] = h[n]
<1> DEFINE bad == {n \in 0 .. N : g[n] # h[n]}
<1> SUFFICES ASSUME bad # {} PROVE FALSE
  OBVIOUS
<1>1. PICK k \in bad : \A m \in bad : k <= m
  <2>1. bad \in SUBSET Nat
    OBVIOUS
  <2> HIDE DEF bad
  <2> QED
    BY <2>1, LeastNumber
<1>2. k \in 1 .. N /\ k - 1 \in 0 .. N /\ k - 1 < k
  BY DEF SameSteps
<1>3. k - 1 \notin bad
  BY <1>1, <1>2
<1> QED
  BY <1>2, <1>3 DEF SameSteps

Digits == 0 .. Base - 1

LEMMA DigitLast ==
    ASSUME NEW q \in Nat, NEW r \in Digits
    PROVE  /\ (q * Base) + r \in Nat
           /\ ((q * Base) + r) \div Base = q /\ ((q * Base) + r) % Base = r
<1>1. Base \in Nat \ {0}
  BY ExtensionTableAssumption
<1>2. ((q * Base) + r) % Base = r
  BY <1>1 DEF Digits
<1>3. ((q * Base) + r) \div Base = q
  BY <1>1 DEF Digits
<1>4. (q * Base) + r \in Nat
  BY <1>1 DEF Digits
<1> QED
  BY <1>2, <1>3, <1>4

(* The recursions of Number() and ByteOf(), with h for what they return.                *)
NumberStep(h, bytes) ==
    [n \in 0 .. MaxSize |-> IF n = 0 THEN 0 ELSE h[n - 1] * Base + bytes[MaxSize - n]]
HighestOf(bytes) == CHOOSE h : h = NumberStep(h, bytes)

WithoutStep(h, x) == [n \in 0 .. MaxSize |-> IF n = 0 THEN x ELSE h[n - 1] \div Base]
WithoutOf(x) == CHOOSE h : h = WithoutStep(h, x)

Storage == [0 .. MaxSize - 1 -> Digits]

LEMMA NumberIs ==
    ASSUME NEW bytes \in Storage
    PROVE  LET g == HighestOf(bytes)
           IN /\ g \in [0 .. MaxSize -> Nat] /\ g[0] = 0
              /\ \A n \in 1 .. MaxSize : g[n] = (g[n - 1] * Base) + bytes[MaxSize - n]
              /\ Number(bytes) = g[MaxSize]
<1>1. MaxSize \in Nat \ {0} /\ Base \in Nat \ {0}
  BY ExtensionTableAssumption
<1>2. \A n \in 1 .. MaxSize : n - 1 \in 0 .. MaxSize /\ MaxSize - n \in 0 .. MaxSize - 1
  BY <1>1
<1>3. \A n \in 1 .. MaxSize : bytes[MaxSize - n] \in Digits
  BY <1>2 DEF Storage
<1> DEFINE step == [n \in 1 .. MaxSize |-> [y \in Nat |-> (y * Base) + bytes[MaxSize - n]]]
<1>4. step \in [1 .. MaxSize -> [Nat -> Nat]]
  <2>1. ASSUME NEW n \in 1 .. MaxSize, NEW y \in Nat PROVE (y * Base) + bytes[MaxSize - n] \in Nat
    BY <1>3, DigitLast
  <2> QED
    BY <2>1
<1>5. PICK g : Follows(g, MaxSize, Nat, 0, step)
  <2>1. MaxSize \in Nat /\ 0 \in Nat /\ step \in Steps(MaxSize, Nat)
    BY <1>1, <1>4 DEF Steps
  <2> HIDE DEF step
  <2> QED
    BY ONLY <2>1, StepByStep
<1>6. \A n \in 1 .. MaxSize : g[n] = (g[n - 1] * Base) + bytes[MaxSize - n]
  <2>1. \A n \in 1 .. MaxSize : g[n - 1] \in Nat
    BY <1>2, <1>5 DEF Follows
  <2> QED
    BY <1>5, <2>1 DEF Follows
<1>7. g = NumberStep(g, bytes)
  <2>1. \A n \in 0 .. MaxSize : n # 0 => n \in 1 .. MaxSize
    BY <1>1
  <2>2. \A n \in 0 .. MaxSize : g[n] = IF n = 0 THEN 0 ELSE (g[n - 1] * Base) + bytes[MaxSize - n]
    BY <1>5, <1>6, <2>1 DEF Follows
  <2> QED
    BY <1>5, <2>2 DEF NumberStep, Follows
<1> DEFINE h == HighestOf(bytes)
<1>8. h = NumberStep(h, bytes)
  BY <1>7 DEF HighestOf
<1>9. h = [n \in 0 .. MaxSize |-> h[n]] /\ h[0] = 0
      /\ \A n \in 1 .. MaxSize : h[n] = (h[n - 1] * Base) + bytes[MaxSize - n]
  <2> HIDE DEF h
  <2>1. \A n \in 1 .. MaxSize : n # 0 /\ n \in 0 .. MaxSize
    BY <1>1
  <2>2. 0 \in 0 .. MaxSize
    BY <1>1
  <2> QED
    BY <1>8, <2>1, <2>2 DEF NumberStep
<1>10. \A n \in 0 .. MaxSize : h[n] = g[n]
  <2> HIDE DEF h
  <2>1. SameSteps(h, g, MaxSize)
    BY <1>5, <1>6, <1>9 DEF SameSteps, Follows
  <2> QED
    BY ONLY <1>1, <2>1, StepsAgree
<1>11. h \in [0 .. MaxSize -> Nat]
  <2> HIDE DEF h
  <2> QED
    BY <1>5, <1>9, <1>10 DEF Follows
<1>12. Number(bytes) = h[MaxSize]
  BY DEF Number, HighestOf, NumberStep
<1> QED
  BY <1>9, <1>11, <1>12

LEMMA WithoutIs ==
    ASSUME NEW x \in Nat
    PROVE  LET w == WithoutOf(x)
           IN /\ w \in [0 .. MaxSize -> Nat] /\ w[0] = x
              /\ \A n \in 1 .. MaxSize : w[n] = w[n - 1] \div Base
              /\ \A i : ByteOf(x, i) = w[i] % Base
<1>1. MaxSize \in Nat \ {0} /\ Base \in Nat \ {0}
  BY ExtensionTableAssumption
<1>2. \A n \in 1 .. MaxSize : n - 1 \in 0 .. MaxSize
  BY <1>1
<1> DEFINE step == [n \in 1 .. MaxSize |-> [y \in Nat |-> y \div Base]]
<1>3. step \in [1 .. MaxSize -> [Nat -> Nat]]
  <2>1. ASSUME NEW y \in Nat PROVE y \div Base \in Nat
    BY <1>1
  <2> QED
    BY <2>1
<1>4. PICK g : Follows(g, MaxSize, Nat, x, step)
  <2>1. MaxSize \in Nat /\ x \in Nat /\ step \in Steps(MaxSize, Nat)
    BY <1>1, <1>3 DEF Steps
  <2> HIDE DEF step
  <2> QED
    BY ONLY <2>1, StepByStep
<1>5. \A n \in 1 .. MaxSize : g[n] = g[n - 1] \div Base
  <2>1. \A n \in 1 .. MaxSize : g[n - 1] \in Nat
    BY <1>2, <1>4 DEF Follows
  <2> QED
    BY <1>4, <2>1 DEF Follows
<1>6. g = WithoutStep(g, x)
  <2>1. \A n \in 0 .. MaxSize : n # 0 => n \in 1 .. MaxSize
    BY <1>1
  <2>2. \A n \in 0 .. MaxSize : g[n] = IF n = 0 THEN x ELSE g[n - 1] \div Base
    BY <1>4, <1>5, <2>1 DEF Follows
  <2> QED
    BY <1>4, <2>2 DEF WithoutStep, Follows
<1> DEFINE h == WithoutOf(x)
<1>7. h = WithoutStep(h, x)
  BY <1>6 DEF WithoutOf
<1>8. h = [n \in 0 .. MaxSize |-> h[n]] /\ h[0] = x
      /\ \A n \in 1 .. MaxSize : h[n] = h[n - 1] \div Base
  <2> HIDE DEF h
  <2>1. \A n \in 1 .. MaxSize : n # 0 /\ n \in 0 .. MaxSize
    BY <1>1
  <2>2. 0 \in 0 .. MaxSize
    BY <1>1
  <2> QED
    BY <1>7, <2>1, <2>2 DEF WithoutStep
<1>9. \A n \in 0 .. MaxSize : h[n] = g[n]
  <2> HIDE DEF h
  <2>1. SameSteps(h, g, MaxSize)
    BY <1>4, <1>5, <1>8 DEF SameSteps, Follows
  <2> QED
    BY ONLY <1>1, <2>1, StepsAgree
<1>10. h \in [0 .. MaxSize -> Nat]
  <2> HIDE DEF h
  <2> QED
    BY <1>4, <1>8, <1>9 DEF Follows
<1>11. \A i : ByteOf(x, i) = h[i] % Base
  BY DEF ByteOf, WithoutOf, WithoutStep
<1> QED
  BY <1>8, <1>10, <1>11

(* The bytes can be had back from the number.                                     *)
LEMMA BytesOfNumber ==
    ASSUME NEW bytes \in Storage
    PROVE  /\ Number(bytes) \in Nat
           /\ \A i \in 0 .. MaxSize - 1 : ByteOf(Number(bytes), i) = bytes[i]
<1> DEFINE x == Number(bytes)
           g == HighestOf(bytes)
           w == WithoutOf(x)
<1>1. MaxSize \in Nat \ {0}
  BY ExtensionTableAssumption
<1>2. /\ g \in [0 .. MaxSize -> Nat] /\ x = g[MaxSize]
      /\ \A n \in 1 .. MaxSize : g[n] = (g[n - 1] * Base) + bytes[MaxSize - n]
  BY NumberIs
<1>3. x \in Nat
  <2> HIDE DEF g, x
  <2> QED
    BY <1>1, <1>2
<1>4. /\ w[0] = x /\ \A n \in 1 .. MaxSize : w[n] = w[n - 1] \div Base
      /\ \A i : ByteOf(x, i) = w[i] % Base
  <2> HIDE DEF x
  <2> QED
    BY <1>3, WithoutIs
<1> HIDE DEF g, w, x
<1>5. ASSUME NEW n \in 1 .. MaxSize
      PROVE  g[n] \div Base = g[n - 1] /\ g[n] % Base = bytes[MaxSize - n]
  <2>1. PICK q \in Nat : q = g[n - 1]
    <3>1. n - 1 \in 0 .. MaxSize
      BY <1>1
    <3> QED
      BY <1>2, <3>1
  <2>2. PICK r \in Digits : r = bytes[MaxSize - n]
    <3>1. MaxSize - n \in 0 .. MaxSize - 1
      BY <1>1
    <3> QED
      BY <3>1 DEF Storage
  <2>3. g[n] = (q * Base) + r
    BY <1>2, <2>1, <2>2
  <2> QED
    BY <2>1, <2>2, <2>3, DigitLast
<1> DEFINE shown == [n \in 0 .. MaxSize |-> g[MaxSize - n]]
<1>6. \A n \in 0 .. MaxSize : w[n] = shown[n]
  <2>1. w[0] = shown[0]
    BY <1>1, <1>2, <1>4
  <2>2. ASSUME NEW n \in 1 .. MaxSize, w[n - 1] = shown[n - 1] PROVE w[n] = shown[n]
    <3>1. PICK m \in 1 .. MaxSize : m = MaxSize - (n - 1)
      BY <1>1
    <3>2. /\ n \in 0 .. MaxSize /\ n - 1 \in 0 .. MaxSize
          /\ MaxSize - n = m - 1 /\ MaxSize - (n - 1) = m
      BY <1>1, <3>1
    <3>3. shown[n - 1] = g[m] /\ shown[n] = g[m - 1]
      BY <3>2
    <3> QED
      BY <1>4, <1>5, <2>2, <3>3
  <2>3. SameSteps(w, shown, MaxSize)
    <3> HIDE DEF shown
    <3> QED
      BY <2>1, <2>2 DEF SameSteps
  <2> HIDE DEF shown
  <2> QED
    BY <1>1, <2>3, StepsAgree
<1>7. ASSUME NEW i \in 0 .. MaxSize - 1 PROVE ByteOf(x, i) = bytes[i]
  <2>1. PICK m \in 1 .. MaxSize : m = MaxSize - i
    BY <1>1
  <2>2. i \in 0 .. MaxSize /\ MaxSize - m = i
    BY <1>1, <2>1
  <2>3. w[i] = g[m]
    BY <1>6, <2>1, <2>2
  <2> QED
    BY <1>4, <1>5, <2>2, <2>3
<1> QED
  BY <1>3, <1>7 DEF x

StorageOf(s) == [i \in 0 .. MaxSize - 1 |-> IF i < Len(s) THEN s[i + 1] ELSE 0]

(* A microstring has the bytes of the string, the first of them as the most significant.    *)
LEMMA MicrostringIs ==
    ASSUME NEW s \in Extensions, ~TooLong(s)
    PROVE  /\ StorageOf(s) \in Storage /\ Microstring(s) \in Nat
           /\ \A i \in 0 .. MaxSize - 1 : ByteOf(Microstring(s), MaxSize - 1 - i) = StorageOf(s)[i]
<1>1. MaxSize \in Nat \ {0} /\ Base \in Nat \ {0} /\ s \in Seq(1 .. Base - 1)
  BY ExtensionTableAssumption
<1>2. StorageOf(s) \in Storage
  <2>1. ASSUME NEW i \in 0 .. MaxSize - 1 PROVE (IF i < Len(s) THEN s[i + 1] ELSE 0) \in Digits
    <3>1. CASE i < Len(s)
      <4>1. i + 1 \in 1 .. Len(s)
        BY <1>1, <3>1
      <4>2. s[i + 1] \in 1 .. Base - 1
        BY <1>1, <4>1
      <4> QED
        BY <1>1, <3>1, <4>2 DEF Digits
    <3>2. CASE ~(i < Len(s))
      BY <1>1, <3>2 DEF Digits
    <3> QED
      BY <3>1, <3>2
  <2> QED
    BY <2>1 DEF StorageOf, Storage
<1> DEFINE x == Number(StorageOf(s))
           swapped == [i \in 0 .. MaxSize - 1 |-> ByteOf(x, MaxSize - 1 - i)]
<1>3. \A i \in 0 .. MaxSize - 1 : ByteOf(x, i) = StorageOf(s)[i]
  BY <1>2, BytesOfNumber
<1>4. \A i \in 0 .. MaxSize - 1 : /\ MaxSize - 1 - i \in 0 .. MaxSize - 1
                                  /\ MaxSize - 1 - (MaxSize - 1 - i) = i
  BY <1>1
<1>5. swapped \in Storage
  <2> HIDE DEF x
  <2>1. ASSUME NEW i \in 0 .. MaxSize - 1 PROVE ByteOf(x, MaxSize - 1 - i) \in Digits
    <3>1. PICK k \in 0 .. MaxSize - 1 : k = MaxSize - 1 - i
      BY <1>4
    <3>2. ByteOf(x, k) \in Digits
      BY <1>2, <1>3, <3>1 DEF Storage
    <3> QED
      BY <3>1, <3>2
  <2> QED
    BY <2>1 DEF Storage
<1>6. Microstring(s) = Number(swapped)
  BY DEF Microstring, host_to_be, bswap, StorageOf
<1>7. Number(swapped) \in Nat /\ \A i \in 0 .. MaxSize - 1 : ByteOf(Number(swapped), i) = swapped[i]
  <2> HIDE DEF swapped
  <2> QED
    BY <1>5, BytesOfNumber
<1>8. ASSUME NEW i \in 0 .. MaxSize - 1
      PROVE  ByteOf(Microstring(s), MaxSize - 1 - i) = StorageOf(s)[i]
  <2>1. PICK k \in 0 .. MaxSize - 1 : k = MaxSize - 1 - i
    BY <1>4
  <2>2. swapped[k] = ByteOf(x, MaxSize - 1 - k) /\ MaxSize - 1 - k = i
    BY <1>4, <2>1
  <2> HIDE DEF swapped, x
  <2>3. ByteOf(Microstring(s), k) = StorageOf(s)[i]
    BY <1>3, <1>6, <1>7, <2>2
  <2> QED
    BY <2>1, <2>3
<1> QED
  BY <1>2, <1>6, <1>7, <1>8

(* No two extensions share an integer.                                            *)
LEMMA MicrostringsDiffer ==
    ASSUME NEW s \in Extensions, NEW t \in Extensions, ~TooLong(s), ~TooLong(t),
           Microstring(s) = Microstring(t)
    PROVE  s = t
<1>1. MaxSize \in Nat \ {0} /\ Base \in Nat /\ s \in Seq(1 .. Base - 1) /\ t \in Seq(1 .. Base - 1)
  BY ExtensionTableAssumption
<1>2. Len(s) \in 0 .. MaxSize /\ Len(t) \in 0 .. MaxSize
  BY <1>1 DEF TooLong
<1>3. \A i \in 0 .. MaxSize - 1 : StorageOf(s)[i] = StorageOf(t)[i]
  <2>1. ASSUME NEW i \in 0 .. MaxSize - 1 PROVE StorageOf(s)[i] = StorageOf(t)[i]
    <3>1. ByteOf(Microstring(s), MaxSize - 1 - i) = StorageOf(s)[i]
      BY MicrostringIs
    <3>2. ByteOf(Microstring(t), MaxSize - 1 - i) = StorageOf(t)[i]
      BY MicrostringIs
    <3> QED
      BY <3>1, <3>2
  <2> QED
    BY <2>1
<1>4. \A i \in 0 .. MaxSize - 1 :
        (IF i < Len(s) THEN s[i + 1] ELSE 0) = (IF i < Len(t) THEN t[i + 1] ELSE 0)
  BY <1>3 DEF StorageOf
<1>5. (\A j \in 1 .. Len(s) : s[j] >= 1) /\ \A j \in 1 .. Len(t) : t[j] >= 1
  <2>1. \A j \in 1 .. Len(s) : s[j] \in 1 .. Base - 1
    BY ONLY <1>1
  <2>2. \A j \in 1 .. Len(t) : t[j] \in 1 .. Base - 1
    BY ONLY <1>1
  <2> QED
    BY <1>1, <2>1, <2>2
<1>6. ~(Len(s) < Len(t))
  <2> SUFFICES ASSUME Len(s) < Len(t) PROVE FALSE
    OBVIOUS
  <2>1. PICK i \in 0 .. MaxSize - 1 : i = Len(s)
    BY <1>1, <1>2
  <2>2. i + 1 \in 1 .. Len(t) /\ i < Len(t) /\ ~(i < Len(s))
    BY <1>2, <2>1
  <2>3. t[i + 1] = 0
    BY <1>4, <2>2
  <2> QED
    BY <1>5, <2>2, <2>3
<1>7. ~(Len(t) < Len(s))
  <2> SUFFICES ASSUME Len(t) < Len(s) PROVE FALSE
    OBVIOUS
  <2>1. PICK i \in 0 .. MaxSize - 1 : i = Len(t)
    BY <1>1, <1>2
  <2>2. i + 1 \in 1 .. Len(s) /\ i < Len(s) /\ ~(i < Len(t))
    BY <1>2, <2>1
  <2>3. s[i + 1] = 0
    BY <1>4, <2>2
  <2> QED
    BY <1>5, <2>2, <2>3
<1>8. Len(s) = Len(t)
  BY <1>2, <1>6, <1>7
<1>9. ASSUME NEW j \in 1 .. Len(s) PROVE s[j] = t[j]
  <2>1. PICK i \in 0 .. MaxSize - 1 : i = j - 1
    BY <1>1, <1>2
  <2>2. i < Len(s) /\ i < Len(t) /\ i + 1 = j
    BY <1>2, <1>8, <2>1
  <2> QED
    BY <1>4, <2>2
<1> QED
  BY <1>1, <1>8, <1>9, SeqEqual

(* The place in the "n" elements from "first" on where those begin that are not smaller.     *)
IsPlace(v, x, first, n, r) ==
    /\ r \in first .. first + n
    /\ \A i \in first .. r - 1 : v[i] < x
    /\ r < first + n => ~(v[r] < x)
PlaceOf(v, x, first, n) == CHOOSE r : IsPlace(v, x, first, n, r)

Numbers(v) == DOMAIN v = 1 .. Len(v) /\ Len(v) \in Nat /\ \A i \in 1 .. Len(v) : v[i] \in Nat
Rising(v) == Numbers(v) /\ \A i, j \in 1 .. Len(v) : i < j => v[i] < v[j]

LEMMA PlaceIs ==
    ASSUME NEW v, NEW x \in Nat, NEW first \in Nat, NEW n \in Nat
    PROVE  IsPlace(v, x, first, n, PlaceOf(v, x, first, n))
<1> DEFINE S == {i \in first .. first + n : i < first + n => ~(v[i] < x)}
<1>1. S \in SUBSET Nat /\ first + n \in S
  OBVIOUS
<1>2. PICK r \in S : \A i \in S : r <= i
  <2> HIDE DEF S
  <2> QED
    BY <1>1, LeastNumber
<1>3. r \in first .. first + n /\ (r < first + n => ~(v[r] < x))
  BY DEF S
<1>4. ASSUME NEW i \in first .. r - 1 PROVE v[i] < x
  <2>1. i \in first .. first + n /\ i < first + n /\ ~(r <= i)
    BY <1>3
  <2>2. i \notin S
    <3> HIDE DEF S
    <3> QED
      BY <1>2, <2>1
  <2> QED
    BY <2>1, <2>2
<1>5. IsPlace(v, x, first, n, r)
  BY <1>3, <1>4 DEF IsPlace
<1> QED
  BY <1>5 DEF PlaceOf

LEMMA OnePlace ==
    ASSUME NEW v, NEW x \in Nat, NEW first \in Nat, NEW n \in Nat, NEW r, IsPlace(v, x, first, n, r)
    PROVE  PlaceOf(v, x, first, n) = r
<1> DEFINE p == PlaceOf(v, x, first, n)
<1>1. /\ p \in first .. first + n /\ (\A i \in first .. p - 1 : v[i] < x)
      /\ p < first + n => ~(v[p] < x)
  BY PlaceIs DEF IsPlace
<1>2. /\ r \in first .. first + n /\ (\A i \in first .. r - 1 : v[i] < x)
      /\ r < first + n => ~(v[r] < x)
  BY DEF IsPlace
<1> HIDE DEF p
<1>3. ~(p < r)
  <2> SUFFICES ASSUME p < r PROVE FALSE
    OBVIOUS
  <2>1. p \in first .. r - 1 /\ p < first + n
    BY <1>1, <1>2
  <2> QED
    BY <1>1, <1>2, <2>1
<1>4. ~(r < p)
  <2> SUFFICES ASSUME r < p PROVE FALSE
    OBVIOUS
  <2>1. r \in first .. p - 1 /\ r < first + n
    BY <1>1, <1>2
  <2> QED
    BY <1>1, <1>2, <2>1
<1> QED
  BY <1>1, <1>2, <1>3, <1>4 DEF p

(* One halving of binary_search(), with h for what the recursion returns.                 *)
Halves(h, v, x, n, first) ==
    LET half == n \div 2
    IN IF n = 0 THEN first
       ELSE IF v[first + half] < x THEN h[n - half - 1][first + half + 1]
       ELSE h[half][first]
HalvingStep(h, v, x) ==
    [n \in 0 .. Len(v) |-> [first \in 1 .. Len(v) + 1 - n |-> Halves(h, v, x, n, first)]]
LowerBoundOf(v, x) == CHOOSE h : h = HalvingStep(h, v, x)

(* Whichever half is taken, it has the place.                                      *)
LEMMA HalvesFind ==
    ASSUME NEW v, Rising(v), NEW x \in Nat, NEW h,
           NEW n \in 0 .. Len(v), NEW first \in 1 .. Len(v) + 1 - n,
           \A m \in 0 .. Len(v) : \A f \in 1 .. Len(v) + 1 - m :
               m < n => h[m][f] = PlaceOf(v, x, f, m)
    PROVE  Halves(h, v, x, n, first) = PlaceOf(v, x, first, n)
<1>1. /\ Len(v) \in Nat /\ n \in Nat /\ first \in Nat /\ first + n <= Len(v) + 1
      /\ n <= Len(v) /\ first >= 1
  BY DEF Rising, Numbers
<1>2. CASE n = 0
  <2>1. IsPlace(v, x, first, n, first)
    BY <1>1, <1>2 DEF IsPlace
  <2>2. PlaceOf(v, x, first, n) = first
    BY <1>1, <2>1, OnePlace
  <2> QED
    BY <1>2, <2>2 DEF Halves
<1>3. CASE n # 0
  <2>1. PICK half \in Nat : half = n \div 2 /\ half < n
    BY <1>1, <1>3
  <2>2. PICK mid \in 1 .. Len(v) : mid = first + half
    BY <1>1, <2>1
  <2>3. CASE v[mid] < x
    <3>1. PICK m \in 0 .. Len(v) : m = n - half - 1 /\ m < n
      <4>1. \A a, b, l \in Nat : b < a /\ a <= l => a - b - 1 \in 0 .. l /\ a - b - 1 < a
        OBVIOUS
      <4> QED
        BY ONLY <1>1, <2>1, <4>1
    <3>2. PICK f \in 1 .. Len(v) + 1 - m : f = mid + 1
      BY <1>1, <2>1, <2>2, <3>1
    <3> DEFINE r == PlaceOf(v, x, f, m)
    <3>3. IsPlace(v, x, f, m, r)
      BY <1>1, <3>1, <3>2, PlaceIs
    <3>4. m \in Nat /\ f \in Nat /\ f + m = first + n /\ first <= mid /\ f = mid + 1
      BY <1>1, <2>1, <2>2, <3>1, <3>2
    <3>5. r \in f .. f + m /\ (\A i \in f .. r - 1 : v[i] < x) /\ (r < f + m => ~(v[r] < x))
      BY <3>3 DEF IsPlace
    <3> HIDE DEF r
    <3>6. ASSUME NEW i \in first .. r - 1 PROVE v[i] < x
      <4>1. CASE i >= f
        <5>1. i \in f .. r - 1
          BY <3>4, <3>5, <4>1
        <5> QED
          BY <3>5, <5>1
      <4>2. CASE ~(i >= f)
        <5>1. i \in 1 .. Len(v) /\ i <= mid
          <6>1. i \in Nat /\ 1 <= i /\ i < mid + 1 /\ mid \in Nat /\ mid <= Len(v)
            BY <1>1, <2>2, <3>4, <3>5, <4>2
          <6> QED
            BY <1>1, <6>1
        <5>2. v[i] \in Nat /\ v[mid] \in Nat /\ (i < mid => v[i] < v[mid])
          BY <2>2, <5>1 DEF Rising, Numbers
        <5>3. i < mid \/ i = mid
          BY <2>2, <5>1
        <5> QED
          BY <2>3, <5>2, <5>3
      <4> QED
        BY <4>1, <4>2
    <3>7. IsPlace(v, x, first, n, r)
      <4>1. r \in first .. first + n
        BY <1>1, <3>4, <3>5
      <4> QED
        BY <3>4, <3>5, <3>6, <4>1 DEF IsPlace
    <3>8. PlaceOf(v, x, first, n) = r
      BY <1>1, <3>7, OnePlace
    <3>9. h[m][f] = r
      BY <3>1, <3>2 DEF r
    <3> QED
      BY <1>3, <2>1, <2>2, <2>3, <3>1, <3>2, <3>8, <3>9 DEF Halves
  <2>4. CASE ~(v[mid] < x)
    <3>1. half \in 0 .. Len(v) /\ first \in 1 .. Len(v) + 1 - half
      <4>1. \A l, a, b, c \in Nat :
              b < a /\ c >= 1 /\ a <= l /\ c + a <= l + 1 => b \in 0 .. l /\ c \in 1 .. l + 1 - b
        OBVIOUS
      <4> QED
        BY ONLY <1>1, <2>1, <4>1
    <3> DEFINE r == PlaceOf(v, x, first, half)
    <3>2. r \in first .. first + half /\ (\A i \in first .. r - 1 : v[i] < x) /\ (r < first + half => ~(v[r] < x))
      BY <1>1, PlaceIs DEF IsPlace
    <3> HIDE DEF r
    <3>3. r \in first .. first + n /\ ~(v[r] < x)
      BY <1>1, <2>1, <2>2, <2>4, <3>2
    <3>4. IsPlace(v, x, first, n, r)
      BY <3>2, <3>3 DEF IsPlace
    <3>5. PlaceOf(v, x, first, n) = r
      BY <1>1, <3>4, OnePlace
    <3>6. h[half][first] = r
      BY <2>1, <3>1 DEF r
    <3> QED
      BY <1>3, <2>1, <2>2, <2>4, <3>5, <3>6 DEF Halves
  <2> QED
    BY <2>3, <2>4
<1> QED
  BY <1>2, <1>3

(* So the recursion has a solution, and no other.                                   *)
LEMMA LowerBoundFinds ==
    ASSUME NEW v, Rising(v), NEW x \in Nat
    PROVE  LowerBoundOf(v, x)[Len(v)][1] = PlaceOf(v, x, 1, Len(v))
<1> DEFINE places == [n \in 0 .. Len(v) |-> [first \in 1 .. Len(v) + 1 - n |-> PlaceOf(v, x, first, n)]]
           h == LowerBoundOf(v, x)
<1>1. Len(v) \in Nat
  BY DEF Rising, Numbers
<1>2. places = HalvingStep(places, v, x)
  <2>1. ASSUME NEW n \in 0 .. Len(v), NEW first \in 1 .. Len(v) + 1 - n
        PROVE  Halves(places, v, x, n, first) = PlaceOf(v, x, first, n)
    <3>1. \A m \in 0 .. Len(v) : \A f \in 1 .. Len(v) + 1 - m :
            m < n => places[m][f] = PlaceOf(v, x, f, m)
      OBVIOUS
    <3> HIDE DEF places
    <3> QED
      BY <3>1, HalvesFind
  <2>2. HalvingStep(places, v, x) =
          [n \in 0 .. Len(v) |-> [first \in 1 .. Len(v) + 1 - n |-> Halves(places, v, x, n, first)]]
    BY DEF HalvingStep
  <2>3. ASSUME NEW n \in 0 .. Len(v)
        PROVE  [first \in 1 .. Len(v) + 1 - n |-> Halves(places, v, x, n, first)] =
               [first \in 1 .. Len(v) + 1 - n |-> PlaceOf(v, x, first, n)]
    <3> HIDE DEF places
    <3> QED
      BY <2>1
  <2>4. [n \in 0 .. Len(v) |-> [first \in 1 .. Len(v) + 1 - n |-> Halves(places, v, x, n, first)]] =
        [n \in 0 .. Len(v) |-> [first \in 1 .. Len(v) + 1 - n |-> PlaceOf(v, x, first, n)]]
    BY <2>3
  <2> QED
    BY <2>2, <2>4
<1>3. h = HalvingStep(h, v, x)
  <2> HIDE DEF places
  <2> QED
    BY <1>2 DEF LowerBoundOf
<1> HIDE DEF h, places
<1>4. \A n \in 0 .. Len(v) : \A first \in 1 .. Len(v) + 1 - n : h[n][first] = Halves(h, v, x, n, first)
  <2>1. \A n \in 0 .. Len(v) : \A first \in 1 .. Len(v) + 1 - n :
          HalvingStep(h, v, x)[n][first] = Halves(h, v, x, n, first)
    BY DEF HalvingStep
  <2> QED
    BY <1>3, <2>1
<1> DEFINE bad == {n \in 0 .. Len(v) :
                      \E first \in 1 .. Len(v) + 1 - n : h[n][first] # PlaceOf(v, x, first, n)}
<1>5. bad = {}
  <2> SUFFICES ASSUME bad # {} PROVE FALSE
    OBVIOUS
  <2>1. PICK n \in bad : \A m \in bad : n <= m
    <3>1. bad \in SUBSET Nat
      OBVIOUS
    <3> HIDE DEF bad
    <3> QED
      BY <3>1, LeastNumber
  <2>2. n \in 0 .. Len(v)
    OBVIOUS
  <2>3. PICK first \in 1 .. Len(v) + 1 - n : h[n][first] # PlaceOf(v, x, first, n)
    OBVIOUS
  <2>4. ASSUME NEW m \in 0 .. Len(v), NEW f \in 1 .. Len(v) + 1 - m, m < n
        PROVE  h[m][f] = PlaceOf(v, x, f, m)
    <3>1. m \notin bad
      <4> HIDE DEF bad
      <4> QED
        BY <2>1, <2>2, <2>4
    <3> QED
      BY <3>1
  <2> HIDE DEF bad
  <2>5. Halves(h, v, x, n, first) = PlaceOf(v, x, first, n)
    BY <2>2, <2>4, HalvesFind
  <2> QED
    BY <1>4, <2>2, <2>3, <2>5
<1>6. Len(v) \in 0 .. Len(v) /\ 1 \in 1 .. Len(v) + 1 - Len(v)
  BY <1>1
<1>7. Len(v) \notin bad
  <2> HIDE DEF bad
  <2> QED
    BY <1>5
<1> QED
  BY <1>6, <1>7 DEF h

(* The binary search in an ascending table finds exactly what is in it.                  *)
LEMMA BinarySearchFinds ==
    ASSUME NEW v, Rising(v), NEW x \in Nat
    PROVE  BinarySearch(v, x) <=> \E i \in 1 .. Len(v) : v[i] = x
<1> DEFINE r == PlaceOf(v, x, 1, Len(v))
           k == Len(v)
<1>1. k \in Nat /\ (\A i \in 1 .. k : v[i] \in Nat) /\ \A i, j \in 1 .. k : i < j => v[i] < v[j]
  BY DEF Rising, Numbers
<1>2. BinarySearch(v, x) <=> r <= k /\ ~(x < v[r])
  <2>1. BinarySearch(v, x) <=> LowerBoundOf(v, x)[k][1] <= k /\ ~(x < v[LowerBoundOf(v, x)[k][1]])
    BY DEF BinarySearch, LowerBoundOf, HalvingStep, Halves
  <2> QED
    BY <2>1, LowerBoundFinds
<1>3. r \in 1 .. 1 + k /\ (\A i \in 1 .. r - 1 : v[i] < x) /\ (r < 1 + k => ~(v[r] < x))
  BY <1>1, PlaceIs DEF IsPlace
<1> HIDE DEF r, k
<1>4. ASSUME r <= k, ~(x < v[r]) PROVE \E i \in 1 .. k : v[i] = x
  <2>1. r \in 1 .. k /\ r < 1 + k
    BY <1>1, <1>3, <1>4
  <2>2. v[r] = x
    BY <1>1, <1>3, <1>4, <2>1
  <2> QED
    BY <2>1, <2>2
<1>5. ASSUME NEW i \in 1 .. k, v[i] = x PROVE r <= k /\ ~(x < v[r])
  <2>1. r <= i
    <3> SUFFICES ASSUME ~(r <= i) PROVE FALSE
      OBVIOUS
    <3>1. i \in 1 .. r - 1
      BY <1>1, <1>3
    <3> QED
      BY <1>1, <1>3, <1>5, <3>1
  <2>2. r \in 1 .. k
    BY <1>1, <1>3, <2>1
  <2>3. v[r] \in Nat /\ (r < i => v[r] < v[i])
    BY <1>1, <2>2
  <2>4. r < i \/ r = i
    BY <1>1, <2>1, <2>2
  <2> QED
    BY <1>1, <1>5, <2>2, <2>3, <2>4
<1> QED
  BY <1>2, <1>4, <1>5 DEF k

LEMMA SortedSearch ==
    ASSUME NEW S \in SUBSET Nat, IsFiniteSet(S), NEW x \in Nat
    PROVE  BinarySearch(Sorted(S), x) <=> x \in S
<1>1. /\ Cardinality(S) \in Nat /\ DOMAIN Sorted(S) = 1 .. Cardinality(S)
      /\ Len(Sorted(S)) = Cardinality(S)
      /\ \A n \in 1 .. Cardinality(S) : Sorted(S)[n] \in S
      /\ \A b \in S : \E n \in 1 .. Cardinality(S) : Sorted(S)[n] = b
      /\ \A m, n \in 1 .. Cardinality(S) : m < n => Sorted(S)[m] < Sorted(S)[n]
  BY SortedIs
<1>2. Rising(Sorted(S))
  <2>1. \A n \in 1 .. Cardinality(S) : Sorted(S)[n] \in Nat
    BY <1>1
  <2> QED
    BY <1>1, <2>1 DEF Rising, Numbers
<1>3. BinarySearch(Sorted(S), x) <=> \E i \in 1 .. Len(Sorted(S)) : Sorted(S)[i] = x
  BY <1>2, BinarySearchFinds
<1> QED
  BY <1>1, <1>3

Short(strings) == {s \in strings : ~TooLong(s)}
Microstrings(strings) == {Microstring(s) : s \in Short(strings)}

(* The two tables hold what was given; what is asked is answered by them.               *)
TablesInv ==
    /\ given \in SUBSET Extensions /\ IsFiniteSet(given)
    /\ thrown = FALSE
    /\ unique = Microstrings(given) /\ IsFiniteSet(unique)
    /\ ext = given \ Short(given)
    /\ asking # "compile" => fast = Sorted(unique)
    /\ asking = "answered" => (included <=> asked \in given)

LEMMA FastTable ==
    ASSUME NEW s \in Extensions
    PROVE  Len(s) \in Nat /\ (GoesToFastTable(s) <=> ~TooLong(s)) /\ (IsLookedUpFast(s) <=> ~TooLong(s))
<1>1. Len(s) \in Nat /\ MaxSize \in Nat
  <2>1. s \in Seq(1 .. Base - 1)
    BY ExtensionTableAssumption
  <2> QED
    BY <2>1, ExtensionTableAssumption
<1> QED
  BY <1>1 DEF GoesToFastTable, IsLookedUpFast, TooLong

LEMMA TablesInitInv == TablesInit => TablesInv
<1> SUFFICES ASSUME TablesInit PROVE TablesInv
  OBVIOUS
<1>1. IsFiniteSet({})
  BY FS_EmptySet
<1> QED
  BY <1>1 DEF TablesInit, TablesInv, Short, Microstrings

LEMMA InsertInv ==
    ASSUME TablesInv, NEW s \in Extensions, Insert(s)
    PROVE  TablesInv'
<1>1. /\ given' = given \cup {s} /\ asking = "compile" /\ asking' = asking
      /\ fast' = fast /\ asked' = asked /\ included' = included
  BY DEF Insert
<1>2. given' \in SUBSET Extensions /\ IsFiniteSet(given')
  BY <1>1, FS_AddElement DEF TablesInv
<1>3. CASE ~TooLong(s)
  <2>1. thrown' = FALSE /\ unique' = unique \cup {Microstring(s)} /\ ext' = ext
    BY <1>3, FastTable DEF Insert
  <2>2. Short(given') = Short(given) \cup {s}
    BY <1>1, <1>3 DEF Short
  <2>3. unique' = Microstrings(given')
    BY <2>1, <2>2 DEF TablesInv, Microstrings
  <2>4. ext' = given' \ Short(given')
    BY <1>1, <2>1, <2>2 DEF TablesInv
  <2>5. IsFiniteSet(unique')
    BY <2>1, FS_AddElement DEF TablesInv
  <2> QED
    BY <1>1, <1>2, <2>1, <2>3, <2>4, <2>5 DEF TablesInv, Short, Microstrings
<1>4. CASE TooLong(s)
  <2>1. thrown' = thrown /\ unique' = unique /\ ext' = ext \cup {s}
    BY <1>4, FastTable DEF Insert
  <2>2. Short(given') = Short(given)
    BY <1>1, <1>4 DEF Short
  <2>3. unique' = Microstrings(given')
    BY <2>1, <2>2 DEF TablesInv, Microstrings
  <2>4. ext' = given' \ Short(given')
    BY <1>1, <1>4, <2>1, <2>2 DEF TablesInv, Short
  <2> QED
    BY <1>1, <1>2, <2>1, <2>3, <2>4 DEF TablesInv, Short, Microstrings
<1> QED
  BY <1>3, <1>4

(* std::sort changes nothing about what the table holds.                             *)
LEMMA SortInv ==
    ASSUME TablesInv, Sort
    PROVE  TablesInv'
<1>1. /\ fast' = Sorted(unique) /\ asking' = "ask"
      /\ given' = given /\ unique' = unique /\ ext' = ext /\ thrown' = thrown
  BY DEF Sort
<1> QED
  BY <1>1 DEF TablesInv, Short, Microstrings

LEMMA AskInv ==
    ASSUME TablesInv, NEW s \in Extensions, Ask(s)
    PROVE  TablesInv'
<1>1. /\ asked' = s /\ asking = "ask" /\ asking' = "answered"
      /\ given' = given /\ unique' = unique /\ ext' = ext /\ fast' = fast
  BY DEF Ask
<1>2. given \in SUBSET Extensions /\ IsFiniteSet(given) /\ unique = Microstrings(given)
      /\ fast = Sorted(unique) /\ ext = given \ Short(given)
  BY <1>1 DEF TablesInv
<1>3. thrown' = FALSE
  BY FastTable DEF Ask
<1>4. CASE ~TooLong(s)
  <2>1. included' <=> BinarySearch(Sorted(unique), Microstring(s))
    <3>1. IsLookedUpFast(s)
      BY <1>4, FastTable
    <3>2. included' = (~TooLong(s) /\ BinarySearch(fast, Microstring(s)))
      BY ONLY <3>1, Ask(s) DEF Ask
    <3> QED
      BY ONLY <1>2, <1>4, <3>2, Zenon
  <2>2. unique \in SUBSET Nat /\ IsFiniteSet(unique)
    <3>1. \A t \in Short(given) : Microstring(t) \in Nat
      <4>1. \A t \in Short(given) : t \in Extensions /\ ~TooLong(t)
        BY <1>2 DEF Short
      <4> QED
        BY <4>1, MicrostringIs
    <3> QED
      BY <1>2, <3>1 DEF Microstrings, TablesInv
  <2>3. Microstring(s) \in Nat
    BY <1>4, MicrostringIs
  <2>4. included' <=> Microstring(s) \in unique
    BY <2>1, <2>2, <2>3, SortedSearch
  <2>5. Microstring(s) \in unique <=> s \in given
    <3>1. ASSUME NEW t \in given, ~TooLong(t), Microstring(t) = Microstring(s) PROVE t = s
      BY <1>2, <1>4, <3>1, MicrostringsDiffer
    <3> QED
      BY <1>2, <1>4, <3>1 DEF Microstrings, Short
  <2> QED
    BY <1>1, <1>2, <1>3, <2>4, <2>5 DEF TablesInv, Short, Microstrings
<1>5. CASE TooLong(s)
  <2>1. included' = (s \in ext)
    BY <1>5, FastTable DEF Ask
  <2>2. s \in ext <=> s \in given
    BY <1>2, <1>5 DEF Short
  <2> QED
    BY <1>1, <1>2, <1>3, <2>1, <2>2 DEF TablesInv, Short, Microstrings
<1> QED
  BY <1>4, <1>5

(* For any set of extensions, integers of any size and bytes of any range: FileShouldBeScanned() *)
(* finds the extension of a file exactly when an active type has it, although the short ones *)
(* are compared as integers with their bytes swapped, in a table searched by halving, and *)
(* nothing is too long for a microstring (TypeManager.cpp:139-164, 459-526, microstring.hpp). *)
THEOREM LookupsAreExact == TablesSpec => []LookupIsExact
<1>1. TablesInit => TablesInv
  BY TablesInitInv
<1>2. TablesInv /\ [TablesNext]_tables_vars => TablesInv'
  <2> SUFFICES ASSUME TablesInv, [TablesNext]_tables_vars PROVE TablesInv'
    OBVIOUS
  <2>1. CASE Sort
    BY <2>1, SortInv
  <2>2. ASSUME NEW s \in Extensions, Insert(s) PROVE TablesInv'
    BY <2>2, InsertInv
  <2>3. ASSUME NEW s \in Extensions, Ask(s) PROVE TablesInv'
    BY <2>3, AskInv
  <2>4. CASE UNCHANGED tables_vars
    BY <2>4 DEF TablesInv, Short, Microstrings, tables_vars
  <2> QED
    BY <2>1, <2>2, <2>3, <2>4 DEF TablesNext
<1>3. TablesInv => LookupIsExact
  BY DEF TablesInv, LookupIsExact
<1> QED
  BY <1>1, <1>2, <1>3, PTL DEF TablesSpec
=============================================================================
