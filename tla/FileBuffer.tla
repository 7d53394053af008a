----------------------------- MODULE FileBuffer -----------------------------
(* The buffer a scanner thread reads its files into (File.cpp,                *)
(* ResizableArray.h, overaligned_alloc): it is kept from file to file,         *)
(* replaced when it is too small or not aligned enough, and zeroed only right   *)
(* behind the file.  The searches of VectorSearch run on what is in it.        *)
EXTENDS VectorSearch

CONSTANTS
    Contents,       \* what a file may hold: sequences of bytes
    Literals,       \* patterns that are searched as they are
    Tables,         \* sets of bytes that a match can begin with
    BlockSizes,     \* the st_blksize of files
    LeastBlock, MostBlock,   \* what it is clamped to (128 KiB, 1 MiB)
    Padding,        \* bytes zeroed behind the file (128)
    MaxRead,        \* bytes that one read() returns at the most
    MaxFiles,       \* files the thread scans
    Stale           \* what fresh memory may hold

ASSUME FileBufferAssumption ==
    /\ Padding \in Nat /\ Padding >= Width
    /\ LeastBlock \in Nat \ {0} /\ MostBlock \in Nat /\ LeastBlock <= MostBlock
    /\ MaxRead \in Nat \ {0} /\ BlockSizes \subseteq Nat
    /\ Contents \subseteq Seq(Nat)
    /\ \A table \in Tables : table \subseteq Nat /\ IsFiniteSet(table)
    /\ Literals \subseteq Seq(Nat \ {0})      \* a PATTERN ends at the first NUL

VARIABLES
    mem,        \* m_current_buffer
    bufferSize, \* m_current_buffer_size
    alignment,  \* m_current_buffer_alignment
    file,       \* the file being read, as fstat() described it
    left,       \* what its descriptor has not given yet
    reading,
    scanned     \* files done

buffer_vars == <<mem, bufferSize, alignment, file, left, reading, scanned>>

-----------------------------------------------------------------------------
Clamp(n, least, most) == IF n < least THEN least ELSE IF n > most THEN most ELSE n

is_power_of_2(n) == \E e \in 0 .. n : n = 2^e

(* Mutant: the size is rounded up before the padding is added. *)
overaligned_sizeUnpadded(needed, align) == needed

(* The size that overaligned_alloc() asks for, a multiple of the alignment.     *)
overaligned_size(needed, align) ==
    (needed + Padding + align) - ((needed + Padding) % align)

NoBuffer == [a \in {} |-> 0]

BufferInit ==
    /\ mem = NoBuffer /\ bufferSize = 0 /\ alignment = 0
    /\ file = [data |-> <<>>, blksize |-> LeastBlock] /\ left = <<>>
    /\ reading = "pull" /\ scanned = 0

(* File::File() on the next file; an empty one is not read.                    *)
NextFile ==
    /\ reading \in {"pull", "scan", "failed"} /\ scanned < MaxFiles
    /\ \E data \in Contents, blksize \in BlockSizes :
           /\ file' = [data |-> data, blksize |-> blksize]
           /\ left' = data
           /\ reading' = IF data = <<>> THEN "pull" ELSE "realloc"
    /\ scanned' = scanned + 1
    /\ UNCHANGED <<mem, bufferSize, alignment>>

TooSmall(size) == bufferSize < size

(* Mutant: nothing is zeroed. *)
ZeroBehindNot(buffer, size) == buffer

ZeroBehind(buffer, size) ==
    [a \in DOMAIN buffer |-> IF a \in size .. size + Padding - 1 THEN 0 ELSE buffer[a]]

(* ResizableArray::realloc(): overaligned_alloc() throws std::bad_alloc, which   *)
(* nobody catches, if the alignment asked for is no power of two.  A block may   *)
(* come better aligned than asked for.                                         *)
Realloc ==
    LET size == Len(file.data)
        align == Clamp(file.blksize, LeastBlock, MostBlock)
    IN /\ reading = "realloc"
       /\ \/ /\ ~TooSmall(size) /\ alignment >= align /\ mem # NoBuffer
             /\ mem' = ZeroBehind(mem, size)
             /\ reading' = "read"
             /\ UNCHANGED <<bufferSize, alignment>>
          \/ /\ TooSmall(size) \/ alignment < align
             /\ is_power_of_2(align)
             /\ \E byte \in Stale, got \in {align, MostBlock} :
                    /\ mem' = ZeroBehind([a \in 0 .. overaligned_size(size, align) - 1 |-> byte], size)
                    /\ alignment' = got
             /\ bufferSize' = size
             /\ reading' = "read"
          \/ /\ TooSmall(size) \/ alignment < align
             /\ ~is_power_of_2(align)
             /\ reading' = "bad_alloc"
             /\ UNCHANGED <<mem, bufferSize, alignment>>
       /\ UNCHANGED <<file, left, scanned>>

(* One read() of the loop: it asks for the size of the file every time, and      *)
(* every time it stores at the beginning of the buffer.                        *)
Read ==
    LET n == Lesser(Lesser(Len(file.data), MaxRead), Len(left))
    IN /\ reading = "read"
       /\ mem' = [a \in DOMAIN mem |-> IF a < n THEN left[a + 1] ELSE mem[a]]
       /\ left' = SubSeq(left, n + 1, Len(left))
       /\ reading' = IF n > 0 THEN "read" ELSE "scan"
       /\ UNCHANGED <<bufferSize, alignment, file, scanned>>

(* A read() that fails ends the loop like the end of the file: it is logged, and  *)
(* what is in the buffer is scanned.                                           *)
ReadFails ==
    /\ reading = "read"
    /\ reading' = "failed"
    /\ UNCHANGED <<mem, bufferSize, alignment, file, left, scanned>>

BufferNext == NextFile \/ Realloc \/ Read \/ ReadFails

BufferSpec == BufferInit /\ [][BufferNext]_buffer_vars

-----------------------------------------------------------------------------
(* The reference: what ScanFile asks of a file (Matcher), on the file's bytes.   *)
M == INSTANCE Matcher WITH Continuation <- 0

Scanning == reading = "scan"
size == Len(file.data)

(* The state has the declared shape; what realloc() records of the buffer is true  *)
(* of it, with the padding behind it.                                          *)
BufferTypeOK ==
    /\ reading \in {"pull", "realloc", "read", "failed", "scan", "bad_alloc"}
    /\ mem # NoBuffer => bufferSize + Padding <= Cardinality(DOMAIN mem)
    /\ reading \in {"read", "failed", "scan"} => size <= bufferSize

(* "Read in the whole file." (File.cpp:148): what is scanned is what the file     *)
(* holds, with a vector of zeros behind it, whatever was in the buffer before.    *)
(* (After a read() that failed it is not: see the README.)                      *)
BufferHoldsFile ==
    Scanning => /\ \A a \in 0 .. size - 1 : mem[a] = file.data[a + 1]
                /\ \A a \in size .. size + Width - 1 : a \in DOMAIN mem /\ mem[a] = 0

(* The literal search finds the leftmost occurrence that lies inside the file,     *)
(* from every offset, although it compares whole vectors, the last of them across *)
(* the end of the file.                                                        *)
LiteralSearchIsExact ==
    Scanning =>
        \A pattern \in Literals : \A from \in 0 .. size - 1 :
            LET found == M!LiteralMatch(file.data, pattern, from)
            IN LiteralMatch(mem, size, from, pattern) =
                   IF found = M!NoMatch THEN size ELSE found.begin

(* The regex engine is started at the first byte that a match can begin with, or   *)
(* not at all if there is none: nothing before that byte is lost.                *)
FirstCandidateIsFirst ==
    Scanning =>
        \A table \in Tables : \A from \in 0 .. size - 1 :
            from + FirstCandidate(mem, from, size - from, table) =
                Min({size} \cup M!Candidates(file.data, [search |-> "table", table |-> table], from))

(* The line ends in any range are counted once each, however the range lies to      *)
(* the vectors.                                                                *)
LinesAreCounted ==
    Scanning =>
        \A begin \in 0 .. size : \A end \in begin .. size :
            CountLinesSinceLastMatch(mem, begin, end) =
                M!CountLinesSinceLastMatch(file.data, begin, end)
=============================================================================
