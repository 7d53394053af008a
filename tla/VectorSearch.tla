---------------------------- MODULE VectorSearch ----------------------------
(* The searches of FileScanner_sse4_2.cpp and libext/memory.hpp: a block of    *)
(* Width bytes is loaded and looked at as a whole, the last one reaching past  *)
(* the end of the data, and the counting of lines loads aligned blocks only.   *)
(* Memory is a function on the addresses 0 .. of the file's buffer, 0 being    *)
(* aligned; a load from behind the buffer gives Outside.                      *)
EXTENDS Integers, Sequences, FiniteSets, FiniteSetsExt, SequencesExt, Sorting

CONSTANTS
    Width,      \* bytes of a vector register (16)
    Newline     \* the byte '\n'

ASSUME WidthAssumption == Width \in Nat \ {0}

Outside == -1
Lesser(a, b) == IF a < b THEN a ELSE b

Load(mem, address) ==
    [k \in 0 .. Width - 1 |-> IF address + k \in DOMAIN mem THEN mem[address + k] ELSE Outside]

(* The vectors' worth of a table of n entries, and of data of n bytes.         *)
Blocks(n) == {i \in 0 .. n - 1 : i % Width = 0}
Piece(table, p, n) == SubSeq(table, p + 1, Lesser(p + n, Len(table)))

-----------------------------------------------------------------------------
(* _mm_cmpestri in the three modes used: the first position of the fragment    *)
(* (its first "len" bytes) with a hit, Width if there is none.                *)

FirstHit(hits) == IF hits = {} THEN Width ELSE Min(hits)

EqualAny(members, fragment, len) ==
    FirstHit({k \in 0 .. Lesser(len, Width) - 1 : fragment[k] \in members})

InRanges(ranges, fragment, len) ==
    FirstHit({k \in 0 .. Lesser(len, Width) - 1 :
                 \E r \in ranges : fragment[k] \in r[1] .. r[2]})

(* A pattern that begins in the fragment and continues behind it is a hit; one  *)
(* that continues behind "len" is none.                                       *)
EqualOrdered(pattern, fragment, len) ==
    FirstHit({k \in 0 .. Width - 1 :
                 \A j \in 1 .. Len(pattern) :
                     k + j <= Width => k + j <= len /\ fragment[k + j - 1] = pattern[j]})

-----------------------------------------------------------------------------
(* The tables of the bytes a match can begin with.                            *)

(* The bits of PCRE2's bitmap are read from the lowest code unit on.            *)
ConstructCodeUnitTable(bytes) == Sorted(bytes)

(* A pair for each maximal run of successive bytes.                           *)
RunEnds(table) == {i \in DOMAIN table : i = Len(table) \/ table[i + 1] # table[i] + 1}
RunBegins(table) == {i \in DOMAIN table : i = 1 \/ table[i - 1] # table[i] - 1}
BeginOf(table, end) ==
    CHOOSE b \in RunBegins(table) :
        b <= end /\ \A c \in RunBegins(table) : c <= end => c <= b

ConstructRangePairTable(table) ==
    [n \in 1 .. Cardinality(RunEnds(table)) |->
        LET end == Sorted(RunEnds(table))[n] IN <<table[BeginOf(table, end)], table[end]>>]

(* AnalyzeRegex() takes the table if it is shorter than the pairs written out.  *)
UsesRangePairs(table, pairs) == ~(Len(table) < 2 * Len(pairs))

-----------------------------------------------------------------------------
(* The first byte, of "len" from "from" on, that a match can begin with; "len"   *)
(* if there is none.  hit[i][p] is what comparing the block at i with the piece  *)
(* at p of the table gives: the first block with a hit decides, and in it the    *)
(* first piece that has one.                                                  *)
FirstInPieces(len, pieces, hit) ==
    LET blocks == {i \in Blocks(len) : \E p \in pieces : hit[i][p] < Width}
    IN IF blocks = {} THEN len
       ELSE LET i == Min(blocks)
                p == Min({q \in pieces : hit[i][q] < Width})
            IN Lesser(i + hit[i][p], len)

(* Mutant: what fills no whole register at the end of the table is left out. *)
find_first_ofWholePieces(mem, from, len, table) ==
    LET pieces == {p \in Blocks(Len(table)) : p + Width <= Len(table)}
    IN FirstInPieces(len, pieces,
           [i \in Blocks(len) |-> [p \in pieces |->
               EqualAny(ToSet(Piece(table, p, Width)), Load(mem, from + i), len - i)]])

find_first_of(mem, from, len, table) ==
    FirstInPieces(len, Blocks(Len(table)),
        [i \in Blocks(len) |-> [p \in Blocks(Len(table)) |->
            EqualAny(ToSet(Piece(table, p, Width)), Load(mem, from + i), len - i)]])

find_first_in_ranges(mem, from, len, pairs) ==
    FirstInPieces(len, Blocks(2 * Len(pairs)),
        [i \in Blocks(len) |-> [p \in Blocks(2 * Len(pairs)) |->
            InRanges(ToSet(Piece(pairs, p \div 2, Width \div 2)), Load(mem, from + i), len - i)]])

(* The search for a single byte compares whole blocks and rejects a hit behind   *)
(* the end.                                                                   *)
find(mem, from, len, byte) ==
    LET Hits(i) == {k \in 0 .. Width - 1 : Load(mem, from + i)[k] = byte}
        blocks == {i \in Blocks(len) : Hits(i) # {} /\ i + Min(Hits(i)) < len}
    IN IF blocks = {} THEN len ELSE Min(blocks) + Min(Hits(Min(blocks)))

FindFirstPossibleCodeUnit(mem, from, len, table) ==
    CASE Len(table) > 1 -> find_first_of(mem, from, len, table)
      [] Len(table) = 1 -> find(mem, from, len, table[1])
      [] OTHER -> len

(* Where a search with a table lets the regex engine start.                    *)
FirstCandidate(mem, from, len, bytes) ==
    LET table == ConstructCodeUnitTable(bytes)
        pairs == ConstructRangePairTable(table)
    IN IF UsesRangePairs(table, pairs)
       THEN find_first_in_ranges(mem, from, len, pairs)
       ELSE FindFirstPossibleCodeUnit(mem, from, len, table)

-----------------------------------------------------------------------------
(* memmem_short_pattern() of memory.hpp: the offset of the pattern in the "len"  *)
(* bytes from "from" on, or -1.                                               *)

(* Mutant: a partial match at the end of a block is passed over. *)
AfterPartialMatchSkips(p, hit) == p + Width

(* After a match that leaves the block the search goes on where it began.        *)
AfterPartialMatch(p, hit) == p + hit

memmem_short_pattern(mem, from, len, pattern) ==
    LET whole == len - (len % Width)
        Rest(p) == IF len - p < Len(pattern) THEN -1
                   ELSE LET hit == EqualOrdered(pattern, Load(mem, from + p), len - p)
                        IN IF hit = Width THEN -1 ELSE p + hit
        Search[p \in 0 .. len + Width] ==
            IF p >= whole THEN IF p < len THEN Rest(p) ELSE -1
            ELSE LET hit == EqualOrdered(pattern, Load(mem, from + p), Width)
                 IN CASE hit = Width -> Search[p + Width]
                      [] hit # Width /\ hit + Len(pattern) <= Width -> p + hit
                      [] OTHER -> Search[AfterPartialMatch(p, hit)]
    IN IF len = 0 \/ Len(pattern) > len \/ pattern = <<>> THEN -1 ELSE Search[0]

(* The C library's memmem().                                                  *)
memmem(mem, from, len, pattern) ==
    LET found == {p \in 0 .. len - Len(pattern) :
                      \A j \in 1 .. Len(pattern) : mem[from + p + j - 1] = pattern[j]}
    IN IF found = {} THEN -1 ELSE Min(found)

(* Where LiteralMatch() finds the pattern, the end of the file if nowhere; a       *)
(* pattern that does not fit into a register is left to memmem().               *)
LiteralMatch(mem, size, from, pattern) ==
    LET hit == IF Len(pattern) \in 1 .. Width
               THEN memmem_short_pattern(mem, from, size - from, pattern)
               ELSE memmem(mem, from, size - from, pattern)
    IN IF hit = -1 THEN size ELSE from + hit

-----------------------------------------------------------------------------
(* CountLinesSinceLastMatch(): the bytes before the first aligned address are    *)
(* counted in the block that holds them, with a mask that hides what comes       *)
(* before the range and, in a range that ends in the same block, what follows.   *)

NewlineBits(mem, address) == {k \in 0 .. Width - 1 : Load(mem, address)[k] = Newline}

(* Mutant: what follows the range in its first block is counted too. *)
memcnt_prologueUnmasked(mem, begin, unaligned, len) ==
    Cardinality({k \in NewlineBits(mem, begin - (Width - unaligned)) : k >= Width - unaligned})

memcnt_prologue(mem, begin, unaligned, len) ==
    Cardinality({k \in NewlineBits(mem, begin - (Width - unaligned)) :
                    /\ k >= Width - unaligned
                    /\ len < unaligned => k < Width - (unaligned - len)})

CountLinesSinceLastMatch(mem, begin, end) ==
    LET len == end - begin
        unaligned == (Width - (begin % Width)) % Width
        consumed == Lesser(len, unaligned)
        prologue == IF unaligned = 0 THEN 0 ELSE memcnt_prologue(mem, begin, unaligned, len)
        first == begin + consumed
        last == end - (end % Width)
        aligned == {a \in first .. last - 1 : (a - first) % Width = 0}
        tail == {a \in (IF first < last THEN last ELSE first) .. end - 1 : mem[a] = Newline}
    IN IF len = consumed THEN prologue
       ELSE prologue + FoldSet(LAMBDA a, n : n + Cardinality(NewlineBits(mem, a)), 0, aligned)
                     + Cardinality(tail)
=============================================================================
