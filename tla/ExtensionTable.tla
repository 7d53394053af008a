--------------------------- MODULE ExtensionTable ---------------------------
(* How TypeManager stores the file extensions it looks up for every file name: *)
(* those of at most MaxSize bytes as integers (libext/microstring.hpp) in a    *)
(* sorted vector, the longer ones in a hash table.  TypeManager.tla takes the  *)
(* two tables as sets; here they are built and searched as in the code.        *)
(* A string is a sequence of bytes without NUL.                                *)
EXTENDS Integers, Sequences, FiniteSets, SequencesExt, Sorting

CONSTANTS
    MaxSize,        \* bytes of the underlying integer (8)
    Base,           \* values of a byte (256)
    Extensions,     \* the extensions, without the period, of types and of files
    MaxExtensions   \* how many the active types have at the most

ASSUME ExtensionTableAssumption ==
    /\ MaxSize \in Nat \ {0} /\ Base \in Nat \ {0, 1}
    /\ Extensions \subseteq Seq(1 .. Base - 1)

VARIABLES
    given,      \* the extensions inserted so far
    unique,     \* unique_microstring_extensions
    fast,       \* m_fast_include_extensions
    ext,        \* the keys of m_include_extensions
    thrown,     \* std::length_error
    asked, included, asking

tables_vars == <<given, unique, fast, ext, thrown, asked, included, asking>>

-----------------------------------------------------------------------------
(* basic_microstring: the bytes are stored from the lowest address on, the     *)
(* rest is zero, and the integer is converted so that the first one becomes    *)
(* the most significant.                                                       *)

(* Byte 0 is the least significant.                                            *)
ByteOf(x, i) ==
    LET Without[n \in 0 .. MaxSize] == IF n = 0 THEN x ELSE Without[n - 1] \div Base
    IN Without[i] % Base

Number(bytes) ==
    LET Highest[n \in 0 .. MaxSize] ==
            IF n = 0 THEN 0 ELSE Highest[n - 1] * Base + bytes[MaxSize - n]
    IN Highest[MaxSize]

bswap(x) == Number([i \in 0 .. MaxSize - 1 |-> ByteOf(x, MaxSize - 1 - i)])

(* On a little-endian machine. *)
host_to_be(x) == bswap(x)

TooLong(s) == Len(s) > MaxSize

Microstring(s) ==
    host_to_be(Number([i \in 0 .. MaxSize - 1 |-> IF i < Len(s) THEN s[i + 1] ELSE 0]))

countnonzeros(x) == Cardinality({i \in 0 .. MaxSize - 1 : ByteOf(x, i) > 0})

(* The conversion to std::string. *)
AsString(x) == [i \in 1 .. countnonzeros(x) |-> ByteOf(host_to_be(x), i - 1)]

-----------------------------------------------------------------------------
(* Mutant: the period counts. *)
GoesToFastTableWithPeriod(s) == Len(s) + 1 <= MaxSize

(* The test of CompileTypeTables(), on a filter with its period. *)
GoesToFastTable(s) == Len(s) + 1 <= MaxSize + 1

(* The test of FileShouldBeScanned(), on a file's extension with its period. *)
IsLookedUpFast(s) == Len(s) + 1 <= MaxSize + 1

TablesInit ==
    /\ given = {} /\ unique = {} /\ fast = <<>> /\ ext = {}
    /\ thrown = FALSE /\ asked = <<>> /\ included = FALSE
    /\ asking = "compile"

(* CompileTypeTables() meets the filters in the order of a hash table.         *)
Insert(s) ==
    /\ asking = "compile" /\ ~thrown /\ Cardinality(given) < MaxExtensions
    /\ given' = given \cup {s}
    /\ IF GoesToFastTable(s)
       THEN /\ thrown' = TooLong(s)
            /\ unique' = IF TooLong(s) THEN unique ELSE unique \cup {Microstring(s)}
            /\ UNCHANGED ext
       ELSE ext' = ext \cup {s} /\ UNCHANGED <<unique, thrown>>
    /\ UNCHANGED <<fast, asked, included, asking>>

Sort ==
    /\ asking = "compile" /\ ~thrown
    /\ fast' = Sorted(unique)
    /\ asking' = "ask"
    /\ UNCHANGED <<given, unique, ext, thrown, asked, included>>

(* std::binary_search, halving the range of "n" elements from "first" on.      *)
BinarySearch(v, x) ==
    LET LowerBound[n \in 0 .. Len(v)] ==
            [first \in 1 .. Len(v) + 1 - n |->
                LET half == n \div 2
                IN IF n = 0 THEN first
                   ELSE IF v[first + half] < x THEN LowerBound[n - half - 1][first + half + 1]
                   ELSE LowerBound[half][first]]
        found == LowerBound[Len(v)][1]
    IN found <= Len(v) /\ ~(x < v[found])

Ask(s) ==
    /\ asking = "ask" /\ ~thrown
    /\ asked' = s
    /\ thrown' = (IsLookedUpFast(s) /\ TooLong(s))
    /\ included' = IF IsLookedUpFast(s)
                   THEN ~TooLong(s) /\ BinarySearch(fast, Microstring(s))
                   ELSE s \in ext
    /\ asking' = "answered"
    /\ UNCHANGED <<given, unique, fast, ext>>

TablesNext == Sort \/ \E s \in Extensions : Insert(s) \/ Ask(s)

TablesSpec == TablesInit /\ [][TablesNext]_tables_vars

-----------------------------------------------------------------------------
(* Integers of MaxSize bytes in the vector, and only what does not fit into    *)
(* one in the hash table.                                                      *)
TablesTypeOK ==
    /\ given \subseteq Extensions /\ asked \in Extensions \cup {<<>>}
    /\ \A x \in unique \cup ToSet(fast) : x \in 0 .. Base^MaxSize - 1
    /\ \A s \in ext : Len(s) > MaxSize
    /\ thrown \in BOOLEAN /\ included \in BOOLEAN
    /\ asking \in {"compile", "ask", "answered"}

(* A file is looked up in the table its extension would have been put into,    *)
(* and found there exactly when an active type has it: the two tests on the    *)
(* length agree, and no two extensions share an integer.  Nothing is too long  *)
(* on the way: FileShouldBeScanned() is noexcept, and a length_error would end  *)
(* the program.                                                                *)
LookupIsExact ==
    /\ ~thrown
    /\ asking = "answered" => (included <=> asked \in given)

=============================================================================
