------------------------------- MODULE Matcher -------------------------------
(***************************************************************************)
(* What ScanFile asks of a file and a pattern: the regex engine with ucg's *)
(* callout, the literal search, the search for bytes a match can begin     *)
(* with, the counting of lines and the cutting of a line around a match.   *)
(*                                                                         *)
(* A file is a sequence of bytes, its offsets are 0 .. Len(file).  A       *)
(* pattern is a record:                                                    *)
(*   search        what AnalyzeRegex decided: "regex", "table", "prefix"   *)
(*                 or "literal"                                            *)
(*   alternatives  [offset -> where a match that begins there may end, in  *)
(*                 the order in which the engine tries]; with lookbehinds  *)
(*                 some regex has any such function on a given file        *)
(*   literal       the string of "literal", the prefix of "prefix"         *)
(*   table         the bytes that may begin a match, of "table"            *)
(***************************************************************************)
EXTENDS Integers, Sequences, FiniteSets, FiniteSetsExt

CONSTANTS
  Newline,        \* the byte '\n'
  Continuation    \* any byte 10xxxxxx

NoMatch == [begin |-> -1, end |-> -1]

Byte(file, i) == file[i + 1]

\* The line ends between two offsets.
NewlinesIn(file, from, to) == {i \in from .. (to - 1) : Byte(file, i) = Newline}

-----------------------------------------------------------------------------
(* The regex engine                                                         *)

\* Whether the engine may take this match; otherwise it backtracks.
callout_handler(file, begin, end) == NewlinesIn(file, begin, end) = {}

\* The matches at an offset that the callout and the option NOTEMPTY_ATSTART leave, as places in
\* the engine's order.
Admitted(file, pattern, begin, nonempty) ==
  LET ends == pattern.alternatives[begin]
  IN {i \in DOMAIN ends : callout_handler(file, begin, ends[i]) /\ (nonempty => ends[i] # begin)}

\* The leftmost match from an offset on; ANCHORED allows no other beginning than the offset.
regex_match(file, pattern, from, retry) ==
  LET tried == IF retry THEN {from} ELSE from .. Len(file)
      found == {b \in tried : Admitted(file, pattern, b, retry) # {}}
      preferred == {[begin |-> b, end |-> pattern.alternatives[b][Min(Admitted(file, pattern, b, retry))]]
                      : b \in found}
  IN IF found = {} THEN NoMatch
     ELSE CHOOSE m \in preferred : \A b \in found : m.begin <= b

-----------------------------------------------------------------------------
(* Literals and first bytes                                                 *)

OccursAt(file, literal, i) == SubSeq(file, i + 1, i + Len(literal)) = literal

Occurrences(file, literal, from) ==
  {i \in from .. (Len(file) - Len(literal)) : OccursAt(file, literal, i)}

LiteralMatch(file, literal, from) ==
  LET found == Occurrences(file, literal, from)
  IN IF found = {} THEN NoMatch ELSE [begin |-> Min(found), end |-> Min(found) + Len(literal)]

\* Where the regex engine may be started: it is not called when there is no such offset.
Candidates(file, pattern, from) ==
  CASE pattern.search = "prefix" -> Occurrences(file, pattern.literal, from)
    [] pattern.search = "table"  -> {i \in from .. (Len(file) - 1) : Byte(file, i) \in pattern.table}
    [] pattern.search = "regex"  -> {from}

\* A match lies in the file and does not end before it begins.
WellFormed(file, pattern) ==
  /\ pattern.alternatives \in [0 .. Len(file) -> Seq(0 .. Len(file))]
  /\ \A b \in 0 .. Len(file) : \A i \in DOMAIN pattern.alternatives[b] :
       b <= pattern.alternatives[b][i]

\* What the analysis relies on: a match of a pattern with a table begins with a byte of it, one of
\* a pattern with a literal prefix with the prefix; neither is empty.
WellAnalyzed(file, pattern) ==
  \A b \in DOMAIN pattern.alternatives : \A i \in DOMAIN pattern.alternatives[b] :
    CASE pattern.search = "prefix" ->
           b \in Occurrences(file, pattern.literal, 0) /\ pattern.alternatives[b][i] >= b + Len(pattern.literal)
      [] pattern.search = "table" ->
           pattern.alternatives[b][i] > b /\ Byte(file, b) \in pattern.table
      [] pattern.search = "literal" -> FALSE
      [] pattern.search = "regex" -> TRUE

-----------------------------------------------------------------------------
(* Lines                                                                    *)

\* Mutant: a match that begins at the end of a line is counted into the next one.
CountLinesSinceLastMatch_inclusive(file, prev_lineno_search_end, start_of_current_match) ==
  Cardinality(NewlinesIn(file, prev_lineno_search_end, Min({start_of_current_match + 1, Len(file)})))

CountLinesSinceLastMatch(file, prev_lineno_search_end, start_of_current_match) ==
  Cardinality(NewlinesIn(file, prev_lineno_search_end, start_of_current_match))

LineStart(file, offset) == Max({0} \cup {i + 1 : i \in NewlinesIn(file, 0, offset)})

LineEnd(file, offset) == Min({Len(file)} \cup NewlinesIn(file, offset, Len(file)))

\* Match's three strings, as offsets: start..begin, begin..end, end..stop.
Match(file, found, line) ==
  [line |-> line, start |-> LineStart(file, found.begin), begin |-> found.begin,
   end |-> found.end, stop |-> LineEnd(file, found.begin)]

\* The string after the match would have a negative length: its constructor throws.
MatchThrows(file, found) == LineEnd(file, found.begin) < found.end
=============================================================================
