------------------------------ MODULE ScanFile ------------------------------
(***************************************************************************)
(* The match loop, FileScannerPCRE2::ScanFile and FileScannerPCRE::ScanFile*)
(* on one file that is not empty (FileScanner::Run skips those).  One      *)
(* action per way an iteration can go.  Nothing runs concurrently: file,   *)
(* match data and MatchList belong to one thread.                          *)
(***************************************************************************)
EXTENDS Matcher

CONSTANTS
  Bytes,        \* the values of a byte
  Files,        \* the files scanned, as sequences of bytes
  Engines,      \* "PCRE2", "PCRE" or both
  Patterns(_,_) \* the patterns of interest, by engine and file

ASSUME InputsAssumption ==
  /\ Engines \subseteq {"PCRE2", "PCRE"}
  /\ Newline # Continuation
  /\ Files \subseteq Seq(Bytes) \ {<<>>}
  /\ \A engine \in Engines, f \in Files : \A p \in Patterns(engine, f) :
       /\ p.search \in {"regex", "table", "prefix", "literal"} /\ p.literal \in Seq(Bytes)
       /\ engine = "PCRE" => p.search = "regex"
       /\ WellFormed(f, p)
       /\ WellAnalyzed(f, p)

VARIABLES
  engine, file, pattern,    \* what is scanned, with what and for what: constant
  ovector,                  \* the last match; end is where the next attempt starts
  start_offset,             \* where the last attempt started
  options,                  \* of the last attempt: "none" or "nonempty_anchored"
  line_no, prev_lineno,     \* the line of the last match, of the last one reported
  prev_lineno_search_end,   \* up to where line ends are counted
  ml,                       \* the matches reported
  pc                        \* "scan", "done", or how it failed: "match_error", "length_error"

input_vars == <<engine, file, pattern>>
line_vars == <<line_no, prev_lineno, prev_lineno_search_end>>
vars == <<input_vars, ovector, start_offset, options, line_vars, ml, pc>>

file_size == Len(file)

Init ==
  /\ engine \in Engines
  /\ file \in Files
  /\ pattern \in Patterns(engine, file)
  /\ ovector = [begin |-> -1, end |-> 0]
  /\ start_offset = 0
  /\ options = "none"
  /\ line_no = 1
  /\ prev_lineno = 0
  /\ prev_lineno_search_end = 0
  /\ ml = <<>>
  /\ pc = "scan"

-----------------------------------------------------------------------------
(* An iteration                                                             *)

\* PCRE2 tests the offset of the previous attempt, PCRE that of the next one.
LoopCondition ==
  IF engine = "PCRE2" THEN start_offset < file_size ELSE ovector.end < file_size

\* The previous match was empty: try for another at the same place.
Retry == ovector.begin = ovector.end

AtEndAfterEmptyMatch == Retry /\ ovector.begin = file_size

\* A literal search ignores the options; a retry does not skip ahead.
StartsOfAttempt ==
  IF Retry \/ pattern.search = "literal" THEN {ovector.end}
  ELSE Candidates(file, pattern, ovector.end)

AttemptFrom == IF StartsOfAttempt = {} THEN ovector.end ELSE Min(StartsOfAttempt)

Found ==
  CASE StartsOfAttempt = {} -> NoMatch
    [] pattern.search = "literal" -> LiteralMatch(file, pattern.literal, ovector.end)
    [] OTHER -> regex_match(file, pattern, AttemptFrom, Retry)

Attempt ==
  /\ pc = "scan" /\ LoopCondition /\ ~AtEndAfterEmptyMatch
  /\ options' = IF Retry THEN "nonempty_anchored" ELSE "none"
  /\ start_offset' = AttemptFrom
  /\ UNCHANGED input_vars

LeaveLoop ==
  /\ pc = "scan"
  /\ ~LoopCondition \/ AtEndAfterEmptyMatch
  /\ pc' = "done"
  /\ UNCHANGED <<input_vars, ovector, start_offset, options, line_vars, ml>>

\* Mutant: the loop is left after a retry too.
NoMoreMatches_after_retry ==
  /\ Attempt
  /\ Found = NoMatch
  /\ pc' = "done"
  /\ UNCHANGED <<ovector, line_vars, ml>>

NoMoreMatches ==
  /\ Attempt
  /\ Found = NoMatch /\ ~Retry
  /\ pc' = "done"
  /\ UNCHANGED <<ovector, line_vars, ml>>

\* Mutant: the byte after is taken for the '\n' of a "\r\n".
NextOffset_crlf == ovector.end + 2

\* The next offset to try; PCRE2 takes the following continuation bytes with it.
NextOffset ==
  LET after == ovector.end + 1
      stops == {i \in after .. (file_size - 1) : Byte(file, i) # Continuation}
  IN IF engine = "PCRE2" THEN Min(stops \cup {file_size}) ELSE after

\* Mutant: the retry stays where it is.
Advance_nowhere ==
  /\ Attempt
  /\ Found = NoMatch /\ Retry
  /\ UNCHANGED <<ovector, line_vars, ml, pc>>

\* A failed match leaves ovector[0] as it was or unset.
Advance ==
  /\ Attempt
  /\ Found = NoMatch /\ Retry
  /\ \E begin \in {ovector.begin, -1} : ovector' = [begin |-> begin, end |-> NextOffset]
  /\ UNCHANGED <<line_vars, ml, pc>>

CountLines ==
  /\ Attempt
  /\ Found # NoMatch
  /\ ovector' = Found
  /\ line_no' = line_no + CountLinesSinceLastMatch(file, prev_lineno_search_end, Found.begin)
  /\ prev_lineno_search_end' = Found.begin

SameLine ==
  /\ CountLines
  /\ line_no' = prev_lineno
  /\ UNCHANGED <<prev_lineno, ml, pc>>

Report ==
  /\ CountLines
  /\ line_no' # prev_lineno
  /\ prev_lineno' = line_no'
  /\ IF MatchThrows(file, Found)
     THEN pc' = "length_error" /\ UNCHANGED ml
     ELSE ml' = Append(ml, Match(file, Found, line_no')) /\ UNCHANGED pc

\* The engine gives up: a negative code is thrown, a zero one returns; not on a literal search.
MatchError ==
  /\ Attempt
  /\ StartsOfAttempt # {} /\ pattern.search # "literal"
  /\ pc' = "match_error"
  /\ UNCHANGED <<ovector, line_vars, ml>>

Iterate == LeaveLoop \/ NoMoreMatches \/ Advance \/ SameLine \/ Report

Next == Iterate \/ MatchError

\* The loop runs on by itself, and no error of the engine has to come to its help.
Spec == Init /\ [][Next]_vars /\ WF_vars(Iterate)

-----------------------------------------------------------------------------
(* The reference: lines and matches without a loop                          *)

LineOf(offset) == 1 + Cardinality(NewlinesIn(file, 0, offset))

OnLine(n) == {offset \in 0 .. file_size : LineOf(offset) = n}

\* A '\n' ends a line, it does not begin one.
NumLines == LineOf(file_size - 1)

\* The matches of a regex at an offset that stay on its line, as places in the order of preference.
StayOnLine(b) ==
  {i \in DOMAIN pattern.alternatives[b] : LineOf(pattern.alternatives[b][i]) = LineOf(b)}

Matches(b) ==
  IF pattern.search = "literal" THEN b \in Occurrences(file, pattern.literal, 0)
  ELSE StayOnLine(b) # {}

BestEnd(b) ==
  IF pattern.search = "literal" THEN b + Len(pattern.literal)
  ELSE pattern.alternatives[b][Min(StayOnLine(b))]

MatchStarts(n) == {b \in OnLine(n) : Matches(b)}

-----------------------------------------------------------------------------
(* Properties                                                               *)

\* Every variable has its type and every offset lies in the file.
TypeOK ==
  /\ ovector \in [begin : -1 .. file_size, end : 0 .. file_size]
  /\ start_offset \in 0 .. file_size
  /\ options \in {"none", "nonempty_anchored"}
  /\ line_no \in Nat /\ prev_lineno \in Nat
  /\ prev_lineno_search_end \in 0 .. file_size
  /\ pc \in {"scan", "done", "match_error", "length_error"}

\* PCRE2's skipping of continuation bytes may step over the beginning of such a line.
BeginsInsideCharacter(n) ==
  engine = "PCRE2" /\ n <= NumLines /\ Byte(file, Min(OnLine(n))) = Continuation

\* Whatever is reported is right: lines in increasing order, each with its first match, in the
\* form the engine prefers, its true number, and the text between the line's two ends. The
\* number is counted from match to match, the text is cut out by Match, in ScanFile's loop.
ReportSound ==
  \A i \in DOMAIN ml :
    LET m == ml[i] IN
    /\ i > 1 => ml[i - 1].line < m.line
    /\ m.line = LineOf(m.begin)
    /\ m.begin = Min(MatchStarts(m.line)) \/ BeginsInsideCharacter(m.line)
    /\ m.end = BestEnd(m.begin)
    /\ m.start = Min(OnLine(m.line)) /\ m.stop = Max(OnLine(m.line))
    /\ m.begin <= m.end /\ m.end <= m.stop

Reported(n) == \E i \in DOMAIN ml : ml[i].line = n

\* When the scan ends, no line with a match is missing, whatever optimization is used: nothing is
\* lost by starting at a first byte or a prefix, after an empty match, or after a match on the
\* line before. The lines that ScanFile of PCRE2 may step over are excepted here.
\* Nor does the scan break off: a regex, even one like a\s+b, never yields a match across the end
\* of a line, whatever the engine would prefer, so that Match throws over a literal one only.
ReportComplete ==
  /\ pc = "done" =>
       \A n \in 1 .. NumLines : MatchStarts(n) # {} => Reported(n) \/ BeginsInsideCharacter(n)
  /\ pc = "length_error" => pattern.search = "literal"

\* The loop ends: after an empty match it moves on.
Termination == <>(pc # "scan")

\* What the comment on the loop of ScanFile says, no attempt starts at the end of the file: such an
\* attempt finds an empty match after the last '\n' and reports it as one more line.
AttemptsInsideFile == start_offset < file_size \/ \A i \in DOMAIN ml : ml[i].line <= NumLines

\* After an empty match ScanFile tries, says its comment, for a non-empty one at the same point.
RetryFindsNonEmpty == options = "nonempty_anchored" => ovector.begin # ovector.end
=============================================================================
