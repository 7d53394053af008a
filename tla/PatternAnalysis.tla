--------------------------- MODULE PatternAnalysis ---------------------------
(* What FileScannerPCRE2 makes of PATTERN once at the start: it compiles it,   *)
(* asks the library which bytes a match can begin with, and decides whether    *)
(* the search can do without the library, or skip what no match can begin      *)
(* with.  All files are searched with the outcome; a short cut that leaves out *)
(* a match leaves it out of every file.                                        *)
(* A pattern is a sequence of alternatives, each a sequence of items           *)
(*   [body     |-> sequence of alternative sequences of characters,            *)
(*    caseless |-> whether it is written as (?i:...),                          *)
(*    sep      |-> what is written between the body and its quantifier,        *)
(*    quant    |-> "", "?", "*", "+" or "{0,1}"];                              *)
(* what it matches is the set Words of character sequences, what the code      *)
(* looks at is its Text.                                                       *)
EXTENDS VectorSearch

CONSTANTS
    Patterns,
    OtherCase(_),   \* of a character; the character itself if it has none
    CodeUnit(_),    \* the byte of a character
    MaxPrefixLen    \* what a uint8_t holds (255)

VARIABLES
    pattern, ignore_case, word_regexp, pattern_is_literal,
    bitmap,             \* bytes of PCRE2_INFO_FIRSTBITMAP; {} for a null pointer
    first_code_unit,    \* <<byte>> when PCRE2_INFO_FIRSTCODETYPE is 1, else <<>>
    table,              \* m_compiled_cu_bitmap up to m_end_fpcu_table
    use_table, use_ranges, use_literal, use_lit_prefix,
    search_string,      \* m_literal_search_string
    pc

options == <<pattern, ignore_case, word_regexp, pattern_is_literal>>
info == <<bitmap, first_code_unit>>
analysis_vars == <<options, info, table, use_table, use_ranges, use_literal, use_lit_prefix,
          search_string, pc>>

-----------------------------------------------------------------------------
(* The text of a pattern.                                                      *)

Joined(parts, sep) ==
    FoldLeft(LAMBDA acc, p : IF acc = <<>> THEN p ELSE acc \o sep \o p, <<>>, parts)

IsBare(item) == ~item.caseless /\ Len(item.body) = 1 /\ Len(item.body[1]) = 1

ItemText(item) ==
    (IF IsBare(item) THEN item.body[1]
     ELSE <<"(">> \o (IF item.caseless THEN <<"?", "i", ":">> ELSE <<>>)
              \o Joined(item.body, <<"|">>) \o <<")">>)
    \o item.sep
    \o (IF item.quant = "{0,1}" THEN <<"{", "0", ",", "1", "}">>
        ELSE IF item.quant = "" THEN <<>> ELSE <<item.quant>>)

Text(p) ==
    Joined([b \in DOMAIN p |-> FlattenSeq([i \in DOMAIN p[b] |-> ItemText(p[b][i])])],
           <<"|">>)

(* What the library matches: nothing of "sep" is a part of the language, a     *)
(* quantifier behind it applies to what is before it.                          *)

CaseVariants(w) ==
    {v \in [DOMAIN w -> UNION {{w[i], OtherCase(w[i])} : i \in DOMAIN w}] :
        \A i \in DOMAIN w : v[i] \in {w[i], OtherCase(w[i])}}
Folded(words) == UNION {CaseVariants(w) : w \in words}

Concat(U, V) == {u \o v : u \in U, v \in V}

(* "folding" says whether (?i:...) is heeded. *)
ItemWords(item, folding) ==
    LET once == LET plain == ToSet(item.body)
                IN IF item.caseless /\ folding THEN Folded(plain) ELSE plain
    IN once \cup (IF item.quant \in {"?", "*", "{0,1}"} THEN {<<>>} ELSE {})
            \cup (IF item.quant \in {"*", "+"} THEN Concat(once, once) ELSE {})

Words(p, folding) ==
    UNION {FoldLeft(LAMBDA acc, item : Concat(acc, ItemWords(item, folding)), {<<>>}, p[b]) :
              b \in DOMAIN p}

Firsts(words) == {CodeUnit(w[1]) : w \in words}

-----------------------------------------------------------------------------
(* A literal PATTERN is put between \Q and \E; an \E of its own ends the       *)
(* literal part (the items before it are single characters).                   *)
EndsQuoting(p) == \E i \in DOMAIN Text(p) : Text(p)[i] = "\\E"

(* The language that the compiled regex has, and the one that is meant.        *)
Compiled(folding) ==
    LET words == IF pattern_is_literal /\ ~EndsQuoting(pattern) THEN {Text(pattern)}
                 ELSE Words(pattern, folding)
    IN IF ignore_case /\ folding THEN Folded(words) ELSE words

Meant ==
    LET words == IF pattern_is_literal THEN {Text(pattern)} ELSE Words(pattern, TRUE)
    IN IF ignore_case THEN Folded(words) ELSE words

(* What pcre2_pattern_info() tells: a single first code unit as it is written, *)
(* whatever the case options say of it, otherwise the bitmap of all first code *)
(* units, otherwise nothing.                                                   *)
PatternInfo ==
    LET written == Compiled(FALSE)
    IN IF <<>> \in written THEN {<<{}, <<>>>>}
       ELSE IF Cardinality(Firsts(written)) = 1
            THEN {<<{}, <<u>>>> : u \in Firsts(written)} \cup {<<{}, <<>>>>}
            ELSE {<<Firsts(Compiled(TRUE)), <<>>>>, <<{}, <<>>>>}

-----------------------------------------------------------------------------
(* The constructor, which throws when the library rejects the regex, the JIT   *)
(* compiler fails, or the pattern has a callout of its own (not in Patterns);  *)
(* then the two halves of AnalyzeRegex().                                      *)

AnalysisInit ==
    /\ pattern \in Patterns
    /\ ignore_case \in BOOLEAN /\ word_regexp \in BOOLEAN /\ pattern_is_literal \in BOOLEAN
    /\ bitmap = {} /\ first_code_unit = <<>>
    /\ table = <<>> /\ search_string = <<>>
    /\ use_table = FALSE /\ use_ranges = FALSE
    /\ use_literal = FALSE /\ use_lit_prefix = FALSE
    /\ pc = "compile"

Compile ==
    /\ pc = "compile"
    /\ \E i \in PatternInfo : bitmap' = i[1] /\ first_code_unit' = i[2]
    /\ pc' = "first_code_units"
    /\ UNCHANGED <<options, table, use_table, use_ranges, use_literal, use_lit_prefix,
                   search_string>>

CompileFails ==
    /\ pc = "compile"
    /\ pc' = "failed"
    /\ UNCHANGED <<options, info, table, use_table, use_ranges, use_literal, use_lit_prefix,
                   search_string>>

(* Mutant: a single first code unit is trusted when case is ignored. *)
TrustsFirstCodeUnitAlways == TRUE

TrustsFirstCodeUnit == ~ignore_case

FirstCodeUnits ==
    /\ pc = "first_code_units"
    /\ IF bitmap # {}
       THEN LET t == ConstructCodeUnitTable(bitmap)
                ranges == UsesRangePairs(t, ConstructRangePairTable(t))
            IN table' = t /\ use_table' = ~ranges /\ use_ranges' = ranges
       ELSE IF first_code_unit # <<>> /\ TrustsFirstCodeUnit
       THEN table' = first_code_unit /\ use_table' = TRUE /\ UNCHANGED use_ranges
       ELSE UNCHANGED <<table, use_table, use_ranges>>
    /\ pc' = "search_string"
    /\ UNCHANGED <<options, info, use_literal, use_lit_prefix, search_string>>

Metacharacters ==
    {"\\E", "^", "$", ".", "[", "]", "(", ")", "?", "*", "+", "{", "}", "|"}

(* The position of the first of "chars" in the text, from 0; its length if     *)
(* there is none (npos).                                                       *)
FindFirstOf(text, chars) ==
    LET hits == {i \in DOMAIN text : text[i] \in chars}
    IN IF hits = {} THEN Len(text) ELSE Min(hits) - 1

(* Mutant: an alternative does not count as a metacharacter. *)
IsPatternLiteralWithoutBar(text) == FindFirstOf(text, Metacharacters \ {"|"}) = Len(text)

IsPatternLiteral(text) == FindFirstOf(text, Metacharacters) = Len(text)

(* Mutant: the character before "{0,1}" is kept. *)
OptionalModifiersWithoutBrace == {"?", "*"}

OptionalModifiers == {"?", "*", "{"}

CutPrefix(len) == Lesser(len, MaxPrefixLen)

GetLiteralPrefixLen(text) ==
    LET first == FindFirstOf(text, Metacharacters)
        kept == IF first > 1 /\ text[first + 1] \in OptionalModifiers THEN first - 1 ELSE first
    IN IF \E i \in DOMAIN text : text[i] = "|" THEN 1
       ELSE IF first = Len(text) THEN 1
       ELSE CutPrefix(kept)

SearchString ==
    /\ pc = "search_string"
    /\ LET text == Text(pattern)
           may == ~ignore_case /\ ~word_regexp
           prefix_len == GetLiteralPrefixLen(text)
       IN IF may /\ (pattern_is_literal \/ IsPatternLiteral(text))
          THEN use_literal' = TRUE /\ search_string' = text /\ UNCHANGED use_lit_prefix
          ELSE IF may /\ use_table /\ prefix_len > 1
          THEN /\ use_lit_prefix' = TRUE /\ search_string' = SubSeq(text, 1, prefix_len)
               /\ UNCHANGED use_literal
          ELSE UNCHANGED <<use_literal, use_lit_prefix, search_string>>
    /\ pc' = "ready"
    /\ UNCHANGED <<options, info, table, use_table, use_ranges>>

AnalysisNext == Compile \/ CompileFails \/ FirstCodeUnits \/ SearchString

AnalysisSpec == AnalysisInit /\ [][AnalysisNext]_analysis_vars

-----------------------------------------------------------------------------
(* The fields fit together: one table or the other and only with bytes in it,  *)
(* a literal or a prefix of it but not both, and a string to search for        *)
(* exactly with one of them, of which a prefix has at least two characters.    *)
AnalysisTypeOK ==
    /\ pc \in {"compile", "first_code_units", "search_string", "ready", "failed"}
    /\ ~(use_table /\ use_ranges)
    /\ use_table \/ use_ranges <=> table # <<>>
    /\ ~(use_literal /\ use_lit_prefix)
    /\ ~use_literal /\ ~use_lit_prefix => search_string = <<>>
    /\ use_lit_prefix => Len(search_string) \in 2 .. MaxPrefixLen

(* When the library is bypassed (m_use_literal), the string searched for is    *)
(* the only text that the pattern matches: -i, -w and every construct of the   *)
(* regex language must have been noticed.                                      *)
LiteralIsAllThatMatches ==
    use_literal => Meant = {search_string} /\ ~ignore_case /\ ~word_regexp

(* ScanFile() moves to the next occurrence of the prefix and gives up when     *)
(* there is none: every match has to begin with the whole prefix.              *)
PrefixBeginsEveryMatch ==
    use_lit_prefix => \A w \in Compiled(TRUE) : IsPrefix(search_string, w)

(* ScanFile() moves to the next byte of the table ("chars we know aren't at    *)
(* the start of the match" are burnt): no match may begin with another byte,   *)
(* and none may be empty.                                                      *)
TableBeginsEveryMatch ==
    use_table \/ use_ranges =>
        <<>> \notin Compiled(TRUE) /\ Firsts(Compiled(TRUE)) \subseteq ToSet(table)

(* --literal: "Treat all characters in PATTERN as literal."                    *)
LiteralOptionTakesEveryCharacter ==
    pattern_is_literal /\ pc = "ready" =>
        IF use_literal THEN search_string = Text(pattern) ELSE Compiled(TRUE) = Meant
=============================================================================
