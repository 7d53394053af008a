----------------------------- MODULE MCScanFile -----------------------------
(***************************************************************************)
(* All scans of small files for small patterns, on which TLC checks        *)
(* ScanFile.                                                               *)
(***************************************************************************)
EXTENDS ScanFile, Functions

CONSTANTS
  Letter,         \* a byte that is neither a newline nor a continuation byte
  MaxSize,        \* of a file, in bytes
  MaxLength       \* of a match, of a literal and of a prefix

SmallBytes == {Newline, Continuation, Letter}

SmallFiles == UNION {[1 .. n -> SmallBytes] : n \in 1 .. MaxSize}
Literals == UNION {[1 .. n -> SmallBytes] : n \in 1 .. MaxLength}

\* The lengths of the matches at an offset, best first.
Lengths(least) ==
  LET L == least .. MaxLength
  IN {<<>>} \cup {<<n>> : n \in L} \cup {l \in L \X L : l[1] # l[2]}

\* They lie in the file; a second one is asked for only when the first is empty, on a retry, or
\* crosses the end of a line.
Fit(f, b, l) ==
  /\ \A i \in DOMAIN l : b + l[i] <= Len(f)
  /\ Len(l) = 2 => l[1] = 0 \/ ~callout_handler(f, b, b + l[1])

\* The alternatives of the patterns that match only at some offsets, and at least so many bytes.
Alternatives(f, begins, least) ==
  LET Ends(b, l) == [i \in DOMAIN l |-> b + l[i]]
      lengths == {g \in [begins -> Lengths(least)] : \A b \in begins : Fit(f, b, g[b])}
  IN {[b \in 0 .. Len(f) |-> IF b \in begins THEN Ends(b, g[b]) ELSE <<>>] : g \in lengths}

Pattern(search, alternatives, literal, table) ==
  [search |-> search, alternatives |-> alternatives, literal |-> literal, table |-> table]

\* PCRE does not tell continuation bytes from others.
RegexPatterns(e, f) ==
  IF e = "PCRE" /\ Continuation \in Range(f) THEN {}
  ELSE {Pattern("regex", a, <<>>, {}) : a \in Alternatives(f, 0 .. Len(f), 0)}

TablePatterns(f) ==
  LET begins(t) == {i \in 0 .. (Len(f) - 1) : Byte(f, i) \in t}
  IN UNION {{Pattern("table", a, <<>>, t) : a \in Alternatives(f, begins(t), 1)} : t \in SUBSET SmallBytes}

PrefixPatterns(f) ==
  UNION {{Pattern("prefix", a, l, {}) : a \in Alternatives(f, Occurrences(f, l, 0), Len(l))} :
    l \in {l \in Literals : Len(l) > 1}}

LiteralPattern(f, l) == Pattern("literal", [b \in 0 .. Len(f) |-> <<>>], l, {})

LiteralPatterns(e, f) == {LiteralPattern(f, l) : l \in Literals}

EmptyPattern(e, f) == {LiteralPattern(f, <<>>)}

AllPatterns(e, f) ==
  RegexPatterns(e, f) \cup
    IF e = "PCRE2" THEN TablePatterns(f) \cup PrefixPatterns(f) \cup LiteralPatterns(e, f) ELSE {}
=============================================================================
