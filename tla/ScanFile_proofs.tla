-------------------------- MODULE ScanFile_proofs --------------------------
(***************************************************************************)
(* Theorems about module ScanFile: for files of any length and any pattern, *)
(* what the match loop reports is right, and when it ends nothing is        *)
(* missing.                                                                 *)
(***************************************************************************)
EXTENDS ScanFile, FiniteSetTheorems, SequenceTheorems, WellFoundedInduction, TLAPS

-----------------------------------------------------------------------------
(* Least and greatest offsets                                               *)

LEMMA LeastNumber ==
  ASSUME NEW S \in SUBSET Nat, S # {}
  PROVE  \E n \in S : \A m \in S : n <= m
<1> PICK R : R = {ss \in Nat \X Nat : ss[1] < ss[2]}
  OBVIOUS
<1>1. R = OpToRel(<, Nat)
  BY DEF OpToRel
<1>2. IsWellFoundedOn(R, Nat)
  BY ONLY <1>1, NatLessThanWellFounded
<1>3. PICK x \in S : \A y \in S : <<y, x>> \notin R
  BY <1>2, WFMin
<1>4. ASSUME NEW y \in S PROVE ~(y < x)
  <2>1. <<y, x>> \in Nat \X Nat /\ <<y, x>>[1] = y /\ <<y, x>>[2] = x
    OBVIOUS
  <2> QED
    BY <1>3, <2>1
<1> QED
  BY <1>4

LEMMA MinIs ==
  ASSUME NEW S \in SUBSET Nat, S # {}
  PROVE  Min(S) \in S /\ \A y \in S : Min(S) <= y
<1>1. \E x \in S : \A y \in S : x <= y
  BY LeastNumber
<1> QED
  BY <1>1 DEF Min

LEMMA IsMin ==
  ASSUME NEW S \in SUBSET Nat, NEW x \in S, \A y \in S : x <= y
  PROVE  Min(S) = x
<1>1. Min(S) \in S /\ \A y \in S : Min(S) <= y
  BY MinIs
<1>2. Min(S) \in Nat /\ x \in Nat /\ Min(S) <= x /\ x <= Min(S)
  BY <1>1
<1> QED
  BY <1>2

LEMMA MaxIs ==
  ASSUME NEW n \in Nat, NEW S \in SUBSET (0 .. n), S # {}
  PROVE  Max(S) \in S /\ \A y \in S : y <= Max(S)
<1> DEFINE left == {n - x : x \in S}
<1>1. left \in SUBSET Nat /\ left # {}
  <2>1. \A x \in S : x \in 0 .. n /\ n - x \in Nat
    OBVIOUS
  <2> QED
    BY <2>1
<1>2. PICK l \in left : \A m \in left : l <= m
  <2> HIDE DEF left
  <2> QED
    BY <1>1, LeastNumber
<1>3. PICK x \in S : l = n - x
  OBVIOUS
<1>4. ASSUME NEW y \in S PROVE y <= x
  <2>1. l <= n - y
    BY <1>2
  <2>2. x \in 0 .. n /\ y \in 0 .. n
    OBVIOUS
  <2> QED
    BY <1>3, <2>1, <2>2
<1>5. \E z \in S : \A y \in S : z >= y
  <2>1. \A y \in S : x >= y
    <3>1. \A y \in S : y \in 0 .. n /\ x \in 0 .. n
      OBVIOUS
    <3> QED
      BY <1>4, <3>1
  <2> QED
    BY <2>1
<1>6. Max(S) \in S /\ \A y \in S : Max(S) >= y
  BY <1>5 DEF Max
<1> QED
  BY <1>6

LEMMA IsMax ==
  ASSUME NEW n \in Nat, NEW S \in SUBSET (0 .. n), NEW x \in S, \A y \in S : y <= x
  PROVE  Max(S) = x
<1>1. Max(S) \in S /\ \A y \in S : y <= Max(S)
  BY MaxIs
<1>2. x \in 0 .. n /\ Max(S) \in 0 .. n /\ x <= Max(S) /\ Max(S) <= x
  BY <1>1
<1> QED
  BY <1>2

-----------------------------------------------------------------------------
(* The inputs                                                               *)

InputInv == engine \in Engines /\ file \in Files /\ pattern \in Patterns(engine, file)

LEMMA SeqFacts ==
  ASSUME NEW T, NEW s \in Seq(T)
  PROVE  /\ DOMAIN s = 1 .. Len(s) /\ Len(s) \in Nat
         /\ \A i \in DOMAIN s : s[i] \in T
OBVIOUS

\* What a pattern matches, in the form in which it is used here.
Ends(b) == pattern.alternatives[b]

LEMMA FileFacts ==
  ASSUME InputInv
  PROVE  /\ file \in Seq(Bytes) /\ file_size \in Nat \ {0} /\ Newline # Continuation
         /\ engine \in {"PCRE2", "PCRE"}
         /\ pattern.search \in {"regex", "table", "prefix", "literal"}
         /\ engine = "PCRE" => pattern.search = "regex"
         /\ Len(pattern.literal) \in Nat /\ pattern.literal \in Seq(Bytes)
<1>1. file \in Seq(Bytes) /\ file # <<>> /\ Newline # Continuation /\ engine \in {"PCRE2", "PCRE"}
  BY InputsAssumption DEF InputInv
<1>2. Len(file) \in Nat /\ Len(file) # 0
  BY <1>1, EmptySeq
<1>3. /\ pattern.search \in {"regex", "table", "prefix", "literal"} /\ pattern.literal \in Seq(Bytes)
      /\ engine = "PCRE" => pattern.search = "regex"
  BY InputsAssumption DEF InputInv
<1> QED
  BY <1>1, <1>2, <1>3 DEF file_size

LEMMA PatternFacts ==
  ASSUME InputInv, NEW b \in 0 .. file_size
  PROVE  /\ DOMAIN Ends(b) \in SUBSET (Nat \ {0})
         /\ \A i \in DOMAIN Ends(b) :
              /\ Ends(b)[i] \in b .. file_size
              /\ pattern.search = "prefix" => b \in Occurrences(file, pattern.literal, 0)
              /\ pattern.search = "table" => Ends(b)[i] # b /\ Byte(file, b) \in pattern.table
<1>1. WellFormed(file, pattern) /\ WellAnalyzed(file, pattern)
  BY InputsAssumption DEF InputInv
<1>2. file_size \in Nat
  BY FileFacts
<1>3. /\ pattern.alternatives \in [0 .. file_size -> Seq(0 .. file_size)]
      /\ \A i \in DOMAIN Ends(b) : b <= Ends(b)[i]
  BY <1>1 DEF WellFormed, Ends, file_size
<1>4. Ends(b) \in Seq(0 .. file_size) /\ b \in DOMAIN pattern.alternatives
  BY <1>3 DEF Ends
<1>5. DOMAIN Ends(b) = 1 .. Len(Ends(b)) /\ Len(Ends(b)) \in Nat
      /\ \A i \in DOMAIN Ends(b) : Ends(b)[i] \in 0 .. file_size
  BY <1>4, SeqFacts
<1>6. ASSUME NEW i \in DOMAIN Ends(b)
      PROVE  /\ pattern.search = "prefix" => b \in Occurrences(file, pattern.literal, 0)
             /\ pattern.search = "table" => Ends(b)[i] > b /\ Byte(file, b) \in pattern.table
  BY <1>1, <1>4 DEF WellAnalyzed, Ends
<1> QED
  BY <1>2, <1>3, <1>5, <1>6

-----------------------------------------------------------------------------
(* Lines                                                                    *)

LEMMA NewlineCount ==
  ASSUME NEW a \in Nat, NEW b \in Nat
  PROVE  /\ IsFiniteSet(NewlinesIn(file, a, b))
         /\ Cardinality(NewlinesIn(file, a, b)) \in Nat
         /\ Cardinality(NewlinesIn(file, a, b)) = 0 <=> NewlinesIn(file, a, b) = {}
<1>1. IsFiniteSet(a .. (b - 1))
  BY FS_Interval
<1>2. NewlinesIn(file, a, b) \in SUBSET (a .. (b - 1))
  BY DEF NewlinesIn
<1>3. IsFiniteSet(NewlinesIn(file, a, b))
  BY <1>1, <1>2, FS_Subset
<1> QED
  BY <1>3, FS_CardinalityType, FS_EmptySet

LEMMA LinesBetween ==
  ASSUME NEW a \in Nat, NEW b \in Nat, a <= b
  PROVE  /\ LineOf(a) \in Nat \ {0} /\ LineOf(b) \in Nat \ {0}
         /\ LineOf(b) = LineOf(a) + Cardinality(NewlinesIn(file, a, b))
         /\ LineOf(a) <= LineOf(b)
         /\ LineOf(a) = LineOf(b) <=> NewlinesIn(file, a, b) = {}
<1> DEFINE before == NewlinesIn(file, 0, a)
           between == NewlinesIn(file, a, b)
           all == NewlinesIn(file, 0, b)
<1>1. all = before \cup between /\ before \cap between = {}
  <2>1. \A i \in 0 .. (b - 1) : i \in 0 .. (a - 1) \/ i \in a .. (b - 1)
    OBVIOUS
  <2>2. \A i : (i \in 0 .. (a - 1) \/ i \in a .. (b - 1)) => i \in 0 .. (b - 1)
    OBVIOUS
  <2>3. \A i : ~(i \in 0 .. (a - 1) /\ i \in a .. (b - 1))
    OBVIOUS
  <2> QED
    BY <2>1, <2>2, <2>3 DEF NewlinesIn
<1>2. /\ IsFiniteSet(before) /\ Cardinality(before) \in Nat
      /\ IsFiniteSet(between) /\ Cardinality(between) \in Nat
      /\ Cardinality(between) = 0 <=> between = {}
      /\ Cardinality(all) \in Nat
  BY NewlineCount
<1>3. LineOf(a) = 1 + Cardinality(before) /\ LineOf(b) = 1 + Cardinality(all)
  BY DEF LineOf
<1> HIDE DEF before, between, all
<1>4. Cardinality(all) = Cardinality(before) + Cardinality(between) - Cardinality({})
  BY <1>1, <1>2, FS_Union
<1>5. Cardinality({}) = 0
  BY FS_EmptySet
<1>6. Cardinality(all) = Cardinality(before) + Cardinality(between)
  BY <1>2, <1>4, <1>5
<1>7. /\ LineOf(a) \in Nat \ {0} /\ LineOf(b) \in Nat \ {0}
      /\ LineOf(b) = LineOf(a) + Cardinality(between)
  BY <1>2, <1>3, <1>6
<1>8. LineOf(a) = LineOf(b) <=> Cardinality(between) = 0
  BY <1>2, <1>7
<1>9. LineOf(a) <= LineOf(b)
  BY <1>2, <1>7
<1> QED
  BY <1>2, <1>7, <1>8, <1>9 DEF between

LEMMA NextOffsetsLine ==
  ASSUME NEW a \in Nat
  PROVE  LineOf(a + 1) = IF Byte(file, a) = Newline THEN LineOf(a) + 1 ELSE LineOf(a)
<1>1. LineOf(a) \in Nat /\ LineOf(a + 1) = LineOf(a) + Cardinality(NewlinesIn(file, a, a + 1))
  BY LinesBetween
<1>2. \A i : i \in a .. ((a + 1) - 1) <=> i = a
  OBVIOUS
<1>3. NewlinesIn(file, a, a + 1) = IF Byte(file, a) = Newline THEN {a} ELSE {}
  BY <1>2 DEF NewlinesIn
<1>4. CASE Byte(file, a) = Newline
  <2>1. Cardinality({a}) = 1
    BY FS_Singleton
  <2> QED
    BY <1>1, <1>3, <1>4, <2>1
<1>5. CASE Byte(file, a) # Newline
  <2>1. Cardinality({}) = 0
    BY FS_EmptySet
  <2> QED
    BY <1>1, <1>3, <1>5, <2>1
<1> QED
  BY <1>4, <1>5

\* The two ends of a line, found from an offset on it.
LEMMA LineStartIs ==
  ASSUME NEW n \in Nat, n = file_size, NEW b \in 0 .. n
  PROVE  /\ LineStart(file, b) = Min(OnLine(LineOf(b)))
         /\ LineStart(file, b) \in 0 .. b
<1> DEFINE starts == {0} \cup {i + 1 : i \in NewlinesIn(file, 0, b)}
           first == LineStart(file, b)
<1>1. starts \in SUBSET (0 .. n) /\ starts # {}
  BY DEF NewlinesIn
<1>2. first \in starts /\ \A y \in starts : y <= first
  BY <1>1, MaxIs DEF LineStart
<1>3. first \in 0 .. b
  BY <1>2 DEF NewlinesIn
<1>4. NewlinesIn(file, first, b) = {}
  <2>1. ASSUME NEW i \in NewlinesIn(file, first, b) PROVE FALSE
    <3>1. i \in first .. (b - 1) /\ Byte(file, i) = Newline
      BY DEF NewlinesIn
    <3>2. i \in NewlinesIn(file, 0, b)
      BY <1>3, <3>1 DEF NewlinesIn
    <3>3. i + 1 \in starts
      BY <3>2
    <3>4. i + 1 <= first
      BY <1>2, <3>3
    <3> HIDE DEF first, starts
    <3> QED
      BY <1>3, <3>1, <3>4
  <2> QED
    BY <2>1
<1>5. LineOf(first) = LineOf(b)
  <2> HIDE DEF first
  <2>1. first \in Nat /\ b \in Nat /\ first <= b
    BY <1>3
  <2> QED
    BY <1>4, <2>1, LinesBetween
<1>6. ASSUME NEW o \in OnLine(LineOf(b)) PROVE first <= o
  <2>1. o \in 0 .. n /\ LineOf(o) = LineOf(b)
    BY DEF OnLine
  <2>2. CASE first = 0
    BY <2>1, <2>2
  <2>3. CASE first # 0 /\ o < first
    <3>1. PICK i \in NewlinesIn(file, 0, b) : first = i + 1
      BY <1>2, <2>3
    <3>2. i \in Nat /\ Byte(file, i) = Newline
      BY DEF NewlinesIn
    <3>3. LineOf(first) = LineOf(i) + 1
      BY <3>1, <3>2, NextOffsetsLine
    <3> HIDE DEF first
    <3>4. o \in Nat /\ o <= i
      BY <1>3, <2>1, <2>3, <3>1, <3>2
    <3>5. LineOf(o) <= LineOf(i) /\ LineOf(i) \in Nat /\ LineOf(o) \in Nat
      BY <3>2, <3>4, LinesBetween
    <3> QED
      BY <1>5, <2>1, <3>3, <3>5
  <2> HIDE DEF first
  <2> QED
    BY <1>3, <2>1, <2>2, <2>3
<1> HIDE DEF first
<1>7. OnLine(LineOf(b)) \in SUBSET Nat /\ first \in OnLine(LineOf(b))
  BY <1>3, <1>5 DEF OnLine
<1> QED
  BY <1>3, <1>6, <1>7, IsMin DEF first

LEMMA LineEndIs ==
  ASSUME NEW n \in Nat, n = file_size, NEW b \in 0 .. n
  PROVE  /\ LineEnd(file, b) = Max(OnLine(LineOf(b)))
         /\ LineEnd(file, b) \in b .. n
         /\ NewlinesIn(file, b, LineEnd(file, b)) = {}
         /\ LineEnd(file, b) # n => Byte(file, LineEnd(file, b)) = Newline
<1> DEFINE stops == {n} \cup NewlinesIn(file, b, n)
           last == LineEnd(file, b)
<1>1. stops \in SUBSET Nat /\ stops # {}
  BY DEF NewlinesIn
<1>2. last \in stops /\ \A y \in stops : last <= y
  BY <1>1, MinIs DEF LineEnd, file_size
<1>3. last \in b .. n /\ (last # n => Byte(file, last) = Newline)
  BY <1>2 DEF NewlinesIn
<1> HIDE DEF last
<1>4. NewlinesIn(file, b, last) = {}
  <2>1. ASSUME NEW i \in NewlinesIn(file, b, last) PROVE FALSE
    <3>1. i \in b .. (last - 1) /\ Byte(file, i) = Newline
      BY DEF NewlinesIn
    <3>2. i \in NewlinesIn(file, b, n)
      BY <1>3, <3>1 DEF NewlinesIn
    <3>3. last <= i
      BY <1>2, <3>2
    <3> QED
      BY <1>3, <3>1, <3>3
  <2> QED
    BY <2>1
<1>5. LineOf(last) = LineOf(b)
  <2>1. last \in Nat /\ b \in Nat /\ b <= last
    BY <1>3
  <2> QED
    BY <1>4, <2>1, LinesBetween
<1>6. ASSUME NEW o \in OnLine(LineOf(b)) PROVE o <= last
  <2>1. o \in 0 .. n /\ LineOf(o) = LineOf(b)
    BY DEF OnLine
  <2>2. CASE last = n
    BY <2>1, <2>2
  <2>3. CASE last # n /\ last < o
    <3>1. LineOf(last + 1) = LineOf(last) + 1
      BY <1>3, <2>3, NextOffsetsLine
    <3>2. last + 1 \in Nat /\ o \in Nat /\ last + 1 <= o
      BY <1>3, <2>1, <2>3
    <3>3. LineOf(last + 1) <= LineOf(o) /\ LineOf(o) \in Nat
      BY <3>2, LinesBetween
    <3> QED
      BY <1>5, <2>1, <3>1, <3>3
  <2> QED
    BY <1>3, <2>1, <2>2, <2>3
<1>7. OnLine(LineOf(b)) \in SUBSET (0 .. n) /\ last \in OnLine(LineOf(b))
  BY <1>3, <1>5 DEF OnLine
<1>8. Max(OnLine(LineOf(b))) = last
  BY <1>6, <1>7, IsMax
<1> QED
  BY <1>3, <1>4, <1>8 DEF last

-----------------------------------------------------------------------------
(* One attempt                                                              *)

\* The callout admits the matches that stay on their line.
LEMMA AdmittedStay ==
  ASSUME InputInv, NEW b \in 0 .. file_size, NEW nonempty \in BOOLEAN
  PROVE  /\ StayOnLine(b) \in SUBSET Nat
         /\ Admitted(file, pattern, b, nonempty) = {i \in StayOnLine(b) : nonempty => Ends(b)[i] # b}
<1>1. b \in Nat /\ file_size \in Nat
  BY FileFacts
<1>2. ASSUME NEW i \in DOMAIN Ends(b)
      PROVE  callout_handler(file, b, Ends(b)[i]) <=> LineOf(Ends(b)[i]) = LineOf(b)
  <2>1. Ends(b)[i] \in b .. file_size
    BY PatternFacts
  <2>2. Ends(b)[i] \in Nat /\ b <= Ends(b)[i]
    BY <1>1, <2>1
  <2> QED
    BY <1>1, <2>2, LinesBetween DEF callout_handler
<1>3. DOMAIN Ends(b) \in SUBSET Nat
  BY PatternFacts
<1> QED
  BY <1>2, <1>3 DEF Admitted, StayOnLine, Ends

\* The leftmost offset at which a match is admitted, and the first one admitted there.
Tried(from, retry) == IF retry THEN {from} ELSE from .. file_size

NoneAdmitted(from, retry) ==
  \A b \in Tried(from, retry) : Admitted(file, pattern, b, retry) = {}

FirstAdmitted(R, from, retry) ==
  /\ R.begin \in Tried(from, retry) /\ Admitted(file, pattern, R.begin, retry) # {}
  /\ R = [begin |-> R.begin, end |-> Ends(R.begin)[Min(Admitted(file, pattern, R.begin, retry))]]
  /\ \A b \in Tried(from, retry) : Admitted(file, pattern, b, retry) # {} => R.begin <= b

LEMMA RegexFinds ==
  ASSUME InputInv, NEW from \in 0 .. file_size, NEW retry \in BOOLEAN, NEW R,
         R = regex_match(file, pattern, from, retry)
  PROVE  (R = NoMatch /\ NoneAdmitted(from, retry)) \/ FirstAdmitted(R, from, retry)
<1> DEFINE tried == Tried(from, retry)
           found == {b \in tried : Admitted(file, pattern, b, retry) # {}}
           Of(b) == [begin |-> b, end |-> pattern.alternatives[b][Min(Admitted(file, pattern, b, retry))]]
           preferred == {Of(b) : b \in found}
<1>1. file_size \in Nat
  BY FileFacts
<1>2. tried \in SUBSET Nat
  BY <1>1 DEF Tried
<1>3. R = IF found = {} THEN NoMatch ELSE CHOOSE m \in preferred : \A b \in found : m.begin <= b
  BY DEF regex_match, file_size, Tried
<1>4. CASE found = {}
  BY <1>3, <1>4 DEF NoneAdmitted
<1>5. CASE found # {}
  <2>1. PICK x \in found : \A b \in found : x <= b
    <3>1. found \in SUBSET Nat
      BY <1>2
    <3> HIDE DEF found
    <3> QED
      BY <1>5, <3>1, LeastNumber
  <2>2. Of(x) \in preferred /\ Of(x).begin = x
    BY <2>1
  <2>3. \E m \in preferred : \A b \in found : m.begin <= b
    BY <2>1, <2>2
  <2>4. R \in preferred /\ \A b \in found : R.begin <= b
    <3> HIDE DEF found, preferred
    <3> QED
      BY <1>3, <1>5, <2>3
  <2>5. PICK b \in found : R = Of(b)
    BY <2>4
  <2>6. R.begin = b
    BY <2>5
  <2> QED
    BY <2>4, <2>5, <2>6 DEF Ends, FirstAdmitted
<1> QED
  BY <1>4, <1>5

LEMMA LiteralFinds ==
  ASSUME InputInv, NEW from \in 0 .. file_size, NEW R,
         R = LiteralMatch(file, pattern.literal, from)
  PROVE  LET found == {b \in Occurrences(file, pattern.literal, 0) : from <= b}
             n == Len(pattern.literal)
         IN \/ R = NoMatch /\ found = {}
            \/ /\ R.begin \in found /\ R.begin + n <= file_size
               /\ R = [begin |-> R.begin, end |-> R.begin + n]
               /\ \A b \in found : R.begin <= b
<1> DEFINE found == Occurrences(file, pattern.literal, from)
           n == Len(pattern.literal)
<1>1. file_size \in Nat /\ n \in Nat
  BY FileFacts
<1>2. found = {b \in Occurrences(file, pattern.literal, 0) : from <= b}
  <2>1. \A i : i \in from .. (file_size - n) <=> i \in 0 .. (file_size - n) /\ from <= i
    BY <1>1
  <2> QED
    BY <2>1 DEF Occurrences, file_size
<1>3. found \in SUBSET Nat /\ \A b \in found : b + n <= file_size
  BY <1>1 DEF Occurrences, file_size
<1>4. R = IF found = {} THEN NoMatch ELSE [begin |-> Min(found), end |-> Min(found) + n]
  BY DEF LiteralMatch
<1> HIDE DEF found
<1>5. CASE found = {}
  BY <1>2, <1>4, <1>5
<1>6. CASE found # {}
  <2>1. Min(found) \in found /\ \A b \in found : Min(found) <= b
    BY <1>3, <1>6, MinIs
  <2>2. R.begin = Min(found) /\ R.end = Min(found) + n
    BY <1>4, <1>6
  <2> QED
    BY <1>2, <1>3, <1>4, <1>6, <2>1, <2>2
<1> QED
  BY <1>5, <1>6

\* Where the ovector may be when an attempt is made.
Offsets ==
  /\ ovector \in [begin : -1 .. file_size, end : 0 .. file_size]
  /\ start_offset \in 0 .. file_size /\ prev_lineno_search_end \in 0 .. file_size

\* Nothing that matches is skipped on the way to the first attempt.
LEMMA AttemptsFrom ==
  ASSUME InputInv, Offsets
  PROVE  /\ AttemptFrom \in ovector.end .. file_size
         /\ Retry \/ pattern.search = "literal" => StartsOfAttempt # {} /\ AttemptFrom = ovector.end
         /\ ~Retry /\ pattern.search # "literal" =>
              \A b \in ovector.end .. file_size :
                StayOnLine(b) # {} => StartsOfAttempt # {} /\ AttemptFrom <= b
<1> DEFINE from == ovector.end
<1>1. from \in 0 .. file_size /\ file_size \in Nat
  BY FileFacts DEF Offsets
<1>2. CASE Retry \/ pattern.search = "literal"
  <2>1. StartsOfAttempt = {from}
    BY <1>2 DEF StartsOfAttempt
  <2>2. Min({from}) = from
    <3> HIDE DEF from
    <3>1. {from} \in SUBSET Nat /\ from \in {from} /\ \A y \in {from} : from <= y
      BY <1>1
    <3> QED
      BY <3>1, IsMin
  <2> QED
    BY <1>1, <1>2, <2>1, <2>2 DEF AttemptFrom
<1>3. CASE ~Retry /\ pattern.search # "literal"
  <2>1. StartsOfAttempt = Candidates(file, pattern, from)
    BY <1>3 DEF StartsOfAttempt
  <2>2. pattern.search \in {"regex", "table", "prefix"} /\ Len(pattern.literal) \in Nat
    BY <1>3, FileFacts
  <2>3. StartsOfAttempt \in SUBSET (from .. file_size)
    <3>1. CASE pattern.search = "regex"
      BY <1>1, <2>1, <3>1 DEF Candidates
    <3>2. CASE pattern.search = "table"
      BY <1>1, <2>1, <3>2 DEF Candidates, file_size
    <3>3. CASE pattern.search = "prefix"
      <4>1. \A i \in from .. (file_size - Len(pattern.literal)) : i \in from .. file_size
        BY <1>1, <2>2
      <4>2. Candidates(file, pattern, from) = Occurrences(file, pattern.literal, from)
        BY <3>3 DEF Candidates
      <4> QED
        BY <2>1, <4>1, <4>2 DEF Occurrences, file_size
    <3> QED
      BY <2>2, <3>1, <3>2, <3>3
  <2>4. AttemptFrom \in from .. file_size
        /\ \A b \in StartsOfAttempt : AttemptFrom <= b
    <3>1. StartsOfAttempt \in SUBSET Nat
      BY <1>1, <2>3
    <3>2. CASE StartsOfAttempt = {}
      BY <1>1, <3>2 DEF AttemptFrom
    <3>3. CASE StartsOfAttempt # {}
      BY <2>3, <3>1, <3>3, MinIs DEF AttemptFrom
    <3> QED
      BY <3>2, <3>3
  <2>5. ASSUME NEW b \in from .. file_size, StayOnLine(b) # {}
        PROVE  StartsOfAttempt # {} /\ AttemptFrom <= b
    <3>1. b \in 0 .. file_size
      BY <1>1
    <3>2. \E i \in DOMAIN Ends(b) : TRUE
      BY <2>5 DEF StayOnLine, Ends
    <3>3. CASE pattern.search = "regex"
      <4>1. StartsOfAttempt = {from}
        BY <2>1, <3>3 DEF Candidates
      <4>2. AttemptFrom <= from
        BY <2>4, <4>1
      <4> QED
        BY <1>1, <2>4, <3>1, <4>1, <4>2
    <3>4. CASE pattern.search = "table"
      <4>1. PICK i \in DOMAIN Ends(b) : Ends(b)[i] \in b .. file_size /\ Ends(b)[i] # b /\ Byte(file, b) \in pattern.table
        BY <3>1, <3>2, <3>4, PatternFacts
      <4>2. b \in from .. (file_size - 1)
        BY <1>1, <3>1, <4>1
      <4>3. b \in StartsOfAttempt
        BY <2>1, <3>4, <4>1, <4>2 DEF Candidates, file_size
      <4> QED
        BY <2>4, <4>3
    <3>5. CASE pattern.search = "prefix"
      <4>1. b \in Occurrences(file, pattern.literal, 0)
        BY <3>1, <3>2, <3>5, PatternFacts
      <4>2. b \in 0 .. (file_size - Len(pattern.literal)) => b \in from .. (file_size - Len(pattern.literal))
        BY <1>1, <2>2
      <4>3. b \in Occurrences(file, pattern.literal, from)
        BY <4>1, <4>2 DEF Occurrences, file_size
      <4>4. b \in StartsOfAttempt
        BY <2>1, <3>5, <4>3 DEF Candidates
      <4> QED
        BY <2>4, <4>4
    <3> QED
      BY <2>2, <3>3, <3>4, <3>5
  <2> QED
    BY <1>3, <2>4, <2>5
<1> QED
  BY <1>2, <1>3

\* What an attempt finds: the next match from where it is made, unless it looks for a second one
\* at the offset of an empty match.
FindsNothing == ~Retry \/ pattern.search = "literal" => \A b \in ovector.end .. file_size : ~Matches(b)

Finds(F) ==
  /\ F \in [begin : 0 .. file_size, end : 0 .. file_size]
  /\ AttemptFrom <= F.begin /\ F.begin <= F.end
  /\ Matches(F.begin)
  /\ \A b \in ovector.end .. file_size : Matches(b) => F.begin <= b
  /\ ~Retry \/ pattern.search = "literal" => F.end = BestEnd(F.begin)
  /\ IF pattern.search = "literal"
     THEN F.begin \in Occurrences(file, pattern.literal, 0) /\ F.end = F.begin + Len(pattern.literal)
     ELSE NewlinesIn(file, F.begin, F.end) = {} /\ (Retry => F.begin = ovector.end)

LEMMA FoundByRegex ==
  ASSUME InputInv, Offsets, pattern.search # "literal", StartsOfAttempt # {}, NEW F,
         F = regex_match(file, pattern, AttemptFrom, Retry)
  PROVE  (F = NoMatch /\ FindsNothing) \/ (F # NoMatch /\ Finds(F))
<1> DEFINE tried == Tried(AttemptFrom, Retry)
<1>1. /\ file_size \in Nat /\ Retry \in BOOLEAN
      /\ ovector.end \in 0 .. file_size /\ AttemptFrom \in ovector.end .. file_size
  BY FileFacts, AttemptsFrom DEF Offsets, Retry
<1>2. AttemptFrom \in 0 .. file_size
  BY <1>1
<1>3. ASSUME NEW b \in ovector.end .. file_size
      PROVE  /\ b \in 0 .. file_size /\ Matches(b) <=> StayOnLine(b) # {}
             /\ ~Retry => Admitted(file, pattern, b, Retry) = StayOnLine(b)
             /\ ~Retry /\ Matches(b) => b \in tried
  <2>1. b \in 0 .. file_size
    BY <1>1
  <2>2. ~Retry => Admitted(file, pattern, b, Retry) = StayOnLine(b)
    BY <1>1, <2>1, AdmittedStay
  <2>3. Matches(b) <=> StayOnLine(b) # {}
    BY DEF Matches
  <2>4. ASSUME ~Retry, Matches(b) PROVE b \in tried
    <3>1. AttemptFrom <= b
      BY <2>3, <2>4, AttemptsFrom
    <3> QED
      BY <1>1, <2>4, <3>1 DEF Tried
  <2> QED
    BY <2>1, <2>2, <2>3, <2>4
<1>4. CASE F = NoMatch /\ NoneAdmitted(AttemptFrom, Retry)
  <2>1. ASSUME ~Retry, NEW b \in ovector.end .. file_size, Matches(b) PROVE FALSE
    <3>1. b \in tried
      BY <1>3, <2>1
    <3>2. Admitted(file, pattern, b, Retry) = StayOnLine(b)
      BY <1>3, <2>1
    <3>3. StayOnLine(b) # {}
      BY <2>1 DEF Matches
    <3> QED
      BY <1>4, <3>1, <3>2, <3>3 DEF NoneAdmitted
  <2> QED
    BY <1>4, <2>1 DEF FindsNothing
<1>5. CASE FirstAdmitted(F, AttemptFrom, Retry)
  <2> DEFINE B == F.begin
             best == Min(Admitted(file, pattern, B, Retry))
  <2>1. B \in AttemptFrom .. file_size /\ (Retry => B = AttemptFrom)
    BY <1>1, <1>5 DEF FirstAdmitted, Tried
  <2>2. B \in 0 .. file_size /\ AttemptFrom <= B /\ B \in ovector.end .. file_size
    BY <1>1, <2>1
  <2> HIDE DEF B
  <2>3. /\ StayOnLine(B) \in SUBSET Nat
        /\ Admitted(file, pattern, B, Retry) = {i \in StayOnLine(B) : Retry => Ends(B)[i] # B}
    BY <1>1, <2>2, AdmittedStay
  <2>4. best \in Admitted(file, pattern, B, Retry)
    <3>1. Admitted(file, pattern, B, Retry) # {}
      BY <1>5 DEF B, FirstAdmitted
    <3> QED
      BY <2>3, <3>1, MinIs
  <2>5. best \in StayOnLine(B)
    BY <2>3, <2>4
  <2>6. best \in DOMAIN Ends(B) /\ LineOf(Ends(B)[best]) = LineOf(B)
    BY <2>5 DEF StayOnLine, Ends
  <2>7. Ends(B)[best] \in B .. file_size
    BY <2>2, <2>6, PatternFacts
  <2>8. F.end = Ends(B)[best]
    BY <1>5 DEF B, FirstAdmitted
  <2>9. B \in Nat /\ F.end \in Nat /\ F.end \in 0 .. file_size /\ B <= F.end
    BY <1>1, <2>2, <2>7, <2>8
  <2>10. NewlinesIn(file, B, F.end) = {}
    BY <2>6, <2>8, <2>9, LinesBetween
  <2>11. Matches(B)
    BY <2>5 DEF Matches
  <2>12. ASSUME NEW b \in ovector.end .. file_size, Matches(b) PROVE B <= b
    <3>1. CASE Retry
      <4>1. B = ovector.end
        BY <2>1, <3>1, AttemptsFrom
      <4> QED
        BY <1>1, <4>1
    <3>2. CASE ~Retry
      <4>1. b \in tried
        BY <1>3, <2>12, <3>2
      <4>2. Admitted(file, pattern, b, Retry) # {}
        <5>1. Admitted(file, pattern, b, Retry) = StayOnLine(b)
          BY <1>3, <3>2
        <5>2. StayOnLine(b) # {}
          BY <2>12 DEF Matches
        <5> QED
          BY <5>1, <5>2
      <4> QED
        BY <1>5, <4>1, <4>2 DEF B, FirstAdmitted
    <3> QED
      BY <3>1, <3>2
  <2>13. ~Retry => F.end = BestEnd(B)
    <3>1. ~Retry => best = Min(StayOnLine(B))
      BY <2>3
    <3> QED
      BY <2>8, <3>1 DEF BestEnd, Ends
  <2>14. F = [begin |-> B, end |-> F.end]
    BY <1>5, <2>8 DEF B, FirstAdmitted
  <2>15. F \in [begin : 0 .. file_size, end : 0 .. file_size]
    <3> HIDE DEF B
    <3>1. [begin |-> B, end |-> F.end] \in [begin : 0 .. file_size, end : 0 .. file_size]
      BY <2>2, <2>9
    <3> QED
      BY <2>14, <3>1
  <2>16. Retry => B = ovector.end
    BY <2>1, AttemptsFrom
  <2>17. F # NoMatch
    BY <2>2, <1>1 DEF NoMatch, B
  <2>18. F.begin = B
    BY DEF B
  <2>19. Finds(F)
    BY <2>2, <2>9, <2>10, <2>11, <2>12, <2>13, <2>15, <2>16, <2>18 DEF Finds
  <2> QED
    BY <2>17, <2>19
<1>6. (F = NoMatch /\ NoneAdmitted(AttemptFrom, Retry)) \/ FirstAdmitted(F, AttemptFrom, Retry)
  BY <1>1, <1>2, RegexFinds
<1> QED
  BY <1>4, <1>5, <1>6

LEMMA FoundLiterally ==
  ASSUME InputInv, Offsets, pattern.search = "literal", NEW F,
         F = LiteralMatch(file, pattern.literal, ovector.end)
  PROVE  (F = NoMatch /\ FindsNothing) \/ (F # NoMatch /\ Finds(F))
<1> DEFINE found == {b \in Occurrences(file, pattern.literal, 0) : ovector.end <= b}
           n == Len(pattern.literal)
<1>1. /\ file_size \in Nat /\ n \in Nat /\ ovector.end \in 0 .. file_size
      /\ AttemptFrom = ovector.end
  BY FileFacts, AttemptsFrom DEF Offsets
<1>2. \A b \in ovector.end .. file_size : Matches(b) => b \in found
  BY <1>1 DEF Matches
<1>3. CASE F = NoMatch /\ found = {}
  BY <1>2, <1>3 DEF FindsNothing
<1>4. CASE /\ F.begin \in found /\ F.begin + n <= file_size
           /\ F = [begin |-> F.begin, end |-> F.begin + n]
           /\ \A b \in found : F.begin <= b
  <2>1. F.begin \in Occurrences(file, pattern.literal, 0) /\ ovector.end <= F.begin
    BY <1>4
  <2>2. F.begin \in 0 .. (file_size - n)
    BY <2>1 DEF Occurrences, file_size
  <2>3. F.begin \in Nat /\ F.begin <= file_size
    BY <1>1, <2>2
  <2>4. F.end = F.begin + n
    BY <1>4
  <2>5. F.end \in 0 .. file_size /\ F.begin \in 0 .. file_size /\ F.begin <= F.end
    BY <1>1, <1>4, <2>3, <2>4
  <2>6. F \in [begin : 0 .. file_size, end : 0 .. file_size]
    <3>1. F = [begin |-> F.begin, end |-> F.end]
      BY <1>4, <2>4
    <3>2. [begin |-> F.begin, end |-> F.end] \in [begin : 0 .. file_size, end : 0 .. file_size]
      BY <2>5
    <3> QED
      BY <3>1, <3>2
  <2>7. Matches(F.begin) /\ BestEnd(F.begin) = F.end
    BY <2>1, <2>4 DEF Matches, BestEnd
  <2>8. F # NoMatch
    BY <2>3 DEF NoMatch
  <2> QED
    BY <1>1, <1>2, <1>4, <2>1, <2>4, <2>5, <2>6, <2>7, <2>8 DEF Finds
<1>5. ovector.end \in 0 .. file_size
  BY <1>1
<1> QED
  BY <1>3, <1>4, <1>5, LiteralFinds

LEMMA FoundIs ==
  ASSUME InputInv, Offsets
  PROVE  (Found = NoMatch /\ FindsNothing) \/ (Found # NoMatch /\ Finds(Found))
<1>1. CASE StartsOfAttempt = {}
  <2>1. Found = NoMatch
    BY <1>1, AttemptsFrom DEF Found
  <2>2. ~Retry /\ pattern.search # "literal" /\ \A b \in ovector.end .. file_size : StayOnLine(b) = {}
    BY <1>1, AttemptsFrom
  <2> QED
    BY <2>1, <2>2 DEF FindsNothing, Matches
<1>2. CASE StartsOfAttempt # {} /\ pattern.search = "literal"
  <2>1. Found = LiteralMatch(file, pattern.literal, ovector.end)
    BY <1>2 DEF Found
  <2> QED
    BY <1>2, <2>1, FoundLiterally
<1>3. CASE StartsOfAttempt # {} /\ pattern.search # "literal"
  <2>1. Found = regex_match(file, pattern, AttemptFrom, Retry)
    BY <1>3 DEF Found
  <2> QED
    BY <1>3, <2>1, FoundByRegex
<1> QED
  BY <1>1, <1>2, <1>3

-----------------------------------------------------------------------------
(* The inductive invariant                                                  *)

Reports == [line : Nat, start : Nat, begin : Nat, end : Nat, stop : Nat]

\* Lines are counted up to the last match, which was reported or is on the line of the one that
\* was; an empty one is where the next attempt is made.
CountInv ==
  /\ line_no = LineOf(prev_lineno_search_end) /\ prev_lineno_search_end <= ovector.end
  /\ ovector.begin <= ovector.end
  /\ IF prev_lineno = 0
     THEN ml = <<>> /\ ovector = [begin |-> -1, end |-> 0] /\ start_offset = 0
     ELSE prev_lineno = line_no
  /\ Retry => prev_lineno_search_end = ovector.end
  /\ \A i \in DOMAIN ml : ml[i].line <= prev_lineno

\* A literal with a newline is not reported: Match throws.
LiteralInv ==
  pattern.search = "literal" /\ prev_lineno # 0 =>
    \A b \in Occurrences(file, pattern.literal, 0) :
      NewlinesIn(file, b, b + Len(pattern.literal)) = {}

\* Nothing is missing before the next attempt, nor on the line it begins on unless the line begins
\* there.
PassedInv ==
  /\ prev_lineno # 0 => Reported(prev_lineno)
  /\ \A b \in 0 .. file_size : b < ovector.end /\ Matches(b) =>
       Reported(LineOf(b)) \/ BeginsInsideCharacter(LineOf(b))
  /\ \/ ovector.end = 0 \/ prev_lineno = LineOf(ovector.end)
     \/ Byte(file, ovector.end - 1) = Newline \/ BeginsInsideCharacter(LineOf(ovector.end))

\* An attempt at the end of the file finds an empty match.
EndInv == start_offset = file_size => Retry /\ ovector.end = file_size

ScanInv == CountInv /\ LiteralInv /\ PassedInv /\ EndInv

IInv ==
  /\ InputInv /\ TypeOK /\ ml \in Seq(Reports)
  /\ ReportSound /\ ReportComplete
  /\ pc = "scan" => ScanInv

\* The reference is a function of the inputs.
LEMMA SameInputs ==
  ASSUME UNCHANGED input_vars
  PROVE  /\ file' = file /\ pattern' = pattern /\ engine' = engine /\ file_size' = file_size
         /\ \A o : LineOf(o)' = LineOf(o) /\ OnLine(o)' = OnLine(o) /\ Matches(o)' = Matches(o)
                   /\ MatchStarts(o)' = MatchStarts(o) /\ BestEnd(o)' = BestEnd(o)
                   /\ BeginsInsideCharacter(o)' = BeginsInsideCharacter(o)
         /\ NumLines' = NumLines
<1>1. file' = file /\ pattern' = pattern /\ engine' = engine /\ file_size' = file_size
  BY DEF input_vars, file_size
<1>2. \A o : LineOf(o)' = LineOf(o)
  BY <1>1 DEF LineOf
<1>3. \A o : OnLine(o)' = OnLine(o)
  BY <1>1, <1>2 DEF OnLine
<1>4. \A o : StayOnLine(o)' = StayOnLine(o)
  BY <1>1, <1>2 DEF StayOnLine
<1>5. \A o : Matches(o)' = Matches(o) /\ BestEnd(o)' = BestEnd(o)
  BY <1>1, <1>4 DEF Matches, BestEnd
<1>6. \A o : MatchStarts(o)' = MatchStarts(o)
  BY <1>3, <1>5 DEF MatchStarts
<1>7. NumLines' = NumLines
  BY <1>1, <1>2 DEF NumLines
<1>8. \A o : BeginsInsideCharacter(o)' = BeginsInsideCharacter(o)
  BY <1>1, <1>3, <1>7 DEF BeginsInsideCharacter
<1> QED
  BY <1>1, <1>2, <1>3, <1>5, <1>6, <1>7, <1>8

LEMMA SameReports ==
  ASSUME UNCHANGED input_vars, UNCHANGED ml
  PROVE  /\ ReportSound' <=> ReportSound
         /\ \A n : Reported(n)' <=> Reported(n)
<1>1. \A o : LineOf(o)' = LineOf(o) /\ OnLine(o)' = OnLine(o) /\ MatchStarts(o)' = MatchStarts(o)
             /\ BestEnd(o)' = BestEnd(o) /\ BeginsInsideCharacter(o)' = BeginsInsideCharacter(o)
  BY SameInputs
<1> QED
  BY <1>1 DEF ReportSound, Reported

LEMMA InitInv == Init => IInv
<1> SUFFICES ASSUME Init PROVE IInv
  OBVIOUS
<1>1. InputInv
  BY DEF Init, InputInv
<1>2. file_size \in Nat \ {0}
  BY <1>1, FileFacts
<1>3. TypeOK
  BY <1>2 DEF Init, TypeOK
<1>4. ml \in Seq(Reports) /\ DOMAIN ml = {}
  BY DEF Init
<1>5. ReportSound /\ ReportComplete
  BY <1>4 DEF ReportSound, ReportComplete, Init
<1>6. LineOf(0) = 1
  <2>1. NewlinesIn(file, 0, 0) = {}
    BY DEF NewlinesIn
  <2>2. Cardinality({}) = 0
    BY FS_EmptySet
  <2> QED
    BY <2>1, <2>2 DEF LineOf
<1>7. CountInv
  BY <1>4, <1>6 DEF Init, CountInv, Retry
<1>8. LiteralInv /\ PassedInv /\ EndInv
  BY <1>2 DEF Init, LiteralInv, PassedInv, EndInv
<1> QED
  BY <1>1, <1>3, <1>4, <1>5, <1>7, <1>8 DEF IInv, ScanInv

-----------------------------------------------------------------------------
(* The end of the loop                                                      *)

LEMMA ScanTypes ==
  ASSUME IInv, pc = "scan"
  PROVE  /\ InputInv /\ Offsets /\ file_size \in Nat \ {0}
         /\ ovector.end \in 0 .. file_size /\ ovector.begin \in -1 .. file_size
         /\ ScanInv
<1>1. InputInv /\ TypeOK /\ ScanInv
  BY DEF IInv
<1>2. file_size \in Nat \ {0}
  BY <1>1, FileFacts
<1> QED
  BY <1>1, <1>2 DEF TypeOK, Offsets

\* Nothing is missing when no offset is left at which a match of an existing line could begin.
LEMMA NothingIsMissing ==
  ASSUME IInv, pc = "scan",
         \A b \in ovector.end .. file_size : Matches(b) => b = file_size /\ ovector.end = file_size
  PROVE  \A n \in 1 .. NumLines : MatchStarts(n) # {} => Reported(n) \/ BeginsInsideCharacter(n)
<1>1. /\ InputInv /\ file_size \in Nat \ {0} /\ ovector.end \in 0 .. file_size
      /\ PassedInv
  BY ScanTypes DEF ScanInv
<1> SUFFICES ASSUME NEW n \in 1 .. NumLines, NEW b \in MatchStarts(n)
             PROVE  Reported(n) \/ BeginsInsideCharacter(n)
  OBVIOUS
<1>2. b \in 0 .. file_size /\ LineOf(b) = n /\ Matches(b)
  BY DEF MatchStarts, OnLine
<1>3. CASE b < ovector.end
  BY <1>1, <1>2, <1>3 DEF PassedInv
<1>4. CASE ~(b < ovector.end)
  <2>1. b = file_size /\ ovector.end = file_size
    <3>1. b \in ovector.end .. file_size
      BY <1>1, <1>2, <1>4
    <3> QED
      BY <1>2, <3>1
  <2>2. Byte(file, file_size - 1) # Newline
    <3>1. PICK last \in Nat : last = file_size - 1 /\ last + 1 = file_size
      <4>1. file_size - 1 \in Nat /\ (file_size - 1) + 1 = file_size
        BY <1>1
      <4> QED
        BY <4>1
    <3>2. LineOf(last + 1) = IF Byte(file, last) = Newline THEN LineOf(last) + 1 ELSE LineOf(last)
      BY NextOffsetsLine
    <3>3. LineOf(last) \in Nat
      BY LinesBetween
    <3>4. LineOf(last + 1) = n /\ n <= LineOf(last)
      BY <1>2, <2>1, <3>1 DEF NumLines
    <3> QED
      BY <3>1, <3>2, <3>3, <3>4
  <2>3. ovector.end # 0 /\ Byte(file, ovector.end - 1) # Newline
    BY <1>1, <2>1, <2>2
  <2>4. prev_lineno = LineOf(ovector.end) \/ BeginsInsideCharacter(LineOf(ovector.end))
    BY <1>1, <2>3 DEF PassedInv
  <2>5. LineOf(ovector.end) = n /\ n # 0
    BY <1>2, <2>1
  <2> QED
    BY <1>1, <2>4, <2>5 DEF PassedInv
<1> QED
  BY <1>3, <1>4

\* A step that ends the scan or breaks it off.
LEMMA StopInv ==
  ASSUME IInv, pc = "scan", UNCHANGED <<input_vars, ovector, line_vars, ml>>,
         start_offset' \in 0 .. file_size, options' \in {"none", "nonempty_anchored"},
         pc' \in {"done", "match_error"},
         pc' = "done" =>
           \A b \in ovector.end .. file_size : Matches(b) => b = file_size /\ ovector.end = file_size
  PROVE  IInv'
<1>1. InputInv /\ TypeOK /\ ml \in Seq(Reports) /\ ReportSound
  BY DEF IInv
<1>2. InputInv'
  BY <1>1, SameInputs DEF InputInv
<1>3. TypeOK'
  BY <1>1, SameInputs DEF TypeOK, line_vars
<1>4. ReportSound'
  BY <1>1, SameReports
<1>5. ReportComplete'
  <2>1. CASE pc' = "match_error"
    BY <2>1 DEF ReportComplete
  <2>2. CASE pc' = "done"
    <3>1. \A n \in 1 .. NumLines : MatchStarts(n) # {} => Reported(n) \/ BeginsInsideCharacter(n)
      BY <2>2, NothingIsMissing
    <3>2. NumLines' = NumLines /\ \A n : MatchStarts(n)' = MatchStarts(n)
            /\ (Reported(n)' <=> Reported(n)) /\ BeginsInsideCharacter(n)' = BeginsInsideCharacter(n)
      BY SameInputs, SameReports
    <3> QED
      BY <2>2, <3>1, <3>2 DEF ReportComplete
  <2> QED
    BY <2>1, <2>2
<1> QED
  BY <1>1, <1>2, <1>3, <1>4, <1>5 DEF IInv

LEMMA LeaveLoopInv ==
  ASSUME IInv, LeaveLoop
  PROVE  IInv'
<1>1. /\ pc = "scan" /\ pc' = "done" /\ (~LoopCondition \/ AtEndAfterEmptyMatch)
      /\ UNCHANGED <<input_vars, ovector, line_vars, ml, start_offset, options>>
  BY DEF LeaveLoop
<1>2. /\ file_size \in Nat \ {0} /\ ovector.end \in 0 .. file_size
      /\ start_offset \in 0 .. file_size /\ EndInv /\ engine \in {"PCRE2", "PCRE"}
  BY <1>1, ScanTypes, FileFacts DEF Offsets, ScanInv
<1>3. options \in {"none", "nonempty_anchored"}
  BY DEF IInv, TypeOK
<1>4. ovector.end = file_size
  <2>1. CASE AtEndAfterEmptyMatch
    BY <2>1 DEF AtEndAfterEmptyMatch, Retry
  <2>2. CASE ~LoopCondition /\ engine = "PCRE2"
    <3>1. start_offset = file_size
      BY <1>2, <2>2 DEF LoopCondition
    <3> QED
      BY <1>2, <3>1 DEF EndInv
  <2>3. CASE ~LoopCondition /\ engine = "PCRE"
    BY <1>2, <2>3 DEF LoopCondition
  <2> QED
    BY <1>1, <1>2, <2>1, <2>2, <2>3
<1>5. \A b \in ovector.end .. file_size : b = file_size
  BY <1>2, <1>4
<1> QED
  BY <1>1, <1>2, <1>3, <1>4, <1>5, StopInv

LEMMA AttemptTypes ==
  ASSUME IInv, Attempt
  PROVE  /\ pc = "scan" /\ UNCHANGED input_vars /\ ~AtEndAfterEmptyMatch
         /\ start_offset' = AttemptFrom /\ AttemptFrom \in ovector.end .. file_size
         /\ start_offset' \in 0 .. file_size /\ options' \in {"none", "nonempty_anchored"}
         /\ (Found = NoMatch /\ FindsNothing) \/ (Found # NoMatch /\ Finds(Found))
<1>1. /\ pc = "scan" /\ UNCHANGED input_vars /\ ~AtEndAfterEmptyMatch
      /\ start_offset' = AttemptFrom /\ options' \in {"none", "nonempty_anchored"}
  BY DEF Attempt
<1>2. InputInv /\ Offsets /\ file_size \in Nat /\ ovector.end \in 0 .. file_size
  BY <1>1, ScanTypes
<1>3. AttemptFrom \in ovector.end .. file_size
  BY <1>2, AttemptsFrom
<1>4. AttemptFrom \in 0 .. file_size
  BY <1>2, <1>3
<1> QED
  BY <1>1, <1>2, <1>3, <1>4, FoundIs

LEMMA NoMoreMatchesInv ==
  ASSUME IInv, NoMoreMatches
  PROVE  IInv'
<1>1. Attempt /\ Found = NoMatch /\ ~Retry /\ pc' = "done" /\ UNCHANGED <<ovector, line_vars, ml>>
  BY DEF NoMoreMatches
<1>2. \A b \in ovector.end .. file_size : ~Matches(b)
  BY <1>1, AttemptTypes DEF FindsNothing
<1> QED
  BY <1>1, <1>2, AttemptTypes, StopInv

LEMMA MatchErrorInv ==
  ASSUME IInv, MatchError
  PROVE  IInv'
<1>1. Attempt /\ pc' = "match_error" /\ UNCHANGED <<ovector, line_vars, ml>>
  BY DEF MatchError
<1> QED
  BY <1>1, AttemptTypes, StopInv

-----------------------------------------------------------------------------
(* Moving on after an empty match                                           *)

LEMMA NextOffsetIs ==
  ASSUME InputInv, Offsets, NEW end \in Nat, end = ovector.end, end < file_size
  PROVE  /\ NextOffset \in (end + 1) .. file_size
         /\ engine = "PCRE" => NextOffset = end + 1
         /\ \A i \in (end + 1) .. (NextOffset - 1) : Byte(file, i) = Continuation
<1> DEFINE stops == {i \in (end + 1) .. (file_size - 1) : Byte(file, i) # Continuation} \cup {file_size}
<1>1. file_size \in Nat /\ engine \in {"PCRE2", "PCRE"}
  BY FileFacts
<1>2. CASE engine = "PCRE"
  BY <1>1, <1>2 DEF NextOffset
<1>3. CASE engine = "PCRE2"
  <2>1. NextOffset = Min(stops)
    BY <1>3 DEF NextOffset
  <2>2. stops \in SUBSET ((end + 1) .. file_size) /\ stops \in SUBSET Nat /\ stops # {}
    BY <1>1
  <2>3. Min(stops) \in stops /\ \A y \in stops : Min(stops) <= y
    BY <2>2, MinIs
  <2>4. PICK next \in stops : next = NextOffset /\ \A y \in stops : next <= y
    BY <2>1, <2>3
  <2>5. next \in (end + 1) .. file_size
    BY <2>2
  <2>6. ASSUME NEW i \in (end + 1) .. (next - 1), Byte(file, i) # Continuation PROVE FALSE
    <3>1. i \in (end + 1) .. (file_size - 1)
      BY <1>1, <2>5
    <3>2. next <= i
      BY <2>4, <2>6, <3>1
    <3> QED
      BY <2>5, <3>2
  <2> QED
    BY <1>3, <2>4, <2>5, <2>6
<1> QED
  BY <1>1, <1>2, <1>3

\* An offset that is stepped over is on the line of the empty match, or on one that begins with a
\* continuation byte.
LEMMA SteppedOver ==
  ASSUME InputInv, NEW end \in Nat, NEW next \in (end + 1) .. file_size,
         engine = "PCRE" => next = end + 1,
         \A i \in (end + 1) .. (next - 1) : Byte(file, i) = Continuation,
         NEW b \in (end + 1) .. next
  PROVE  \/ LineOf(b) = LineOf(end)
         \/ b = next /\ next = end + 1 /\ Byte(file, end) = Newline
         \/ BeginsInsideCharacter(LineOf(b))
<1>1. /\ file_size \in Nat /\ engine \in {"PCRE2", "PCRE"} /\ Newline # Continuation
      /\ next \in Nat /\ b \in Nat /\ end + 1 <= b /\ b <= next /\ next <= file_size
  BY FileFacts
<1>2. PICK a \in Nat : a = end + 1
  OBVIOUS
<1>3. LineOf(b) = LineOf(a)
  <2>1. NewlinesIn(file, a, b) = {}
    <3>1. ASSUME NEW i \in a .. (b - 1) PROVE Byte(file, i) # Newline
      <4>1. i \in (end + 1) .. (next - 1)
        BY <1>1, <1>2
      <4> QED
        BY <1>1, <4>1
    <3> QED
      BY <3>1 DEF NewlinesIn
  <2>2. a <= b
    BY <1>1, <1>2
  <2> QED
    BY <1>1, <2>1, <2>2, LinesBetween
<1>4. LineOf(a) = IF Byte(file, end) = Newline THEN LineOf(end) + 1 ELSE LineOf(end)
  BY <1>2, NextOffsetsLine
<1>5. CASE Byte(file, end) # Newline
  BY <1>3, <1>4, <1>5
<1>6. CASE Byte(file, end) = Newline /\ next = end + 1
  BY <1>1, <1>6
<1>7. CASE Byte(file, end) = Newline /\ next # end + 1
  <2>1. engine = "PCRE2" /\ a <= file_size - 1 /\ a \in (end + 1) .. (next - 1)
    BY <1>1, <1>2, <1>7
  <2>2. Byte(file, a) = Continuation
    BY <2>1
  <2>3. LineOf(a) <= NumLines
    <3>1. PICK last \in Nat : last = file_size - 1 /\ a <= last
      BY <1>1, <2>1
    <3> QED
      BY <3>1, LinesBetween DEF NumLines
  <2>4. Min(OnLine(LineOf(a))) = a
    <3>1. OnLine(LineOf(a)) \in SUBSET Nat /\ a \in OnLine(LineOf(a))
      BY <1>1, <2>1 DEF OnLine
    <3>2. ASSUME NEW y \in OnLine(LineOf(a)), y < a PROVE FALSE
      <4>1. y \in Nat /\ LineOf(y) = LineOf(a)
        BY <3>1 DEF OnLine
      <4>2. y <= end
        BY <1>2, <3>2, <4>1
      <4>3. LineOf(y) <= LineOf(end) /\ LineOf(end) \in Nat
        BY <4>1, <4>2, LinesBetween
      <4>4. LineOf(a) = LineOf(end) + 1
        BY <1>4, <1>7
      <4> QED
        BY <4>1, <4>3, <4>4
    <3>3. \A y \in OnLine(LineOf(a)) : a <= y
      BY <3>1, <3>2
    <3> QED
      BY <3>1, <3>3, IsMin
  <2> QED
    BY <1>3, <2>1, <2>2, <2>3, <2>4 DEF BeginsInsideCharacter
<1> QED
  BY <1>5, <1>6, <1>7

\* After an empty match the lines are counted up to it.
LEMMA RetryFacts ==
  ASSUME IInv, pc = "scan", Retry
  PROVE  prev_lineno # 0 /\ prev_lineno = line_no /\ prev_lineno = LineOf(ovector.end)
<1>1. CountInv
  BY ScanTypes DEF ScanInv
<1> QED
  BY <1>1 DEF CountInv, Retry

LEMMA AdvanceInv ==
  ASSUME IInv, Advance
  PROVE  IInv'
<1>1. /\ pc = "scan" /\ pc' = "scan" /\ UNCHANGED input_vars /\ UNCHANGED ml
      /\ UNCHANGED line_vars /\ Retry /\ ~AtEndAfterEmptyMatch
      /\ start_offset' = AttemptFrom /\ options' \in {"none", "nonempty_anchored"}
  BY DEF Advance, Attempt
<1>2. /\ InputInv /\ Offsets /\ ScanInv /\ TypeOK /\ ml \in Seq(Reports) /\ ReportSound
  BY <1>1, ScanTypes DEF IInv
<1>3. PICK end \in Nat : end = ovector.end /\ end = ovector.begin /\ end < file_size
  <2>1. ovector.end \in 0 .. file_size /\ file_size \in Nat
    BY <1>1, ScanTypes
  <2> QED
    BY <1>1, <2>1 DEF Retry, AtEndAfterEmptyMatch
<1>4. PICK next \in (end + 1) .. file_size :
        /\ next = NextOffset
        /\ engine = "PCRE" => next = end + 1
        /\ \A i \in (end + 1) .. (next - 1) : Byte(file, i) = Continuation
  BY <1>2, <1>3, NextOffsetIs
<1>5. PICK begin \in {end, -1} : ovector' = [begin |-> begin, end |-> next]
  BY <1>3, <1>4 DEF Advance
<1>6. ovector'.begin = begin /\ ovector'.end = next
  BY <1>5
<1>7. file_size \in Nat /\ next \in Nat /\ end < next /\ next <= file_size
  BY <1>2, <1>3, <1>4, FileFacts
<1>8. start_offset' = end
  <2>1. AttemptFrom = ovector.end
    BY <1>1, <1>2, AttemptsFrom
  <2> QED
    BY <1>1, <1>3, <2>1
<1>9. TypeOK'
  <2>1. ovector' \in [begin : -1 .. file_size, end : 0 .. file_size]
    <3>1. begin \in -1 .. file_size /\ next \in 0 .. file_size
      BY <1>3, <1>7
    <3> QED
      BY <1>5, <3>1
  <2>2. start_offset' \in 0 .. file_size
    BY <1>3, <1>7, <1>8
  <2>3. file_size' = file_size
    BY <1>1, SameInputs
  <2> QED
    BY <1>1, <1>2, <2>1, <2>2, <2>3 DEF TypeOK, line_vars
<1>10. InputInv'
  BY <1>1, <1>2, SameInputs DEF InputInv
<1>11. ReportSound' /\ ReportComplete'
  <2>1. ReportSound'
    BY <1>1, <1>2, SameReports
  <2> QED
    BY <1>1, <2>1 DEF ReportComplete
<1>12. prev_lineno # 0 /\ prev_lineno = line_no /\ prev_lineno = LineOf(end)
  BY <1>1, <1>3, RetryFacts
<1>13. /\ \A o : LineOf(o)' = LineOf(o) /\ Matches(o)' = Matches(o)
                /\ BeginsInsideCharacter(o)' = BeginsInsideCharacter(o)
       /\ \A n : Reported(n)' <=> Reported(n)
       /\ file' = file /\ pattern' = pattern /\ engine' = engine /\ file_size' = file_size
       /\ line_no' = line_no /\ prev_lineno' = prev_lineno
       /\ prev_lineno_search_end' = prev_lineno_search_end
  BY <1>1, SameInputs, SameReports DEF line_vars
<1>14. CountInv'
  <2>1. prev_lineno_search_end = end /\ line_no = LineOf(prev_lineno_search_end)
        /\ \A i \in DOMAIN ml : ml[i].line <= prev_lineno
    BY <1>1, <1>2, <1>3 DEF ScanInv, CountInv
  <2>2. LineOf(prev_lineno_search_end)' = LineOf(prev_lineno_search_end)
    BY <1>13 DEF LineOf
  <2>3. ~Retry'
    BY <1>3, <1>6, <1>7 DEF Retry
  <2>4. begin <= next /\ end <= next
    BY <1>3, <1>7
  <2> QED
    BY <1>1, <1>6, <1>12, <1>13, <2>1, <2>2, <2>3, <2>4 DEF CountInv
<1>15. LiteralInv'
  BY <1>2, <1>13 DEF LiteralInv, ScanInv
<1>16. PassedInv'
  <2>1. Reported(prev_lineno)
    BY <1>2, <1>12 DEF ScanInv, PassedInv
  <2>2. ASSUME NEW b \in 0 .. file_size, b < next, Matches(b)
        PROVE  Reported(LineOf(b)) \/ BeginsInsideCharacter(LineOf(b))
    <3>1. CASE b < end
      BY <1>2, <1>3, <2>2, <3>1 DEF ScanInv, PassedInv
    <3>2. CASE b = end
      BY <1>12, <2>1, <3>2
    <3>3. CASE end < b
      <4>1. b \in (end + 1) .. next
        BY <1>3, <1>7, <2>2, <3>3
      <4>2. \/ LineOf(b) = LineOf(end)
            \/ b = next /\ next = end + 1 /\ Byte(file, end) = Newline
            \/ BeginsInsideCharacter(LineOf(b))
        BY <1>2, <1>4, <4>1, SteppedOver
      <4>3. b # next
        BY <2>2, <1>7
      <4> QED
        BY <1>12, <2>1, <4>2, <4>3
    <3> QED
      BY <1>3, <3>1, <3>2, <3>3
  <2>3. \/ prev_lineno = LineOf(next) \/ Byte(file, next - 1) = Newline
        \/ BeginsInsideCharacter(LineOf(next))
    <3>1. next \in (end + 1) .. next
      BY <1>7
    <3>2. \/ LineOf(next) = LineOf(end)
          \/ next = end + 1 /\ Byte(file, end) = Newline
          \/ BeginsInsideCharacter(LineOf(next))
      BY <1>2, <1>4, <3>1, SteppedOver
    <3>3. next = end + 1 => next - 1 = end
      BY <1>3
    <3> QED
      BY <1>12, <3>2, <3>3
  <2>4. Reported(prev_lineno)'
    BY <1>1, <2>1 DEF Reported, line_vars
  <2>5. \A b \in 0 .. file_size' : b < ovector'.end /\ Matches(b)' =>
          Reported(LineOf(b))' \/ BeginsInsideCharacter(LineOf(b))'
    <3>1. \A b : /\ Reported(LineOf(b))' <=> Reported(LineOf(b))
                 /\ BeginsInsideCharacter(LineOf(b))' <=> BeginsInsideCharacter(LineOf(b))
      <4>1. \A b : Reported(LineOf(b))' <=> Reported(LineOf(b))
        BY <1>1, <1>13 DEF Reported
      <4>2. \A o : OnLine(o)' = OnLine(o)
        BY <1>1, SameInputs
      <4>3. NumLines' = NumLines
        BY <1>1, SameInputs
      <4>4. \A b : BeginsInsideCharacter(LineOf(b))' <=> BeginsInsideCharacter(LineOf(b))
        BY <1>13, <4>2, <4>3 DEF BeginsInsideCharacter
      <4> QED
        BY <4>1, <4>4
    <3> QED
      BY <1>6, <1>13, <2>2, <3>1
  <2> QED
    BY <1>6, <1>13, <2>3, <2>4, <2>5 DEF PassedInv
<1>17. EndInv'
  BY <1>3, <1>8, <1>13 DEF EndInv
<1>18. ml' \in Seq(Reports)
  BY <1>1, <1>2
<1> QED
  BY <1>9, <1>10, <1>11, <1>14, <1>15, <1>16, <1>17, <1>18 DEF IInv, ScanInv

-----------------------------------------------------------------------------
(* A match is found                                                         *)

\* All occurrences of a literal have the same bytes.
LEMMA LiteralBytes ==
  ASSUME InputInv, NEW a \in Occurrences(file, pattern.literal, 0),
         NEW b \in Occurrences(file, pattern.literal, 0),
         NewlinesIn(file, a, a + Len(pattern.literal)) = {}
  PROVE  NewlinesIn(file, b, b + Len(pattern.literal)) = {}
<1>1. PICK n \in Nat : n = Len(pattern.literal)
  BY FileFacts
<1>2. file \in Seq(Bytes) /\ file_size \in Nat /\ file_size = Len(file)
  BY FileFacts DEF file_size
<1>3. ASSUME NEW o \in Occurrences(file, pattern.literal, 0)
      PROVE  /\ o \in Nat
             /\ \A k \in 1 .. n : pattern.literal[k] = file[o + k]
  <2>1. o \in 0 .. (file_size - n) /\ SubSeq(file, o + 1, o + n) = pattern.literal
    BY <1>1, <1>2 DEF Occurrences, OccursAt
  <2>2. o \in Nat /\ o + 1 \in 1 .. (Len(file) + 1) /\ o + n \in (o + 1) - 1 .. Len(file)
        /\ (o + n) - (o + 1) + 1 = n
    BY <1>1, <1>2, <2>1
  <2>3. \A k \in 1 .. n : SubSeq(file, o + 1, o + n)[k] = file[o + 1 + k - 1]
    BY <1>2, <2>2, SubSeqProperties
  <2>4. \A k \in 1 .. n : o + 1 + k - 1 = o + k
    BY <2>2
  <2> QED
    BY <2>1, <2>2, <2>3, <2>4
<1>4. ASSUME NEW i \in NewlinesIn(file, b, b + n) PROVE FALSE
  <2>1. a \in Nat /\ b \in Nat
    BY <1>3
  <2>2. i \in b .. ((b + n) - 1) /\ Byte(file, i) = Newline
    BY DEF NewlinesIn
  <2>3. PICK k \in 1 .. n : i = b + k - 1
    <3>1. i - b + 1 \in 1 .. n /\ i = b + (i - b + 1) - 1
      BY <2>1, <2>2
    <3> QED
      BY <3>1
  <2>4. PICK j \in a .. ((a + n) - 1) : j = a + k - 1
    <3>1. a + k - 1 \in a .. ((a + n) - 1)
      BY <2>1
    <3> QED
      BY <3>1
  <2>5. i + 1 = b + k /\ j + 1 = a + k
    BY <2>1, <2>3, <2>4
  <2>6. Byte(file, j) = Byte(file, i)
    <3>1. file[a + k] = file[b + k]
      BY <1>3
    <3> QED
      BY <2>5, <3>1 DEF Byte
  <2>7. j \in NewlinesIn(file, a, a + n)
    BY <2>2, <2>4, <2>6 DEF NewlinesIn
  <2> QED
    BY <1>1, <2>7
<1> QED
  BY <1>1, <1>4

\* Match throws exactly when a newline lies in the match.
LEMMA ThrowsOnNewline ==
  ASSUME InputInv, NEW F \in [begin : 0 .. file_size, end : 0 .. file_size], F.begin <= F.end
  PROVE  MatchThrows(file, F) <=> NewlinesIn(file, F.begin, F.end) # {}
<1>1. PICK n \in Nat : n = file_size
  BY FileFacts
<1>2. F.begin \in 0 .. n /\ F.end \in 0 .. n
  BY <1>1
<1>3. PICK stop \in F.begin .. n : /\ stop = LineEnd(file, F.begin)
                                   /\ NewlinesIn(file, F.begin, stop) = {}
                                   /\ stop # n => Byte(file, stop) = Newline
  BY <1>1, <1>2, LineEndIs
<1>4. CASE stop < F.end
  <2>1. stop \in F.begin .. (F.end - 1) /\ stop # n
    BY <1>2, <1>3, <1>4
  <2>2. stop \in NewlinesIn(file, F.begin, F.end)
    BY <1>3, <2>1 DEF NewlinesIn
  <2> QED
    BY <1>3, <1>4, <2>2 DEF MatchThrows
<1>5. CASE ~(stop < F.end)
  <2>1. \A i \in F.begin .. (F.end - 1) : i \in F.begin .. (stop - 1)
    BY <1>2, <1>3, <1>5
  <2>2. NewlinesIn(file, F.begin, F.end) = {}
    BY <1>3, <2>1 DEF NewlinesIn
  <2> QED
    BY <1>3, <1>5, <2>2 DEF MatchThrows
<1> QED
  BY <1>4, <1>5

\* The line of a match is counted from the match before.
LEMMA CountLinesFacts ==
  ASSUME IInv, CountLines
  PROVE  /\ pc = "scan" /\ UNCHANGED input_vars /\ InputInv /\ Offsets /\ ScanInv
         /\ file_size \in Nat \ {0} /\ ovector.end \in 0 .. file_size
         /\ Finds(Found) /\ ovector' = Found /\ prev_lineno_search_end' = Found.begin
         /\ Found.begin \in ovector.end .. file_size /\ Found.end \in Found.begin .. file_size
         /\ line_no' = LineOf(Found.begin) /\ line_no' \in Nat \ {0}
         /\ prev_lineno \in Nat /\ prev_lineno <= line_no'
         /\ Retry /\ pattern.search # "literal" => line_no' = prev_lineno
         /\ start_offset' = AttemptFrom /\ AttemptFrom \in 0 .. Found.begin
         /\ start_offset' \in 0 .. file_size /\ options' \in {"none", "nonempty_anchored"}
<1>1. /\ Attempt /\ Found # NoMatch /\ ovector' = Found /\ prev_lineno_search_end' = Found.begin
      /\ line_no' = line_no + CountLinesSinceLastMatch(file, prev_lineno_search_end, Found.begin)
  BY DEF CountLines
<1>2. /\ pc = "scan" /\ UNCHANGED input_vars /\ Finds(Found)
      /\ start_offset' = AttemptFrom /\ AttemptFrom \in ovector.end .. file_size
      /\ start_offset' \in 0 .. file_size /\ options' \in {"none", "nonempty_anchored"}
  BY <1>1, AttemptTypes
<1>3. /\ InputInv /\ Offsets /\ file_size \in Nat \ {0} /\ ovector.end \in 0 .. file_size /\ ScanInv
  BY <1>2, ScanTypes
<1>4. PICK begin \in Nat, end \in Nat :
        /\ Found.begin = begin /\ Found.end = end /\ ovector.end <= begin /\ AttemptFrom <= begin
        /\ begin <= end /\ end <= file_size
  <2>1. /\ Found.begin \in 0 .. file_size /\ Found.end \in 0 .. file_size
        /\ AttemptFrom <= Found.begin /\ Found.begin <= Found.end
    BY <1>2 DEF Finds
  <2> QED
    BY <1>2, <1>3, <2>1
<1>5. PICK from \in Nat : /\ from = prev_lineno_search_end /\ from <= ovector.end
                          /\ line_no = LineOf(from) /\ (Retry => from = ovector.end)
  BY <1>3 DEF Offsets, ScanInv, CountInv
<1>6. from <= begin
  BY <1>3, <1>4, <1>5
<1>7. /\ line_no' = LineOf(begin) /\ LineOf(begin) \in Nat \ {0}
      /\ line_no <= line_no' /\ line_no \in Nat
  BY <1>1, <1>4, <1>5, <1>6, LinesBetween DEF CountLinesSinceLastMatch
<1>8. prev_lineno \in Nat /\ prev_lineno <= line_no'
  <2>1. prev_lineno \in Nat /\ (prev_lineno = 0 \/ prev_lineno = line_no)
    BY <1>3 DEF IInv, TypeOK, ScanInv, CountInv
  <2> QED
    BY <1>7, <2>1
<1>9. Retry /\ pattern.search # "literal" => line_no' = prev_lineno
  <2>1. Retry /\ pattern.search # "literal" => Found.begin = ovector.end
    BY <1>2 DEF Finds
  <2>2. Retry => prev_lineno = LineOf(ovector.end)
    BY <1>2, RetryFacts
  <2> QED
    BY <1>4, <1>7, <2>1, <2>2
<1>10. begin \in ovector.end .. file_size /\ end \in begin .. file_size /\ AttemptFrom \in 0 .. begin
  BY <1>2, <1>3, <1>4
<1> QED
  BY <1>1, <1>2, <1>3, <1>4, <1>7, <1>8, <1>9, <1>10

ReportedIn(reports, n) == \E i \in DOMAIN reports : reports[i].line = n

\* What is before the end of a match that is reported, or on the line of one that was, is passed.
LEMMA MatchPassed ==
  ASSUME IInv, CountLines, NewlinesIn(file, Found.begin, Found.end) = {},
         prev_lineno' = line_no', ReportedIn(ml', line_no'),
         \A n : ReportedIn(ml, n) => ReportedIn(ml', n),
         \A i \in DOMAIN ml' : ml'[i].line <= prev_lineno'
  PROVE  ScanInv'
<1>1. /\ InputInv /\ ScanInv /\ UNCHANGED input_vars /\ Finds(Found)
      /\ ovector' = Found /\ prev_lineno_search_end' = Found.begin
      /\ line_no' = LineOf(Found.begin) /\ line_no' \in Nat \ {0}
      /\ start_offset' = AttemptFrom
  BY CountLinesFacts
<1>2. PICK begin \in Nat, end \in Nat, before \in Nat, from \in Nat :
        /\ Found.begin = begin /\ Found.end = end /\ before = ovector.end /\ from = AttemptFrom
        /\ before <= begin /\ from <= begin /\ begin <= end /\ end <= file_size /\ file_size \in Nat
  <2>1. /\ file_size \in Nat /\ ovector.end \in 0 .. file_size
        /\ Found.begin \in ovector.end .. file_size /\ Found.end \in Found.begin .. file_size
        /\ AttemptFrom \in 0 .. Found.begin
    BY CountLinesFacts
  <2> QED
    BY <2>1
<1>3. /\ ovector'.begin = begin /\ ovector'.end = end /\ prev_lineno_search_end' = begin
      /\ line_no' = LineOf(begin) /\ start_offset' = from
  BY <1>1, <1>2
<1>4. /\ \A o : LineOf(o)' = LineOf(o) /\ Matches(o)' = Matches(o)
      /\ \A o : OnLine(o)' = OnLine(o)
      /\ file' = file /\ pattern' = pattern /\ engine' = engine
      /\ file_size' = file_size /\ NumLines' = NumLines
  BY <1>1, SameInputs
<1>5. \A o : BeginsInsideCharacter(LineOf(o))' <=> BeginsInsideCharacter(LineOf(o))
  BY <1>4 DEF BeginsInsideCharacter
<1>6. LineOf(end) = LineOf(begin)
  BY <1>2, LinesBetween
<1>7. CountInv'
  <2>1. line_no' = LineOf(prev_lineno_search_end)'
    BY <1>3, <1>4 DEF LineOf
  <2> QED
    BY <1>1, <1>2, <1>3, <2>1 DEF CountInv, Retry
<1>8. LiteralInv'
  <2>1. CASE pattern.search = "literal"
    <3>1. begin \in Occurrences(file, pattern.literal, 0) /\ end = begin + Len(pattern.literal)
      BY <1>1, <1>2, <2>1 DEF Finds
    <3>2. \A b \in Occurrences(file, pattern.literal, 0) :
            NewlinesIn(file, b, b + Len(pattern.literal)) = {}
      BY <1>1, <1>2, <3>1, LiteralBytes
    <3> QED
      BY <1>4, <3>2 DEF LiteralInv
  <2> QED
    BY <1>4, <2>1 DEF LiteralInv
<1>9. PassedInv'
  <2>1. ASSUME NEW b \in 0 .. file_size, b < end, Matches(b)
        PROVE  ReportedIn(ml', LineOf(b)) \/ BeginsInsideCharacter(LineOf(b))
    <3>1. CASE b < before
      <4>1. Reported(LineOf(b)) \/ BeginsInsideCharacter(LineOf(b))
        BY <1>1, <1>2, <2>1, <3>1 DEF ScanInv, PassedInv
      <4> QED
        BY <4>1 DEF Reported, ReportedIn
    <3>2. CASE before <= b
      <4>1. begin <= b
        <5>1. b \in ovector.end .. file_size
          BY <1>2, <3>2
        <5> QED
          BY <1>1, <1>2, <2>1, <5>1 DEF Finds
      <4>2. NewlinesIn(file, begin, b) = {}
        <5>1. \A i \in begin .. (b - 1) : i \in begin .. (end - 1)
          BY <1>2, <2>1
        <5> QED
          BY <1>2, <5>1 DEF NewlinesIn
      <4>3. LineOf(b) = LineOf(begin)
        BY <1>2, <4>1, <4>2, LinesBetween
      <4> QED
        BY <1>3, <4>3
    <3> QED
      BY <1>2, <3>1, <3>2
  <2>2. Reported(prev_lineno)'
    BY DEF Reported, ReportedIn
  <2>3. \A b \in 0 .. file_size' : b < ovector'.end /\ Matches(b)' =>
          Reported(LineOf(b))' \/ BeginsInsideCharacter(LineOf(b))'
    <3>1. \A b : ReportedIn(ml', LineOf(b)) => Reported(LineOf(b))'
      BY <1>4 DEF Reported, ReportedIn
    <3> QED
      BY <1>3, <1>4, <1>5, <2>1, <3>1
  <2>4. prev_lineno' = LineOf(ovector.end)'
    <3>1. prev_lineno' = LineOf(end)
      BY <1>3, <1>6
    <3> QED
      BY <1>3, <1>4, <3>1 DEF LineOf
  <2> QED
    BY <2>2, <2>3, <2>4 DEF PassedInv
<1>10. EndInv'
  BY <1>2, <1>3, <1>4 DEF EndInv, Retry
<1> QED
  BY <1>7, <1>8, <1>9, <1>10 DEF ScanInv

LEMMA CountLinesTypes ==
  ASSUME IInv, CountLines, prev_lineno' = line_no', pc' \in {"scan", "length_error"}
  PROVE  InputInv' /\ TypeOK'
<1>1. /\ InputInv /\ UNCHANGED input_vars /\ Finds(Found)
      /\ ovector' = Found /\ prev_lineno_search_end' = Found.begin
      /\ line_no' \in Nat \ {0} /\ start_offset' \in 0 .. file_size
      /\ options' \in {"none", "nonempty_anchored"} /\ file_size \in Nat
  BY CountLinesFacts
<1>2. Found \in [begin : 0 .. file_size, end : 0 .. file_size]
  BY <1>1 DEF Finds
<1>3. ovector' \in [begin : -1 .. file_size, end : 0 .. file_size]
      /\ prev_lineno_search_end' \in 0 .. file_size
  BY <1>1, <1>2
<1>4. InputInv' /\ file_size' = file_size
  BY <1>1, SameInputs DEF InputInv
<1> QED
  BY <1>1, <1>3, <1>4 DEF TypeOK

LEMMA SameLineInv ==
  ASSUME IInv, SameLine
  PROVE  IInv'
<1>1. /\ CountLines /\ line_no' = prev_lineno /\ prev_lineno' = prev_lineno
      /\ ml' = ml /\ pc' = pc
  BY DEF SameLine
<1>2. /\ pc = "scan" /\ UNCHANGED input_vars /\ InputInv /\ ScanInv /\ Finds(Found)
      /\ line_no' \in Nat \ {0}
  BY <1>1, CountLinesFacts
<1>3. prev_lineno # 0
  BY <1>1, <1>2
<1>4. NewlinesIn(file, Found.begin, Found.end) = {}
  BY <1>2, <1>3 DEF Finds, ScanInv, LiteralInv
<1>5. ReportedIn(ml, prev_lineno) /\ \A i \in DOMAIN ml : ml[i].line <= prev_lineno
  BY <1>2, <1>3 DEF ScanInv, PassedInv, CountInv, Reported, ReportedIn
<1>6. ScanInv'
  BY <1>1, <1>4, <1>5, MatchPassed
<1>7. InputInv' /\ TypeOK'
  BY <1>1, <1>2, CountLinesTypes
<1>8. ReportSound' /\ ReportComplete' /\ ml' \in Seq(Reports)
  <2>1. ReportSound'
    BY <1>1, <1>2, SameReports DEF IInv
  <2> QED
    BY <1>1, <1>2, <2>1 DEF IInv, ReportComplete
<1> QED
  BY <1>6, <1>7, <1>8 DEF IInv

\* One report by itself.
IsRight(m) ==
  /\ m.line = LineOf(m.begin)
  /\ m.begin = Min(MatchStarts(m.line)) \/ BeginsInsideCharacter(m.line)
  /\ m.end = BestEnd(m.begin)
  /\ m.start = Min(OnLine(m.line)) /\ m.stop = Max(OnLine(m.line))
  /\ m.begin <= m.end /\ m.end <= m.stop

\* What is reported is the first match of its line, unless the line begins with a continuation byte.
LEMMA ReportIsRight ==
  ASSUME IInv, CountLines, line_no' # prev_lineno, ~MatchThrows(file, Found),
         NEW m, m = Match(file, Found, line_no')
  PROVE  m \in Reports /\ IsRight(m)
<1>1. /\ InputInv /\ ScanInv /\ Finds(Found) /\ pc = "scan"
      /\ line_no' = LineOf(Found.begin) /\ line_no' \in Nat \ {0}
      /\ prev_lineno \in Nat /\ prev_lineno <= line_no'
      /\ ~Retry \/ pattern.search = "literal"
  BY CountLinesFacts
<1>2. PICK begin \in Nat, end \in Nat, before \in Nat, size \in Nat :
        /\ Found.begin = begin /\ Found.end = end /\ before = ovector.end /\ size = file_size
        /\ before <= begin /\ begin <= end /\ end <= size
  <2>1. /\ file_size \in Nat /\ ovector.end \in 0 .. file_size
        /\ Found.begin \in ovector.end .. file_size /\ Found.end \in Found.begin .. file_size
    BY CountLinesFacts
  <2> QED
    BY <2>1
<1>3. PICK n \in Nat \ {0} : n = line_no' /\ n = LineOf(begin) /\ prev_lineno < n
  BY <1>1, <1>2
<1>4. begin \in 0 .. size
  BY <1>2
<1>5. PICK start \in 0 .. begin : start = LineStart(file, begin) /\ start = Min(OnLine(n))
  BY <1>2, <1>3, <1>4, LineStartIs
<1>6. PICK stop \in begin .. size : stop = LineEnd(file, begin) /\ stop = Max(OnLine(n))
  BY <1>2, <1>3, <1>4, LineEndIs
<1>7. end <= stop
  BY <1>2, <1>6 DEF MatchThrows
<1>8. m = [line |-> n, start |-> start, begin |-> begin, end |-> end, stop |-> stop]
  BY <1>2, <1>3, <1>5, <1>6 DEF Match
<1>9. end = BestEnd(begin)
  BY <1>1, <1>2 DEF Finds
<1>10. begin \in MatchStarts(n) /\ MatchStarts(n) \in SUBSET Nat
  <2>1. Matches(begin)
    BY <1>1, <1>2 DEF Finds
  <2> QED
    BY <1>2, <1>3, <1>4, <2>1 DEF MatchStarts, OnLine
<1>11. ASSUME ~BeginsInsideCharacter(n) PROVE begin = Min(MatchStarts(n))
  <2>1. ASSUME NEW y \in MatchStarts(n) PROVE begin <= y
    <3>1. y \in 0 .. size /\ LineOf(y) = n /\ Matches(y)
      BY <1>2 DEF MatchStarts, OnLine
    <3>2. CASE before <= y
      <4>1. y \in ovector.end .. file_size
        BY <1>2, <3>1, <3>2
      <4> QED
        BY <1>1, <1>2, <3>1, <4>1 DEF Finds
    <3>3. CASE y < before
      <4>1. Reported(n)
        BY <1>1, <1>2, <1>11, <3>1, <3>3 DEF ScanInv, PassedInv
      <4>2. PICK i \in DOMAIN ml : ml[i].line = n
        BY <4>1 DEF Reported
      <4>3. n <= prev_lineno
        BY <1>1, <4>2 DEF ScanInv, CountInv
      <4> QED
        BY <1>1, <1>3, <4>3
    <3> QED
      BY <1>2, <3>1, <3>2, <3>3
  <2> QED
    BY <1>10, <2>1, IsMin
<1>12. m \in Reports
  BY <1>8 DEF Reports
<1> QED
  BY <1>2, <1>3, <1>5, <1>6, <1>7, <1>8, <1>9, <1>11, <1>12 DEF IsRight

LEMMA ReportInv ==
  ASSUME IInv, Report
  PROVE  IInv'
<1>1. /\ CountLines /\ line_no' # prev_lineno /\ prev_lineno' = line_no'
      /\ IF MatchThrows(file, Found)
         THEN pc' = "length_error" /\ UNCHANGED ml
         ELSE ml' = Append(ml, Match(file, Found, line_no')) /\ UNCHANGED pc
  BY DEF Report
<1>2. /\ pc = "scan" /\ UNCHANGED input_vars /\ InputInv /\ ScanInv /\ Finds(Found)
      /\ line_no' \in Nat \ {0} /\ prev_lineno \in Nat /\ prev_lineno <= line_no'
      /\ file_size \in Nat /\ ml \in Seq(Reports) /\ ReportSound
  BY <1>1, CountLinesFacts DEF IInv
<1>3. InputInv' /\ TypeOK'
  BY <1>1, <1>2, CountLinesTypes
<1>4. MatchThrows(file, Found) <=> NewlinesIn(file, Found.begin, Found.end) # {}
  <2>1. Found \in [begin : 0 .. file_size, end : 0 .. file_size] /\ Found.begin <= Found.end
    BY <1>2 DEF Finds
  <2> QED
    BY <1>2, <2>1, ThrowsOnNewline
<1>5. CASE MatchThrows(file, Found)
  <2>1. pc' = "length_error" /\ ml' = ml
    BY <1>1, <1>5
  <2>2. pattern'.search = "literal"
    <3>1. pattern.search = "literal"
      BY <1>2, <1>4, <1>5 DEF Finds
    <3> QED
      BY <1>2, <3>1, SameInputs
  <2>3. ReportSound'
    BY <1>2, <2>1, SameReports
  <2> QED
    BY <1>2, <1>3, <2>1, <2>2, <2>3 DEF IInv, ReportComplete
<1>6. CASE ~MatchThrows(file, Found)
  <2>1. PICK m : m = Match(file, Found, line_no')
    OBVIOUS
  <2>2. ml' = Append(ml, m) /\ pc' = "scan"
    BY <1>1, <1>2, <1>6, <2>1
  <2>3. m \in Reports /\ IsRight(m)
    BY <1>1, <1>6, <2>1, ReportIsRight
  <2>4. m.line = line_no'
    BY <2>1 DEF Match
  <2>5. PICK n \in Nat : n = Len(ml) /\ DOMAIN ml = 1 .. n
    BY <1>2
  <2>6. /\ ml' \in Seq(Reports) /\ DOMAIN ml' = 1 .. (n + 1) /\ ml'[n + 1] = m
        /\ \A i \in 1 .. n : ml'[i] = ml[i]
    BY <1>2, <2>2, <2>3, <2>5
  <2>7. \A i \in DOMAIN ml : ml[i].line \in Nat /\ ml[i].line <= prev_lineno
    <3>1. \A i \in DOMAIN ml : ml[i] \in Reports
      BY <1>2, SeqFacts
    <3> QED
      BY <1>2, <3>1 DEF ScanInv, CountInv, Reports
  <2>8. \A i \in DOMAIN ml : ml[i].line < line_no'
    <3>1. prev_lineno < line_no'
      BY <1>1, <1>2
    <3> QED
      BY <1>2, <2>7, <3>1
  <2>9. \A i \in DOMAIN ml' : ml'[i].line <= prev_lineno'
    <3>1. ASSUME NEW i \in 1 .. (n + 1) PROVE ml'[i].line <= line_no'
      <4>1. CASE i = n + 1
        BY <1>2, <2>4, <2>6, <4>1
      <4>2. CASE i # n + 1
        <5>1. i \in 1 .. n
          BY <4>2
        <5> QED
          BY <1>2, <2>5, <2>6, <2>7, <2>8, <5>1
      <4> QED
        BY <4>1, <4>2
    <3> QED
      BY <1>1, <2>6, <3>1
  <2>10. ReportedIn(ml', line_no') /\ \A l : ReportedIn(ml, l) => ReportedIn(ml', l)
    <3>1. n + 1 \in DOMAIN ml' /\ \A i \in DOMAIN ml : i \in DOMAIN ml'
      BY <2>5, <2>6
    <3> QED
      BY <2>4, <2>5, <2>6, <3>1 DEF ReportedIn
  <2>11. ScanInv'
    BY <1>1, <1>4, <1>6, <2>9, <2>10, MatchPassed
  <2>12. ReportSound'
    <3>1. \A i \in DOMAIN ml : (i > 1 => ml[i - 1].line < ml[i].line) /\ IsRight(ml[i])
      BY <1>2 DEF ReportSound, IsRight
    <3>2. ASSUME NEW i \in 1 .. (n + 1)
          PROVE  (i > 1 => ml'[i - 1].line < ml'[i].line) /\ IsRight(ml'[i])
      <4>1. CASE i = n + 1
        <5>1. i > 1 => i - 1 \in 1 .. n /\ i - 1 = n
          BY <4>1
        <5>2. i > 1 => ml'[i - 1].line < m.line
          BY <2>4, <2>5, <2>6, <2>8, <5>1
        <5> QED
          BY <2>3, <2>6, <4>1, <5>2
      <4>2. CASE i # n + 1
        <5>1. i \in 1 .. n /\ (i > 1 => i - 1 \in 1 .. n)
          BY <4>2
        <5>2. ml'[i] = ml[i] /\ (i > 1 => ml'[i - 1] = ml[i - 1]) /\ i \in DOMAIN ml
          BY <2>5, <2>6, <5>1
        <5> QED
          BY <3>1, <5>2
      <4> QED
        BY <4>1, <4>2
    <3>3. \A o : LineOf(o)' = LineOf(o) /\ OnLine(o)' = OnLine(o) /\ MatchStarts(o)' = MatchStarts(o)
               /\ BestEnd(o)' = BestEnd(o)
      BY <1>2, SameInputs
    <3>4. NumLines' = NumLines /\ file' = file /\ engine' = engine
      BY <1>2, SameInputs
    <3>5. \A o : BeginsInsideCharacter(o)' <=> BeginsInsideCharacter(o)
      BY <3>3, <3>4 DEF BeginsInsideCharacter
    <3> QED
      BY <2>6, <3>2, <3>3, <3>5 DEF ReportSound, IsRight
  <2>13. ReportComplete'
    BY <2>2 DEF ReportComplete
  <2> QED
    BY <1>3, <2>6, <2>11, <2>12, <2>13 DEF IInv
<1> QED
  BY <1>5, <1>6

-----------------------------------------------------------------------------
(* The theorems                                                             *)

LEMMA StepInv == IInv /\ [Next]_vars => IInv'
<1> SUFFICES ASSUME IInv, [Next]_vars PROVE IInv'
  OBVIOUS
<1>1. CASE LeaveLoop
  BY <1>1, LeaveLoopInv
<1>2. CASE NoMoreMatches
  BY <1>2, NoMoreMatchesInv
<1>3. CASE Advance
  BY <1>3, AdvanceInv
<1>4. CASE SameLine
  BY <1>4, SameLineInv
<1>5. CASE Report
  BY <1>5, ReportInv
<1>6. CASE MatchError
  BY <1>6, MatchErrorInv
<1>7. CASE UNCHANGED vars
  <2>1. /\ UNCHANGED input_vars /\ UNCHANGED ml /\ UNCHANGED pc /\ UNCHANGED line_vars
        /\ ovector' = ovector /\ start_offset' = start_offset /\ options' = options
        /\ line_no' = line_no /\ prev_lineno' = prev_lineno
        /\ prev_lineno_search_end' = prev_lineno_search_end
        /\ engine' = engine /\ file' = file /\ pattern' = pattern
    BY <1>7 DEF vars, line_vars, input_vars
  <2>2. IInv' <=> IInv
    BY <2>1 DEF IInv, InputInv, TypeOK, file_size, ReportSound, ReportComplete, ScanInv, CountInv,
                LiteralInv, PassedInv, EndInv, Retry, Reported, LineOf, OnLine, NumLines, StayOnLine,
                Matches, BestEnd, MatchStarts, BeginsInsideCharacter
  <2> QED
    BY <2>2
<1> QED
  BY <1>1, <1>2, <1>3, <1>4, <1>5, <1>6, <1>7 DEF Next, Iterate

\* What holds between any two iterations of the match loop: lines are counted up to the last match,
\* everything before the next attempt was reported or cannot be, and only a literal throws.
THEOREM InductiveInvariant == Spec => []IInv
<1>1. Init => IInv
  BY InitInv
<1>2. IInv /\ [Next]_vars => IInv'
  BY StepInv
<1> QED
  BY <1>1, <1>2, PTL DEF Spec

\* Every offset the loop computes lies in the file or just behind it, whatever the file's length.
THEOREM OffsetsInFile == Spec => []TypeOK
<1>1. IInv => TypeOK
  BY DEF IInv
<1> QED
  BY <1>1, InductiveInvariant, PTL

\* For a file of any length and any pattern: what ScanFile reports is, line after line, the first
\* match of the line with its true line number, in the form the engine prefers, cut out of the
\* whole line.
THEOREM ReportsAreSound == Spec => []ReportSound
<1>1. IInv => ReportSound
  BY DEF IInv
<1> QED
  BY <1>1, InductiveInvariant, PTL

\* For a file of any length and any pattern: when ScanFile ends, no line with a match is missing,
\* but for lines that PCRE2's loop may step over; and no match of a regex makes Match throw.
THEOREM ReportsAreComplete == Spec => []ReportComplete
<1>1. IInv => ReportComplete
  BY DEF IInv
<1> QED
  BY <1>1, InductiveInvariant, PTL
=============================================================================
