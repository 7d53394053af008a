----------------------------- MODULE MCPipeline -----------------------------
(***************************************************************************)
(* Small searches on which TLC checks Pipeline.                            *)
(***************************************************************************)
EXTENDS Pipeline, TLC

CONSTANTS s1, s2

TwoScanners == {s1, s2}
None == {}

\* Five files in three directories: two with matches, one of them stopped by a match error
\* after its first matched line, one without, one empty, one that cannot be read.
MixedFiles == {"a", "b", "none", "empty", "locked"}
MixedBatches == {<<"a", "none">>, <<"empty", "b">>, <<"locked">>}
MixedLines == [f \in MixedFiles |-> IF f = "a" THEN 2 ELSE IF f = "b" THEN 1 ELSE 0]

\* No file has a match; one cannot be read, in one the regex engine gives up.
BarrenFiles == {"none", "locked", "hard"}
BarrenBatches == {<<"none", "hard">>, <<"locked">>}
BarrenLines == [f \in BarrenFiles |-> 0]

EmptyOnes == {"empty"}
LockedOnes == {"locked"}
BrokenB == {"b"}
BrokenHard == {"hard"}
=============================================================================
