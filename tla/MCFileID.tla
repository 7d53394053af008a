------------------------------ MODULE MCFileID ------------------------------
(* A start file, and the start directory "." (the one there is when none is    *)
(* given) with a subdirectory of two files; the dirents of the subdirectory and *)
(* of one of the files do not tell their types.  One stat() or open() in the    *)
(* lot may fail.                                                               *)
EXTENDS FileID

CONSTANTS cwd, top, start, sub, near, deep, w1, w2, s1, s2

MCFiles == {cwd, top, start, sub, near, deep}
MCAtDir == [f \in MCFiles \ {cwd} |->
               CASE f \in {top, start} -> cwd
                 [] f = sub -> top
                 [] OTHER -> sub]
MCKind == [f \in MCFiles |-> IF f \in {cwd, top, sub} THEN "dir" ELSE "file"]
MCStartPaths == <<start, top>>
MCStatData == {[type |-> "file", size |-> -2], [type |-> "other", size |-> 0]}
=============================================================================
