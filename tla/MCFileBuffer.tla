---------------------------- MODULE MCFileBuffer ----------------------------
(* Files of every content over two bytes, one of them the line end, up to one    *)
(* byte short of two vectors of four; tables that fill one vector, or reach into  *)
(* a second one.                                                              *)
EXTENDS FileBuffer

MCContents == UNION {[1 .. n -> {2, 3}] : n \in 0 .. 7}
MCLiterals == UNION {[1 .. n -> {2, 3}] : n \in 1 .. 5}
MCTables == {{2}, {3}, {2, 3}, {1, 3}, {2, 5}, {0, 3}, {0, 2, 4, 6}, {2, 3, 4, 5, 6}}
LongTables == {{0, 2, 4, 6, 8}}
LongContents == UNION {[1 .. n -> {2, 8}] : n \in 0 .. 3}
=============================================================================
