------------------------- MODULE MCProducerConsumer -------------------------
(***************************************************************************)
(* A small instance of ProducerConsumer for TLC.                           *)
(***************************************************************************)
EXTENDS ProducerConsumer, TLC

CONSTANTS p1, p2, c1, c2, c3

\* files_to_scan_queue: a traversal thread that pushes two containers of files (the second
\* with a single file) and another that pushes one file, against three scanner threads.
FilesProducers == {p1, p2}
FilesConsumers == {c1, c2, c3}
FilesWork == (p1 :> << <<"a1", "a2">>, <<"a3">> >>) @@ (p2 :> << <<"b1">> >>)
=============================================================================
