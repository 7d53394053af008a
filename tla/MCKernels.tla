------------------------------ MODULE MCKernels ------------------------------
(* The sequential parts that a search relies on without looking at them again: *)
(* the table of extensions and the analysis of PATTERN, made once at the start, *)
(* and the buffer every file is read into, with the searches on it.            *)
(* None of them reads what another one writes, so every state of one of them    *)
(* occurs while the others have yet to begin, and no other ones are explored.   *)
EXTENDS MCFileBuffer, MCPatternAnalysis, ExtensionTable

(* Every string over two bytes of up to one byte more than fits.               *)
MCExtensions == UNION {[1 .. n -> 1 .. 2] : n \in 0 .. MaxSize + 1}

vars == <<buffer_vars, analysis_vars, tables_vars>>

Init == BufferInit /\ AnalysisInit /\ TablesInit

BufferIdle == scanned = 0
AnalysisIdle ==
    pc = "compile" /\ pattern = <<<<>>>> /\ ~ignore_case /\ ~word_regexp /\ ~pattern_is_literal
TablesIdle == given = {} /\ asking = "compile"

Next ==
    \/ BufferIdle /\ TablesIdle /\ AnalysisNext /\ UNCHANGED <<buffer_vars, tables_vars>>
    \/ AnalysisIdle /\ TablesIdle /\ BufferNext /\ UNCHANGED <<analysis_vars, tables_vars>>
    \/ AnalysisIdle /\ BufferIdle /\ TablesNext /\ UNCHANGED <<analysis_vars, buffer_vars>>

Spec == Init /\ [][Next]_vars

(* The type invariants of the three.                                           *)
TypeOK == BufferTypeOK /\ AnalysisTypeOK /\ TablesTypeOK
=============================================================================
