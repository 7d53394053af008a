---------------------------- MODULE DirInclusion ----------------------------
(***************************************************************************)
(* The directory names a traversal skips (DirInclusionManager.cpp): the    *)
(* ones --ignore-dir leaves, and always the built-in ones.                 *)
(***************************************************************************)
CONSTANT BuiltinDirExcludes  \* the names of f_builtin_dir_excludes in use

(* m_excluded_literal_dirs after AddExclusions(exclusions).                *)
AddExclusions(excluded, exclusions) == excluded \cup exclusions

CompileExclusionTables(excluded) == excluded \cup BuiltinDirExcludes

DirShouldBeExcluded(excluded, d) == d \in excluded
=============================================================================
