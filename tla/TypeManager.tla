---------------------------- MODULE TypeManager ----------------------------
(***************************************************************************)
(* The file types of ucg (TypeManager.h, TypeManager.cpp): which names a   *)
(* run searches.  A type is a name with filename filters; the options      *)
(* define, select and deselect types, and CompileTypeTables turns what is  *)
(* left into the tables every Globber thread looks names up in.            *)
(*                                                                         *)
(* A std::map from type names to filter vectors is the set of its          *)
(* <<type, filter>> pairs: the order of a vector is never looked at, and   *)
(* no operation leaves a type with an empty vector in a map.  A filter is  *)
(* the string the code stores, "." and "?" included; what its first        *)
(* character says about it is FilterKind.  A manager is a record, because  *)
(* one option makes several calls in a row.                                *)
(***************************************************************************)
EXTENDS Integers, Sequences

CONSTANTS
    Filters,     \* the filters options and built-in types can name
    FilterKind,  \* [Filters -> {"ext", "regex", "glob", "literal"}]
    FilterSize,  \* [Filters -> Nat]: characters after the leading "."
    BuiltinTypes,\* <<type, filter>> pairs of the part of the table in use
    Names,       \* file names
    NameFilter,  \* [Names -> Filters \cup {NoFilter}]: from the last "." on,
                 \* unless the name has no "." or starts with its only one
    NameLiteral, \* [Names -> Filters \cup {NoFilter}]: the name as a filter
    GlobMatches, \* <<glob, name>> pairs fnmatch accepts
    NoFilter

(* microstring::max_size(): the bytes of its std::uint64_t.                *)
MicrostringMax == 8

FiltersOf(map, t) == { e[2] : e \in { p \in map : p[1] = t } }
TypesIn(map) == { e[1] : e \in map }
Entries(t, fs) == { <<t, f>> : f \in fs }
Without(map, t) == { e \in map : e[1] # t }

ASSUME FilterAssumption ==
    /\ FilterKind \in [Filters -> {"ext", "regex", "glob", "literal"}]
    /\ FilterSize \in [Filters -> Nat]
    /\ NoFilter \notin Filters
    /\ BuiltinTypes \subseteq TypesIn(BuiltinTypes) \X Filters

(* The constructor: every built-in type is defined, and active.            *)
InitTypes ==
    [ defined |-> BuiltinTypes,  \* m_builtin_and_user_type_map
      active  |-> BuiltinTypes,  \* m_active_type_map
      removed |-> {},            \* the keys of m_removed_type_filters
      typed   |-> FALSE,         \* m_first_type_has_been_seen
      globs   |-> <<>> ]         \* m_include_exclude_globs
(* m_exclude_globs is the subsequence of the excluding entries of globs.   *)

IsType(tm, t) == t \in TypesIn(tm.defined)

(* Mutant: the first type selected is added to all the others.             *)
SlateKept(tm) == tm.active
(* The first call of type() wipes the slate.                               *)
Slate(tm) == IF tm.typed THEN tm.active ELSE {}

Unremoved(tm, fs) == tm.removed \ fs

(* type(): map::insert leaves a type that is already active as it is.      *)
SelectType(tm, t) ==
    LET old == Slate(tm)
        fs  == FiltersOf(tm.defined, t)
    IN  IF ~IsType(tm, t) THEN tm
        ELSE [tm EXCEPT
                !.typed   = TRUE,
                !.removed = Unremoved(tm, fs),
                !.active  = IF t \in TypesIn(old) THEN old
                            ELSE old \cup Entries(t, fs)]

(* Mutant: deselecting takes the type away but not its filters.            *)
DeselectTypeOnly(tm, t) ==
    IF ~IsType(tm, t) THEN tm
    ELSE [tm EXCEPT !.active = Without(@, t)]

(* notype()                                                                *)
DeselectType(tm, t) ==
    IF ~IsType(tm, t) THEN tm
    ELSE [tm EXCEPT !.removed = @ \cup FiltersOf(tm.defined, t),
                    !.active  = Without(@, t)]

(* Mutant: only the active map gets the filters.                           *)
TypeAddFiltersActiveOnly(tm, t, fs) ==
    [tm EXCEPT !.active = @ \cup Entries(t, fs)]

(* TypeAddIs and TypeAddExt (once per extension): appended to the          *)
(* definition and, selected or not, to the active type.                    *)
TypeAddFilters(tm, t, fs) ==
    [tm EXCEPT !.defined = @ \cup Entries(t, fs),
               !.active  = @ \cup Entries(t, fs)]

(* TypeAddGlobExclude: of no type.                                         *)
TypeAddGlobExclude(tm, g) ==
    [tm EXCEPT !.globs = Append(@, [glob |-> g, include |-> FALSE])]

(* TypeAddGlobInclude: it also selects the type.                           *)
TypeAddGlobInclude(tm, t, g) ==
    SelectType([TypeAddFilters(tm, t, {g}) EXCEPT
                   !.globs = Append(@, [glob |-> g, include |-> TRUE])], t)

TypeDel(tm, t) ==
    [tm EXCEPT !.active = Without(@, t), !.defined = Without(@, t)]

(* TypeAddFromFilterSpecString, of a spec [type, filter, args] that has    *)
(* its three parts and a filter the program knows (the others throw        *)
(* before anything is changed that outlives the exception).                *)
FilterTypes == {"is", "ext", "glob", "globx"}
TypeAddSpec(tm0, spec, delete_type_first) ==
    LET tm == IF delete_type_first THEN TypeDel(tm0, spec.type) ELSE tm0
        g  == CHOOSE f \in spec.args : TRUE
    IN  CASE spec.filter \in {"is", "ext"} ->
                TypeAddFilters(tm, spec.type, spec.args)
          [] spec.filter = "globx" -> TypeAddGlobExclude(tm, g)
          [] spec.filter = "glob"  -> TypeAddGlobInclude(tm, spec.type, g)

(* TypeAddIgnoreFileFromFilterSpecString: add to a special type, which is  *)
(* then deselected.                                                        *)
AddIgnoreFile(tm, spec) ==
    DeselectType(TypeAddSpec(tm, [spec EXCEPT !.type = "IGNORE_FILE_TYPE"],
                             FALSE),
                 "IGNORE_FILE_TYPE")

(* TypeAddIncludeGlobFromFilterSpecString: the call of type() that follows *)
(* passes the name with a ":" at its end, which is no type and changes     *)
(* nothing.                                                                *)
AddIncludeGlob(tm, spec) ==
    SelectType(TypeAddSpec(tm,
                   [spec EXCEPT !.type = "INCLUDE_GLOB_FILE_TYPE"], FALSE),
               "INCLUDE_GLOB_FILE_TYPE:")

----------------------------------------------------------------------------
(* CompileTypeTables: what is active and not removed, by the kind its      *)
(* first character says; short extensions go to the microstring table.     *)
CompileTypeTables(tm) ==
    LET live(k) == { f \in Filters :
                        /\ FilterKind[f] = k
                        /\ f \notin tm.removed
                        /\ \E e \in tm.active : e[2] = f }
        short == { f \in Filters : FilterSize[f] <= MicrostringMax }
    IN  [ fast     |-> live("ext") \cap short, \* m_fast_include_extensions
          ext      |-> live("ext") \ short,    \* m_include_extensions
          literals |-> live("literal"),        \* m_included_literal_filenames
          globs    |-> tm.globs ]

ExcludedByAnyGlob(tables, n) ==
    \E i \in DOMAIN tables.globs :
        /\ ~tables.globs[i].include
        /\ <<tables.globs[i].glob, n>> \in GlobMatches

(* The last glob, in option order, that matches the name.                  *)
GlobVerdict(tables, n) ==
    LET hits == { i \in DOMAIN tables.globs :
                    <<tables.globs[i].glob, n>> \in GlobMatches }
    IN  IF hits = {} THEN "nomatch"
        ELSE LET last == CHOOSE i \in hits : \A j \in hits : j <= i
             IN  IF tables.globs[last].include THEN "include" ELSE "exclude"

(* The table a name's extension is looked up in depends on its length.     *)
ExtensionIncluded(tables, n) ==
    /\ NameFilter[n] # NoFilter
    /\ IF FilterSize[NameFilter[n]] <= MicrostringMax
         THEN NameFilter[n] \in tables.fast
         ELSE NameFilter[n] \in tables.ext

(* Mutant: the literal names are not checked against the globs.            *)
FileShouldBeScannedLiteralsFirst(tables, n) ==
    \/ NameLiteral[n] \in tables.literals
    \/ /\ ExtensionIncluded(tables, n)
       /\ ~ExcludedByAnyGlob(tables, n)
    \/ GlobVerdict(tables, n) = "include"

FileShouldBeScanned(tables, n) ==
    IF ExtensionIncluded(tables, n) \/ NameLiteral[n] \in tables.literals
      THEN ~ExcludedByAnyGlob(tables, n)
      ELSE GlobVerdict(tables, n) = "include"
============================================================================
