--------------------------- MODULE ArgParse_proofs ---------------------------
(***************************************************************************)
(* Theorems about module ArgParse, for any command line, any rc files and   *)
(* any types: in which order the arguments are read, and which of several   *)
(* options decides.                                                         *)
(***************************************************************************)
EXTENDS ArgParse, FiniteSetTheorems, SequenceTheorems, WellFoundedInduction, TLAPS

-----------------------------------------------------------------------------
(* Sequences of anything                                                    *)

LEMMA SeqIs ==
  ASSUME NEW s, IsSeq(s)
  PROVE  Len(s) \in Nat /\ DOMAIN s = 1..Len(s) /\ s \in Seq(ToSet(s))
BY LenProperties DEF IsSeq

LEMMA IsSeqOf ==
  ASSUME NEW S, NEW s \in Seq(S)
  PROVE  IsSeq(s)
<1>1. Len(s) \in Nat /\ DOMAIN s = 1..Len(s) /\ s = [i \in 1..Len(s) |-> s[i]]
  BY LenProperties
<1> DEFINE e(i) == s[i]
<1>2. \A i \in 1..Len(s) : e(i) \in ToSet(s)
  BY <1>1 DEF ToSet
<1>3. [i \in 1..Len(s) |-> e(i)] \in Seq(ToSet(s))
  BY <1>1, <1>2, IsASeq
<1> QED
  BY <1>1, <1>3 DEF IsSeq

LEMMA EmptyIs == IsSeq(<<>>) /\ Len(<<>>) = 0 /\ DOMAIN <<>> = {}
<1> PICK s, S : s = <<>> /\ S = {}
  OBVIOUS
<1>1. s \in Seq(S)
  BY EmptySeq
<1>2. IsSeq(s)
  BY <1>1, IsSeqOf
<1> QED
  BY <1>2

LEMMA AppendIs ==
  ASSUME NEW s, IsSeq(s), NEW e
  PROVE  /\ IsSeq(Append(s, e))
         /\ Len(Append(s, e)) = Len(s) + 1
         /\ DOMAIN Append(s, e) = 1..Len(s) + 1
         /\ \A i \in 1..Len(s) : Append(s, e)[i] = s[i]
         /\ Append(s, e)[Len(s) + 1] = e
<1> PICK S : S = ToSet(s) \cup {e}
  OBVIOUS
<1>1. s \in Seq(S) /\ e \in S
  BY SeqMonotonic DEF IsSeq
<1> PICK r : r = Append(s, e)
  OBVIOUS
<1>2. r \in Seq(S) /\ Len(r) = Len(s) + 1 /\ r[Len(s) + 1] = e /\ \A i \in 1..Len(s) : r[i] = s[i]
  BY <1>1, AppendProperties
<1>3. IsSeq(r) /\ DOMAIN r = 1..Len(s) + 1
  BY <1>2, IsSeqOf, LenProperties
<1> QED
  BY <1>2, <1>3

LEMMA ConcatIs ==
  ASSUME NEW s, IsSeq(s), NEW t, IsSeq(t)
  PROVE  /\ IsSeq(s \o t)
         /\ Len(s \o t) = Len(s) + Len(t)
         /\ \A i \in 1..Len(s) : (s \o t)[i] = s[i]
         /\ \A i \in 1..Len(t) : (s \o t)[Len(s) + i] = t[i]
<1> PICK S : S = ToSet(s) \cup ToSet(t)
  OBVIOUS
<1>1. s \in Seq(S) /\ t \in Seq(S)
  BY SeqMonotonic DEF IsSeq
<1> PICK r : r = s \o t
  OBVIOUS
<1>2. r \in Seq(S) /\ Len(r) = Len(s) + Len(t) /\ \A i \in 1..Len(s) : r[i] = s[i]
  BY <1>1, ConcatProperties, LenProperties
<1>5. IsSeq(r)
  BY <1>2, IsSeqOf
<1>3. Len(s) \in Nat /\ Len(t) \in Nat
  BY SeqIs
<1>4. ASSUME NEW i \in 1..Len(t) PROVE (s \o t)[Len(s) + i] = t[i]
  <2>1. Len(s) + i \in Len(s) + 1..Len(s) + Len(t) /\ (Len(s) + i) - Len(s) = i
    BY <1>3
  <2> QED
    BY <1>1, <1>3, <2>1, ConcatProperties
<1> QED
  BY <1>2, <1>4, <1>5

Replaced(s, i, e) == [s EXCEPT ![i] = e]

LEMMA ReplacedIs ==
  ASSUME NEW s, IsSeq(s), NEW i \in 1..Len(s), NEW e, NEW r, r = Replaced(s, i, e)
  PROVE  /\ IsSeq(r)
         /\ Len(r) = Len(s)
         /\ \A j \in 1..Len(s) : r[j] = IF j = i THEN e ELSE s[j]
<1>S. PICK S : S = ToSet(s) \cup {e}
  OBVIOUS
<1>1. s \in Seq(S) /\ e \in S
  BY <1>S, SeqMonotonic DEF IsSeq
<1>2. r \in Seq(S) /\ Len(r) = Len(s) /\ \A j \in 1..Len(s) : r[j] = IF j = i THEN e ELSE s[j]
  BY <1>1, ExceptSeq DEF Replaced
<1>3. IsSeq(r)
  BY <1>2, IsSeqOf
<1> QED
  BY <1>2, <1>3

-----------------------------------------------------------------------------
(* First and last places                                                    *)

LEMMA LeastPlace ==
  ASSUME NEW S \in SUBSET Nat, S # {}
  PROVE  Min(S) \in S /\ \A i \in S : Min(S) <= i
<1> PICK R : R = {p \in Nat \X Nat : p[1] < p[2]}
  OBVIOUS
<1>1. R = OpToRel(<, Nat)
  BY DEF OpToRel
<1>2. IsWellFoundedOn(R, Nat)
  BY ONLY <1>1, NatLessThanWellFounded
<1>3. PICK x \in S : \A y \in S : <<y, x>> \notin R
  BY <1>2, WFMin
<1>4. ASSUME NEW y \in S PROVE x <= y
  <2>1. <<y, x>> \in Nat \X Nat /\ <<y, x>>[1] = y /\ <<y, x>>[2] = x
    OBVIOUS
  <2> QED
    BY <1>3, <2>1
<1> QED
  BY <1>4 DEF Min

LEMMA LastPlace ==
  ASSUME NEW n \in Nat, NEW S \in SUBSET (1..n), S # {}
  PROVE  Max(S) \in S /\ \A i \in S : i <= Max(S)
<1> PICK T : T = {n - i : i \in S}
  OBVIOUS
<1>1. T \in SUBSET Nat
  <2>1. \A i \in 1..n : n - i \in Nat
    OBVIOUS
  <2> QED
    BY <2>1
<1>2. T # {}
  <2>1. PICK i : i \in S
    OBVIOUS
  <2> QED
    BY <2>1
<1> PICK m : m = Min(T)
  OBVIOUS
<1>3. m \in T /\ \A j \in T : m <= j
  BY <1>1, <1>2, LeastPlace
<1>4. PICK x \in S : m = n - x
  BY <1>3
<1>5. \A i \in S : i <= x
  <2> TAKE i \in S
  <2>1. n - x <= n - i /\ i \in Int /\ x \in Int
    BY <1>3, <1>4
  <2> QED
    BY <2>1
<1> QED
  BY <1>5 DEF Max

\* The greatest of the places up to one that is among them.
LEMMA NewLastPlace ==
  ASSUME NEW S \in SUBSET Int, NEW i \in S, \A j \in S : j <= i
  PROVE  Max(S) = i
<1> PICK m : m = Max(S)
  OBVIOUS
<1>1. m \in S /\ \A j \in S : m >= j
  BY DEF Max
<1>2. m \in Int /\ i \in Int /\ m >= i /\ m <= i
  BY <1>1
<1> QED
  BY <1>2

-----------------------------------------------------------------------------
(* The operations on types                                                  *)

IsMap(map) == \A e \in map : e = <<e[1], e[2]>> /\ e[2] \in Filters

TmOK(m) ==
  /\ DOMAIN m = {"defined", "active", "removed", "typed", "globs"}
  /\ IsMap(m.defined)
  /\ m.active \subseteq m.defined
  /\ m.removed \subseteq Filters
  /\ m.typed \in BOOLEAN
  /\ IsSeq(m.globs)

LEMMA MapIs ==
  ASSUME NEW map
  PROVE  /\ IsMap(map) <=> map \subseteq TypesIn(map) \X Filters
         /\ IsMap(map) => \A t : /\ \A f : f \in FiltersOf(map, t) <=> <<t, f>> \in map
                                 /\ Entries(t, FiltersOf(map, t)) \subseteq map
                                 /\ FiltersOf(map, t) \subseteq Filters
<1>1. IsMap(map) <=> map \subseteq TypesIn(map) \X Filters
  BY DEF TypesIn, IsMap
<1>2. ASSUME IsMap(map), NEW t, NEW f PROVE f \in FiltersOf(map, t) <=> <<t, f>> \in map
  <2>1. ASSUME f \in FiltersOf(map, t) PROVE <<t, f>> \in map
    BY <1>2, <2>1 DEF FiltersOf, IsMap
  <2>2. ASSUME <<t, f>> \in map PROVE f \in FiltersOf(map, t)
    <3> PICK e : e = <<t, f>>
      OBVIOUS
    <3>1. e \in map /\ e[1] = t /\ e[2] = f
      BY <2>2
    <3> QED
      BY <3>1 DEF FiltersOf
  <2> QED
    BY <2>1, <2>2
<1>3. ASSUME IsMap(map), NEW t PROVE FiltersOf(map, t) \subseteq Filters
  BY <1>3 DEF FiltersOf, IsMap
<1> QED
  BY <1>1, <1>2, <1>3 DEF Entries

LEMMA InitialTypes == TmOK(InitTypes) /\ InitTypes.globs = <<>> /\ ~InitTypes.typed
BY FilterAssumption, EmptyIs, MapIs DEF TmOK, InitTypes

LEMMA TypeSelected ==
  ASSUME NEW m, TmOK(m), NEW t, NEW r, r = SelectType(m, t)
  PROVE  /\ TmOK(r)
         /\ r.globs = m.globs
         /\ r.defined = m.defined
         /\ r.typed <=> m.typed \/ IsType(m, t)
<1> PICK d, fs : d = m.defined /\ fs = FiltersOf(d, t)
  OBVIOUS
<1>1. IsMap(d) /\ Entries(t, fs) \subseteq d /\ Slate(m) \subseteq d
  BY MapIs DEF TmOK, Slate
<1> QED
  BY <1>1 DEF TmOK, SelectType, Unremoved

LEMMA TypeDeselected ==
  ASSUME NEW m, TmOK(m), NEW t, NEW r, r = DeselectType(m, t)
  PROVE  /\ TmOK(r)
         /\ r.globs = m.globs
         /\ r.defined = m.defined
         /\ r.typed = m.typed
<1> PICK d, fs : d = m.defined /\ fs = FiltersOf(d, t)
  OBVIOUS
<1>1. IsMap(d) /\ fs \subseteq Filters
  BY MapIs DEF TmOK
<1> QED
  BY <1>1 DEF TmOK, DeselectType, Without

LEMMA FiltersAdded ==
  ASSUME NEW m, TmOK(m), NEW t, NEW fs \in SUBSET Filters
  PROVE  /\ TmOK(TypeAddFilters(m, t, fs))
         /\ TypeAddFilters(m, t, fs).globs = m.globs
         /\ TypeAddFilters(m, t, fs).typed = m.typed
BY DEF TmOK, IsMap, TypeAddFilters, Entries

LEMMA TypeDeleted ==
  ASSUME NEW m, TmOK(m), NEW t
  PROVE  /\ TmOK(TypeDel(m, t))
         /\ TypeDel(m, t).globs = m.globs
         /\ TypeDel(m, t).typed = m.typed
BY DEF TmOK, IsMap, TypeDel, Without

Included(globs, g) == Append(globs, [glob |-> g, include |-> TRUE])
Excluded(globs, g) == Append(globs, [glob |-> g, include |-> FALSE])

LEMMA GlobsAreSeq ==
  ASSUME NEW globs, IsSeq(globs), NEW g
  PROVE  IsSeq(Included(globs, g)) /\ IsSeq(Excluded(globs, g))
BY AppendIs DEF Included, Excluded

LEMMA GlobExcluded ==
  ASSUME NEW m, TmOK(m), NEW g, NEW r, r = TypeAddGlobExclude(m, g)
  PROVE  TmOK(r) /\ r.globs = Excluded(m.globs, g) /\ r.typed = m.typed
<1>1. IsSeq(Excluded(m.globs, g))
  BY GlobsAreSeq DEF TmOK
<1>2. r = [m EXCEPT !.globs = Excluded(m.globs, g)]
  BY DEF TypeAddGlobExclude, Excluded
<1> QED
  BY <1>1, <1>2 DEF TmOK

LEMMA GlobIncluded ==
  ASSUME NEW m, TmOK(m), NEW t, NEW g \in Filters, NEW r, r = TypeAddGlobInclude(m, t, g)
  PROVE  TmOK(r) /\ r.globs = Included(m.globs, g)
<1>a. PICK added : added = TypeAddFilters(m, t, {g})
  OBVIOUS
<1>g. PICK globbed : globbed = [added EXCEPT !.globs = Included(added.globs, g)]
  OBVIOUS
<1>1. TmOK(added) /\ added.globs = m.globs
  BY <1>a, FiltersAdded
<1>2. IsSeq(Included(m.globs, g))
  BY GlobsAreSeq DEF TmOK
<1>3. TmOK(globbed) /\ globbed.globs = Included(m.globs, g)
  BY <1>g, <1>1, <1>2 DEF TmOK
<1>4. r = SelectType(globbed, t)
  BY <1>a, <1>g DEF TypeAddGlobInclude, Included
<1> QED
  BY <1>3, <1>4, TypeSelected

-----------------------------------------------------------------------------
(* The options that define types and globs                                  *)

\* The globs after an option with a filter and its arguments.
Globbed(globs, filter, fs) ==
  IF filter = "glob" THEN Included(globs, CHOOSE g \in fs : TRUE)
  ELSE IF filter = "globx" THEN Excluded(globs, CHOOSE g \in fs : TRUE)
  ELSE globs

LEMMA SpecIs ==
  ASSUME NEW m, NEW spec, NEW delete
  PROVE  LET k == IF delete THEN TypeDel(m, spec.type) ELSE m
             g == CHOOSE f \in spec.args : TRUE
         IN  /\ spec.filter \in {"is", "ext"} =>
                  TypeAddSpec(m, spec, delete) = TypeAddFilters(k, spec.type, spec.args)
             /\ spec.filter = "globx" =>
                  TypeAddSpec(m, spec, delete) = TypeAddGlobExclude(k, g)
             /\ spec.filter = "glob" =>
                  TypeAddSpec(m, spec, delete) = TypeAddGlobInclude(k, spec.type, g)
BY DEF TypeAddSpec

LEMMA SpecAdded ==
  ASSUME NEW m, TmOK(m), NEW spec, NEW delete, spec.filter \in FilterTypes,
         spec.args \subseteq Filters, spec.filter = "glob" => spec.args # {},
         NEW r, r = TypeAddSpec(m, spec, delete)
  PROVE  /\ TmOK(r)
         /\ r.globs = Globbed(m.globs, spec.filter, spec.args)
         /\ r.typed => m.typed \/ spec.filter = "glob"
<1>k. PICK k : k = IF delete THEN TypeDel(m, spec.type) ELSE m
  OBVIOUS
<1>g. PICK g : g = CHOOSE f \in spec.args : TRUE
  OBVIOUS
<1>1. TmOK(k) /\ k.globs = m.globs /\ k.typed = m.typed
  BY <1>k, TypeDeleted
<1>2. CASE spec.filter \in {"is", "ext"}
  <2>1. r = TypeAddFilters(k, spec.type, spec.args)
    BY <1>2, <1>k, <1>g, SpecIs
  <2> QED
    BY <1>1, <1>2, <2>1, FiltersAdded DEF Globbed
<1>3. CASE spec.filter = "globx"
  <2>1. r = TypeAddGlobExclude(k, g)
    BY <1>3, <1>k, <1>g, SpecIs
  <2>3. Globbed(m.globs, spec.filter, spec.args) = Excluded(m.globs, g)
    BY <1>3, <1>g DEF Globbed
  <2>4. TmOK(r) /\ r.globs = Excluded(m.globs, g) /\ r.typed = k.typed
    BY <1>1, <2>1, GlobExcluded
  <2> QED
    BY <1>1, <2>3, <2>4
<1>4. CASE spec.filter = "glob"
  <2>1. r = TypeAddGlobInclude(k, spec.type, g)
    BY <1>4, <1>k, <1>g, SpecIs
  <2>2. g \in Filters
    BY <1>4, <1>g
  <2>3. Globbed(m.globs, spec.filter, spec.args) = Included(m.globs, g)
    BY <1>4, <1>g DEF Globbed
  <2>4. TmOK(r) /\ r.globs = Included(m.globs, g)
    BY <1>1, <2>1, <2>2, GlobIncluded
  <2> QED
    BY <1>4, <2>3, <2>4
<1> QED
  BY <1>2, <1>3, <1>4 DEF FilterTypes

LEMMA DefinedIs ==
  ASSUME NEW a
  PROVE  /\ a.name = "type-add" => Defined(a) = TypeAddSpec(tm, a.spec, FALSE)
         /\ a.name = "type-set" => Defined(a) = TypeAddSpec(tm, a.spec, TRUE)
         /\ a.name = "type-del" => Defined(a) = TypeDel(tm, a.val)
         /\ a.name = "ignore-file" => Defined(a) = AddIgnoreFile(tm, a.spec)
         /\ a.name \in {"exclude", "ignore"} =>
              Defined(a) = AddIgnoreFile(tm, [a.spec EXCEPT !.filter = "globx"])
         /\ a.name = "include" =>
              Defined(a) = AddIncludeGlob(tm, [a.spec EXCEPT !.filter = "glob"])
BY DEF Defined

LEMMA GlobFilterIs ==
  ASSUME NEW a
  PROVE  /\ a.name \in {"exclude", "ignore"} => GlobFilter(a) = "globx"
         /\ a.name = "include" => GlobFilter(a) = "glob"
         /\ a.name \in {"type-add", "type-set", "ignore-file"} => GlobFilter(a) = a.spec.filter
         /\ a.name = "type-del" => GlobFilter(a) = "none"
BY DEF GlobFilter

\* What an option that defines something must be for its step not to be an exception.
Defines(a) == IsArg(a) /\ IsDefinition(a) /\ WellFormed(a)

LEMMA DefinitionIs ==
  ASSUME NEW a, TmOK(tm), Defines(a), NEW r, r = Defined(a)
  PROVE  /\ TmOK(r)
         /\ r.globs = Globbed(tm.globs, GlobFilter(a), a.spec.args)
         /\ r.typed => tm.typed \/ GlobFilter(a) = "glob"
<1>1. /\ a.name \in DefinesTypes /\ a.spec.args \subseteq Filters
      /\ a.spec.filter = "glob" \/ a.name = "include" => a.spec.args # {}
  BY DEF Defines, IsArg, IsDefinition
<1>2. CASE a.name \in {"type-add", "type-set"}
  <2>1. PICK delete : r = TypeAddSpec(tm, a.spec, delete)
    BY <1>2, DefinedIs
  <2>2. a.spec.filter \in FilterTypes /\ GlobFilter(a) = a.spec.filter
    BY <1>2, GlobFilterIs DEF Defines, WellFormed
  <2> QED
    BY <1>1, <2>1, <2>2, SpecAdded
<1>3. CASE a.name = "type-del"
  <2>1. r = TypeDel(tm, a.val) /\ GlobFilter(a) = "none"
    BY <1>3, DefinedIs, GlobFilterIs
  <2> QED
    BY <2>1, TypeDeleted DEF Globbed
<1>4. ASSUME NEW spec, DOMAIN spec = {"type", "filter", "args"}, spec.args = a.spec.args,
             spec.filter = GlobFilter(a), spec.filter \in FilterTypes,
             r = AddIgnoreFile(tm, spec), spec.filter = "glob" => spec.args # {}
      PROVE  /\ TmOK(r) /\ r.globs = Globbed(tm.globs, GlobFilter(a), a.spec.args)
             /\ r.typed => tm.typed \/ GlobFilter(a) = "glob"
  <2>s. PICK s : s = [spec EXCEPT !.type = "IGNORE_FILE_TYPE"]
    OBVIOUS
  <2>1. s.filter = spec.filter /\ s.args = spec.args
    BY <1>4, <2>s
  <2>k. PICK k : k = TypeAddSpec(tm, s, FALSE)
    OBVIOUS
  <2>d. PICK delete : k = TypeAddSpec(tm, s, delete)
    BY <2>k
  <2>2. TmOK(k) /\ k.globs = Globbed(tm.globs, GlobFilter(a), a.spec.args)
        /\ (k.typed => tm.typed \/ GlobFilter(a) = "glob")
    BY <1>1, <1>4, <2>1, <2>d, SpecAdded
  <2>3. r = DeselectType(k, "IGNORE_FILE_TYPE")
    BY <1>4, <2>s, <2>k DEF AddIgnoreFile
  <2> QED
    BY <2>2, <2>3, TypeDeselected
<1>5. CASE a.name = "ignore-file"
  <2>1. r = AddIgnoreFile(tm, a.spec) /\ GlobFilter(a) = a.spec.filter
    BY <1>5, DefinedIs, GlobFilterIs
  <2>2. a.spec.filter \in FilterTypes /\ DOMAIN a.spec = {"type", "filter", "args"}
    BY <1>5 DEF Defines, WellFormed, IsArg
  <2> QED
    BY <1>1, <1>4, <2>1, <2>2
<1>6. CASE a.name \in {"exclude", "ignore"}
  <2>p. PICK spec : spec = [a.spec EXCEPT !.filter = "globx"]
    OBVIOUS
  <2>1. r = AddIgnoreFile(tm, spec) /\ GlobFilter(a) = "globx"
    BY <1>6, <2>p, DefinedIs, GlobFilterIs
  <2>2. /\ DOMAIN spec = {"type", "filter", "args"} /\ spec.args = a.spec.args
        /\ spec.filter = "globx"
    BY <2>p DEF Defines, IsArg
  <2> QED
    BY <1>4, <2>1, <2>2 DEF FilterTypes
<1>7. CASE a.name = "include"
  <2>p. PICK spec, s : /\ spec = [a.spec EXCEPT !.filter = "glob"]
                     /\ s = [spec EXCEPT !.type = "INCLUDE_GLOB_FILE_TYPE"]
    OBVIOUS
  <2>1. r = AddIncludeGlob(tm, spec) /\ GlobFilter(a) = "glob"
    BY <1>7, <2>p, DefinedIs, GlobFilterIs
  <2>2. s.filter = "glob" /\ s.args = a.spec.args
    BY <2>p DEF Defines, IsArg
  <2>k. PICK k : k = TypeAddSpec(tm, s, FALSE)
    OBVIOUS
  <2>d. PICK delete : k = TypeAddSpec(tm, s, delete)
    BY <2>k
  <2>3. TmOK(k) /\ k.globs = Globbed(tm.globs, GlobFilter(a), a.spec.args)
    BY <1>1, <1>7, <2>1, <2>2, <2>d, SpecAdded DEF FilterTypes
  <2>4. r = SelectType(k, "INCLUDE_GLOB_FILE_TYPE:")
    BY <2>1, <2>p, <2>k DEF AddIncludeGlob
  <2> QED
    BY <2>1, <2>3, <2>4, TypeSelected
<1> QED
  BY <1>1, <1>2, <1>3, <1>5, <1>6, <1>7 DEF DefinesTypes

-----------------------------------------------------------------------------
(* The state of the program                                                 *)

Reading == {"start", "walk", "project", "combine"}
Stages == Reading \cup {"types", "parse", "apply", "running", "exited"}

\* An option takes an argument, or more, so that there are never more options than arguments.
StateInv ==
  /\ input \in Inputs
  /\ stage \in Stages
  /\ dir \in 1..Len(input.dirRc)
  /\ IsArgs(args)
  /\ pos \in 1..Len(args) + 1
  /\ TmOK(tm)
  /\ IsSeq(opts)
  /\ Len(opts) <= Len(args)
  /\ stage \in Reading => pos = 1
  /\ stage \in Reading \cup {"types"} => opts = <<>>
  /\ stage = "parse" => Len(opts) < pos
  /\ (exit = -1) <=> (stage # "exited")
  /\ exit \in {-1, 0, 255}

LEMMA InputIs ==
  ASSUME NEW in \in Inputs
  PROVE  /\ IsArgs(in.argv) /\ IsArgs(in.homeRc.args)
         /\ IsSeq(in.dirRc) /\ Len(in.dirRc) \in Nat \ {0} /\ DOMAIN in.dirRc = 1..Len(in.dirRc)
         /\ \A d \in 1..Len(in.dirRc) : IsArgs(in.dirRc[d].args)
<1> PICK rcs : rcs = in.dirRc
  OBVIOUS
<1>1. IsSeq(rcs) /\ rcs # <<>>
  BY InputsAssumption
<1>2. Len(rcs) \in Nat \ {0} /\ DOMAIN rcs = 1..Len(rcs)
  BY <1>1, SeqIs, EmptySeq
<1> QED
  BY <1>1, <1>2, InputsAssumption

LEMMA ConcatArgs ==
  ASSUME NEW s, IsArgs(s), NEW t, IsArgs(t)
  PROVE  IsArgs(s \o t)
<1>c. PICK r : r = s \o t
  OBVIOUS
<1>1. /\ IsSeq(r) /\ Len(r) = Len(s) + Len(t)
      /\ \A i \in 1..Len(s) : r[i] = s[i]
      /\ \A i \in 1..Len(t) : r[Len(s) + i] = t[i]
  BY <1>c, ConcatIs DEF IsArgs
<1>2. /\ Len(s) \in Nat /\ DOMAIN s = 1..Len(s) /\ Len(t) \in Nat /\ DOMAIN t = 1..Len(t)
      /\ DOMAIN r = 1..Len(r)
  BY <1>1, SeqIs DEF IsArgs
<1>3. ASSUME NEW i \in DOMAIN r PROVE IsArg(r[i])
  <2>1. CASE i \in 1..Len(s)
    BY <1>1, <1>2, <2>1 DEF IsArgs
  <2>2. CASE i \notin 1..Len(s)
    <3>1. PICK j \in 1..Len(t) : i = Len(s) + j
      <4>1. i - Len(s) \in 1..Len(t) /\ i = Len(s) + (i - Len(s))
        BY <1>1, <1>2, <2>2
      <4> QED
        BY <4>1
    <3> QED
      BY <1>1, <1>2, <3>1 DEF IsArgs
  <2> QED
    BY <2>1, <2>2
<1>4. IsArgs(r)
  BY <1>1, <1>3 DEF IsArgs
<1> QED
  BY <1>c, <1>4

LEMMA TypeArgIs ==
  ASSUME NEW t
  PROVE  IsArg(TypeArg(t))
BY DEF IsArg, TypeArg, Long

\* The rewriting of one argument.
LEMMA RewrittenArgs ==
  ASSUME NEW s, IsArgs(s), NEW i \in 1..Len(s), NEW t, NEW r, r = Replaced(s, i, TypeArg(t))
  PROVE  /\ IsArgs(r)
         /\ Len(r) = Len(s)
         /\ \A j \in 1..Len(s) : r[j] = IF j = i THEN TypeArg(t) ELSE s[j]
<1>a. PICK a : a = TypeArg(t)
  OBVIOUS
<1>1. IsSeq(r) /\ Len(r) = Len(s) /\ \A j \in 1..Len(s) : r[j] = IF j = i THEN a ELSE s[j]
  BY <1>a, ReplacedIs DEF IsArgs
<1>2. DOMAIN r = 1..Len(r) /\ DOMAIN s = 1..Len(s)
  BY <1>1, SeqIs DEF IsArgs
<1>3. IsArg(a)
  BY <1>a, TypeArgIs
<1>4. IsArgs(r)
  BY <1>1, <1>2, <1>3 DEF IsArgs
<1> QED
  BY <1>a, <1>1, <1>4

LEMMA InitialState == Init => StateInv
<1> SUFFICES ASSUME Init PROVE StateInv
  OBVIOUS
<1>1. input \in Inputs /\ stage = "start" /\ dir = Len(input.dirRc) /\ exit = -1
  BY DEF Init
<1>2. args = <<>> /\ opts = <<>> /\ pos = 1 /\ tm = InitTypes
  BY DEF Init
<1>3. dir \in 1..Len(input.dirRc)
  BY <1>1, InputIs
<1>4. IsArgs(args) /\ IsSeq(opts) /\ Len(args) = 0 /\ Len(opts) = 0
  BY <1>2, EmptyIs DEF IsArgs
<1> QED
  BY <1>1, <1>2, <1>3, <1>4, InitialTypes DEF StateInv, Stages, Reading

\* The end of the program.
LEMMA ExitIs ==
  ASSUME StateInv, stage # "exited", NEW status \in {0, 255}, Exit(status)
  PROVE  StateInv'
BY DEF StateInv, Exit, Stages, Reading

LEMMA StepState == StateInv /\ [Next]_vars => StateInv'
<1> SUFFICES ASSUME StateInv, [Next]_vars PROVE StateInv'
  OBVIOUS
<1>s. Len(args) \in Nat /\ Len(opts) \in Nat /\ DOMAIN opts = 1..Len(opts)
  BY SeqIs DEF StateInv, IsArgs
<1>1. CASE ReadUserConfig
  <2>1. CASE \E status \in {255} : Exit(status)
    BY <1>1, <2>1, ExitIs DEF ReadUserConfig
  <2>2. CASE args' \in {input.homeRc.args, args} /\ Goto("walk")
             /\ UNCHANGED <<input, dir, pos, tm, opts, exit>>
    <3>1. IsArgs(args') /\ Len(args') \in Nat
      BY <2>2, InputIs, SeqIs DEF StateInv, IsArgs
    <3>2. stage = "start" /\ stage' = "walk"
      BY <1>1, <2>2 DEF ReadUserConfig, Goto
    <3> QED
      BY <2>2, <3>1, <3>2 DEF StateInv, Stages, Reading
  <2> QED
    BY <1>1, <2>1, <2>2 DEF ReadUserConfig
<1>2. CASE SkipConfig
  BY <1>2 DEF SkipConfig, Goto, StateInv, Stages, Reading
<1>3. CASE WalkUp
  <2>1. dir' \in 1..Len(input.dirRc)
    <3>1. Len(input.dirRc) \in Nat
      BY InputIs DEF StateInv
    <3>2. dir' = dir \/ dir' = Dirname(dir)
      BY <1>3 DEF WalkUp
    <3> QED
      BY <3>1, <3>2 DEF StateInv, Dirname
  <2>2. stage \in Reading /\ stage' \in Reading
    BY <1>3 DEF WalkUp, Goto, Reading
  <2> QED
    BY <1>3, <2>1, <2>2 DEF WalkUp, StateInv, Stages, Reading
<1>4. CASE ReadProjectConfig
  <2>1. CASE \E status \in {255} : Exit(status)
    BY <1>4, <2>1, ExitIs DEF ReadProjectConfig
  <2>2. CASE args' = args \o ArgsOf(input.dirRc[dir]) /\ Goto("combine")
             /\ UNCHANGED <<input, dir, pos, tm, opts, exit>>
    <3>1. IsArgs(args')
      BY <2>2, InputIs, EmptyIs, ConcatArgs DEF StateInv, ArgsOf, IsArgs
    <3>2. Len(args') \in Nat
      BY <3>1, SeqIs DEF IsArgs
    <3>3. stage = "project" /\ stage' = "combine"
      BY <1>4, <2>2 DEF ReadProjectConfig, Goto
    <3> QED
      BY <2>2, <3>1, <3>2, <3>3, EmptyIs DEF StateInv, Stages, Reading
  <2> QED
    BY <1>4, <2>1, <2>2 DEF ReadProjectConfig
<1>5. CASE Combine
  <2>1. IsArgs(args')
    BY <1>5, InputIs, ConcatArgs DEF StateInv, Combine, CombineArgs
  <2>2. Len(args') \in Nat
    BY <2>1, SeqIs DEF IsArgs
  <2>3. stage = "combine" /\ stage' = "types" /\ UNCHANGED <<input, dir, pos, tm, opts, exit>>
    BY <1>5 DEF Combine, Goto
  <2> QED
    BY <2>1, <2>2, <2>3, EmptyIs DEF StateInv, Stages, Reading
<1>6. CASE ExpandType
  <2>1. PICK t : args' = Replaced(args, pos, TypeArg(t))
    BY <1>6 DEF ExpandType, Replaced
  <2>2. pos \in 1..Len(args) /\ stage = "types" /\ pos' = pos + 1
    BY <1>6 DEF ExpandType, AtLongArg, StateInv
  <2>3. IsArgs(args') /\ Len(args') = Len(args)
    BY <2>1, <2>2, RewrittenArgs DEF StateInv
  <2>4. UNCHANGED <<input, stage, dir, tm, opts, exit>>
    BY <1>6 DEF ExpandType
  <2> QED
    BY <1>s, <2>2, <2>3, <2>4 DEF StateInv, Stages, Reading
<1>7. CASE RejectAmbiguousType
  BY <1>7, ExitIs DEF RejectAmbiguousType, AtLongArg
<1>8. CASE DefineType
  <2>1. CASE Exit(255)
    BY <1>8, <2>1, ExitIs DEF DefineType, AtLongArg
  <2>2. CASE WellFormed(Arg) /\ tm' = Defined(Arg) /\ pos' = pos + 1
             /\ UNCHANGED <<input, stage, dir, args, opts, exit>>
    <3>1. pos \in 1..Len(args) /\ stage = "types"
      BY <1>8 DEF DefineType, AtLongArg, StateInv
    <3>2. IsArg(Arg)
      BY <3>1, SeqIs DEF StateInv, IsArgs, Arg
    <3>3. Defines(Arg)
      BY <1>8, <2>2, <3>2 DEF Defines, DefineType
    <3>4. TmOK(tm')
      BY <2>2, <3>3, DefinitionIs DEF StateInv
    <3> QED
      BY <1>s, <2>2, <3>1, <3>4 DEF StateInv, Stages, Reading
  <2> QED
    BY <1>8, <2>1, <2>2 DEF DefineType
<1>9. CASE PassArg
  BY <1>9, <1>s DEF PassArg, StateInv, Stages, Reading
<1>10. CASE TypesHandled
  BY <1>10, <1>s, EmptyIs DEF TypesHandled, Goto, StateInv, Stages, Reading
<1>11. CASE ParseWord
  BY <1>11, <1>s DEF ParseWord, AtArg, StateInv, Stages, Reading
<1>12. CASE ParseDoubleDash
  <2>1. stage = "parse" /\ pos <= Len(args) /\ pos' = Len(args) + 1
        /\ UNCHANGED <<input, stage, dir, args, tm, opts, exit>>
    BY <1>12 DEF ParseDoubleDash, AtArg
  <2> QED
    BY <1>s, <2>1 DEF StateInv, Stages, Reading
<1>13. CASE ParseOption
  <2>1. CASE Exit(255)
    BY <1>13, <2>1, ExitIs DEF ParseOption, AtArg
  <2>2. CASE \E d \in DescriptorsOf(Arg) :
               /\ Accepts(d, ValueOf(d))
               /\ opts' = Append(opts, [index |-> d.index, value |-> d.value, arg |-> ValueOf(d)])
               /\ pos' = IF Detached(d) THEN pos + 2 ELSE pos + 1
               /\ UNCHANGED <<input, stage, dir, args, tm, exit>>
    <3>a. PICK d \in DescriptorsOf(Arg) :
            /\ Accepts(d, ValueOf(d))
            /\ opts' = Append(opts, [index |-> d.index, value |-> d.value, arg |-> ValueOf(d)])
            /\ pos' = IF Detached(d) THEN pos + 2 ELSE pos + 1
            /\ UNCHANGED <<input, stage, dir, args, tm, exit>>
      BY <2>2
    <3>e. PICK e : opts' = Append(opts, e)
      BY <3>a
    <3>1. IsSeq(opts') /\ Len(opts') = Len(opts) + 1
      BY <3>e, AppendIs DEF StateInv
    <3>2. stage = "parse" /\ pos <= Len(args)
      BY <1>13 DEF ParseOption, AtArg
    <3>3. ~(Detached(d) /\ pos = Len(args))
      BY <3>a, InputsAssumption DEF Detached, ValueOf, Accepts
    <3>4. pos' \in {pos + 1, pos + 2} /\ pos' <= Len(args) + 1
      BY <1>s, <3>a, <3>2, <3>3 DEF StateInv
    <3>5. Len(opts') < pos' /\ pos' \in 1..Len(args) + 1 /\ Len(opts') <= Len(args)
      BY <1>s, <3>1, <3>2, <3>4 DEF StateInv
    <3>6. UNCHANGED <<input, stage, dir, args, tm, exit>>
      BY <3>a
    <3> QED
      BY <3>1, <3>2, <3>5, <3>6 DEF StateInv, Stages, Reading
  <2> QED
    BY <1>13, <2>1, <2>2 DEF ParseOption
<1>14. CASE Informational
  BY <1>14, ExitIs DEF Informational
<1>15. CASE Settle
  <2>1. stage = "parse" /\ stage' = "apply" /\ pos' = 1 /\ UNCHANGED <<input, dir, args, tm, opts, exit>>
    BY <1>15 DEF Settle, Goto
  <2> QED
    BY <1>s, <2>1, EmptyIs DEF StateInv, Stages, Reading
<1>16. CASE ApplyType
  <2>1. CASE Exit(255)
    BY <1>16, <2>1, ExitIs DEF ApplyType
  <2>t. PICK t : t = TypeOf(opts[Min(TypesLeft)])
    OBVIOUS
  <2>2. CASE /\ tm' \in {DeselectType(tm, t), SelectType(tm, t)}
             /\ pos' = Min(TypesLeft) + 1
             /\ UNCHANGED <<input, stage, dir, args, opts, exit>>
    <3>1. TmOK(tm')
      BY <2>2, TypeSelected, TypeDeselected DEF StateInv
    <3>2. Min(TypesLeft) \in 1..Len(opts)
      <4>1. TypesLeft # {} /\ TypesLeft \subseteq 1..Len(opts) /\ TypesLeft \subseteq Nat
        BY <1>16, <1>s DEF ApplyType, TypesLeft, Given
      <4> QED
        BY <4>1, LeastPlace
    <3>3. pos' \in 1..Len(args) + 1
      BY <1>s, <2>2, <3>2 DEF StateInv
    <3>4. stage = "apply"
      BY <1>16 DEF ApplyType
    <3> QED
      BY <2>2, <3>1, <3>3, <3>4 DEF StateInv, Stages, Reading
  <2> QED
    BY <1>16, <2>1, <2>2, <2>t DEF ApplyType
<1>17. CASE CompileTables
  <2>1. stage = "apply" /\ stage' = "running" /\ UNCHANGED <<input, dir, args, pos, tm, opts, exit>>
    BY <1>17 DEF CompileTables, Goto
  <2> QED
    BY <2>1 DEF StateInv, Stages, Reading
<1>18. CASE UNCHANGED vars
  BY <1>18 DEF vars, StateInv
<1> QED
  BY <1>1, <1>2, <1>3, <1>4, <1>5, <1>6, <1>7, <1>8, <1>9, <1>10, <1>11, <1>12, <1>13, <1>14,
     <1>15, <1>16, <1>17, <1>18 DEF Next

LEMMA StateInductive == Spec => []StateInv
<1> QED
  BY InitialState, StepState, PTL DEF Spec

(* The types of the variables; and the two maps of TypeManager.h change      *)
(* together: whatever is defined, deleted, redefined, selected and           *)
(* deselected, a type is active with filters of its definition only.         *)
THEOREM ThmTypeOK == Spec => []TypeOK
<1>1. StateInv => TypeOK
  BY MapIs DEF StateInv, TypeOK, TmOK, Stages, Reading
<1> QED
  BY <1>1, StateInductive, PTL

-----------------------------------------------------------------------------
(* The order in which the arguments are read                                *)

UserArgs == IF GivesFlag(input.argv, "test-noenv-user") THEN <<>> ELSE ArgsOf(input.homeRc)
ProjectArgs == IF ProjectLevels = {} THEN <<>>
               ELSE ArgsOf(input.dirRc[CHOOSE d \in ProjectLevels : TRUE])
ConfigArgs == IF Noenv THEN <<>> ELSE UserArgs \o ProjectArgs
NothingBelow == \A d \in DOMAIN input.dirRc : d > dir => d # input.home /\ ~input.dirRc[d].found

OrderInv ==
  /\ stage = "start" => args = <<>> /\ dir = Len(input.dirRc)
  /\ stage \in {"walk", "project"} => ~Noenv /\ args = UserArgs /\ NothingBelow
  /\ stage = "project" => input.dirRc[dir].found /\ dir # input.home
  /\ stage = "combine" => args = ConfigArgs
  /\ stage = "types" /\ pos = 1 => args = ConfigArgs \o input.argv

LEMMA UserArgsAre ==
  ASSUME input \in Inputs
  PROVE  IsArgs(UserArgs) /\ UserArgs \o <<>> = UserArgs
<1>u. PICK u : u = UserArgs
  OBVIOUS
<1>1. IsArgs(u)
  BY <1>u, InputIs, EmptyIs DEF UserArgs, ArgsOf, IsArgs
<1>2. u \o <<>> = u
  BY <1>1, ConcatEmptySeq DEF IsArgs, IsSeq
<1> QED
  BY <1>u, <1>1, <1>2

\* Where the walk ends.
LEMMA WalkEnds ==
  ASSUME StateInv, NothingBelow
  PROVE  /\ dir = input.home => ProjectLevels = {}
         /\ dir = 1 /\ ~input.dirRc[dir].found => ProjectLevels = {}
         /\ dir # input.home /\ input.dirRc[dir].found => ProjectLevels = {dir}
<1>1. /\ DOMAIN input.dirRc = 1..Len(input.dirRc) /\ Len(input.dirRc) \in Nat
      /\ dir \in 1..Len(input.dirRc)
  BY InputIs DEF StateInv
<1>2. ASSUME NEW d \in ProjectLevels 
      PROVE  /\ d \in 1..dir /\ dir # input.home /\ input.dirRc[d].found
             /\ dir > d => ~input.dirRc[dir].found
  <2>1. /\ d \in 1..Len(input.dirRc) /\ input.dirRc[d].found
        /\ dir >= d => dir # input.home
        /\ dir > d => ~input.dirRc[dir].found
    BY <1>1 DEF ProjectLevels
  <2>2. d <= dir
    BY <1>1, <2>1 DEF NothingBelow
  <2>3. dir # input.home
    BY <1>1, <2>1, <2>2
  <2> QED
    BY <1>1, <2>1, <2>2, <2>3
<1>3. ASSUME dir # input.home, input.dirRc[dir].found PROVE dir \in ProjectLevels
  BY <1>1, <1>3 DEF ProjectLevels, NothingBelow
<1> QED
  BY <1>2, <1>3

LEMMA StepOrder == StateInv /\ OrderInv /\ [Next]_vars => OrderInv'
<1> SUFFICES ASSUME StateInv, OrderInv, [Next]_vars PROVE OrderInv'
  OBVIOUS
<1>i. UNCHANGED input
  BY DEF Next, vars, ReadUserConfig, SkipConfig, WalkUp, ReadProjectConfig, Combine, ExpandType,
         RejectAmbiguousType, DefineType, PassArg, TypesHandled, ParseWord, ParseDoubleDash,
         ParseOption, Informational, Settle, ApplyType, CompileTables, Exit
<1>n. Noenv' <=> Noenv
  BY <1>i DEF Noenv
<1>u. UserArgs' = UserArgs
  BY <1>i DEF UserArgs
<1>c. ConfigArgs' = ConfigArgs
  BY <1>i, <1>n, <1>u DEF ConfigArgs, ProjectArgs, ProjectLevels
<1>1. CASE ReadUserConfig
  <2>1. CASE stage' = "exited"
    BY <2>1 DEF OrderInv
  <2>2. CASE stage' # "exited"
    <3>1. stage' = "walk" /\ ~Noenv /\ args = <<>> /\ dir = Len(input.dirRc) /\ dir' = dir
      BY <1>1, <2>2 DEF ReadUserConfig, Exit, Goto, OrderInv
    <3>2. args' = UserArgs
      BY <1>1, <2>2, <3>1 DEF ReadUserConfig, Exit, UserArgs, ArgsOf
    <3>3. NothingBelow'
      BY <1>i, <3>1, InputIs DEF NothingBelow, StateInv
    <3> QED
      BY <1>n, <1>u, <3>1, <3>2, <3>3 DEF OrderInv
  <2> QED
    BY <2>1, <2>2
<1>2. CASE SkipConfig
  BY <1>2, <1>n, <1>c DEF SkipConfig, Goto, OrderInv, ConfigArgs
<1>3. CASE WalkUp
  <2>1. stage = "walk" /\ ~Noenv /\ args = UserArgs /\ args' = args /\ NothingBelow
    BY <1>3 DEF WalkUp, OrderInv
  <2>2. stage' = "combine" => ConfigArgs = UserArgs
    <3>1. stage' = "combine" => ProjectLevels = {}
      BY <1>3, <2>1, WalkEnds DEF WalkUp, StopsAtHome, AtRoot, Goto
    <3> QED
      BY <2>1, <3>1, UserArgsAre DEF ConfigArgs, ProjectArgs, StateInv
  <2>3. CASE stage' = "combine"
    BY <1>c, <2>1, <2>2, <2>3 DEF OrderInv
  <2>4. CASE stage' = "project"
    <3>1. dir' = dir /\ input.dirRc[dir].found /\ dir # input.home
      BY <1>3, <2>1, <2>4 DEF WalkUp, StopsAtHome, Goto
    <3>2. NothingBelow'
      BY <1>i, <2>1, <3>1 DEF NothingBelow
    <3> QED
      BY <1>i, <1>n, <1>u, <2>1, <2>4, <3>1, <3>2 DEF OrderInv
  <2>5. CASE stage' = stage
    <3>1. dir' = dir - 1 /\ dir # input.home /\ ~input.dirRc[dir].found
      BY <1>3, <2>1, <2>5 DEF WalkUp, StopsAtHome, AtRoot, Goto, Dirname
    <3>2. NothingBelow'
      BY <1>i, <2>1, <3>1, InputIs DEF NothingBelow, StateInv
    <3> QED
      BY <1>n, <1>u, <2>1, <2>5, <3>2 DEF OrderInv
  <2> QED
    BY <1>3, <2>3, <2>4, <2>5 DEF WalkUp, Goto
<1>4. CASE ReadProjectConfig
  <2>1. CASE stage' = "exited"
    BY <2>1 DEF OrderInv
  <2>2. CASE stage' # "exited"
    <3>1. /\ stage = "project" /\ stage' = "combine" /\ args' = args \o ArgsOf(input.dirRc[dir])
          /\ ~Noenv /\ args = UserArgs /\ NothingBelow /\ input.dirRc[dir].found /\ dir # input.home
      BY <1>4, <2>2 DEF ReadProjectConfig, Exit, Goto, OrderInv
    <3>2. ProjectLevels = {dir}
      BY <3>1, WalkEnds
    <3>3. args' = ConfigArgs
      BY <3>1, <3>2 DEF ConfigArgs, ProjectArgs
    <3> QED
      BY <1>c, <3>1, <3>3 DEF OrderInv
  <2> QED
    BY <2>1, <2>2
<1>5. CASE Combine
  BY <1>5, <1>c, <1>i DEF Combine, CombineArgs, Goto, OrderInv
<1>6. ASSUME stage' \notin Reading, stage' = "types" => pos' = pos + 1 \/ UNCHANGED <<stage, pos, args>>
      PROVE  OrderInv'
  BY <1>6, <1>c, <1>i DEF OrderInv, Reading, StateInv
<1>7. ASSUME Informational \/ RejectAmbiguousType PROVE stage' = "exited"
  BY <1>7 DEF Informational, RejectAmbiguousType, Exit
<1>8. ASSUME ExpandType \/ DefineType \/ PassArg
      PROVE  stage' = "exited" \/ (stage' = "types" /\ pos' = pos + 1)
  BY <1>8 DEF ExpandType, DefineType, PassArg, Exit, AtLongArg
<1>9. ASSUME TypesHandled \/ ParseWord \/ ParseDoubleDash \/ ParseOption \/ Settle \/ ApplyType \/ CompileTables
      PROVE  stage' \in {"parse", "apply", "running", "exited"}
  BY <1>9 DEF TypesHandled, ParseWord, ParseDoubleDash, ParseOption, Settle, ApplyType, CompileTables,
              Goto, AtArg, Exit
<1>10. CASE UNCHANGED vars
  BY <1>10, <1>i, <1>c, <1>n, <1>u DEF vars, OrderInv, NothingBelow
<1> QED
  BY <1>1, <1>2, <1>3, <1>4, <1>5, <1>6, <1>7, <1>8, <1>9, <1>10 DEF Next, Reading

(* Whatever rc files there are: the arguments are those of $HOME/.ucgrc,    *)
(* then of the nearest .ucgrc from the current directory up to below $HOME,  *)
(* then of the command line, and with --noenv the command line alone.        *)
THEOREM FilesComeFirst == Spec => []ArgsInReadOrder
<1>1. Init => OrderInv
  BY DEF Init, OrderInv
<1>2. OrderInv => ArgsInReadOrder
  BY DEF OrderInv, ArgsInReadOrder, ConfigArgs, UserArgs, ProjectArgs
<1> QED
  BY <1>1, <1>2, StepOrder, StateInductive, PTL DEF Spec

-----------------------------------------------------------------------------
(* The type options                                                         *)

Including(g) == [glob |-> g, include |-> TRUE]
Excluding(g) == [glob |-> g, include |-> FALSE]

LEMMA GlobEntries ==
  ASSUME NEW g
  PROVE  /\ Including(g).glob = g /\ Including(g).include = TRUE
         /\ Excluding(g).glob = g /\ Excluding(g).include = FALSE
BY DEF Including, Excluding

\* A glob is added at the end, and nothing takes one away.
LEMMA GlobbedIs ==
  ASSUME NEW globs, IsSeq(globs), NEW filter, NEW fs, NEW r, r = Globbed(globs, filter, fs)
  PROVE  /\ \A i \in 1..Len(globs) : r[i] = globs[i]
         /\ filter \notin {"glob", "globx"} => r = globs
         /\ filter \in {"glob", "globx"} => IsSeq(r) /\ Len(r) = Len(globs) + 1
         /\ filter = "glob" =>
              r[Len(globs) + 1] = Including(CHOOSE g \in fs : TRUE)
         /\ filter = "globx" =>
              r[Len(globs) + 1] = Excluding(CHOOSE g \in fs : TRUE)
<1>g. PICK g : g = CHOOSE x \in fs : TRUE
  OBVIOUS
<1>1. CASE filter = "glob"
  <2>e. PICK e : e = Including(g)
    OBVIOUS
  <2>1. r = Append(globs, e)
    BY <1>1, <1>g, <2>e DEF Globbed, Included, Including
  <2>2. IsSeq(r) /\ Len(r) = Len(globs) + 1 /\ r[Len(globs) + 1] = e
        /\ \A i \in 1..Len(globs) : r[i] = globs[i]
    BY <2>1, AppendIs
  <2> QED
    BY <1>1, <1>g, <2>e, <2>2
<1>2. CASE filter = "globx"
  <2>e. PICK e : e = Excluding(g)
    OBVIOUS
  <2>1. r = Append(globs, e)
    BY <1>2, <1>g, <2>e DEF Globbed, Excluded, Excluding
  <2>2. IsSeq(r) /\ Len(r) = Len(globs) + 1 /\ r[Len(globs) + 1] = e
        /\ \A i \in 1..Len(globs) : r[i] = globs[i]
    BY <2>1, AppendIs
  <2> QED
    BY <1>2, <1>g, <2>e, <2>2
<1>3. CASE filter \notin {"glob", "globx"}
  BY <1>3 DEF Globbed
<1> QED
  BY <1>1, <1>2, <1>3

HasInclude(globs) == \E i \in DOMAIN globs : globs[i].include

LEMMA GlobsGrow ==
  ASSUME NEW globs, IsSeq(globs), NEW filter, NEW fs, NEW r, r = Globbed(globs, filter, fs)
  PROVE  /\ HasInclude(globs) => HasInclude(r)
         /\ filter = "glob" => HasInclude(r)
<1>l. PICK n, l : n = Len(globs) /\ l = Len(r)
  OBVIOUS
<1>1. n \in Nat /\ DOMAIN globs = 1..n
  BY <1>l, SeqIs
<1>2. \A i \in 1..n : r[i] = globs[i]
  BY <1>l, GlobbedIs
<1>3. CASE filter \notin {"glob", "globx"}
  <2>1. r = globs /\ filter # "glob"
    BY <1>3, GlobbedIs
  <2> QED
    BY <2>1, Zenon
<1>4. CASE filter \in {"glob", "globx"}
  <2>1. l = n + 1 /\ IsSeq(r)
    BY <1>4, <1>l, GlobbedIs
  <2>2. DOMAIN r = 1..n + 1
    BY <1>l, <2>1, SeqIs
  <2>3. n + 1 \in DOMAIN r /\ \A i \in 1..n : i \in DOMAIN r
    BY <1>1, <2>2
  <2>4. ASSUME filter = "glob" PROVE r[n + 1].include = TRUE
    <3>g. PICK g : g = CHOOSE x \in fs : TRUE
      OBVIOUS
    <3>1. r[n + 1] = Including(g)
      BY <2>4, <1>l, <3>g, GlobbedIs
    <3> QED
      BY <3>1, GlobEntries, Zenon
  <2>5. \A i \in DOMAIN globs : i \in DOMAIN r /\ r[i] = globs[i]
    BY <1>1, <1>2, <2>3
  <2> QED
    BY <2>3, <2>4, <2>5, Zenon DEF HasInclude
<1> QED
  BY <1>3, <1>4, Zenon

LEMMA IncludesStay ==
  ASSUME TmOK(tm), NEW filter, NEW fs, tm'.globs = Globbed(tm.globs, filter, fs)
  PROVE  /\ IncludesGlob => IncludesGlob'
         /\ filter = "glob" => IncludesGlob'
<1>1. IsSeq(tm.globs)
  BY DEF TmOK
<1>2. /\ HasInclude(tm.globs) => HasInclude(tm'.globs)
      /\ filter = "glob" => HasInclude(tm'.globs)
  BY <1>1, GlobsGrow
<1>3. /\ IncludesGlob <=> HasInclude(tm.globs)
      /\ IncludesGlob' <=> HasInclude(tm'.globs)
  BY Zenon DEF IncludesGlob, HasInclude
<1> QED
  BY <1>2, <1>3, Zenon

\* What selecting and deselecting a type changes.
LEMMA Selection ==
  ASSUME NEW m, TmOK(m), NEW t, IsType(m, t), NEW r, r = SelectType(m, t)
  PROVE  /\ r.typed
         /\ \A f : f \in r.removed <=> f \in m.removed /\ <<t, f>> \notin m.defined
         /\ t \in TypesIn(Slate(m)) => r.active = Slate(m)
         /\ t \notin TypesIn(Slate(m)) =>
              \A e : e \in r.active <=> e \in Slate(m) \/ (e \in m.defined /\ e[1] = t)
<1> PICK d, fs, old : d = m.defined /\ fs = FiltersOf(d, t) /\ old = Slate(m)
  OBVIOUS
<1>1. IsMap(d) /\ \A f : f \in fs <=> <<t, f>> \in d
  BY MapIs DEF TmOK
<1>2. r.typed = TRUE /\ r.removed = m.removed \ fs
  BY DEF SelectType, TmOK, Unremoved
<1>3. r.active = IF t \in TypesIn(old) THEN old ELSE old \cup Entries(t, fs)
  BY DEF SelectType, TmOK
<1>4. \A e : e \in Entries(t, fs) <=> e \in d /\ e[1] = t
  BY <1>1 DEF Entries, IsMap
<1> QED
  BY <1>1, <1>2, <1>3, <1>4

LEMMA Deselection ==
  ASSUME NEW m, TmOK(m), NEW t, IsType(m, t), NEW r, r = DeselectType(m, t)
  PROVE  /\ \A f : f \in r.removed <=> f \in m.removed \/ <<t, f>> \in m.defined
         /\ \A e : e \in r.active <=> e \in m.active /\ e[1] # t
<1> PICK d, fs : d = m.defined /\ fs = FiltersOf(d, t)
  OBVIOUS
<1>1. IsMap(d) /\ \A f : f \in fs <=> <<t, f>> \in d
  BY MapIs DEF TmOK
<1>2. r.removed = m.removed \cup fs /\ r.active = Without(m.active, t)
  BY DEF DeselectType, TmOK
<1> QED
  BY <1>1, <1>2 DEF Without

\* The type options that concern a filter and have been applied, and what they come to: the last
\* takes the filter out of every type, or it leaves a type active that has it.
Decided(f) == {i \in Concerning(f) : i < pos}
LastDecides(f) ==
  Decided(f) # {} =>
    IF IsNo(opts[Max(Decided(f))].arg) THEN f \in tm.removed
    ELSE f \notin tm.removed /\ (~IncludesGlob => \E e \in tm.active : e[2] = f)
SelectedBy(t) == \E i \in Given("TYPE") : i < pos /\ ~IsNo(opts[i].arg) /\ opts[i].arg = t

\* Without a glob that includes, nothing but --type= selects, and an active type has all the
\* filters of its definition.
TypesInv ==
  /\ stage \in Reading \cup {"types", "parse"} => (tm.typed => IncludesGlob)
  /\ stage \in {"apply", "running"} =>
       /\ \A i \in Given("TYPE") : i < pos /\ ~IsNo(opts[i].arg) => tm.typed
       /\ tm.typed /\ ~IncludesGlob =>
            /\ \A e \in tm.active : SelectedBy(e[1])
            /\ \A e \in tm.defined : e[1] \in TypesIn(tm.active) => e \in tm.active
       /\ \A f \in Filters : LastDecides(f)
  /\ stage = "running" => tables = CompileTypeTables(tm) /\ TypesLeft = {}

LEMMA PlacesOfOptions ==
  ASSUME StateInv
  PROVE  /\ \A index : Given(index) \subseteq 1..Len(opts)
         /\ Len(opts) \in Nat /\ pos \in Nat /\ DOMAIN opts = 1..Len(opts)
         /\ \A f : Concerning(f) \subseteq Given("TYPE")
BY SeqIs DEF StateInv, Given, Concerning, IsArgs

\* The next type option.
LEMMA NextType ==
  ASSUME StateInv, StateInv', TypesLeft # {}, NEW k, k = Min(TypesLeft), pos' = k + 1, opts' = opts
  PROVE  /\ k \in Given("TYPE") /\ k \in Nat /\ pos <= k
         /\ \A index : Given(index)' = Given(index)
         /\ \A i \in Given("TYPE") : i < pos' <=> i < pos \/ i = k
<1>1. /\ Given("TYPE") \subseteq 1..Len(opts) /\ Len(opts) \in Nat /\ pos \in Nat
      /\ TypesLeft \subseteq Nat
  BY PlacesOfOptions DEF TypesLeft
<1>2. k \in TypesLeft /\ \A i \in TypesLeft : k <= i
  BY <1>1, LeastPlace
<1>3. ASSUME NEW i \in Given("TYPE") PROVE i < pos' <=> i < pos \/ i = k
  <2>1. /\ i \in Nat /\ k \in Nat /\ k >= pos /\ pos' = k + 1
        /\ i >= pos => k <= i
    BY <1>1, <1>2 DEF TypesLeft
  <2> QED
    BY <1>1, <2>1
<1>4. \A index : Given(index)' = Given(index)
  BY DEF Given
<1> QED
  BY <1>1, <1>2, <1>3, <1>4 DEF TypesLeft

LEMMA StepDecided ==
  ASSUME StateInv, StateInv', TypesLeft # {}, NEW k, k = Min(TypesLeft), pos' = k + 1, opts' = opts,
         tm'.defined = tm.defined, NEW f
  PROVE  /\ <<TypeOf(opts[k]), f>> \in tm.defined => Decided(f)' # {} /\ Max(Decided(f)') = k
         /\ <<TypeOf(opts[k]), f>> \notin tm.defined => Decided(f)' = Decided(f)
<1>1. /\ k \in Given("TYPE") /\ k \in Nat /\ pos <= k /\ Given("TYPE")' = Given("TYPE")
      /\ \A i \in Given("TYPE") : i < pos' <=> i < pos \/ i = k
      /\ Given("TYPE") \subseteq 1..Len(opts) /\ Len(opts) \in Nat /\ pos \in Nat
  BY NextType, PlacesOfOptions
<1>2. Concerning(f)' = Concerning(f)
  BY <1>1 DEF Concerning
<1>3. Decided(f)' = {i \in Concerning(f) : i < pos \/ i = k}
  BY <1>1, <1>2 DEF Decided, Concerning
<1>4. k \in Concerning(f) <=> <<TypeOf(opts[k]), f>> \in tm.defined
  BY <1>1 DEF Concerning
<1>5. ASSUME k \in Concerning(f) PROVE Decided(f)' # {} /\ Max(Decided(f)') = k
  <2>1. PICK S : S = Decided(f)'
    OBVIOUS
  <2>2. k \in S /\ S \subseteq Int /\ \A i \in S : i <= k
    BY <1>1, <1>3, <1>5, <2>1 DEF Concerning
  <2>3. Max(S) = k
    BY <2>2, NewLastPlace
  <2> QED
    BY <2>1, <2>2, <2>3
<1> QED
  BY <1>1, <1>3, <1>4, <1>5 DEF Decided

LEMMA StepTypeNo ==
  ASSUME StateInv, StateInv', TypesInv, stage = "apply", TypesLeft # {},
         NEW k, k = Min(TypesLeft), pos' = k + 1, opts' = opts, stage' = stage,
         NEW t, t = TypeOf(opts[k]), IsType(tm, t), IsNo(opts[k].arg), tm' = DeselectType(tm, t)
  PROVE  TypesInv'
<1>1. /\ tm'.globs = tm.globs /\ tm'.defined = tm.defined /\ tm'.typed = tm.typed
      /\ \A f : f \in tm'.removed <=> f \in tm.removed \/ <<t, f>> \in tm.defined
      /\ \A e : e \in tm'.active <=> e \in tm.active /\ e[1] # t
  BY TypeDeselected, Deselection DEF StateInv
<1>2. IncludesGlob' <=> IncludesGlob
  BY <1>1, Zenon DEF IncludesGlob
<1>3. /\ k \in Given("TYPE") /\ Given("TYPE")' = Given("TYPE")
      /\ \A i \in Given("TYPE") : i < pos' <=> i < pos \/ i = k
  BY NextType
<1>4. /\ \A i \in Given("TYPE") : i < pos /\ ~IsNo(opts[i].arg) => tm.typed
      /\ tm.typed /\ ~IncludesGlob =>
           /\ \A e \in tm.active : SelectedBy(e[1])
           /\ \A e \in tm.defined : e[1] \in TypesIn(tm.active) => e \in tm.active
      /\ \A f \in Filters : LastDecides(f)
  BY DEF TypesInv
<1>5. \A i \in Given("TYPE")' : i < pos' /\ ~IsNo(opts'[i].arg) => tm'.typed
  BY <1>1, <1>3, <1>4
<1>6. ASSUME NEW u, SelectedBy(u) PROVE SelectedBy(u)'
  BY <1>3, <1>6 DEF SelectedBy
<1>7. ASSUME tm'.typed, ~IncludesGlob'
      PROVE  /\ \A e \in tm'.active : SelectedBy(e[1])'
             /\ \A e \in tm'.defined : e[1] \in TypesIn(tm'.active) => e \in tm'.active
  <2>1. \A e \in tm'.active : SelectedBy(e[1])'
    BY <1>1, <1>2, <1>4, <1>6, <1>7
  <2>2. ASSUME NEW e \in tm'.defined, e[1] \in TypesIn(tm'.active) PROVE e \in tm'.active
    <3>1. PICK g \in tm'.active : g[1] = e[1]
      BY <2>2 DEF TypesIn
    <3>2. e[1] \in TypesIn(tm.active) /\ e[1] # t
      BY <1>1, <3>1 DEF TypesIn
    <3> QED
      BY <1>1, <1>2, <1>4, <1>7, <2>2, <3>2
  <2> QED
    BY <2>1, <2>2
<1>8. ASSUME NEW f \in Filters PROVE LastDecides(f)'
  <2>1. CASE <<t, f>> \in tm.defined
    <3>1. Max(Decided(f)') = k /\ f \in tm'.removed
      BY <1>1, <2>1, StepDecided
    <3> QED
      BY <3>1 DEF LastDecides
  <2>2. CASE <<t, f>> \notin tm.defined
    <3>1. Decided(f)' = Decided(f) /\ (f \in tm'.removed <=> f \in tm.removed)
      BY <1>1, <2>2, StepDecided
    <3>2. ASSUME NEW e \in tm.active, e[2] = f PROVE e \in tm'.active
      <4>1. e \in tm.defined /\ e = <<e[1], e[2]>>
        BY DEF StateInv, TmOK, IsMap
      <4> QED
        BY <1>1, <2>2, <3>2, <4>1
    <3> QED
      BY <1>2, <1>4, <3>1, <3>2 DEF LastDecides
  <2> QED
    BY <2>1, <2>2
<1> QED
  BY <1>5, <1>7, <1>8 DEF TypesInv, Reading

LEMMA StepTypeYes ==
  ASSUME StateInv, StateInv', TypesInv, stage = "apply", TypesLeft # {},
         NEW k, k = Min(TypesLeft), pos' = k + 1, opts' = opts, stage' = stage,
         NEW t, t = opts[k].arg, IsType(tm, t), ~IsNo(t), tm' = SelectType(tm, t)
  PROVE  TypesInv'
<1>d. PICK old : old = Slate(tm)
  OBVIOUS
<1>1. /\ tm'.globs = tm.globs /\ tm'.defined = tm.defined /\ tm'.typed
      /\ \A f : f \in tm'.removed <=> f \in tm.removed /\ <<t, f>> \notin tm.defined
      /\ t \in TypesIn(old) => tm'.active = old
      /\ t \notin TypesIn(old) => \A e : e \in tm'.active <=> e \in old \/ (e \in tm.defined /\ e[1] = t)
  BY <1>d, TypeSelected, Selection DEF StateInv
<1>2. IncludesGlob' <=> IncludesGlob
  BY <1>1, Zenon DEF IncludesGlob
<1>3. /\ k \in Given("TYPE") /\ Given("TYPE")' = Given("TYPE")
      /\ \A i \in Given("TYPE") : i < pos' <=> i < pos \/ i = k
  BY NextType
<1>4. /\ \A i \in Given("TYPE") : i < pos /\ ~IsNo(opts[i].arg) => tm.typed
      /\ tm.typed /\ ~IncludesGlob =>
           /\ \A e \in tm.active : SelectedBy(e[1])
           /\ \A e \in tm.defined : e[1] \in TypesIn(tm.active) => e \in tm.active
      /\ \A f \in Filters : LastDecides(f)
  BY DEF TypesInv
<1>o. /\ tm.typed => old = tm.active
      /\ ~tm.typed => old = {}
  BY <1>d DEF Slate
<1>5. ASSUME NEW u, SelectedBy(u) \/ u = t PROVE SelectedBy(u)'
  BY <1>3, <1>5 DEF SelectedBy
\* What the slate keeps.
<1>6. ~IncludesGlob => /\ \A e \in old : SelectedBy(e[1])
                       /\ \A e \in tm.defined : e[1] \in TypesIn(old) => e \in old
  BY <1>4, <1>o DEF TypesIn
<1>7. ASSUME ~IncludesGlob
      PROVE  /\ \A e \in tm'.active : SelectedBy(e[1])'
             /\ \A e \in tm'.defined : e[1] \in TypesIn(tm'.active) => e \in tm'.active
             /\ \A e \in tm'.defined : e[1] = t => e \in tm'.active
  <2>1. CASE t \in TypesIn(old)
    BY <1>1, <1>5, <1>6, <1>7, <2>1
  <2>2. CASE t \notin TypesIn(old)
    <3>1. \A e \in tm'.active : SelectedBy(e[1])'
      BY <1>1, <1>5, <1>6, <1>7, <2>2
    <3>2. ASSUME NEW e \in tm'.defined, e[1] \in TypesIn(tm'.active) PROVE e \in tm'.active
      <4>1. PICK g \in tm'.active : g[1] = e[1]
        BY <3>2 DEF TypesIn
      <4>2. g[1] = t \/ g[1] \in TypesIn(old)
        BY <1>1, <2>2, <4>1 DEF TypesIn
      <4> QED
        BY <1>1, <1>6, <1>7, <2>2, <3>2, <4>1, <4>2
    <3>3. \A e \in tm'.defined : e[1] = t => e \in tm'.active
      BY <1>1, <2>2
    <3> QED
      BY <3>1, <3>2, <3>3
  <2> QED
    BY <2>1, <2>2
<1>t. TypeOf(opts[k]) = t
  BY DEF TypeOf
<1>8. ASSUME NEW f \in Filters PROVE LastDecides(f)'
  <2>1. CASE <<t, f>> \in tm.defined
    <3>1. Max(Decided(f)') = k /\ f \notin tm'.removed
      BY <1>1, <1>t, <2>1, StepDecided
    <3>2. ASSUME ~IncludesGlob' PROVE \E e \in tm'.active : e[2] = f
      <4>1. <<t, f>> \in tm'.active /\ <<t, f>>[2] = f
        BY <1>1, <1>2, <1>7, <2>1, <3>2
      <4> QED
        BY <4>1
    <3>3. ~IsNo(opts'[Max(Decided(f)')].arg)
      BY <3>1
    <3> QED
      BY <3>1, <3>2, <3>3 DEF LastDecides
  <2>2. CASE <<t, f>> \notin tm.defined
    <3>1. Decided(f)' = Decided(f) /\ (f \in tm'.removed <=> f \in tm.removed)
      BY <1>1, <1>t, <2>2, StepDecided
    <3>2. \A e \in old : e \in tm'.active
      BY <1>1
    <3>m. PICK m : m = Max(Decided(f))
      OBVIOUS
    <3>3. ASSUME Decided(f) # {}, ~IsNo(opts[m].arg) PROVE tm.typed
      <4>1. /\ Decided(f) \subseteq Given("TYPE") /\ Decided(f) \subseteq 1..Len(opts)
            /\ Len(opts) \in Nat
        BY PlacesOfOptions DEF Decided
      <4>2. m \in Decided(f)
        BY <3>3, <3>m, <4>1, LastPlace
      <4> QED
        BY <1>4, <3>3, <4>1, <4>2 DEF Decided
    <3>4. CASE Decided(f) # {} /\ ~IsNo(opts[m].arg)
      <4>1. f \notin tm.removed /\ (~IncludesGlob => \E e \in tm.active : e[2] = f)
        BY <1>4, <3>4, <3>m DEF LastDecides
      <4>2. f \notin tm'.removed /\ (~IncludesGlob' => \E e \in tm'.active : e[2] = f)
        BY <1>2, <1>o, <3>1, <3>2, <3>3, <3>4, <4>1
      <4>3. ~IsNo(opts'[Max(Decided(f)')].arg)
        BY <3>1, <3>4, <3>m
      <4> QED
        BY <4>2, <4>3 DEF LastDecides
    <3>5. CASE Decided(f) # {} /\ IsNo(opts[m].arg)
      <4>1. f \in tm'.removed
        BY <1>4, <3>1, <3>5, <3>m DEF LastDecides
      <4>2. IsNo(opts'[Max(Decided(f)')].arg)
        BY <3>1, <3>5, <3>m
      <4> QED
        BY <4>1, <4>2 DEF LastDecides
    <3>6. CASE Decided(f) = {}
      BY <3>1, <3>6 DEF LastDecides
    <3> QED
      BY <3>4, <3>5, <3>6
  <2> QED
    BY <2>1, <2>2
<1>9. \A i \in Given("TYPE")' : i < pos' /\ ~IsNo(opts'[i].arg) => tm'.typed
  BY <1>1
<1> QED
  BY <1>1, <1>2, <1>7, <1>8, <1>9 DEF TypesInv, Reading

\* The other steps leave alone what the type options come to.
LEMMA TypesKept ==
  ASSUME StateInv, TypesInv, UNCHANGED <<tm, opts, pos, stage, tables>>
  PROVE  TypesInv'
<1>1. /\ IncludesGlob' <=> IncludesGlob
      /\ Given("TYPE")' = Given("TYPE")
  BY Zenon DEF IncludesGlob, Given
<1>2. TypesLeft' = TypesLeft
  BY <1>1 DEF TypesLeft
<1>3. \A f : Decided(f)' = Decided(f)
  BY <1>1 DEF Decided, Concerning
<1>4. \A f : LastDecides(f)' <=> LastDecides(f)
  BY <1>1, <1>3 DEF LastDecides
<1>5. \A t : SelectedBy(t)' <=> SelectedBy(t)
  BY <1>1 DEF SelectedBy
<1> QED
  BY <1>1, <1>2, <1>4, <1>5 DEF TypesInv

LEMMA StepTypes == StateInv /\ StateInv' /\ TypesInv /\ [Next]_vars => TypesInv'
<1> SUFFICES ASSUME StateInv, StateInv', TypesInv, [Next]_vars PROVE TypesInv'
  OBVIOUS
<1>1. CASE stage' = "exited"
  BY <1>1 DEF TypesInv, Reading
<1>2. ASSUME tm' = tm, stage \in Reading \cup {"types", "parse"},
             stage' \in Reading \cup {"types", "parse"}
      PROVE  TypesInv'
  <2>1. IncludesGlob' <=> IncludesGlob
    BY <1>2, Zenon DEF IncludesGlob
  <2> QED
    BY <1>2, <2>1 DEF TypesInv, Reading
<1>3. CASE ReadUserConfig \/ SkipConfig \/ WalkUp \/ ReadProjectConfig \/ Combine
  <2>1. tm' = tm /\ stage \in Reading /\ stage' \in Reading \cup {"types", "exited"}
    BY <1>3 DEF ReadUserConfig, SkipConfig, WalkUp, ReadProjectConfig, Combine, Goto, Exit, Reading
  <2> QED
    BY <1>1, <1>2, <2>1
<1>4. CASE RejectAmbiguousType \/ Informational
  BY <1>1, <1>4 DEF RejectAmbiguousType, Informational, Exit
<1>5. CASE ExpandType \/ PassArg \/ TypesHandled
  <2>1. tm' = tm /\ stage = "types" /\ stage' \in {"types", "parse"}
    BY <1>5 DEF ExpandType, PassArg, TypesHandled, Goto, AtLongArg
  <2> QED
    BY <1>2, <2>1
<1>6. CASE ParseWord \/ ParseDoubleDash \/ ParseOption
  <2>1. tm' = tm /\ stage = "parse" /\ stage' \in {"parse", "exited"}
    BY <1>6 DEF ParseWord, ParseDoubleDash, ParseOption, AtArg, Exit
  <2> QED
    BY <1>1, <1>2, <2>1
<1>7. CASE DefineType
  <2>1. CASE Exit(255)
    BY <1>1, <2>1 DEF Exit
  <2>2. CASE WellFormed(Arg) /\ tm' = Defined(Arg) /\ stage' = stage
    <3>1. pos \in 1..Len(args) /\ stage = "types"
      BY <1>7 DEF DefineType, AtLongArg, StateInv
    <3>2. Defines(Arg)
      BY <1>7, <2>2, <3>1, SeqIs DEF Defines, DefineType, StateInv, IsArgs, Arg
    <3>3. /\ tm'.globs = Globbed(tm.globs, GlobFilter(Arg), Arg.spec.args)
          /\ tm'.typed => tm.typed \/ GlobFilter(Arg) = "glob"
      BY <2>2, <3>2, DefinitionIs DEF StateInv
    <3>4. (IncludesGlob => IncludesGlob') /\ (GlobFilter(Arg) = "glob" => IncludesGlob')
      BY <3>3, IncludesStay DEF StateInv
    <3> QED
      BY <2>2, <3>1, <3>3, <3>4 DEF TypesInv, Reading
  <2> QED
    BY <1>7, <2>1, <2>2 DEF DefineType
<1>8. CASE Settle
  <2>1. stage = "parse" /\ stage' = "apply" /\ pos' = 1 /\ tm' = tm /\ opts' = opts
    BY <1>8 DEF Settle, Goto
  <2>2. IncludesGlob' <=> IncludesGlob
    BY <2>1, Zenon DEF IncludesGlob
  <2>3. \A i \in Given("TYPE")' : ~(i < pos')
    BY <2>1, PlacesOfOptions DEF Given
  <2>4. \A f : Decided(f)' = {}
    BY <2>3 DEF Decided, Concerning
  <2>5. tm'.typed => IncludesGlob'
    BY <2>1, <2>2 DEF TypesInv
  <2>6. \A f \in Filters : LastDecides(f)'
    BY <2>4 DEF LastDecides
  <2> QED
    BY <2>1, <2>3, <2>5, <2>6 DEF TypesInv, Reading
<1>9. CASE ApplyType
  <2>1. CASE Exit(255)
    BY <1>1, <2>1 DEF Exit
  <2>a. PICK k, t : k = Min(TypesLeft) /\ t = TypeOf(opts[k])
    OBVIOUS
  <2>2. CASE /\ IsType(tm, t)
             /\ tm' = IF IsNo(opts[k].arg) THEN DeselectType(tm, t) ELSE SelectType(tm, t)
             /\ pos' = k + 1 /\ opts' = opts /\ stage' = stage
    <3>1. stage = "apply" /\ TypesLeft # {}
      BY <1>9 DEF ApplyType
    <3>2. CASE IsNo(opts[k].arg)
      BY <2>2, <2>a, <3>1, <3>2, StepTypeNo
    <3>3. CASE ~IsNo(opts[k].arg)
      <4>1. t = opts[k].arg
        BY <2>a, <3>3 DEF TypeOf
      <4> QED
        BY <2>2, <2>a, <3>1, <3>3, <4>1, StepTypeYes
    <3> QED
      BY <3>2, <3>3
  <2> QED
    BY <1>9, <2>1, <2>2, <2>a DEF ApplyType
<1>10. CASE CompileTables
  <2>1. /\ stage = "apply" /\ stage' = "running" /\ TypesLeft = {}
        /\ UNCHANGED <<tm, opts, pos>> /\ tables' = CompileTypeTables(tm)
    BY <1>10 DEF CompileTables, Goto
  <2>2. /\ IncludesGlob' <=> IncludesGlob
        /\ Given("TYPE")' = Given("TYPE")
    BY <2>1, Zenon DEF IncludesGlob, Given
  <2>3. TypesLeft' = TypesLeft
    BY <2>1, <2>2 DEF TypesLeft
  <2>4. \A f : Decided(f)' = Decided(f)
    BY <2>1, <2>2 DEF Decided, Concerning
  <2>5. \A f : LastDecides(f)' <=> LastDecides(f)
    BY <2>1, <2>2, <2>4 DEF LastDecides
  <2>6. \A u : SelectedBy(u)' <=> SelectedBy(u)
    BY <2>1, <2>2 DEF SelectedBy
  <2> QED
    BY <2>1, <2>2, <2>3, <2>5, <2>6 DEF TypesInv, Reading
<1>11. CASE UNCHANGED vars
  BY <1>11, TypesKept DEF vars
<1> QED
  BY <1>3, <1>4, <1>5, <1>6, <1>7, <1>8, <1>9, <1>10, <1>11 DEF Next

LEMMA TypesInductive == Spec => [](StateInv /\ TypesInv)
<1>1. Init => TypesInv
  BY InitialTypes DEF Init, TypesInv, Reading
<1> QED
  BY <1>1, StepTypes, StateInductive, PTL DEF Spec

LEMMA SearchedIs ==
  ASSUME NEW f \in Filters, tables = CompileTypeTables(tm)
  PROVE  /\ Searched(f) => f \notin tm.removed /\ \E e \in tm.active : e[2] = f
         /\ Compiled(f) /\ f \notin tm.removed /\ (\E e \in tm.active : e[2] = f) => Searched(f)
BY FilterAssumption DEF Searched, Compiled, CompileTypeTables

(* For any types and any number of options that select and deselect them:   *)
(* of the options that concern a filter the last one decides whether the     *)
(* names it accepts are searched, however many types share the filter.       *)
THEOREM LastTypeDecides == Spec => []LastTypeOptionDecides
<1>1. StateInv /\ TypesInv => LastTypeOptionDecides
  <2> SUFFICES ASSUME StateInv, TypesInv, stage = "running", NEW f \in Filters, Compiled(f),
                      Concerning(f) # {}
               PROVE  IF IsNo(opts[Max(Concerning(f))].arg) THEN ~Searched(f)
                      ELSE ~IncludesGlob => Searched(f)
    BY DEF LastTypeOptionDecides
  <2>1. tables = CompileTypeTables(tm) /\ TypesLeft = {} /\ LastDecides(f)
    BY DEF TypesInv
  <2>2. \A i \in Given("TYPE") : i < pos
    BY <2>1, PlacesOfOptions DEF TypesLeft
  <2>3. Decided(f) = Concerning(f)
    BY <2>2 DEF Decided, Concerning
  <2> QED
    BY <2>1, <2>3, SearchedIs DEF LastDecides
<1> QED
  BY <1>1, TypesInductive, PTL

(* The first --type wipes the slate, whatever was active: nothing is         *)
(* searched that is not of a type that is selected by name.                  *)
THEOREM SelectionExcludes == Spec => []OnlySelectedTypes
<1>1. StateInv /\ TypesInv => OnlySelectedTypes
  <2> SUFFICES ASSUME StateInv, TypesInv, stage = "running", ~IncludesGlob,
                      \E i \in Given("TYPE") : ~IsNo(opts[i].arg), NEW f \in Filters, Searched(f)
               PROVE  \E i \in Given("TYPE") : ~IsNo(opts[i].arg) /\ <<opts[i].arg, f>> \in tm.defined
    BY DEF OnlySelectedTypes
  <2>1. tables = CompileTypeTables(tm) /\ TypesLeft = {}
    BY DEF TypesInv
  <2>2. \A i \in Given("TYPE") : i < pos
    BY <2>1, PlacesOfOptions DEF TypesLeft
  <2>3. PICK e \in tm.active : e[2] = f
    BY <2>1, SearchedIs
  <2>4. SelectedBy(e[1])
    BY <2>2 DEF TypesInv
  <2>5. e = <<e[1], f>> /\ e \in tm.defined
    BY <2>3 DEF StateInv, TmOK, IsMap
  <2> QED
    BY <2>4, <2>5 DEF SelectedBy
<1> QED
  BY <1>1, TypesInductive, PTL

-----------------------------------------------------------------------------
(* The directory options                                                    *)

(* The fold of ExcludedDirs, as the function that FoldLeft chooses.          *)
DirsAfter(os, h) ==
  [s \in SUBSET DOMAIN os |->
     IF s = {} THEN {} ELSE LET x == Max(s) IN ExcludesAfter(h[s \ {x}], os[x])]
FoldedDirs(os) == CHOOSE h : h = DirsAfter(os, h)

LEMMA FoldIs ==
  ASSUME NEW os
  PROVE  FoldLeft(ExcludesAfter, {}, os) = FoldedDirs(os)[DOMAIN os]
BY DEF FoldLeft, MapThenFoldSet, FoldedDirs, DirsAfter

\* The options among the places s that name the directory d, and the directories whose last one
\* excludes them.
DirsIn(os, s, d) == {i \in s : os[i].index = "IGNORE_DIR" /\ os[i].arg = d}
DirsLeft(os, s) ==
  {d \in {os[i].arg : i \in DOMAIN os} :
     /\ DirsIn(os, s, d) # {}
     /\ os[Max(DirsIn(os, s, d))].value = "ENABLE"}

LEMMA OneMoreDir ==
  ASSUME NEW os, IsSeq(os), NEW s \in SUBSET DOMAIN os, s # {}, NEW x, x = Max(s)
  PROVE  /\ x \in s /\ x \in Nat /\ s \ {x} \subseteq 1..(x - 1)
         /\ DirsLeft(os, s) = ExcludesAfter(DirsLeft(os, s \ {x}), os[x])
<1>n. PICK n : n = Len(os)
  OBVIOUS
<1>1. n \in Nat /\ DOMAIN os = 1..n
  BY <1>n, SeqIs
<1>2. x \in s /\ \A i \in s : i <= x
  BY <1>1, LastPlace
<1>3. x \in 1..n /\ s \subseteq 1..n
  BY <1>1, <1>2
<1>4. s \ {x} \subseteq 1..(x - 1)
  BY <1>1, <1>2, <1>3
<1>5. ASSUME NEW d, os[x].index = "IGNORE_DIR", os[x].arg = d
      PROVE  DirsIn(os, s, d) # {} /\ Max(DirsIn(os, s, d)) = x
  <2>1. PICK D : D = DirsIn(os, s, d)
    OBVIOUS
  <2>2. x \in D /\ D \subseteq Int /\ \A i \in D : i <= x
    BY <1>2, <1>3, <1>5, <2>1 DEF DirsIn
  <2> QED
    BY <2>1, <2>2, NewLastPlace
<1>6. ASSUME NEW d, ~(os[x].index = "IGNORE_DIR" /\ os[x].arg = d)
      PROVE  DirsIn(os, s, d) = DirsIn(os, s \ {x}, d)
  BY <1>6 DEF DirsIn
<1>7. os[x].arg \in {os[i].arg : i \in DOMAIN os}
  BY <1>1, <1>3
<1>8. CASE os[x].index # "IGNORE_DIR"
  <2>1. \A d : DirsIn(os, s, d) = DirsIn(os, s \ {x}, d)
    BY <1>6, <1>8
  <2>2. DirsLeft(os, s) = DirsLeft(os, s \ {x})
    BY <2>1 DEF DirsLeft
  <2> QED
    BY <1>2, <1>3, <1>4, <1>8, <2>2 DEF ExcludesAfter
<1>9. CASE os[x].index = "IGNORE_DIR"
  <2>1. \A d : d # os[x].arg => (d \in DirsLeft(os, s) <=> d \in DirsLeft(os, s \ {x}))
    BY <1>6 DEF DirsLeft
  <2>2. os[x].arg \in DirsLeft(os, s) <=> os[x].value = "ENABLE"
    BY <1>5, <1>7, <1>9 DEF DirsLeft
  <2>3. DirsLeft(os, s) = ExcludesAfter(DirsLeft(os, s \ {x}), os[x])
    BY <1>9, <2>1, <2>2 DEF ExcludesAfter
  <2> QED
    BY <1>2, <1>3, <1>4, <2>3
<1> QED
  BY <1>8, <1>9

LEMMA LastDirs ==
  ASSUME NEW os, IsSeq(os)
  PROVE  FoldLeft(ExcludesAfter, {}, os) = DirsLeft(os, DOMAIN os)
<1> DEFINE left == [s \in SUBSET DOMAIN os |-> DirsLeft(os, s)]
           Rec(h) == DirsAfter(os, h)
           dirs == FoldedDirs(os)
<1>1. ASSUME NEW s \in SUBSET DOMAIN os, s # {}
      PROVE  left[s] = ExcludesAfter(left[s \ {Max(s)}], os[Max(s)])
  <2>1. s \ {Max(s)} \in SUBSET DOMAIN os
    OBVIOUS
  <2>2. left[s] = DirsLeft(os, s) /\ left[s \ {Max(s)}] = DirsLeft(os, s \ {Max(s)})
    BY <2>1
  <2> QED
    BY <1>1, <2>2, OneMoreDir
<1>2. left[{}] = {}
  <2>1. DirsLeft(os, {}) = {}
    BY DEF DirsLeft, DirsIn
  <2> QED
    BY <2>1
<1>3. left = Rec(left)
  <2>1. \A s \in SUBSET DOMAIN os : left[s] = Rec(left)[s]
    BY <1>1, <1>2 DEF DirsAfter
  <2> QED
    BY <2>1 DEF DirsAfter
<1>4. dirs = Rec(dirs)
  <2> HIDE DEF left
  <2> QED
    BY <1>3 DEF FoldedDirs
<1> HIDE DEF left, dirs
<1>n. PICK n : n \in Nat /\ DOMAIN os = 1..n
  BY SeqIs
<1>5. \A s \in SUBSET DOMAIN os : dirs[s] = left[s]
  <2> DEFINE bad == {k \in Nat : \E s \in SUBSET DOMAIN os : s \subseteq 1..k /\ dirs[s] # left[s]}
  <2>1. ASSUME bad # {} PROVE FALSE
    <3>k. PICK k : k = Min(bad)
      OBVIOUS
    <3>1. k \in bad /\ \A j \in bad : k <= j
      <4> HIDE DEF bad
      <4>1. bad \in SUBSET Nat
        BY DEF bad
      <4> QED
        BY <2>1, <3>k, <4>1, LeastPlace
    <3>2. PICK s \in SUBSET DOMAIN os : s \subseteq 1..k /\ dirs[s] # left[s] /\ k \in Nat
      BY <3>1
    <3>3. s # {}
      BY <1>2, <1>4, <3>2 DEF DirsAfter
    <3>x. PICK x : x = Max(s)
      OBVIOUS
    <3>4. x \in s /\ x \in Nat /\ s \ {x} \subseteq 1..(x - 1)
      BY <3>3, <3>x, OneMoreDir
    <3>5. left[s] = ExcludesAfter(left[s \ {x}], os[x])
      BY <1>1, <3>3, <3>x
    <3>6. dirs[s] = ExcludesAfter(dirs[s \ {x}], os[x])
      BY <1>4, <3>3, <3>x DEF DirsAfter
    <3>7. dirs[s \ {x}] # left[s \ {x}]
      BY <3>2, <3>5, <3>6
    <3>8. x - 1 \in Nat /\ x - 1 < k
      BY <3>2, <3>4
    <3>9. x - 1 \in bad
      BY <3>4, <3>7, <3>8
    <3> QED
      BY <3>1, <3>2, <3>8, <3>9
  <2>2. ASSUME NEW s \in SUBSET DOMAIN os, dirs[s] # left[s] PROVE FALSE
    BY <1>n, <2>1, <2>2
  <2> QED
    BY <2>2
<1>6. dirs[DOMAIN os] = DirsLeft(os, DOMAIN os)
  BY <1>5 DEF left
<1> QED
  BY <1>6, FoldIs DEF dirs

DirsInv ==
  /\ stage = "apply" => excludes = ExcludedDirs
  /\ stage = "running" => excludes = ExcludedDirs \cup BuiltinDirExcludes

LEMMA StepDirs == StateInv /\ DirsInv /\ [Next]_vars => DirsInv'
<1> SUFFICES ASSUME StateInv, DirsInv, [Next]_vars PROVE DirsInv'
  OBVIOUS
<1>1. CASE Settle
  BY <1>1 DEF Settle, Goto, DirsInv, ExcludedDirs
<1>2. CASE ApplyType
  BY <1>2 DEF ApplyType, Exit, DirsInv, ExcludedDirs
<1>3. CASE CompileTables
  BY <1>3 DEF CompileTables, CompileExclusionTables, AddExclusions, Goto, DirsInv, ExcludedDirs
<1>4. CASE UNCHANGED vars
  BY <1>4 DEF vars, DirsInv, ExcludedDirs
<1>5. ASSUME ReadUserConfig \/ SkipConfig \/ WalkUp \/ ReadProjectConfig \/ Combine
      PROVE  stage' \notin {"apply", "running"}
  BY <1>5 DEF ReadUserConfig, SkipConfig, WalkUp, ReadProjectConfig, Combine, Exit, Goto
<1>6. ASSUME ExpandType \/ RejectAmbiguousType \/ DefineType \/ PassArg \/ TypesHandled
      PROVE  stage' \notin {"apply", "running"}
  BY <1>6 DEF ExpandType, RejectAmbiguousType, DefineType, PassArg, TypesHandled, AtLongArg, Exit, Goto
<1>7. ASSUME ParseWord \/ ParseDoubleDash \/ ParseOption \/ Informational
      PROVE  stage' \notin {"apply", "running"}
  BY <1>7 DEF ParseWord, ParseDoubleDash, ParseOption, Informational, AtArg, Exit
<1>8. ASSUME stage' \notin {"apply", "running"} PROVE DirsInv'
  BY <1>8 DEF DirsInv
<1> QED
  BY <1>1, <1>2, <1>3, <1>4, <1>5, <1>6, <1>7, <1>8 DEF Next

(* However often and in whatever order directories are excluded and          *)
(* readmitted: the last option that names a directory decides, except for    *)
(* the built-in ones, which stay excluded.                                   *)
THEOREM LastDirDecides == Spec => []LastDirOptionDecides
<1>1. Init => DirsInv
  BY DEF Init, DirsInv
<1>2. StateInv /\ DirsInv => LastDirOptionDecides
  <2> SUFFICES ASSUME StateInv, DirsInv, stage = "running" PROVE
         /\ BuiltinDirExcludes \subseteq excludes
         /\ \A d \in {opts[i].arg : i \in DOMAIN opts} \ BuiltinDirExcludes :
              d \in excludes <=> DirOptions(d) # {} /\ opts[Max(DirOptions(d))].value = "ENABLE"
    BY DEF LastDirOptionDecides, DirShouldBeExcluded
  <2>1. excludes = DirsLeft(opts, DOMAIN opts) \cup BuiltinDirExcludes
    BY LastDirs DEF DirsInv, ExcludedDirs, StateInv
  <2>2. \A d : DirOptions(d) = DirsIn(opts, DOMAIN opts, d)
    BY DEF DirOptions, Given, DirsIn
  <2> QED
    BY <2>1, <2>2 DEF DirsLeft
<1> QED
  BY <1>1, <1>2, StepDirs, StateInductive, PTL DEF Spec

-----------------------------------------------------------------------------
(* The globs                                                                *)

AddsGlob(a) == a.dashes = 2 /\ IsDefinition(a) /\ GlobFilter(a) \in {"glob", "globx"}
Entry(a) == IF GlobFilter(a) = "glob" THEN Including(GlobOf(a)) ELSE Excluding(GlobOf(a))

\* The globs are those of the arguments in front of a place, in their order: m is where they are.
Places(m, av, globs, bound) ==
  /\ IsSeq(m) /\ Len(m) = Len(globs)
  /\ \A q \in 1..Len(m) : /\ m[q] \in 1..Len(av) /\ m[q] < bound
                          /\ AddsGlob(av[m[q]]) /\ globs[q] = Entry(av[m[q]])
  /\ \A p, q \in 1..Len(m) : p < q => m[p] < m[q]
  /\ \A i \in 1..Len(av) : i < bound /\ AddsGlob(av[i]) => \E q \in 1..Len(m) : m[q] = i

GlobsInv ==
  /\ stage \in Reading => tm.globs = <<>>
  /\ stage = "types" => \E m : Places(m, args, tm.globs, pos)
  /\ stage \in {"parse", "apply", "running"} => \E m : Places(m, args, tm.globs, Len(args) + 1)

LEMMA NoPlaces ==
  ASSUME NEW av, IsSeq(av)
  PROVE  \E m : Places(m, av, <<>>, 1)
<1>e. PICK m : m = <<>>
  OBVIOUS
<1>1. IsSeq(m) /\ Len(m) = 0 /\ Len(av) \in Nat
  BY <1>e, EmptyIs, SeqIs
<1>2. Places(m, av, m, 1)
  BY <1>1 DEF Places
<1> QED
  BY <1>e, <1>2

\* An argument that adds no glob, rewritten or not.
LEMMA PlacesPass ==
  ASSUME NEW av, IsSeq(av), NEW bs, IsSeq(bs), NEW k \in 1..Len(av), Len(bs) = Len(av),
         \A j \in 1..Len(av) : j < k => bs[j] = av[j], ~AddsGlob(bs[k]),
         NEW globs, NEW m, Places(m, av, globs, k)
  PROVE  Places(m, bs, globs, k + 1)
<1>1. Len(av) \in Nat /\ Len(m) \in Nat /\ IsSeq(m) /\ Len(m) = Len(globs)
  BY SeqIs DEF Places
<1>2. \A q \in 1..Len(m) : m[q] \in 1..Len(bs) /\ m[q] < k + 1 /\ bs[m[q]] = av[m[q]]
  BY <1>1 DEF Places
<1>3. \A q \in 1..Len(m) : AddsGlob(bs[m[q]]) /\ globs[q] = Entry(bs[m[q]])
  BY <1>2 DEF Places
<1>4. \A p, q \in 1..Len(m) : p < q => m[p] < m[q]
  BY DEF Places
<1>5. ASSUME NEW i \in 1..Len(bs), i < k + 1, AddsGlob(bs[i]) PROVE \E q \in 1..Len(m) : m[q] = i
  <2>1. i # k /\ i < k /\ bs[i] = av[i]
    BY <1>1, <1>5
  <2> QED
    BY <1>5, <2>1 DEF Places
<1> QED
  BY <1>1, <1>2, <1>3, <1>4, <1>5 DEF Places

\* An argument that adds one.
LEMMA PlacesAdd ==
  ASSUME NEW av, IsSeq(av), NEW k \in 1..Len(av), AddsGlob(av[k]), NEW globs, IsSeq(globs),
         NEW added, added = Globbed(globs, GlobFilter(av[k]), av[k].spec.args),
         NEW m, Places(m, av, globs, k), NEW r, r = Append(m, k)
  PROVE  Places(r, av, added, k + 1)
<1>n. PICK n : n = Len(m)
  OBVIOUS
<1>1. Len(av) \in Nat /\ n \in Nat /\ IsSeq(m) /\ n = Len(globs)
  BY <1>n, SeqIs DEF Places
<1>2. IsSeq(r) /\ Len(r) = n + 1 /\ r[n + 1] = k /\ \A i \in 1..n : r[i] = m[i]
  BY <1>1, <1>n, AppendIs
<1>a. PICK a : a = av[k]
  OBVIOUS
<1>f. PICK f, fs : f = GlobFilter(a) /\ fs = a.spec.args
  OBVIOUS
<1>3. f \in {"glob", "globx"} /\ added = Globbed(globs, f, fs)
  BY <1>a, <1>f DEF AddsGlob
<1>4. Len(added) = n + 1 /\ \A i \in 1..n : added[i] = globs[i]
  <2>1. IsSeq(globs)
    OBVIOUS
  <2> QED
    BY ONLY <1>1, <1>3, <2>1, GlobbedIs
<1>5. added[n + 1] = Entry(a)
  <2>g. PICK g : g = GlobOf(a) /\ g = CHOOSE x \in fs : TRUE
    BY <1>f DEF GlobOf
  <2>s. IsSeq(globs)
    OBVIOUS
  <2>1. CASE f = "glob"
    <3>1. added[n + 1] = Including(g)
      BY ONLY <1>1, <1>3, <2>1, <2>g, <2>s, GlobbedIs
    <3> QED
      BY <1>f, <2>1, <2>g, <3>1 DEF Entry
  <2>2. CASE f = "globx"
    <3>1. added[n + 1] = Excluding(g)
      BY ONLY <1>1, <1>3, <2>2, <2>g, <2>s, GlobbedIs
    <3> QED
      BY <1>f, <2>2, <2>g, <3>1 DEF Entry
  <2> QED
    BY <1>3, <2>1, <2>2
<1>s. \A q \in 1..n + 1 : q \in 1..n \/ q = n + 1
  BY <1>1
<1>6. ASSUME NEW q \in 1..n + 1
      PROVE  r[q] \in 1..Len(av) /\ r[q] < k + 1 /\ AddsGlob(av[r[q]]) /\ added[q] = Entry(av[r[q]])
  <2>1. CASE q \in 1..n
    <3>1. r[q] = m[q] /\ added[q] = globs[q]
      BY <1>2, <1>4, <2>1
    <3>2. m[q] \in 1..Len(av) /\ m[q] < k /\ AddsGlob(av[m[q]]) /\ globs[q] = Entry(av[m[q]])
      BY <1>n, <2>1 DEF Places
    <3>x. PICK x : x = m[q]
      OBVIOUS
    <3>3. x \in 1..Len(av) /\ x < k + 1
      BY <1>1, <3>2, <3>x
    <3> QED
      BY <3>1, <3>2, <3>3, <3>x
  <2>2. CASE q = n + 1
    <3>1. r[q] = k /\ av[r[q]] = a /\ added[q] = Entry(a)
      BY <1>2, <1>5, <1>a, <2>2
    <3>2. k \in 1..Len(av) /\ k < k + 1 /\ AddsGlob(a)
      BY <1>1, <1>a
    <3> QED
      BY <3>1, <3>2
  <2> QED
    BY <1>s, <2>1, <2>2
<1>7. ASSUME NEW p \in 1..n + 1, NEW q \in 1..n + 1, p < q PROVE r[p] < r[q]
  <2>p. p \in 1..n
    BY <1>1, <1>7
  <2>1. p \in 1..n /\ r[p] = m[p] /\ m[p] < k
    BY <1>2, <1>n, <2>p DEF Places
  <2>2. CASE q \in 1..n
    BY <1>2, <1>n, <1>7, <2>1, <2>2 DEF Places
  <2>3. CASE q = n + 1
    BY <1>2, <2>1, <2>3
  <2> QED
    BY <1>s, <2>2, <2>3
<1>8. ASSUME NEW i \in 1..Len(av), i < k + 1, AddsGlob(av[i]) PROVE \E q \in 1..n + 1 : r[q] = i
  <2>1. CASE i = k
    <3>1. n + 1 \in 1..n + 1
      BY <1>1
    <3> QED
      BY <1>2, <2>1, <3>1
  <2>2. CASE i # k
    <3>1. i < k
      BY <1>1, <1>8, <2>2
    <3>2. PICK q \in 1..n : m[q] = i
      BY <1>n, <1>8, <3>1 DEF Places
    <3>3. q \in 1..n + 1 /\ r[q] = i
      BY <1>1, <1>2, <3>2
    <3> QED
      BY <3>3
  <2> QED
    BY <2>1, <2>2
<1> QED
  BY <1>2, <1>4, <1>6, <1>7, <1>8 DEF Places

LEMMA StepGlobs == StateInv /\ GlobsInv /\ [Next]_vars => GlobsInv'
<1> SUFFICES ASSUME StateInv, GlobsInv, [Next]_vars PROVE GlobsInv'
  OBVIOUS
<1>s. IsSeq(args) /\ Len(args) \in Nat /\ DOMAIN args = 1..Len(args)
  BY SeqIs DEF StateInv, IsArgs
<1>1. CASE stage' = "exited"
  BY <1>1 DEF GlobsInv, Reading
<1>2. CASE ReadUserConfig \/ SkipConfig \/ WalkUp \/ ReadProjectConfig
  <2>1. tm' = tm /\ stage \in Reading /\ stage' \in Reading \cup {"exited"}
    BY <1>2 DEF ReadUserConfig, SkipConfig, WalkUp, ReadProjectConfig, Goto, Exit, Reading
  <2> QED
    BY <2>1 DEF GlobsInv, Reading
<1>3. CASE Combine
  <2>1. stage = "combine" /\ stage' = "types" /\ UNCHANGED <<pos, tm, input>>
    BY <1>3 DEF Combine, Goto
  <2>2. pos' = 1 /\ tm'.globs = <<>>
    BY <2>1 DEF StateInv, GlobsInv, Reading
  <2>3. IsArgs(args')
    BY <1>3, InputIs, ConcatArgs DEF StateInv, Combine, CombineArgs
  <2>4. \E m : Places(m, args', tm'.globs, pos')
    BY <2>2, <2>3, NoPlaces DEF IsArgs
  <2> QED
    BY <2>1, <2>4 DEF GlobsInv, Reading
<1>4. CASE RejectAmbiguousType \/ Informational
  BY <1>1, <1>4 DEF RejectAmbiguousType, Informational, Exit
<1>5. ASSUME NEW bs, IsSeq(bs), Len(bs) = Len(args), \A j \in 1..Len(args) : j < pos => bs[j] = args[j],
             pos \in 1..Len(args), ~AddsGlob(bs[pos]), args' = bs, pos' = pos + 1,
             tm'.globs = tm.globs, stage = "types", stage' = "types"
      PROVE  GlobsInv'
  <2>m. PICK m : Places(m, args, tm.globs, pos)
    BY <1>5 DEF GlobsInv
  <2>1. Places(m, args', tm'.globs, pos')
    BY <1>s, <1>5, <2>m, PlacesPass
  <2> QED
    BY <1>5, <2>1 DEF GlobsInv, Reading
<1>6. CASE ExpandType
  <2>1. PICK t : args' = Replaced(args, pos, TypeArg(t))
    BY <1>6 DEF ExpandType, Replaced
  <2>2. pos \in 1..Len(args) /\ stage = "types" /\ pos' = pos + 1 /\ stage' = stage /\ tm' = tm
    BY <1>6 DEF ExpandType, AtLongArg, StateInv
  <2>3. /\ IsArgs(args') /\ Len(args') = Len(args)
        /\ \A j \in 1..Len(args) : args'[j] = IF j = pos THEN TypeArg(t) ELSE args[j]
    BY <2>1, <2>2, RewrittenArgs DEF StateInv
  <2>4. ~AddsGlob(TypeArg(t))
    BY DEF AddsGlob, IsDefinition, TypeArg, Long, DefinesTypes
  <2>5. args'[pos] = TypeArg(t) /\ \A j \in 1..Len(args) : j < pos => args'[j] = args[j]
    BY <1>s, <2>2, <2>3
  <2> QED
    BY <1>5, <2>2, <2>3, <2>4, <2>5 DEF IsArgs
<1>7. CASE PassArg
  <2>1. pos \in 1..Len(args) /\ stage = "types"
        /\ UNCHANGED <<stage, args, tm>> /\ pos' = pos + 1
    BY <1>7 DEF PassArg, StateInv
  <2>2. ~AddsGlob(args[pos])
    <3>1. args[pos].dashes # 2 \/ IsDoubleDash(args[pos]) \/ ~IsDefinition(args[pos])
      BY <1>7 DEF PassArg, Arg
    <3>2. args[pos].name = "" => ~IsDefinition(args[pos])
      BY DEF IsDefinition, DefinesTypes
    <3> QED
      BY <3>1, <3>2 DEF AddsGlob, IsDoubleDash
  <2> QED
    BY <1>s, <1>5, <2>1, <2>2
<1>8. CASE DefineType
  <2>1. CASE Exit(255)
    BY <1>1, <2>1 DEF Exit
  <2>2. CASE WellFormed(Arg) /\ tm' = Defined(Arg) /\ pos' = pos + 1 /\ UNCHANGED <<stage, args>>
    <3>1. pos \in 1..Len(args) /\ stage = "types" /\ Arg = args[pos] /\ Arg.dashes = 2
      BY <1>8 DEF DefineType, AtLongArg, StateInv, Arg
    <3>2. Defines(Arg)
      BY <1>8, <2>2, <3>1, SeqIs DEF Defines, DefineType, StateInv, IsArgs
    <3>3. tm'.globs = Globbed(tm.globs, GlobFilter(Arg), Arg.spec.args)
      BY <2>2, <3>2, DefinitionIs DEF StateInv
    <3>4. CASE GlobFilter(Arg) \in {"glob", "globx"}
      <4>1. AddsGlob(args[pos])
        BY <3>1, <3>2, <3>4 DEF AddsGlob, Defines
      <4>m. PICK m : Places(m, args, tm.globs, pos)
        BY <3>1 DEF GlobsInv
      <4>g. PICK globs, added, r : globs = tm.globs /\ added = tm'.globs /\ r = Append(m, pos)
        OBVIOUS
      <4>2. IsSeq(globs)
        BY <4>g DEF StateInv, TmOK
      <4>3. Places(r, args, added, pos + 1)
        BY <1>s, <3>1, <3>3, <4>1, <4>m, <4>g, <4>2, PlacesAdd
      <4>4. Places(r, args', tm'.globs, pos')
        BY <2>2, <4>3, <4>g
      <4> QED
        BY <2>2, <3>1, <4>4 DEF GlobsInv, Reading
    <3>5. CASE GlobFilter(Arg) \notin {"glob", "globx"}
      <4>1. ~AddsGlob(args[pos])
        BY <3>1, <3>5 DEF AddsGlob
      <4>2. tm'.globs = tm.globs
        BY <3>3, <3>5 DEF Globbed
      <4> QED
        BY <1>s, <1>5, <2>2, <3>1, <4>1, <4>2
    <3> QED
      BY <3>4, <3>5
  <2> QED
    BY <1>8, <2>1, <2>2 DEF DefineType
<1>9. CASE TypesHandled
  <2>1. stage = "types" /\ stage' = "parse" /\ pos > Len(args) /\ UNCHANGED <<args, tm>>
    BY <1>9 DEF TypesHandled, Goto
  <2>2. pos = Len(args) + 1
    BY <1>s, <2>1 DEF StateInv
  <2> QED
    BY <2>1, <2>2 DEF GlobsInv, Reading
<1>10. CASE ParseWord \/ ParseDoubleDash \/ ParseOption
  <2>1. tm' = tm /\ args' = args /\ stage = "parse" /\ stage' \in {"parse", "exited"}
    BY <1>10 DEF ParseWord, ParseDoubleDash, ParseOption, AtArg, Exit
  <2> QED
    BY <1>1, <2>1 DEF GlobsInv, Reading
<1>11. CASE Settle \/ CompileTables
  <2>1. tm' = tm /\ args' = args /\ stage \in {"parse", "apply"} /\ stage' \in {"apply", "running"}
    BY <1>11 DEF Settle, CompileTables, Goto
  <2> QED
    BY <2>1 DEF GlobsInv, Reading
<1>12. CASE ApplyType
  <2>1. CASE Exit(255)
    BY <1>1, <2>1 DEF Exit
  <2>t. PICK t : t = TypeOf(opts[Min(TypesLeft)])
    OBVIOUS
  <2>2. CASE tm' \in {DeselectType(tm, t), SelectType(tm, t)} /\ UNCHANGED <<stage, args>>
    <3>1. tm'.globs = tm.globs
      BY <2>2, TypeSelected, TypeDeselected DEF StateInv
    <3>2. stage = "apply"
      BY <1>12 DEF ApplyType
    <3> QED
      BY <2>2, <3>1, <3>2 DEF GlobsInv, Reading
  <2> QED
    BY <1>12, <2>1, <2>2, <2>t DEF ApplyType
<1>13. CASE UNCHANGED vars
  BY <1>13 DEF vars, GlobsInv
<1> QED
  BY <1>2, <1>3, <1>4, <1>6, <1>7, <1>8, <1>9, <1>10, <1>11, <1>12, <1>13 DEF Next

\* What the last glob that matches a name says.
LEMMA VerdictIs ==
  ASSUME NEW tb, NEW n, NEW globs, globs = tb.globs, IsSeq(globs)
  PROVE  GlobVerdict(tb, n) = "include" =>
           \E q \in 1..Len(globs) :
             /\ <<globs[q].glob, n>> \in GlobMatches /\ globs[q].include
             /\ \A p \in 1..Len(globs) : <<globs[p].glob, n>> \in GlobMatches => p <= q
<1>h. PICK hits : hits = {p \in 1..Len(globs) : <<globs[p].glob, n>> \in GlobMatches}
  OBVIOUS
<1>1. Len(globs) \in Nat /\ DOMAIN globs = 1..Len(globs)
  BY SeqIs
<1>q. PICK q : q = CHOOSE i \in hits : \A j \in hits : j <= i
  OBVIOUS
<1>2. GlobVerdict(tb, n) = IF hits = {} THEN "nomatch"
                           ELSE IF globs[q].include THEN "include" ELSE "exclude"
  BY <1>1, <1>h, <1>q, Zenon DEF GlobVerdict
<1>3. CASE hits = {}
  <2>1. GlobVerdict(tb, n) = "nomatch"
    BY <1>2, <1>3, Zenon
  <2> QED
    BY <2>1
<1>4. CASE hits # {}
  <2>m. PICK l : l = Max(hits)
    OBVIOUS
  <2>1. l \in hits /\ \A j \in hits : j <= l
    <3>1. hits \subseteq 1..Len(globs)
      BY <1>h
    <3> QED
      BY <1>1, <1>4, <2>m, <3>1, LastPlace
  <2>2. q \in hits /\ \A j \in hits : j <= q
    BY <1>q, <2>1, Zenon
  <2>3. ASSUME GlobVerdict(tb, n) = "include" PROVE globs[q].include
    BY <1>2, <1>4, <2>3, Zenon
  <2>4. q \in 1..Len(globs) /\ <<globs[q].glob, n>> \in GlobMatches
        /\ \A p \in 1..Len(globs) : <<globs[p].glob, n>> \in GlobMatches => p <= q
    BY <1>h, <2>2, Zenon
  <2> QED
    BY <2>3, <2>4, Zenon
<1> QED
  BY <1>3, <1>4

LEMMA EntryIs ==
  ASSUME NEW a
  PROVE  /\ Entry(a).glob = GlobOf(a)
         /\ Entry(a).include <=> GlobFilter(a) = "glob"
<1>1. CASE GlobFilter(a) = "glob"
  <2>1. Entry(a) = Including(GlobOf(a))
    BY <1>1 DEF Entry
  <2> QED
    BY <1>1, <2>1, GlobEntries, Zenon
<1>2. CASE GlobFilter(a) # "glob"
  <2>1. Entry(a) = Excluding(GlobOf(a))
    BY <1>2 DEF Entry
  <2> QED
    BY <1>2, <2>1, GlobEntries, Zenon
<1> QED
  BY <1>1, <1>2

(* For any globs and options: an --exclude keeps every name it matches out   *)
(* of the search, by whichever type the name would be included; only an      *)
(* --include that comes later, for a name no type includes, overrides it.    *)
THEOREM ExcludesHold == Spec => []ExcludedNamesStayOut
<1>1. Init => GlobsInv
  BY InitialTypes DEF Init, GlobsInv, Reading
<1>2. ASSUME StateInv, TypesInv, GlobsInv, stage = "running", NEW n \in Names, NEW i \in GlobArgs("globx"),
             <<GlobOf(args[i]), n>> \in GlobMatches, FileShouldBeScanned(tables, n)
      PROVE  /\ NameLiteral[n] \notin tables.literals
             /\ ~ExtensionIncluded(tables, n)
             /\ \E j \in GlobArgs("glob") : j > i /\ <<GlobOf(args[j]), n>> \in GlobMatches
  <2>g. PICK globs : globs = tm.globs /\ IsSeq(globs) /\ tables.globs = globs
    BY <1>2 DEF TypesInv, CompileTypeTables, StateInv, TmOK
  <2>m. PICK m : Places(m, args, globs, Len(args) + 1)
    BY <1>2, <2>g DEF GlobsInv
  <2>s. /\ Len(args) \in Nat /\ DOMAIN args = 1..Len(args)
        /\ Len(globs) \in Nat /\ DOMAIN globs = 1..Len(globs) /\ Len(m) = Len(globs)
    BY <1>2, <2>g, <2>m, SeqIs DEF StateInv, IsArgs, Places
  <2>1. i \in 1..Len(args) /\ AddsGlob(args[i]) /\ GlobFilter(args[i]) = "globx"
    BY <1>2, <2>s DEF GlobArgs, AddsGlob
  <2>2. PICK p \in 1..Len(m) : m[p] = i
    <3>1. i < Len(args) + 1
      BY <2>s, <2>1
    <3> QED
      BY <2>m, <2>1, <3>1 DEF Places
  <2>3. globs[p] = Entry(args[i])
    BY <2>m, <2>2 DEF Places
  <2>4. globs[p].glob = GlobOf(args[i]) /\ ~globs[p].include
    <3>1. ~(GlobFilter(args[i]) = "glob")
      BY <2>1
    <3> QED
      BY <2>3, <3>1, EntryIs, Zenon
  <2>5. ExcludedByAnyGlob(tables, n)
    <3>1. p \in DOMAIN tables.globs /\ tables.globs[p] = globs[p]
      BY <2>g, <2>s
    <3> QED
      BY <1>2, <2>4, <3>1, Zenon DEF ExcludedByAnyGlob
  <2>6. /\ ~ExtensionIncluded(tables, n) /\ NameLiteral[n] \notin tables.literals
        /\ GlobVerdict(tables, n) = "include"
    BY <1>2, <2>5, Zenon DEF FileShouldBeScanned
  <2>7. PICK q \in 1..Len(globs) :
          /\ <<globs[q].glob, n>> \in GlobMatches /\ globs[q].include
          /\ \A o \in 1..Len(globs) : <<globs[o].glob, n>> \in GlobMatches => o <= q
    BY <2>6, <2>g, VerdictIs, Zenon
  <2>8. p <= q /\ p # q
    <3>1. p <= q
      BY <1>2, <2>s, <2>4, <2>7
    <3>2. p # q
      BY <2>4, <2>7, Zenon
    <3> QED
      BY <3>1, <3>2
  <2>j. PICK j : j = m[q]
    OBVIOUS
  <2>9. j \in 1..Len(args) /\ AddsGlob(args[j]) /\ globs[q] = Entry(args[j])
    BY <2>m, <2>j, <2>s DEF Places
  <2>10. i < j
    <3>1. p < q
      BY <2>s, <2>8
    <3> QED
      BY <2>m, <2>2, <2>j, <2>s, <3>1 DEF Places
  <2>11. GlobFilter(args[j]) = "glob" /\ globs[q].glob = GlobOf(args[j])
    BY <2>7, <2>9, EntryIs, Zenon
  <2>12. j \in GlobArgs("glob") /\ j > i
    BY <2>s, <2>1, <2>9, <2>10, <2>11 DEF GlobArgs, AddsGlob
  <2>13. <<GlobOf(args[j]), n>> \in GlobMatches
    BY <2>7, <2>11
  <2> QED
    BY <2>6, <2>12, <2>13
<1>3. StateInv /\ TypesInv /\ GlobsInv => ExcludedNamesStayOut
  BY <1>2, Zenon DEF ExcludedNamesStayOut
<1> QED
  BY <1>1, <1>3, StepGlobs, StateInductive, TypesInductive, PTL DEF Spec

=============================================================================
