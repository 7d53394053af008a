------------------------------ MODULE ArgParse ------------------------------
(***************************************************************************)
(* From argv and the .ucgrc files to the settings a search runs with       *)
(* (ArgParse.cpp, and main.cpp up to the tables it compiles).              *)
(*                                                                         *)
(* The arguments are gone through twice.  HandleTYPELogic reads them first *)
(* and acts on everything that defines a type or adds a glob, rewriting    *)
(* --TYPE and --noTYPE to --type=; the option parser library reads them    *)
(* again, and --type= acts after it, whatever the order on the command     *)
(* line was.                                                               *)
(*                                                                         *)
(* An argument is a record: its dashes (0 for a word), its name, whether   *)
(* "=" and a value follow (eq, val), and, for the options whose value is a *)
(* filter specification, the split value (spec).                           *)
(***************************************************************************)
EXTENDS Integers, Sequences, FiniteSets, SequencesExt, TypeManager,
        DirInclusion

CONSTANTS
    Inputs,          \* the [argv, homeRc, dirRc, home, tty] runs start from
    PositiveNumbers, \* values Arg::IntegerGreater<0> accepts
    UpperPatterns    \* patterns with an upper-case character

(* What the program is given: sequences of arguments, and at least one     *)
(* directory to look for an rc file in.  A glob is one filter, whatever it   *)
(* is.                                                                     *)
IsSeq(s) == s \in Seq(ToSet(s))
IsArg(a) ==
    /\ DOMAIN a = {"dashes", "name", "eq", "val", "spec"}
    /\ DOMAIN a.spec = {"type", "filter", "args"}
    /\ a.spec.args \subseteq Filters
    /\ (a.name = "include" \/ a.spec.filter = "glob") /\ a.val # ""
         => a.spec.args # {}
IsArgs(s) == IsSeq(s) /\ \A i \in DOMAIN s : IsArg(s[i])
ASSUME InputsAssumption ==
    /\ "" \notin PositiveNumbers
    /\ \A given \in Inputs :
         /\ IsArgs(given.argv)
         /\ IsArgs(given.homeRc.args)
         /\ IsSeq(given.dirRc)
         /\ given.dirRc # <<>>
         /\ \A d \in DOMAIN given.dirRc : IsArgs(given.dirRc[d].args)

(* input.dirRc: [1 .. Depth -> rc file], level 1 the root and the last the *)
(* current directory; input.home: the level of $HOME, 0 if it is not among *)
(* them or cannot be opened.  An rc file is [found, owned, args]: found    *)
(* says that it can be opened, owned that it can be with O_NOATIME, which  *)
(* the system grants to the owner only.                                    *)
VARIABLES
    input,
    stage,
    dir,        \* the level GetProjectRCFilename looks at
    args,       \* combined_argv
    pos,
    tm,         \* the TypeManager
    opts,       \* the options the library found, in order
    words,      \* ... and the non-options
    settings,   \* the public fields of ArgParse
    excludes,   \* m_excludes; from "running" on the compiled exclusion set
    tables,     \* the compiled type tables
    exit        \* the exit status, -1 while there is none

vars == << input, stage, dir, args, pos, tm, opts, words, settings, excludes,
           tables, exit >>

NoSettings == [jobs |-> "0"]
NoTables == CompileTypeTables(InitTypes)

Init ==
    /\ input \in Inputs
    /\ stage = "start"
    /\ dir = Len(input.dirRc)
    /\ args = <<>>
    /\ pos = 1
    /\ tm = InitTypes
    /\ opts = <<>>
    /\ words = <<>>
    /\ settings = NoSettings
    /\ excludes = {}
    /\ tables = NoTables
    /\ exit = -1

Exit(status) ==
    /\ stage' = "exited"
    /\ exit' = status
    /\ UNCHANGED << input, dir, args, pos, tm, opts, words, settings,
                    excludes, tables >>

Goto(s) == stage' = s

----------------------------------------------------------------------------
(* The option table.                                                       *)

Option(index, value, shorts, longs, takes) ==
    [ index |-> index, value |-> value, novalue |-> "0", shorts |-> shorts,
      longs |-> longs, takes |-> takes, bracket |-> FALSE ]
BracketNo(index, value, novalue, longs, takes) ==
    [ Option(index, value, {}, longs, takes) EXCEPT
        !.novalue = novalue, !.bracket = TRUE ]

(* f_raw_options: the option groups and their help texts aside.            *)
RawOptions ==
    { BracketNo("HANDLE_CASE", "SMART_CASE", "NO_SMART_CASE",
                {"smart-case"}, "none"),
      Option("HANDLE_CASE", "IGNORE", {"i"}, {"ignore-case"}, "none"),
      Option("WORDREGEX", "0", {"w"}, {"word-regexp"}, "none"),
      Option("LITERAL", "0", {"Q"}, {"literal"}, "none"),
      Option("PREFIX_FILE", "ENABLE", {"H"}, {"with-filename"}, "none"),
      Option("PREFIX_FILE", "0", {"h"}, {"no-with-filename"}, "none"),
      Option("LINE_NUMBER", "ENABLE", {"n"}, {"line-number"}, "none"),
      Option("LINE_NUMBER", "0", {}, {"no-line-number"}, "none"),
      Option("COLUMN", "ENABLE", {}, {"column"}, "none"),
      Option("COLUMN", "0", {}, {"nocolumn"}, "none"),
      Option("COLOR", "ENABLE", {}, {"color", "colour"}, "none"),
      Option("COLOR", "0", {}, {"nocolor", "nocolour"}, "none"),
      Option("NULLSEP", "ENABLE", {}, {"null"}, "none"),
      BracketNo("IGNORE_DIR", "ENABLE", "0",
                {"ignore-dir", "ignore-directory"}, "nonempty"),
      Option("INCLUDE", "0", {}, {"include"}, "nonempty"),
      Option("EXCLUDE", "0", {}, {"exclude", "ignore"}, "nonempty"),
      Option("IGNORE_FILE", "0", {}, {"ignore-file"}, "nonempty"),
      Option("RECURSE", "ENABLE", {"r", "R"}, {"recurse"}, "none"),
      Option("RECURSE", "0", {}, {"no-recurse"}, "none"),
      BracketNo("FOLLOW", "ENABLE", "0", {"follow"}, "none"),
      Option("ONLY_KNOWN_TYPES", "ENABLE", {"k"}, {"known-types"}, "none"),
      Option("TYPE", "ENABLE", {}, {"type"}, "nonempty"),
      Option("TYPE_SET", "0", {}, {"type-set"}, "nonempty"),
      Option("TYPE_ADD", "0", {}, {"type-add"}, "nonempty"),
      Option("TYPE_DEL", "0", {}, {"type-del"}, "nonempty"),
      Option("PERF_DIRJOBS", "0", {}, {"dirjobs"}, "number"),
      Option("PERF_SCANJOBS", "0", {"j"}, {"jobs"}, "number"),
      Option("NOENV", "0", {}, {"noenv"}, "none"),
      Option("HELP", "0", {"?"}, {"help"}, "none"),
      Option("HELP_TYPES", "0", {}, {"help-types", "list-file-types"},
             "none"),
      Option("USAGE", "0", {}, {"usage"}, "none"),
      Option("VERSION", "0", {"V"}, {"version"}, "none"),
      Option("TEST_LOG_ALL", "0", {}, {"test-log-all"}, "none"),
      Option("TEST_NOENV_USER", "0", {}, {"test-noenv-user"}, "none"),
      Option("TEST_USE_MMAP", "0", {}, {"test-use-mmap"}, "none") }

Descriptor(o, value, dashes, name) ==
    [ index |-> o.index, value |-> value, takes |-> o.takes,
      dashes |-> dashes, name |-> name ]

(* The library knows one spelling per descriptor: the PreDescriptor        *)
(* conversion, the aliases and the --no and --no- forms expand the table.  *)
Descriptors ==
    UNION { { Descriptor(o, o.value, 2, n) : n \in o.longs }
              \cup { Descriptor(o, o.value, 1, n) : n \in o.shorts }
              \cup (IF ~o.bracket THEN {} ELSE
                    { Descriptor(o, o.novalue, 2, "no" \o n) : n \in o.longs }
                    \cup { Descriptor(o, o.novalue, 2, "no-" \o n) :
                             n \in o.longs })
            : o \in RawOptions }

StartsWith(s, t) == Len(t) <= Len(s) /\ SubSeq(s, 1, Len(t)) = t

(* How the library looks an argument up: by its exact name, else, for a    *)
(* long option, by the only name it abbreviates to two or more characters. *)
DescriptorsOf(a) ==
    LET exact == { d \in Descriptors : d.dashes = a.dashes /\ d.name = a.name }
        short == { d \in Descriptors : /\ a.dashes = 2
                                       /\ d.dashes = 2
                                       /\ Len(a.name) >= 2
                                       /\ StartsWith(d.name, a.name) }
    IN  IF exact # {} THEN exact
        ELSE IF Cardinality(short) = 1 THEN short ELSE {}

----------------------------------------------------------------------------
(* The configuration files.                                                *)

IsDoubleDash(a) == a.dashes = 2 /\ a.name = ""
Long(name) == [dashes |-> 2, name |-> name, eq |-> FALSE, val |-> "",
               spec |-> [type |-> "", filter |-> "", args |-> {}]]

(* argv up to its first "--".                                              *)
BeforeDoubleDash(argv) ==
    { i \in DOMAIN argv : \A j \in 1 .. i : ~IsDoubleDash(argv[j]) }
GivesFlag(argv, name) ==
    \E i \in BeforeDoubleDash(argv) : argv[i] = Long(name)
Noenv == GivesFlag(input.argv, "noenv")

(* ConvertRCFileToArgv throws on a "--" and on anything but an option.     *)
RejectsRCFile(rc) ==
    \E i \in DOMAIN rc.args : IsDoubleDash(rc.args[i]) \/ rc.args[i].dashes = 0

(* File() opens with FCF_NOATIME; what it throws is at most warned about.   *)
FileOpens(rc) == rc.found /\ rc.owned
ArgsOf(rc) == IF FileOpens(rc) THEN rc.args ELSE <<>>

(* $HOME/.ucgrc                                                            *)
ReadUserConfig ==
    LET rc   == input.homeRc
        read == FileOpens(rc) /\ ~GivesFlag(input.argv, "test-noenv-user")
    IN  /\ stage = "start"
        /\ ~Noenv
        /\ IF read /\ RejectsRCFile(rc) THEN Exit(255)
           ELSE /\ args' = IF read THEN rc.args ELSE args
                /\ Goto("walk")
                /\ UNCHANGED << input, dir, pos, tm, opts, words, settings,
                                excludes, tables, exit >>

SkipConfig ==
    /\ stage = "start"
    /\ Noenv
    /\ Goto("combine")
    /\ UNCHANGED << input, dir, args, pos, tm, opts, words, settings,
                    excludes, tables, exit >>

(* One round of GetProjectRCFilename: $HOME and the root end the walk, a   *)
(* file that opens is the one.                                             *)
(* Mutant: the home directory is not looked for.                           *)
StopsNowhere(d) == FALSE
StopsAtHome(d) == d = input.home
AtRoot(d) == d = 1
Dirname(d) == IF d = 1 THEN 1 ELSE d - 1
WalkUp ==
    /\ stage = "walk"
    /\ IF StopsAtHome(dir) THEN Goto("combine") /\ UNCHANGED dir
       ELSE IF input.dirRc[dir].found THEN Goto("project") /\ UNCHANGED dir
       ELSE IF AtRoot(dir) THEN Goto("combine") /\ UNCHANGED dir
       ELSE dir' = Dirname(dir) /\ UNCHANGED stage
    /\ UNCHANGED << input, args, pos, tm, opts, words, settings, excludes,
                    tables, exit >>

(* The walk has opened the file without O_NOATIME: File() may still fail,  *)
(* and then there is no project file, whatever lies further up.            *)
ReadProjectConfig ==
    LET rc == input.dirRc[dir]
    IN  /\ stage = "project"
        /\ IF FileOpens(rc) /\ RejectsRCFile(rc) THEN Exit(255)
           ELSE /\ args' = args \o ArgsOf(rc)
                /\ Goto("combine")
                /\ UNCHANGED << input, dir, pos, tm, opts, words, settings,
                                excludes, tables, exit >>

(* Mutant: the command line in front of the files.                         *)
CombineArgsCommandLineFirst(config, argv) == argv \o config
CombineArgs(config, argv) == config \o argv
Combine ==
    /\ stage = "combine"
    /\ args' = CombineArgs(args, input.argv)
    /\ Goto("types")
    /\ UNCHANGED << input, dir, pos, tm, opts, words, settings, excludes,
                    tables, exit >>

----------------------------------------------------------------------------
(* HandleTYPELogic                                                         *)

(* The characters of type names, in their order as bytes.                  *)
Bytes == "-0123456789:ABCDEFGHIJKLMNOPQRSTUVWXYZ_abcdefghijklmnopqrstuvwxyz"
Char(s, i) == SubSeq(s, i, i)
Byte == [ c \in { Char(Bytes, i) : i \in 1 .. Len(Bytes) } |->
            CHOOSE i \in 1 .. Len(Bytes) : Char(Bytes, i) = c ]
Precedes(s, t) ==                                  \* std::string's s < t
    \/ s # t /\ StartsWith(t, s)
    \/ \E i \in 1 .. Len(s) :
          /\ i <= Len(t)
          /\ SubSeq(s, 1, i - 1) = SubSeq(t, 1, i - 1)
          /\ Byte[Char(s, i)] < Byte[Char(t, i)]
HasText(s, t) ==
    \E i \in 1 .. Len(s) + 1 : StartsWith(SubSeq(s, i, Len(s)), t)

(* GetMatchingTypenameList: from lower_bound(text) on, while the names     *)
(* contain the text.                                                       *)
MatchingTypes(text) ==
    LET after == { t \in TypesIn(tm.defined) : ~Precedes(t, text) }
    IN  { t \in after :
            \A u \in after : (u = t \/ Precedes(u, t)) => HasText(u, text) }

Arg == args[pos]
IsNo(s) == StartsWith(s, "no")
AfterNo(s) == SubSeq(s, 3, Len(s))

(* What the text of an argument selects, if it has no "=": types by name   *)
(* or prefix, else, after "no", types to deselect.                         *)
Matched == IF Arg.eq THEN {} ELSE MatchingTypes(Arg.name)
NoMatched == IF Arg.eq \/ ~IsNo(Arg.name) THEN {}
             ELSE MatchingTypes(AfterNo(Arg.name))
TypeArg(t) == [Long("type") EXCEPT !.eq = TRUE, !.val = t]

(* The loop looks at everything of three characters or more that starts    *)
(* with two dashes; a "--" has two characters, and is passed over.         *)
AtLongArg == stage = "types" /\ pos <= Len(args) /\ Arg.dashes = 2
                             /\ ~IsDoubleDash(Arg)

ExpandType ==
    /\ AtLongArg
    /\ \/ /\ Cardinality(Matched) = 1
          /\ \E t \in Matched : args' = [args EXCEPT ![pos] = TypeArg(t)]
       \/ /\ Matched = {}
          /\ Cardinality(NoMatched) = 1
          /\ \E t \in NoMatched :
                args' = [args EXCEPT ![pos] = TypeArg("no" \o t)]
    /\ pos' = pos + 1
    /\ UNCHANGED << input, stage, dir, tm, opts, words, settings, excludes,
                    tables, exit >>

RejectAmbiguousType ==
    /\ AtLongArg
    /\ \/ Cardinality(Matched) > 1
       \/ Matched = {} /\ Cardinality(NoMatched) > 1
    /\ Exit(255)

(* Options whose value HandleTYPELogic acts on: spelled in full and with   *)
(* the value attached.                                                     *)
DefinesTypes == {"type-add", "type-set", "type-del", "ignore-file",
                 "exclude", "ignore", "include"}
IsDefinition(a) == a.eq /\ a.name \in DefinesTypes /\ a.val # ""

Defined(a) ==
    CASE a.name = "type-add"    -> TypeAddSpec(tm, a.spec, FALSE)
      [] a.name = "type-set"    -> TypeAddSpec(tm, a.spec, TRUE)
      [] a.name = "type-del"    -> TypeDel(tm, a.val)
      [] a.name = "ignore-file" -> AddIgnoreFile(tm, a.spec)
      [] a.name \in {"exclude", "ignore"} ->
           AddIgnoreFile(tm, [a.spec EXCEPT !.filter = "globx"])
      [] a.name = "include" ->
           AddIncludeGlob(tm, [a.spec EXCEPT !.filter = "glob"])

(* split() on ":" finds three parts, the filter is one the program knows.  *)
(* (The value of an --exclude or --include becomes the third part, and     *)
(* has to have no ":" itself.)                                             *)
WellFormed(a) ==
    \/ a.name = "type-del"
    \/ a.name \in {"exclude", "ignore", "include"} /\ a.spec.filter = ""
    \/ a.name \notin {"exclude", "ignore", "include"}
          /\ a.spec.filter \in FilterTypes
DefineType ==
    /\ AtLongArg
    /\ Matched = {}
    /\ IsDefinition(Arg)
    /\ IF ~WellFormed(Arg) THEN Exit(255)
       ELSE /\ tm' = Defined(Arg)
            /\ pos' = pos + 1
            /\ UNCHANGED << input, stage, dir, args, opts, words, settings,
                            excludes, tables, exit >>

PassArg ==
    /\ stage = "types"
    /\ pos <= Len(args)
    /\ \/ Arg.dashes # 2 \/ IsDoubleDash(Arg)
       \/ Matched = {} /\ NoMatched = {} /\ ~IsDefinition(Arg)
    /\ pos' = pos + 1
    /\ UNCHANGED << input, stage, dir, args, tm, opts, words, settings,
                    excludes, tables, exit >>

TypesHandled ==
    /\ stage = "types"
    /\ pos > Len(args)
    /\ Goto("parse")
    /\ pos' = 1
    /\ UNCHANGED << input, dir, args, tm, opts, words, settings, excludes,
                    tables, exit >>

----------------------------------------------------------------------------
(* The option parser library, one argument at a time.                      *)

AtArg == stage = "parse" /\ pos <= Len(args)

ParseWord ==
    /\ AtArg
    /\ Arg.dashes = 0
    /\ words' = Append(words, Arg)
    /\ pos' = pos + 1
    /\ UNCHANGED << input, stage, dir, args, tm, opts, settings, excludes,
                    tables, exit >>

ParseDoubleDash ==
    /\ AtArg
    /\ IsDoubleDash(Arg)
    /\ words' = words \o SubSeq(args, pos + 1, Len(args))
    /\ pos' = Len(args) + 1
    /\ UNCHANGED << input, stage, dir, args, tm, opts, settings, excludes,
                    tables, exit >>

(* The value of an option that takes one: after the "=", or the next       *)
(* argument, whatever that is.                                             *)
Detached(d) == d.takes # "none" /\ ~Arg.eq
ValueOf(d) ==
    IF d.takes = "none" \/ (Detached(d) /\ pos = Len(args)) THEN ""
    ELSE IF Arg.eq THEN Arg.val
    ELSE LET next == args[pos + 1]
         IN  IF next.dashes = 0 THEN next.val
             ELSE SubSeq("--", 1, next.dashes) \o next.name
(* Arg::None, Arg::NonEmpty, Arg::IntegerGreater<0>                        *)
Accepts(d, val) ==
    \/ d.takes = "none"
    \/ d.takes = "nonempty" /\ val # ""
    \/ d.takes = "number" /\ val \in PositiveNumbers

ParseOption ==
    /\ AtArg
    /\ Arg.dashes # 0 /\ ~IsDoubleDash(Arg)
    /\ \/ \E d \in DescriptorsOf(Arg) :
              /\ Accepts(d, ValueOf(d))
              /\ opts' = Append(opts, [ index |-> d.index, value |-> d.value,
                                        arg |-> ValueOf(d) ])
              /\ pos' = IF Detached(d) THEN pos + 2 ELSE pos + 1
              /\ UNCHANGED << input, stage, dir, args, tm, words, settings,
                              excludes, tables, exit >>
       \/ /\ \A d \in DescriptorsOf(Arg) : ~Accepts(d, ValueOf(d))
          /\ Exit(255)

(* The list options[index], as the places of its members in opts.          *)
Given(index) == { i \in DOMAIN opts : opts[i].index = index }
IsGiven(index) == Given(index) # {}
(* options[index].last()->type(): 0, which is DISABLE, if there is none.   *)
LastValue(index) ==
    IF IsGiven(index) THEN opts[Max(Given(index))].value ELSE "0"

(* --help, --version, --help-types, or no PATTERN.                         *)
Informational ==
    /\ stage = "parse"
    /\ pos > Len(args)
    /\ \/ \E i \in {"HELP", "VERSION", "HELP_TYPES"} : IsGiven(i) /\ Exit(0)
       \/ /\ \A i \in {"HELP", "VERSION", "HELP_TYPES"} : ~IsGiven(i)
          /\ words = <<>>
          /\ Exit(255)

(* The interaction of -i and --smart-case, option by option.               *)
CaseAfter(case, o) ==
    CASE o.index # "HANDLE_CASE"   -> case
      [] o.value = "IGNORE"        -> [ignore |-> TRUE, smart |-> FALSE]
      [] o.value = "SMART_CASE"    -> [ignore |-> FALSE, smart |-> TRUE]
      [] o.value = "NO_SMART_CASE" -> [case EXCEPT !.smart = FALSE]
CaseOptions == FoldLeft(CaseAfter, [ignore |-> FALSE, smart |-> TRUE], opts)

(* m_excludes, option by option.                                           *)
ExcludesAfter(dirs, o) ==
    IF o.index # "IGNORE_DIR" THEN dirs
    ELSE IF o.value = "ENABLE" THEN dirs \cup {o.arg} ELSE dirs \ {o.arg}
(* Mutant: --noignore-dir does nothing.                                    *)
ExcludedDirsOnlyGrow ==
    { opts[i].arg : i \in { j \in Given("IGNORE_DIR") :
                              opts[j].value = "ENABLE" } }
ExcludedDirs == FoldLeft(ExcludesAfter, {}, opts)

(* The value an option sets that is given, the default of one that is not. *)
Enabled(index, default) ==
    IF IsGiven(index) THEN LastValue(index) = "ENABLE" ELSE default

(* The option value that is used is the one of the first in the list.      *)
FirstArg(index, default) ==
    IF IsGiven(index) THEN opts[Min(Given(index))].arg ELSE default

(* The rest of Parse() but for the --type options.  PATTERN is a word of   *)
(* the arguments; one with no upper-case character is matched without      *)
(* regard to case if smart-case is on.                                     *)
Settle ==
    /\ stage = "parse"
    /\ pos > Len(args)
    /\ words # <<>>
    /\ \A i \in {"HELP", "VERSION", "HELP_TYPES"} : ~IsGiven(i)
    /\ settings' =
         [ pattern    |-> words[1],
           paths      |-> IF Len(words) = 1 THEN <<".">> ELSE Tail(words),
           ignoreCase |-> \/ CaseOptions.ignore
                          \/ CaseOptions.smart
                                /\ words[1].val \notin UpperPatterns,
           word       |-> IsGiven("WORDREGEX"),
           literal    |-> IsGiven("LITERAL"),
           mmap       |-> Enabled("TEST_USE_MMAP", FALSE),
           prefix     |-> Enabled("PREFIX_FILE", ~input.tty),
           color      |-> Enabled("COLOR", input.tty),
           column     |-> Enabled("COLUMN", FALSE),
           line       |-> \/ Enabled("LINE_NUMBER", TRUE)
                          \/ Enabled("COLUMN", FALSE),
           nullsep    |-> FALSE,
           recurse    |-> Enabled("RECURSE", TRUE),
           follow     |-> Enabled("FOLLOW", FALSE),
           dirjobs    |-> FirstArg("PERF_DIRJOBS", "default"),
           jobs       |-> FirstArg("PERF_SCANJOBS", "default") ]
    /\ excludes' = ExcludedDirs
    /\ Goto("apply")
    /\ pos' = 1
    /\ UNCHANGED << input, dir, args, tm, opts, words, tables, exit >>

(* The --type= options, in order: a name that starts with "no" deselects   *)
(* the rest of it.                                                         *)
TypesLeft == { i \in Given("TYPE") : i >= pos }
TypeOf(o) == IF IsNo(o.arg) THEN AfterNo(o.arg) ELSE o.arg
ApplyType ==
    /\ stage = "apply"
    /\ TypesLeft # {}
    /\ LET o == opts[Min(TypesLeft)]
       IN  IF ~IsType(tm, TypeOf(o)) THEN Exit(255)
           ELSE /\ tm' = IF IsNo(o.arg) THEN DeselectType(tm, TypeOf(o))
                         ELSE SelectType(tm, TypeOf(o))
                /\ pos' = Min(TypesLeft) + 1
                /\ UNCHANGED << input, stage, dir, args, opts, words, settings,
                                excludes, tables, exit >>

(* main(): AddExclusions, CompileTypeTables, CompileExclusionTables.       *)
CompileTables ==
    /\ stage = "apply"
    /\ TypesLeft = {}
    /\ tables' = CompileTypeTables(tm)
    /\ excludes' = CompileExclusionTables(AddExclusions({}, excludes))
    /\ Goto("running")
    /\ UNCHANGED << input, dir, args, pos, tm, opts, words, settings, exit >>

Next ==
    \/ ReadUserConfig \/ SkipConfig \/ WalkUp \/ ReadProjectConfig \/ Combine
    \/ ExpandType \/ RejectAmbiguousType \/ DefineType \/ PassArg
    \/ TypesHandled
    \/ ParseWord \/ ParseDoubleDash \/ ParseOption
    \/ Informational \/ Settle \/ ApplyType \/ CompileTables

Spec == Init /\ [][Next]_vars

----------------------------------------------------------------------------
(* Properties                                                              *)

(* The types of the variables; and TypeManager.h keeps two maps that every *)
(* operation must change together: a type is active with filters of its    *)
(* definition only, so that a deleted or redefined type is not searched by *)
(* what it once was.                                                       *)
TypeOK ==
    /\ stage \in { "start", "walk", "project", "combine", "types", "parse",
                   "apply", "running", "exited" }
    /\ dir \in 1 .. Len(input.dirRc)
    /\ pos \in 1 .. Len(args) + 1
    /\ tm.defined \subseteq TypesIn(tm.defined) \X Filters
    /\ tm.active \subseteq tm.defined
    /\ tm.removed \subseteq Filters
    /\ (exit = -1) = (stage # "exited")
    /\ exit \in {-1, 0, 255}

(* GetProjectRCFilename and Parse: the arguments are those of              *)
(* $HOME/.ucgrc, then of the nearest .ucgrc at or above the current        *)
(* directory and below $HOME, then the command line; --noenv before a "--" *)
(* leaves the command line alone.  A nearest .ucgrc that is there but does *)
(* not open with O_NOATIME counts as an empty one.                         *)
ProjectLevels ==
    { d \in DOMAIN input.dirRc :
        /\ input.dirRc[d].found
        /\ \A e \in DOMAIN input.dirRc :
             /\ e >= d => e # input.home
             /\ e > d => ~input.dirRc[e].found }
ArgsInReadOrder ==
    stage = "types" /\ pos = 1 =>
        args = (IF Noenv THEN <<>>
                ELSE (IF GivesFlag(input.argv, "test-noenv-user") THEN <<>>
                      ELSE ArgsOf(input.homeRc))
                     \o (IF ProjectLevels = {} THEN <<>>
                         ELSE ArgsOf(input.dirRc[CHOOSE d \in ProjectLevels :
                                                    TRUE])))
               \o input.argv

(* README: options read later override earlier ones.  What the command     *)
(* line says of an on/off option decides, whatever the files say, and the  *)
(* last word on the command line counts.  (Command lines on which an       *)
(* option takes its value from the next argument are left out: there the   *)
(* next argument is no option.)                                            *)
OnTheCommandLine(index) ==
    { i \in BeforeDoubleDash(input.argv) :
        /\ input.argv[i].dashes # 0
        /\ \E d \in DescriptorsOf(input.argv[i]) : d.index = index }
SaidLast(index) ==
    LET is == OnTheCommandLine(index)
        i  == CHOOSE x \in is : \A y \in is : y <= x
    IN  input.argv[i]
TakesNextArgument ==
    \E i \in BeforeDoubleDash(input.argv) :
        /\ ~input.argv[i].eq
        /\ input.argv[i].dashes # 0
        /\ \E d \in DescriptorsOf(input.argv[i]) : d.takes # "none"
CommandLineOverridesFiles ==
    stage = "running" /\ ~TakesNextArgument =>
        \A o \in { <<"COLOR", "color">>, <<"RECURSE", "recurse">>,
                   <<"FOLLOW", "follow">>, <<"COLUMN", "column">> } :
            OnTheCommandLine(o[1]) # {} =>
                \A d \in DescriptorsOf(SaidLast(o[1])) :
                    settings[o[2]] = (d.value = "ENABLE")

(* The same of the number of scanner threads, which README.md promises of  *)
(* every option: a later --jobs overrides an earlier one.                  *)
LaterJobsOverride ==
    stage = "running" /\ ~TakesNextArgument
        /\ OnTheCommandLine("PERF_SCANJOBS") # {} =>
            settings.jobs = SaidLast("PERF_SCANJOBS").val

(* HandleTYPELogic's comment on "--", "ignore all further command-line     *)
(* params": what follows a "--" reaches the search as it was given.        *)
DoubleDashEndsOptions ==
    stage = "running" =>
        \A i \in DOMAIN input.argv :
            i \notin BeforeDoubleDash(input.argv) /\
            (\E j \in 1 .. i - 1 : IsDoubleDash(input.argv[j])) =>
                \E w \in DOMAIN words : words[w] = input.argv[i]

(* The type options that concern a filter, and what the last of them says. *)
Concerning(f) == { i \in Given("TYPE") : <<TypeOf(opts[i]), f>> \in tm.defined }
Searched(f) == f \in tables.fast \cup tables.ext \cup tables.literals
Compiled(f) == FilterKind[f] \in {"ext", "literal"}
IncludesGlob == \E i \in DOMAIN tm.globs : tm.globs[i].include

(* Types share filters (.h is in five of them): the last --type or         *)
(* --notype that concerns a filter decides.  After a --notype the filter   *)
(* is out although other active types have it too; after a --type it is in,*)
(* although an earlier --notype or --ignore-file removed it, and whatever  *)
(* the length of an extension.  (A glob that is selected while the         *)
(* arguments are read first empties the active map, and a --type-add after *)
(* it leaves a type active with less than its definition: see the README.) *)
LastTypeOptionDecides ==
    stage = "running" =>
        \A f \in Filters : Compiled(f) /\ Concerning(f) # {} =>
            IF IsNo(opts[Max(Concerning(f))].arg) THEN ~Searched(f)
            ELSE ~IncludesGlob => Searched(f)

(* The first --type wipes the slate clean: with one selected, no filter is *)
(* searched that is not of a selected type.                                *)
OnlySelectedTypes ==
    stage = "running" /\ ~IncludesGlob
        /\ (\E i \in Given("TYPE") : ~IsNo(opts[i].arg)) =>
            \A f \in Filters : Searched(f) =>
                \E i \in Given("TYPE") : /\ ~IsNo(opts[i].arg)
                                         /\ <<opts[i].arg, f>> \in tm.defined

(* A type definition is not a selection: without --type and --include, the *)
(* built-in types that no option mentions are searched.                    *)
DefiningDoesNotSelect ==
    stage = "running" /\ ~IsGiven("TYPE") /\ ~IsGiven("INCLUDE") =>
        \A e \in BuiltinTypes :
            Compiled(e[2]) /\ e \in tm.defined /\ e[2] \notin tm.removed
                => Searched(e[2])

(* An --exclude holds for every name it matches, whichever way the name is *)
(* included, but for a name that no type includes and an --include that    *)
(* comes after the --exclude does; and so for the other options that add a *)
(* glob.                                                                   *)
GlobFilter(a) ==
    CASE a.name \in {"exclude", "ignore"} -> "globx"
      [] a.name = "include" -> "glob"
      [] a.name \in {"type-add", "type-set", "ignore-file"} -> a.spec.filter
      [] OTHER -> "none"
GlobArgs(filter) == { i \in DOMAIN args : /\ args[i].dashes = 2
                                          /\ IsDefinition(args[i])
                                          /\ GlobFilter(args[i]) = filter }
GlobOf(a) == CHOOSE g \in a.spec.args : TRUE
ExcludedNamesStayOut ==
    stage = "running" =>
        \A n \in Names, i \in GlobArgs("globx") :
            /\ <<GlobOf(args[i]), n>> \in GlobMatches
            /\ FileShouldBeScanned(tables, n)
            => /\ NameLiteral[n] \notin tables.literals
               /\ ~ExtensionIncluded(tables, n)
               /\ \E j \in GlobArgs("glob") :
                    j > i /\ <<GlobOf(args[j]), n>> \in GlobMatches

(* README: files that match an --ignore-file are ignored.                  *)
IgnoredFilesStayOut ==
    stage = "running" =>
        \A n \in Names, i \in GlobArgs("glob") :
            args[i].name = "ignore-file" /\ <<GlobOf(args[i]), n>> \in GlobMatches
                => ~FileShouldBeScanned(tables, n)

(* The built-in directory exclusions cannot be undone; of the other names  *)
(* the last --ignore-dir or --noignore-dir decides.                        *)
DirOptions(d) == { i \in Given("IGNORE_DIR") : opts[i].arg = d }
LastDirOptionDecides ==
    stage = "running" =>
        /\ BuiltinDirExcludes \subseteq excludes
        /\ \A d \in { opts[i].arg : i \in DOMAIN opts } \ BuiltinDirExcludes :
             DirShouldBeExcluded(excludes, d)
               <=> /\ DirOptions(d) # {}
                   /\ opts[Max(DirOptions(d))].value = "ENABLE"

=============================================================================
