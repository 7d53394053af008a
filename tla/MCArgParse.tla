----------------------------- MODULE MCArgParse -----------------------------
(***************************************************************************)
(* Command lines and configuration files for ArgParse: a few of the        *)
(* built-in types, chosen because they share .h, because one name is a     *)
(* prefix of another's, and because one of their extensions is too long    *)
(* for a microstring.                                                      *)
(***************************************************************************)
EXTENDS ArgParse

MCFilters == { ".h", ".cpp", ".c", ".properties", "Makefile", ".foo",
               "*.h", "M*" }
MCFilterKind == [ f \in MCFilters |->
    CASE f \in {".h", ".cpp", ".c", ".properties", ".foo"} -> "ext"
      [] f = "Makefile" -> "literal"
      [] f \in {"*.h", "M*"} -> "glob" ]
MCFilterSize == [ f \in MCFilters |-> Len(f) - 1 ]
MCBuiltinTypes ==
    { <<"cc", ".c">>, <<"cc", ".h">>, <<"cpp", ".cpp">>, <<"cpp", ".h">>,
      <<"hh", ".h">>, <<"java", ".properties">>, <<"make", "Makefile">> }
MCNames == { "a.h", "a.cpp", "a.properties", "Makefile", "a.foo" }
MCNameFilter == [ n \in MCNames |->
    CASE n = "a.h" -> ".h" [] n = "a.cpp" -> ".cpp" [] n = "a.foo" -> ".foo"
      [] n = "a.properties" -> ".properties" [] n = "Makefile" -> "none" ]
MCNameLiteral == [ n \in MCNames |-> n ]
MCGlobMatches == { <<"*.h", "a.h">>, <<"M*", "Makefile">> }

Word(w) == [Long("") EXCEPT !.dashes = 0, !.val = w]
Short(c) == [Long(c) EXCEPT !.dashes = 1]
With(name, val) == [Long(name) EXCEPT !.eq = TRUE, !.val = val]
Spec3(name, t, filter, fs) ==
    [With(name, "spec") EXCEPT !.spec = [type |-> t, filter |-> filter,
                                         args |-> fs]]
DoubleDash == Long("")
Pattern == Word("pat")

TypeTokens ==
    { Long("cpp"), Long("nocpp"), Long("c"), Long("h"), Long("java"),
      Long("nomake"), With("type", "cc"), With("type", "nohh"), Long("foo"),
      Spec3("type-add", "foo", "ext", {".foo"}),
      Spec3("type-add", "cpp", "ext", {".foo"}),
      Spec3("type-set", "cpp", "is", {"Makefile"}),
      With("type-del", "cpp"),
      Spec3("type-add", "bad", "malformed", {}),
      Spec3("ignore-file", "", "ext", {".h"}),
      Spec3("ignore-file", "", "glob", {"M*"}),
      Spec3("include", "", "", {"*.h"}),
      Spec3("exclude", "", "", {"*.h"}),
      Spec3("ignore", "", "", {"M*"}),
      Spec3("type-set", "mk", "glob", {"M*"}) }
OptionTokens ==
    { Long("color"), Long("nocolor"), Short("i"), Long("smart"),
      Long("nosmart-case"), With("jobs", "1"), Short("j"), Word("2"),
      With("ignore-dir", "d"), With("noignore-directory", "d"),
      With("no-ignore-dir", ".git"), DoubleDash, Long("cpp"), Long("help"),
      Long("bogus"), Long("noenv"), Long("exclude") }
SettingTokens ==
    { Long("column"), Long("nocolumn"), Long("no-recurse"), Long("recurse"),
      Long("follow"), Long("nofollow"),
      Spec3("exclude", "", "malformed", {"*.h"}) }
ConfigTokens ==
    { Long("color"), Long("nocolor"), With("jobs", "1"), With("jobs", "2"),
      Long("noenv"), Long("test-noenv-user"), DoubleDash, Long("cpp") }

NoFile == [found |-> FALSE, owned |-> FALSE, args |-> <<>>]
File(s) == [found |-> TRUE, owned |-> TRUE, args |-> s]
OthersFile(s) == [File(s) EXCEPT !.owned = FALSE]
Input(argv, home, homeRc, dirRc, tty) ==
    [argv |-> argv, home |-> home, homeRc |-> homeRc, dirRc |-> dirRc,
     tty |-> tty]
Seqs(S, n) == UNION { [1 .. k -> S] : k \in 0 .. n }

CommandLines(tokens, n) ==
    { Input(<<Pattern>> \o s, 0, NoFile, <<NoFile>>, FALSE) :
        s \in Seqs(tokens, n) }
Configured ==
    { Input(argv \o <<Pattern>>, home, homeRc, dirRc, TRUE) :
        argv \in Seqs(ConfigTokens, 1), home \in 0 .. 3,
        homeRc \in {NoFile, OthersFile(<<Long("color")>>)}
                   \cup { File(<<t>>) : t \in ConfigTokens },
        dirRc \in [1 .. 3 -> { NoFile, File(<<Long("nocolor")>>) }]
                  \cup [1 .. 2 -> { File(<<Long("nocolor")>>),
                                    OthersFile(<<Long("nocolor")>>) }]
                  \cup [1 .. 2 -> { NoFile, File(<<With("jobs", "2")>>),
                                    File(<<Pattern>>) }] }
MCInputs ==
    CommandLines(TypeTokens, 3) \cup CommandLines(OptionTokens, 3)
        \cup CommandLines(SettingTokens, 3)
        \cup Configured \cup { Input(<<Long("color")>>, 0, NoFile,
                                     <<NoFile>>, FALSE) }
FewInputs == CommandLines(OptionTokens, 2) \cup Configured
TypeInputs == CommandLines(TypeTokens, 1)

MCPositiveNumbers == {"1", "2"}
MCUpperPatterns == {"Pat"}
MCBuiltinDirExcludes == {".git"}
=============================================================================
