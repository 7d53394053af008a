# A TLA+ model of ucg

UniversalCodeGrep (`ucg`) searches directory trees for a regular expression with many threads. This
directory holds TLA+ modules that model the program, TLC configurations that check them on small
instances, and proofs checked by TLAPS. Paths below are relative to the root of the repository.

## The system

    command line, .ucgrc files                                (ArgParse, TypeManager, DirInclusion)
            |                          PATTERN                 (PatternAnalysis)
       main.cpp: main() ---------------------------------------- exit status
            |  starts, then joins, in this order:
            |
    Globber / DirTree::Scandir      FileScanner::Run x m_jobs     OutputTask::Run
      ReaddirLoop x m_dirjobs  --->  files_to_scan_queue  --->  match_queue  ---> stdout
        ^        |                     File -> buffer -> match loop
        +--------+ m_dir_queue

| component | state | operations | what is hard | what makes it correct |
|---|---|---|---|---|
| `sync_queue<>` (`src/sync_queue.h`) | deque, closed flag, count of pulling threads and its notification level, two condition variables, one mutex | `push_back` (three), `pull_front` (two), `close`, `wait_for_worker_completion` | notifications after unlocking, spurious wakeups, the count as a termination detector | closable FIFO, nobody sleeps through work or the close |
| `DirTree` (`src/libext/DirTree.*`), run by `Globber` | directory queue, set of visited (device, inode) pairs, per worker the open directory, a local file queue and errno | `Scandir`, `ReaddirLoop`, `ProcessDirent`, `HasDirBeenVisited` | workers feed their own queue; links may form cycles; directories may fail | every directory read once, every included file handed over once, returns exactly when all is read |
| `main()` (`main.cpp`) | the threads and both queues | start, join, close, exit status, error exits | the order of closes and joins, exceptions with threads running | no value refused, no thread outlives `main`, status agrees with the output |
| `FileScanner` and its regex engines | one reused `MatchList` and one reused buffer per thread, compiled regex and match data | `Run`, `ScanFile`, `AnalyzeRegex`, line counting, literal search | reuse between files, errors in the middle, zero-length matches, short cuts around the regex library | the matches of a file, each line once, under its own name |
| `FileScanner_sse4_2`, `memory.hpp` | none; a memory with an alignment | `find_first_of`, `find_first_in_ranges`, `find`, `LiteralMatch`, `CountLinesSinceLastMatch` | vectors that reach over the end, matches that straddle them, unaligned starts | the same answer as the plain loop |
| `OutputTask`, `MatchList`, `OutputContext` | stream, count of matched lines | `Run`, `Print` | | each list written once and in one piece |
| `FileID`, `FileDescriptor`, `DoubleCheckedLock` | path, stat data, descriptors, each filled in on first use; a set of valid bits; a mutex | getters, `OpenDir`, `CloseDir`, `FStatAt`, `SetFileDescriptorMode` | double-checked locking of state shared between workers, nested locks, calls without a lock | a getter never returns what is not there yet, nobody waits for ever, descriptors are given back |
| `File`, `ResizableArray` | reused buffer, size, alignment | `GetFileData`, `realloc` | short reads, files that change, a buffer that is too small or not aligned | the buffer holds the file's bytes and zeros behind |
| `TypeManager`, `DirInclusionManager` | tables of types, extensions, literal names, globs; excluded names | `type`, `notype`, `TypeAddIs`, ..., `CompileTypeTables`, `FileShouldBeScanned`, `DirShouldBeExcluded` | the order of options, filters shared by types, extensions packed into integers | the documented meaning of every sequence of options |
| `ArgParse` | option values | `Parse`, the .ucgrc files, `HandleTYPELogic` | three sources of options, two passes over the arguments | later sources override earlier ones |
| `Logger`, `Terminal`, `future/`, `third_party/` | | | | not modelled |

The components interact through the three queues, through the `FileID` objects passed along them
(a child refers to its parent's), and through the visited set. Everything else is local to a thread or
fixed before the threads start.

## The modules

| module | models | composes |
|---|---|---|
| `SyncQueue` | the critical sections of `sync_queue<>`, one operator each | |
| `Channel` | what a queue promises: a closable FIFO (abstract) | |
| `ProducerConsumer` | one queue between producers and consumers, as `main()` uses both of its queues | `SyncQueue`; implements `Channel` |
| `FileTree` | the file system, and what `ProcessDirent` and a new `FileID` make of an entry (constants only) | |
| `Traversal` | what a traversal promises (abstract) | `FileTree` |
| `DirTree` | `Scandir` and the `ReaddirLoop` workers | `SyncQueue`, `FileTree`; implements `Traversal` |
| `FileID` | the lazily filled `FileID`s, and the calls that main, traversal and scanner threads make on them | |
| `Search` | what one run of the program promises (abstract) | |
| `Pipeline` | `main()`, the scanner threads and the output thread | two `Channel`s; implements `Search` |
| `Matcher` | a file, a pattern, the regex engine with ucg's callout, literal search, line counting, cutting a line (operators) | |
| `ScanFile` | the match loops of both regex engines on one file | `Matcher` |
| `Sorting` | what `std::sort` leaves of the table of first bytes and of the tables of extensions (an operator) | |
| `VectorSearch` | the vectorized searches and the line counting (operators) | `Sorting` |
| `FileBuffer` | `File` and `ResizableArray` over a sequence of files, with the searches on the buffer | `VectorSearch`; compared with `Matcher` |
| `PatternAnalysis` | the constructor of `FileScannerPCRE2` and `AnalyzeRegex`: which short cut a PATTERN gets | `VectorSearch` |
| `ExtensionTable` | `microstring` and the sorted table of extensions | `Sorting` |
| `TypeManager`, `DirInclusion` | the operations on types, filters and excluded names (operators on a record) | |
| `ArgParse` | from argv and the .ucgrc files to settings and tables | `TypeManager`, `DirInclusion` |
| `DirTree_proofs`, `ProducerConsumer_proofs`, `Pipeline_proofs` | theorems about `DirTree`, `ProducerConsumer` and `Pipeline` | |
| `Traversal_proofs` | `DirTree` implements `Traversal` | `DirTree_proofs` |
| `FileID_proofs` | theorems about `FileID`: no data race, no descriptor left open, what the scanners learn of a file is right | |
| `ArgParse_proofs` | theorems about `ArgParse`: the order of the arguments, the options that win, the types and names that are searched | |
| `ScanFile_proofs` | theorems about `ScanFile`: what is reported is right, and nothing is missing | |
| `Kernels_proofs` | theorems about `FileBuffer`, `VectorSearch` and `ExtensionTable`: the buffer holds the file; lines are counted, literals and first bytes found, and extensions looked up exactly | |
| `MC*` | the instances for TLC; `MCKernels` runs `FileBuffer`, `PatternAnalysis` and `ExtensionTable` | |

**State and actions.** In `SyncQueue` a step is one critical section of `m_mutex`. A notification that
the code sends after `lock.unlock()` is a step of its own; `notify_all` inside the critical section
(`m_cv_complete`) is part of that section. A thread inside `m_cv.wait` is either in `cv` (asleep) or
not (woken, waiting for the mutex); its next step reacquires the mutex and tests the predicate again
(`pull_front_wake`, `pull_front_resleep`). `pull_front` counts itself as waiting even when it does
not have to wait; that count is compared with the level and taken back within the same section, so
`num_waiting` between sections is the number of threads inside `m_cv.wait`.

In `DirTree` the program counters of the master (`master`) and the workers (`pc`) stand for places
between critical sections: `"open"` is after `pull_front`, `"read"` in the readdir loop, `"push"`
before and `"notify_one"` inside `m_dir_queue.push_back` (after unlocking). A whole
`ProcessDirent` is one step up to that push: it touches only data of its worker and, in one critical
section of `m_dir_mutex`, the visited set. `readdir()` returns the entries in any order. The output
queue stays open during the traversal, so it is the bag of what went into it. `err` is whether
the worker's thread-local `errno` is nonzero. Two history variables (`accepted`, `scanned`) serve the
refinement mapping.

An entry of `FileTree` is what the dirent says (`name`, `d_type`, `d_ino`), whether it is a
link, and the node it resolves to. `Kinds` is the set of types `ProcessDirent` may take it for: one,
except after a failed `FStatAt`, whose result the code ignores before it reads an uninitialized
`struct stat`; then any type may come out. `Child` and `UniqueFileIdentifier` follow the constructor of
`FileID` (`src/libext/FileID.cpp:423-448`): device of the parent, inode number of the dirent.

In `Pipeline` the queues are the abstract channels; the traversal is what it hands over, one
container per directory in any order, and then its return; what a scan finds in a file is
a constant of the file. A thread that cannot be created, or an exception that leaves a thread
function, ends the process (`std::terminate`); before the first thread runs it is exit status 255.

In `ScanFile` a step is one iteration of the loop, with one action for each way through it. `ovector`,
`start_offset`, `options` and the line counters are the locals of the code. A pattern is not a text but
what it does on the file at hand: for each offset the ends of the matches that begin there, in the order in which
the engine prefers them. With alternatives and lookbehinds of fixed length some regex has any such table, so nothing is
checked that cannot occur. What the engine does with the table is in `regex_match`: leftmost first, `NOTEMPTY_ATSTART`, `ANCHORED`, and
backtracking to the next alternative when `callout_handler` refuses one. Literals and prefixes are sequences of
bytes that are looked for in the file. Three classes of bytes are told apart: newline, continuation
byte (10xxxxxx), other. `ovector[0]` after a failed match is either unchanged or unset, which differs between
releases of the libraries. An error of the engine (match limit, no room in `ovector`) may come at any attempt.

In `FileID` a step is one access to shared data. A getter in progress is a frame on its thread's stack: the test of
the validity bit without the mutex (`FirstCheck`), the mutex with the second test (`LockAndCheck`), the value
(`ResolvePath`, `OpenFile`, `LazyLoadStatInfo`), the bits (`Publish`) and the read (`ReadValue`). `ResolvePath` pushes the
parent's `GetPath()` on top while the child's mutex is held, as the recursion through `PathPrefix` does. `OpenDir`,
`FStatAt` and `CloseDir` take no mutex, and so have none here. The fences around the bits make a set bit imply its
value, so accesses are sequentially consistent where `NoDataRace` holds; that property compares what every two threads are about to
read and write. Every stat and open that fails is chosen at the start (`unstatable`, `unopenable`). An entry whose dirent does not tell what it
is (`UnknownTypes`) is stat()ed by `ReadEntry`. If that fails, `ProcessDirent` goes on with a `struct stat` that nobody has written to (`src/libext/DirTree.cpp:257`), and the `FileID` made
of it counts as stat()ed (`src/libext/FileID.cpp:430-434`): type and size are then any that memory holds (`garbage`, out of `StatData`), and the entry is
rejected (`RejectEntry`), taken for a directory, or taken for a file of that size (`AcceptEntry`, `CreateEntry`).

`FileBuffer` keeps the buffer as a function on addresses, with the contents of fresh memory from `Stale`. `Realloc` is
`ResizableArray::realloc` with the rounding of `overaligned_alloc`, `Read` is one `read()` of the loop in `GetFileData`.
`VectorSearch` loads blocks of `Width` bytes; the three modes of `_mm_cmpestri` that the code uses are
`EqualAny`, `InRanges` and `EqualOrdered`, with the implicit lengths of the instruction. The `Hit` of a block is
combined over the pieces of a table as the loops do.

In `PatternAnalysis` a pattern is a list of alternatives of items, whose text is what the code looks at and whose set of
`Words` is what PCRE2 matches; repetitions are cut at two. What `pcre2_pattern_info` reports is chosen among what its documentation
allows (`PatternInfo`).

In `TypeManager` a map from types to filters is the set of its pairs, and one option is one operator on the record of
all maps. `ArgParse` has one action per stage and per argument: the files (`ReadUserConfig`, `WalkUp`,
`ReadProjectConfig`), the pass of `HandleTYPELogic` (`ExpandType`, `RejectAmbiguousType`, `DefineType`, `PassArg`), the option
library (`ParseWord`, `ParseDoubleDash`, `ParseOption`), the effect of the options (`Settle`, `ApplyType`) and the tables
that `main()` compiles. A .ucgrc that belongs to another user is found by `WalkUp` but refused to `File()`, which opens with `O_NOATIME`; `ReadProjectConfig` then goes on without it (`FileOpens`). An `--exclude` or `--include` whose
value contains a `:` ends in an exception, like any specification of other than three parts (`WellFormed`). Arguments are records (dashes, name, `=`, value), not texts; exceptions end in exit status 255.

In `ExtensionTable` a string is a sequence of bytes and a microstring an integer of `MaxSize` bytes, built and swapped
as on a little-endian machine.

## What is checked

| run | module | question | distinct states |
|---|---|---|---|
| `files_queue` | `ProducerConsumer` | Does every interleaving of the queue's critical sections, late notifications and spurious wakeups deliver everything once, in order, and let everybody end? | 4 230 |
| `traversal_plain` | `DirTree` | Is termination detection exact, and does the traversal do what `Traversal` says, with filters, unknown types, unfollowed links, mixed command-line paths, a directory that cannot be opened, a `readdir()` that fails and an entry that is removed before its stat? | 42 299 |
| `traversal_follow` | `DirTree` | With links followed through the cross-linked tree of `tests/dir_tree_traversal.at`: is the outcome that test expects the outcome of every schedule? | 11 288 |
| `pipeline` | `Pipeline` | Does the order of closes and joins lose nothing, do output and exit status agree, with files that fail, either PCRE engine, and threads that cannot be created? | 19 556 |
| `scan_file` | `ScanFile` | Do both match loops report exactly the lines with a match, once, with first match, number and text, whatever short cut is used, and end? | 259 635 |
| `command_line` | `ArgParse` | In what order do options act, which one wins, and which names are searched in the end? | 273 776 |
| `file_id` | `FileID` | Is the lazily filled state free of data races and deadlocks, and does everybody get the data of the right file, while opens and stats fail, that of an entry of unknown type among them? | 672 901 |
| `kernels` | `FileBuffer`, `PatternAnalysis`, `ExtensionTable` | Does the buffer hold the file, do the vectorized searches give what plain loops give, does no short cut exclude a match, is the extension lookup exact? | 1 301 011 |
| `same_inode_other_device`, `empty_pattern`, `inline_case`, `file_buffer_long_table` | | findings, below | |

The properties:

* `NoLostWakeup`, `NoIdleQueue`: a value on a queue, or its close, always has somebody awake
  who will see it, or a notification on its way.
* `AllDelivered`, `ImplementsChannel`: no push is refused, nothing is lost or doubled, order is kept.
* `NothingLeftAtClose`, `MasterNotStranded`: `wait_for_worker_completion` returns neither too early nor never.
* `ImplementsTraversal`: every step of master and workers is a step of the abstract traversal or none, and the
  traversal reaches its end.
* `LoopWarningsAreReal`, `CrossLinkedTest`: the messages are about what happened.
* `NoThreadOutlivesMain`, `NoMatchListRefused`, `ImplementsSearch`: the shutdown, and what reaches stdout.
* `ReportSound`, `ReportComplete`: the reported lines against a definition without a loop. `ReportComplete` excepts, for PCRE2, the
  lines that begin with a continuation byte (see Findings), and both speak about the lines of the file, not about
  the empty one that PCRE2 adds (Further disagreements).
* `NoDataRace`: no two threads are about to touch the same field of a `FileID`, one of them to write, although most accesses
  are made without the mutex. `DescriptorsAreBounded`: a directory is open only while somebody reads it, and not more files than scanners.
  `ScannersSeeTheFile`: what is scanned was opened under its whole path, is a file, and has its own size, or 0 if the `fstat()` of its descriptor failed; of an entry of unknown
  type whose `FStatAt()` failed only path and open are certain. `EveryFileIsAnswered`: no thread waits
  for ever with a child's mutex in its hand, and every file under directories that open is scanned or skipped, unless a stat that the walk depends on failed on the way (`Walked`).
* `ArgsInReadOrder`, `CommandLineOverridesFiles`: the sources of options. `LastTypeOptionDecides`, `OnlySelectedTypes`: types share
  filters, and the last option that concerns one decides. `ExcludedNamesStayOut`, `LastDirOptionDecides`: the exclusions.
* `BufferHoldsFile`: after any file before, the buffer is the file with a vector of zeros behind. `LiteralSearchIsExact`,
  `FirstCandidateIsFirst`, `LinesAreCounted`: the vectorized operations from every offset against `Matcher`.
* `LiteralIsAllThatMatches`, `PrefixBeginsEveryMatch`, `TableBeginsEveryMatch`: a short cut never excludes what the pattern matches.
  They discharge what `ScanFile` takes for granted of the literal, the prefix and the table of its patterns.
* `LookupIsExact`: the two length tests agree, no two extensions share an integer, and the binary search finds what was inserted.

**Bounds.** Nothing in the models is unbounded by itself: the trees are finite, a link cycle is cut by the
visited set, and each producer has finite work. The instances are chosen so that each race has
its participants: three consumers and two producers (a notification can wake the wrong thread, a third
thread can take the value in between), two traversal workers (one pushes while another
goes to sleep and the master decides), two scanners (one ends while the other still reports).
`InitialLevel` has the code's value 500, larger than any number of workers here; the theorems hold for
every value, also one that equals the number of workers. More workers repeat the same
roles; that the properties do not depend on their number is what the proofs show.

`scan_file` takes every file of up to three bytes (`MaxSize`) and every pattern with matches of up to two
(`MaxLength`) and up to two alternatives at an offset: enough for an empty match followed by a longer one, by a refused
one, at a newline, at the end, for two matches on a line and for a prefix that occurs without a match. Second alternatives
that are never asked for, and continuation bytes for PCRE, which does not tell them apart, are left out.

`file_id` has two start paths, a directory below one of them with two files, two walkers and two scanners, and one failure
(`MaxFaults`): two children resolve their paths through the same parent while its directory is open, being closed, or failed. The dirents of the directory and of one of its files do not tell their
types, and the stat of any of the four may fail; the stat data found by chance (`StatData`) are those of a file of a size that no file has, and of neither file nor directory: a directory comes out as a file, a file with a wrong size, and both as nothing. (A file that comes out as a directory is left to the proofs.)

`command_line` takes every sequence of up to three tokens about types, every one about the other options, and every combination
of one option on the command line, in the home and in a project file at up to three levels, which may belong to somebody else: enough for two options and a third that undoes
one of them. The built-in types are a few real ones, chosen because they share `.h`, because one name is a prefix of another, and because one
extension does not fit into a microstring.

`kernels`: vectors of four bytes (`Width`) instead of 16, so that files of up to seven bytes end before, at and after a
block, literals of up to five bytes are longer than a vector, and tables reach up to a vector. Two files in a row
(`MaxFiles`) show the reuse of a larger, smaller, less or more aligned buffer. Patterns have up to three items, or two alternatives, and the
uint8_t of the prefix length is bounded at 3 (`MaxPrefixLen`), so that a longer prefix is cut. Microstrings have three bytes (`MaxSize`) of base 3 (`Base`), and
extensions are one byte longer. The three parts share no variable, so `MCKernels` moves one of them while the others are at their start: every state
of each of them is reached, and no invariant relates two of them.

**Fairness.** Weak fairness for each thread of `ProducerConsumer`, `DirTree` and `Pipeline`: the operating system runs every runnable thread, and each
critical section is short. A sleeping thread has no enabled step, so fairness does not wake it; spurious
wakeups have no fairness. No fairness is put on which value, entry or directory comes next. `Pipeline` assumes
that the traversal goes on and ends, which `DirTree` shows. `ScanFile` has weak fairness for its iterations but none for errors of the engine, which would end the loop.
`FileID` only needs that some thread moves as long as one can, since no step leads back. `ArgParse` and the kernels state no liveness.

**Deadlock** is checked for the queue, the traversal and the pipeline, where an explicit stuttering step
(`Terminated`, `Stopped`) stands for the ended process. The other runs say `CHECK_DEADLOCK FALSE`: a scan, a command line, the
handling of all files (`EveryFileIsAnswered` shows that it does not end early) and the last file of a buffer really end.

**Mutants.** The operators marked `Mutant` in the modules are variants of a definition with a plausible
mistake (a dropped join, a count compared too early, `break` for `continue`). They are used by no
specification; substituting one for its definition makes the property that `PROJECT.json` names fail.

## Findings

Each has a run that shows it.

1. *Same inode number on another device* (`src/libext/DirTree.cpp:333-343`, run `same_inode_other_device`). With `--follow`, directories are
   identified by the start path's device number and the dirent's inode number. Below a mount point
   a directory may collide with one of the first device; it is then reported as a loop and not
   searched.
2. *Empty pattern* (`src/FileScannerPCRE2.cpp:414`, run `empty_pattern`). `ucg --nosmart-case ''` takes the literal search, whose retry finds the same empty match
   again and again: the scan never ends. A plain `ucg ''` does not get there: smart-case is on by default (`src/ArgParse.h:103`), an empty PATTERN has no uppercase letter, so
   `src/ArgParse.cpp:891-905` ignores case (`Settle`), and `src/FileScannerPCRE2.cpp:250` then leaves the search to PCRE2.
3. *Inline case option* (`src/FileScannerPCRE2.cpp:229`, run `inline_case`). Without `-i`, `(?i)Abc` is searched only where there is an `A`, because the
   first code unit that PCRE2 reports has the case it was written in.
4. *Long tables of first bytes* (`src/FileScanner_sse4_2.cpp:242`, run `file_buffer_long_table`). A table of more than 16 bytes, or 8 ranges, is compared in pieces, and the
   hit of the first piece that has one is taken even if a later piece has an earlier one: a match that begins there is lost.
   `ScanFile` and the run `kernels` assume tables that fit.

### Further disagreements

These were met on the way, too. The configuration shows each one by hand, with `tlc -config` on the module named:

| configuration, module | property that fails | what the code does |
|---|---|---|
| `DirTreeErrno.cfg`, `MCDirTree` | `ReadWarningsAreReal` | After a directory could not be opened, or a stat failed, the next directory that the thread reads without any error is reported as unreadable (`src/libext/DirTree.cpp:185` tests an errno that nobody reset). |
| `PipelineStatus.cfg`, `MCPipeline` | `StatusOneMeansNoError` | Errors of single files do not influence the exit status (`main.cpp:124`); `doc/ucg.1:153` promises "2 or greater on error". |
| `ScanFileEnd.cfg`, `MCScanFile` | `AttemptsInsideFile` | The loop condition of PCRE2 looks at the offset of the previous attempt (`src/FileScannerPCRE2.cpp:321`), so a pattern with empty matches is reported once more on an empty line behind the last newline. The PCRE loop (`src/FileScannerPCRE.cpp:156`) does not do this. |
| `FileBufferShortRead.cfg`, `MCFileBuffer` | `BufferHoldsFile` | Every `read()` of the loop under "Read in the whole file." stores at the start of the buffer (`src/File.cpp:150`): after one that returned less than the file the rest overwrites the beginning. |
| `PatternAnalysisEscapeE.cfg`, `MCPatternAnalysis` | `PrefixBeginsEveryMatch` | An isolated `\E` between a character and its quantifier hides that the character is optional (`src/FileScanner.cpp:274`): `ab\E*` does not find an `a`. |
| `PatternAnalysisLiteral.cfg`, `MCPatternAnalysis` | `LiteralOptionTakesEveryCharacter` | With `--literal` and `-i` or `-w`, an `\E` in PATTERN ends the quoting (`src/FileScannerPCRE2.cpp:122`); `README.md:221`: "Treat all characters in PATTERN as literal." |
| `CommandLineJobs.cfg`, `MCArgParse` | `LaterJobsOverride` | Of several `--jobs` (`--dirjobs`) the first one read counts (`src/ArgParse.cpp:856`), so that a .ucgrc overrides the command line; `README.md:293`: "Options read later will override earlier options." |
| `CommandLineDoubleDash.cfg`, `MCArgParse` | `DoubleDashEndsOptions` | `HandleTYPELogic` skips the two characters of a `--` before it tests for it (`src/ArgParse.cpp:1284`, comment at :1292), so a file named `--cpp` behind it is still turned into `--type=cpp`. |
| `CommandLineGlobType.cfg`, `MCArgParse` | `DefiningDoesNotSelect` | Defining a type by a glob also selects it (`src/TypeManager.cpp:432`), and so deselects every other type; a definition by `ext` or `is` does not. |
| `CommandLineIgnoreGlob.cfg`, `MCArgParse` | `IgnoredFilesStayOut` | `--ignore-file=glob:PAT` adds PAT as a glob that includes (`src/TypeManager.cpp:378-388`, :425-433), so files that match it are searched; `README.md:241`: "Files matching FILTER:FILTERARGS (e.g. ext:txt,cpp) will be ignored." |

Exceptions that the properties state:

* the advance after an empty match (`src/FileScannerPCRE2.cpp:451`) skips continuation bytes although UTF-8 is not supported, so in other
  encodings it may skip the beginning of the next line, and `^` misses that line (`BeginsInsideCharacter` in `ReportComplete`);
* the literal search has no callout, so a literal with a newline matches across it, `Match` throws, and the scan of that file ends with
  an error message (`ReportComplete` allows that outcome for such literals only);
* a `read()` that fails is logged, and what was in the buffer is scanned as if it were the file (`ReadFails`; `BufferHoldsFile` is about files that were read to their end);
* an entry of unknown type whose `FStatAt()` failed gets its type and size from an uninitialized `struct stat` (`src/libext/DirTree.cpp:257`, `src/libext/FileID.cpp:430-434`), so it may be dropped, walked
  as a directory, or scanned with a size that is not its own (`Misread` in `ScannersSeeTheFile` and `Walked`; the failed entries of `FileTree` in `ImplementsTraversal`);
* after a glob was defined, the type it selected may be active with less than its definition (`IncludesGlob` in `LastTypeOptionDecides`).

Seen while reading, in no property:

* `--dirjobs` defaults to 4 (`src/ArgParse.cpp:74`), `README.md:258` says 2; `--null` is parsed but never sets `m_nullsep`; `--usage` has no effect.
* `HandleTYPELogic` looks for `--type-add=...`, `--exclude=...` and their like only with an attached value and in full; the option library accepts them
  detached or abbreviated as well, and then nothing happens.
* A type name that is a prefix of another one is rejected as ambiguous, and types whose names begin with "no" cannot be selected by `--type`.
* `--type-del` and `--type-set` act before all `--type` options, whatever their order.
* An `is:` filter with a name that begins with a dot is treated as an extension.
* A failed `stat` is cached as a file of size 0, which a scanner skips without a message.
* A `st_blksize` between the limits that is no power of two makes `overaligned_alloc` throw `std::bad_alloc`, which nobody catches (the state `"bad_alloc"` of `FileBuffer`).

## What is proved

`DirTree_proofs`, for any finite nonempty set of workers, any file system that satisfies
`FileTreeAssumption`, any command line and any initial level:

* `InductiveInvariant`, `TypeCorrect`,
* `TerminationDetection` (`NothingLeftAtClose`),
* `NoLostCompletion` (`MasterNotStranded`),
* `NoLostWakeup` (`NoIdleQueue`).

The three properties are not inductive by themselves. `QueueInv` adds that the count is exactly
the number of workers inside `m_cv.wait`, that only those sleep, that the queue is closed exactly from the
master's `close()` on, and that no worker ends before; `MasterInv` adds that the master sleeps only
in its wait, which level is in force from then on, and which workers exist. Then the argument is short. When
the master's predicate holds before the close, the count equals the number of workers, so all
of them wait (`CompletedMeansAllWait`), and only workers push. A worker goes to sleep only when the queue is
empty, so a queue that is not empty has been filled by a worker that is awake, or has been taken from by
one. The master is asleep only while its predicate is false: every step that can make it
true is the pull that brings the count to the level, and that one notifies. Each `...Step` lemma has one
step per action.

`Traversal_proofs`, under the same assumptions:

* `OneOwner`: `IInv` and `RefInv`, the invariant of the refinement,
* `ThreadsTraverse`: initial states and steps map to those of `Traversal`, the safety part of `ImplementsTraversal`. Each directory is read once, by one
  worker; what it hands over is what the entries it read contribute; `Scandir()` goes on to close the queue only when everything found has been read.

`RefInv` has five parts. `OwnerInv`: the directories found and not finished are those on the queue, which has no duplicates, and those in the hands of the workers,
each in one place. `PathInv`: two directories found never have the same path, and each that is not a start path is the child of one found before, for an entry its
reader is past. `PendingInv`: a subdirectory about to be pushed is not on the queue yet. `ReadInv`: `local_file_queue` holds what the entries read so far contribute, and their
subdirectories have been found or had been visited. `StartInv`: the start paths are done before the workers begin. The step that needs them all is `ProcessDirent`:
that its child is new (`NewPath`) follows because a directory with the same path would be a child of this very directory, for an entry of the same name, and only
this worker reads it and has not read that entry yet. That `Return` happens only when all found are scanned is `NothingLeftAtClose` with `OwnerInv`. The map keeps the
push apart from the finding: `Traversal` finds a subdirectory when `ProcessDirent` decides on it, so the push is a step the traversal does not see, and it can be
none that loses the directory because the queue is open while a worker is inside a directory.

`ProducerConsumer_proofs`, for any producers, any finite nonempty set of consumers, any batches and any initial level:

* `QueueTypes` (`TypeOK`, with `num_waiting` never above the number of consumers),
* `QueueNeverStrands` (`NoLostWakeup`),
* `QueueIsDrained`: when `main()` has joined the consumers the queue is closed and empty,
* `QueueIsChannel`: initial states and steps map to those of `Channel`, the safety part of `ImplementsChannel`. Values leave in the order they
  came, each once, and a consumer hears of the close only when the queue is closed and empty,
* `EverythingIsDelivered` (`AllDelivered`): in the end what was pulled is everything that was to be pushed, each producer's part in its order.

`NoLostWakeup` alone is not inductive: a consumer that leaves might be the last one awake. `ClosingInv` says why that does no
harm: the queue is closed only after the producers have ended, and once the close has been notified nobody sleeps; a consumer leaves only a
closed and empty queue (`LeavingInv`), so the others are awake by then or the notification is still due. A consumer falls asleep only when there is nothing
to pull and the queue is open, and a notification that wakes one leaves one awake (`AwakeSuffices`). `CountInv` (`num_waiting` is exactly the number of
consumers inside `m_cv.wait`) is proved on top, for the types. In the refinement a push is a `Send` of a batch of the producer (`TodoInv`),
a successful pull moves the front of `queue` to the end of `taken` (`MoveFront`) and is a `Receive`, and a pull that fails is a `TellClosed`.
`EverythingIsDelivered` looks at `taken` with `queue` behind it, which a push extends (`AddBehind`) and a pull leaves as it is.

`Pipeline_proofs`, for any number of scanners, files, containers and matches:

* `ShutdownInvariant`, `PipelineTypeCorrect`,
* `NoThreadLeft` (`NoThreadOutlivesMain`),
* `NothingRefused` (`NoMatchListRefused`),
* `EachFileOnce` (`PrintedOnce`): every list that is printed is the whole result of its file, and no file is printed twice,
* `PipelineIsSearch`: initial states and steps map to those of `Search`, the safety part of `ImplementsSearch`. Each file with matches is shown once and
  whole, and `main()` returns, with the status that what was shown calls for, only when all of them have been shown.

That no thread outlives `main()` follows from where `main()` is (`PhaseInv`: which threads exist, which queues are open
and which threads have ended in each phase), and that nothing is refused from the fact that a scanner that has ended has an empty list
(`ListsAreEmptied`: a list has matches only between the scan and the report). `ShutdownInv` joins these to `TypeOK`. `OnceInv` follows a file
on its way: it is on `files_to_scan_queue` at most once (`SentOnce`, because the containers are disjoint), at most one scanner has it
(`HeldOnce`), once its list has been sent no scanner holds it any more (`ListsAreDone`), every list sent is whole (`ListsAreWhole`), and what is printed is a prefix of what was
sent (`PrintedInOrder`). Each lemma treats one group of actions: main's, a scanner's, the output's.

The refinement needs the other direction too, that nothing is lost on the way (`DeliveryInv`). `NoneLost`: a file with matches that has been handed over is on one of the two
queues, with a scanner, or printed. `ListsHaveMatches`: only lists with matches are sent, so an empty file is never shown. `QueuesAreDrained`: a thread that has ended has seen its queue closed and empty, so
after the last join (`MainDelivers`) all that is left for such a file is to have been printed. The exit status is computed from a sum over the printed lists, a recursive function; that the sum
is 0 exactly when nothing was printed follows from its equation (`SumIsRight`), and the equation by looking at the least length at which it would fail (`LeastNumber`).

`Pipeline` uses `Channel` for both queues, and `QueueIsChannel` is what justifies that.

`FileID_proofs`, for any tree of files, any numbers of walkers and scanners, and any failing stats and opens:

* `CallsAndHands` (`IInv`), `TypeCorrect`,
* `NoFieldIsRaced` (`NoDataRace`),
* `DescriptorsAreGivenBack` (`DescriptorsAreBounded`),
* `ScannersAreRight` (`ScannersSeeTheFile`).

`NoDataRace` says what two threads may not be about to do, and nothing of why they are not. The reasons are of three kinds, and `IInv` has all of them:

* *The lock.* Each mutex is held by the one call that is between its lock and its unlock (`MutexInv`), a call above another is the `GetPath()` of
  the directory of the object below (`StackInv`), and each place in a call knows what the earlier places have established (`FrameInv`): the value is
  there when its bit is published, and the bit is set when the value is read. `BitsInv` says what a bit stands for once it is set.
* *The hands.* `OpenDir`, `FStatAt`, `CloseDir` and the first `GetFileDescriptor` rely on there being one thread that has the object. `OwnerInv`: a `FileID` is in
  one queue, in one directory's batch or in one thread's hand, and nobody has asked for the descriptor of a file on its way to the scanners. `OuterCalls` then tells which thread the outermost call on an object belongs to. `Handover` is the
  lemma that each push and pull instantiates.
* *The order of birth.* `OpenDir` reads bits and writes the path of a directory without its lock. What keeps the children's `GetPath()`, which fills in that path under the lock, away from it is that
  there are no children yet: the entries of a directory do not exist before it has been opened (`OpeningAlone`, from `OwnerInv` while it is queued and `WalkerInv` while it is in a worker's hand).

A step is inside a call or in a thread's own code. `CallInv` has the first kind, once for all threads, with one lemma per part of the invariant; `OwnInv` has what the second kind have in common
(they touch no mutex and no stack but their own), and each action then has a lemma for its change of hands. `DescriptorInv` names the thread that keeps each descriptor open, from which the
bound follows by counting the threads.

`ScannersAreRight` needs two things more. What a file is taken for is what it is, unless it is one of the entries whose `FStatAt()` failed (`TypesTaken`), and a size that is not such an entry's is 0 or the file's (`BitsInv`).
And its path: `FullPath` is a recursive function, so that it satisfies its own equation has to be proved: two partial
solutions agree (`OnePath`), each file has one (`SomePath`), both by looking at a counterexample whose directory is none (`TreeAssumption`), and so their union is the
function (`FullPathIs`). `PathInv` is then that a path, once it is there, is `FullPath`. The case of its own is the start path ".", whose children are named without it (`DotPath`).

`ScanFile_proofs`, for either engine, files of any length and any pattern that `InputsAssumption` admits:

* `InductiveInvariant` (`IInv`), `OffsetsInFile` (`TypeOK`),
* `ReportsAreSound` (`ReportSound`),
* `ReportsAreComplete` (`ReportComplete`).

Both properties look at the reports alone, and what the next iteration reports depends on what the loop carries along: `ScanInv` is what it carries.
`CountInv`: the line number is that of the offset up to which lines were counted, that offset is not behind the next attempt, and after an empty match it is exactly there; so the number counted from match to match
is the true one (`CountLinesFacts`), and it never decreases. `PassedInv`: every match that begins before the next attempt is on a line already reported or on one PCRE2 may have stepped over, and
an attempt begins at the beginning of a line or on the last one reported; so the first match of a line is the one found (`ReportIsRight`), and at the end none is missing (`NothingIsMissing`). `LiteralInv`: once an occurrence of the
literal was reported no occurrence contains a newline, since all have the same bytes (`LiteralBytes`), which is why a match on the line of the one before needs no
test; a match of a regex has none because the callout refused it (`AdmittedStay`, `ThrowsOnNewline`). `EndInv`: the loop condition of PCRE2 looks at the previous attempt, and one at the end of the file finds an empty match, so that the loop is left by either condition only when no offset is left.

Underneath, `LineStartIs` and `LineEndIs` show that the two searches of `Match` find the ends of the line, `NextOffsetIs` and `SteppedOver` treat the continuation bytes, and `FoundIs` says what one attempt finds,
whichever short cut it takes: the next match at or after the offset where it starts (`FoundByRegex`, `FoundLiterally`). `Min` and `Max` of offsets exist by `LeastNumber`.

`Kernels_proofs` is about the buffer with the searches on it, and about the table of extensions. Of the buffer, for any width of a vector, any contents of files and memory, any patterns and block sizes, where one `read()` gives a whole file (`OneReadSuffices`):

* `BufferInvariant` (`IInv`), `BufferTypes` (`BufferTypeOK`),
* `BufferIsTheFile` (`BufferHoldsFile`),
* `LinesCounted` (`LinesAreCounted`),
* `LiteralsAreFound` (`LiteralSearchIsExact`),
* `FirstCandidatesAreFound` (`FirstCandidateIsFirst`), if also each table, or its ranges, fit into one vector register (`TablesFit`).

Both hypotheses are needed. A longer table does not give the first byte (finding 4, `FileBufferLongTable.cfg`). As to the other: after a short read the rest of the file overwrites its beginning (`FileBufferShortRead.cfg`, under "Further disagreements"). Linux gives up to 2 GiB of a regular file in one `read()`
unless a signal or an error comes in between. `BufferInv` relates the memory to the recorded size and alignment from file to file, `ReadInv` says that the file's bytes are in front of the zeros or still to be read, and that a
buffer that is kept is large enough for the next file (`SizeSuffices`, `ZeroesBehind`).

The other three are about operators. `CountsLines` splits a range as the code does (`CountedInParts`): what comes before the first aligned address (`PrologueLines`, by the bits of one masked block, `BlockLines`), whole blocks, and
the rest. The sum over the blocks is a fold over a set; that it is the number of line ends they cover is proved by looking at the smallest set of blocks for which it would not be (`FoldLines`, `CoveredByOneMore`).
`SearchFinds` is the same for the recursion of `memmem_short_pattern()`: from every offset it gives the leftmost occurrence that is not before it (`Leftmost`), by the last offset at which it would not. One call of it is `StepFinds`: in
what fills no vector a hit is an occurrence because the comparison stops at the end (`RestFinds`); in a whole vector a hit that ends in it is one because the vector of zeros behind the file matches no byte of a
pattern, and one that leaves it says that nothing begins earlier (`BlockFinds`).
`CandidateFound` has the three searches for a byte of a table. A table is the ascending list of its bytes (`SortedIs`, by the number of smaller ones, `RankGrows`), and the ranges cover these bytes and no others: every byte lies between the begin and the end of the
maximal run it is in (`BeginIs`, `RunSteps`, `RangesCover`). In a block each search gives the first hit before the end (`AnyInBlock`), the first block that has one decides (`FirstBlock`), and where there is one piece of the table it is the first byte of all (`OnePieceFinds`).

Of the extensions, for any set of them, integers of any size and bytes of any range: `LookupsAreExact` (`LookupIsExact`). `TablesInv` says that `given` is divided between the two tables by length, with the same test when a file is asked about (`FastTable`).
What makes the table of integers exact is that no two extensions share one (`MicrostringsDiffer`): the bytes of a string can be had back from its number (`BytesOfNumber`), in the opposite order after the swap (`MicrostringIs`), and they have no NUL, which marks the end.
The binary search gives the place where the elements that are not smaller begin, in whichever half it goes on (`HalvesFind`); that its recursion has this result and no other is `LowerBoundFinds`, and `StepByStep` and `StepsAgree` are that for the two loops over bytes.

`ArgParse_proofs`, for any command lines and rc files, any types, filters and file names, with `FilterAssumption` and `InputsAssumption`:

* `ThmTypeOK` (`TypeOK`),
* `FilesComeFirst` (`ArgsInReadOrder`),
* `LastTypeDecides` (`LastTypeOptionDecides`),
* `SelectionExcludes` (`OnlySelectedTypes`),
* `ExcludesHold` (`ExcludedNamesStayOut`),
* `LastDirDecides` (`LastDirOptionDecides`).

Each property speaks of what an option given early comes to in the end, so each has an invariant about the steps in between, on top of `StateInv`. That one says that the maps of `TypeManager` agree
(`TmOK`; one lemma per operation, put together for an argument of the first pass in `DefinitionIs`) and that there are never more options than arguments, because each takes at least one (so that a detached
value is never read behind the end: the last argument has none, and an empty value is refused).
`OrderInv` carries the arguments read so far and that neither `$HOME` nor an rc file lies between the current directory and the level the walk has reached (`WalkEnds`). `TypesInv`: when the `--type` options are applied nothing has wiped the
slate yet, unless a glob did; from then on, of the options already applied that concern a filter the last one decides whether it is removed, or active with a type that has all of its definition (`LastDecides`), and every active
type was selected by name (`SelectedBy`). That an active type has all of its filters is what makes a second `--type` of it harmless, since `map::insert` then does nothing (`StepTypeYes`). `GlobsInv`: the globs are those of the arguments passed, in their
order, although arguments are rewritten at the same time (`PlacesPass`, `PlacesAdd`: an option with a `=` never is). `LastDirs` treats the fold over the directory options, as the function on sets of places that the library's
`FoldLeft` chooses, by the smallest last place at which it would differ from its closed form `DirsLeft`.

Assumptions: `WorkersAssumption` (`ArgParse` accepts only positive `--dirjobs`, `src/ArgParse.cpp:554`),
`FileTreeAssumption` (types of the file system's description, and that the entries of a directory have different names), `LevelAssumption`, `PipelineAssumption` (the containers are nonempty, disjoint and
without repetition: a file is a `FileID` object, and each entry gets one of its own; there is a scanner), `ClientAssumption` (consumers are finitely many and
not producers; each producer has a sequence of nonempty batches) and `LabelAssumption` (no value is pushed twice: each directory and each file has a `FileID` object of its own). For `FileID`: `FilesAssumption` (start paths are distinct, lie in the working directory and have no dirent, so that none is of unknown type; stat data are a type and a size; and only a start path
is called ".", because `src/libext/DirTree.cpp:233-240` skips the entries of that name), `TreeAssumption` (a directory is not below itself: the at-directory of a `FileID` was
made before it) and `ThreadsAssumption`. For `ScanFile`: `InputsAssumption` (files are not empty, because `Run` skips empty ones; a match ends in the file and not before it begins, `WellFormed`;
a literal, a prefix and a table are what `AnalyzeRegex` takes them for, `WellAnalyzed`, which the properties of `PatternAnalysis` are about). For `FileBuffer`: `WidthAssumption` and `FileBufferAssumption` (the padding is at least a vector, which `src/libext/memory.hpp` sees to; a PATTERN has no NUL, because it is a C string; a table is a finite set of bytes). For the extensions: `ExtensionTableAssumption` (they have no NUL; there are at least two values of a byte). For `ArgParse`: `InputsAssumption` (inputs are sequences of arguments, at least one directory is looked at, a glob option has its glob, and the empty string is no positive number) and `FilterAssumption` (every filter has a kind and a length; the built-in types have filters only). TLC evaluates them in every run.

Only model-checked: liveness and fairness, which are outside the prover's reach (`EveryFileIsAnswered`, `Termination`, and the fairness of the three refinements); `CrossLinkedTest`, which speaks of one tree, that of a test of the repository, and is settled by exploring it (what holds of every tree is proved of `Traversal` and `DirTree`); `CommandLineOverridesFiles`, which needs that no type in use is named like one of its options (`--color` would be rewritten to `--type=color`) and how the table
of 35 options resolves abbreviations, a computation on strings; and of the kernels the analysis of PATTERN, whose texts and languages are folds over sequences of sequences. Induction with a predicate as its parameter is not available to the installed provers, so a recursive function
is treated by its least counterexample instead, with the well-foundedness of `<` on the numbers or of the tree of files; the recursive operators of the library on sequences and sets do not lend themselves to that, unless they are written out as such a function.

## Not modelled

* Printing of help, version and types; the built-in type table as data (the model has a part of it); colours and the layout of the output.
* The resolvers that choose a version by CPU features (`multiversioning`, `cpuidex`), and the plain versions of the vectorized functions, which `Matcher` stands for.
* `FileScannerCpp11`, which is compiled out; the mmap branch of `File`, behind an `if(false)`; `FileDescriptorCache`, which the program does not use.
* `Logger`, `Terminal`, `future/` (stand-ins for library features of later standards), `third_party/optionparser` (the option library appears as what `ArgParse` gets
  from it), the build system and the tests.

## Plan

Written: queue, traversal, pipeline, match loop, `FileID`, buffer and searches, pattern analysis, types, command line. Proved: the safety of the first five, of buffer, line counting and the searches for literals and first bytes, of the table of extensions, and of the command line. Left, in the order of what the program depends on most:

1. The three properties of `PatternAnalysis`, for patterns without `(?i:`.
2. `CommandLineOverridesFiles`, with the option table as a constant.
3. The composition of `DirTree` with `FileID`; `Pipeline` with `ScanFile`.
