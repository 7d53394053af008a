------------------------------ MODULE Pipeline ------------------------------
(***************************************************************************)
(* main() (src/main.cpp) and the threads it connects: the traversal hands  *)
(* files over files_to_scan_queue to the FileScanner::Run threads, which   *)
(* send a MatchList for every file with matches over match_queue to the    *)
(* one OutputTask::Run thread.                                             *)
(*                                                                         *)
(* Composes two instances of module Channel, which ProducerConsumer shows  *)
(* sync_queue<> to implement.  The traversal (DirTree) appears as what it  *)
(* hands over, one container per directory in any order, before it         *)
(* returns.  What ScanFile finds in a file is a constant of the file.      *)
(***************************************************************************)
EXTENDS Naturals, Sequences, FiniteSets

CONSTANTS
  Files,          \* the files that the traversal finds
  Batches,        \* the containers it pushes them in: sequences of files
  Scanners,       \* the scanner threads, m_jobs of them
  Unreadable,     \* the files whose File object throws FileException or system_error
  Empty,          \* the files of size 0
  Broken,         \* the files in which the regex engine reports a match error
  Lines,          \* [file -> how many matched lines ScanFile finds, before the error if any]
  Engines,        \* the regex engines a run may use: "PCRE2", "PCRE"
  ThreadFailures, \* whether std::thread's constructor may throw: TRUE, FALSE
  NoFile          \* no file

BatchFiles(b) == {b[i] : i \in DOMAIN b}

ASSUME PipelineAssumption ==
  /\ NoFile \notin Files
  /\ Scanners # {}
  /\ \A b \in Batches :
       b \in Seq(Files) /\ b # <<>> /\ \A i, j \in DOMAIN b : b[i] = b[j] => i = j
  /\ \A b, c \in Batches : b # c => BatchFiles(b) \cap BatchFiles(c) = {}
  /\ Files = UNION {BatchFiles(b) : b \in Batches}
  /\ Lines \in [Files -> Nat]
  /\ Engines \subseteq {"PCRE2", "PCRE"} /\ ThreadFailures \subseteq BOOLEAN

VARIABLES
  main,       \* where main() is; "exited" or "aborted" at the end
  status,     \* the exit status, once there is one
  handed,     \* the containers that the traversal has pushed
  scanner,    \* where each scanner thread is
  next_file,  \* the file each scanner holds
  ml,         \* the MatchList each scanner reuses: for every match the file it was found in
  output,     \* where the output thread is
  printed,    \* the lists written to stdout
  errors,     \* the files about which an error message was written
  engine, threads_can_fail,   \* what this run has of Engines and ThreadFailures
  \* files_to_scan_queue
  files_sent, files_received, files_open, files_told,
  \* match_queue
  lists_sent, lists_received, lists_open, lists_told

files_queue == <<files_sent, files_received, files_open, files_told>>
match_queue == <<lists_sent, lists_received, lists_open, lists_told>>
main_vars == <<main, status, handed>>
scanner_vars == <<scanner, next_file, ml, errors>>
output_vars == <<output, printed>>
environment == <<engine, threads_can_fail>>
vars == <<main_vars, scanner_vars, output_vars, files_queue, match_queue, environment>>

FilesQueue == INSTANCE Channel WITH
  Consumers <- Scanners,
  sent <- files_sent, received <- files_received, open <- files_open, told <- files_told

MatchList == [file : Files, lines : Seq(Files)]

MatchQueue == INSTANCE Channel WITH
  Batches <- {<<list>> : list \in MatchList}, Consumers <- {"output"},
  sent <- lists_sent, received <- lists_received, open <- lists_open, told <- lists_told

Init ==
  /\ FilesQueue!Init /\ MatchQueue!Init
  /\ main = "start"
  /\ status = 0
  /\ handed = {}
  /\ scanner = [s \in Scanners |-> "unborn"]
  /\ next_file = [s \in Scanners |-> NoFile]
  /\ ml = [s \in Scanners |-> <<>>]
  /\ output = "unborn"
  /\ printed = <<>>
  /\ errors = {}
  /\ engine \in Engines /\ threads_can_fail \in ThreadFailures

-----------------------------------------------------------------------------
(* main()                                                                   *)

\* An exception before any thread runs: in the command line, the pattern, or the start of the
\* output thread.
StartUpFails ==
  /\ main = "start"
  /\ main' = "exited"
  /\ status' = 255
  /\ UNCHANGED <<handed, scanner_vars, output_vars, files_queue, match_queue>>

StartOutput ==
  /\ main = "start"
  /\ main' = "start_scanners"
  /\ output' = "pull"
  /\ UNCHANGED <<status, handed, scanner_vars, printed, files_queue, match_queue>>

StartScanner(s) ==
  /\ main = "start_scanners"
  /\ scanner[s] = "unborn"
  /\ scanner' = [scanner EXCEPT ![s] = "pull"]
  /\ main' = IF \A t \in Scanners \ {s} : scanner[t] # "unborn" THEN "traverse" ELSE main
  /\ UNCHANGED <<status, handed, next_file, ml, errors, output_vars, files_queue, match_queue>>

\* A scanner or traversal thread cannot be created.  The exception unwinds the frame that owns
\* the threads already running, and destroying a joinable std::thread calls std::terminate.
ThreadFails ==
  /\ threads_can_fail
  /\ main \in {"start_scanners", "traverse"}
  /\ main' = "aborted"
  /\ UNCHANGED <<status, handed, scanner_vars, output_vars, files_queue, match_queue>>

\* globber.Run(): a traversal thread pushes the files of one directory.
Traverse(b) ==
  /\ main = "traverse"
  /\ b \notin handed
  /\ handed' = handed \cup {b}
  /\ FilesQueue!Send(b)
  /\ UNCHANGED <<main, status, scanner_vars, output_vars, match_queue>>

CloseFiles ==
  /\ main = "traverse"
  /\ handed = Batches
  /\ FilesQueue!Close
  /\ main' = "join_scanners"
  /\ UNCHANGED <<status, handed, scanner_vars, output_vars, match_queue>>

\* Mutant: match_queue is closed without joining the scanners.
CloseMatches_unjoined ==
  /\ main = "join_scanners"
  /\ MatchQueue!Close
  /\ main' = "join_output"
  /\ UNCHANGED <<status, handed, scanner_vars, output_vars, files_queue>>

CloseMatches ==
  /\ main = "join_scanners"
  /\ \A s \in Scanners : scanner[s] = "done"
  /\ MatchQueue!Close
  /\ main' = "join_output"
  /\ UNCHANGED <<status, handed, scanner_vars, output_vars, files_queue>>

\* m_total_matched_lines counts the matches of the printed lists.
TotalMatchedLines ==
  LET sum[n \in 0..Len(printed)] == IF n = 0 THEN 0 ELSE sum[n - 1] + Len(printed[n].lines)
  IN  sum[Len(printed)]

\* Mutant: main() does not wait for the output thread.
JoinOutput_detached ==
  /\ main = "join_output"
  /\ main' = "exited"
  /\ status' = IF TotalMatchedLines = 0 THEN 1 ELSE 0
  /\ UNCHANGED <<handed, scanner_vars, output_vars, files_queue, match_queue>>

JoinOutput ==
  /\ main = "join_output"
  /\ output = "done"
  /\ main' = "exited"
  /\ status' = IF TotalMatchedLines = 0 THEN 1 ELSE 0
  /\ UNCHANGED <<handed, scanner_vars, output_vars, files_queue, match_queue>>

-----------------------------------------------------------------------------
(* FileScanner::Run                                                         *)

PullFile(s) ==
  /\ scanner[s] = "pull"
  /\ \/ /\ FilesQueue!Receive
        /\ next_file' = [next_file EXCEPT ![s] = files_sent[files_received + 1]]
        /\ scanner' = [scanner EXCEPT ![s] = "scan"]
     \/ /\ FilesQueue!TellClosed(s)
        /\ scanner' = [scanner EXCEPT ![s] = "done"]
        /\ UNCHANGED next_file
  /\ UNCHANGED <<main_vars, ml, errors, output_vars, match_queue>>

\* The file cannot be read: a message, and on to the next one; or it is empty.
SkipFile(s) ==
  LET f == next_file[s]
  IN  /\ scanner[s] = "scan"
      /\ f \in Unreadable \cup Empty
      /\ errors' = IF f \in Unreadable THEN errors \cup {f} ELSE errors
      /\ scanner' = [scanner EXCEPT ![s] = "pull"]
      /\ UNCHANGED <<main_vars, next_file, ml, output_vars, files_queue, match_queue>>

\* ScanFile adds the matches to ml.  With PCRE2 a match error is written to stderr and ends the
\* scan of this file; with PCRE it leaves the thread as an exception that nobody catches.
ScanFile(s) ==
  LET f == next_file[s]
      found == ml[s] \o [i \in 1..Lines[f] |-> f]
  IN  /\ scanner[s] = "scan"
      /\ f \notin Unreadable \cup Empty
      /\ ml' = [ml EXCEPT ![s] = found]
      /\ errors' = IF f \in Broken THEN errors \cup {f} ELSE errors
      /\ IF f \in Broken /\ engine = "PCRE"
         THEN main' = "aborted" /\ UNCHANGED scanner
         ELSE /\ scanner' = [scanner EXCEPT ![s] = IF found = <<>> THEN "pull" ELSE "report"]
              /\ UNCHANGED main
      /\ UNCHANGED <<status, handed, next_file, output_vars, files_queue, match_queue>>

\* Mutant: the list keeps its matches for the next file.
ReportMatches_keeps_list(s) ==
  /\ scanner[s] = "report"
  /\ IF lists_open
     THEN MatchQueue!Send(<<[file |-> next_file[s], lines |-> ml[s]]>>)
     ELSE UNCHANGED match_queue
  /\ scanner' = [scanner EXCEPT ![s] = "pull"]
  /\ UNCHANGED <<main_vars, next_file, ml, errors, output_vars, files_queue>>

\* The list gets its filename and is pushed, whatever the queue answers, then ml is cleared.
ReportMatches(s) ==
  /\ scanner[s] = "report"
  /\ IF lists_open
     THEN MatchQueue!Send(<<[file |-> next_file[s], lines |-> ml[s]]>>)
     ELSE UNCHANGED match_queue
  /\ ml' = [ml EXCEPT ![s] = <<>>]
  /\ scanner' = [scanner EXCEPT ![s] = "pull"]
  /\ UNCHANGED <<main_vars, next_file, errors, output_vars, files_queue>>

-----------------------------------------------------------------------------
(* OutputTask::Run                                                          *)

PrintList ==
  /\ output = "pull"
  /\ MatchQueue!Receive
  /\ printed' = Append(printed, lists_sent[lists_received + 1])
  /\ UNCHANGED <<main_vars, scanner_vars, output, files_queue>>

OutputDone ==
  /\ output = "pull"
  /\ MatchQueue!TellClosed("output")
  /\ output' = "done"
  /\ UNCHANGED <<main_vars, scanner_vars, printed, files_queue>>

-----------------------------------------------------------------------------

Stopped == main \in {"exited", "aborted"}

MainStep ==
  \/ StartUpFails \/ StartOutput \/ CloseFiles \/ CloseMatches \/ JoinOutput
  \/ \E s \in Scanners : StartScanner(s)
  \/ \E b \in Batches : Traverse(b)
ScannerStep(s) == PullFile(s) \/ SkipFile(s) \/ ScanFile(s) \/ ReportMatches(s)
OutputStep == PrintList \/ OutputDone

Next ==
  \/ /\ ~Stopped
     /\ MainStep \/ ThreadFails \/ (\E s \in Scanners : ScannerStep(s)) \/ OutputStep
     /\ UNCHANGED environment
  \/ Stopped /\ UNCHANGED vars

\* Each thread that can run is eventually run, the traversal (which terminates: DirTree) too.
Fairness ==
  /\ WF_vars(~Stopped /\ MainStep /\ UNCHANGED environment)
  /\ \A s \in Scanners : WF_vars(~Stopped /\ ScannerStep(s) /\ UNCHANGED environment)
  /\ WF_vars(~Stopped /\ OutputStep /\ UNCHANGED environment)

Spec == Init /\ [][Next]_vars /\ Fairness

-----------------------------------------------------------------------------
(* Properties                                                               *)

TypeOK ==
  /\ main \in {"start", "start_scanners", "traverse", "join_scanners", "join_output",
               "exited", "aborted"}
  /\ status \in {0, 1, 255}
  /\ handed \subseteq Batches
  /\ scanner \in [Scanners -> {"unborn", "pull", "scan", "report", "done"}]
  /\ next_file \in [Scanners -> Files \cup {NoFile}]
  /\ ml \in [Scanners -> Seq(Files)]
  /\ output \in {"unborn", "pull", "done"}
  /\ printed \in Seq(MatchList)
  /\ errors \subseteq Files
  /\ files_sent \in Seq(Files) /\ files_received \in 0..Len(files_sent)
  /\ lists_sent \in Seq(MatchList) /\ lists_received \in 0..Len(lists_sent)
  /\ files_open \in BOOLEAN /\ lists_open \in BOOLEAN
  /\ files_told \subseteq Scanners /\ lists_told \subseteq {"output"}

\* main() leaves its frame, and with it destroys the queues and the thread objects, only when no
\* thread is left that could still use them (main.cpp:107-120).
NoThreadOutlivesMain ==
  main = "exited" =>
    /\ output # "pull"
    /\ \A s \in Scanners : scanner[s] \in {"unborn", "done"}

\* match_queue is closed only when no scanner can push any more, so no MatchList is refused.
NoMatchListRefused == ~lists_open => \A s \in Scanners : scanner[s] = "done" /\ ml[s] = <<>>

Result(f) == [i \in 1..Lines[f] |-> f]

\* What the traversal hands over reaches stdout at most once, as a whole and with the matches of
\* that file (a scanner reuses its MatchList, and any of them may take a file or push a list).
PrintedOnce ==
  /\ \A i \in DOMAIN printed : printed[i].lines = Result(printed[i].file)
  /\ \A i, j \in DOMAIN printed : printed[i].file = printed[j].file => i = j

SearchImpl == INSTANCE Search WITH
  Results <- [f \in {g \in Files \ (Unreadable \cup Empty) : Lines[g] > 0} |-> Result(f)],
  may_abort <- threads_can_fail \/ (engine = "PCRE" /\ Broken # {}),
  shown <- printed,
  exit <- CASE main = "aborted" -> "aborted"
            [] main = "exited" /\ status = 0 -> "match"
            [] main = "exited" /\ status = 1 -> "nomatch"
            [] main = "exited" /\ status = 255 -> "failed"
            [] OTHER -> "running"

\* The whole pipeline is one search: every file with matches is printed exactly once, with exactly
\* its own matches, the exit status agrees with what was printed, and the program ends.
ImplementsSearch == SearchImpl!Spec

\* "Exit status is 0 if any matches were found, 1 if no matches, 2 or greater on error."
\* (doc/ucg.1:153 and the --help text, src/ArgParse.cpp:100): status 1 means there was no error.
StatusOneMeansNoError == main = "exited" /\ status = 1 => errors = {}
=============================================================================
