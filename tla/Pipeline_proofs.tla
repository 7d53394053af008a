-------------------------- MODULE Pipeline_proofs --------------------------
(***************************************************************************)
(* Theorems about module Pipeline: for any files, containers, scanner      *)
(* threads and failures, main() closes and joins in an order that refuses  *)
(* no MatchList and leaves no thread behind; the pipeline is one search.  *)
(***************************************************************************)
EXTENDS Pipeline, SequenceTheorems, WellFoundedInduction, TLAPS

-----------------------------------------------------------------------------
(* The inductive invariant                                                  *)

\* A scanner at work on a file holds one.
HoldsFile == \A s \in Scanners : scanner[s] \in {"scan", "report"} => next_file[s] \in Files

\* The MatchList is empty but between ScanFile and its push; an exception out of ScanFile may
\* leave matches in it, and then the process has ended.
ListsAreEmptied ==
  main # "aborted" => \A s \in Scanners : scanner[s] # "report" => ml[s] = <<>>

\* How far main() is says which threads may be at work.
PhaseInv ==
  /\ main = "start" => output = "unborn" /\ \A s \in Scanners : scanner[s] = "unborn"
  /\ main = "join_output" => \A s \in Scanners : scanner[s] = "done"

ShutdownInv ==
  /\ TypeOK
  /\ HoldsFile
  /\ ListsAreEmptied
  /\ PhaseInv
  /\ NoThreadOutlivesMain
  /\ NoMatchListRefused

-----------------------------------------------------------------------------
\* A sequence of values that all are the same one.
LEMMA ConstantSequence ==
  ASSUME NEW S, NEW x \in S, NEW n \in Nat
  PROVE  [i \in 1..n |-> x] \in Seq(S)
OBVIOUS

THEOREM InitShutdown == Init => ShutdownInv
<1> SUFFICES ASSUME Init PROVE ShutdownInv
  OBVIOUS
<1> USE DEF Init, FilesQueue!Init, MatchQueue!Init
<1>1. TypeOK
  BY DEF TypeOK
<1>2. HoldsFile /\ ListsAreEmptied /\ PhaseInv /\ NoThreadOutlivesMain /\ NoMatchListRefused
  BY DEF HoldsFile, ListsAreEmptied, PhaseInv, NoThreadOutlivesMain, NoMatchListRefused
<1> QED
  BY <1>1, <1>2 DEF ShutdownInv

\* The steps of main() keep the invariant.
LEMMA MainKeeps ==
  ASSUME ShutdownInv, ~Stopped, MainStep \/ ThreadFails
  PROVE  ShutdownInv'
<1> USE DEF ShutdownInv, TypeOK, HoldsFile, ListsAreEmptied, PhaseInv, NoThreadOutlivesMain,
            NoMatchListRefused, scanner_vars, output_vars, files_queue, match_queue
<1>1. CASE StartUpFails
  BY <1>1 DEF StartUpFails
<1>2. CASE StartOutput
  BY <1>2 DEF StartOutput
<1>3. ASSUME NEW s \in Scanners, StartScanner(s)
      PROVE  ShutdownInv'
  <2>1. main' \in {"start_scanners", "traverse"} /\ lists_open
    BY <1>3 DEF StartScanner
  <2>2. TypeOK'
    BY <1>3 DEF StartScanner
  <2>3. \A t \in Scanners : scanner'[t] = IF t = s THEN "pull" ELSE scanner[t]
    BY <1>3 DEF StartScanner
  <2> QED
    BY <1>3, <2>1, <2>2, <2>3 DEF StartScanner
<1>4. CASE ThreadFails
  BY <1>4 DEF ThreadFails
<1>5. ASSUME NEW b \in Batches, Traverse(b)
      PROVE  ShutdownInv'
  <2>1. files_sent' \in Seq(Files) /\ files_received' \in 0..Len(files_sent')
    BY <1>5, PipelineAssumption DEF Traverse, FilesQueue!Send
  <2> QED
    BY <1>5, <2>1 DEF Traverse, FilesQueue!Send
<1>6. CASE CloseFiles
  BY <1>6 DEF CloseFiles, FilesQueue!Close
<1>7. CASE CloseMatches
  BY <1>7 DEF CloseMatches, MatchQueue!Close
<1>8. CASE JoinOutput
  BY <1>8 DEF JoinOutput
<1> QED
  BY <1>1, <1>2, <1>3, <1>4, <1>5, <1>6, <1>7, <1>8 DEF MainStep

\* The steps of a scanner thread keep it: main() is then neither before its start nor behind its join.
LEMMA ScannerKeeps ==
  ASSUME ShutdownInv, ~Stopped, NEW s \in Scanners, ScannerStep(s)
  PROVE  ShutdownInv'
<1> USE DEF ShutdownInv, TypeOK, HoldsFile, ListsAreEmptied, PhaseInv, NoThreadOutlivesMain,
            NoMatchListRefused, main_vars, output_vars, files_queue, match_queue, Stopped
<1>1. scanner[s] \in {"pull", "scan", "report"}
  BY DEF ScannerStep, PullFile, SkipFile, ScanFile, ReportMatches
<1>2. lists_open /\ main \notin {"start", "join_output", "exited", "aborted"}
  BY <1>1
<1>3. CASE PullFile(s)
  <2>1. lists_open' = lists_open /\ main' = main /\ ml' = ml
    BY <1>3 DEF PullFile
  <2>2. CASE FilesQueue!Receive /\ next_file' = [next_file EXCEPT ![s] = files_sent[files_received + 1]]
             /\ scanner' = [scanner EXCEPT ![s] = "scan"]
    <3>1. files_received + 1 \in 1..Len(files_sent)
      BY <2>2 DEF FilesQueue!Receive
    <3>2. files_sent[files_received + 1] \in Files
      BY <3>1
    <3>3. TypeOK'
      BY <1>3, <2>2, <3>1, <3>2 DEF PullFile, FilesQueue!Receive
    <3> QED
      BY <1>1, <1>2, <1>3, <2>1, <2>2, <3>2, <3>3 DEF PullFile
  <2>3. CASE FilesQueue!TellClosed(s) /\ scanner' = [scanner EXCEPT ![s] = "done"]
             /\ UNCHANGED next_file
    <3>1. TypeOK'
      BY <1>3, <2>3 DEF PullFile, FilesQueue!TellClosed
    <3> QED
      BY <1>1, <1>2, <1>3, <2>1, <2>3, <3>1 DEF PullFile
  <2> QED
    BY <1>3, <2>2, <2>3 DEF PullFile
<1>4. CASE SkipFile(s)
  <2>1. TypeOK'
    BY <1>4 DEF SkipFile
  <2> QED
    BY <1>1, <1>2, <1>4, <2>1 DEF SkipFile
<1>5. CASE ScanFile(s)
  <2> DEFINE f == next_file[s]
             matches == [i \in 1..Lines[f] |-> f]
             found == ml[s] \o matches
  <2>1. f \in Files /\ ml[s] = <<>>
    BY <1>2, <1>5 DEF ScanFile
  <2>2. found \in Seq(Files)
    <3>1. Lines[f] \in Nat
      BY <2>1, PipelineAssumption
    <3>2. matches \in Seq(Files)
      <4>1. \A n \in Nat : \A x \in Files : [i \in 1..n |-> x] \in Seq(Files)
        BY ConstantSequence
      <4> HIDE DEF ShutdownInv, TypeOK
      <4> QED
        BY <2>1, <3>1, <4>1, Zenon
    <3>3. ml[s] \in Seq(Files)
      OBVIOUS
    <3> HIDE DEF f, matches
    <3> QED
      BY <3>2, <3>3
  <2>3. ml' = [ml EXCEPT ![s] = found] /\ lists_open' = lists_open
    BY <1>5 DEF ScanFile
  <2>4. \A t \in Scanners : ml'[t] = IF t = s THEN found ELSE ml[t]
    BY <2>3
  <2>5. ml' \in [Scanners -> Seq(Files)]
    BY <2>2, <2>3
  <2>6. CASE main' = "aborted" /\ UNCHANGED scanner
    <3>1. TypeOK'
      BY <1>5, <2>1, <2>5, <2>6 DEF ScanFile
    <3> QED
      BY <1>2, <1>5, <2>3, <2>6, <3>1 DEF ScanFile
  <2>7. CASE scanner' = [scanner EXCEPT ![s] = IF found = <<>> THEN "pull" ELSE "report"]
             /\ UNCHANGED main
    <3>1. TypeOK'
      <4> HIDE DEF found
      <4> QED BY <1>5, <2>1, <2>5, <2>7 DEF ScanFile
    <3> HIDE DEF found
    <3> QED
      BY <1>1, <1>2, <1>5, <2>1, <2>3, <2>4, <2>7, <3>1 DEF ScanFile
  <2> QED
    BY <1>5, <2>6, <2>7 DEF ScanFile
<1>6. CASE ReportMatches(s)
  <2>1. next_file[s] \in Files /\ ml[s] \in Seq(Files)
    BY <1>6 DEF ReportMatches
  <2>2. lists_sent' = Append(lists_sent, [file |-> next_file[s], lines |-> ml[s]])
    BY <1>2, <1>6 DEF ReportMatches, MatchQueue!Send
  <2>3. /\ lists_sent' \in Seq(MatchList)
        /\ lists_received' = lists_received /\ lists_received' \in 0..Len(lists_sent')
    BY <1>2, <1>6, <2>1, <2>2 DEF MatchList, ReportMatches, MatchQueue!Send
  <2>4. <<>> \in Seq(Files)
    OBVIOUS
  <2>5. TypeOK'
    BY <1>2, <1>6, <2>3, <2>4 DEF ReportMatches, MatchQueue!Send
  <2> QED
    BY <1>1, <1>2, <1>6, <2>5 DEF ReportMatches, MatchQueue!Send
<1> QED
  BY <1>3, <1>4, <1>5, <1>6 DEF ScannerStep

\* So do those of the output thread.
LEMMA OutputKeeps ==
  ASSUME ShutdownInv, ~Stopped, OutputStep
  PROVE  ShutdownInv'
<1> USE DEF ShutdownInv, TypeOK, HoldsFile, ListsAreEmptied, PhaseInv, NoThreadOutlivesMain,
            NoMatchListRefused, main_vars, scanner_vars, files_queue, match_queue, Stopped
<1>1. CASE PrintList
  <2>1. lists_received + 1 \in 1..Len(lists_sent)
    BY <1>1 DEF PrintList, MatchQueue!Receive
  <2>2. lists_sent[lists_received + 1] \in MatchList
    BY <2>1
  <2>3. printed' \in Seq(MatchList)
    BY <1>1, <2>2 DEF PrintList
  <2> QED
    BY <1>1, <2>1, <2>3 DEF PrintList, MatchQueue!Receive
<1>2. CASE OutputDone
  BY <1>2 DEF OutputDone, MatchQueue!TellClosed
<1> QED
  BY <1>1, <1>2 DEF OutputStep

\* The invariant of the whole program, for any files, containers, threads, engines and failures.
THEOREM ShutdownInvariant == Spec => []ShutdownInv
<1>1. Init => ShutdownInv
  BY InitShutdown
<1>2. ShutdownInv /\ [Next]_vars => ShutdownInv'
  <2> SUFFICES ASSUME ShutdownInv, [Next]_vars PROVE ShutdownInv'
    OBVIOUS
  <2>1. CASE UNCHANGED vars
    BY <2>1 DEF ShutdownInv, TypeOK, HoldsFile, ListsAreEmptied, PhaseInv, NoThreadOutlivesMain,
                NoMatchListRefused, vars, main_vars, scanner_vars, output_vars, files_queue,
                match_queue
  <2>2. CASE ~Stopped /\ (MainStep \/ ThreadFails)
    BY <2>2, MainKeeps
  <2>3. CASE ~Stopped /\ \E s \in Scanners : ScannerStep(s)
    BY <2>3, ScannerKeeps
  <2>4. CASE ~Stopped /\ OutputStep
    BY <2>4, OutputKeeps
  <2> QED
    BY <2>1, <2>2, <2>3, <2>4 DEF Next
<1> QED
  BY <1>1, <1>2, PTL DEF Spec

\* Type correctness of the pipeline.
THEOREM PipelineTypeCorrect == Spec => []TypeOK
<1>1. ShutdownInv => TypeOK
  BY DEF ShutdownInv
<1> QED
  BY <1>1, ShutdownInvariant, PTL

\* main() destroys the queues and thread objects only when no thread is left that uses them.
THEOREM NoThreadLeft == Spec => []NoThreadOutlivesMain
<1>1. ShutdownInv => NoThreadOutlivesMain
  BY DEF ShutdownInv
<1> QED
  BY <1>1, ShutdownInvariant, PTL

\* No MatchList is pushed to a closed queue, where it would vanish.
THEOREM NothingRefused == Spec => []NoMatchListRefused
<1>1. ShutdownInv => NoMatchListRefused
  BY DEF ShutdownInv
<1> QED
  BY <1>1, ShutdownInvariant, PTL

-----------------------------------------------------------------------------
(* Every file is printed at most once                                       *)

Active(s) == scanner[s] \in {"scan", "report"}

\* The traversal hands over no file twice.
SentOnce ==
  /\ \A i, j \in DOMAIN files_sent : files_sent[i] = files_sent[j] => i = j
  /\ \A i \in DOMAIN files_sent : \E b \in handed : files_sent[i] \in BatchFiles(b)

\* What a scanner works on was pulled, and no other scanner works on it.
HeldOnce ==
  /\ \A s \in Scanners : Active(s) => \E i \in 1..files_received : next_file[s] = files_sent[i]
  /\ \A s, t \in Scanners : Active(s) /\ Active(t) /\ next_file[s] = next_file[t] => s = t

\* A MatchList that is about to be pushed holds what was found in that file.
ReportsResult == \A s \in Scanners : scanner[s] = "report" => ml[s] = Result(next_file[s])

\* A file of which a MatchList was pushed was pulled, and no scanner works on it any more.
ListsAreDone ==
  \A k \in DOMAIN lists_sent :
    /\ \E i \in 1..files_received : lists_sent[k].file = files_sent[i]
    /\ \A s \in Scanners : Active(s) => lists_sent[k].file # next_file[s]

ListsAreWhole ==
  /\ \A k \in DOMAIN lists_sent : lists_sent[k].lines = Result(lists_sent[k].file)
  /\ \A k, l \in DOMAIN lists_sent : lists_sent[k].file = lists_sent[l].file => k = l

\* The output thread has printed what it pulled.
PrintedInOrder ==
  Len(printed) = lists_received /\ \A i \in DOMAIN printed : printed[i] = lists_sent[i]

OnceInv ==
  SentOnce /\ HeldOnce /\ ReportsResult /\ ListsAreDone /\ ListsAreWhole /\ PrintedInOrder

LEMMA MainKeepsOnce ==
  ASSUME ShutdownInv, OnceInv, ~Stopped, MainStep \/ ThreadFails
  PROVE  OnceInv'
<1> USE DEF OnceInv, Active
<1>1. CASE StartUpFails \/ StartOutput \/ CloseFiles \/ CloseMatches \/ JoinOutput \/ ThreadFails
  <2>1. UNCHANGED <<scanner, next_file, ml, printed, files_sent, files_received, handed,
                    lists_sent, lists_received>>
    BY <1>1 DEF StartUpFails, StartOutput, CloseFiles, CloseMatches, JoinOutput, ThreadFails,
                FilesQueue!Close, MatchQueue!Close, scanner_vars, output_vars, files_queue,
                match_queue
  <2> QED
    BY <2>1 DEF SentOnce, HeldOnce, ReportsResult, ListsAreDone, ListsAreWhole, PrintedInOrder,
                Result
<1>2. ASSUME NEW s \in Scanners, StartScanner(s)
      PROVE  OnceInv'
  <2>1. UNCHANGED <<next_file, ml, printed, files_sent, files_received, handed, lists_sent,
                    lists_received>>
    BY <1>2 DEF StartScanner, output_vars, files_queue, match_queue
  <2>2. \A t \in Scanners : scanner'[t] = IF t = s THEN "pull" ELSE scanner[t]
    BY <1>2 DEF StartScanner, ShutdownInv, TypeOK
  <2> QED
    BY <2>1, <2>2 DEF SentOnce, HeldOnce, ReportsResult, ListsAreDone, ListsAreWhole,
                      PrintedInOrder, Result
<1>3. ASSUME NEW b \in Batches, Traverse(b)
      PROVE  OnceInv'
  <2>1. UNCHANGED <<scanner, next_file, ml, printed, files_received, lists_sent, lists_received>>
    BY <1>3 DEF Traverse, FilesQueue!Send, scanner_vars, output_vars, match_queue
  <2>2. files_sent' = files_sent \o b /\ handed' = handed \cup {b} /\ b \notin handed
    BY <1>3 DEF Traverse, FilesQueue!Send
  <2>3. /\ files_sent \in Seq(Files) /\ b \in Seq(Files)
        /\ files_received \in 0..Len(files_sent) /\ handed \subseteq Batches
    BY <1>3, PipelineAssumption DEF ShutdownInv, TypeOK
  <2>4. /\ DOMAIN files_sent' = 1..(Len(files_sent) + Len(b))
        /\ \A i \in DOMAIN files_sent : i \in DOMAIN files_sent' /\ files_sent'[i] = files_sent[i]
        /\ \A i \in DOMAIN files_sent' : i \notin DOMAIN files_sent =>
             i - Len(files_sent) \in DOMAIN b /\ files_sent'[i] = b[i - Len(files_sent)]
    BY <2>2, <2>3
  <2>5. \A i \in DOMAIN files_sent : files_sent[i] \notin BatchFiles(b)
    BY <1>3, <2>2, <2>3, PipelineAssumption DEF SentOnce
  <2>6. \A i \in DOMAIN b : b[i] \in BatchFiles(b)
    BY DEF BatchFiles
  <2>7. ASSUME NEW i \in DOMAIN files_sent', NEW j \in DOMAIN files_sent',
               files_sent'[i] = files_sent'[j]
        PROVE  i = j
    <3>1. CASE i \in DOMAIN files_sent /\ j \in DOMAIN files_sent
      BY <2>4, <2>7, <3>1 DEF SentOnce
    <3>2. CASE i \notin DOMAIN files_sent /\ j \notin DOMAIN files_sent
      <4>1. \A k, l \in DOMAIN b : b[k] = b[l] => k = l
        BY PipelineAssumption
      <4>2. i - Len(files_sent) \in DOMAIN b /\ j - Len(files_sent) \in DOMAIN b
        BY <2>4, <3>2
      <4>3. b[i - Len(files_sent)] = b[j - Len(files_sent)]
        BY <2>4, <2>7, <3>2
      <4>4. i - Len(files_sent) = j - Len(files_sent)
        BY <4>1, <4>2, <4>3
      <4>5. i \in Int /\ j \in Int /\ Len(files_sent) \in Int
        BY <2>3, <2>4
      <4> QED
        BY <4>4, <4>5
    <3> QED
      BY <2>4, <2>5, <2>6, <2>7, <3>1, <3>2
  <2>8. SentOnce'
    BY <2>2, <2>4, <2>6, <2>7 DEF SentOnce
  <2>9. \A i \in 1..files_received : files_sent'[i] = files_sent[i]
    BY <2>3, <2>4
  <2>10. HeldOnce' /\ ListsAreDone'
    BY <2>1, <2>9 DEF HeldOnce, ListsAreDone
  <2> QED
    BY <2>1, <2>8, <2>10 DEF ReportsResult, ListsAreWhole, PrintedInOrder, Result
<1> QED
  BY <1>1, <1>2, <1>3 DEF MainStep

LEMMA ScannerKeepsOnce ==
  ASSUME ShutdownInv, OnceInv, ~Stopped, NEW s \in Scanners, ScannerStep(s)
  PROVE  OnceInv'
<1> USE DEF OnceInv, Active
<1>1. /\ scanner \in [Scanners -> {"unborn", "pull", "scan", "report", "done"}]
      /\ next_file \in [Scanners -> Files \cup {NoFile}] /\ ml \in [Scanners -> Seq(Files)]
      /\ files_sent \in Seq(Files) /\ files_received \in 0..Len(files_sent)
      /\ lists_sent \in Seq(MatchList)
  BY DEF ShutdownInv, TypeOK
<1>2. UNCHANGED <<printed, handed, files_sent, lists_received>>
  BY DEF ScannerStep, PullFile, SkipFile, ScanFile, ReportMatches, FilesQueue!Receive,
         FilesQueue!TellClosed, MatchQueue!Send, main_vars, output_vars, files_queue, match_queue
<1>3. SentOnce'
  BY <1>2 DEF SentOnce
<1>4. CASE PullFile(s)
  <2>1. UNCHANGED <<ml, lists_sent>>
    BY <1>4 DEF PullFile, match_queue
  <2>2. CASE FilesQueue!Receive /\ next_file' = [next_file EXCEPT ![s] = files_sent[files_received + 1]]
             /\ scanner' = [scanner EXCEPT ![s] = "scan"]
    <3> DEFINE f == files_sent[files_received + 1]
    <3>1. files_received' = files_received + 1 /\ files_received + 1 \in DOMAIN files_sent
      BY <1>1, <2>2 DEF FilesQueue!Receive
    <3>2. \A i \in 1..files_received : i \in DOMAIN files_sent /\ files_sent[i] # f
      BY <1>1, <3>1 DEF SentOnce
    <3>3. \A t \in Scanners : /\ next_file'[t] = IF t = s THEN f ELSE next_file[t]
                              /\ scanner'[t] = IF t = s THEN "scan" ELSE scanner[t]
      BY <1>1, <2>2
    <3>4. \A i \in 1..files_received : i \in 1..files_received'
      BY <1>1, <3>1
    <3>5. files_received + 1 \in 1..files_received'
      BY <1>1, <3>1
    <3> HIDE DEF f
    <3>6. HeldOnce'
      <4>1. \A t \in Scanners : (scanner'[t] \in {"scan", "report"}) =>
              \E i \in 1..files_received' : next_file'[t] = files_sent[i]
        BY <3>3, <3>4, <3>5 DEF HeldOnce, f
      <4>2. \A t \in Scanners \ {s} : Active(t) => next_file[t] # f
        BY <3>2 DEF HeldOnce
      <4> QED
        BY <1>2, <3>3, <4>1, <4>2 DEF HeldOnce
    <3>7. ListsAreDone'
      <4>1. \A k \in DOMAIN lists_sent : lists_sent[k].file # f
        BY <3>2 DEF ListsAreDone
      <4>2. \A k \in DOMAIN lists_sent : \E i \in 1..files_received' : lists_sent[k].file = files_sent[i]
        BY <3>4 DEF ListsAreDone
      <4> QED
        BY <1>2, <2>1, <3>3, <4>1, <4>2 DEF ListsAreDone
    <3>8. ReportsResult' /\ ListsAreWhole' /\ PrintedInOrder'
      BY <1>2, <2>1, <3>3 DEF ReportsResult, ListsAreWhole, PrintedInOrder, Result
    <3> QED
      BY <1>3, <3>6, <3>7, <3>8
  <2>3. CASE FilesQueue!TellClosed(s) /\ scanner' = [scanner EXCEPT ![s] = "done"]
             /\ UNCHANGED next_file
    <3>1. files_received' = files_received
      BY <2>3 DEF FilesQueue!TellClosed
    <3>2. \A t \in Scanners : scanner'[t] = IF t = s THEN "done" ELSE scanner[t]
      BY <1>1, <2>3
    <3> QED
      BY <1>2, <1>3, <2>1, <2>3, <3>1, <3>2
      DEF HeldOnce, ReportsResult, ListsAreDone, ListsAreWhole, PrintedInOrder, Result
  <2> QED
    BY <1>4, <2>2, <2>3 DEF PullFile
<1>5. CASE SkipFile(s)
  <2>1. UNCHANGED <<ml, lists_sent, next_file, files_received>>
    BY <1>5 DEF SkipFile, match_queue, files_queue
  <2>2. \A t \in Scanners : scanner'[t] = IF t = s THEN "pull" ELSE scanner[t]
    BY <1>1, <1>5 DEF SkipFile
  <2> QED
    BY <1>2, <1>3, <2>1, <2>2
    DEF HeldOnce, ReportsResult, ListsAreDone, ListsAreWhole, PrintedInOrder, Result
<1>6. CASE ScanFile(s)
  <2> DEFINE found == ml[s] \o Result(next_file[s])
  <2>1. UNCHANGED <<lists_sent, next_file, files_received>> /\ scanner[s] = "scan"
    BY <1>6 DEF ScanFile, match_queue, files_queue
  <2>2. next_file[s] \in Files /\ ml[s] = <<>>
    BY <1>6 DEF ScanFile, ShutdownInv, HoldsFile, ListsAreEmptied, Stopped
  <2>3. Result(next_file[s]) \in Seq(Files)
    <3>1. \A n \in Nat : \A x \in Files : [i \in 1..n |-> x] \in Seq(Files)
      BY ConstantSequence
    <3> QED
      <4>1. Lines[next_file[s]] \in Nat
        BY <2>2, PipelineAssumption
      <4> QED
        BY <2>2, <3>1, <4>1, Zenon DEF Result
  <2>4. found = Result(next_file[s])
    BY <2>2, <2>3, ConcatEmptySeq
  <2>5. ml' = [ml EXCEPT ![s] = found]
    BY <1>6 DEF ScanFile, Result
  <2>6. \A t \in Scanners : ml'[t] = IF t = s THEN Result(next_file[s]) ELSE ml[t]
    BY <1>1, <2>4, <2>5
  <2>7. \E new \in {"scan", "pull", "report"} :
          \A t \in Scanners : scanner'[t] = IF t = s THEN new ELSE scanner[t]
    <3>1. CASE UNCHANGED scanner
      BY <2>1, <3>1
    <3>2. CASE ~UNCHANGED scanner
      <4>1. scanner' = [scanner EXCEPT ![s] = IF found = <<>> THEN "pull" ELSE "report"]
        BY <1>6, <3>2 DEF ScanFile, Result
      <4> HIDE DEF found
      <4> QED
        BY <1>1, <4>1
    <3> QED
      BY <3>1, <3>2
  <2>8. \A t \in Scanners : scanner'[t] \in {"scan", "report"} => Active(t)
    BY <2>1, <2>7
  <2>9. HeldOnce' /\ ListsAreDone'
    BY <1>2, <2>1, <2>8 DEF HeldOnce, ListsAreDone
  <2>10. ReportsResult'
    <3>1. \A t \in Scanners : scanner'[t] = "report" => ml'[t] = Result(next_file[t])
      BY <2>6, <2>7 DEF ReportsResult
    <3> QED
      BY <2>1, <3>1 DEF ReportsResult, Result
  <2> QED
    BY <1>2, <1>3, <2>1, <2>9, <2>10 DEF ListsAreWhole, PrintedInOrder, Result
<1>7. CASE ReportMatches(s)
  <2> DEFINE list == [file |-> next_file[s], lines |-> ml[s]]
  <2>1. UNCHANGED <<next_file, files_received>> /\ scanner[s] = "report"
    BY <1>7 DEF ReportMatches, files_queue
  <2>2. lists_open
    BY <2>1 DEF ShutdownInv, NoMatchListRefused
  <2>3. lists_sent' = Append(lists_sent, list)
    BY <1>1, <1>7, <2>2 DEF ReportMatches, MatchQueue!Send
  <2>4. \A t \in Scanners : /\ scanner'[t] = IF t = s THEN "pull" ELSE scanner[t]
                            /\ t # s => ml'[t] = ml[t]
    BY <1>1, <1>7 DEF ReportMatches
  <2>5. /\ DOMAIN lists_sent' = 1..(Len(lists_sent) + 1)
        /\ \A k \in DOMAIN lists_sent : lists_sent'[k] = lists_sent[k]
        /\ lists_sent'[Len(lists_sent) + 1] = list
        /\ DOMAIN lists_sent = 1..Len(lists_sent)
    BY <1>1, <2>3
  <2>6. \A k \in DOMAIN lists_sent' : k \in DOMAIN lists_sent \/ k = Len(lists_sent) + 1
    BY <1>1, <2>5
  <2>7. list.file = next_file[s] /\ list.lines = Result(next_file[s])
    BY <2>1 DEF ReportsResult
  <2> HIDE DEF list
  <2>8. HeldOnce'
    BY <1>2, <2>1, <2>4 DEF HeldOnce
  <2>9. ReportsResult'
    <3>1. \A t \in Scanners : scanner'[t] = "report" => ml'[t] = Result(next_file[t])
      BY <2>4 DEF ReportsResult
    <3> QED
      BY <2>1, <3>1 DEF ReportsResult, Result
  <2>10. ListsAreDone'
    <3>1. \E i \in 1..files_received : list.file = files_sent[i]
      BY <2>1, <2>7 DEF HeldOnce
    <3>2. \A t \in Scanners : scanner'[t] \in {"scan", "report"} => list.file # next_file[t]
      BY <2>1, <2>4, <2>7 DEF HeldOnce
    <3> QED
      BY <1>2, <2>1, <2>4, <2>5, <2>6, <3>1, <3>2 DEF ListsAreDone
  <2>11. ListsAreWhole'
    <3>1. \A k \in DOMAIN lists_sent : lists_sent[k].file # list.file
      BY <2>1, <2>7 DEF ListsAreDone
    <3>2. \A k \in DOMAIN lists_sent' : lists_sent'[k].lines = Result(lists_sent'[k].file)
      BY <2>5, <2>6, <2>7 DEF ListsAreWhole
    <3>3. \A k, l \in DOMAIN lists_sent' : lists_sent'[k].file = lists_sent'[l].file => k = l
      BY <2>5, <2>6, <3>1 DEF ListsAreWhole
    <3> QED
      BY <3>2, <3>3 DEF ListsAreWhole, Result
  <2>12. PrintedInOrder'
    BY <1>2, <2>5 DEF PrintedInOrder, ShutdownInv, TypeOK
  <2> QED
    BY <1>3, <2>8, <2>9, <2>10, <2>11, <2>12
<1> QED
  BY <1>4, <1>5, <1>6, <1>7 DEF ScannerStep

LEMMA OutputKeepsOnce ==
  ASSUME ShutdownInv, OnceInv, ~Stopped, OutputStep
  PROVE  OnceInv'
<1> USE DEF OnceInv
<1>1. UNCHANGED <<scanner, next_file, ml, handed, files_sent, files_received, lists_sent>>
  BY DEF OutputStep, PrintList, OutputDone, MatchQueue!Receive, MatchQueue!TellClosed, main_vars,
         scanner_vars, files_queue
<1>2. (SentOnce /\ HeldOnce /\ ReportsResult /\ ListsAreDone /\ ListsAreWhole)'
  BY <1>1 DEF SentOnce, HeldOnce, ReportsResult, ListsAreDone, ListsAreWhole, Active, Result
<1>3. CASE PrintList
  <2>1. /\ lists_received \in 0..Len(lists_sent) /\ lists_sent \in Seq(MatchList)
        /\ printed \in Seq(MatchList)
    BY DEF ShutdownInv, TypeOK
  <2>2. /\ lists_received' = lists_received + 1 /\ lists_received < Len(lists_sent)
        /\ printed' = Append(printed, lists_sent[lists_received + 1])
    BY <1>3 DEF PrintList, MatchQueue!Receive
  <2>3. PrintedInOrder'
    BY <1>1, <2>1, <2>2 DEF PrintedInOrder
  <2> QED
    BY <1>2, <2>3
<1>4. CASE OutputDone
  BY <1>1, <1>2, <1>4 DEF OutputDone, MatchQueue!TellClosed, PrintedInOrder
<1> QED
  BY <1>3, <1>4 DEF OutputStep

LEMMA InitOnce == Init => OnceInv
  BY DEF Init, FilesQueue!Init, MatchQueue!Init, OnceInv, SentOnce, HeldOnce, ReportsResult,
         ListsAreDone, ListsAreWhole, PrintedInOrder, Active

LEMMA NextOnce == ShutdownInv /\ OnceInv /\ [Next]_vars => OnceInv'
<1> SUFFICES ASSUME ShutdownInv, OnceInv, [Next]_vars PROVE OnceInv'
  OBVIOUS
<1>1. CASE UNCHANGED vars
  BY <1>1 DEF OnceInv, SentOnce, HeldOnce, ReportsResult, ListsAreDone, ListsAreWhole,
              PrintedInOrder, Active, Result, vars, main_vars, scanner_vars, output_vars,
              files_queue, match_queue
<1>2. CASE ~Stopped /\ (MainStep \/ ThreadFails)
  BY <1>2, MainKeepsOnce
<1>3. CASE ~Stopped /\ \E s \in Scanners : ScannerStep(s)
  BY <1>3, ScannerKeepsOnce
<1>4. CASE ~Stopped /\ OutputStep
  BY <1>4, OutputKeepsOnce
<1> QED
  BY <1>1, <1>2, <1>3, <1>4 DEF Next

\* Every list that is printed is whole and of a file of its own.
THEOREM EachFileOnce == Spec => []PrintedOnce
<1>1. ShutdownInv /\ OnceInv => PrintedOnce
  <2> SUFFICES ASSUME ShutdownInv, OnceInv PROVE PrintedOnce
    OBVIOUS
  <2>1. \A i \in DOMAIN printed : i \in DOMAIN lists_sent /\ printed[i] = lists_sent[i]
    BY DEF OnceInv, PrintedInOrder, ShutdownInv, TypeOK
  <2> QED
    BY <2>1 DEF OnceInv, ListsAreWhole, PrintedOnce
<1> QED
  BY <1>1, InitOnce, NextOnce, ShutdownInvariant, PTL DEF Spec

-----------------------------------------------------------------------------
(* The exit status                                                          *)

\* The smallest number of a set.
LEMMA LeastNumber ==
  ASSUME NEW S \in SUBSET Nat, S # {}
  PROVE  \E n \in S : \A m \in S : n <= m
<1> PICK R : R = {ss \in Nat \X Nat : ss[1] < ss[2]}
  OBVIOUS
<1>1. R = OpToRel(<, Nat)
  BY DEF OpToRel
<1>2. IsWellFoundedOn(R, Nat)
  BY ONLY <1>1, NatLessThanWellFounded
<1>3. PICK x \in S : \A y \in S : <<y, x>> \notin R
  BY <1>2, WFMin
<1>4. ASSUME NEW y \in S PROVE ~(y < x)
  <2>1. <<y, x>> \in Nat \X Nat /\ <<y, x>>[1] = y /\ <<y, x>>[2] = x
    OBVIOUS
  <2> QED
    BY <1>3, <2>1
<1> QED
  BY <1>4

\* The recursion of TotalMatchedLines, as far as the n-th list.
SumsUpTo(g, n) ==
  /\ g \in [0..n -> Nat] /\ g[0] = 0
  /\ \A m \in 1..n : g[m] = g[m - 1] + Len(printed[m].lines) /\ g[m] # 0

LEMMA SomeSum ==
  ASSUME \A m \in 1..Len(printed) : Len(printed[m].lines) \in Nat \ {0},
         Len(printed) \in Nat
  PROVE  \E g : SumsUpTo(g, Len(printed))
<1> DEFINE without == {n \in 0..Len(printed) : ~\E g : SumsUpTo(g, n)}
<1>1. SUFFICES ASSUME without # {} PROVE FALSE
  OBVIOUS
<1>2. PICK n \in without : \A m \in without : n <= m
  <2>1. without \in SUBSET Nat
    OBVIOUS
  <2> HIDE DEF without
  <2> QED
    BY <1>1, <2>1, LeastNumber
<1>3. n \in 0..Len(printed) /\ ~\E g : SumsUpTo(g, n)
  OBVIOUS
<1>4. CASE n = 0
  <2>1. SumsUpTo([m \in 0..0 |-> 0], 0)
    BY DEF SumsUpTo
  <2> QED
    BY <1>3, <1>4, <2>1
<1>5. CASE n # 0
  <2>1. n - 1 \in 0..Len(printed) /\ ~(n <= n - 1) /\ n \in 1..Len(printed) /\ n - 1 \in Nat
    BY <1>3, <1>5
  <2>2. PICK g : SumsUpTo(g, n - 1)
    BY <1>2, <2>1
  <2>3. g[n - 1] \in Nat
    BY <2>1, <2>2 DEF SumsUpTo
  <2>4. PICK h : h = [m \in 0..n |-> IF m = n THEN g[n - 1] + Len(printed[n].lines) ELSE g[m]]
    OBVIOUS
  <2>5. h \in [0..n -> Nat] /\ \A m \in 0..(n - 1) : h[m] = g[m]
    <3>1. g[n - 1] + Len(printed[n].lines) \in Nat
      BY <2>1, <2>3
    <3>2. \A m \in 0..n : m = n \/ m \in 0..(n - 1)
      BY <2>1
    <3>3. \A m \in 0..(n - 1) : m # n /\ m \in 0..n /\ g[m] \in Nat
      BY <2>1, <2>2 DEF SumsUpTo
    <3> QED
      BY <2>4, <3>1, <3>2, <3>3
  <2>6. h[n] = h[n - 1] + Len(printed[n].lines) /\ h[n] \in Nat \ {0}
    <3>1. Len(printed[n].lines) \in Nat \ {0} /\ h[n - 1] = g[n - 1] /\ n \in 0..n
      BY <2>1, <2>5
    <3>2. h[n] = g[n - 1] + Len(printed[n].lines)
      BY <2>4, <3>1
    <3> QED
      BY <2>3, <3>1, <3>2
  <2>7. h[0] = 0 /\ \A m \in 1..(n - 1) : h[m] = h[m - 1] + Len(printed[m].lines) /\ h[m] # 0
    BY <2>1, <2>2, <2>5 DEF SumsUpTo
  <2>8. \A m \in 1..n : m = n \/ m \in 1..(n - 1)
    BY <2>1
  <2>9. SumsUpTo(h, n)
    BY <2>5, <2>6, <2>7, <2>8 DEF SumsUpTo
  <2> QED
    BY <1>3, <2>9
<1> QED
  BY <1>3, <1>4, <1>5

\* The exit status tells whether there was any list.
LEMMA SumIsRight ==
  ASSUME \A m \in 1..Len(printed) : Len(printed[m].lines) \in Nat \ {0},
         Len(printed) \in Nat
  PROVE  TotalMatchedLines = 0 <=> Len(printed) = 0
<1>1. PICK g : SumsUpTo(g, Len(printed))
  BY SomeSum
<1>2. PICK sum : sum = CHOOSE h : h = [n \in 0..Len(printed) |->
                          IF n = 0 THEN 0 ELSE h[n - 1] + Len(printed[n].lines)]
  OBVIOUS
<1>3. TotalMatchedLines = sum[Len(printed)]
  BY <1>2 DEF TotalMatchedLines
<1>4. \E h : h = [n \in 0..Len(printed) |-> IF n = 0 THEN 0 ELSE h[n - 1] + Len(printed[n].lines)]
  <2> DEFINE again == [n \in 0..Len(printed) |-> IF n = 0 THEN 0 ELSE g[n - 1] + Len(printed[n].lines)]
  <2>1. ASSUME NEW n \in 0..Len(printed) PROVE g[n] = again[n]
    <3>1. n = 0 \/ n \in 1..Len(printed)
      OBVIOUS
    <3> QED
      BY <1>1, <3>1 DEF SumsUpTo
  <2>2. again = [n \in 0..Len(printed) |-> g[n]]
    BY <2>1
  <2>3. g = [n \in 0..Len(printed) |-> g[n]]
    BY <1>1 DEF SumsUpTo
  <2>4. g = again
    BY <2>2, <2>3
  <2> QED
    BY <2>4
<1>5. sum = [n \in 0..Len(printed) |-> IF n = 0 THEN 0 ELSE sum[n - 1] + Len(printed[n].lines)]
  BY <1>2, <1>4
<1> DEFINE wrong == {n \in 0..Len(printed) : sum[n] # g[n]}
<1>6. ASSUME wrong # {} PROVE FALSE
  <2>1. PICK n \in wrong : \A m \in wrong : n <= m
    <3>1. wrong \in SUBSET Nat
      OBVIOUS
    <3> HIDE DEF wrong
    <3> QED
      BY <1>6, <3>1, LeastNumber
  <2>2. n \in 0..Len(printed) /\ sum[n] # g[n]
    OBVIOUS
  <2>3. n # 0
    BY <1>1, <1>5, <2>2 DEF SumsUpTo
  <2>4. n - 1 \in 0..Len(printed) /\ ~(n <= n - 1) /\ n \in 1..Len(printed)
    BY <2>2, <2>3
  <2>5. sum[n - 1] = g[n - 1]
    BY <2>1, <2>4
  <2>6. sum[n] = sum[n - 1] + Len(printed[n].lines)
    BY <1>5, <2>2, <2>3
  <2>7. g[n] = g[n - 1] + Len(printed[n].lines)
    BY <1>1, <2>4 DEF SumsUpTo
  <2> QED
    BY <2>2, <2>5, <2>6, <2>7
<1>7. Len(printed) \in 0..Len(printed)
  OBVIOUS
<1>8. TotalMatchedLines = g[Len(printed)]
  BY <1>3, <1>6, <1>7
<1>9. CASE Len(printed) = 0
  BY <1>1, <1>8, <1>9 DEF SumsUpTo
<1>10. CASE Len(printed) # 0
  <2>1. Len(printed) \in 1..Len(printed)
    BY <1>10
  <2> QED
    BY <1>1, <1>8, <1>10, <2>1 DEF SumsUpTo
<1> QED
  BY <1>9, <1>10

-----------------------------------------------------------------------------
(* The pipeline is one search                                               *)

HasResult(f) == f \notin Unreadable \cup Empty /\ Lines[f] > 0

\* A list holds matches.
ListsHaveMatches ==
  /\ \A s \in Scanners : scanner[s] = "report" => HasResult(next_file[s])
  /\ \A k \in DOMAIN lists_sent : HasResult(lists_sent[k].file)

\* A file with matches is in a scanner's hands from the pull until its list is sent.
NoneLost ==
  /\ \A b \in handed : \A f \in BatchFiles(b) : \E i \in DOMAIN files_sent : files_sent[i] = f
  /\ \A i \in 1..files_received :
       HasResult(files_sent[i]) =>
         \/ \E s \in Scanners : Active(s) /\ next_file[s] = files_sent[i]
         \/ \E k \in DOMAIN lists_sent : lists_sent[k].file = files_sent[i]

\* A thread that has ended left nothing in its queue.
QueuesAreDrained ==
  /\ ~files_open => handed = Batches
  /\ \A s \in Scanners : scanner[s] = "done" => ~files_open /\ files_received = Len(files_sent)
  /\ output = "done" => ~lists_open /\ lists_received = Len(lists_sent)
  /\ ~lists_open => \A s \in Scanners : scanner[s] = "done"
  /\ main = "start" => printed = <<>>

DeliveryInv == ListsHaveMatches /\ NoneLost /\ QueuesAreDrained

LEMMA MainDelivers ==
  ASSUME ShutdownInv, OnceInv, DeliveryInv, ~Stopped, MainStep \/ ThreadFails
  PROVE  DeliveryInv'
<1> USE DEF DeliveryInv
<1>1. CASE StartUpFails \/ StartOutput \/ CloseFiles \/ CloseMatches \/ JoinOutput \/ ThreadFails
  <2>1. UNCHANGED <<scanner, next_file, printed, files_sent, files_received, handed,
                    lists_sent, lists_received>>
    BY <1>1 DEF StartUpFails, StartOutput, CloseFiles, CloseMatches, JoinOutput, ThreadFails,
                FilesQueue!Close, MatchQueue!Close, scanner_vars, output_vars, files_queue,
                match_queue
  <2>2. ListsHaveMatches' /\ NoneLost'
    BY <2>1 DEF ListsHaveMatches, NoneLost, HasResult, Active
  <2>3. output' = "done" => output = "done"
    BY <1>1 DEF StartUpFails, StartOutput, CloseFiles, CloseMatches, JoinOutput, ThreadFails,
                output_vars
  <2>4. (~files_open' => ~files_open \/ handed = Batches) /\ (~files_open => ~files_open')
    BY <1>1 DEF StartUpFails, StartOutput, CloseFiles, CloseMatches, JoinOutput, ThreadFails,
                FilesQueue!Close, files_queue
  <2>5. /\ ~lists_open' => ~lists_open \/ \A s \in Scanners : scanner[s] = "done"
        /\ ~lists_open => ~lists_open'
    BY <1>1 DEF StartUpFails, StartOutput, CloseFiles, CloseMatches, JoinOutput, ThreadFails,
                MatchQueue!Close, match_queue
  <2>6. main' # "start"
    BY <1>1 DEF StartUpFails, StartOutput, CloseFiles, CloseMatches, JoinOutput, ThreadFails
  <2> QED
    BY <2>1, <2>2, <2>3, <2>4, <2>5, <2>6 DEF QueuesAreDrained
<1>2. ASSUME NEW s \in Scanners, StartScanner(s)
      PROVE  DeliveryInv'
  <2>1. UNCHANGED <<next_file, printed, output, files_queue, handed, match_queue>> /\ main' # "start"
    BY <1>2 DEF StartScanner, output_vars
  <2>2. scanner[s] = "unborn" /\ \A t \in Scanners : scanner'[t] = IF t = s THEN "pull" ELSE scanner[t]
    BY <1>2 DEF StartScanner, ShutdownInv, TypeOK
  <2> QED
    BY <2>1, <2>2 DEF ListsHaveMatches, NoneLost, QueuesAreDrained, HasResult, Active, files_queue,
                      match_queue
<1>3. ASSUME NEW b \in Batches, Traverse(b)
      PROVE  DeliveryInv'
  <2>1. UNCHANGED <<main, scanner, next_file, output, printed, files_received, match_queue>>
    BY <1>3 DEF Traverse, FilesQueue!Send, scanner_vars, output_vars
  <2>2. /\ files_sent' = files_sent \o b /\ handed' = handed \cup {b}
        /\ files_open /\ files_open' = files_open
    BY <1>3 DEF Traverse, FilesQueue!Send
  <2>3. /\ files_sent \in Seq(Files) /\ b \in Seq(Files)
        /\ files_received \in 0..Len(files_sent)
    BY <1>3, PipelineAssumption DEF ShutdownInv, TypeOK
  <2>4. /\ \A i \in DOMAIN files_sent : i \in DOMAIN files_sent' /\ files_sent'[i] = files_sent[i]
        /\ \A i \in DOMAIN b : /\ i + Len(files_sent) \in DOMAIN files_sent'
                               /\ files_sent'[i + Len(files_sent)] = b[i]
        /\ \A i \in 1..files_received : i \in DOMAIN files_sent
    BY <2>2, <2>3
  <2>5. ASSUME NEW c \in handed', NEW f \in BatchFiles(c)
        PROVE  \E i \in DOMAIN files_sent' : files_sent'[i] = f
    <3>1. CASE c \in handed
      BY <2>4, <2>5, <3>1 DEF NoneLost
    <3>2. CASE c = b
      BY <2>4, <2>5, <3>2 DEF BatchFiles
    <3> QED
      BY <2>2, <2>5, <3>1, <3>2
  <2>6. ListsHaveMatches'
    BY <2>1 DEF ListsHaveMatches, HasResult, match_queue
  <2>7. \A i \in 1..files_received : files_sent'[i] = files_sent[i]
    BY <2>4
  <2>8. \A c \in handed' : \A f \in BatchFiles(c) : \E i \in DOMAIN files_sent' : files_sent'[i] = f
    BY <2>5
  <2>9. NoneLost'
    BY <2>1, <2>7, <2>8 DEF NoneLost, HasResult, Active, match_queue, BatchFiles
  <2> QED
    BY <2>1, <2>2, <2>6, <2>9 DEF QueuesAreDrained, match_queue
<1> QED
  BY <1>1, <1>2, <1>3 DEF MainStep

LEMMA ScannerDelivers ==
  ASSUME ShutdownInv, OnceInv, DeliveryInv, ~Stopped, NEW s \in Scanners, ScannerStep(s)
  PROVE  DeliveryInv'
<1> USE DEF DeliveryInv
<1>1. /\ scanner \in [Scanners -> {"unborn", "pull", "scan", "report", "done"}]
      /\ next_file \in [Scanners -> Files \cup {NoFile}] /\ ml \in [Scanners -> Seq(Files)]
      /\ files_sent \in Seq(Files) /\ files_received \in 0..Len(files_sent)
      /\ lists_sent \in Seq(MatchList)
  BY DEF ShutdownInv, TypeOK
<1>2. /\ UNCHANGED <<printed, output, handed, files_sent, files_open, lists_received, lists_open>>
      /\ scanner[s] \in {"pull", "scan", "report"} /\ main # "start" /\ main' # "start"
  <2>1. scanner[s] \in {"pull", "scan", "report"}
    BY DEF ScannerStep, PullFile, SkipFile, ScanFile, ReportMatches
  <2>2. main # "start"
    BY <2>1 DEF ShutdownInv, PhaseInv
  <2> QED
    BY <2>1, <2>2
    DEF ScannerStep, PullFile, SkipFile, ScanFile, ReportMatches, FilesQueue!Receive,
        FilesQueue!TellClosed, MatchQueue!Send, main_vars, output_vars, files_queue, match_queue
<1>3. lists_open
  BY <1>2 DEF ShutdownInv, NoMatchListRefused
<1>4. CASE PullFile(s)
  <2>1. UNCHANGED lists_sent
    BY <1>4 DEF PullFile, match_queue
  <2>2. CASE FilesQueue!Receive /\ next_file' = [next_file EXCEPT ![s] = files_sent[files_received + 1]]
             /\ scanner' = [scanner EXCEPT ![s] = "scan"]
    <3>1. files_received' = files_received + 1 /\ files_received < Len(files_sent)
      BY <1>1, <2>2 DEF FilesQueue!Receive
    <3>2. \A t \in Scanners : /\ next_file'[t] = IF t = s THEN files_sent[files_received + 1] ELSE next_file[t]
                              /\ scanner'[t] = IF t = s THEN "scan" ELSE scanner[t]
      BY <1>1, <2>2
    <3>3. \A i \in 1..files_received' : i \in 1..files_received \/ i = files_received + 1
      BY <1>1, <3>1
    <3>4. scanner[s] = "pull"
      BY <1>4 DEF PullFile
    <3>5. NoneLost'
      <4>1. ASSUME NEW i \in 1..files_received', HasResult(files_sent[i])
            PROVE  \/ \E t \in Scanners : scanner'[t] \in {"scan", "report"} /\ next_file'[t] = files_sent[i]
                   \/ \E k \in DOMAIN lists_sent : lists_sent[k].file = files_sent[i]
        <5>1. CASE i \in 1..files_received
          <6>1. \/ \E t \in Scanners : Active(t) /\ next_file[t] = files_sent[i]
                \/ \E k \in DOMAIN lists_sent : lists_sent[k].file = files_sent[i]
            BY <4>1, <5>1 DEF NoneLost
          <6>2. \A t \in Scanners : Active(t) => t # s /\ scanner'[t] \in {"scan", "report"}
                                                 /\ next_file'[t] = next_file[t]
            BY <3>2, <3>4 DEF Active
          <6> QED
            BY <6>1, <6>2
        <5>2. CASE i = files_received + 1
          BY <3>2, <5>2
        <5> QED
          BY <3>3, <5>1, <5>2
      <4> QED
        BY <1>2, <2>1, <4>1 DEF NoneLost, HasResult, Active
    <3>6. ListsHaveMatches'
      BY <2>1, <3>2 DEF ListsHaveMatches, HasResult
    <3>7. \A t \in Scanners : scanner[t] # "done"
      BY <1>1, <3>1 DEF QueuesAreDrained
    <3>8. QueuesAreDrained'
      BY <1>2, <1>3, <2>1, <3>2, <3>7 DEF QueuesAreDrained
    <3> QED
      BY <3>5, <3>6, <3>8
  <2>3. CASE FilesQueue!TellClosed(s) /\ scanner' = [scanner EXCEPT ![s] = "done"]
             /\ UNCHANGED next_file
    <3>1. files_received' = files_received /\ ~files_open /\ files_received = Len(files_sent)
      BY <2>3 DEF FilesQueue!TellClosed
    <3>2. \A t \in Scanners : scanner'[t] = IF t = s THEN "done" ELSE scanner[t]
      BY <1>1, <2>3
    <3>3. scanner[s] = "pull"
      BY <1>4 DEF PullFile
    <3>4. ListsHaveMatches' /\ NoneLost'
      BY <1>2, <2>1, <2>3, <3>1, <3>2, <3>3 DEF ListsHaveMatches, NoneLost, HasResult, Active
    <3> QED
      BY <1>2, <1>3, <2>1, <3>1, <3>2, <3>4 DEF QueuesAreDrained
  <2> QED
    BY <1>4, <2>2, <2>3 DEF PullFile
<1>5. CASE SkipFile(s)
  <2>1. UNCHANGED <<lists_sent, next_file, files_received>> /\ ~HasResult(next_file[s])
    BY <1>5 DEF SkipFile, match_queue, files_queue, HasResult
  <2>2. \A t \in Scanners : scanner'[t] = IF t = s THEN "pull" ELSE scanner[t]
    BY <1>1, <1>5 DEF SkipFile
  <2>3. ListsHaveMatches' /\ NoneLost'
    BY <1>2, <2>1, <2>2 DEF ListsHaveMatches, NoneLost, HasResult, Active
  <2> QED
    BY <1>2, <1>3, <2>1, <2>2, <2>3 DEF QueuesAreDrained
<1>6. CASE ScanFile(s)
  <2>1. UNCHANGED <<lists_sent, next_file, files_received>> /\ scanner[s] = "scan"
        /\ next_file[s] \notin Unreadable \cup Empty
    BY <1>6 DEF ScanFile, match_queue, files_queue
  <2>2. next_file[s] \in Files /\ ml[s] = <<>>
    BY <1>6 DEF ScanFile, ShutdownInv, HoldsFile, ListsAreEmptied, Stopped
  <2>3. Lines[next_file[s]] \in Nat /\ Result(next_file[s]) \in Seq(Files)
    <3>1. \A n \in Nat : \A x \in Files : [i \in 1..n |-> x] \in Seq(Files)
      BY ConstantSequence
    <3>2. Lines[next_file[s]] \in Nat
      BY <2>2, PipelineAssumption
    <3>3. Result(next_file[s]) \in Seq(Files)
      BY <2>2, <3>1, <3>2, Zenon DEF Result
    <3> QED
      BY <3>2, <3>3
  <2>4. ml[s] \o Result(next_file[s]) = Result(next_file[s])
    BY <2>2, <2>3, ConcatEmptySeq
  <2>5. Result(next_file[s]) = <<>> <=> ~HasResult(next_file[s])
    <3>1. Len(Result(next_file[s])) = Lines[next_file[s]]
      BY <2>3 DEF Result
    <3> QED
      BY <2>1, <2>3, <3>1, EmptySeq DEF HasResult
  <2>6. \E new \in {"scan", "pull", "report"} :
          /\ \A t \in Scanners : scanner'[t] = IF t = s THEN new ELSE scanner[t]
          /\ new = "report" => HasResult(next_file[s])
          /\ new = "pull" => ~HasResult(next_file[s])
    <3>1. CASE UNCHANGED scanner
      BY <2>1, <3>1
    <3>2. CASE ~UNCHANGED scanner
      <4>1. scanner' = [scanner EXCEPT ![s] = IF ml[s] \o Result(next_file[s]) = <<>> THEN "pull" ELSE "report"]
        BY <1>6, <3>2 DEF ScanFile, Result
      <4>2. scanner' = [scanner EXCEPT ![s] = IF ~HasResult(next_file[s]) THEN "pull" ELSE "report"]
        BY <2>4, <2>5, <4>1
      <4> QED
        BY <1>1, <4>2
    <3> QED
      BY <3>1, <3>2
  <2>7. PICK new \in {"scan", "pull", "report"} :
          /\ \A t \in Scanners : scanner'[t] = IF t = s THEN new ELSE scanner[t]
          /\ new = "report" => HasResult(next_file[s])
          /\ new = "pull" => ~HasResult(next_file[s])
    BY <2>6
  <2>8. ListsHaveMatches'
    BY <2>1, <2>7 DEF ListsHaveMatches, HasResult
  <2>9. NoneLost'
    BY <1>2, <2>1, <2>7 DEF NoneLost, HasResult, Active
  <2> QED
    BY <1>2, <1>3, <2>1, <2>7, <2>8, <2>9 DEF QueuesAreDrained
<1>7. CASE ReportMatches(s)
  <2> DEFINE list == [file |-> next_file[s], lines |-> ml[s]]
  <2>1. UNCHANGED <<next_file, files_received>> /\ scanner[s] = "report"
    BY <1>7 DEF ReportMatches, files_queue
  <2>2. lists_sent' = Append(lists_sent, list)
    BY <1>1, <1>3, <1>7 DEF ReportMatches, MatchQueue!Send
  <2>3. \A t \in Scanners : scanner'[t] = IF t = s THEN "pull" ELSE scanner[t]
    BY <1>1, <1>7 DEF ReportMatches
  <2>4. /\ \A k \in DOMAIN lists_sent : k \in DOMAIN lists_sent' /\ lists_sent'[k] = lists_sent[k]
        /\ Len(lists_sent) + 1 \in DOMAIN lists_sent'
        /\ lists_sent'[Len(lists_sent) + 1] = list
        /\ \A k \in DOMAIN lists_sent' : k \in DOMAIN lists_sent \/ k = Len(lists_sent) + 1
    BY <1>1, <2>2
  <2>5. list.file = next_file[s]
    OBVIOUS
  <2> HIDE DEF list
  <2>6. ListsHaveMatches'
    BY <2>1, <2>3, <2>4, <2>5 DEF ListsHaveMatches, HasResult
  <2>7. NoneLost'
    <3>1. ASSUME NEW i \in 1..files_received, HasResult(files_sent[i])
          PROVE  \/ \E t \in Scanners : scanner'[t] \in {"scan", "report"} /\ next_file[t] = files_sent[i]
                 \/ \E k \in DOMAIN lists_sent' : lists_sent'[k].file = files_sent[i]
      <4>1. CASE next_file[s] = files_sent[i]
        BY <2>4, <2>5, <4>1
      <4>2. CASE \E t \in Scanners \ {s} : Active(t) /\ next_file[t] = files_sent[i]
        BY <2>3, <4>2 DEF Active
      <4>3. CASE \E k \in DOMAIN lists_sent : lists_sent[k].file = files_sent[i]
        BY <2>4, <4>3
      <4> QED
        BY <3>1, <4>1, <4>2, <4>3 DEF NoneLost
    <3> QED
      BY <1>2, <2>1, <3>1 DEF NoneLost, HasResult, Active
  <2>8. output # "done"
    BY <1>3 DEF QueuesAreDrained
  <2> QED
    BY <1>2, <1>3, <2>1, <2>3, <2>6, <2>7, <2>8 DEF QueuesAreDrained
<1> QED
  BY <1>4, <1>5, <1>6, <1>7 DEF ScannerStep

LEMMA OutputDelivers ==
  ASSUME ShutdownInv, OnceInv, DeliveryInv, ~Stopped, OutputStep
  PROVE  DeliveryInv'
<1> USE DEF DeliveryInv
<1>1. UNCHANGED <<main, scanner, next_file, handed, files_queue, lists_sent, lists_open>>
  BY DEF OutputStep, PrintList, OutputDone, MatchQueue!Receive, MatchQueue!TellClosed, main_vars,
         scanner_vars
<1>2. ListsHaveMatches' /\ NoneLost'
  BY <1>1 DEF ListsHaveMatches, NoneLost, HasResult, Active, files_queue
<1>3. main # "start"
  BY DEF ShutdownInv, PhaseInv, OutputStep, PrintList, OutputDone
<1>4. CASE PrintList
  BY <1>1, <1>2, <1>3, <1>4 DEF PrintList, QueuesAreDrained, files_queue
<1>5. CASE OutputDone
  BY <1>1, <1>2, <1>3, <1>5 DEF OutputDone, MatchQueue!TellClosed, QueuesAreDrained, files_queue
<1> QED
  BY <1>4, <1>5 DEF OutputStep

\* The steps of the pipeline that its user notices are the steps of Search.
LEMMA MainSearches ==
  ASSUME ShutdownInv, OnceInv, DeliveryInv, ~Stopped, MainStep \/ ThreadFails, UNCHANGED environment
  PROVE  [SearchImpl!Next]_SearchImpl!vars
<1> DEFINE exit == CASE main = "aborted" -> "aborted"
                     [] main = "exited" /\ status = 0 -> "match"
                     [] main = "exited" /\ status = 1 -> "nomatch"
                     [] main = "exited" /\ status = 255 -> "failed"
                     [] OTHER -> "running"
           may_abort == threads_can_fail \/ (engine = "PCRE" /\ Broken # {})
           results == [f \in {g \in Files \ (Unreadable \cup Empty) : Lines[g] > 0} |-> Result(f)]
<1>1. exit = "running" /\ may_abort' = may_abort
  BY DEF Stopped, environment
<1>2. CASE StartUpFails
  <2>1. printed = <<>> /\ printed' = printed /\ exit' = "failed"
    BY <1>2 DEF StartUpFails, DeliveryInv, QueuesAreDrained, output_vars
  <2> QED
    BY <1>1, <2>1 DEF SearchImpl!Next, SearchImpl!Fail
<1>3. CASE StartOutput \/ CloseFiles \/ CloseMatches \/ (\E s \in Scanners : StartScanner(s))
           \/ (\E b \in Batches : Traverse(b))
  <2>1. printed' = printed /\ main' \notin {"exited", "aborted"}
    BY <1>3 DEF StartOutput, CloseFiles, CloseMatches, StartScanner, Traverse, output_vars, Stopped
  <2>2. exit' = "running"
    BY <2>1
  <2> QED
    BY <1>1, <2>1, <2>2 DEF SearchImpl!vars
<1>4. CASE ThreadFails
  <2>1. printed' = printed /\ exit' = "aborted" /\ may_abort
    BY <1>4 DEF ThreadFails, output_vars
  <2> QED
    BY <1>1, <2>1 DEF SearchImpl!Next, SearchImpl!Abort
<1>5. CASE JoinOutput
  <2>1. /\ output = "done" /\ printed' = printed /\ main' = "exited"
        /\ status' = IF TotalMatchedLines = 0 THEN 1 ELSE 0
    BY <1>5 DEF JoinOutput, output_vars
  <2>2. /\ ~lists_open /\ lists_received = Len(lists_sent)
        /\ \A s \in Scanners : scanner[s] = "done"
        /\ files_received = Len(files_sent) /\ handed = Batches
    BY <2>1, PipelineAssumption DEF DeliveryInv, QueuesAreDrained
  <2>3. /\ printed \in Seq(MatchList) /\ lists_sent \in Seq(MatchList) /\ files_sent \in Seq(Files)
        /\ Len(printed) = Len(lists_sent) /\ \A i \in DOMAIN printed : printed[i] = lists_sent[i]
    BY <2>2 DEF ShutdownInv, TypeOK, OnceInv, PrintedInOrder
  <2>4. /\ Len(printed) \in Nat /\ DOMAIN printed = DOMAIN lists_sent /\ DOMAIN printed = 1..Len(printed)
        /\ DOMAIN files_sent = 1..files_received
    BY <2>2, <2>3
  <2>5. ASSUME NEW m \in 1..Len(printed) PROVE Len(printed[m].lines) \in Nat \ {0}
    <3>1. printed[m].lines = Result(printed[m].file) /\ HasResult(printed[m].file)
      BY <2>3, <2>4 DEF OnceInv, ListsAreWhole, DeliveryInv, ListsHaveMatches
    <3>2. printed[m].file \in Files
      <4>1. printed[m] \in MatchList
        BY <2>3
      <4> QED
        BY <4>1 DEF MatchList
    <3>3. Lines[printed[m].file] \in Nat \ {0}
      BY <3>1, <3>2, PipelineAssumption DEF HasResult
    <3>4. Len(Result(printed[m].file)) = Lines[printed[m].file]
      BY <3>3 DEF Result
    <3> QED
      BY <3>1, <3>3, <3>4
  <2>6. TotalMatchedLines = 0 <=> printed = <<>>
    <3>1. printed = <<>> <=> Len(printed) = 0
      BY <2>3, EmptySeq
    <3> QED
      BY <2>4, <2>5, <3>1, SumIsRight
  <2>7. exit' = IF printed = <<>> THEN "nomatch" ELSE "match"
    BY <2>1, <2>6
  <2>8. ASSUME NEW f \in DOMAIN results PROVE \E i \in DOMAIN printed : printed[i].file = f
    <3>1. f \in Files /\ HasResult(f)
      BY DEF HasResult
    <3>2. PICK b \in Batches : f \in BatchFiles(b)
      BY <3>1, PipelineAssumption
    <3>3. PICK i \in 1..files_received : files_sent[i] = f
      BY <2>2, <2>4, <3>2 DEF DeliveryInv, NoneLost
    <3>4. \E k \in DOMAIN lists_sent : lists_sent[k].file = f
      BY <2>2, <3>1, <3>3 DEF DeliveryInv, NoneLost, Active
    <3> QED
      BY <2>3, <2>4, <3>4
  <2> HIDE DEF exit, may_abort, results
  <2>9. SearchImpl!Exit
    BY <1>1, <2>1, <2>7, <2>8 DEF SearchImpl!Exit, SearchImpl!Shown, exit, results
  <2> QED
    BY <1>1, <2>9 DEF SearchImpl!Next, may_abort
<1> QED
  BY <1>2, <1>3, <1>4, <1>5 DEF MainStep

LEMMA ThreadsSearch ==
  ASSUME ShutdownInv, OnceInv, DeliveryInv, ~Stopped,
         (\E s \in Scanners : ScannerStep(s)) \/ OutputStep, UNCHANGED environment
  PROVE  [SearchImpl!Next]_SearchImpl!vars
<1> DEFINE exit == CASE main = "aborted" -> "aborted"
                     [] main = "exited" /\ status = 0 -> "match"
                     [] main = "exited" /\ status = 1 -> "nomatch"
                     [] main = "exited" /\ status = 255 -> "failed"
                     [] OTHER -> "running"
           may_abort == threads_can_fail \/ (engine = "PCRE" /\ Broken # {})
           results == [f \in {g \in Files \ (Unreadable \cup Empty) : Lines[g] > 0} |-> Result(f)]
<1>1. exit = "running" /\ may_abort' = may_abort
  BY DEF Stopped, environment
<1>2. CASE UNCHANGED <<main, printed>>
  <2>1. exit' = "running"
    BY <1>2 DEF Stopped
  <2> QED
    BY <1>1, <1>2, <2>1 DEF SearchImpl!vars
<1>3. ASSUME NEW s \in Scanners, ScannerStep(s)
      PROVE  [SearchImpl!Next]_SearchImpl!vars
  <2>1. CASE ScanFile(s) /\ main' = "aborted"
    <3>1. printed' = printed /\ exit' = "aborted" 
      BY <2>1 DEF ScanFile, output_vars
    <3>2. next_file[s] \in Broken /\ engine = "PCRE"
      BY <2>1 DEF ScanFile, Stopped
    <3> QED
      BY <1>1, <3>1, <3>2 DEF SearchImpl!Next, SearchImpl!Abort
  <2>2. CASE ~(ScanFile(s) /\ main' = "aborted")
    BY <1>2, <1>3, <2>2 DEF ScannerStep, PullFile, SkipFile, ScanFile, ReportMatches, main_vars, output_vars
  <2> QED
    BY <2>1, <2>2
<1>4. CASE PrintList
  <2> DEFINE list == lists_sent[lists_received + 1]
  <2>1. /\ lists_received < Len(lists_sent) /\ UNCHANGED main_vars
        /\ printed' = Append(printed, list)
    BY <1>4 DEF PrintList, MatchQueue!Receive
  <2>2. /\ lists_received \in 0..Len(lists_sent) /\ lists_sent \in Seq(MatchList)
        /\ printed \in Seq(MatchList) /\ Len(printed) = lists_received
        /\ \A i \in DOMAIN printed : printed[i] = lists_sent[i]
    BY DEF ShutdownInv, TypeOK, OnceInv, PrintedInOrder
  <2>3. /\ lists_received + 1 \in DOMAIN lists_sent /\ list \in MatchList
        /\ \A i \in DOMAIN printed : i \in DOMAIN lists_sent /\ i # lists_received + 1
    BY <2>1, <2>2
  <2>4. HasResult(list.file) /\ list.lines = Result(list.file)
    BY <2>3 DEF DeliveryInv, ListsHaveMatches, OnceInv, ListsAreWhole
  <2>5. \A i \in DOMAIN printed : printed[i].file # list.file
    BY <2>2, <2>3 DEF OnceInv, ListsAreWhole
  <2>6. list.file \in Files /\ list = [file |-> list.file, lines |-> list.lines]
    BY <2>3 DEF MatchList
  <2>7. list.file \in DOMAIN results /\ results[list.file] = Result(list.file)
    BY <2>4, <2>6 DEF HasResult
  <2>8. exit' = exit
    BY <2>1 DEF main_vars
  <2> HIDE DEF exit, may_abort, results, list
  <2>9. list = [file |-> list.file, lines |-> results[list.file]]
    BY <2>4, <2>6, <2>7
  <2>10. SearchImpl!Show(list.file)
    BY <1>1, <2>1, <2>5, <2>8, <2>9 DEF SearchImpl!Show, SearchImpl!Shown, SearchImpl!List, exit, results
  <2>11. SearchImpl!Next
    BY <1>1, <2>7, <2>10 DEF SearchImpl!Next, may_abort, results
  <2> QED
    BY <2>11
<1>5. CASE OutputDone
  BY <1>2, <1>5 DEF OutputDone, main_vars
<1> QED
  BY <1>3, <1>4, <1>5 DEF OutputStep

\* The pipeline is one search: a step of any thread shows the whole result of one file that was not
\* shown yet, ends the program with the status that what was shown calls for when every file with
\* matches has been shown, ends it by an exception that can occur, or is not noticed.
THEOREM PipelineIsSearch == Spec => SearchImpl!Init /\ [][SearchImpl!Next]_SearchImpl!vars
<1>1. Init => SearchImpl!Init
  BY DEF Init, SearchImpl!Init
<1>2. Init => OnceInv /\ DeliveryInv
  <2>1. Init => OnceInv
    BY InitOnce
  <2>2. Init => DeliveryInv
    BY DEF Init, FilesQueue!Init, MatchQueue!Init, DeliveryInv, ListsHaveMatches, NoneLost,
           QueuesAreDrained
  <2> QED
    BY <2>1, <2>2
<1>3. ShutdownInv /\ OnceInv /\ DeliveryInv /\ [Next]_vars =>
        DeliveryInv' /\ [SearchImpl!Next]_SearchImpl!vars
  <2> SUFFICES ASSUME ShutdownInv, OnceInv, DeliveryInv, [Next]_vars
               PROVE  DeliveryInv' /\ [SearchImpl!Next]_SearchImpl!vars
    OBVIOUS
  <2>1. CASE UNCHANGED vars
    <3>1. DeliveryInv'
      BY <2>1 DEF DeliveryInv, ListsHaveMatches, NoneLost, QueuesAreDrained, HasResult, Active, vars,
                  main_vars, scanner_vars, output_vars, files_queue, match_queue
    <3>2. UNCHANGED SearchImpl!vars
      BY <2>1 DEF SearchImpl!vars, vars, main_vars, output_vars, environment
    <3> QED
      BY <3>1, <3>2
  <2>2. CASE ~Stopped /\ (MainStep \/ ThreadFails) /\ UNCHANGED environment
    BY <2>2, MainDelivers, MainSearches
  <2>3. CASE ~Stopped /\ (\E s \in Scanners : ScannerStep(s)) /\ UNCHANGED environment
    BY <2>3, ScannerDelivers, ThreadsSearch
  <2>4. CASE ~Stopped /\ OutputStep /\ UNCHANGED environment
    BY <2>4, OutputDelivers, ThreadsSearch
  <2> QED
    BY <2>1, <2>2, <2>3, <2>4 DEF Next
<1>4. ShutdownInv /\ OnceInv /\ [Next]_vars => OnceInv'
  BY NextOnce
<1> QED
  BY <1>1, <1>2, <1>3, <1>4, ShutdownInvariant, PTL DEF Spec
=============================================================================
