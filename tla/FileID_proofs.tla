--------------------------- MODULE FileID_proofs ---------------------------
(***************************************************************************)
(* Theorems about module FileID, for any tree, any number of threads and    *)
(* any failures: the bits and the mutexes, the order of the calls that take *)
(* no mutex, the descriptors, and that what the scanners learn of a file is *)
(* true.                                                                    *)
(***************************************************************************)
EXTENDS FileID, FiniteSetTheorems, SequenceTheorems, TLAPS

-----------------------------------------------------------------------------
(* The inductive invariant                                                  *)

Kinds == {"dir", "file", "other"}
Getters == {"GetPath", "GetFileType", "GetFileSize", "GetDev", "GetFileDescriptor"}
Pcs == {"check", "lock", "resolve", "append", "open", "opentemp", "stat", "publish", "read", "temp"}
Places == {"start", "paths", "switch", "traverse", "pull", "opened", "consider", "create",
           "closedir", "ask", "threw"}

Impls == [path : Seq(Files \cup {"."}), type : {Unset, StatFailed} \cup Kinds, size : Int,
          flags : BOOLEAN, fd : BOOLEAN, temp : BOOLEAN]

Frames == [op : Getters \cup {"OpenDir"}, of : Files, pc : Pcs]
Jobs == [at : Places, on : Files \cup {Nobody}, left : SUBSET Files, batch : SUBSET Files,
         entry : Files \cup {Nobody}, asked : Nat]

TypeInv ==
  /\ obj \in [Files -> Impls]
  /\ \A f \in Files : obj[f].type \in {Unset, StatFailed, TakenFor(f)}
  /\ valid \in [Files -> SUBSET Bits]
  /\ mutex \in [Files -> Threads \cup {Nobody}]
  /\ stack \in [Threads -> Seq(Frames)]
  /\ job \in [Threads -> Jobs]
  /\ dirs \subseteq Files \ {Root}
  /\ files \subseteq Files \ {Root}
  /\ done \in [Files -> [verdict : {"none", "scanned", "skipped"},
                         path : Seq(Files \cup {"."}), size : Int]]
  /\ garbage \in [Misread -> StatData]

\* The places of a call, and the ones of them at which it has the object's mutex.
PcsOf(op) ==
  CASE op = "OpenDir" -> {"temp", "resolve", "append", "opentemp"}
    [] op = "GetPath" -> {"check", "lock", "resolve", "append", "publish", "read"}
    [] op = "GetFileDescriptor" -> {"check", "lock", "resolve", "append", "open", "publish", "read"}
    [] OTHER -> {"check", "lock", "stat", "publish", "read"}

Inside == {"resolve", "append", "open", "opentemp", "stat", "publish"}
Locks(fr) == fr.op # "OpenDir" /\ fr.pc \in Inside

\* The FileIDs there are by now.
Made(f) ==
  \/ f = Root
  \/ \E n \in 1..job[Main].asked : f = StartPaths[n]
  \/ f \notin Starts /\ obj[f].flags

Bottom(t) == stack[t][Len(stack[t])]
Asks(t, op, f) == ~Idle(t) => Bottom(t).op = op /\ Bottom(t).of = f

\* A call above another is the GetPath() of the directory of the object below.
StackInv ==
  \A t \in Threads : \A n \in 1..Len(stack[t]) :
    /\ n < Len(stack[t]) =>
         /\ stack[t][n].op = "GetPath"
         /\ stack[t][n + 1].pc = "append"
         /\ stack[t][n].of = AtDir[stack[t][n + 1].of]

\* What a call at its place knows of the object.
FrameInv(fr) ==
  /\ fr.pc \in PcsOf(fr.op)
  /\ Made(fr.of)
  /\ fr.of = Root => fr.op \in {"GetPath", "OpenDir"} /\ fr.pc \in {"check", "read", "temp"}
  /\ fr.pc = "append" => ~HasPath(fr.of)
  /\ fr.pc \in {"open", "opentemp"} => HasPath(fr.of)
  /\ fr.pc = "publish" => CASE fr.op = "GetPath" -> HasPath(fr.of)
                            [] fr.op = "GetFileDescriptor" ->
                                 HasPath(fr.of) /\ obj[fr.of].fd /\ fr.of \notin unopenable
                            [] OTHER -> obj[fr.of].size = 0 => fr.of \in unstatable
  /\ fr.pc = "read" => Wants[fr.op] \in valid[fr.of]

FramesInv == \A t \in Threads : \A n \in 1..Len(stack[t]) : FrameInv(stack[t][n])

\* A call that goes on after its callee returned finds the path there.
ReturnInv == \A t \in Threads : In(t, "append") => "PATH" \in valid[AtDir[Of(t)]]

\* A mutex is held by the one call that is between its lock and its unlock.
MutexInv ==
  /\ \A t \in Threads : \A n \in 1..Len(stack[t]) :
       Locks(stack[t][n]) =>
         /\ mutex[stack[t][n].of] = t
         /\ \A m \in 1..Len(stack[t]) :
              Locks(stack[t][m]) /\ stack[t][m].of = stack[t][n].of => m = n
  /\ \A f \in Files : mutex[f] # Nobody =>
       \E n \in 1..Len(stack[mutex[f]]) :
         stack[mutex[f]][n].of = f /\ Locks(stack[mutex[f]][n])

\* What a validity bit stands for.
BitsInv ==
  /\ obj[Root].path = <<".">> /\ obj[Root].fd /\ {"FILE_DESC", "TYPE", "PATH"} \subseteq valid[Root]
  /\ \A f \in Files : "PATH" \in valid[f] => HasPath(f)
  /\ \A f \in Files \ {Root} :
       /\ "TYPE" \in valid[f] => "UUID" \in valid[f]
       /\ "FILE_DESC" \in valid[f] => f \notin unopenable
       /\ "STATINFO" \in valid[f] /\ obj[f].size = 0 => f \in unstatable
       /\ f \notin Misread => obj[f].size = 0 \/ (obj[f].size = 1 /\ f \notin unstatable)

\* A file that is there was read from a directory that is there, never from the working
\* directory itself.
MadeInv ==
  \A f \in Files \ (Starts \cup {Root}) : Made(f) => AtDir[f] # Root /\ Made(AtDir[f])

MainInv ==
  LET j == job[Main]
  IN /\ j.at \in {"start", "paths", "switch", "traverse"}
     /\ j.asked \in 0..Len(StartPaths)
     /\ j.at = "start" => j.asked = 0 /\ Idle(Main)
     /\ j.at = "paths" =>
          IF j.asked = 0 THEN Asks(Main, "OpenDir", Root)
          ELSE Asks(Main, "GetPath", StartPaths[j.asked])
     /\ j.at = "switch" =>
          /\ j.asked > 0 /\ j.on = StartPaths[j.asked]
          /\ Asks(Main, "GetFileType", j.on)
          /\ Idle(Main) => "TYPE" \in valid[j.on]
     /\ j.at = "traverse" => Idle(Main) /\ ~obj[Root].temp
     /\ j.at \in {"paths", "switch"} /\ (j.asked > 0 \/ Idle(Main)) => obj[Root].temp

WalkerInv(t) ==
  LET j == job[t]
  IN /\ j.at \in {"pull", "opened", "consider", "create", "closedir"}
     /\ j.at = "pull" <=> j.on = Nobody
     /\ j.on # Nobody =>
          /\ j.on \in Files \ {Root} /\ TakenFor(j.on) = "dir" /\ Made(j.on)
          /\ "UUID" \in valid[j.on]
          /\ j.left \subseteq Entries(j.on)
     /\ j.at \in {"pull", "closedir"} => Idle(t)
     /\ j.at \in {"opened", "consider", "create"} =>
          /\ \A f \in j.left : ~Made(f)
          /\ j.batch \subseteq Entries(j.on)
     /\ j.at = "opened" =>
          /\ Asks(t, "OpenDir", j.on)
          /\ ~Idle(t) => j.left = Entries(j.on)
     /\ j.at = "consider" => Asks(t, "GetPath", j.on)
     /\ j.at = "create" =>
          /\ Asks(t, "GetDev", j.on)
          /\ ~Idle(t) => Bottom(t).pc \in {"check", "read"}
     /\ j.at \in {"consider", "create"} =>
          /\ j.entry \in Entries(j.on) \ j.left /\ ~Made(j.entry)

ScannerInv(t) ==
  LET j == job[t]
  IN /\ j.at \in {"pull", "ask", "threw"}
     /\ j.asked \in 0..3
     /\ j.on # Nobody => j.on \in Files \ {Root} /\ TakenFor(j.on) = "file" /\ Made(j.on)
     /\ j.at \in {"pull", "threw"} => Idle(t)
     /\ j.at \in {"ask", "threw"} => j.on # Nobody
     /\ j.at = "ask" =>
          /\ j.asked = 0 => Idle(t) /\ "FILE_DESC" \notin valid[j.on]
          /\ j.asked > 0 => Asks(t, FileCalls[j.asked], j.on)
          /\ \A n \in 1..j.asked : n < j.asked \/ Idle(t) => Wants[FileCalls[n]] \in valid[j.on]
          /\ "FILE_DESC" \in valid[j.on] => obj[j.on].fd

\* A FileID is in one place: a queue, the hand of one thread, or a directory's batch.
BatchOf(t) == IF job[t].at \in {"opened", "consider", "create"} THEN job[t].batch ELSE {}

OwnerInv ==
  /\ \A t, u \in Walkers \cup Scanners : t # u /\ job[t].on = job[u].on => job[t].on = Nobody
  /\ \A d \in dirs :
       /\ TakenFor(d) = "dir" /\ Made(d) /\ "UUID" \in valid[d]
       /\ \A t \in Walkers : job[t].on # d
       /\ \A f \in Entries(d) : ~Made(f)
  /\ \A f \in files \cup UNION {BatchOf(t) : t \in Walkers} :
       /\ TakenFor(f) = "file" /\ Made(f) /\ "FILE_DESC" \notin valid[f]
       /\ \A t \in Scanners : job[t].on # f
  /\ \A t \in Walkers : BatchOf(t) \cap files = {}
  /\ job[Main].asked > 0 /\ (job[Main].at = "switch" \/ ~Idle(Main)) =>
       LET f == StartPaths[job[Main].asked]
       IN /\ f \notin dirs \cup files
          /\ "FILE_DESC" \notin valid[f]
          /\ \A t \in Walkers \cup Scanners : job[t].on # f
          /\ \A g \in Entries(f) : ~Made(g)

\* Who keeps a descriptor open.
DescriptorInv ==
  \A f \in Files \ {Root} :
    /\ obj[f].temp => \E t \in Walkers : job[t].on = f
    /\ obj[f].fd => \E t \in Scanners : job[t].on = f

IInv ==
  /\ TypeInv /\ StackInv /\ FramesInv /\ ReturnInv /\ MutexInv /\ BitsInv /\ MadeInv
  /\ MainInv /\ (\A t \in Walkers : WalkerInv(t)) /\ (\A t \in Scanners : ScannerInv(t))
  /\ OwnerInv /\ DescriptorInv

-----------------------------------------------------------------------------
(* Stacks                                                                   *)

LEMMA StackTypes ==
  ASSUME NEW s \in Seq(Frames)
  PROVE  /\ Len(s) \in Nat
         /\ \A n \in 1..Len(s) : s[n] \in Frames /\ s[n].of \in Files
<1>1. Len(s) \in Nat /\ \A n \in 1..Len(s) : s[n] \in Frames
  BY LenProperties
<1> QED
  BY <1>1 DEF Frames

\* The innermost call moves on.
LEMMA GotoShape ==
  ASSUME NEW s \in Seq(Frames), s # <<>>, NEW pc \in Pcs,
         NEW s2, s2 = [s EXCEPT ![1].pc = pc]
  PROVE  /\ s2 \in Seq(Frames) /\ s2 # <<>> /\ Len(s2) = Len(s)
         /\ s2[1] = [s[1] EXCEPT !.pc = pc] /\ s2[1] \in Frames
         /\ \A n \in 2..Len(s) : s2[n] = s[n]
<1>1. Len(s) \in Nat /\ Len(s) # 0 /\ s \in [1..Len(s) -> Frames] /\ DOMAIN s = 1..Len(s)
  BY EmptySeq, LenProperties
<1>2. 1 \in 1..Len(s) /\ s[1] \in Frames
  BY <1>1
<1>3. [s[1] EXCEPT !.pc = pc] \in Frames
  BY <1>2 DEF Frames
<1>4. s2 = [s EXCEPT ![1] = [s[1] EXCEPT !.pc = pc]]
  OBVIOUS
<1>5. s2 \in [1..Len(s) -> Frames]
  BY <1>1, <1>3, <1>4
<1>6. s2 \in Seq(Frames) /\ Len(s2) = Len(s)
  BY <1>1, <1>5, IsASeq, LenProperties
<1>7. s2 # <<>>
  BY <1>1, <1>6, EmptySeq
<1> QED
  BY <1>1, <1>2, <1>3, <1>4, <1>6, <1>7

\* The innermost call waits for a call of its own.
LEMMA PushShape ==
  ASSUME NEW s \in Seq(Frames), s # <<>>, NEW fr \in Frames, NEW top \in Frames,
         NEW s2, s2 = <<fr, top>> \o Tail(s)
  PROVE  /\ s2 \in Seq(Frames) /\ s2 # <<>> /\ Len(s2) = Len(s) + 1
         /\ s2[1] = fr /\ s2[2] = top
         /\ \A n \in 3..Len(s2) : s2[n] = s[n - 1]
<1>1. Len(s) \in Nat /\ Len(s) # 0
  BY EmptySeq, LenProperties
<1>2. Tail(s) \in Seq(Frames) /\ Len(Tail(s)) = Len(s) - 1
      /\ \A n \in 1..Len(Tail(s)) : Tail(s)[n] = s[n + 1]
  BY HeadTailProperties
<1>3. <<fr, top>> \in Seq(Frames) /\ Len(<<fr, top>>) = 2
  OBVIOUS
<1>4. s2 \in Seq(Frames) /\ Len(s2) = 2 + Len(Tail(s))
      /\ \A n \in 1..(2 + Len(Tail(s))) :
           s2[n] = IF n <= 2 THEN <<fr, top>>[n] ELSE Tail(s)[n - 2]
  BY <1>2, <1>3, ConcatProperties
<1>5. Len(s2) = Len(s) + 1 /\ s2[1] = fr /\ s2[2] = top
  BY <1>1, <1>2, <1>4
<1>6. ASSUME NEW n \in 3..Len(s2) PROVE s2[n] = s[n - 1]
  <2>1. n \in 1..(2 + Len(Tail(s))) /\ ~(n <= 2) /\ n - 2 \in 1..Len(Tail(s)) /\ (n - 2) + 1 = n - 1
    BY <1>1, <1>2, <1>5
  <2>2. s2[n] = Tail(s)[n - 2]
    BY <1>4, <2>1
  <2>3. Tail(s)[n - 2] = s[(n - 2) + 1]
    BY <1>2, <2>1
  <2> QED
    BY <2>1, <2>2, <2>3
<1>7. s2 # <<>>
  BY <1>1, <1>4, <1>5, EmptySeq
<1> QED
  BY <1>4, <1>5, <1>6, <1>7

\* The innermost call returns.
LEMMA ReturnShape ==
  ASSUME NEW s \in Seq(Frames), s # <<>>, NEW s2, s2 = Tail(s)
  PROVE  /\ s2 \in Seq(Frames) /\ Len(s2) = Len(s) - 1 /\ (s2 = <<>> <=> Len(s) = 1)
         /\ \A n \in 1..Len(s2) : s2[n] = s[n + 1]
<1>1. Len(s) \in Nat /\ Len(s) # 0
  BY EmptySeq, LenProperties
<1>2. Tail(s) \in Seq(Frames) /\ Len(Tail(s)) = Len(s) - 1
      /\ \A n \in 1..Len(Tail(s)) : Tail(s)[n] = s[n + 1]
  BY HeadTailProperties
<1>3. Len(s2) = Len(s) - 1 /\ s2 \in Seq(Frames) /\ (s2 = <<>> <=> Len(s2) = 0)
  BY <1>2, EmptySeq
<1>4. Len(s) - 1 = 0 <=> Len(s) = 1
  BY <1>1
<1> QED
  BY <1>2, <1>3, <1>4

\* A thread calls from its own code.
LEMMA CallShape ==
  ASSUME NEW s \in Seq(Frames), s = <<>>, NEW fr \in Frames,
         NEW s2, s2 = <<fr>> \o s
  PROVE  s2 \in Seq(Frames) /\ s2 # <<>> /\ Len(s2) = 1 /\ s2[1] = fr
<1>1. <<fr>> \in Seq(Frames) /\ Len(<<fr>>) = 1 /\ <<fr>>[1] = fr
  OBVIOUS
<1>2. Len(s) = 0
  BY EmptySeq
<1>3. s2 \in Seq(Frames) /\ Len(s2) = 1
      /\ \A n \in 1..1 : s2[n] = IF n <= 1 THEN <<fr>>[n] ELSE s[n - 1]
  BY <1>1, <1>2, ConcatProperties
<1> QED
  BY <1>1, <1>3, EmptySeq

-----------------------------------------------------------------------------
(* Who is inside which call                                                 *)

LEMMA FrameTypes ==
  ASSUME TypeInv, NEW t \in Threads
  PROVE  /\ stack[t] \in Seq(Frames) /\ Len(stack[t]) \in Nat
         /\ Idle(t) <=> Len(stack[t]) = 0
         /\ \A n \in 1..Len(stack[t]) : stack[t][n] \in Frames
         /\ ~Idle(t) => /\ Len(stack[t]) \in 1..Len(stack[t]) /\ 1 \in 1..Len(stack[t])
                        /\ Head(stack[t]) = stack[t][1]
  BY EmptySeq, LenProperties DEF TypeInv, Idle

\* Only GetPath() is called by another call.
LEMMA InnerCalls ==
  ASSUME IInv, NEW t \in Threads, NEW n \in 1..Len(stack[t])
  PROVE  /\ stack[t][n].op # "GetPath" => n = Len(stack[t])
         /\ n # Len(stack[t]) /\ stack[t][n].of # Root =>
              \E c \in Entries(stack[t][n].of) : Made(c)
<1>1. Len(stack[t]) \in Nat
  BY FrameTypes DEF IInv
<1>2. ASSUME n # Len(stack[t])
      PROVE  /\ stack[t][n].op = "GetPath"
             /\ stack[t][n + 1].pc = "append"
             /\ stack[t][n].of = AtDir[stack[t][n + 1].of]
             /\ n + 1 \in 1..Len(stack[t])
  BY <1>1, <1>2 DEF IInv, StackInv
<1>3. ASSUME n # Len(stack[t]), stack[t][n].of # Root
      PROVE  \E c \in Entries(stack[t][n].of) : Made(c)
  <2> DEFINE c == stack[t][n + 1].of
  <2>1. c \in Files /\ Made(c) /\ c # Root /\ stack[t][n].of = AtDir[c]
    BY <1>2, <1>3, FrameTypes DEF IInv, FramesInv, FrameInv, Frames
  <2>2. c \notin Starts
    BY <2>1, <1>3, FilesAssumption DEF Starts
  <2> QED
    BY <2>1, <2>2 DEF Entries
<1> QED
  BY <1>2, <1>3

\* The outermost call of a thread is about the object in its hand.
LEMMA OuterCalls ==
  ASSUME IInv, NEW t \in Threads, ~Idle(t)
  PROVE  LET fr == Bottom(t) IN
         /\ fr \in Frames /\ FrameInv(fr)
         /\ t = Main => /\ job[t].at \in {"paths", "switch"}
                        /\ \/ fr.op = "OpenDir" /\ fr.of = Root /\ job[t].asked = 0
                           \/ /\ fr.op \in {"GetPath", "GetFileType"}
                              /\ (fr.op = "GetFileType") => job[t].at = "switch"
                              /\ job[t].asked > 0 /\ fr.of = StartPaths[job[t].asked]
         /\ t \in Walkers => /\ fr.op \in {"OpenDir", "GetPath", "GetDev"} /\ fr.of = job[t].on
                             /\ job[t].on \in Files \ {Root} /\ TakenFor(job[t].on) = "dir"
                             /\ job[t].on # Nobody
                             /\ fr.op = "OpenDir" => job[t].left = Entries(job[t].on)
                                                    /\ job[t].at = "opened"
                             /\ fr.op = "GetPath" => job[t].at = "consider"
                             /\ fr.op = "GetDev" => job[t].at = "create"
                                                    /\ fr.pc \in {"check", "read"}
         /\ t \in Scanners => /\ job[t].asked \in 1..3 /\ fr.op = FileCalls[job[t].asked]
                              /\ job[t].at = "ask"
                              /\ fr.of = job[t].on /\ job[t].on \in Files \ {Root}
                              /\ TakenFor(job[t].on) = "file" /\ job[t].on # Nobody
<1> DEFINE fr == Bottom(t)
<1>1. fr \in Frames /\ FrameInv(fr)
  BY FrameTypes DEF IInv, FramesInv, Bottom
<1>2. ASSUME t = Main
      PROVE  /\ job[t].at \in {"paths", "switch"}
             /\ \/ fr.op = "OpenDir" /\ fr.of = Root /\ job[t].asked = 0
                \/ /\ fr.op \in {"GetPath", "GetFileType"}
                   /\ (fr.op = "GetFileType") => job[t].at = "switch"
                   /\ job[t].asked > 0 /\ fr.of = StartPaths[job[t].asked]
  <2>1. MainInv /\ job[Main].asked \in Nat
    BY <1>2 DEF IInv, TypeInv, Jobs, Threads
  <2>2. job[Main].at \in {"paths", "switch"}
    BY <2>1, <1>2 DEF MainInv
  <2>3. CASE job[Main].at = "paths"
    BY <2>1, <2>3, <1>2 DEF MainInv, Asks
  <2>4. CASE job[Main].at = "switch"
    BY <2>1, <2>4, <1>2 DEF MainInv, Asks
  <2> QED
    BY <2>2, <2>3, <2>4, <1>2
<1>3. ASSUME t \in Walkers
      PROVE  /\ fr.op \in {"OpenDir", "GetPath", "GetDev"} /\ fr.of = job[t].on
             /\ job[t].on \in Files \ {Root} /\ TakenFor(job[t].on) = "dir"
             /\ job[t].on # Nobody
             /\ fr.op = "OpenDir" => job[t].left = Entries(job[t].on)
                                    /\ job[t].at = "opened"
             /\ fr.op = "GetPath" => job[t].at = "consider"
             /\ fr.op = "GetDev" => job[t].at = "create"
                                    /\ fr.pc \in {"check", "read"}
  <2>1. WalkerInv(t)
    BY <1>3 DEF IInv
  <2>2. job[t].at \in {"opened", "consider", "create"} /\ job[t].on # Nobody
    BY <2>1 DEF WalkerInv
  <2>3. CASE job[t].at = "opened"
    BY <2>1, <2>2, <2>3 DEF WalkerInv, Asks
  <2>4. CASE job[t].at = "create"
    BY <2>1, <2>2, <2>4 DEF WalkerInv, Asks
  <2>5. CASE job[t].at = "consider"
    BY <2>1, <2>2, <2>5 DEF WalkerInv, Asks
  <2> QED
    BY <2>2, <2>3, <2>4, <2>5
<1>4. ASSUME t \in Scanners
      PROVE  /\ job[t].asked \in 1..3 /\ fr.op = FileCalls[job[t].asked]
             /\ job[t].at = "ask"
             /\ fr.of = job[t].on /\ job[t].on \in Files \ {Root}
             /\ TakenFor(job[t].on) = "file" /\ job[t].on # Nobody
  <2>1. ScannerInv(t)
    BY <1>4 DEF IInv
  <2>2. job[t].at = "ask" /\ job[t].asked \in 1..3 /\ job[t].on # Nobody
    BY <2>1 DEF ScannerInv
  <2> QED
    BY <2>1, <2>2 DEF ScannerInv, Asks
<1> QED
  BY <1>1, <1>2, <1>3, <1>4

\* Who makes which calls.
LEMMA Callers ==
  ASSUME IInv, NEW t \in Threads, NEW n \in 1..Len(stack[t])
  PROVE  LET fr == stack[t][n] IN
         /\ fr.op = "OpenDir" /\ fr.of # Root => t \in Walkers
         /\ fr.op = "GetDev" => t \in Walkers /\ fr.pc \in {"check", "read"}
         /\ fr.op = "GetFileType" => t = Main /\ fr.of = StartPaths[job[t].asked]
                                     /\ job[t].asked > 0 /\ job[t].at = "switch"
         /\ fr.op = "GetFileSize" => t \in Scanners /\ fr.of = job[t].on /\ job[t].asked = 2
                                     /\ job[t].at = "ask"
         /\ fr.op = "GetFileDescriptor" => t \in Scanners /\ fr.of = job[t].on
                                     /\ job[t].asked = 1 /\ job[t].at = "ask"
         /\ fr.op # "GetPath" => n = Len(stack[t]) /\ ~Idle(t)
<1>1. ~Idle(t) /\ Len(stack[t]) \in Nat
  BY FrameTypes DEF IInv
<1>2. CASE stack[t][n].op # "GetPath"
  <2>1. n = Len(stack[t]) /\ stack[t][n] = Bottom(t)
    BY <1>2, InnerCalls DEF Bottom
  <2>2. t \in Threads /\ Main \notin Walkers \cup Scanners /\ Walkers \cap Scanners = {}
    BY ThreadsAssumption
  <2> QED
    BY <1>1, <1>2, <2>1, <2>2, OuterCalls DEF Threads, FileCalls
<1> QED
  BY <1>2

\* While a directory is being opened no other call is about it: what is in it is not
\* there yet, and it is in the hand of one thread.
LEMMA OpeningAlone ==
  ASSUME IInv, NEW t \in Threads, NEW n \in 1..Len(stack[t]),
         NEW u \in Threads, NEW m \in 1..Len(stack[u]),
         stack[t][n].op = "OpenDir", stack[t][n].of # Root,
         stack[u][m].of = stack[t][n].of
  PROVE  u = t /\ m = n
<1> DEFINE d == stack[t][n].of
<1>1. t \in Walkers /\ n = Len(stack[t]) /\ ~Idle(t) /\ stack[t][n] = Bottom(t)
  BY Callers DEF Bottom
<1>2. d = job[t].on /\ job[t].left = Entries(d) /\ job[t].at = "opened" /\ TakenFor(d) = "dir"
      /\ d # Nobody
  BY <1>1, OuterCalls
<1>3. \A c \in Entries(d) : ~Made(c)
  BY <1>1, <1>2 DEF IInv, WalkerInv
<1>4. m = Len(stack[u]) /\ ~Idle(u) /\ stack[u][m] = Bottom(u)
  BY <1>3, InnerCalls, FrameTypes DEF Bottom, IInv
<1>5. CASE u = Main
  <2>1. job[u].asked > 0 /\ d = StartPaths[job[u].asked]
    BY <1>4, <1>5, OuterCalls
  <2> QED
    BY <2>1, <1>1, <1>2, <1>4, <1>5 DEF IInv, OwnerInv
<1>6. CASE u \in Walkers
  <2>1. job[u].on = d
    BY <1>4, <1>6, OuterCalls
  <2>2. u = t
    BY <2>1, <1>1, <1>2, <1>6 DEF IInv, OwnerInv
  <2> QED
    BY <2>2, <1>1, <1>4
<1>7. CASE u \in Scanners
  <2>1. TakenFor(d) = "file"
    BY <1>4, <1>7, OuterCalls
  <2> QED
    BY <2>1, <1>2
<1> QED
  BY <1>5, <1>6, <1>7 DEF Threads

\* At most one call at a time is past the test of an object's bits, or is opening it.
LEMMA OneInside ==
  ASSUME IInv, NEW t \in Threads, NEW n \in 1..Len(stack[t]),
         NEW u \in Threads, NEW m \in 1..Len(stack[u]),
         stack[t][n].pc \in Inside, stack[u][m].pc \in Inside,
         stack[u][m].of = stack[t][n].of
  PROVE  u = t /\ m = n
<1>1. stack[t][n].of # Root
  BY DEF IInv, FramesInv, FrameInv, Inside
<1>2. CASE stack[t][n].op = "OpenDir" \/ stack[u][m].op = "OpenDir"
  BY <1>1, <1>2, OpeningAlone
<1>3. CASE stack[t][n].op # "OpenDir" /\ stack[u][m].op # "OpenDir"
  <2>1. Locks(stack[t][n]) /\ Locks(stack[u][m])
    BY <1>3 DEF Locks
  <2>2. mutex[stack[t][n].of] = t /\ mutex[stack[u][m].of] = u
    BY <2>1 DEF IInv, MutexInv
  <2>3. u = t
    BY <2>2
  <2> QED
    BY <2>1, <2>3 DEF IInv, MutexInv
<1> QED
  BY <1>2, <1>3

-----------------------------------------------------------------------------
(* No data race                                                             *)

\* A thread about to touch a path is inside the call that resolves it, or knows it to be there.
LEMMA PathAccesses ==
  ASSUME IInv, NEW t \in Threads, NEW f \in Files
  PROVE  /\ Access("path", f) \in WritesNext(t) =>
              ~Idle(t) /\ Of(t) = f /\ In(t, "append")
         /\ Access("path", f) \in ReadsNext(t) =>
              ~Idle(t) /\ \/ Of(t) = f /\ Head(stack[t]).pc \in Inside
                          \/ HasPath(f)
<1>1. ~Idle(t) => /\ 1 \in 1..Len(stack[t]) /\ Head(stack[t]) = stack[t][1]
                  /\ stack[t][1] \in Frames /\ FrameInv(stack[t][1])
  BY FrameTypes DEF IInv, FramesInv
<1>2. Access("path", f) \in WritesNext(t) => ~Idle(t) /\ Of(t) = f /\ In(t, "append")
  BY <1>1 DEF WritesNext, Access, At, In, Of, Idle
<1>3. ASSUME Access("path", f) \in ReadsNext(t)
      PROVE  ~Idle(t) /\ ((Of(t) = f /\ Head(stack[t]).pc \in Inside) \/ HasPath(f))
  <2>1. ~Idle(t)
    BY <1>3 DEF ReadsNext, Access
  <2>2. CASE In(t, "append")
    <3>1. f = Of(t) \/ f = AtDir[Of(t)]
      BY <1>3, <2>1, <2>2 DEF ReadsNext, Access, In
    <3>2. "PATH" \in valid[AtDir[Of(t)]]
      BY <2>2 DEF IInv, ReturnInv
    <3> QED
      BY <2>1, <2>2, <3>1, <3>2 DEF IInv, BitsInv, In, Inside
  <2>3. CASE In(t, "read")
    <3>1. f = Of(t) /\ Field[Op(t)] = "path"
      BY <1>3, <2>1, <2>3 DEF ReadsNext, Access, In
    <3>2. FrameInv(Head(stack[t])) /\ Head(stack[t]) \in Frames
      BY <1>1, <2>1
    <3>3. Op(t) = "GetPath"
      BY <2>3, <3>1, <3>2 DEF Op, Field, FrameInv, PcsOf, Frames, Getters, In
    <3>4. "PATH" \in valid[f]
      BY <2>3, <3>1, <3>2, <3>3 DEF FrameInv, In, Op, Of, Wants
    <3> QED
      BY <2>1, <3>4 DEF IInv, BitsInv
  <2>4. CASE ~In(t, "append") /\ ~In(t, "read")
    <3>1. f = Of(t) /\ Head(stack[t]).pc \in {"resolve", "open", "opentemp"}
      BY <1>3, <2>1, <2>4 DEF ReadsNext, Access, In, Idle
    <3> QED
      BY <2>1, <3>1 DEF Inside
  <2> QED
    BY <2>2, <2>3, <2>4
<1> QED
  BY <1>2, <1>3

\* What a call is about to read.
LEMMA CallReads ==
  ASSUME NEW t, ~Idle(t), NEW a \in ReadsNext(t)
  PROVE  \/ a \in {Access("path", Of(t)), Access("path", AtDir[Of(t)])}
         \/ /\ Head(stack[t]).pc \in {"open", "stat", "temp"}
            /\ a \in {Access("flags", Of(t)), Access("fd", Of(t)), Access("temp", Of(t))}
         \/ /\ Head(stack[t]).pc = "stat" /\ ~obj[Of(t)].fd
            /\ a = Access("temp", AtDir[Of(t)])
         \/ Head(stack[t]).pc = "read" /\ a = Access(Field[Op(t)], Of(t))
<1>p. PICK pc : pc = Head(stack[t]).pc
  OBVIOUS
<1>i. \A x : In(t, x) <=> pc = x
  BY <1>p DEF In, Idle
<1>1. CASE pc = "resolve"
  BY <1>i, <1>1 DEF ReadsNext
<1>2. CASE pc = "append"
  BY <1>i, <1>2 DEF ReadsNext
<1>3. CASE pc = "open"
  BY <1>i, <1>p, <1>3 DEF ReadsNext
<1>4. CASE pc = "opentemp"
  BY <1>i, <1>4 DEF ReadsNext
<1>5. CASE pc = "stat"
  <2>1. ReadsNext(t) = {Access("fd", Of(t))} \cup
                         (IF obj[Of(t)].fd THEN {} ELSE {Access("temp", AtDir[Of(t)])})
    BY <1>i, <1>5 DEF ReadsNext
  <2> QED
    BY <1>p, <1>5, <2>1
<1>6. CASE pc = "temp"
  BY <1>i, <1>p, <1>6 DEF ReadsNext
<1>7. CASE pc = "read"
  BY <1>i, <1>p, <1>7 DEF ReadsNext
<1>8. CASE pc \notin {"resolve", "append", "open", "opentemp", "stat", "temp", "read"}
  <2>1. ReadsNext(t) = {}
    BY <1>i, <1>8 DEF ReadsNext
  <2> QED
    BY <2>1
<1> QED
  BY <1>1, <1>2, <1>3, <1>4, <1>5, <1>6, <1>7, <1>8

\* The thread that is about to touch any other field of a file has the file in its hand.
LEMMA OtherAccesses ==
  ASSUME IInv, NEW t \in Threads, NEW f \in Files, NEW what,
         what # "path",
         Access(what, f) \in ReadsNext(t) \cup WritesNext(t)
  PROVE  \/ t = Main /\ f = Root
         \/ t = Main /\ job[t].asked > 0 /\ f = StartPaths[job[t].asked]
              /\ (job[t].at = "switch" \/ ~Idle(t))
         \/ t \in Walkers \cup Scanners /\ f = job[t].on /\ f # Nobody
<1>0. f # Nobody /\ Main \notin Walkers \cup Scanners
  BY ThreadsAssumption
<1>1. CASE ~Idle(t)
  <2> DEFINE fr == Head(stack[t])
  <2>1. fr = stack[t][1] /\ 1 \in 1..Len(stack[t]) /\ fr \in Frames /\ FrameInv(fr)
    BY <1>1, FrameTypes DEF IInv, FramesInv
  <2>2. \/ f = fr.of /\ fr.op # "GetPath"
        \/ f = AtDir[fr.of] /\ fr.pc = "stat" /\ ~obj[fr.of].fd /\ fr.op # "GetPath"
    <3>1. CASE Access(what, f) \in ReadsNext(t)
      <4>1. /\ Access(what, f) # Access("path", fr.of) /\ Access(what, f) # Access("path", AtDir[fr.of])
            /\ \A x, g : Access(what, f) = Access(x, g) => what = x /\ f = g
        BY DEF Access
      <4>2. \/ f = fr.of /\ fr.pc \in {"open", "stat", "temp"}
            \/ f = AtDir[fr.of] /\ fr.pc = "stat" /\ ~obj[fr.of].fd
            \/ f = fr.of /\ fr.pc = "read" /\ what = Field[fr.op]
        BY <1>1, <3>1, <4>1, CallReads DEF Of, Op
      <4>3. fr.op = "GetPath" => Field[fr.op] = "path"
        BY DEF Field
      <4> QED
        BY <2>1, <4>2, <4>3, SMTT(60) DEF FrameInv, PcsOf, Frames, Getters
    <3>2. CASE Access(what, f) \in WritesNext(t)
      BY <1>1, <2>1, <3>2, SMTT(60) DEF WritesNext, Access, In, Of, Op, Field, FrameInv, PcsOf,
                                        Frames, Getters
    <3> QED
      BY <3>1, <3>2
  <2>3. fr.op # "GetPath" /\ fr = Bottom(t)
    BY <2>1, <2>2, InnerCalls DEF Bottom
  <2>4. CASE f = fr.of
    BY <1>0, <1>1, <2>3, <2>4, OuterCalls DEF Threads
  <2>5. CASE f = AtDir[fr.of] /\ fr.pc = "stat" /\ ~obj[fr.of].fd
    <3>1. fr.op \in {"GetFileType", "GetFileSize", "GetDev"}
      BY <2>1, <2>5 DEF FrameInv, PcsOf, Frames, Getters
    <3>2. CASE fr.op = "GetFileType"
      <4>1. t = Main /\ job[t].asked > 0 /\ fr.of = StartPaths[job[t].asked]
        BY <3>2, <2>1, Callers
      <4>2. job[t].asked \in DOMAIN StartPaths
        <5>1. MainInv /\ job[t].asked \in 0..Len(StartPaths)
          BY <4>1 DEF IInv, MainInv
        <5> QED
          BY <4>1, <5>1, FilesAssumption, LenProperties
      <4> QED
        BY <4>1, <4>2, <2>5, FilesAssumption
    <3>3. CASE fr.op = "GetFileSize"
      <4>1. t \in Scanners /\ fr.of = job[t].on /\ job[t].asked = 2 /\ job[t].at = "ask"
        BY <3>3, <2>1, Callers
      <4>2. "FILE_DESC" \in valid[job[t].on] /\ obj[job[t].on].fd
        BY <4>1 DEF IInv, ScannerInv, FileCalls, Wants
      <4> QED
        BY <4>1, <4>2, <2>5
    <3>4. CASE fr.op = "GetDev"
      BY <3>4, <2>1, <2>5, Callers
    <3> QED
      BY <3>1, <3>2, <3>3, <3>4
  <2> QED
    BY <2>2, <2>4, <2>5
<1>2. CASE Idle(t)
  <2>1. CASE t = Main
    <3>1. MainInv
      BY DEF IInv
    <3> QED
      BY <1>0, <1>2, <2>1, <3>1 DEF ReadsNext, WritesNext, Access, At, MainInv
  <2>2. CASE t \in Walkers
    <3>1. WalkerInv(t)
      BY <2>2 DEF IInv
    <3> QED
      BY <1>0, <1>2, <2>2, <3>1 DEF ReadsNext, WritesNext, Access, At, WalkerInv
  <2>3. CASE t \in Scanners
    <3>1. ScannerInv(t) /\ t \notin Walkers
      BY <2>3, ThreadsAssumption DEF IInv
    <3> QED
      BY <1>0, <1>2, <2>3, <3>1 DEF ReadsNext, WritesNext, Access, At, ScannerInv
  <2> QED
    BY <2>1, <2>2, <2>3 DEF Threads
<1> QED
  BY <1>1, <1>2

\* What a thread is about to touch are fields of files.
LEMMA AccessesAreOfFiles ==
  ASSUME IInv, NEW t \in Threads, NEW a \in WritesNext(t)
  PROVE  \E f \in Files : \E what : a = Access(what, f)

<1>1. CASE ~Idle(t)
  <2>1. Of(t) \in Files /\ Head(stack[t]) \in Frames
    BY <1>1, FrameTypes DEF IInv, Of, Frames
  <2> QED
    BY <1>1, <2>1 DEF WritesNext
<1>2. CASE Idle(t)
  <2>1. CASE t = Main
    <3>1. MainInv
      BY DEF IInv
    <3>2. job[t].at = "switch" => job[t].on \in Files
      <4>1. job[t].at = "switch" => job[t].asked \in 1..Len(StartPaths)
        BY <2>1, <3>1, LenProperties, FilesAssumption DEF MainInv
      <4> QED
        BY <2>1, <3>1, <4>1, FilesAssumption, LenProperties DEF MainInv
    <3> QED
      BY <1>2, <2>1, <3>1, <3>2, FilesAssumption DEF WritesNext, At, MainInv
  <2>2. CASE t \in Walkers
    <3>1. WalkerInv(t)
      BY <2>2 DEF IInv
    <3> QED
      BY <1>2, <2>2, <3>1 DEF WritesNext, At, WalkerInv
  <2>3. CASE t \in Scanners
    <3>1. ScannerInv(t)
      BY <2>3 DEF IInv
    <3> QED
      BY <1>2, <2>3, <3>1 DEF WritesNext, At, ScannerInv
  <2> QED
    BY <2>1, <2>2, <2>3 DEF Threads
<1> QED
  BY <1>1, <1>2

LEMMA NoDataRaceInv == IInv => NoDataRace
<1> SUFFICES ASSUME IInv, NEW t \in Threads, NEW u \in Threads, t # u,
                    NEW a \in WritesNext(t), a \in ReadsNext(u) \cup WritesNext(u)
             PROVE  FALSE
  BY DEF NoDataRace
<1>0. PICK f \in Files : \E what : a = Access(what, f)
  BY AccessesAreOfFiles
<1>1. PICK what : a = Access(what, f)
  BY <1>0
<1>2. CASE what = "path"
  <2>1. ~Idle(t) /\ Of(t) = f /\ In(t, "append")
    BY <1>1, <1>2, PathAccesses
  <2>2. ~Idle(u) /\ ((Of(u) = f /\ Head(stack[u]).pc \in Inside) \/ HasPath(f))
    BY <1>1, <1>2, PathAccesses DEF In, Inside
  <2>3. /\ 1 \in 1..Len(stack[t]) /\ Head(stack[t]) = stack[t][1] /\ FrameInv(stack[t][1])
        /\ 1 \in 1..Len(stack[u]) /\ Head(stack[u]) = stack[u][1]
    BY <2>1, <2>2, FrameTypes DEF IInv, FramesInv
  <2>4. ~HasPath(f)
    BY <2>1, <2>3 DEF FrameInv, In, Of
  <2> QED
    BY <2>1, <2>2, <2>3, <2>4, OneInside DEF In, Of, Inside
<1>3. CASE what # "path"
  <2> DEFINE Hand(v) == \/ v = Main /\ f = Root
                        \/ v = Main /\ job[v].asked > 0 /\ f = StartPaths[job[v].asked]
                             /\ (job[v].at = "switch" \/ ~Idle(v))
                        \/ v \in Walkers \cup Scanners /\ f = job[v].on /\ f # Nobody
  <2>1. Hand(t) /\ Hand(u)
    BY <1>1, <1>3, OtherAccesses
  <2>2. \A v \in Walkers \cup Scanners : job[v].on # Root
    BY ThreadsAssumption, FilesAssumption DEF IInv, WalkerInv, ScannerInv
  <2> QED
    BY <2>1, <2>2, ThreadsAssumption DEF IInv, OwnerInv, Threads
<1> QED
  BY <1>2, <1>3

LEMMA DescriptorsInv == IInv => DescriptorsAreBounded
<1> SUFFICES ASSUME IInv PROVE DescriptorsAreBounded
  OBVIOUS
<1>1. obj[Root].temp => job[Main].at # "traverse"
  BY DEF IInv, MainInv
<1>2. ASSUME NEW f \in Files \ {Root}, obj[f].temp
      PROVE  \E t \in Walkers : job[t].on = f /\ job[t].at # "pull"
  <2>1. PICK t \in Walkers : job[t].on = f
    BY <1>2 DEF IInv, DescriptorInv
  <2> QED
    BY <2>1, ThreadsAssumption DEF IInv, WalkerInv
<1>3. Cardinality({f \in Files \ {Root} : obj[f].fd}) <= Cardinality(Scanners)
  <2> DEFINE open == {f \in Files \ {Root} : obj[f].fd}
             On == {job[t].on : t \in Scanners}
             on == [t \in Scanners |-> job[t].on]
  <2>1. on \in Surjection(Scanners, On)
    BY DEF Surjection
  <2>2. IsFiniteSet(On) /\ Cardinality(On) <= Cardinality(Scanners)
    BY <2>1, FS_Surjection, ThreadsAssumption
  <2>3. open \subseteq On
    BY DEF IInv, DescriptorInv
  <2>4. IsFiniteSet(open) /\ Cardinality(open) <= Cardinality(On)
    BY <2>2, <2>3, FS_Subset
  <2>5. Cardinality(open) \in Nat /\ Cardinality(On) \in Nat /\ Cardinality(Scanners) \in Nat
    BY <2>2, <2>4, FS_CardinalityType, ThreadsAssumption
  <2> QED
    BY <2>2, <2>4, <2>5
<1> QED
  BY <1>1, <1>2, <1>3 DEF DescriptorsAreBounded

LEMMA TypeOKInv == IInv => TypeOK
  BY FrameTypes DEF IInv, TypeInv, MutexInv, TypeOK, Impls

-----------------------------------------------------------------------------
(* What the steps leave alone                                               *)

\* What a file is taken for: itself, but for an entry whose stat() failed unnoticed.
LEMMA TypesTaken ==
  ASSUME garbage \in [Misread -> StatData], NEW f \in Files
  PROVE  /\ TakenFor(f) \in Kinds /\ StatBuf(f).size \in Int
         /\ f \notin Misread => TakenFor(f) = Kind[f] /\ StatBuf(f).size = 1
         /\ f \in Misread => f \in unstatable /\ f \in UnknownTypes
         /\ f \in UnknownTypes /\ f \notin Misread => f \notin unstatable
<1>1. CASE f \in Misread
  <2>1. garbage[f] \in [type : {"dir", "file", "other"}, size : Int]
    BY <1>1, FilesAssumption
  <2> QED
    BY <1>1, <2>1 DEF TakenFor, StatBuf, Misread, Kinds
<1>2. CASE f \notin Misread
  BY <1>2, FilesAssumption DEF TakenFor, StatBuf, Misread, Kinds
<1> QED
  BY <1>1, <1>2

LEMMA SameTypes ==
  ASSUME UNCHANGED faults
  PROVE  /\ Misread' = Misread /\ garbage' = garbage
         /\ unstatable' = unstatable /\ unopenable' = unopenable
         /\ \A f \in Files : TakenFor(f)' = TakenFor(f)
  BY DEF faults, Misread, TakenFor, StatBuf

LEMMA InitInv == Init => IInv
<1> SUFFICES ASSUME Init PROVE IInv
  OBVIOUS
<1> USE DEF Init
<1>1. /\ \A t \in Threads : stack[t] = <<>> /\ Idle(t) /\ Len(stack[t]) = 0 /\ 1..Len(stack[t]) = {}
      /\ \A f \in Files : Impl(<<>>, Unset, 0) = NotMade /\ mutex[f] = Nobody
      /\ \A t \in Threads : job[t].on = Nobody /\ job[t].asked = 0 /\ job[t].left = {}
                            /\ job[t].batch = {}
                            /\ job[t].at = IF t = Main THEN "start" ELSE "pull"
      /\ Root \in Files
  BY EmptySeq, FilesAssumption DEF Idle, NotMade
<1>2. TypeInv
  <2>1. <<>> \in Seq(Files \cup {"."}) /\ <<".">> \in Seq(Files \cup {"."})
    OBVIOUS
  <2>2. NotMade \in Impls /\ CwdFileID \in Impls
    <3>1. NotMade \in Impls
      BY <2>1 DEF NotMade, Impls, Impl
    <3> QED
      BY <2>1, <3>1 DEF CwdFileID, Impls, Kinds
  <2>3. obj \in [Files -> Impls]
    BY <2>2
  <2>4. \A f \in Files : obj[f].type \in {Unset, StatFailed, TakenFor(f)}
    <3>1. TakenFor(Root) = "dir"
      BY FilesAssumption DEF TakenFor, StatBuf, Misread
    <3> QED
      BY <3>1, FilesAssumption DEF NotMade, CwdFileID, Impl
  <2>5. valid \in [Files -> SUBSET Bits]
    BY DEF Bits, StatBits
  <2>6. stack \in [Threads -> Seq(Frames)]
    OBVIOUS
  <2>7. job \in [Threads -> Jobs]
    BY DEF Jobs, Places
  <2>8. done \in [Files -> [verdict : {"none", "scanned", "skipped"},
                            path : Seq(Files \cup {"."}), size : Int]]
    BY <2>1 DEF Answer
  <2> QED
    BY <2>3, <2>4, <2>5, <2>6, <2>7, <2>8 DEF TypeInv
<1>3. StackInv /\ FramesInv /\ ReturnInv
  BY <1>1 DEF StackInv, FramesInv, ReturnInv, In
<1>4. MutexInv
  BY <1>1 DEF MutexInv
<1>5. BitsInv
  <2>1. \A f \in Files \ {Root} : obj[f].size = 0 /\ valid[f] = {}
    BY DEF NotMade, Impl
  <2>2. /\ obj[Root].path = <<".">> /\ obj[Root].fd /\ valid[Root] = {"FILE_DESC", "TYPE", "PATH"}
        /\ HasPath(Root)
    BY <1>1 DEF CwdFileID, NotMade, Impl, HasPath
  <2>3. \A f \in Files : "PATH" \in valid[f] => HasPath(f)
    BY <2>1, <2>2
  <2> HIDE DEF Init
  <2> QED
    BY <1>1, <2>1, <2>2, <2>3 DEF BitsInv
<1>6. Main \in Threads /\ Main \notin Walkers \cup Scanners
  BY ThreadsAssumption DEF Threads
<1>7. \A f \in Files \ {Root} : ~Made(f)
  BY <1>1, <1>6 DEF Made, NotMade, Impl
<1>8. MadeInv
  BY <1>7 DEF MadeInv
<1>9. MainInv
  <2>1. Len(StartPaths) \in Nat
    BY FilesAssumption, LenProperties
  <2> QED
    BY <1>1, <1>6, <2>1 DEF MainInv
<1>10. \A t \in Walkers : WalkerInv(t)
  BY <1>1, <1>6 DEF WalkerInv, Threads
<1>11. \A t \in Scanners : ScannerInv(t)
  BY <1>1, <1>6 DEF ScannerInv, Threads
<1>12. OwnerInv
  BY <1>1, <1>6 DEF OwnerInv, BatchOf, Threads
<1>13. DescriptorInv
  BY <1>1 DEF DescriptorInv, NotMade, Impl
<1> QED
  BY <1>2, <1>3, <1>4, <1>5, <1>8, <1>9, <1>10, <1>11, <1>12, <1>13 DEF IInv

LEMMA MadeKept ==
  ASSUME job'[Main].asked = job[Main].asked, NEW f, obj'[f].flags = obj[f].flags
  PROVE  Made(f)' <=> Made(f)
  BY DEF Made

LEMMA MainKept ==
  ASSUME MainInv, job'[Main] = job[Main], stack'[Main] = stack[Main],
         obj'[Root].temp = obj[Root].temp,
         \A f \in Files : Made(f) => valid[f] \subseteq valid'[f]
  PROVE  MainInv'
<1>1. ASSUME job[Main].at = "switch" PROVE job[Main].on \in Files /\ Made(job[Main].on)
  <2>1. Len(StartPaths) \in Nat /\ DOMAIN StartPaths = 1..Len(StartPaths)
    BY FilesAssumption, LenProperties
  <2>2. job[Main].asked \in 1..Len(StartPaths) /\ job[Main].on = StartPaths[job[Main].asked]
    BY <1>1, <2>1 DEF MainInv
  <2>3. job[Main].asked \in 1..job[Main].asked
    BY <2>1, <2>2
  <2> QED
    BY <2>1, <2>2, <2>3, FilesAssumption DEF Made
<1>2. (Idle(Main)' <=> Idle(Main)) /\ \A op, f : Asks(Main, op, f)' <=> Asks(Main, op, f)
  BY DEF Idle, Asks, Bottom
<1>3. job[Main].at = "switch" => ("TYPE" \in valid[job[Main].on] => "TYPE" \in valid'[job[Main].on])
  BY <1>1
<1> QED
  BY <1>2, <1>3 DEF MainInv

LEMMA WalkerKept ==
  ASSUME NEW t, WalkerInv(t), job'[t] = job[t], stack'[t] = stack[t],
         job[t].on # Nobody => Made(job[t].on)' /\ "UUID" \in valid'[job[t].on],
         job[t].at \in {"opened", "consider", "create"} => \A f \in job[t].left : ~Made(f)',
         job[t].at \in {"consider", "create"} => ~Made(job[t].entry)',
         UNCHANGED faults
  PROVE  WalkerInv(t)'
<1>1. (Idle(t)' <=> Idle(t)) /\ (\A op, f : Asks(t, op, f)' <=> Asks(t, op, f))
      /\ Bottom(t)' = Bottom(t)
  BY DEF Idle, Asks, Bottom
<1>2. \A f : Entries(f)' = Entries(f)
  BY DEF Entries, Starts
<1> QED
  BY <1>1, <1>2, SameTypes DEF WalkerInv

LEMMA ScannerKept ==
  ASSUME NEW t, ScannerInv(t), job'[t] = job[t], stack'[t] = stack[t],
         job[t].on # Nobody => /\ Made(job[t].on)'
                               /\ valid[job[t].on] \subseteq valid'[job[t].on]
                               /\ "FILE_DESC" \in valid'[job[t].on] => "FILE_DESC" \in valid[job[t].on]
                               /\ obj[job[t].on].fd => obj'[job[t].on].fd,
         UNCHANGED faults
  PROVE  ScannerInv(t)'
<1>1. (Idle(t)' <=> Idle(t)) /\ (\A op, f : Asks(t, op, f)' <=> Asks(t, op, f))
  BY DEF Idle, Asks, Bottom
<1> QED
  BY <1>1, SameTypes DEF ScannerInv, FileCalls, Wants

LEMMA FrameKept ==
  ASSUME NEW fr \in Frames, FrameInv(fr), UNCHANGED faults,
         Made(fr.of)', HasPath(fr.of) => HasPath(fr.of)',
         fr.pc = "append" => ~HasPath(fr.of)',
         fr.op = "GetFileDescriptor" /\ obj[fr.of].fd => obj'[fr.of].fd,
         obj'[fr.of].size = 0 => obj[fr.of].size = 0,
         valid[fr.of] \subseteq valid'[fr.of]
  PROVE  FrameInv(fr)'
  BY DEF FrameInv, faults, Wants

-----------------------------------------------------------------------------
(* The steps of a call                                                      *)

Moved(t) ==
  /\ Len(stack'[t]) = Len(stack[t])
  /\ stack'[t][1].op = stack[t][1].op /\ stack'[t][1].of = stack[t][1].of
  /\ \A n \in 2..Len(stack[t]) : stack'[t][n] = stack[t][n]

Pushed(t) ==
  /\ Len(stack'[t]) = Len(stack[t]) + 1
  /\ stack'[t][1] = Frame("GetPath", AtDir[Of(t)])
  /\ stack'[t][2].op = stack[t][1].op /\ stack'[t][2].of = stack[t][1].of
  /\ stack'[t][2].pc = "append"
  /\ \A n \in 3..Len(stack'[t]) : stack'[t][n] = stack[t][n - 1]

Returned(t) ==
  /\ Len(stack'[t]) = Len(stack[t]) - 1
  /\ \A n \in 1..Len(stack'[t]) : stack'[t][n] = stack[t][n + 1]

\* What every step of a call keeps: it changes at most the object of the innermost call,
\* and what others rely on stays.
CallEffect(t) ==
  /\ UNCHANGED <<dirs, files, done, faults>>
  /\ \A u \in Threads \ {t} : job'[u] = job[u] /\ stack'[u] = stack[u]
  /\ \/ job'[t] = job[t]
     \/ In(t, "open") /\ job'[t] = [job[t] EXCEPT !.at = "threw"] /\ Returned(t)
  /\ \A f \in Files \ {Of(t)} : obj'[f] = obj[f] /\ valid'[f] = valid[f] /\ mutex'[f] = mutex[f]
  /\ \A f \in Files :
       /\ obj'[f].flags = obj[f].flags
       /\ HasPath(f) => HasPath(f)'
       /\ obj'[f].path = obj[f].path \/ (In(t, "append") /\ f = Of(t))
       /\ obj[f].fd => obj'[f].fd
       /\ obj'[f].size = obj[f].size \/ (obj'[f].size = 1 /\ f \notin unstatable)
       /\ obj'[f].size = 0 => obj[f].size = 0
       /\ valid[f] \subseteq valid'[f]

LEMMA GotoStack ==
  ASSUME TypeInv, NEW t \in Threads, ~Idle(t), NEW pc \in Pcs, Goto(t, pc)
  PROVE  /\ stack' \in [Threads -> Seq(Frames)]
         /\ \A u \in Threads \ {t} : stack'[u] = stack[u]
         /\ Moved(t) /\ stack'[t] # <<>> /\ stack'[t][1].pc = pc /\ stack'[t][1] \in Frames
<1>1. stack'[t] = [stack[t] EXCEPT ![1].pc = pc] /\ stack[t] \in Seq(Frames) /\ stack[t] # <<>>
  BY DEF TypeInv, Goto, Idle
<1>2. /\ stack'[t] \in Seq(Frames) /\ stack'[t] # <<>> /\ Len(stack'[t]) = Len(stack[t])
      /\ stack'[t][1] = [stack[t][1] EXCEPT !.pc = pc] /\ stack'[t][1] \in Frames
      /\ \A n \in 2..Len(stack[t]) : stack'[t][n] = stack[t][n]
  BY <1>1, GotoShape
<1>3. stack[t][1] \in Frames
  BY FrameTypes
<1>4. stack' = [stack EXCEPT ![t] = stack'[t]]
  BY DEF TypeInv, Goto
<1>5. stack' \in [Threads -> Seq(Frames)] /\ \A u \in Threads \ {t} : stack'[u] = stack[u]
  BY <1>2, <1>4 DEF TypeInv
<1>6. stack'[t][1].op = stack[t][1].op /\ stack'[t][1].of = stack[t][1].of /\ stack'[t][1].pc = pc
  BY <1>2, <1>3 DEF Frames
<1> QED
  BY <1>2, <1>5, <1>6 DEF Moved

LEMMA ReturnStack ==
  ASSUME TypeInv, NEW t \in Threads, ~Idle(t), Return(t)
  PROVE  /\ stack' \in [Threads -> Seq(Frames)]
         /\ \A u \in Threads \ {t} : stack'[u] = stack[u]
         /\ Returned(t) /\ (stack'[t] = <<>> <=> Len(stack[t]) = 1)
<1>1. stack'[t] = Tail(stack[t]) /\ stack[t] \in Seq(Frames) /\ stack[t] # <<>>
  BY DEF TypeInv, Return, Idle
<1>2. /\ stack'[t] \in Seq(Frames) /\ Len(stack'[t]) = Len(stack[t]) - 1
      /\ (stack'[t] = <<>> <=> Len(stack[t]) = 1)
      /\ \A n \in 1..Len(stack'[t]) : stack'[t][n] = stack[t][n + 1]
  BY <1>1, ReturnShape
<1> QED
  BY <1>2 DEF TypeInv, Return, Returned

LEMMA PushStack ==
  ASSUME TypeInv, NEW t \in Threads, ~Idle(t), Of(t) # Root,
         stack' = [stack EXCEPT ![t] =
                     <<Frame("GetPath", PathPrefix(Of(t))),
                       [Head(@) EXCEPT !.pc = "append"]>> \o Tail(@)]
  PROVE  /\ stack' \in [Threads -> Seq(Frames)]
         /\ \A u \in Threads \ {t} : stack'[u] = stack[u]
         /\ Pushed(t) /\ stack'[t] # <<>>
         /\ stack'[t][1] = [op |-> "GetPath", of |-> AtDir[Of(t)], pc |-> "check"]
<1> DEFINE fr == Frame("GetPath", AtDir[Of(t)])
           top == [stack[t][1] EXCEPT !.pc = "append"]
<1>1. stack[t][1] \in Frames /\ Head(stack[t]) = stack[t][1] /\ stack[t] # <<>>
      /\ stack[t] \in Seq(Frames)
  BY FrameTypes DEF Idle
<1>2. Of(t) \in Files \ {Root} /\ AtDir[Of(t)] \in Files
  BY <1>1, FilesAssumption DEF Of, Frames
<1>3. fr = [op |-> "GetPath", of |-> AtDir[Of(t)], pc |-> "check"]
  BY DEF Frame
<1>4. fr \in Frames
  BY <1>2, <1>3 DEF Frames, Getters, Pcs
<1>5. top \in Frames /\ top.op = stack[t][1].op /\ top.of = stack[t][1].of /\ top.pc = "append"
  BY <1>1 DEF Frames, Pcs
<1>6. stack'[t] = <<fr, top>> \o Tail(stack[t])
  BY <1>1 DEF TypeInv, PathPrefix
<1> HIDE DEF fr, top
<1>7. \A s2 : s2 = <<fr, top>> \o Tail(stack[t]) =>
        /\ s2 \in Seq(Frames) /\ s2 # <<>> /\ Len(s2) = Len(stack[t]) + 1
        /\ s2[1] = fr /\ s2[2] = top
        /\ \A n \in 3..Len(s2) : s2[n] = stack[t][n - 1]
  BY <1>1, <1>4, <1>5, PushShape
<1>8. /\ stack'[t] \in Seq(Frames) /\ stack'[t] # <<>> /\ Len(stack'[t]) = Len(stack[t]) + 1
      /\ stack'[t][1] = fr /\ stack'[t][2] = top
      /\ \A n \in 3..Len(stack'[t]) : stack'[t][n] = stack[t][n - 1]
  BY <1>6, <1>7, Zenon
<1> QED
  BY <1>3, <1>5, <1>8 DEF TypeInv, Pushed, fr

LEMMA CallStack ==
  ASSUME TypeInv, NEW t \in Threads, Idle(t), NEW op \in Getters \cup {"OpenDir"},
         NEW f \in Files, Call(t, op, f)
  PROVE  /\ stack' \in [Threads -> Seq(Frames)]
         /\ \A u \in Threads \ {t} : stack'[u] = stack[u]
         /\ Len(stack'[t]) = 1 /\ stack'[t] # <<>> /\ stack'[t][1].op = op /\ stack'[t][1].of = f
         /\ stack'[t][1].pc = IF op = "OpenDir" THEN "temp" ELSE "check"
<1>1. Frame(op, f) \in Frames /\ Frame(op, f).op = op /\ Frame(op, f).of = f
      /\ Frame(op, f).pc = IF op = "OpenDir" THEN "temp" ELSE "check"
  BY DEF Frame, Frames, Pcs
<1>2. stack'[t] = <<Frame(op, f)>> \o stack[t] /\ stack[t] \in Seq(Frames) /\ stack[t] = <<>>
  BY DEF TypeInv, Call, Idle
<1>3. stack'[t] \in Seq(Frames) /\ stack'[t] # <<>> /\ Len(stack'[t]) = 1
      /\ stack'[t][1] = Frame(op, f)
  BY <1>1, <1>2, CallShape
<1> QED
  BY <1>1, <1>3 DEF TypeInv, Call

\* The innermost call of a thread, and what it knows.
LEMMA InnermostCall ==
  ASSUME IInv, NEW t \in Threads, NEW pc, In(t, pc)
  PROVE  /\ ~Idle(t) /\ 1 \in 1..Len(stack[t]) /\ Len(stack[t]) \in Nat
         /\ Head(stack[t]) = stack[t][1] /\ stack[t][1] \in Frames /\ FrameInv(stack[t][1])
         /\ stack[t][1].pc = pc /\ Of(t) = stack[t][1].of /\ Op(t) = stack[t][1].op
         /\ Of(t) \in Files /\ Op(t) \in Getters \cup {"OpenDir"}
         /\ pc \in PcsOf(Op(t))
         /\ pc \notin {"check", "read", "temp"} => Of(t) # Root
<1>1. ~Idle(t)
  BY DEF In, Idle
<1> QED
  BY <1>1, FrameTypes DEF In, IInv, FramesInv, FrameInv, Of, Op, Frames

\* Some fields of one object are assigned.
LEMMA ObjChange ==
  ASSUME TypeInv, NEW f \in Files, NEW x, obj' = [obj EXCEPT ![f] = x], x \in Impls,
         x.type \in {Unset, StatFailed, TakenFor(f)}
  PROVE  /\ obj' \in [Files -> Impls] /\ obj'[f] = x
         /\ \A g \in Files \ {f} : obj'[g] = obj[g]
         /\ \A g \in Files : obj'[g].type \in {Unset, StatFailed, TakenFor(g)}
  BY DEF TypeInv

LEMMA ImplFields ==
  ASSUME NEW x \in Impls
  PROVE  x = [path |-> x.path, type |-> x.type, size |-> x.size, flags |-> x.flags,
              fd |-> x.fd, temp |-> x.temp]
         /\ x.path \in Seq(Files \cup {"."}) /\ x.type \in {Unset, StatFailed} \cup Kinds
         /\ x.size \in Int /\ x.flags \in BOOLEAN /\ x.fd \in BOOLEAN /\ x.temp \in BOOLEAN
  BY DEF Impls

LEMMA NewImpl ==
  ASSUME NEW path \in Seq(Files \cup {"."}), NEW type \in {Unset, StatFailed} \cup Kinds,
         NEW size \in Int
  PROVE  [path |-> path, type |-> type, size |-> size, flags |-> FALSE, fd |-> FALSE,
          temp |-> FALSE] \in Impls
  BY DEF Impls

LEMMA SetFlags ==
  ASSUME TypeInv, NEW f \in Files, NEW v \in BOOLEAN, obj' = [obj EXCEPT ![f].flags = v]
  PROVE  /\ obj' \in [Files -> Impls]
         /\ \A g \in Files \ {f} : obj'[g] = obj[g]
         /\ \A g \in Files : obj'[g].type \in {Unset, StatFailed, TakenFor(g)}
         /\ obj'[f].flags = v /\ obj'[f].path = obj[f].path /\ obj'[f].type = obj[f].type
         /\ obj'[f].size = obj[f].size /\ obj'[f].fd = obj[f].fd /\ obj'[f].temp = obj[f].temp
<1>1. obj[f] \in Impls /\ obj[f].type \in {Unset, StatFailed, TakenFor(f)}
  BY DEF TypeInv
<1> DEFINE x == [obj[f] EXCEPT !.flags = v]
<1>2. x \in Impls /\ x.flags = v /\ x.path = obj[f].path /\ x.type = obj[f].type
      /\ x.size = obj[f].size /\ x.fd = obj[f].fd /\ x.temp = obj[f].temp
  BY <1>1, ImplFields DEF Impls
<1>3. obj' = [obj EXCEPT ![f] = x]
  OBVIOUS
<1> HIDE DEF x
<1> QED
  BY <1>1, <1>2, <1>3, ObjChange

LEMMA SetFd ==
  ASSUME TypeInv, NEW f \in Files, NEW v \in BOOLEAN, obj' = [obj EXCEPT ![f].fd = v]
  PROVE  /\ obj' \in [Files -> Impls]
         /\ \A g \in Files \ {f} : obj'[g] = obj[g]
         /\ \A g \in Files : obj'[g].type \in {Unset, StatFailed, TakenFor(g)}
         /\ obj'[f].fd = v /\ obj'[f].path = obj[f].path /\ obj'[f].type = obj[f].type
         /\ obj'[f].size = obj[f].size /\ obj'[f].flags = obj[f].flags
         /\ obj'[f].temp = obj[f].temp
<1>1. obj[f] \in Impls /\ obj[f].type \in {Unset, StatFailed, TakenFor(f)}
  BY DEF TypeInv
<1> DEFINE x == [obj[f] EXCEPT !.fd = v]
<1>2. x \in Impls /\ x.fd = v /\ x.path = obj[f].path /\ x.type = obj[f].type
      /\ x.size = obj[f].size /\ x.flags = obj[f].flags /\ x.temp = obj[f].temp
  BY <1>1, ImplFields DEF Impls
<1>3. obj' = [obj EXCEPT ![f] = x]
  OBVIOUS
<1> HIDE DEF x
<1> QED
  BY <1>1, <1>2, <1>3, ObjChange

LEMMA SetTemp ==
  ASSUME TypeInv, NEW f \in Files, NEW v \in BOOLEAN, obj' = [obj EXCEPT ![f].temp = v]
  PROVE  /\ obj' \in [Files -> Impls]
         /\ \A g \in Files \ {f} : obj'[g] = obj[g]
         /\ \A g \in Files : obj'[g].type \in {Unset, StatFailed, TakenFor(g)}
         /\ obj'[f].temp = v /\ obj'[f].path = obj[f].path /\ obj'[f].type = obj[f].type
         /\ obj'[f].size = obj[f].size /\ obj'[f].flags = obj[f].flags /\ obj'[f].fd = obj[f].fd
<1>1. obj[f] \in Impls /\ obj[f].type \in {Unset, StatFailed, TakenFor(f)}
  BY DEF TypeInv
<1> DEFINE x == [obj[f] EXCEPT !.temp = v]
<1>2. x \in Impls /\ x.temp = v /\ x.path = obj[f].path /\ x.type = obj[f].type
      /\ x.size = obj[f].size /\ x.flags = obj[f].flags /\ x.fd = obj[f].fd
  BY <1>1, ImplFields DEF Impls
<1>3. obj' = [obj EXCEPT ![f] = x]
  OBVIOUS
<1> HIDE DEF x
<1> QED
  BY <1>1, <1>2, <1>3, ObjChange

LEMMA SetPath ==
  ASSUME TypeInv, NEW f \in Files, NEW v \in Seq(Files \cup {"."}),
         obj' = [obj EXCEPT ![f].path = v]
  PROVE  /\ obj' \in [Files -> Impls]
         /\ \A g \in Files \ {f} : obj'[g] = obj[g]
         /\ \A g \in Files : obj'[g].type \in {Unset, StatFailed, TakenFor(g)}
         /\ obj'[f].path = v /\ obj'[f].temp = obj[f].temp /\ obj'[f].type = obj[f].type
         /\ obj'[f].size = obj[f].size /\ obj'[f].flags = obj[f].flags /\ obj'[f].fd = obj[f].fd
<1>1. obj[f] \in Impls /\ obj[f].type \in {Unset, StatFailed, TakenFor(f)}
  BY DEF TypeInv
<1> DEFINE x == [obj[f] EXCEPT !.path = v]
<1>2. x \in Impls /\ x.path = v /\ x.temp = obj[f].temp /\ x.type = obj[f].type
      /\ x.size = obj[f].size /\ x.flags = obj[f].flags /\ x.fd = obj[f].fd
  BY <1>1, ImplFields DEF Impls
<1>3. obj' = [obj EXCEPT ![f] = x]
  OBVIOUS
<1> HIDE DEF x
<1> QED
  BY <1>1, <1>2, <1>3, ObjChange

LEMMA SetStat ==
  ASSUME TypeInv, NEW f \in Files,
         \/ /\ obj' = [obj EXCEPT ![f].type = Kind[f], ![f].size = 1]
            /\ f \notin unstatable
         \/ obj' = [obj EXCEPT ![f].type = StatFailed]
  PROVE  /\ obj' \in [Files -> Impls]
         /\ \A g \in Files \ {f} : obj'[g] = obj[g]
         /\ \A g \in Files : obj'[g].type \in {Unset, StatFailed, TakenFor(g)}
         /\ obj'[f].path = obj[f].path /\ obj'[f].temp = obj[f].temp
         /\ obj'[f].size = obj[f].size \/ (obj'[f].size = 1 /\ f \notin unstatable)
         /\ obj'[f].flags = obj[f].flags /\ obj'[f].fd = obj[f].fd
<1>1. obj[f] \in Impls /\ Kind[f] \in Kinds
  BY FilesAssumption DEF TypeInv, Kinds
<1>0. f \notin unstatable => TakenFor(f) = Kind[f]
  BY TypesTaken DEF TypeInv
<1> DEFINE x == [obj[f] EXCEPT !.type = Kind[f], !.size = 1]
           y == [obj[f] EXCEPT !.type = StatFailed]
<1>2. x \in Impls /\ x.path = obj[f].path /\ x.temp = obj[f].temp /\ x.type = Kind[f]
      /\ x.size = 1 /\ x.flags = obj[f].flags /\ x.fd = obj[f].fd
  <2> DEFINE x0 == [obj[f] EXCEPT !.type = Kind[f]]
  <2>1. x0 \in Impls /\ x0.path = obj[f].path /\ x0.temp = obj[f].temp /\ x0.type = Kind[f]
        /\ x0.flags = obj[f].flags /\ x0.fd = obj[f].fd
    BY <1>1, ImplFields DEF Impls
  <2>2. x = [x0 EXCEPT !.size = 1]
    BY Zenon
  <2> HIDE DEF x0, x
  <2> QED
    BY <2>1, <2>2, ImplFields DEF Impls
<1>3. y \in Impls /\ y.path = obj[f].path /\ y.temp = obj[f].temp /\ y.type = StatFailed
      /\ y.size = obj[f].size /\ y.flags = obj[f].flags /\ y.fd = obj[f].fd
  BY <1>1, ImplFields DEF Impls
<1>4. \/ obj' = [obj EXCEPT ![f] = x] /\ f \notin unstatable
      \/ obj' = [obj EXCEPT ![f] = y]
  BY DEF TypeInv
<1> HIDE DEF x, y
<1>5. CASE obj' = [obj EXCEPT ![f] = x] /\ f \notin unstatable
  BY <1>0, <1>1, <1>2, <1>5, ObjChange
<1>6. CASE obj' = [obj EXCEPT ![f] = y]
  BY <1>1, <1>3, <1>6, ObjChange
<1> QED
  BY <1>4, <1>5, <1>6

LEMMA GotoEffect ==
  ASSUME IInv, NEW t \in Threads, NEW from, In(t, from), NEW pc \in Pcs, Goto(t, pc),
         UNCHANGED <<job, dirs, files, done, faults>>,
         obj' \in [Files -> Impls],
         \A f \in Files : obj'[f].type \in {Unset, StatFailed, TakenFor(f)},
         valid' \in [Files -> SUBSET Bits],
         mutex' \in [Files -> Threads \cup {Nobody}],
         \A f \in Files \ {Of(t)} : obj'[f] = obj[f] /\ valid'[f] = valid[f] /\ mutex'[f] = mutex[f],
         obj'[Of(t)].flags = obj[Of(t)].flags,
         obj[Of(t)].path = obj'[Of(t)].path \/ (obj'[Of(t)].path # <<>> /\ In(t, "append")),
         obj[Of(t)].fd => obj'[Of(t)].fd,
         obj'[Of(t)].size = obj[Of(t)].size \/ (obj'[Of(t)].size = 1 /\ Of(t) \notin unstatable),
         valid[Of(t)] \subseteq valid'[Of(t)]
  PROVE  TypeInv' /\ CallEffect(t) /\ Moved(t) /\ stack'[t][1].pc = pc /\ ~Idle(t)'
<1>1. TypeInv /\ ~Idle(t) /\ Of(t) \in Files
  BY InnermostCall DEF IInv
<1>2. stack' \in [Threads -> Seq(Frames)] /\ Moved(t) /\ stack'[t][1].pc = pc /\ stack'[t] # <<>>
      /\ \A u \in Threads \ {t} : stack'[u] = stack[u]
  BY <1>1, GotoStack
<1>3. TypeInv'
  BY <1>1, <1>2, SameTypes DEF TypeInv
<1>4. CallEffect(t)
  BY <1>1, <1>2 DEF CallEffect, HasPath
<1> QED
  BY <1>2, <1>3, <1>4 DEF Idle

LEMMA AppendNotEmpty ==
  ASSUME NEW S, NEW s \in Seq(S), NEW x \in S
  PROVE  Append(s, x) \in Seq(S) /\ Append(s, x) # <<>> /\ <<>> \o Append(s, x) = Append(s, x)
<1>1. Append(s, x) \in Seq(S) /\ Len(Append(s, x)) = Len(s) + 1 /\ Len(s) \in Nat
  BY AppendProperties, LenProperties
<1>2. Append(s, x) # <<>>
  BY <1>1, EmptySeq
<1> QED
  BY <1>1, <1>2, ConcatEmptySeq

\* The path that is put together is the directory's with the file's own name behind it.
LEMMA AppendedPath ==
  ASSUME IInv, NEW t \in Threads, AppendPath(t), NEW f, f = Of(t)
  PROVE  /\ obj'[f].path = IF obj[AtDir[f]].path = <<".">> THEN <<f>>
                           ELSE Append(obj[AtDir[f]].path, f)
         /\ obj'[f].path # <<>> /\ obj' \in [Files -> Impls]
         /\ \A g \in Files \ {f} : obj'[g] = obj[g]
         /\ \A g \in Files : obj'[g].type \in {Unset, StatFailed, TakenFor(g)}
         /\ obj'[f].temp = obj[f].temp /\ obj'[f].size = obj[f].size
         /\ obj'[f].flags = obj[f].flags /\ obj'[f].fd = obj[f].fd
<1>1. In(t, "append") /\ f \in Files \ {Root} /\ obj[f].path = <<>> /\ AtDir[f] \in Files
  BY InnermostCall, FilesAssumption DEF AppendPath, FrameInv, HasPath
<1>2. TypeInv /\ obj[AtDir[f]].path \in Seq(Files \cup {"."}) /\ f \in Files \cup {"."}
  BY <1>1 DEF IInv, TypeInv, Impls
<1> PICK at : at = obj[AtDir[f]].path
  OBVIOUS
<1> PICK v : v = IF at = <<".">> THEN <<f>> ELSE Append(at, f)
  OBVIOUS
<1>3. Append(at, f) \in Seq(Files \cup {"."}) /\ Append(at, f) # <<>>
      /\ <<>> \o Append(at, f) = Append(at, f)
  BY <1>2, AppendNotEmpty
<1>4. <<f>> \in Seq(Files \cup {"."}) /\ <<f>> # <<>>
  BY <1>2
<1>5. v \in Seq(Files \cup {"."}) /\ v # <<>>
  BY <1>3, <1>4
<1>6. obj' = [obj EXCEPT ![f].path = IF at = <<".">> THEN <<f>> ELSE obj[f].path \o Append(at, f)]
  BY <1>1, <1>2 DEF AppendPath, TypeInv
<1>7. obj' = [obj EXCEPT ![f].path = v]
  BY <1>1, <1>3, <1>6
<1>8. TypeInv /\ f \in Files /\ v \in Seq(Files \cup {"."}) /\ v # <<>>
  BY <1>1, <1>2, <1>5
<1>9. /\ obj' \in [Files -> Impls] /\ obj'[f].path = v
      /\ \A g \in Files \ {f} : obj'[g] = obj[g]
      /\ \A g \in Files : obj'[g].type \in {Unset, StatFailed, TakenFor(g)}
      /\ obj'[f].temp = obj[f].temp /\ obj'[f].size = obj[f].size
      /\ obj'[f].flags = obj[f].flags /\ obj'[f].fd = obj[f].fd
  BY ONLY <1>7, <1>8, SetPath
<1> QED
  BY <1>8, <1>9

LEMMA CallTypes ==
  ASSUME IInv, NEW t \in Threads, CallStep(t), UNCHANGED faults
  PROVE  /\ TypeInv' /\ CallEffect(t)
         /\ Moved(t) \/ (Pushed(t) /\ In(t, "resolve")) \/ Returned(t)
<1>1. TypeInv
  BY DEF IInv
<1>2. CASE FirstCheck(t)
  <2>1. In(t, "check") /\ (Goto(t, "read") \/ Goto(t, "lock"))
    BY <1>2 DEF FirstCheck
  <2> QED
    BY <1>1, <1>2, <2>1, GotoEffect DEF FirstCheck, TypeInv, Pcs
<1>3. CASE LockAndCheck(t)
  <2>1. In(t, "lock") /\ Of(t) \in Files
    BY <1>3, InnermostCall DEF LockAndCheck
  <2>2. CASE Wants[Op(t)] \in valid[Of(t)]
    BY <1>1, <1>3, <2>1, <2>2, GotoEffect DEF LockAndCheck, TypeInv, Pcs
  <2>3. CASE ~(Wants[Op(t)] \in valid[Of(t)])
    <3>1. mutex' = [mutex EXCEPT ![Of(t)] = t] /\ Goto(t, CacheFiller(Op(t)))
          /\ CacheFiller(Op(t)) \in Pcs
      BY <1>3, <2>3 DEF LockAndCheck, CacheFiller, Pcs
    <3> QED
      BY <1>1, <1>3, <2>1, <3>1, GotoEffect DEF LockAndCheck, TypeInv
  <2> QED
    BY <2>2, <2>3
<1>4. CASE ResolvePath(t)
  <2>1. In(t, "resolve") /\ Of(t) \in Files /\ Of(t) # Root /\ ~Idle(t)
    BY <1>4, InnermostCall DEF ResolvePath
  <2>2. CASE HasPath(Of(t))
    <3>1. Op(t) \in {"GetPath", "GetFileDescriptor", "OpenDir"}
      BY <2>1, InnermostCall DEF PcsOf, Getters
    <3>2. Goto(t, AfterResolve[Op(t)]) /\ AfterResolve[Op(t)] \in Pcs
      BY <1>4, <2>2, <3>1 DEF ResolvePath, Goto, AfterResolve, Pcs
    <3> QED
      BY <1>1, <1>4, <2>1, <3>2, GotoEffect DEF ResolvePath, TypeInv
  <2>3. CASE ~HasPath(Of(t))
    <3>1. /\ stack' \in [Threads -> Seq(Frames)] /\ Pushed(t)
          /\ \A u \in Threads \ {t} : stack'[u] = stack[u]
      BY <1>1, <1>4, <2>1, <2>3, PushStack DEF ResolvePath
    <3>2. TypeInv'
      BY <1>1, <1>4, <3>1, SameTypes DEF TypeInv, ResolvePath
    <3>3. CallEffect(t)
      BY <1>4, <3>1 DEF CallEffect, ResolvePath, HasPath
    <3> QED
      BY <2>1, <3>1, <3>2, <3>3
  <2> QED
    BY <2>2, <2>3
<1>5. CASE AppendPath(t)
  <2> PICK f : f = Of(t)
    OBVIOUS
  <2>1. In(t, "append") /\ f \in Files /\ UNCHANGED <<valid, mutex, job, dirs, files, done>>
    BY <1>5, InnermostCall DEF AppendPath
  <2>2. Op(t) \in {"GetPath", "GetFileDescriptor", "OpenDir"}
    BY <2>1, InnermostCall DEF PcsOf, Getters
  <2>3. Goto(t, AfterResolve[Op(t)]) /\ AfterResolve[Op(t)] \in Pcs
    BY <1>5, <2>2 DEF AppendPath, AfterResolve, Pcs
  <2>4. /\ obj' \in [Files -> Impls] /\ obj'[f].path # <<>>
        /\ \A g \in Files \ {f} : obj'[g] = obj[g]
        /\ obj'[f].flags = obj[f].flags /\ obj'[f].fd = obj[f].fd /\ obj'[f].size = obj[f].size
        /\ \A g \in Files : obj'[g].type \in {Unset, StatFailed, TakenFor(g)}
    BY <1>5, AppendedPath
  <2> QED
    BY <1>1, <2>1, <2>3, <2>4, GotoEffect DEF TypeInv
<1>6. CASE OpenFile(t)
  <2>1. In(t, "open") /\ Of(t) \in Files /\ ~Idle(t) /\ Main # Nobody
    BY <1>6, InnermostCall, ThreadsAssumption DEF OpenFile
  <2>2. CASE Of(t) \in unopenable
    <3>1. /\ mutex' = [mutex EXCEPT ![Of(t)] = Nobody] /\ Return(t)
          /\ job' = [job EXCEPT ![t].at = "threw"] /\ UNCHANGED <<obj, valid, dirs, files, done>>
      BY <1>6, <2>2 DEF OpenFile, Unwind
    <3>2. /\ stack' \in [Threads -> Seq(Frames)] /\ Returned(t)
          /\ \A u \in Threads \ {t} : stack'[u] = stack[u]
      BY <1>1, <2>1, <3>1, ReturnStack
    <3>3. job' \in [Threads -> Jobs] /\ job'[t] = [job[t] EXCEPT !.at = "threw"]
          /\ \A u \in Threads \ {t} : job'[u] = job[u]
      <4>1. job[t] \in Jobs /\ job[t] = [at |-> job[t].at, on |-> job[t].on, left |-> job[t].left,
                batch |-> job[t].batch, entry |-> job[t].entry, asked |-> job[t].asked]
        BY <1>1 DEF TypeInv, Jobs
      <4>2. [job[t] EXCEPT !.at = "threw"] \in Jobs
        BY <4>1 DEF Jobs, Places
      <4>3. job' = [job EXCEPT ![t] = [job[t] EXCEPT !.at = "threw"]]
        BY <3>1
      <4> QED
        BY <1>1, <4>2, <4>3 DEF TypeInv
    <3>4. TypeInv'
      BY <1>1, <3>1, <3>2, <3>3, SameTypes DEF TypeInv
    <3>5. CallEffect(t)
      BY <1>1, <2>1, <3>1, <3>2, <3>3 DEF CallEffect, TypeInv, HasPath
    <3> QED
      BY <3>2, <3>4, <3>5
  <2>3. CASE Of(t) \notin unopenable
    <3>1. /\ obj' = [obj EXCEPT ![Of(t)].fd = TRUE] /\ Goto(t, "publish")
          /\ UNCHANGED <<mutex, job, valid, dirs, files, done>>
      BY <1>6, <2>3 DEF OpenFile
    <3>2. /\ obj' \in [Files -> Impls]
          /\ \A g \in Files \ {Of(t)} : obj'[g] = obj[g]
          /\ \A g \in Files : obj'[g].type \in {Unset, StatFailed, TakenFor(g)}
          /\ obj'[Of(t)].fd /\ obj'[Of(t)].path = obj[Of(t)].path
          /\ obj'[Of(t)].size = obj[Of(t)].size /\ obj'[Of(t)].flags = obj[Of(t)].flags
      BY <1>1, <2>1, <3>1, SetFd
    <3> QED
      BY <1>1, <2>1, <3>1, <3>2, GotoEffect DEF TypeInv, Pcs
  <2> QED
    BY <2>2, <2>3
<1>7. CASE LazyLoadStatInfo(t)
  <2> DEFINE f == Of(t)
  <2>1. In(t, "stat") /\ f \in Files /\ Goto(t, "publish")
        /\ UNCHANGED <<valid, mutex, job, dirs, files, done>>
    BY <1>7, InnermostCall DEF LazyLoadStatInfo
  <2>2. \/ /\ obj' = [obj EXCEPT ![f].type = Kind[f], ![f].size = 1]
           /\ f \notin unstatable
        \/ obj' = [obj EXCEPT ![f].type = StatFailed]
    BY <1>7 DEF LazyLoadStatInfo, StatSucceeds
  <2>3. /\ obj' \in [Files -> Impls]
        /\ \A g \in Files \ {f} : obj'[g] = obj[g]
        /\ \A g \in Files : obj'[g].type \in {Unset, StatFailed, TakenFor(g)}
        /\ obj'[f].path = obj[f].path
        /\ obj'[f].size = obj[f].size \/ (obj'[f].size = 1 /\ f \notin unstatable)
        /\ obj'[f].flags = obj[f].flags /\ obj'[f].fd = obj[f].fd
    BY <1>1, <2>1, <2>2, SetStat
  <2> QED
    BY <1>1, <2>1, <2>3, GotoEffect DEF TypeInv, Pcs
<1>8. CASE Publish(t)
  <2>1. /\ In(t, "publish") /\ Of(t) \in Files /\ Goto(t, "read")
        /\ valid' = [valid EXCEPT ![Of(t)] = @ \cup Publishes(Op(t))]
        /\ mutex' = [mutex EXCEPT ![Of(t)] = Nobody]
        /\ UNCHANGED <<obj, job, dirs, files, done>>
    BY <1>8, InnermostCall DEF Publish
  <2>2. Publishes(Op(t)) \subseteq Bits
    BY DEF Publishes, Bits, StatBits
  <2> QED
    BY <1>1, <2>1, <2>2, GotoEffect DEF TypeInv, Pcs
<1>9. CASE ReadValue(t)
  <2>1. In(t, "read") /\ ~Idle(t) /\ Return(t)
        /\ UNCHANGED <<obj, valid, mutex, job, dirs, files, done>>
    BY <1>9, InnermostCall DEF ReadValue
  <2>2. /\ stack' \in [Threads -> Seq(Frames)] /\ Returned(t)
        /\ \A u \in Threads \ {t} : stack'[u] = stack[u]
    BY <1>1, <2>1, ReturnStack
  <2>3. TypeInv'
    BY <1>1, <2>1, <2>2, SameTypes DEF TypeInv
  <2>4. CallEffect(t)
    BY <2>1, <2>2 DEF CallEffect, HasPath
  <2> QED
    BY <2>2, <2>3, <2>4
<1>10. CASE GetTempDirFileDesc(t)
  <2>1. In(t, "temp") /\ ~Idle(t) /\ Of(t) \in Files
        /\ UNCHANGED <<valid, mutex, job, dirs, files, done>>
    BY <1>10, InnermostCall DEF GetTempDirFileDesc
  <2>2. CASE obj[Of(t)].temp \/ obj[Of(t)].fd
    <3>1. Return(t) /\ obj' = [obj EXCEPT ![Of(t)].temp = TRUE]
      BY <1>10, <2>2 DEF GetTempDirFileDesc
    <3>2. /\ stack' \in [Threads -> Seq(Frames)] /\ Returned(t)
          /\ \A u \in Threads \ {t} : stack'[u] = stack[u]
      BY <1>1, <2>1, <3>1, ReturnStack
    <3>3. obj' \in [Files -> Impls] /\ (\A g \in Files \ {Of(t)} : obj'[g] = obj[g])
          /\ \A g \in Files : /\ obj'[g].type \in {Unset, StatFailed, TakenFor(g)}
                              /\ obj'[g].flags = obj[g].flags /\ obj'[g].size = obj[g].size
                              /\ obj'[g].path = obj[g].path /\ obj'[g].fd = obj[g].fd
      BY <1>1, <2>1, <3>1, SetTemp
    <3>4. TypeInv'
      BY <1>1, <2>1, <3>2, <3>3, SameTypes DEF TypeInv
    <3>5. CallEffect(t)
      BY <2>1, <3>2, <3>3 DEF CallEffect, HasPath
    <3> QED
      BY <3>2, <3>4, <3>5
  <2>3. CASE ~(obj[Of(t)].temp \/ obj[Of(t)].fd)
    BY <1>1, <1>10, <2>1, <2>3, GotoEffect DEF GetTempDirFileDesc, TypeInv, Pcs
  <2> QED
    BY <2>2, <2>3
<1>11. CASE OpenTempDir(t)
  <2>1. In(t, "opentemp") /\ ~Idle(t) /\ Of(t) \in Files /\ Return(t)
        /\ obj' = [obj EXCEPT ![Of(t)].temp = Kind[Of(t)] = "dir" /\ Of(t) \notin unopenable]
        /\ UNCHANGED <<valid, mutex, job, dirs, files, done>>
    BY <1>11, InnermostCall DEF OpenTempDir
  <2>2. /\ stack' \in [Threads -> Seq(Frames)] /\ Returned(t)
        /\ \A u \in Threads \ {t} : stack'[u] = stack[u]
    BY <1>1, <2>1, ReturnStack
  <2>3. obj' \in [Files -> Impls] /\ (\A g \in Files \ {Of(t)} : obj'[g] = obj[g])
        /\ \A g \in Files : /\ obj'[g].type \in {Unset, StatFailed, TakenFor(g)}
                            /\ obj'[g].flags = obj[g].flags /\ obj'[g].size = obj[g].size
                            /\ obj'[g].path = obj[g].path /\ obj'[g].fd = obj[g].fd
    <3>1. (Kind[Of(t)] = "dir" /\ Of(t) \notin unopenable) \in BOOLEAN
      OBVIOUS
    <3> QED
      BY <1>1, <2>1, <3>1, SetTemp
  <2>4. TypeInv'
    BY <1>1, <2>1, <2>2, <2>3, SameTypes DEF TypeInv
  <2>5. CallEffect(t)
    BY <2>1, <2>2, <2>3 DEF CallEffect, HasPath
  <2> QED
    BY <2>2, <2>4, <2>5
<1> QED
  BY <1>2, <1>3, <1>4, <1>5, <1>6, <1>7, <1>8, <1>9, <1>10, <1>11 DEF CallStep

LEMMA MadeDirectory ==
  ASSUME IInv, NEW f \in Files \ {Root}, Made(f)
  PROVE  Made(AtDir[f]) /\ AtDir[f] \in Files /\ (AtDir[f] = Root => f \in Starts)
<1>1. CASE f \in Starts
  <2>1. AtDir[f] = Root
    BY <1>1, FilesAssumption DEF Starts
  <2> QED
    BY <1>1, <2>1, FilesAssumption DEF Made
<1>2. CASE f \notin Starts
  BY <1>2, FilesAssumption DEF IInv, MadeInv
<1> QED
  BY <1>1, <1>2

\* The calls after a step are those before it, but for the innermost one of its thread.
LEMMA OldCalls ==
  ASSUME IInv, NEW t \in Threads, CallStep(t), UNCHANGED faults,
         NEW u \in Threads, NEW n \in 1..Len(stack'[u])
  PROVE  \/ u = t /\ n = 1 /\ Moved(t)
         \/ u = t /\ n \in {1, 2} /\ Pushed(t) /\ In(t, "resolve")
         \/ \E m \in 1..Len(stack[u]) :
              /\ stack'[u][n] = stack[u][m]
              /\ u = t => m # 1 /\ (Moved(t) => m = n) /\ (Returned(t) => m = n + 1)
<1>1. TypeInv' /\ CallEffect(t) /\ (Moved(t) \/ (Pushed(t) /\ In(t, "resolve")) \/ Returned(t))
  BY CallTypes
<1>2. Len(stack[u]) \in Nat /\ Len(stack'[u]) \in Nat
  <2>1. stack[u] \in Seq(Frames) /\ stack'[u] \in Seq(Frames)
    BY <1>1 DEF IInv, TypeInv
  <2> QED
    BY <2>1, LenProperties
<1>3. CASE u # t
  BY <1>1, <1>3 DEF CallEffect
<1>4. CASE u = t /\ Moved(t) /\ n # 1
  BY <1>2, <1>4 DEF Moved, Returned
<1>5. CASE u = t /\ Pushed(t) /\ In(t, "resolve") /\ n \notin {1, 2}
  <2>1. n - 1 \in 1..Len(stack[u]) /\ n - 1 # 1 /\ stack'[u][n] = stack[u][n - 1]
    BY <1>2, <1>5 DEF Pushed
  <2>2. ~Moved(t) /\ ~Returned(t)
    BY <1>2, <1>5 DEF Pushed, Moved, Returned
  <2> QED
    BY <2>1, <2>2
<1>6. CASE u = t /\ Returned(t)
  <2>1. n + 1 \in 1..Len(stack[u]) /\ n + 1 # 1 /\ stack'[u][n] = stack[u][n + 1] /\ ~Moved(t)
    BY <1>2, <1>6 DEF Returned, Moved
  <2> QED
    BY <2>1
<1> QED
  BY <1>1, <1>3, <1>4, <1>5, <1>6

LEMMA CallKeepsMade ==
  ASSUME IInv, NEW t \in Threads, CallStep(t), UNCHANGED faults, NEW f \in Files
  PROVE  Made(f)' <=> Made(f)
<1>1. CallEffect(t)
  BY CallTypes
<1>2. job'[Main].asked = job[Main].asked
  <2>1. Main \in Threads /\ job[Main] \in Jobs
    BY DEF IInv, TypeInv, Threads
  <2>2. [job[Main] EXCEPT !.at = "threw"].asked = job[Main].asked
    BY <2>1 DEF Jobs
  <2> QED
    BY <1>1, <2>1, <2>2 DEF CallEffect
<1>3. obj'[f].flags = obj[f].flags
  BY <1>1 DEF CallEffect
<1> QED
  BY <1>2, <1>3, MadeKept

LEMMA CallStacks ==
  ASSUME IInv, NEW t \in Threads, CallStep(t), UNCHANGED faults
  PROVE  StackInv'
<1>1. TypeInv' /\ CallEffect(t) /\ (Moved(t) \/ (Pushed(t) /\ In(t, "resolve")) \/ Returned(t))
  BY CallTypes
<1>2. SUFFICES ASSUME NEW u \in Threads, NEW n \in 1..Len(stack'[u]), n < Len(stack'[u])
               PROVE  /\ stack'[u][n].op = "GetPath"
                      /\ stack'[u][n + 1].pc = "append"
                      /\ stack'[u][n].of = AtDir[stack'[u][n + 1].of]
  BY DEF StackInv
<1>3. Len(stack[u]) \in Nat /\ Len(stack'[u]) \in Nat
  <2>1. stack[u] \in Seq(Frames) /\ stack'[u] \in Seq(Frames)
    BY <1>1 DEF IInv, TypeInv
  <2> QED
    BY <2>1, LenProperties
<1>4. \A m \in 1..Len(stack[u]) : m < Len(stack[u]) =>
         /\ stack[u][m].op = "GetPath"
         /\ stack[u][m + 1].pc = "append"
         /\ stack[u][m].of = AtDir[stack[u][m + 1].of]
  BY DEF IInv, StackInv
<1>5. CASE u # t
  <2>1. stack'[u] = stack[u]
    BY <1>1, <1>5 DEF CallEffect
  <2> QED
    BY <1>2, <1>4, <2>1
<1>6. CASE u = t /\ Moved(t)
  <2>1. n \in 1..Len(stack[u]) /\ n < Len(stack[u]) /\ n + 1 \in 2..Len(stack[u])
    BY <1>2, <1>3, <1>6 DEF Moved
  <2>2. stack'[u][n + 1] = stack[u][n + 1]
    BY <1>6, <2>1 DEF Moved
  <2>3. stack'[u][n].op = stack[u][n].op /\ stack'[u][n].of = stack[u][n].of
    BY <1>6, <2>1 DEF Moved
  <2> QED
    BY <1>4, <2>1, <2>2, <2>3
<1>7. CASE u = t /\ Pushed(t) /\ In(t, "resolve")
  <2>1. Of(t) = stack[t][1].of
    BY <1>7, InnermostCall
  <2>2. CASE n = 1
    BY <1>7, <2>1, <2>2 DEF Pushed, Frame
  <2>3. CASE n = 2
    <3>1. stack'[t][3] = stack[t][2] /\ 1 \in 1..Len(stack[u]) /\ 1 < Len(stack[u])
      BY <1>2, <1>3, <1>7, <2>3 DEF Pushed
    <3> QED
      BY <1>4, <1>7, <2>3, <3>1 DEF Pushed
  <2>4. CASE n > 2
    <3>1. stack'[u][n] = stack[u][n - 1] /\ stack'[u][n + 1] = stack[u][n]
      BY <1>2, <1>3, <1>7, <2>4 DEF Pushed
    <3>2. n - 1 \in 1..Len(stack[u]) /\ n - 1 < Len(stack[u]) /\ (n - 1) + 1 = n
      BY <1>2, <1>3, <1>7, <2>4 DEF Pushed
    <3> QED
      BY <1>4, <3>1, <3>2
  <2> QED
    BY <2>2, <2>3, <2>4, <1>3
<1>8. CASE u = t /\ Returned(t)
  <2>1. /\ n \in 1..Len(stack'[u]) /\ n + 1 \in 1..Len(stack'[u])
        /\ n + 1 \in 1..Len(stack[u]) /\ n + 1 < Len(stack[u])
    <3>1. Len(stack'[u]) = Len(stack[u]) - 1
      BY <1>8 DEF Returned
    <3> QED
      BY ONLY <3>1, <1>2, <1>3, n \in 1..Len(stack'[u])
  <2>2. stack'[u][n] = stack[u][n + 1] /\ stack'[u][n + 1] = stack[u][(n + 1) + 1]
    BY <1>8, <2>1 DEF Returned
  <2> QED
    BY <1>4, <2>1, <2>2
<1> QED
  BY <1>1, <1>5, <1>6, <1>7, <1>8

\* What the innermost call knows after its step.
LEMMA NextPlace ==
  ASSUME IInv, NEW t \in Threads, CallStep(t), UNCHANGED faults, Moved(t),
         NEW new, new = stack'[t][1]
  PROVE  FrameInv(new)'
<1> PICK fr : fr = stack[t][1]
  OBVIOUS
<1> PICK f : f = Of(t)
  OBVIOUS
<1>1. TypeInv /\ TypeInv' /\ CallEffect(t) /\ Len(stack[t]) \in Nat
  BY CallTypes, FrameTypes DEF IInv
<1>2. ~Returned(t) /\ ~Pushed(t)
  BY <1>1 DEF Moved, Returned, Pushed
<1>3. ~Idle(t)
  BY DEF CallStep, FirstCheck, LockAndCheck, ResolvePath, AppendPath, OpenFile, LazyLoadStatInfo,
         Publish, ReadValue, GetTempDirFileDesc, OpenTempDir, In, Idle
<1>4. /\ Head(stack[t]) = fr /\ fr \in Frames /\ FrameInv(fr) /\ 1 \in 1..Len(stack[t])
      /\ f = fr.of /\ Op(t) = fr.op /\ f \in Files
  BY <1>3, FrameTypes DEF IInv, FramesInv, Of, Op, Frames
<1>5. new \in Frames /\ new.op = fr.op /\ new.of = f
  <2>1. Len(stack'[t]) \in Nat /\ 1 \in 1..Len(stack'[t]) /\ stack'[t] \in Seq(Frames)
    BY <1>1, <1>4, LenProperties DEF TypeInv, Moved
  <2>2. stack'[t][1] \in Frames
    BY <2>1
  <2> QED
    BY <1>4, <2>2 DEF Moved
<1>6. Made(f)'
  BY <1>4, CallKeepsMade DEF FrameInv
<1>7. CASE FirstCheck(t)
  <2>1. In(t, "check") /\ new.pc = IF Wants[Op(t)] \in valid[f] THEN "read" ELSE "lock"
    BY <1>1, <1>3, <1>7, GotoStack DEF FirstCheck, Pcs
  <2>2. valid' = valid
    BY <1>7 DEF FirstCheck
  <2>3. fr.pc = "check" /\ fr.op \in Getters
    BY <1>4, <2>1 DEF In, FrameInv, PcsOf, Frames
  <2>4. f = Root => new.pc = "read"
    BY <1>4, <2>1, <2>3 DEF IInv, BitsInv, FrameInv, Wants, Getters
  <2> QED
    BY <1>4, <1>5, <1>6, <2>1, <2>2, <2>3, <2>4 DEF FrameInv, PcsOf, Getters
<1>8. CASE LockAndCheck(t)
  <2>1. In(t, "lock") /\ new.pc = IF Wants[Op(t)] \in valid[f] THEN "read" ELSE CacheFiller(Op(t))
    BY <1>1, <1>3, <1>8, GotoStack DEF LockAndCheck, Pcs, CacheFiller
  <2>2. valid' = valid
    BY <1>8 DEF LockAndCheck
  <2>3. fr.pc = "lock" /\ fr.op \in Getters /\ f # Root
    BY <1>4, <2>1 DEF In, FrameInv, PcsOf, Frames
  <2> QED
    BY <1>4, <1>5, <1>6, <2>1, <2>2, <2>3 DEF FrameInv, PcsOf, Getters, CacheFiller
<1>9. CASE ResolvePath(t)
  <2>1. In(t, "resolve") /\ Op(t) \in {"GetPath", "GetFileDescriptor", "OpenDir"} /\ f # Root
    BY <1>9, InnermostCall DEF ResolvePath, PcsOf, Getters
  <2>2. HasPath(f)
    BY <1>1, <1>2, <1>3, <1>9, <2>1, PushStack DEF ResolvePath
  <2>3. new.pc = AfterResolve[Op(t)]
    <3>1. AfterResolve[Op(t)] \in Pcs /\ Goto(t, AfterResolve[Op(t)])
      BY <1>9, <2>1, <2>2 DEF ResolvePath, Goto, AfterResolve, Pcs
    <3> QED
      BY <1>1, <1>3, <3>1, GotoStack
  <2> QED
    BY <1>1, <1>4, <1>5, <1>6, <2>1, <2>2, <2>3 DEF FrameInv, PcsOf, AfterResolve, CallEffect
<1>10. CASE AppendPath(t)
  <2>1. In(t, "append") /\ Op(t) \in {"GetPath", "GetFileDescriptor", "OpenDir"} /\ f # Root
    BY <1>10, InnermostCall DEF AppendPath, PcsOf, Getters
  <2>2. new.pc = AfterResolve[Op(t)]
    <3>1. AfterResolve[Op(t)] \in Pcs /\ Goto(t, AfterResolve[Op(t)])
      BY <1>10, <2>1 DEF AppendPath, Goto, AfterResolve, Pcs
    <3> QED
      BY <1>1, <1>3, <3>1, GotoStack
  <2>3. \A g \in Files : g = f => HasPath(g)'
    BY <1>10, AppendedPath DEF HasPath
  <2>4. HasPath(new.of)'
    BY <1>4, <1>5, <2>3
  <2> QED
    BY <1>1, <1>4, <1>5, <1>6, <2>1, <2>2, <2>4 DEF FrameInv, PcsOf, AfterResolve
<1>11. CASE OpenFile(t)
  <2>1. In(t, "open") /\ Op(t) = "GetFileDescriptor" /\ f # Root /\ fr.pc = "open"
    BY <1>11, InnermostCall DEF OpenFile, PcsOf, Getters
  <2>2. f \notin unopenable
    BY <1>1, <1>2, <1>3, <1>11, ReturnStack DEF OpenFile
  <2>3. obj' = [obj EXCEPT ![f].fd = TRUE] /\ new.pc = "publish"
    BY <1>1, <1>3, <1>11, <2>2, GotoStack DEF OpenFile, Pcs
  <2>4. obj'[f].fd /\ obj'[f].path = obj[f].path
    BY <1>1, <1>4, <2>3, SetFd
  <2> QED
    BY <1>4, <1>5, <1>6, <2>1, <2>2, <2>3, <2>4 DEF FrameInv, PcsOf, HasPath, faults
<1>12. CASE LazyLoadStatInfo(t)
  <2>1. In(t, "stat") /\ f # Root /\ fr.op \in {"GetFileType", "GetFileSize", "GetDev"}
    BY <1>12, InnermostCall DEF LazyLoadStatInfo, PcsOf, Getters
  <2>2. new.pc = "publish"
    BY <1>1, <1>3, <1>12, GotoStack DEF LazyLoadStatInfo, Pcs
  <2>3. obj'[f].size = 0 => f \in unstatable
    <3>1. CASE StatSucceeds(f)
      <4>1. obj' = [obj EXCEPT ![f].type = Kind[f], ![f].size = 1]
        BY <1>12, <3>1 DEF LazyLoadStatInfo
      <4>2. obj'[f].size = 1
        <5>1. obj[f] \in Impls
          BY <1>1, <1>4 DEF TypeInv
        <5>2. obj'[f] = [obj[f] EXCEPT !.type = Kind[f], !.size = 1]
          BY <1>1, <1>4, <4>1 DEF TypeInv
        <5> QED
          BY <5>1, <5>2, ImplFields
      <4> QED
        BY <4>2
    <3>2. CASE ~StatSucceeds(f) /\ f \notin unstatable
      <4>1. ~obj[f].fd /\ ~obj[AtDir[f]].temp
        BY <3>2 DEF StatSucceeds
      <4>2. fr.op # "GetDev"
        BY <1>4, <2>1, Callers DEF In
      <4>3. CASE fr.op = "GetFileType"
        <5>1. job[Main].asked > 0 /\ f = StartPaths[job[Main].asked] /\ job[Main].at = "switch"
          BY <1>4, <4>3, Callers
        <5>2. MainInv /\ job[Main].asked \in 1..Len(StartPaths) /\ DOMAIN StartPaths = 1..Len(StartPaths)
          BY <5>1, LenProperties, FilesAssumption DEF IInv, MainInv
        <5>3. AtDir[f] = Root
          BY <5>1, <5>2, FilesAssumption
        <5> QED
          BY <4>1, <5>1, <5>2, <5>3 DEF MainInv
      <4>4. CASE fr.op = "GetFileSize"
        <5>1. t \in Scanners /\ f = job[t].on /\ job[t].asked = 2 /\ job[t].at = "ask"
          BY <1>4, <4>4, Callers
        <5>2. "FILE_DESC" \in valid[job[t].on] /\ obj[job[t].on].fd
          BY <5>1 DEF IInv, ScannerInv, FileCalls, Wants
        <5> QED
          BY <4>1, <5>1, <5>2
      <4> QED
        BY <2>1, <4>2, <4>3, <4>4
    <3> QED
      BY <3>1, <3>2, <1>12 DEF LazyLoadStatInfo, CallEffect
  <2> QED
    BY <1>5, <1>6, <2>1, <2>2, <2>3, SameTypes DEF FrameInv, PcsOf
<1>13. CASE Publish(t)
  <2>1. In(t, "publish") /\ f # Root /\ fr.op \in Getters /\ fr.pc = "publish"
    BY <1>13, InnermostCall DEF Publish, PcsOf, Getters
  <2>2. new.pc = "read" /\ valid' = [valid EXCEPT ![f] = @ \cup Publishes(Op(t))]
    BY <1>1, <1>3, <1>13, GotoStack DEF Publish, Pcs
  <2>3. valid'[f] = valid[f] \cup Publishes(Op(t))
    BY <1>1, <1>4, <2>2 DEF TypeInv
  <2>4. Wants[fr.op] \in Publishes(fr.op)
    BY <2>1 DEF Wants, Publishes, Getters, StatBits
  <2> QED
    BY <1>4, <1>5, <1>6, <2>1, <2>2, <2>3, <2>4 DEF FrameInv, PcsOf, Getters
<1>14. CASE ReadValue(t)
  BY <1>1, <1>2, <1>3, <1>14, ReturnStack DEF ReadValue
<1>15. CASE GetTempDirFileDesc(t)
  <2>1. In(t, "temp") /\ fr.op = "OpenDir" /\ fr.pc = "temp"
    BY <1>15, InnermostCall DEF GetTempDirFileDesc, PcsOf, Getters
  <2>2. ~(obj[f].temp \/ obj[f].fd) /\ new.pc = "resolve"
    BY <1>1, <1>2, <1>3, <1>15, ReturnStack, GotoStack DEF GetTempDirFileDesc, Pcs
  <2>3. f # Root
    BY <2>2 DEF IInv, BitsInv
  <2> QED
    BY <1>4, <1>5, <1>6, <2>1, <2>2, <2>3 DEF FrameInv, PcsOf
<1>16. CASE OpenTempDir(t)
  BY <1>1, <1>2, <1>3, <1>16, ReturnStack DEF OpenTempDir
<1> QED
  BY <1>7, <1>8, <1>9, <1>10, <1>11, <1>12, <1>13, <1>14, <1>15, <1>16 DEF CallStep

LEMMA CallFrames ==
  ASSUME IInv, NEW t \in Threads, CallStep(t), UNCHANGED faults
  PROVE  FramesInv'
<1>1. TypeInv' /\ CallEffect(t)
  BY CallTypes
<1>2. SUFFICES ASSUME NEW u \in Threads, NEW n \in 1..Len(stack'[u]),
                      NEW new, new = stack'[u][n]
               PROVE  FrameInv(new)'
  BY DEF FramesInv
<1>3. CASE u = t /\ n = 1 /\ Moved(t)
  BY <1>2, <1>3, NextPlace
<1>4. CASE u = t /\ n \in {1, 2} /\ Pushed(t) /\ In(t, "resolve")
  <2>1. /\ Of(t) \in Files \ {Root} /\ Op(t) \in {"GetPath", "GetFileDescriptor", "OpenDir"}
        /\ FrameInv(stack[t][1]) /\ stack[t][1].of = Of(t) /\ stack[t][1].op = Op(t)
        /\ ~Idle(t)
    BY <1>4, InnermostCall DEF PcsOf, Getters
  <2>2. ResolvePath(t)
    BY <1>4 DEF CallStep, FirstCheck, LockAndCheck, AppendPath, OpenFile, LazyLoadStatInfo,
                Publish, ReadValue, GetTempDirFileDesc, OpenTempDir, In
  <2>3. ~HasPath(Of(t))
    <3>1. ASSUME HasPath(Of(t)) PROVE FALSE
      <4>1. AfterResolve[Op(t)] \in Pcs /\ Goto(t, AfterResolve[Op(t)])
        BY <2>1, <2>2, <3>1 DEF ResolvePath, Goto, AfterResolve, Pcs
      <4>2. Moved(t) /\ Len(stack[t]) \in Nat
        BY <2>1, <4>1, GotoStack, FrameTypes DEF IInv
      <4> QED
        BY <1>4, <4>2 DEF Moved, Pushed
    <3> QED
      BY <3>1
  <2>4. Made(Of(t)) /\ Made(AtDir[Of(t)]) /\ AtDir[Of(t)] \in Files
    BY <2>1, MadeDirectory DEF FrameInv
  <2>5. \A g \in Files : Made(g)' <=> Made(g)
    BY CallKeepsMade
  <2>6. CASE n = 1
    <3>1. new.op = "GetPath" /\ new.of = AtDir[Of(t)] /\ new.pc = "check"
      BY <1>2, <1>4, <2>6 DEF Pushed, Frame
    <3>2. Made(new.of)'
      BY <2>4, <2>5, <3>1
    <3> QED
      BY <3>1, <3>2 DEF FrameInv, PcsOf
  <2>7. CASE n = 2
    <3>1. new.op = Op(t) /\ new.of = Of(t) /\ new.pc = "append"
      BY <1>2, <1>4, <2>1, <2>7 DEF Pushed
    <3>2. Made(new.of)'
      BY <2>1, <2>4, <2>5, <3>1
    <3>3. obj' = obj
      BY <2>2 DEF ResolvePath
    <3> QED
      BY <2>1, <2>3, <3>1, <3>2, <3>3 DEF FrameInv, PcsOf, HasPath
  <2> QED
    BY <1>4, <2>6, <2>7
<1>5. ASSUME NEW m \in 1..Len(stack[u]), new = stack[u][m], u = t => m # 1
      PROVE  FrameInv(new)'
  <2>1. new \in Frames /\ FrameInv(new) /\ new.of \in Files /\ Made(new.of)
    BY <1>5, FrameTypes DEF IInv, FramesInv, FrameInv, Frames
  <2>2. Made(new.of)'
    BY <2>1, CallKeepsMade
  <2>3. new.pc = "append" => ~HasPath(new.of)'
    <3>1. ASSUME new.pc = "append", In(t, "append"), new.of = Of(t) PROVE FALSE
      <4>1. 1 \in 1..Len(stack[t]) /\ stack[t][1].pc = "append" /\ stack[t][1].of = Of(t)
        BY <3>1, InnermostCall
      <4> QED
        BY <1>5, <3>1, <4>1, OneInside DEF Inside
    <3>2. new.pc = "append" => obj'[new.of].path = obj[new.of].path
      BY <1>1, <2>1, <3>1 DEF CallEffect
    <3> QED
      BY <2>1, <3>2 DEF FrameInv, HasPath
  <2> QED
    BY <1>1, <2>1, <2>2, <2>3, FrameKept DEF CallEffect
<1> QED
  BY <1>2, <1>3, <1>4, <1>5, OldCalls

\* A step that takes no mutex: the calls that hold one are those before it, but for the one
\* that gives its mutex back.
LEMMA MutexStep ==
  ASSUME MutexInv, TypeInv, TypeInv', NEW t \in Threads, NEW shift \in {-1, 0, 1},
         NEW released \in SUBSET Files,
         \A u \in Threads \ {t} : stack'[u] = stack[u],
         \A f \in Files : mutex'[f] = IF f \in released THEN Nobody ELSE mutex[f],
         \A f \in released : mutex[f] = t,
         \A n \in 1..Len(stack'[t]) : Locks(stack'[t][n]) =>
            /\ n + shift \in 1..Len(stack[t]) /\ Locks(stack[t][n + shift])
            /\ stack'[t][n].of = stack[t][n + shift].of
            /\ stack'[t][n].of \notin released,
         \A m \in 1..Len(stack[t]) : Locks(stack[t][m]) /\ stack[t][m].of \notin released =>
            /\ m - shift \in 1..Len(stack'[t]) /\ Locks(stack'[t][m - shift])
            /\ stack'[t][m - shift].of = stack[t][m].of
  PROVE  MutexInv'
<1>1. \A u \in Threads : /\ Len(stack[u]) \in Nat /\ Len(stack'[u]) \in Nat
                         /\ \A n \in 1..Len(stack'[u]) : stack'[u][n].of \in Files
                         /\ \A n \in 1..Len(stack[u]) : stack[u][n].of \in Files
  <2> TAKE u \in Threads
  <2>1. stack[u] \in Seq(Frames) /\ stack'[u] \in Seq(Frames)
    BY DEF TypeInv
  <2> QED
    BY <2>1, StackTypes
<1>2. ASSUME NEW u \in Threads, NEW n \in 1..Len(stack'[u]), Locks(stack'[u][n])
      PROVE  /\ mutex'[stack'[u][n].of] = u
             /\ \A m \in 1..Len(stack'[u]) :
                  Locks(stack'[u][m]) /\ stack'[u][m].of = stack'[u][n].of => m = n
  <2>1. CASE u # t
    <3>1. stack'[u] = stack[u]
      BY <2>1
    <3>2. mutex[stack[u][n].of] = u
      BY <1>2, <3>1 DEF MutexInv
    <3>3. mutex'[stack[u][n].of] = u
      BY <1>1, <1>2, <2>1, <3>1, <3>2
    <3> QED
      BY <1>2, <3>1, <3>3 DEF MutexInv
  <2>2. CASE u = t
    <3>1. /\ n + shift \in 1..Len(stack[t]) /\ Locks(stack[t][n + shift])
          /\ stack'[t][n].of = stack[t][n + shift].of /\ stack'[t][n].of \notin released
      BY <1>2, <2>2
    <3>2. mutex[stack'[t][n].of] = t
      BY <3>1 DEF MutexInv
    <3>3. mutex'[stack'[t][n].of] = t
      BY <1>1, <2>2, <3>1, <3>2
    <3>4. ASSUME NEW m \in 1..Len(stack'[t]), Locks(stack'[t][m]), stack'[t][m].of = stack'[t][n].of
          PROVE  m = n
      <4>1. /\ m + shift \in 1..Len(stack[t]) /\ Locks(stack[t][m + shift])
            /\ stack[t][m + shift].of = stack[t][n + shift].of
        BY <3>1, <3>4
      <4>2. m + shift = n + shift
        BY <3>1, <4>1 DEF MutexInv
      <4> QED
        BY <4>2, <1>1, <2>2
    <3> QED
      BY <2>2, <3>3, <3>4
  <2> QED
    BY <2>1, <2>2
<1>3. ASSUME NEW f \in Files, mutex'[f] # Nobody
      PROVE  \E n \in 1..Len(stack'[mutex'[f]]) :
               stack'[mutex'[f]][n].of = f /\ Locks(stack'[mutex'[f]][n])
  <2>1. f \notin released /\ mutex'[f] = mutex[f] /\ mutex[f] # Nobody
    BY <1>3
  <2>2. PICK m \in 1..Len(stack[mutex[f]]) :
               stack[mutex[f]][m].of = f /\ Locks(stack[mutex[f]][m])
    BY <2>1 DEF MutexInv
  <2>3. mutex[f] \in Threads
    BY <2>1 DEF TypeInv
  <2>4. CASE mutex[f] # t
    BY <2>1, <2>2, <2>3, <2>4
  <2>5. CASE mutex[f] = t
    BY <2>1, <2>2, <2>5
  <2> QED
    BY <2>4, <2>5
<1> QED
  BY <1>2, <1>3 DEF MutexInv

LEMMA CallMutex ==
  ASSUME IInv, NEW t \in Threads, CallStep(t), UNCHANGED faults
  PROVE  MutexInv'
<1> PICK fr : fr = stack[t][1]
  OBVIOUS
<1> PICK f : f = Of(t)
  OBVIOUS
<1> PICK new : new = stack'[t][1]
  OBVIOUS
<1> PICK none : none = {}
  OBVIOUS
<1>1. /\ MutexInv /\ TypeInv /\ TypeInv' /\ Len(stack[t]) \in Nat
      /\ \A u \in Threads \ {t} : stack'[u] = stack[u]
  BY CallTypes, FrameTypes DEF IInv, CallEffect
<1>2. ~Idle(t)
  BY DEF CallStep, FirstCheck, LockAndCheck, ResolvePath, AppendPath, OpenFile, LazyLoadStatInfo,
         Publish, ReadValue, GetTempDirFileDesc, OpenTempDir, In, Idle
<1>3. /\ Head(stack[t]) = fr /\ fr \in Frames /\ FrameInv(fr) /\ 1 \in 1..Len(stack[t])
      /\ f = fr.of /\ Op(t) = fr.op /\ f \in Files
  BY <1>2, FrameTypes DEF IInv, FramesInv, Of, Op, Frames
<1>4. \A n \in 1..Len(stack[t]) : Locks(fr) /\ Locks(stack[t][n]) /\ stack[t][n].of = f => n = 1
  BY <1>1, <1>3 DEF MutexInv
<1>5. ASSUME mutex' = mutex, Moved(t), Locks(new) <=> Locks(fr)
      PROVE  MutexInv'
  <2>1. \A n \in 1..Len(stack'[t]) :
          /\ n \in 1..Len(stack[t]) /\ stack'[t][n].of = stack[t][n].of
          /\ Locks(stack'[t][n]) <=> Locks(stack[t][n])
    BY <1>1, <1>3, <1>5 DEF Moved
  <2>2. Len(stack'[t]) = Len(stack[t])
    BY <1>5 DEF Moved
  <2>7. \A g \in Files : mutex'[g] = IF g \in none THEN Nobody ELSE mutex[g]
    BY <1>5
  <2>8. \A n \in 1..Len(stack'[t]) : Locks(stack'[t][n]) =>
            /\ n + 0 \in 1..Len(stack[t]) /\ Locks(stack[t][n + 0])
            /\ stack'[t][n].of = stack[t][n + 0].of
            /\ stack'[t][n].of \notin none
    BY <1>1, <2>1, <2>2
  <2>9. \A m \in 1..Len(stack[t]) : Locks(stack[t][m]) /\ stack[t][m].of \notin none =>
            /\ m - 0 \in 1..Len(stack'[t]) /\ Locks(stack'[t][m - 0])
            /\ stack'[t][m - 0].of = stack[t][m].of
    BY <1>1, <2>1, <2>2
  <2>10. 0 \in {-1, 0, 1} /\ none \subseteq Files /\ \A g \in none : mutex[g] = t
    BY <1>1
  <2> QED
    BY ONLY <1>1, <2>7, <2>8, <2>9, <2>10, t \in Threads, MutexStep
<1>6. ASSUME mutex' = [mutex EXCEPT ![f] = Nobody], Moved(t), ~Locks(new), Locks(fr)
      PROVE  MutexInv'
  <2>1. /\ Len(stack'[t]) = Len(stack[t])
        /\ \A n \in 2..Len(stack[t]) : stack'[t][n] = stack[t][n]
    BY <1>6 DEF Moved
  <2>2. mutex[f] = t
    BY <1>3, <1>6 DEF IInv, MutexInv
  <2>3. \A g \in Files : mutex'[g] = IF g \in {f} THEN Nobody ELSE mutex[g]
    BY <1>1, <1>6 DEF TypeInv
  <2>4. ASSUME NEW n \in 1..Len(stack'[t]), Locks(stack'[t][n])
        PROVE  n \in 1..Len(stack[t]) /\ n # 1 /\ stack'[t][n] = stack[t][n]
               /\ stack[t][n].of # f
    BY <1>1, <1>4, <1>6, <2>1, <2>4
  <2>5. ASSUME NEW m \in 1..Len(stack[t]), Locks(stack[t][m]), stack[t][m].of # f
        PROVE  m \in 1..Len(stack'[t]) /\ stack'[t][m] = stack[t][m]
    BY <1>1, <1>3, <2>1, <2>5
  <2>7. \A g \in Files : mutex'[g] = IF g \in {f} THEN Nobody ELSE mutex[g]
    BY <2>3
  <2>8. \A n \in 1..Len(stack'[t]) : Locks(stack'[t][n]) =>
            /\ n + 0 \in 1..Len(stack[t]) /\ Locks(stack[t][n + 0])
            /\ stack'[t][n].of = stack[t][n + 0].of
            /\ stack'[t][n].of \notin {f}
    BY <1>1, <2>1, <2>4
  <2>9. \A m \in 1..Len(stack[t]) : Locks(stack[t][m]) /\ stack[t][m].of \notin {f} =>
            /\ m - 0 \in 1..Len(stack'[t]) /\ Locks(stack'[t][m - 0])
            /\ stack'[t][m - 0].of = stack[t][m].of
    BY <1>1, <2>1, <2>5
  <2>10. 0 \in {-1, 0, 1} /\ {f} \subseteq Files /\ \A g \in {f} : mutex[g] = t
    BY <1>3, <2>2
  <2> QED
    BY ONLY <1>1, <2>7, <2>8, <2>9, <2>10, t \in Threads, MutexStep
<1>7. ASSUME mutex' = [mutex EXCEPT ![f] = Nobody], Returned(t), Locks(fr)
      PROVE  MutexInv'
  <2>1. /\ Len(stack'[t]) = Len(stack[t]) - 1
        /\ \A n \in 1..Len(stack'[t]) : stack'[t][n] = stack[t][n + 1]
    BY <1>7 DEF Returned
  <2>2. mutex[f] = t
    BY <1>3, <1>7 DEF IInv, MutexInv
  <2>3. \A g \in Files : mutex'[g] = IF g \in {f} THEN Nobody ELSE mutex[g]
    BY <1>1, <1>7 DEF TypeInv
  <2>4. ASSUME NEW n \in 1..Len(stack'[t]), Locks(stack'[t][n])
        PROVE  n + 1 \in 1..Len(stack[t]) /\ stack'[t][n] = stack[t][n + 1]
               /\ stack[t][n + 1].of # f
    <3>1. n + 1 \in 1..Len(stack[t]) /\ n + 1 # 1 /\ stack'[t][n] = stack[t][n + 1]
      BY <1>1, <2>1
    <3> QED
      BY <1>4, <1>7, <2>4, <3>1
  <2>5. ASSUME NEW m \in 1..Len(stack[t]), Locks(stack[t][m]), stack[t][m].of # f
        PROVE  m - 1 \in 1..Len(stack'[t]) /\ stack'[t][m - 1] = stack[t][m]
    BY <1>1, <1>3, <2>1, <2>5
  <2>7. \A g \in Files : mutex'[g] = IF g \in {f} THEN Nobody ELSE mutex[g]
    BY <2>3
  <2>8. \A n \in 1..Len(stack'[t]) : Locks(stack'[t][n]) =>
            /\ n + 1 \in 1..Len(stack[t]) /\ Locks(stack[t][n + 1])
            /\ stack'[t][n].of = stack[t][n + 1].of
            /\ stack'[t][n].of \notin {f}
    BY <2>4
  <2>9. \A m \in 1..Len(stack[t]) : Locks(stack[t][m]) /\ stack[t][m].of \notin {f} =>
            /\ m - 1 \in 1..Len(stack'[t]) /\ Locks(stack'[t][m - 1])
            /\ stack'[t][m - 1].of = stack[t][m].of
    BY <2>5
  <2>10. 1 \in {-1, 0, 1} /\ {f} \subseteq Files /\ \A g \in {f} : mutex[g] = t
    BY <1>3, <2>2
  <2> QED
    BY ONLY <1>1, <2>7, <2>8, <2>9, <2>10, t \in Threads, MutexStep
<1>8. ASSUME mutex' = mutex, Returned(t), ~Locks(fr)
      PROVE  MutexInv'
  <2>1. /\ Len(stack'[t]) = Len(stack[t]) - 1
        /\ \A n \in 1..Len(stack'[t]) : stack'[t][n] = stack[t][n + 1]
    BY <1>8 DEF Returned
  <2>4. ASSUME NEW n \in 1..Len(stack'[t])
        PROVE  n + 1 \in 1..Len(stack[t]) /\ stack'[t][n] = stack[t][n + 1]
    BY <1>1, <2>1
  <2>5. ASSUME NEW m \in 1..Len(stack[t]), Locks(stack[t][m])
        PROVE  m - 1 \in 1..Len(stack'[t]) /\ stack'[t][m - 1] = stack[t][m]
    BY <1>1, <1>3, <1>8, <2>1, <2>5
  <2>7. \A g \in Files : mutex'[g] = IF g \in none THEN Nobody ELSE mutex[g]
    BY <1>8
  <2>8. \A n \in 1..Len(stack'[t]) : Locks(stack'[t][n]) =>
            /\ n + 1 \in 1..Len(stack[t]) /\ Locks(stack[t][n + 1])
            /\ stack'[t][n].of = stack[t][n + 1].of
            /\ stack'[t][n].of \notin none
    BY <2>4
  <2>9. \A m \in 1..Len(stack[t]) : Locks(stack[t][m]) /\ stack[t][m].of \notin none =>
            /\ m - 1 \in 1..Len(stack'[t]) /\ Locks(stack'[t][m - 1])
            /\ stack'[t][m - 1].of = stack[t][m].of
    BY <2>5
  <2>10. 1 \in {-1, 0, 1} /\ none \subseteq Files /\ \A g \in none : mutex[g] = t
    BY <1>1
  <2> QED
    BY ONLY <1>1, <2>7, <2>8, <2>9, <2>10, t \in Threads, MutexStep
<1>9. ASSUME mutex' = mutex, Pushed(t), In(t, "resolve")
      PROVE  MutexInv'
  <2>1. /\ Len(stack'[t]) = Len(stack[t]) + 1
        /\ stack'[t][1] = Frame("GetPath", AtDir[Of(t)])
        /\ stack'[t][2].op = fr.op /\ stack'[t][2].of = fr.of /\ stack'[t][2].pc = "append"
        /\ \A n \in 3..Len(stack'[t]) : stack'[t][n] = stack[t][n - 1]
    BY <1>9 DEF Pushed
  <2>2. ~Locks(stack'[t][1]) /\ (Locks(stack'[t][2]) <=> Locks(fr))
    BY <1>3, <1>9, <2>1 DEF Locks, Inside, Frame, In
  <2>4. ASSUME NEW n \in 1..Len(stack'[t]), Locks(stack'[t][n])
        PROVE  n - 1 \in 1..Len(stack[t]) /\ stack'[t][n].of = stack[t][n - 1].of
               /\ Locks(stack[t][n - 1])
    <3>1. CASE n = 2
      BY <1>1, <1>3, <2>1, <2>2, <2>4, <3>1
    <3>2. CASE n # 2
      <4>1. n # 1 /\ n \in 3..Len(stack'[t])
        BY <1>1, <2>1, <2>2, <2>4, <3>2
      <4>2. stack'[t][n] = stack[t][n - 1] /\ n - 1 \in 1..Len(stack[t])
        BY <1>1, <2>1, <4>1
      <4> QED
        BY <2>4, <4>2
    <3> QED
      BY <3>1, <3>2
  <2>5. ASSUME NEW m \in 1..Len(stack[t]), Locks(stack[t][m])
        PROVE  m + 1 \in 1..Len(stack'[t]) /\ stack'[t][m + 1].of = stack[t][m].of
               /\ Locks(stack'[t][m + 1])
    <3>1. CASE m = 1
      BY <1>1, <2>1, <2>2, <2>5, <3>1
    <3>2. CASE m # 1
      <4>1. m + 1 \in 3..Len(stack'[t]) /\ (m + 1) - 1 = m
        BY <1>1, <2>1, <3>2
      <4>2. stack'[t][m + 1] = stack[t][m]
        BY <2>1, <4>1
      <4> QED
        BY <2>5, <4>1, <4>2
    <3> QED
      BY <3>1, <3>2
  <2>6. (\A m \in 1..Len(stack[t]) : m - (-1) = m + 1)
        /\ \A n \in 1..Len(stack'[t]) : n + (-1) = n - 1
    BY <1>1, <2>1
  <2>7. \A g \in Files : mutex'[g] = IF g \in none THEN Nobody ELSE mutex[g]
    BY <1>9
  <2>8. \A n \in 1..Len(stack'[t]) : Locks(stack'[t][n]) =>
            /\ n + (-1) \in 1..Len(stack[t]) /\ Locks(stack[t][n + (-1)])
            /\ stack'[t][n].of = stack[t][n + (-1)].of
            /\ stack'[t][n].of \notin none
    BY <2>4, <2>6
  <2>9. \A m \in 1..Len(stack[t]) : Locks(stack[t][m]) /\ stack[t][m].of \notin none =>
            /\ m - (-1) \in 1..Len(stack'[t]) /\ Locks(stack'[t][m - (-1)])
            /\ stack'[t][m - (-1)].of = stack[t][m].of
    BY <2>5, <2>6
  <2>10. (-1) \in {-1, 0, 1} /\ none \subseteq Files /\ \A g \in none : mutex[g] = t
    BY <1>1
  <2> QED
    BY ONLY <1>1, <2>7, <2>8, <2>9, <2>10, t \in Threads, MutexStep
<1>10. ASSUME NEW pc \in Pcs, Goto(t, pc)
       PROVE  Moved(t) /\ new.pc = pc /\ new.op = fr.op /\ new.of = f
  <2>1. Moved(t) /\ new.pc = pc
    BY <1>1, <1>2, <1>10, GotoStack
  <2> QED
    BY <1>3, <2>1 DEF Moved
<1>11. Return(t) => Returned(t)
  BY <1>1, <1>2, ReturnStack
<1>12. CASE FirstCheck(t)
  <2>1. mutex' = mutex /\ fr.pc = "check" /\ (Goto(t, "read") \/ Goto(t, "lock"))
    BY <1>3, <1>12 DEF FirstCheck, In
  <2>2. Moved(t) /\ new.pc \in {"read", "lock"}
    BY <1>10, <2>1 DEF Pcs
  <2> QED
    BY <1>5, <2>1, <2>2 DEF Locks, Inside
<1>13. CASE LockAndCheck(t)
  <2>1. fr.pc = "lock" /\ mutex[f] = Nobody /\ ~Locks(fr)
    BY <1>3, <1>13 DEF LockAndCheck, In, Locks, Inside
  <2>2. CASE mutex' = mutex /\ Goto(t, "read")
    <3>1. Moved(t) /\ new.pc = "read"
      BY <1>10, <2>2 DEF Pcs
    <3> QED
      BY <1>5, <2>1, <2>2, <3>1 DEF Locks, Inside
  <2>3. CASE mutex' = [mutex EXCEPT ![f] = t] /\ Goto(t, CacheFiller(Op(t)))
    <3>1. Moved(t) /\ new.pc \in {"resolve", "stat"} /\ new.op = fr.op /\ new.of = f
      BY <1>10, <2>3 DEF Pcs, CacheFiller
    <3>2. Locks(new)
      <4>1. fr.op # "OpenDir"
        BY <1>3, <2>1 DEF FrameInv, PcsOf
      <4> QED
        BY <3>1, <4>1 DEF Locks, Inside
    <3>3. /\ Len(stack'[t]) = Len(stack[t])
          /\ \A n \in 2..Len(stack[t]) : stack'[t][n] = stack[t][n]
      BY <3>1 DEF Moved
    <3>4. \A u \in Threads : \A n \in 1..Len(stack[u]) : Locks(stack[u][n]) =>
             stack[u][n].of # f /\ mutex[stack[u][n].of] = u /\ stack[u][n].of \in Files
      <4> SUFFICES ASSUME NEW u \in Threads, NEW n \in 1..Len(stack[u]), Locks(stack[u][n])
                   PROVE  stack[u][n].of # f /\ mutex[stack[u][n].of] = u
                          /\ stack[u][n].of \in Files
        OBVIOUS
      <4>1. mutex[stack[u][n].of] = u /\ stack[u][n].of \in Files
        BY FrameTypes DEF IInv, MutexInv, Frames
      <4>2. u # Nobody
        BY ThreadsAssumption DEF Threads
      <4> QED
        BY <2>1, <4>1, <4>2
    <3>5. mutex'[f] = t /\ \A g \in Files \ {f} : mutex'[g] = mutex[g]
      BY <1>1, <1>3, <2>3 DEF TypeInv
    <3>6. ASSUME NEW u \in Threads, NEW n \in 1..Len(stack'[u]), Locks(stack'[u][n])
          PROVE  /\ mutex'[stack'[u][n].of] = u
                 /\ \A m \in 1..Len(stack'[u]) :
                      Locks(stack'[u][m]) /\ stack'[u][m].of = stack'[u][n].of => m = n
      <4>1. CASE u # t
        <5>1. stack'[u] = stack[u]
          BY <1>1, <4>1
        <5>2. mutex'[stack[u][n].of] = u
          BY <3>4, <3>5, <3>6, <5>1
        <5> QED
          BY <3>6, <5>1, <5>2 DEF IInv, MutexInv
      <4>2. CASE u = t /\ n = 1
        <5>1. \A m \in 2..Len(stack[t]) : Locks(stack'[t][m]) => stack'[t][m].of # f
          BY <1>1, <3>3, <3>4
        <5> QED
          BY <1>1, <3>1, <3>3, <3>5, <4>2, <5>1
      <4>3. CASE u = t /\ n # 1
        <5>1. n \in 2..Len(stack[t]) /\ stack'[t][n] = stack[t][n] /\ n \in 1..Len(stack[t])
          BY <1>1, <3>3, <4>3
        <5>2. mutex'[stack[t][n].of] = t /\ stack[t][n].of # f
          BY <3>4, <3>5, <3>6, <4>3, <5>1
        <5>3. ASSUME NEW m \in 1..Len(stack'[t]), Locks(stack'[t][m]),
                     stack'[t][m].of = stack'[t][n].of
              PROVE  m = n
          <6>1. m # 1
            BY <3>1, <5>1, <5>2, <5>3
          <6>2. m \in 1..Len(stack[t]) /\ stack'[t][m] = stack[t][m]
            BY <1>1, <3>3, <6>1
          <6> QED
            BY <3>6, <4>3, <5>1, <5>3, <6>2 DEF IInv, MutexInv
        <5> QED
          BY <4>3, <5>1, <5>2, <5>3
      <4> QED
        BY <4>1, <4>2, <4>3
    <3>7. ASSUME NEW g \in Files, mutex'[g] # Nobody
          PROVE  \E n \in 1..Len(stack'[mutex'[g]]) :
                   stack'[mutex'[g]][n].of = g /\ Locks(stack'[mutex'[g]][n])
      <4>1. CASE g = f
        BY <1>1, <1>3, <3>1, <3>2, <3>3, <3>5, <4>1
      <4>2. CASE g # f
        <5>1. mutex'[g] = mutex[g]
          BY <3>5, <4>2
        <5>2. PICK n \in 1..Len(stack[mutex[g]]) :
                     stack[mutex[g]][n].of = g /\ Locks(stack[mutex[g]][n])
          BY <3>7, <5>1 DEF IInv, MutexInv
        <5>3. mutex[g] \in Threads
          BY <1>1, <3>7, <5>1 DEF TypeInv
        <5>4. CASE mutex[g] # t
          BY <1>1, <5>1, <5>2, <5>3, <5>4
        <5>5. CASE mutex[g] = t
          <6>1. n # 1
            BY <1>3, <2>1, <5>2, <5>5
          <6>2. n \in 1..Len(stack'[t]) /\ stack'[t][n] = stack[t][n]
            BY <1>1, <3>3, <5>2, <5>5, <6>1
          <6> QED
            BY <5>1, <5>2, <5>5, <6>2
        <5> QED
          BY <5>4, <5>5
      <4> QED
        BY <4>1, <4>2
    <3> QED
      BY <3>6, <3>7 DEF MutexInv
  <2> QED
    BY <1>13, <2>2, <2>3 DEF LockAndCheck
<1>14. CASE ResolvePath(t)
  <2>1. In(t, "resolve") /\ mutex' = mutex /\ fr.pc = "resolve"
        /\ Op(t) \in {"GetPath", "GetFileDescriptor", "OpenDir"} /\ f # Root
    BY <1>3, <1>14, InnermostCall DEF ResolvePath, PcsOf, Getters
  <2>2. CASE HasPath(f)
    <3>1. AfterResolve[Op(t)] \in Pcs /\ Goto(t, AfterResolve[Op(t)])
      BY <1>14, <2>1, <2>2 DEF ResolvePath, Goto, AfterResolve, Pcs
    <3>2. Moved(t) /\ new.pc = AfterResolve[Op(t)] /\ new.op = fr.op
      BY <1>10, <3>1
    <3>3. Locks(new) <=> Locks(fr)
      BY <1>3, <2>1, <3>2 DEF Locks, Inside, AfterResolve
    <3> QED
      BY <1>5, <2>1, <3>2, <3>3
  <2>3. CASE ~HasPath(f)
    <3>1. Pushed(t)
      BY <1>1, <1>2, <1>14, <2>1, <2>3, PushStack DEF ResolvePath
    <3> QED
      BY <1>9, <2>1, <3>1
  <2> QED
    BY <2>2, <2>3
<1>15. CASE AppendPath(t)
  <2>1. In(t, "append") /\ mutex' = mutex /\ fr.pc = "append"
    BY <1>3, <1>15 DEF AppendPath, In
  <2>9. Op(t) \in {"GetPath", "GetFileDescriptor", "OpenDir"}
    BY <2>1, InnermostCall DEF PcsOf, Getters
  <2>2. AfterResolve[Op(t)] \in Pcs /\ Goto(t, AfterResolve[Op(t)])
    BY <1>15, <2>9 DEF AppendPath, Goto, AfterResolve, Pcs
  <2>3. Moved(t) /\ new.pc = AfterResolve[Op(t)] /\ new.op = fr.op
    BY <1>10, <2>2
  <2>4. Locks(new) <=> Locks(fr)
    BY <1>3, <2>1, <2>3, <2>9 DEF Locks, Inside, AfterResolve
  <2> QED
    BY <1>5, <2>1, <2>3, <2>4
<1>16. CASE OpenFile(t)
  <2>1. fr.pc = "open" /\ fr.op = "GetFileDescriptor" /\ Locks(fr)
    BY <1>3, <1>16, InnermostCall DEF OpenFile, PcsOf, Getters, Locks, Inside
  <2>2. CASE mutex' = [mutex EXCEPT ![f] = Nobody] /\ Return(t)
    BY <1>7, <1>11, <2>1, <2>2
  <2>3. CASE mutex' = mutex /\ Goto(t, "publish")
    <3>1. Moved(t) /\ new.pc = "publish" /\ new.op = fr.op
      BY <1>10, <2>3 DEF Pcs
    <3> QED
      BY <1>5, <2>1, <2>3, <3>1 DEF Locks, Inside
  <2> QED
    BY <1>16, <2>2, <2>3 DEF OpenFile, Unwind
<1>17. CASE LazyLoadStatInfo(t)
  <2>1. fr.pc = "stat" /\ mutex' = mutex /\ Goto(t, "publish")
    BY <1>3, <1>17 DEF LazyLoadStatInfo, In
  <2>2. Moved(t) /\ new.pc = "publish" /\ new.op = fr.op
    BY <1>10, <2>1 DEF Pcs
  <2> QED
    BY <1>5, <2>1, <2>2 DEF Locks, Inside
<1>18. CASE Publish(t)
  <2>0. fr.pc = "publish" /\ mutex' = [mutex EXCEPT ![f] = Nobody] /\ Goto(t, "read")
    BY <1>3, <1>18 DEF Publish, In
  <2>1. fr.op # "OpenDir"
    BY <1>3, <2>0 DEF FrameInv, PcsOf
  <2>2. Moved(t) /\ new.pc = "read"
    BY <1>10, <2>0 DEF Pcs
  <2> QED
    BY <1>6, <2>0, <2>1, <2>2 DEF Locks, Inside
<1>19. CASE ReadValue(t)
  <2>1. fr.pc = "read" /\ mutex' = mutex /\ Return(t)
    BY <1>3, <1>19 DEF ReadValue, In
  <2> QED
    BY <1>8, <1>11, <2>1 DEF Locks, Inside
<1>20. CASE GetTempDirFileDesc(t)
  <2>1. fr.pc = "temp" /\ mutex' = mutex /\ fr.op = "OpenDir"
        /\ (Return(t) \/ Goto(t, "resolve"))
    BY <1>3, <1>20, InnermostCall DEF GetTempDirFileDesc, PcsOf, Getters
  <2>2. CASE Return(t)
    BY <1>8, <1>11, <2>1, <2>2 DEF Locks
  <2>3. CASE Goto(t, "resolve")
    <3>1. Moved(t) /\ new.op = fr.op
      BY <1>10, <2>3 DEF Pcs
    <3> QED
      BY <1>5, <2>1, <3>1 DEF Locks
  <2> QED
    BY <2>1, <2>2, <2>3
<1>21. CASE OpenTempDir(t)
  <2>1. fr.op = "OpenDir" /\ mutex' = mutex /\ Return(t)
    BY <1>3, <1>21, InnermostCall DEF OpenTempDir, PcsOf, Getters
  <2> QED
    BY <1>8, <1>11, <2>1 DEF Locks
<1> QED
  BY <1>12, <1>13, <1>14, <1>15, <1>16, <1>17, <1>18, <1>19, <1>20, <1>21 DEF CallStep

\* How a call ends.
LEMMA Answered ==
  ASSUME IInv, NEW t \in Threads, CallStep(t), UNCHANGED faults, Returned(t)
  PROVE  LET fr == stack[t][1] IN
         \/ /\ fr.pc = "read" /\ fr.op \in Getters /\ UNCHANGED <<obj, valid, job>>
            /\ Wants[fr.op] \in valid[fr.of]
         \/ /\ fr.op = "OpenDir" /\ UNCHANGED <<valid, job>>
            /\ fr.of = Root => obj'[Root].temp
         \/ /\ fr.pc = "open" /\ fr.op = "GetFileDescriptor" /\ UNCHANGED <<obj, valid>>
            /\ job'[t] = [job[t] EXCEPT !.at = "threw"]
<1> PICK fr : fr = stack[t][1]
  OBVIOUS
<1>1. TypeInv /\ Len(stack[t]) \in Nat /\ ~Moved(t) /\ ~Pushed(t)
  BY FrameTypes DEF IInv, Returned, Moved, Pushed
<1>2. ~Idle(t)
  BY DEF CallStep, FirstCheck, LockAndCheck, ResolvePath, AppendPath, OpenFile, LazyLoadStatInfo,
         Publish, ReadValue, GetTempDirFileDesc, OpenTempDir, In, Idle
<1>3. /\ Head(stack[t]) = fr /\ fr \in Frames /\ FrameInv(fr) /\ Of(t) = fr.of /\ Op(t) = fr.op
      /\ fr.of \in Files
  BY <1>2, FrameTypes DEF IInv, FramesInv, Of, Op, Frames
<1>4. \A pc \in Pcs : ~Goto(t, pc)
  BY <1>1, <1>2, GotoStack
<1>5. ~ResolvePath(t) /\ ~AppendPath(t)
  <2>1. ASSUME In(t, "resolve") \/ In(t, "append") PROVE AfterResolve[Op(t)] \in Pcs
    <3>1. Op(t) \in {"GetPath", "GetFileDescriptor", "OpenDir"}
      BY <2>1, InnermostCall DEF PcsOf, Getters
    <3> QED
      BY <3>1 DEF AfterResolve, Pcs
  <2>2. ~AppendPath(t)
    BY <1>4, <2>1 DEF AppendPath
  <2>3. ASSUME ResolvePath(t) PROVE FALSE
    <3>1. In(t, "resolve") /\ Of(t) # Root
      BY <2>3, InnermostCall DEF ResolvePath
    <3>2. CASE HasPath(Of(t))
      BY <1>4, <2>1, <2>3, <3>1, <3>2 DEF ResolvePath, Goto
    <3>3. CASE ~HasPath(Of(t))
      BY <1>1, <1>2, <2>3, <3>1, <3>3, PushStack DEF ResolvePath
    <3> QED
      BY <3>2, <3>3
  <2> QED
    BY <2>2, <2>3
<1>6. ~FirstCheck(t) /\ ~LockAndCheck(t) /\ ~LazyLoadStatInfo(t) /\ ~Publish(t)
  BY <1>4 DEF FirstCheck, LockAndCheck, LazyLoadStatInfo, Publish, CacheFiller, Pcs
<1>7. CASE ReadValue(t)
  <2>1. In(t, "read") /\ fr.pc = "read" /\ UNCHANGED <<obj, valid, job>>
    BY <1>3, <1>7 DEF ReadValue, In
  <2>2. fr.op \in Getters /\ Wants[fr.op] \in valid[fr.of]
    BY <1>3, <2>1 DEF FrameInv, PcsOf, Frames
  <2> QED
    BY <2>1, <2>2
<1>8. CASE GetTempDirFileDesc(t)
  <2>1. fr.pc = "temp" /\ UNCHANGED <<valid, job>> /\ obj' = [obj EXCEPT ![fr.of].temp = TRUE]
    BY <1>3, <1>4, <1>8 DEF GetTempDirFileDesc, In, Pcs
  <2>2. fr.op = "OpenDir"
    BY <1>3, <2>1 DEF FrameInv, PcsOf, Frames, Getters
  <2>3. obj'[fr.of].temp
    BY <1>1, <1>3, <2>1, SetTemp
  <2> QED
    BY <2>1, <2>2, <2>3
<1>9. CASE OpenTempDir(t)
  <2>1. fr.pc = "opentemp" /\ UNCHANGED <<valid, job>>
    BY <1>3, <1>9 DEF OpenTempDir, In
  <2>2. fr.op = "OpenDir" /\ fr.of # Root
    BY <1>3, <2>1 DEF FrameInv, PcsOf, Frames, Getters
  <2> QED
    BY <2>1, <2>2
<1>10. CASE OpenFile(t)
  <2>1. fr.pc = "open" /\ UNCHANGED <<valid, obj>> /\ job' = [job EXCEPT ![t].at = "threw"]
    BY <1>3, <1>4, <1>10 DEF OpenFile, In, Pcs
  <2>2. fr.op = "GetFileDescriptor"
    BY <1>3, <2>1 DEF FrameInv, PcsOf, Frames, Getters
  <2>3. job'[t] = [job[t] EXCEPT !.at = "threw"]
    BY <1>1, <2>1 DEF TypeInv
  <2> QED
    BY <2>1, <2>2, <2>3
<1> QED
  BY <1>5, <1>6, <1>7, <1>8, <1>9, <1>10 DEF CallStep

\* Which call sets which bits and opens which descriptors.
LEMMA Published ==
  ASSUME IInv, NEW t \in Threads, CallStep(t), UNCHANGED faults, NEW f \in Files
  PROVE  /\ valid'[f] # valid[f] =>
              /\ f = Of(t) /\ Op(t) \in Getters /\ In(t, "publish") /\ obj' = obj
              /\ valid'[f] = valid[f] \cup Publishes(Op(t))
         /\ obj'[f].temp # obj[f].temp => f = Of(t) /\ Op(t) = "OpenDir" /\ ~Idle(t)
         /\ obj'[f].fd # obj[f].fd => f = Of(t) /\ Op(t) = "GetFileDescriptor" /\ ~Idle(t)
<1>1. TypeInv /\ f \in Files
  BY DEF IInv
<1>2. CASE Publish(t)
  <2>1. In(t, "publish") /\ obj' = obj /\ valid' = [valid EXCEPT ![Of(t)] = @ \cup Publishes(Op(t))]
    BY <1>2 DEF Publish
  <2>2. Op(t) \in Getters
    BY <2>1, InnermostCall DEF PcsOf
  <2> QED
    BY <1>1, <2>1, <2>2 DEF TypeInv
<1>3. CASE FirstCheck(t) \/ LockAndCheck(t) \/ ResolvePath(t) \/ ReadValue(t)
  BY <1>3 DEF FirstCheck, LockAndCheck, ResolvePath, ReadValue
<1>4. CASE AppendPath(t)
  <2>1. valid' = valid /\ Of(t) \in Files
    BY <1>4, InnermostCall DEF AppendPath
  <2> QED
    BY <1>1, <1>4, <2>1, AppendedPath
<1>5. CASE OpenFile(t)
  <2>1. valid' = valid /\ In(t, "open") /\ (obj' = obj \/ obj' = [obj EXCEPT ![Of(t)].fd = TRUE])
    BY <1>5 DEF OpenFile
  <2>2. Of(t) \in Files /\ Op(t) = "GetFileDescriptor" /\ ~Idle(t)
    BY <2>1, InnermostCall DEF PcsOf, Getters
  <2> QED
    BY <1>1, <2>1, <2>2, SetFd
<1>6. CASE LazyLoadStatInfo(t)
  <2>1. valid' = valid /\ Of(t) \in Files
        /\ \/ /\ obj' = [obj EXCEPT ![Of(t)].type = Kind[Of(t)], ![Of(t)].size = 1]
              /\ Of(t) \notin unstatable
           \/ obj' = [obj EXCEPT ![Of(t)].type = StatFailed]
    BY <1>6, InnermostCall DEF LazyLoadStatInfo, StatSucceeds
  <2> QED
    BY <1>1, <2>1, SetStat
<1>7. CASE GetTempDirFileDesc(t)
  <2>1. valid' = valid /\ In(t, "temp") /\ (obj' = obj \/ obj' = [obj EXCEPT ![Of(t)].temp = TRUE])
    BY <1>7 DEF GetTempDirFileDesc
  <2>2. Of(t) \in Files /\ Op(t) = "OpenDir" /\ ~Idle(t)
    BY <2>1, InnermostCall DEF PcsOf, Getters
  <2> QED
    BY <1>1, <2>1, <2>2, SetTemp
<1>8. CASE OpenTempDir(t)
  <2>1. valid' = valid /\ In(t, "opentemp")
        /\ obj' = [obj EXCEPT ![Of(t)].temp = Kind[Of(t)] = "dir" /\ Of(t) \notin unopenable]
    BY <1>8 DEF OpenTempDir
  <2>2. Of(t) \in Files /\ Op(t) = "OpenDir" /\ ~Idle(t)
        /\ (Kind[Of(t)] = "dir" /\ Of(t) \notin unopenable) \in BOOLEAN
    BY <2>1, InnermostCall DEF PcsOf, Getters
  <2> QED
    BY <1>1, <2>1, <2>2, SetTemp
<1> QED
  BY <1>2, <1>3, <1>4, <1>5, <1>6, <1>7, <1>8 DEF CallStep

\* The call a thread makes from its own code stays at the bottom until it returns.
LEMMA BottomKept ==
  ASSUME IInv, NEW t \in Threads, CallStep(t), UNCHANGED faults
  PROVE  /\ ~Idle(t)
         /\ ~Idle(t)' => /\ Bottom(t)'.op = Bottom(t).op /\ Bottom(t)'.of = Bottom(t).of
         /\ Idle(t)' => Returned(t) /\ stack[t][1] = Bottom(t)
<1>1. TypeInv /\ TypeInv' /\ (Moved(t) \/ (Pushed(t) /\ In(t, "resolve")) \/ Returned(t))
  BY CallTypes DEF IInv
<1>2. ~Idle(t)
  BY DEF CallStep, FirstCheck, LockAndCheck, ResolvePath, AppendPath, OpenFile, LazyLoadStatInfo,
         Publish, ReadValue, GetTempDirFileDesc, OpenTempDir, In, Idle
<1>3. Len(stack[t]) \in Nat /\ Len(stack[t]) # 0 /\ Len(stack'[t]) \in Nat
      /\ (Idle(t)' <=> Len(stack'[t]) = 0)
  <2>1. stack[t] \in Seq(Frames) /\ stack'[t] \in Seq(Frames)
    BY <1>1 DEF TypeInv
  <2> QED
    BY <1>2, <2>1, EmptySeq, LenProperties DEF Idle
<1>4. CASE Moved(t)
  BY <1>2, <1>3, <1>4 DEF Moved, Bottom
<1>5. CASE Pushed(t)
  <2>1. Len(stack'[t]) = Len(stack[t]) + 1
    BY <1>5 DEF Pushed
  <2>2. ~Idle(t)'
    BY <1>3, <2>1
  <2>3. Bottom(t)' = stack'[t][Len(stack[t]) + 1]
    BY <2>1 DEF Bottom
  <2>4. CASE Len(stack[t]) = 1
    <3>1. stack'[t][2].op = stack[t][1].op /\ stack'[t][2].of = stack[t][1].of
      BY <1>5 DEF Pushed
    <3> QED
      BY <1>2, <2>2, <2>3, <2>4, <3>1 DEF Bottom
  <2>5. CASE Len(stack[t]) # 1
    <3>1. /\ Len(stack[t]) + 1 \in 3..Len(stack'[t])
          /\ (Len(stack[t]) + 1) - 1 = Len(stack[t])
      <4>1. \A l, m \in Nat : l # 0 /\ l # 1 /\ m = l + 1 => l + 1 \in 3..m /\ (l + 1) - 1 = l
        OBVIOUS
      <4>2. Len(stack[t]) \in Nat /\ Len(stack[t]) # 0 /\ Len(stack'[t]) \in Nat
        BY <1>3
      <4> QED
        BY <2>1, <2>5, <4>1, <4>2
    <3>2. \A n \in 3..Len(stack'[t]) : stack'[t][n] = stack[t][n - 1]
      BY <1>5 DEF Pushed
    <3>3. stack'[t][Len(stack[t]) + 1] = stack[t][Len(stack[t])]
      BY <3>1, <3>2
    <3> QED
      BY <1>2, <2>2, <2>3, <3>3 DEF Bottom
  <2> QED
    BY <2>4, <2>5
<1>6. CASE Returned(t)
  <2>1. Len(stack'[t]) = Len(stack[t]) - 1
    BY <1>6 DEF Returned
  <2>2. ASSUME ~Idle(t)' PROVE Bottom(t)' = Bottom(t)
    <3>1. Len(stack'[t]) \in 1..Len(stack'[t]) /\ Len(stack'[t]) + 1 = Len(stack[t])
      BY <1>3, <2>1, <2>2 DEF Idle
    <3> QED
      BY <1>6, <3>1 DEF Returned, Bottom
  <2>3. Idle(t)' => stack[t][1] = Bottom(t)
    BY <1>3, <2>1 DEF Bottom
  <2> QED
    BY <1>2, <1>6, <2>2, <2>3
<1> QED
  BY <1>1, <1>4, <1>5, <1>6

LEMMA CallReturns ==
  ASSUME IInv, NEW t \in Threads, CallStep(t), UNCHANGED faults
  PROVE  ReturnInv'
<1>1. TypeInv' /\ CallEffect(t) /\ (Moved(t) \/ (Pushed(t) /\ In(t, "resolve")) \/ Returned(t))
  BY CallTypes
<1> SUFFICES ASSUME NEW u \in Threads, In(u, "append")'
             PROVE  "PATH" \in valid'[AtDir[Of(u)']]
  BY DEF ReturnInv
<1>2. \A g \in Files : "PATH" \in valid[g] => "PATH" \in valid'[g]
  BY <1>1 DEF CallEffect
<1>3. /\ stack'[u] \in Seq(Frames) /\ stack'[u] # <<>> /\ Head(stack'[u]) = stack'[u][1]
      /\ Len(stack'[u]) \in Nat /\ 1 \in 1..Len(stack'[u]) /\ stack'[u][1].pc = "append"
      /\ Of(u)' = stack'[u][1].of /\ stack'[u][1] \in Frames
  <2>1. stack'[u] \in Seq(Frames) /\ stack'[u] # <<>> /\ Head(stack'[u]).pc = "append"
    BY <1>1 DEF TypeInv, In
  <2> QED
    BY <2>1, EmptySeq, LenProperties DEF Of
<1>4. Of(u)' \in Files \ {Root} /\ AtDir[Of(u)'] \in Files
  <2>1. FramesInv'
    BY CallFrames
  <2> PICK new : new = stack'[u][1]
    OBVIOUS
  <2>2. FrameInv(new)'
    BY <1>3, <2>1 DEF FramesInv
  <2>3. new.of # Root /\ new.of \in Files
    BY <1>3, <2>2 DEF FrameInv, Frames
  <2> QED
    BY <1>3, <2>3, FilesAssumption
<1>5. CASE u # t
  <2>1. In(u, "append") /\ Of(u)' = Of(u)
    BY <1>1, <1>5 DEF CallEffect, In, Of
  <2> QED
    BY <1>2, <1>4, <2>1 DEF IInv, ReturnInv
<1>6. CASE u = t /\ Pushed(t)
  BY <1>3, <1>6 DEF Pushed, Frame
<1>7. CASE u = t /\ Returned(t)
  <2>1. Len(stack[t]) \in Nat /\ stack'[t][1] = stack[t][2] /\ 1 \in 1..Len(stack[t])
        /\ 1 < Len(stack[t]) /\ 1 # Len(stack[t])
    BY <1>3, <1>7, FrameTypes DEF Returned, IInv
  <2>2. stack[t][1].op = "GetPath" /\ stack[t][1].of = AtDir[stack[t][2].of]
    BY <2>1 DEF IInv, StackInv
  <2> PICK fr : fr = stack[t][1]
    OBVIOUS
  <2>3. "PATH" \in valid[fr.of]
    <3>1. \/ fr.op \in Getters /\ Wants[fr.op] \in valid[fr.of]
          \/ fr.op = "OpenDir"
          \/ fr.op = "GetFileDescriptor"
      BY <1>7, Answered
    <3>2. Wants[fr.op] = "PATH" /\ fr.op # "OpenDir" /\ fr.op # "GetFileDescriptor"
      BY <2>2 DEF Wants
    <3> QED
      BY <3>1, <3>2
  <2> QED
    BY <1>2, <1>3, <1>4, <1>7, <2>1, <2>2, <2>3
<1>8. CASE u = t /\ Moved(t)
  <2> PICK new : new = stack'[t][1]
    OBVIOUS
  <2>1. ~Idle(t) /\ TypeInv /\ ~Returned(t) /\ ~Pushed(t)
    BY <1>8, BottomKept, FrameTypes DEF IInv, Moved, Returned, Pushed
  <2>2. \A pc \in Pcs : Goto(t, pc) => new.pc = pc
    BY <2>1, GotoStack
  <2>3. ASSUME In(t, "resolve") \/ In(t, "append")
        PROVE  AfterResolve[Op(t)] \in Pcs /\ AfterResolve[Op(t)] # "append"
    <3>1. Op(t) \in {"GetPath", "GetFileDescriptor", "OpenDir"}
      BY <2>3, InnermostCall DEF PcsOf, Getters
    <3> QED
      BY <3>1 DEF AfterResolve, Pcs
  <2>4. ~ResolvePath(t) /\ ~AppendPath(t)
    <3>1. ~AppendPath(t)
      BY <1>3, <1>8, <2>2, <2>3 DEF AppendPath
    <3>2. ASSUME ResolvePath(t) PROVE FALSE
      <4>1. In(t, "resolve") /\ Of(t) # Root
        BY <3>2, InnermostCall DEF ResolvePath
      <4>2. HasPath(Of(t))
        BY <2>1, <3>2, <4>1, PushStack DEF ResolvePath
      <4> QED
        BY <1>3, <1>8, <2>2, <2>3, <3>2, <4>1, <4>2 DEF ResolvePath, Goto
    <3> QED
      BY <3>1, <3>2
  <2>5. ~ReadValue(t) /\ ~OpenTempDir(t)
    BY <2>1, ReturnStack DEF ReadValue, OpenTempDir
  <2>6. ~FirstCheck(t) /\ ~LockAndCheck(t) /\ ~LazyLoadStatInfo(t) /\ ~Publish(t)
    BY <1>3, <1>8, <2>2 DEF FirstCheck, LockAndCheck, LazyLoadStatInfo, Publish, CacheFiller, Pcs
  <2>7. ~OpenFile(t) /\ ~GetTempDirFileDesc(t)
    BY <1>3, <1>8, <2>1, <2>2, ReturnStack DEF OpenFile, GetTempDirFileDesc, Pcs
  <2> QED
    BY <2>4, <2>5, <2>6, <2>7 DEF CallStep
<1> QED
  BY <1>1, <1>5, <1>6, <1>7, <1>8

LEMMA CallBits ==
  ASSUME IInv, NEW t \in Threads, CallStep(t), UNCHANGED faults
  PROVE  BitsInv'
<1>1. CallEffect(t) /\ BitsInv
  BY CallTypes DEF IInv
<1>2. ASSUME NEW f \in Files, valid'[f] # valid[f]
      PROVE  /\ obj' = obj /\ valid'[f] = valid[f] \cup Publishes(Op(t))
             /\ Op(t) \in {"GetPath", "GetFileDescriptor"} => HasPath(f)
             /\ Op(t) = "GetFileDescriptor" => f \notin unopenable
             /\ Op(t) \notin {"GetPath", "GetFileDescriptor"} =>
                  (obj[f].size = 0 => f \in unstatable)
  <2>1. f = Of(t) /\ Op(t) \in Getters /\ In(t, "publish") /\ obj' = obj
        /\ valid'[f] = valid[f] \cup Publishes(Op(t))
    BY <1>2, Published
  <2>2. FrameInv(stack[t][1]) /\ stack[t][1].pc = "publish" /\ stack[t][1].of = f
        /\ stack[t][1].op = Op(t)
    BY <2>1, InnermostCall
  <2> QED
    BY <2>1, <2>2 DEF FrameInv
<1>3. obj'[Root].path = <<".">> /\ obj'[Root].fd /\ {"FILE_DESC", "TYPE", "PATH"} \subseteq valid'[Root]
  <2>1. ~(In(t, "append") /\ Root = Of(t))
    BY InnermostCall
  <2> QED
    BY <1>1, <2>1, FilesAssumption DEF CallEffect, BitsInv
<1>4. ASSUME NEW f \in Files, "PATH" \in valid'[f] PROVE HasPath(f)'
  <2>1. CASE "PATH" \in valid[f]
    BY <1>1, <2>1 DEF CallEffect, BitsInv
  <2>2. CASE "PATH" \notin valid[f]
    <3>1. "PATH" \in Publishes(Op(t)) /\ obj' = obj
      BY <1>2, <1>4, <2>2
    <3>2. Op(t) \in {"GetPath", "GetFileDescriptor"}
      BY <3>1 DEF Publishes, StatBits
    <3> QED
      BY <1>2, <1>4, <2>2, <3>1, <3>2 DEF HasPath
  <2> QED
    BY <2>1, <2>2
<1>5. ASSUME NEW f \in Files \ {Root}
      PROVE  /\ "TYPE" \in valid'[f] => "UUID" \in valid'[f]
             /\ "FILE_DESC" \in valid'[f] => f \notin unopenable'
             /\ "STATINFO" \in valid'[f] /\ obj'[f].size = 0 => f \in unstatable'
  <2>1. unopenable' = unopenable /\ unstatable' = unstatable
    BY DEF faults
  <2>2. CASE valid'[f] = valid[f]
    BY <1>1, <2>1, <2>2 DEF CallEffect, BitsInv
  <2>3. CASE valid'[f] # valid[f]
    <3>1. CASE Op(t) = "GetPath"
      <4>1. valid'[f] = valid[f] \cup {"PATH"} /\ obj' = obj
        BY <1>2, <2>3, <3>1 DEF Publishes
      <4> QED
        BY <1>1, <2>1, <4>1 DEF BitsInv
    <3>2. CASE Op(t) = "GetFileDescriptor"
      <4>1. valid'[f] = valid[f] \cup {"FILE_DESC", "PATH"} /\ obj' = obj /\ f \notin unopenable
        BY <1>2, <2>3, <3>2 DEF Publishes
      <4> QED
        BY <1>1, <2>1, <4>1 DEF BitsInv
    <3>3. CASE Op(t) \notin {"GetPath", "GetFileDescriptor"}
      <4>1. valid'[f] = valid[f] \cup StatBits /\ obj' = obj /\ (obj[f].size = 0 => f \in unstatable)
        BY <1>2, <2>3, <3>3 DEF Publishes
      <4> QED
        BY <1>1, <2>1, <4>1 DEF BitsInv, StatBits
    <3> QED
      BY <3>1, <3>2, <3>3
  <2> QED
    BY <2>2, <2>3
<1>6. ASSUME NEW f \in Files \ {Root}, f \notin Misread
      PROVE  obj'[f].size = 0 \/ (obj'[f].size = 1 /\ f \notin unstatable)
  BY <1>1, <1>6 DEF CallEffect, BitsInv
<1> QED
  BY <1>3, <1>4, <1>5, <1>6, SameTypes DEF BitsInv

\* A call leaves its thread's place alone, unless the file could not be opened.
LEMMA CallJobs ==
  ASSUME IInv, NEW t \in Threads, CallStep(t), UNCHANGED faults, NEW u \in Threads
  PROVE  /\ job'[u].on = job[u].on /\ job'[u].left = job[u].left /\ job'[u].batch = job[u].batch
         /\ job'[u].entry = job[u].entry /\ job'[u].asked = job[u].asked
         /\ \/ job'[u] = job[u]
            \/ /\ u = t /\ t \in Scanners /\ job[u].at = "ask" /\ job'[u].at = "threw"
               /\ Len(stack[t]) = 1 /\ Idle(t)'
<1>1. CallEffect(t) /\ TypeInv /\ TypeInv' /\ job[u] \in Jobs
  BY CallTypes DEF IInv, TypeInv
<1>2. CASE job'[u] = job[u]
  BY <1>2
<1>3. CASE u = t /\ In(t, "open") /\ job'[t] = [job[t] EXCEPT !.at = "threw"] /\ Returned(t)
  <2>1. job'[u].at = "threw" /\ job'[u].on = job[u].on /\ job'[u].left = job[u].left
        /\ job'[u].batch = job[u].batch
        /\ job'[u].entry = job[u].entry /\ job'[u].asked = job[u].asked
    BY <1>1, <1>3 DEF Jobs
  <2>2. stack[t][1].op = "GetFileDescriptor" /\ 1 \in 1..Len(stack[t]) /\ Len(stack[t]) \in Nat
    BY <1>3, InnermostCall DEF PcsOf, Getters
  <2>3. t \in Scanners /\ job[t].at = "ask" /\ Len(stack[t]) = 1
    BY <2>2, Callers
  <2>4. Len(stack'[t]) = 0
    BY <1>3, <2>3 DEF Returned
  <2>5. Idle(t)'
    <3>1. stack'[t] \in Seq(Frames)
      BY <1>1 DEF TypeInv
    <3> QED
      BY <2>4, <3>1, EmptySeq DEF Idle
  <2> QED
    BY <1>3, <2>1, <2>3, <2>5
<1> QED
  BY <1>1, <1>2, <1>3 DEF CallEffect

\* Only the thread with the object in its hand opens it.
LEMMA CallOpens ==
  ASSUME IInv, NEW t \in Threads, CallStep(t), UNCHANGED faults, NEW f \in Files
  PROVE  /\ "FILE_DESC" \in valid'[f] /\ "FILE_DESC" \notin valid[f] =>
              /\ t \in Scanners /\ f = job[t].on /\ f # Root /\ obj'[f].fd
         /\ obj'[f].fd # obj[f].fd => t \in Scanners /\ f = job[t].on
         /\ obj'[f].temp # obj[f].temp =>
              IF f = Root THEN t = Main /\ job[t].asked = 0 ELSE t \in Walkers /\ f = job[t].on
<1>1. ASSUME ~Idle(t)
      PROVE  /\ stack[t][1].of = Of(t) /\ stack[t][1].op = Op(t) /\ 1 \in 1..Len(stack[t])
             /\ FrameInv(stack[t][1]) /\ stack[t][1].pc = Head(stack[t]).pc
  BY <1>1, FrameTypes DEF IInv, FramesInv, Of, Op
<1>2. ASSUME ~Idle(t), Op(t) = "GetFileDescriptor"
      PROVE  t \in Scanners /\ Of(t) = job[t].on /\ Of(t) # Root
  BY <1>1, <1>2, Callers DEF FrameInv
<1>3. ASSUME ~Idle(t), Op(t) = "OpenDir"
      PROVE  IF Of(t) = Root THEN t = Main /\ job[t].asked = 0
                             ELSE t \in Walkers /\ Of(t) = job[t].on
  <2>1. Bottom(t) = stack[t][1]
    BY <1>1, <1>3, InnerCalls DEF Bottom
  <2>2. t \notin Scanners
    <3>1. ASSUME t \in Scanners PROVE FALSE
      BY <1>1, <1>3, <2>1, <3>1, OuterCalls DEF FileCalls
    <3> QED
      BY <3>1
  <2>3. t \in Walkers => Of(t) = job[t].on /\ Of(t) # Root
    BY <1>1, <1>3, <2>1, OuterCalls
  <2>4. t = Main => Of(t) = Root /\ job[t].asked = 0
    BY <1>1, <1>3, <2>1, OuterCalls
  <2> QED
    BY <2>2, <2>3, <2>4 DEF Threads
<1>4. ASSUME "FILE_DESC" \in valid'[f], "FILE_DESC" \notin valid[f]
      PROVE  t \in Scanners /\ f = job[t].on /\ f # Root /\ obj'[f].fd
  <2>1. f = Of(t) /\ In(t, "publish") /\ obj' = obj /\ "FILE_DESC" \in Publishes(Op(t))
    BY <1>4, Published
  <2>2. ~Idle(t) /\ Op(t) = "GetFileDescriptor"
    BY <2>1 DEF Publishes, StatBits, In, Idle
  <2>3. obj[f].fd
    BY <1>1, <2>1, <2>2 DEF FrameInv, In
  <2> QED
    BY <1>2, <2>1, <2>2, <2>3
<1> QED
  BY <1>2, <1>3, <1>4, Published

LEMMA CallMadeInv ==
  ASSUME IInv, NEW t \in Threads, CallStep(t), UNCHANGED faults
  PROVE  MadeInv'
<1>1. \A f \in Files : Made(f)' <=> Made(f)
  BY CallKeepsMade
<1>2. \A f \in Files \ {Root} : AtDir[f] \in Files
  BY FilesAssumption
<1> SUFFICES ASSUME NEW f \in Files \ (Starts \cup {Root}), Made(f)'
             PROVE  AtDir[f] # Root /\ Made(AtDir[f])'
  BY DEF MadeInv, Starts
<1> QED
  <2> PICK d : d = AtDir[f]
    OBVIOUS
  <2>1. d \in Files /\ d # Root /\ Made(d)
    BY <1>1, <1>2 DEF IInv, MadeInv
  <2>2. Made(d)'
    BY <1>1, <2>1
  <2> QED
    BY <2>1, <2>2

LEMMA CallDescriptors ==
  ASSUME IInv, NEW t \in Threads, CallStep(t), UNCHANGED faults
  PROVE  DescriptorInv'
<1>1. \A u \in Threads : job'[u].on = job[u].on
  BY CallJobs
<1>2. \A f \in Files : /\ obj'[f].fd # obj[f].fd => t \in Scanners /\ f = job[t].on
                       /\ obj'[f].temp # obj[f].temp => f = Root \/ (t \in Walkers /\ f = job[t].on)
  BY CallOpens
<1>3. Walkers \subseteq Threads /\ Scanners \subseteq Threads
  BY DEF Threads
<1> SUFFICES ASSUME NEW f \in Files \ {Root}
             PROVE  /\ obj'[f].temp => \E u \in Walkers : job'[u].on = f
                    /\ obj'[f].fd => \E u \in Scanners : job'[u].on = f
  BY DEF DescriptorInv
<1>4. obj'[f].temp => \E u \in Walkers : job[u].on = f
  BY <1>2 DEF IInv, DescriptorInv
<1>5. obj'[f].fd => \E u \in Scanners : job[u].on = f
  BY <1>2 DEF IInv, DescriptorInv
<1> QED
  BY <1>1, <1>3, <1>4, <1>5

LEMMA CallOwners ==
  ASSUME IInv, NEW t \in Threads, CallStep(t), UNCHANGED faults
  PROVE  OwnerInv'
<1>1. CallEffect(t) /\ dirs' = dirs /\ files' = files
  BY CallTypes DEF CallEffect
<1>2. \A u \in Threads : job'[u].on = job[u].on /\ job'[u].asked = job[u].asked
  BY CallJobs
<1>3. Walkers \subseteq Threads /\ Scanners \subseteq Threads /\ Main \in Threads
      /\ Main \notin Scanners /\ Walkers \cap Scanners = {}
  BY ThreadsAssumption DEF Threads
<1>4. \A w \in Walkers : BatchOf(w)' = BatchOf(w)
  BY <1>3, CallJobs DEF BatchOf
<1>5. \A f \in Files : Made(f)' <=> Made(f)
  BY CallKeepsMade
<1>6. \A f \in Files : "UUID" \in valid[f] => "UUID" \in valid'[f]
  BY <1>1 DEF CallEffect
<1>7. \A f \in Files : "FILE_DESC" \in valid'[f] /\ "FILE_DESC" \notin valid[f] =>
                         t \in Scanners /\ f = job[t].on
  BY CallOpens
<1>8. /\ \A f : Entries(f)' = Entries(f) /\ Entries(f) \subseteq Files
      /\ dirs \subseteq Files /\ files \subseteq Files
  BY DEF Entries, Starts, IInv, TypeInv
<1>9. \A w \in Walkers : BatchOf(w) \subseteq Files
  BY <1>3 DEF BatchOf, IInv, TypeInv, Jobs
<1>10. ASSUME NEW u \in Walkers \cup Scanners, NEW v \in Walkers \cup Scanners,
              u # v, job'[u].on = job'[v].on
       PROVE  job'[u].on = Nobody
  BY <1>2, <1>3, <1>10 DEF IInv, OwnerInv
<1>11. ASSUME NEW d \in dirs
       PROVE  /\ TakenFor(d) = "dir" /\ Made(d)' /\ "UUID" \in valid'[d]
              /\ \A w \in Walkers : job'[w].on # d
              /\ \A f \in Entries(d) : ~Made(f)'
  BY <1>2, <1>3, <1>5, <1>6, <1>8 DEF IInv, OwnerInv
<1>12. ASSUME NEW f \in files \cup UNION {BatchOf(w) : w \in Walkers}
       PROVE  /\ TakenFor(f) = "file" /\ Made(f)' /\ "FILE_DESC" \notin valid'[f]
              /\ \A u \in Scanners : job'[u].on # f
  <2>1. f \in Files
    BY <1>8, <1>9
  <2>2. /\ TakenFor(f) = "file" /\ Made(f) /\ "FILE_DESC" \notin valid[f]
        /\ \A u \in Scanners : job[u].on # f
    BY DEF IInv, OwnerInv
  <2> QED
    BY <1>2, <1>3, <1>5, <1>7, <2>1, <2>2
<1>13. \A w \in Walkers : BatchOf(w) \cap files = {}
  BY DEF IInv, OwnerInv
<1>14. ASSUME job'[Main].asked > 0, job'[Main].at = "switch" \/ ~Idle(Main)',
              NEW f, f = StartPaths[job'[Main].asked]
       PROVE  /\ f \notin dirs \cup files
              /\ "FILE_DESC" \notin valid'[f]
              /\ \A u \in Walkers \cup Scanners : job'[u].on # f
              /\ \A g \in Entries(f) : ~Made(g)'
  <2>1. job[Main].at = "switch" \/ ~Idle(Main)
    <3>1. job'[Main] = job[Main]
      BY <1>3, CallJobs
    <3>2. ~Idle(Main)' => ~Idle(Main)
      BY <1>1, <1>3, BottomKept DEF CallEffect, Idle
    <3> QED
      BY <1>14, <3>1, <3>2
  <2>2. f = StartPaths[job[Main].asked] /\ job[Main].asked > 0
    BY <1>2, <1>3, <1>14
  <2>3. /\ f \notin dirs \cup files
        /\ "FILE_DESC" \notin valid[f]
        /\ \A u \in Walkers \cup Scanners : job[u].on # f
        /\ \A g \in Entries(f) : ~Made(g)
    BY <2>1, <2>2 DEF IInv, OwnerInv
  <2>4. f \in Files
    <3>1. job[Main].asked \in 1..Len(StartPaths)
      BY <2>2, FilesAssumption, LenProperties DEF IInv, MainInv
    <3> QED
      BY <2>2, <3>1, FilesAssumption, LenProperties
  <2> QED
    BY <1>2, <1>3, <1>5, <1>7, <1>8, <2>3, <2>4
<1>15. (UNION {BatchOf(w) : w \in Walkers})' = UNION {BatchOf(w) : w \in Walkers}
  BY <1>4
<1>16. /\ \A d \in dirs : TakenFor(d)' = "dir"
       /\ \A f \in files \cup UNION {BatchOf(w) : w \in Walkers} : TakenFor(f)' = "file"
  BY <1>8, <1>9, <1>11, <1>12, SameTypes
<1> QED
  BY <1>1, <1>4, <1>8, <1>10, <1>11, <1>12, <1>13, <1>14, <1>15, <1>16 DEF OwnerInv

LEMMA CallMain ==
  ASSUME IInv, NEW t \in Threads, CallStep(t), UNCHANGED faults
  PROVE  MainInv'
<1>1. CallEffect(t) /\ MainInv
  BY CallTypes DEF IInv
<1>2. Main \in Threads /\ Main \notin Scanners /\ Main \notin Walkers
  BY ThreadsAssumption DEF Threads
<1>3. job'[Main] = job[Main]
  BY <1>2, CallJobs
<1>4. \A f \in Files : valid[f] \subseteq valid'[f]
  BY <1>1 DEF CallEffect
<1>5. CASE t # Main
  <2>1. stack'[Main] = stack[Main]
    BY <1>1, <1>2, <1>5 DEF CallEffect
  <2>2. obj'[Root].temp = obj[Root].temp
    BY <1>5, CallOpens, FilesAssumption
  <2> QED
    BY <1>1, <1>3, <1>4, <2>1, <2>2, MainKept
<1>6. CASE t = Main
  <2> PICK fr : fr = Bottom(Main)
    OBVIOUS
  <2>1. ~Idle(Main) /\ job[Main].at \in {"paths", "switch"} /\ job[Main].asked \in Nat
    BY <1>2, <1>6, BottomKept, OuterCalls DEF IInv, TypeInv, Jobs
  <2>2. ~Idle(Main)' => Bottom(Main)'.op = fr.op /\ Bottom(Main)'.of = fr.of
    BY <1>6, BottomKept
  <2>3. \A op, f : Asks(Main, op, f) => Asks(Main, op, f)'
    BY <2>1, <2>2 DEF Asks
  <2>4. Idle(Main)' =>
          \/ UNCHANGED <<obj, valid>> /\ fr.op \in Getters /\ Wants[fr.op] \in valid[fr.of]
          \/ fr.op = "OpenDir" /\ (fr.of = Root => obj'[Root].temp)
          \/ job'[Main].at = "threw"
    <3>1. ASSUME Idle(Main)' PROVE Returned(Main) /\ stack[Main][1] = fr
      BY <1>6, <3>1, BottomKept
    <3>2. job[Main] \in Jobs
      BY <1>2 DEF IInv, TypeInv
    <3> QED
      BY <1>2, <1>6, <3>1, <3>2, Answered, ZenonT(60) DEF Jobs
  <2>5. job[Main].at = "switch" /\ Idle(Main)' => "TYPE" \in valid'[job[Main].on]
    <3>1. ASSUME job[Main].at = "switch", Idle(Main)' PROVE "TYPE" \in valid'[job[Main].on]
      <4>1. fr.op = "GetFileType" /\ fr.of = job[Main].on
        BY <1>1, <2>1, <3>1 DEF MainInv, Asks
      <4>2. Wants[fr.op] = "TYPE"
        BY <4>1 DEF Wants
      <4> QED
        BY <1>3, <2>4, <3>1, <4>1, <4>2
    <3> QED
      BY <3>1
  <2>6. job[Main].asked > 0 \/ Idle(Main)' => obj'[Root].temp
    <3>1. CASE job[Main].asked > 0
      <4>1. obj[Root].temp
        BY <1>1, <2>1, <3>1 DEF MainInv
      <4> QED
        BY <2>1, <3>1, <4>1, <1>2, CallOpens, FilesAssumption
    <3>2. ASSUME job[Main].asked = 0, Idle(Main)' PROVE obj'[Root].temp
      <4>1. fr.op = "OpenDir" /\ fr.of = Root
        BY <1>1, <2>1, <3>2 DEF MainInv, Asks
      <4> QED
        BY <1>3, <2>1, <2>4, <3>2, <4>1 DEF Getters
    <3> QED
      BY <2>1, <3>1, <3>2
  <2> QED
    BY <1>1, <1>3, <2>1, <2>3, <2>5, <2>6 DEF MainInv
<1> QED
  BY <1>5, <1>6

LEMMA CallWalkers ==
  ASSUME IInv, NEW t \in Threads, CallStep(t), UNCHANGED faults, NEW u \in Walkers
  PROVE  WalkerInv(u)'
<1>1. CallEffect(t) /\ WalkerInv(u)
  BY CallTypes DEF IInv
<1>2. u \in Threads /\ u \notin Scanners /\ job[u] \in Jobs
  BY ThreadsAssumption DEF Threads, IInv, TypeInv
<1>3. job'[u] = job[u]
  BY <1>2, CallJobs
<1>4. \A f \in Files : (Made(f)' <=> Made(f)) /\ valid[f] \subseteq valid'[f]
  BY <1>1, CallKeepsMade DEF CallEffect
<1>5. \A f : Entries(f)' = Entries(f) /\ Entries(f) \subseteq Files
  BY DEF Entries, Starts
<1>6. job[u].left \subseteq Files
  BY <1>2 DEF Jobs
<1>7. CASE u # t
  <2>1. stack'[u] = stack[u]
    BY <1>1, <1>2, <1>7 DEF CallEffect
  <2>2. job[u].on # Nobody => Made(job[u].on)' /\ "UUID" \in valid'[job[u].on]
    BY <1>1, <1>3, <1>4 DEF WalkerInv
  <2>3. job[u].at \in {"opened", "consider", "create"} => \A f \in job[u].left : ~Made(f)'
    BY <1>1, <1>4, <1>6 DEF WalkerInv
  <2>4. job[u].at \in {"consider", "create"} => ~Made(job[u].entry)'
    BY <1>1, <1>3, <1>4, <1>5 DEF WalkerInv
  <2> QED
    BY <1>1, <1>3, <2>1, <2>2, <2>3, <2>4, WalkerKept
<1>8. CASE u = t
  <2>1. ~Idle(t) /\ job[t].at \in {"opened", "consider", "create"} /\ job[t].on # Nobody
    BY <1>1, <1>8, BottomKept DEF WalkerInv
  <2>2. \A op, f : Asks(t, op, f) => Asks(t, op, f)'
    BY <2>1, BottomKept DEF Asks
  <2> PICK j : j = job[t]
    OBVIOUS
  <2>3. CASE job[t].at = "opened"
    BY <1>1, <1>3, <1>4, <1>5, <1>6, <1>8, <2>1, <2>2, <2>3, SameTypes DEF WalkerInv
  <2>5. CASE job[t].at = "consider"
    BY <1>1, <1>3, <1>4, <1>5, <1>6, <1>8, <2>1, <2>2, <2>5, SameTypes DEF WalkerInv
  <2>4. CASE job[t].at = "create"
    <3> PICK fr : fr = Bottom(t)
      OBVIOUS
    <3>1. fr.op = "GetDev" /\ fr.of = job[t].on /\ fr.pc \in {"check", "read"}
      BY <1>1, <1>8, <2>1, <2>4 DEF WalkerInv, Asks
    <3>2. Len(stack[t]) \in Nat /\ Len(stack[t]) # 0
      BY <2>1, FrameTypes DEF IInv
    <3>3. Len(stack[t]) = 1
      <4>1. ASSUME Len(stack[t]) > 1 PROVE FALSE
        <5>1. Len(stack[t]) - 1 \in 1..Len(stack[t]) /\ Len(stack[t]) - 1 < Len(stack[t])
              /\ (Len(stack[t]) - 1) + 1 = Len(stack[t])
          BY <3>2, <4>1
        <5>2. stack[t][(Len(stack[t]) - 1) + 1].pc = "append"
          BY <5>1 DEF IInv, StackInv
        <5>3. fr.pc = "append"
          BY <5>1, <5>2 DEF Bottom
        <5> QED
          BY <3>1, <5>3
      <4>2. \A n \in Nat : n # 0 /\ ~(n > 1) => n = 1
        OBVIOUS
      <4> QED
        BY <3>2, <4>1, <4>2
    <3>4. Head(stack[t]) = fr /\ Op(t) = "GetDev" /\ Of(t) = job[t].on
      BY <2>1, <3>1, <3>3, FrameTypes DEF IInv, Bottom, Op, Of
    <3>5. ~Idle(t)' => Bottom(t)'.pc \in {"check", "read"}
      <4>1. CASE FirstCheck(t)
        <5>1. "UUID" \in valid[job[t].on] /\ Wants["GetDev"] = "UUID"
          BY <1>1, <1>8, <2>1 DEF WalkerInv, Wants
        <5>2. Goto(t, "read")
          BY <3>4, <4>1, <5>1 DEF FirstCheck
        <5>3. Moved(t) /\ stack'[t][1].pc = "read"
          BY <2>1, <5>2, GotoStack DEF IInv, Pcs
        <5> QED
          BY <3>3, <5>3 DEF Moved, Bottom
      <4>2. CASE ReadValue(t)
        <5>1. Return(t)
          BY <4>2 DEF ReadValue
        <5>2. stack'[t] = <<>>
          BY <2>1, <3>3, <5>1, ReturnStack DEF IInv
        <5> QED
          BY <5>2 DEF Idle
      <4>3. FirstCheck(t) \/ ReadValue(t)
        BY <3>1, <3>4 DEF CallStep, LockAndCheck, ResolvePath, AppendPath, OpenFile, LazyLoadStatInfo,
                          Publish, GetTempDirFileDesc, OpenTempDir, In
      <4> QED
        BY <4>1, <4>2, <4>3
    <3>6. /\ j.at = "create" /\ j.on # Nobody /\ j.on \in Files \ {Root} /\ TakenFor(j.on) = "dir"
          /\ j.left \subseteq Entries(j.on) /\ j.batch \subseteq Entries(j.on)
          /\ j.entry \in Entries(j.on) \ j.left
          /\ Made(j.on)' /\ "UUID" \in valid'[j.on]
          /\ ~Made(j.entry)' /\ \A f \in j.left : ~Made(f)'
      BY <1>1, <1>4, <1>5, <1>6, <1>8, <2>1, <2>4 DEF WalkerInv
    <3>7. Asks(t, "GetDev", job[t].on)'
      BY <1>1, <1>3, <1>8, <2>2, <2>4 DEF WalkerInv, Asks
    <3> QED
      BY <1>3, <1>5, <1>8, <3>5, <3>6, <3>7, SameTypes DEF WalkerInv
  <2> QED
    BY <2>1, <2>3, <2>4, <2>5
<1> QED
  BY <1>7, <1>8

LEMMA CallScanners ==
  ASSUME IInv, NEW t \in Threads, CallStep(t), UNCHANGED faults, NEW u \in Scanners
  PROVE  ScannerInv(u)'
<1>1. CallEffect(t) /\ ScannerInv(u)
  BY CallTypes DEF IInv
<1>2. u \in Threads /\ job[u] \in Jobs /\ u \notin Walkers
  BY ThreadsAssumption DEF Threads, IInv, TypeInv
<1>3. \A f \in Files : /\ Made(f)' <=> Made(f)
                       /\ valid[f] \subseteq valid'[f]
                       /\ obj[f].fd => obj'[f].fd
                       /\ "FILE_DESC" \in valid'[f] /\ "FILE_DESC" \notin valid[f] =>
                            t \in Scanners /\ f = job[t].on /\ obj'[f].fd
  BY <1>1, CallKeepsMade, CallOpens DEF CallEffect
<1> PICK j : j = job[u]
  OBVIOUS
<1>4. j.on # Nobody => j.on \in Files \ {Root} /\ TakenFor(j.on) = "file" /\ Made(j.on)
  BY <1>1 DEF ScannerInv
<1>5. CASE u # t
  <2>1. stack'[u] = stack[u] /\ job'[u] = job[u]
    BY <1>1, <1>2, <1>5 DEF CallEffect
  <2>2. j.on # Nobody => /\ Made(j.on)'
                         /\ valid[j.on] \subseteq valid'[j.on]
                         /\ "FILE_DESC" \in valid'[j.on] => "FILE_DESC" \in valid[j.on]
                         /\ obj[j.on].fd => obj'[j.on].fd
    BY <1>3, <1>4, <1>5 DEF IInv, OwnerInv
  <2> QED
    BY <1>1, <2>1, <2>2, ScannerKept
<1>6. CASE u = t
  <2> PICK fr : fr = Bottom(t)
    OBVIOUS
  <2>1. ~Idle(t) /\ j.at = "ask" /\ j.asked \in 1..3 /\ j.on # Nobody
        /\ fr.op = FileCalls[j.asked] /\ fr.of = j.on
    BY <1>1, <1>6, BottomKept, OuterCalls DEF ScannerInv
  <2>2. ~Idle(t)' => Bottom(t)'.op = fr.op /\ Bottom(t)'.of = fr.of
    BY BottomKept
  <2>3. /\ j.on \in Files \ {Root} /\ TakenFor(j.on) = "file" /\ Made(j.on)'
        /\ valid[j.on] \subseteq valid'[j.on]
    BY <1>3, <1>4, <2>1
  <2>4. CASE job'[u] = job[u]
    <3>1. Asks(t, FileCalls[j.asked], j.on)'
      BY <2>1, <2>2 DEF Asks, FileCalls
    <3>2. ASSUME NEW n \in 1..j.asked, n < j.asked \/ Idle(t)'
          PROVE  Wants[FileCalls[n]] \in valid'[j.on]
      <4>1. CASE n < j.asked
        BY <1>1, <2>1, <2>3, <4>1 DEF ScannerInv
      <4>2. CASE n = j.asked /\ Idle(t)'
        <5>1. Returned(t) /\ stack[t][1] = fr
          BY <4>2, BottomKept
        <5>2. job'[t].at # "threw"
          BY <1>6, <2>1, <2>4
        <5>3. \/ fr.op \in Getters /\ Wants[fr.op] \in valid[fr.of]
              \/ fr.op = "OpenDir"
              \/ job'[t] = [job[t] EXCEPT !.at = "threw"]
          BY <5>1, Answered
        <5>4. fr.op # "OpenDir"
          BY <2>1 DEF FileCalls
        <5>5. job'[t] # [job[t] EXCEPT !.at = "threw"]
          BY <1>2, <1>6, <5>2 DEF Jobs
        <5> QED
          BY <2>1, <2>3, <4>2, <5>3, <5>4, <5>5
      <4> QED
        BY <2>1, <3>2, <4>1, <4>2
    <3>3. "FILE_DESC" \in valid'[j.on] => obj'[j.on].fd
      BY <1>1, <1>3, <2>1, <2>3 DEF ScannerInv
    <3> QED
      BY <1>6, <2>1, <2>3, <2>4, <3>1, <3>2, <3>3, SameTypes DEF ScannerInv, FileCalls, Wants
  <2>5. CASE job'[u] # job[u]
    <3> PICK k : k = job'[u]
      OBVIOUS
    <3>1. k.at = "threw" /\ Idle(t)' /\ k.on = j.on /\ k.asked = j.asked
      BY <1>2, <1>6, <2>5, CallJobs
    <3> QED
      BY <1>6, <2>1, <2>3, <3>1, SameTypes DEF ScannerInv
  <2> QED
    BY <2>4, <2>5
<1> QED
  BY <1>5, <1>6

LEMMA CallInv ==
  ASSUME IInv, NEW t \in Threads, CallStep(t), UNCHANGED faults
  PROVE  IInv'
<1>1. TypeInv' /\ StackInv' /\ FramesInv' /\ ReturnInv' /\ MutexInv'
  BY CallTypes, CallStacks, CallFrames, CallReturns, CallMutex
<1>2. BitsInv' /\ MadeInv' /\ MainInv' /\ OwnerInv' /\ DescriptorInv'
  BY CallBits, CallMadeInv, CallMain, CallOwners, CallDescriptors
<1>3. (\A u \in Walkers : WalkerInv(u)') /\ (\A u \in Scanners : ScannerInv(u)')
  BY CallWalkers, CallScanners
<1> QED
  BY <1>1, <1>2, <1>3 DEF IInv

-----------------------------------------------------------------------------
(* The steps of the threads' own code                                       *)

\* What every such step keeps: FileIDs that are there keep their bits and paths, and are
\* closed only by the scanner that has them in its hand.
OwnEffect(t) ==
  /\ Idle(t) /\ UNCHANGED <<mutex, faults>>
  /\ \A u \in Threads \ {t} : job'[u] = job[u]
  /\ \A f \in Files : Made(f) =>
       /\ Made(f)' /\ obj'[f].path = obj[f].path /\ obj'[f].size = obj[f].size
       /\ valid'[f] = valid[f]
       /\ obj[f].fd /\ ~obj'[f].fd => t \in Scanners /\ f = job[t].on
  /\ \A f \in Files : Made(f)' =>
       Made(f) \/ f \in Starts \/ (t \in Walkers /\ job[t].on # Nobody /\ f \in Entries(job[t].on))
  /\ t # Main => obj'[Root].temp = obj[Root].temp

\* The thread makes no call, or starts one.
OwnCall(t) ==
  \/ stack' = stack
  \/ \E op \in Getters \cup {"OpenDir"} : \E f \in Files :
       Call(t, op, f) /\ Made(f)' /\ (f = Root => op \in {"GetPath", "OpenDir"})

\* The call it starts is about an object that is there.
Begun(t, f) ==
  /\ stack'[t][1].of = f /\ Made(f)'
  /\ f = Root => stack'[t][1].op \in {"GetPath", "OpenDir"}

LEMMA OwnStacks ==
  ASSUME IInv, NEW t \in Threads, Idle(t), OwnCall(t)
  PROVE  /\ stack' \in [Threads -> Seq(Frames)]
         /\ \A u \in Threads \ {t} : stack'[u] = stack[u]
         /\ \/ stack'[t] = <<>>
            \/ /\ Len(stack'[t]) = 1 /\ stack'[t][1].pc \in {"check", "temp"}
               /\ stack'[t][1].pc \in PcsOf(stack'[t][1].op)
               /\ \E f \in Files : Begun(t, f)
<1>1. TypeInv
  BY DEF IInv
<1>2. CASE stack' = stack
  BY <1>1, <1>2 DEF TypeInv, Idle
<1>3. ASSUME NEW op \in Getters \cup {"OpenDir"}, NEW f \in Files,
             Call(t, op, f), Made(f)', f = Root => op \in {"GetPath", "OpenDir"}
      PROVE  /\ stack' \in [Threads -> Seq(Frames)]
             /\ \A u \in Threads \ {t} : stack'[u] = stack[u]
             /\ Len(stack'[t]) = 1 /\ stack'[t][1].pc \in {"check", "temp"}
             /\ stack'[t][1].pc \in PcsOf(stack'[t][1].op)
             /\ Begun(t, f)
  <2>1. /\ stack' \in [Threads -> Seq(Frames)]
        /\ \A u \in Threads \ {t} : stack'[u] = stack[u]
        /\ Len(stack'[t]) = 1 /\ stack'[t][1].op = op /\ stack'[t][1].of = f
        /\ stack'[t][1].pc = IF op = "OpenDir" THEN "temp" ELSE "check"
    BY <1>1, <1>3, CallStack
  <2>2. stack'[t][1].pc \in {"check", "temp"} /\ stack'[t][1].pc \in PcsOf(op)
    BY <2>1 DEF PcsOf, Getters
  <2> QED
    BY <1>3, <2>1, <2>2 DEF Begun
<1> QED
  BY <1>2, <1>3 DEF OwnCall

\* The calls in progress do not notice what another thread does in its own code.
LEMMA OwnCalls ==
  ASSUME IInv, NEW t \in Threads, OwnEffect(t), OwnCall(t), TypeInv'
  PROVE  StackInv' /\ FramesInv' /\ ReturnInv' /\ MutexInv'
<1>1. Idle(t) /\ mutex' = mutex /\ UNCHANGED faults /\ TypeInv
  BY DEF OwnEffect, IInv
<1>2. /\ \A u \in Threads \ {t} : stack'[u] = stack[u]
      /\ \/ stack'[t] = <<>>
         \/ /\ Len(stack'[t]) = 1 /\ stack'[t][1].pc \in {"check", "temp"}
            /\ stack'[t][1].pc \in PcsOf(stack'[t][1].op)
            /\ \E f \in Files : Begun(t, f)
  BY <1>1, OwnStacks
<1>3. /\ Len(stack[t]) = 0
      /\ \A n \in 1..Len(stack'[t]) : n = 1 /\ Len(stack'[t]) = 1 /\ stack'[t] # <<>>
  <2>1. \A k \in {0, 1} : \A n \in 1..k : n = 1 /\ k = 1
    OBVIOUS
  <2>2. Len(stack[t]) = 0 /\ Len(stack'[t]) \in {0, 1} /\ (stack'[t] = <<>> => Len(stack'[t]) = 0)
    BY <1>1, <1>2, EmptySeq DEF Idle
  <2> QED
    BY <2>1, <2>2
<1>4. StackInv'
  <2> SUFFICES ASSUME NEW u \in Threads, NEW n \in 1..Len(stack'[u]), n < Len(stack'[u])
               PROVE  /\ stack'[u][n].op = "GetPath"
                      /\ stack'[u][n + 1].pc = "append"
                      /\ stack'[u][n].of = AtDir[stack'[u][n + 1].of]
    BY DEF StackInv
  <2>1. u # t
    BY <1>3
  <2> QED
    BY <1>2, <2>1 DEF IInv, StackInv
<1>5. FramesInv'
  <2> SUFFICES ASSUME NEW u \in Threads, NEW n \in 1..Len(stack'[u]), NEW fr, fr = stack'[u][n]
               PROVE  FrameInv(fr)'
    BY DEF FramesInv
  <2>1. CASE u = t
    <3>1. n = 1 /\ stack'[t] # <<>> /\ fr = stack'[t][1]
      BY <1>3, <2>1
    <3>2. fr.pc \in {"check", "temp"} /\ fr.pc \in PcsOf(fr.op)
      BY <1>2, <2>1, <3>1
    <3> PICK f \in Files : Begun(t, f)
      BY <1>2, <3>1
    <3>3. fr.of = f /\ (f = Root => fr.op \in {"GetPath", "OpenDir"}) /\ Made(f)'
      BY <3>1 DEF Begun
    <3>4. Made(fr.of)'
      BY <3>3
    <3> QED
      BY <3>2, <3>3, <3>4 DEF FrameInv
  <2>2. CASE u # t
    <3>1. fr = stack[u][n] /\ n \in 1..Len(stack[u])
      BY <1>2, <2>2
    <3>2. fr \in Frames /\ FrameInv(fr) /\ Made(fr.of) /\ fr.of \in Files
      BY <1>1, <3>1, FrameTypes DEF IInv, FramesInv, FrameInv, Frames
    <3>3. /\ Made(fr.of)' /\ obj'[fr.of].path = obj[fr.of].path /\ obj'[fr.of].size = obj[fr.of].size
          /\ valid'[fr.of] = valid[fr.of]
          /\ obj[fr.of].fd /\ ~obj'[fr.of].fd => t \in Scanners /\ fr.of = job[t].on
      BY <3>2 DEF OwnEffect
    <3>4. fr.op = "GetFileDescriptor" /\ obj[fr.of].fd => obj'[fr.of].fd
      <4>1. ASSUME fr.op = "GetFileDescriptor", t \in Scanners, fr.of = job[t].on PROVE FALSE
        <5>1. u \in Scanners /\ fr.of = job[u].on
          BY <3>1, <4>1, Callers
        <5>2. job[t].on # Nobody
          BY <3>2, <4>1, ThreadsAssumption
        <5> QED
          BY <2>2, <4>1, <5>1, <5>2 DEF IInv, OwnerInv
      <4> QED
        BY <3>3, <4>1
    <3> QED
      <4>1. /\ HasPath(fr.of) => HasPath(fr.of)'
            /\ fr.pc = "append" => ~HasPath(fr.of)'
        BY <3>2, <3>3 DEF HasPath, FrameInv
      <4> QED
        BY <1>1, <3>2, <3>3, <3>4, <4>1, FrameKept
  <2> QED
    BY <2>1, <2>2
<1>6. ReturnInv'
  <2> SUFFICES ASSUME NEW u \in Threads, In(u, "append")'
               PROVE  "PATH" \in valid'[AtDir[Of(u)']]
    BY DEF ReturnInv
  <2>1. u # t
    <3>1. ASSUME u = t PROVE FALSE
      <4>1. stack'[t] # <<>> /\ Head(stack'[t]).pc = "append"
        BY <3>1 DEF In
      <4>2. stack'[t] \in Seq(Frames) /\ Head(stack'[t]) = stack'[t][1]
        BY <4>1 DEF TypeInv
      <4> QED
        BY <1>2, <4>1, <4>2
    <3> QED
      BY <3>1
  <2>2. In(u, "append") /\ Of(u)' = Of(u)
    BY <1>2, <2>1 DEF In, Of
  <2>3. Of(u) \in Files \ {Root} /\ Made(Of(u)) /\ "PATH" \in valid[AtDir[Of(u)]]
    BY <2>2, InnermostCall DEF FrameInv, IInv, ReturnInv
  <2> PICK d : d = AtDir[Of(u)]
    OBVIOUS
  <2>4. Made(d) /\ d \in Files
    BY <2>3, MadeDirectory
  <2>5. valid'[d] = valid[d]
    BY <2>4 DEF OwnEffect
  <2> QED
    BY <2>2, <2>3, <2>5
<1>7. MutexInv'
  <2> PICK none : none = {}
    OBVIOUS
  <2>1. /\ \A n \in 1..Len(stack'[t]) : ~Locks(stack'[t][n])
        /\ \A m \in 1..Len(stack[t]) : FALSE
    BY <1>2, <1>3 DEF Locks, Inside
  <2>2. /\ \A n \in 1..Len(stack'[t]) : Locks(stack'[t][n]) =>
             /\ n + 0 \in 1..Len(stack[t]) /\ Locks(stack[t][n + 0])
             /\ stack'[t][n].of = stack[t][n + 0].of
             /\ stack'[t][n].of \notin none
        /\ \A m \in 1..Len(stack[t]) : Locks(stack[t][m]) /\ stack[t][m].of \notin none =>
             /\ m - 0 \in 1..Len(stack'[t]) /\ Locks(stack'[t][m - 0])
             /\ stack'[t][m - 0].of = stack[t][m].of
    BY <2>1
  <2>3. /\ \A f \in Files : mutex'[f] = IF f \in none THEN Nobody ELSE mutex[f]
        /\ \A f \in none : mutex[f] = t
        /\ none \in SUBSET Files /\ 0 \in {-1, 0, 1} /\ MutexInv
    BY <1>1 DEF IInv
  <2> QED
    BY ONLY <1>1, <1>2, <2>2, <2>3, TypeInv', t \in Threads, MutexStep
<1> QED
  BY <1>4, <1>5, <1>6, <1>7

\* Nor do the other threads.
LEMMA OwnOthers ==
  ASSUME IInv, NEW t \in Threads, OwnEffect(t), OwnCall(t)
  PROVE  /\ t # Main => MainInv'
         /\ \A u \in Walkers \ {t} : WalkerInv(u)'
         /\ \A u \in Scanners \ {t} : ScannerInv(u)'
<1>1. /\ \A u \in Threads \ {t} : stack'[u] = stack[u] /\ job'[u] = job[u]
      /\ Walkers \subseteq Threads /\ Scanners \subseteq Threads /\ Main \in Threads
      /\ Walkers \cap Scanners = {}
  BY OwnStacks, ThreadsAssumption DEF OwnEffect, Threads
<1>2. \A f \in Files : Made(f) => Made(f)' /\ valid'[f] = valid[f]
                                  /\ (obj[f].fd /\ ~obj'[f].fd => t \in Scanners /\ f = job[t].on)
  BY DEF OwnEffect
<1>3. t # Main => MainInv'
  <2>1. ASSUME t # Main PROVE obj'[Root].temp = obj[Root].temp
    BY <2>1 DEF OwnEffect
  <2> QED
    BY <1>1, <1>2, <2>1, MainKept DEF IInv
<1>4. ASSUME NEW u \in Walkers \ {t} PROVE WalkerInv(u)'
  <2> PICK j : j = job[u]
    OBVIOUS
  <2>1. WalkerInv(u) /\ job'[u] = j /\ stack'[u] = stack[u]
    BY <1>1 DEF IInv
  <2>2. j.on # Nobody => Made(j.on)' /\ "UUID" \in valid'[j.on]
    BY <1>2, <2>1 DEF WalkerInv
  <2>3. ASSUME NEW f, f \in Entries(j.on), j.on # Nobody, ~Made(f) PROVE ~Made(f)'
    <3>1. f \in Files /\ f \notin Starts /\ AtDir[f] = j.on
      BY <2>3 DEF Entries
    <3>2. t \in Walkers => f \notin Entries(job[t].on) \/ job[t].on = Nobody
      BY <1>1, <2>3, <3>1 DEF Entries, IInv, OwnerInv
    <3> QED
      BY <2>3, <3>1, <3>2 DEF OwnEffect
  <2>4. j.at \in {"opened", "consider", "create"} => \A f \in j.left : ~Made(f)'
    BY <2>1, <2>3 DEF WalkerInv
  <2>5. j.at \in {"consider", "create"} => ~Made(j.entry)'
    BY <2>1, <2>3 DEF WalkerInv
  <2> QED
    BY <2>1, <2>2, <2>4, <2>5, WalkerKept DEF OwnEffect
<1>5. ASSUME NEW u \in Scanners \ {t} PROVE ScannerInv(u)'
  <2> PICK j : j = job[u]
    OBVIOUS
  <2>1. ScannerInv(u) /\ job'[u] = j /\ stack'[u] = stack[u]
    BY <1>1 DEF IInv
  <2>2. j.on # Nobody => /\ Made(j.on)'
                         /\ valid[j.on] \subseteq valid'[j.on]
                         /\ "FILE_DESC" \in valid'[j.on] => "FILE_DESC" \in valid[j.on]
                         /\ obj[j.on].fd => obj'[j.on].fd
    <3>1. t \in Scanners /\ j.on # Nobody => j.on # job[t].on
      BY DEF IInv, OwnerInv
    <3> QED
      BY <1>2, <2>1, <3>1 DEF ScannerInv
  <2> QED
    BY <2>1, <2>2, ScannerKept DEF OwnEffect
<1> QED
  BY <1>3, <1>4, <1>5

LEMMA OwnMade ==
  ASSUME IInv, NEW t \in Threads, OwnEffect(t)
  PROVE  MadeInv'
<1> SUFFICES ASSUME NEW f \in Files \ (Starts \cup {Root}), Made(f)', NEW d, d = AtDir[f]
             PROVE  d # Root /\ Made(d)'
  BY DEF MadeInv, Starts
<1>1. d \in Files
  BY FilesAssumption
<1>2. d # Root /\ Made(d)
  <2>1. CASE Made(f)
    BY <2>1 DEF IInv, MadeInv
  <2>2. CASE t \in Walkers /\ job[t].on # Nobody /\ f \in Entries(job[t].on)
    BY <2>2 DEF IInv, WalkerInv, Entries
  <2> QED
    BY <2>1, <2>2 DEF OwnEffect
<1> QED
  BY <1>1, <1>2 DEF OwnEffect

LEMMA OwnBits ==
  ASSUME IInv, NEW t \in Threads, OwnEffect(t),
         \A f \in Files : ~Made(f) =>
           \/ obj'[f].path = obj[f].path /\ obj'[f].size = obj[f].size /\ valid'[f] = valid[f]
           \/ /\ "PATH" \notin valid'[f] /\ "FILE_DESC" \notin valid'[f]
              /\ "TYPE" \in valid'[f] => "UUID" \in valid'[f]
              /\ "STATINFO" \in valid'[f] /\ obj'[f].size = 0 => f \in unstatable
              /\ f \notin Misread => obj'[f].size = 0 \/ (obj'[f].size = 1 /\ f \notin unstatable)
  PROVE  BitsInv'
<1>1. BitsInv /\ UNCHANGED faults /\ unopenable' = unopenable /\ unstatable' = unstatable
      /\ Root \in Files
  BY FilesAssumption, SameTypes DEF IInv, OwnEffect
<1>2. obj'[Root].path = <<".">> /\ obj'[Root].fd /\ {"FILE_DESC", "TYPE", "PATH"} \subseteq valid'[Root]
  <2>1. t \in Scanners => Root # job[t].on
    BY <1>1, ThreadsAssumption DEF IInv, ScannerInv
  <2>2. Made(Root)
    BY DEF Made
  <2>3. /\ obj'[Root].path = obj[Root].path /\ valid'[Root] = valid[Root]
        /\ obj[Root].fd /\ ~obj'[Root].fd => t \in Scanners /\ Root = job[t].on
    BY <1>1, <2>2 DEF OwnEffect
  <2> QED
    BY <1>1, <2>1, <2>3 DEF BitsInv
<1>3. \A f \in Files :
           \/ obj'[f].path = obj[f].path /\ obj'[f].size = obj[f].size /\ valid'[f] = valid[f]
           \/ /\ "PATH" \notin valid'[f] /\ "FILE_DESC" \notin valid'[f]
              /\ "TYPE" \in valid'[f] => "UUID" \in valid'[f]
              /\ "STATINFO" \in valid'[f] /\ obj'[f].size = 0 => f \in unstatable
              /\ f \notin Misread => obj'[f].size = 0 \/ (obj'[f].size = 1 /\ f \notin unstatable)
  BY DEF OwnEffect
<1>4. \A f \in Files : "PATH" \in valid'[f] => HasPath(f)'
  BY <1>1, <1>3 DEF BitsInv, HasPath
<1>5. \A f \in Files \ {Root} :
        /\ "TYPE" \in valid'[f] => "UUID" \in valid'[f]
        /\ "FILE_DESC" \in valid'[f] => f \notin unopenable'
        /\ "STATINFO" \in valid'[f] /\ obj'[f].size = 0 => f \in unstatable'
  BY <1>1, <1>3 DEF BitsInv
<1>6. \A f \in Files \ {Root} :
        f \notin Misread => obj'[f].size = 0 \/ (obj'[f].size = 1 /\ f \notin unstatable)
  BY <1>1, <1>3 DEF BitsInv
<1> QED
  BY <1>1, <1>2, <1>4, <1>5, <1>6, SameTypes DEF BitsInv

LEMMA OwnOwners ==
  ASSUME IInv, NEW t \in Threads, OwnEffect(t), OwnCall(t),
         UNCHANGED <<valid, dirs, files>>,
         \A f \in Files : Made(f)' <=> Made(f),
         \A u \in Walkers \cup Scanners : job'[u].on = job[u].on,
         t \in Walkers => BatchOf(t)' = BatchOf(t),
         t = Main => job'[Main].at # "switch" /\ (Idle(Main)' \/ job'[Main].asked = 0)
  PROVE  OwnerInv'
<1>0. UNCHANGED faults
  BY DEF OwnEffect
<1>1. /\ \A u \in Threads \ {t} : stack'[u] = stack[u] /\ job'[u] = job[u]
      /\ Walkers \subseteq Threads /\ Scanners \subseteq Threads /\ Main \in Threads
  BY OwnStacks, ThreadsAssumption DEF OwnEffect, Threads
<1>2. /\ \A f : Entries(f)' = Entries(f) /\ Entries(f) \subseteq Files
      /\ dirs \subseteq Files /\ files \subseteq Files
      /\ \A w \in Walkers : BatchOf(w) \subseteq Files
  BY <1>1 DEF Entries, Starts, IInv, TypeInv, BatchOf, Jobs
<1>3. \A w \in Walkers : BatchOf(w)' = BatchOf(w)
  BY <1>1 DEF BatchOf
<1>4. (UNION {BatchOf(w) : w \in Walkers})' = UNION {BatchOf(w) : w \in Walkers}
      /\ UNION {BatchOf(w) : w \in Walkers} \subseteq Files
  BY <1>2, <1>3
<1>5. ASSUME job'[Main].asked > 0, job'[Main].at = "switch" \/ ~Idle(Main)',
             NEW f, f = StartPaths[job'[Main].asked]
      PROVE  /\ f \notin dirs \cup files
             /\ "FILE_DESC" \notin valid'[f]
             /\ \A u \in Walkers \cup Scanners : job'[u].on # f
             /\ \A g \in Entries(f) : ~Made(g)'
  <2>1. job'[Main] = job[Main] /\ stack'[Main] = stack[Main]
    <3>1. job'[Main].asked # 0
      <4>1. job[Main].asked \in Nat
        BY <1>1 DEF IInv, TypeInv, Jobs
      <4> QED
        BY <1>5
    <3> QED
      BY <1>1, <1>5, <3>1
  <2>2. /\ f \notin dirs \cup files
        /\ "FILE_DESC" \notin valid[f]
        /\ \A u \in Walkers \cup Scanners : job[u].on # f
        /\ \A g \in Entries(f) : ~Made(g)
    BY <1>5, <2>1 DEF IInv, OwnerInv, Idle
  <2> QED
    BY <1>2, <2>2
<1>6. ASSUME NEW u \in Walkers \cup Scanners, NEW v \in Walkers \cup Scanners,
             u # v, job'[u].on = job'[v].on
      PROVE  job'[u].on = Nobody
  BY <1>6 DEF IInv, OwnerInv
<1>7. ASSUME NEW d \in dirs
      PROVE  /\ TakenFor(d) = "dir" /\ Made(d)' /\ "UUID" \in valid'[d]
             /\ \A w \in Walkers : job'[w].on # d
             /\ \A f \in Entries(d) : ~Made(f)'
  BY <1>2 DEF IInv, OwnerInv
<1>8. ASSUME NEW f \in files \cup UNION {BatchOf(w) : w \in Walkers}
      PROVE  /\ TakenFor(f) = "file" /\ Made(f)' /\ "FILE_DESC" \notin valid'[f]
             /\ \A u \in Scanners : job'[u].on # f
  BY <1>2, <1>4 DEF IInv, OwnerInv
<1>9. \A w \in Walkers : BatchOf(w) \cap files = {}
  BY DEF IInv, OwnerInv
<1> QED
  BY <1>0, <1>2, <1>3, <1>4, <1>5, <1>6, <1>7, <1>8, <1>9, SameTypes DEF OwnerInv

LEMMA OwnInv ==
  ASSUME IInv, NEW t \in Threads, OwnEffect(t), OwnCall(t),
         TypeInv', BitsInv', OwnerInv', DescriptorInv',
         t = Main => MainInv', t \in Walkers => WalkerInv(t)', t \in Scanners => ScannerInv(t)'
  PROVE  IInv'
<1>1. (\A u \in Walkers : WalkerInv(u)') /\ (\A u \in Scanners : ScannerInv(u)') /\ MainInv'
  <2>1. ASSUME NEW u \in Walkers PROVE WalkerInv(u)'
    BY OwnOthers
  <2>2. ASSUME NEW u \in Scanners PROVE ScannerInv(u)'
    BY OwnOthers
  <2> QED
    BY <2>1, <2>2, OwnOthers
<1> QED
  BY <1>1, OwnCalls, OwnMade DEF IInv

LEMMA JobFields ==
  ASSUME NEW j \in Jobs
  PROVE  /\ j = [at |-> j.at, on |-> j.on, left |-> j.left, batch |-> j.batch,
                 entry |-> j.entry, asked |-> j.asked]
         /\ j.at \in Places /\ j.on \in Files \cup {Nobody} /\ j.left \in SUBSET Files
         /\ j.batch \in SUBSET Files /\ j.entry \in Files \cup {Nobody} /\ j.asked \in Nat
  BY DEF Jobs

\* A thread's place after its step.
LEMMA NextJob ==
  ASSUME TypeInv, NEW t \in Threads, NEW j \in Jobs, job' = [job EXCEPT ![t] = j]
  PROVE  /\ job' \in [Threads -> Jobs] /\ job'[t] = j
         /\ \A u \in Threads \ {t} : job'[u] = job[u]
  BY DEF TypeInv

LEMMA MoveJob ==
  ASSUME TypeInv, NEW t \in Threads, NEW at \in Places, NEW on \in Files \cup {Nobody},
         Move(t, at, on)
  PROVE  /\ job' \in [Threads -> Jobs]
         /\ \A u \in Threads \ {t} : job'[u] = job[u]
         /\ job'[t].at = at /\ job'[t].on = on /\ job'[t].left = job[t].left
         /\ job'[t].batch = job[t].batch /\ job'[t].entry = job[t].entry
         /\ job'[t].asked = job[t].asked
<1> DEFINE j == [job[t] EXCEPT !.at = at, !.on = on]
<1>1. job[t] \in Jobs
  BY DEF TypeInv
<1>2. j \in Jobs /\ j.at = at /\ j.on = on /\ j.left = job[t].left /\ j.batch = job[t].batch
      /\ j.entry = job[t].entry /\ j.asked = job[t].asked
  BY <1>1, JobFields DEF Jobs
<1>3. job' = [job EXCEPT ![t] = j]
  BY DEF Move, TypeInv
<1> HIDE DEF j
<1> QED
  BY <1>2, <1>3, NextJob

\* The main thread takes the next start path, a scanner a file.
Takes(t, at, on, asked) ==
  job' = [job EXCEPT ![t].at = at, ![t].on = on, ![t].asked = asked]

LEMMA TakeJob ==
  ASSUME TypeInv, NEW t \in Threads, NEW at \in Places, NEW on \in Files \cup {Nobody},
         NEW asked \in Nat, Takes(t, at, on, asked)
  PROVE  /\ job' \in [Threads -> Jobs]
         /\ \A u \in Threads \ {t} : job'[u] = job[u]
         /\ job'[t].at = at /\ job'[t].on = on /\ job'[t].left = job[t].left
         /\ job'[t].batch = job[t].batch /\ job'[t].entry = job[t].entry
         /\ job'[t].asked = asked
<1> DEFINE j == [job[t] EXCEPT !.at = at, !.on = on, !.asked = asked]
<1>1. job[t] \in Jobs
  BY DEF TypeInv
<1>2. j \in Jobs /\ j.at = at /\ j.on = on /\ j.left = job[t].left /\ j.batch = job[t].batch
      /\ j.entry = job[t].entry /\ j.asked = asked
  BY <1>1, JobFields DEF Jobs
<1>3. job' = [job EXCEPT ![t] = j]
  BY DEF TypeInv, Takes
<1> HIDE DEF j
<1> QED
  BY <1>2, <1>3, NextJob

-----------------------------------------------------------------------------
(* The main thread                                                          *)

LEMMA OpenCwdInv ==
  ASSUME IInv, OpenCwd, UNCHANGED faults
  PROVE  IInv'
<1>1. /\ TypeInv /\ MainInv /\ Main \in Threads /\ Main \notin Walkers \cup Scanners
      /\ Walkers \cup Scanners \subseteq Threads \ {Main}
      /\ Root \in Files /\ Idle(Main) /\ job[Main].at = "start" /\ job[Main].asked = 0
  BY ThreadsAssumption, FilesAssumption DEF IInv, Threads, OpenCwd, At, MainInv
<1>2. Call(Main, "OpenDir", Root) /\ Move(Main, "paths", Root)
      /\ UNCHANGED <<obj, valid, mutex, dirs, files, done>>
  BY DEF OpenCwd
<1>3. /\ job' \in [Threads -> Jobs] /\ \A u \in Threads \ {Main} : job'[u] = job[u]
      /\ job'[Main].at = "paths" /\ job'[Main].asked = 0
  BY <1>1, <1>2, MoveJob DEF Places
<1>4. \A f \in Files : Made(f)' <=> Made(f)
  BY <1>1, <1>2, <1>3, MadeKept
<1>5. Made(Root)'
  BY DEF Made
<1>6. OwnCall(Main)
  BY <1>1, <1>2, <1>5 DEF OwnCall
<1>7. /\ stack' \in [Threads -> Seq(Frames)] /\ Len(stack'[Main]) = 1 /\ stack'[Main] # <<>>
      /\ stack'[Main][1].op = "OpenDir" /\ stack'[Main][1].of = Root
  BY <1>1, <1>2, CallStack
<1>8. TypeInv'
  BY <1>1, <1>2, <1>3, <1>7, SameTypes DEF TypeInv
<1>9. OwnEffect(Main)
  BY <1>1, <1>2, <1>3, <1>4 DEF OwnEffect
<1>10. BitsInv' /\ DescriptorInv'
  <2>1. BitsInv'
    BY <1>1, <1>2, <1>9, OwnBits
  <2>2. DescriptorInv'
    BY <1>1, <1>2, <1>3 DEF IInv, DescriptorInv
  <2> QED
    BY <2>1, <2>2
<1>11. OwnerInv'
  BY <1>1, <1>2, <1>3, <1>4, <1>6, <1>9, OwnOwners
<1>12. MainInv'
  <2>1. 0 \in 0..Len(StartPaths)
    BY FilesAssumption, LenProperties
  <2> QED
    BY <1>3, <1>7, <2>1 DEF MainInv, Asks, Bottom, Idle
<1> QED
  BY <1>1, <1>6, <1>8, <1>9, <1>10, <1>11, <1>12, OwnInv

LEMMA CloseCwdInv ==
  ASSUME IInv, CloseCwd, UNCHANGED faults
  PROVE  IInv'
<1>1. /\ TypeInv /\ MainInv /\ Main \in Threads /\ Main \notin Walkers \cup Scanners
      /\ Walkers \cup Scanners \subseteq Threads \ {Main}
      /\ Root \in Files /\ Idle(Main) /\ job[Main].at = "paths"
      /\ job[Main].asked \in 0..Len(StartPaths)
  BY ThreadsAssumption, FilesAssumption DEF IInv, Threads, CloseCwd, At, MainInv
<1>2. obj' = [obj EXCEPT ![Root].temp = FALSE] /\ Move(Main, "traverse", Root)
      /\ UNCHANGED <<stack, valid, mutex, dirs, files, done>>
  BY DEF CloseCwd, CloseDir
<1>3. /\ job' \in [Threads -> Jobs] /\ \A u \in Threads \ {Main} : job'[u] = job[u]
      /\ job'[Main].at = "traverse" /\ job'[Main].asked = job[Main].asked
  BY <1>1, <1>2, MoveJob DEF Places
<1>4. /\ obj' \in [Files -> Impls]
      /\ \A g \in Files \ {Root} : obj'[g] = obj[g]
      /\ \A g \in Files : obj'[g].type \in {Unset, StatFailed, TakenFor(g)}
      /\ obj'[Root].temp = FALSE /\ obj'[Root].path = obj[Root].path
      /\ obj'[Root].size = obj[Root].size /\ obj'[Root].flags = obj[Root].flags
      /\ obj'[Root].fd = obj[Root].fd
  BY <1>1, <1>2, SetTemp
<1>5. \A f \in Files : Made(f)' <=> Made(f)
  BY <1>1, <1>3, <1>4, MadeKept
<1>6. OwnCall(Main) /\ Idle(Main)'
  BY <1>1, <1>2 DEF OwnCall, Idle
<1>7. TypeInv'
  BY <1>1, <1>2, <1>3, <1>4, SameTypes DEF TypeInv
<1>8. OwnEffect(Main)
  BY <1>1, <1>2, <1>3, <1>4, <1>5 DEF OwnEffect
<1>9. BitsInv'
  BY <1>1, <1>2, <1>4, <1>8, OwnBits
<1>10. DescriptorInv'
  BY <1>1, <1>3, <1>4 DEF IInv, DescriptorInv
<1>11. OwnerInv'
  BY <1>1, <1>2, <1>3, <1>5, <1>6, <1>8, OwnOwners
<1>12. MainInv'
  BY <1>1, <1>3, <1>4, <1>6 DEF MainInv
<1> QED
  BY <1>1, <1>6, <1>7, <1>8, <1>9, <1>10, <1>11, <1>12, OwnInv

LEMMA TakeStartPathInv ==
  ASSUME IInv, TakeStartPath, UNCHANGED faults
  PROVE  IInv'
<1> PICK n : n = job[Main].asked + 1
  OBVIOUS
<1> PICK f : f = StartPaths[n]
  OBVIOUS
<1>1. /\ TypeInv /\ MainInv /\ Main \in Threads /\ Main \notin Walkers \cup Scanners
      /\ Walkers \cup Scanners \subseteq Threads \ {Main}
      /\ Root \in Files /\ Idle(Main) /\ job[Main].at = "paths"
  BY ThreadsAssumption, FilesAssumption DEF IInv, Threads, TakeStartPath, At
<1>2. /\ n \in 1..Len(StartPaths) /\ n \in Nat /\ job[Main].asked = n - 1 /\ Len(StartPaths) \in Nat
      /\ DOMAIN StartPaths = 1..Len(StartPaths) /\ f \in Files \ {Root} /\ f \in Starts
  <2>1. Len(StartPaths) \in Nat /\ DOMAIN StartPaths = 1..Len(StartPaths)
    BY FilesAssumption, LenProperties
  <2>2. job[Main].asked \in 0..Len(StartPaths) /\ job[Main].asked < Len(StartPaths)
    BY <1>1 DEF MainInv, TakeStartPath
  <2>3. n \in 1..Len(StartPaths) /\ job[Main].asked = n - 1 /\ n \in Nat
    BY <2>1, <2>2
  <2> QED
    BY <2>1, <2>3, FilesAssumption DEF Starts
<1>3. /\ obj' = [obj EXCEPT ![f] = StartFileID(f)]
      /\ valid' = [valid EXCEPT ![f] = {}]
      /\ Call(Main, "GetFileType", f)
      /\ job' = [job EXCEPT ![Main].at = "switch", ![Main].on = f, ![Main].asked = @ + 1]
      /\ UNCHANGED <<mutex, dirs, files, done>>
  BY DEF TakeStartPath
<1>4. /\ job' \in [Threads -> Jobs] /\ \A u \in Threads \ {Main} : job'[u] = job[u]
      /\ job'[Main].at = "switch" /\ job'[Main].on = f /\ job'[Main].asked = n
  <2>1. Takes(Main, "switch", f, n)
    BY <1>1, <1>3 DEF TypeInv, Takes
  <2>2. TypeInv /\ Main \in Threads /\ "switch" \in Places /\ f \in Files \cup {Nobody} /\ n \in Nat
    BY <1>1, <1>2 DEF Places
  <2> QED
    BY ONLY <2>1, <2>2, TakeJob
<1>5. ~Made(f) /\ \A g \in Files : Made(g) => g # f
  <2>1. \A m \in 1..(n - 1) : m \in DOMAIN StartPaths /\ m # n
    BY <1>2
  <2> QED
    BY <1>2, <2>1, FilesAssumption DEF Made
<1>6. /\ obj' \in [Files -> Impls] /\ obj'[f] = StartFileID(f)
      /\ \A g \in Files \ {f} : obj'[g] = obj[g]
      /\ \A g \in Files : obj'[g].type \in {Unset, StatFailed, TakenFor(g)}
      /\ StartFileID(f).fd = FALSE /\ StartFileID(f).temp = FALSE /\ StartFileID(f).size = 0
  <2>1. <<>> \in Seq(Files \cup {"."}) /\ <<f>> \in Seq(Files \cup {"."})
    BY <1>2
  <2>2. StartFileID(f) \in Impls /\ StartFileID(f).type = Unset /\ StartFileID(f).size = 0
        /\ StartFileID(f).fd = FALSE /\ StartFileID(f).temp = FALSE
    <3>1. CASE f \in AbsolutePaths
      <4> PICK path : path = <<f>>
        OBVIOUS
      <4>1. StartFileID(f) = [path |-> path, type |-> Unset, size |-> 0, flags |-> FALSE,
                              fd |-> FALSE, temp |-> FALSE]
        <5>1. (IF f \in AbsolutePaths THEN <<f>> ELSE <<>>) = path
          BY <3>1
        <5>2. StartFileID(f) = Impl(path, Unset, 0)
          BY <5>1, Zenon DEF StartFileID
        <5> QED
          BY <5>2 DEF Impl
      <4>2. path \in Seq(Files \cup {"."})
        BY <2>1
      <4>3. Unset \in {Unset, StatFailed} \cup Kinds /\ 0 \in Int
        OBVIOUS
      <4> PICK type, size : type = Unset /\ size = 0
        OBVIOUS
      <4>4. [path |-> path, type |-> type, size |-> size, flags |-> FALSE,
             fd |-> FALSE, temp |-> FALSE] \in Impls
        BY <4>2, <4>3, NewImpl
      <4> QED
        BY <4>1, <4>4
    <3>2. CASE f \notin AbsolutePaths
      <4> PICK path : path = <<>>
        OBVIOUS
      <4>1. StartFileID(f) = [path |-> path, type |-> Unset, size |-> 0, flags |-> FALSE,
                              fd |-> FALSE, temp |-> FALSE]
        <5>1. (IF f \in AbsolutePaths THEN <<f>> ELSE <<>>) = path
          BY <3>2
        <5>2. StartFileID(f) = Impl(path, Unset, 0)
          BY <5>1, Zenon DEF StartFileID
        <5> QED
          BY <5>2 DEF Impl
      <4>2. path \in Seq(Files \cup {"."})
        BY <2>1
      <4>3. Unset \in {Unset, StatFailed} \cup Kinds /\ 0 \in Int
        OBVIOUS
      <4> PICK type, size : type = Unset /\ size = 0
        OBVIOUS
      <4>4. [path |-> path, type |-> type, size |-> size, flags |-> FALSE,
             fd |-> FALSE, temp |-> FALSE] \in Impls
        BY <4>2, <4>3, NewImpl
      <4> QED
        BY <4>1, <4>4
    <3> QED
      BY <3>1, <3>2
  <2> QED
    BY <1>1, <1>2, <1>3, <2>2, ObjChange
<1>7. /\ valid' \in [Files -> SUBSET Bits] /\ valid'[f] = {}
      /\ \A g \in Files \ {f} : valid'[g] = valid[g]
  BY <1>1, <1>2, <1>3 DEF TypeInv
<1>8. \A g \in Files : Made(g)' <=> Made(g) \/ g = f
  <2>1. \A m : m \in 1..n <=> m \in 1..(n - 1) \/ m = n
    BY <1>2
  <2>2. \A g \in Files : g \notin Starts => obj'[g].flags = obj[g].flags
    BY <1>2, <1>6
  <2> QED
    BY <1>2, <1>4, <2>1, <2>2 DEF Made
<1>9. OwnCall(Main)
  BY <1>2, <1>3, <1>8 DEF OwnCall, Getters
<1>10. /\ stack' \in [Threads -> Seq(Frames)] /\ Len(stack'[Main]) = 1 /\ stack'[Main] # <<>>
       /\ stack'[Main][1].op = "GetFileType" /\ stack'[Main][1].of = f
  BY <1>1, <1>2, <1>3, CallStack DEF Getters
<1>11. TypeInv'
  BY <1>1, <1>3, <1>4, <1>6, <1>7, <1>10, SameTypes DEF TypeInv
<1>12. OwnEffect(Main)
  BY <1>1, <1>2, <1>3, <1>4, <1>5, <1>6, <1>7, <1>8 DEF OwnEffect
<1>13. BitsInv'
  <2>1. obj'[f].size = 0 /\ valid'[f] = {}
    BY <1>6, <1>7
  <2>2. \A g \in Files \ {f} : obj'[g] = obj[g] /\ valid'[g] = valid[g]
    BY <1>6, <1>7
  <2> QED
    BY <1>1, <1>12, <2>1, <2>2, OwnBits
<1>14. DescriptorInv'
  BY <1>1, <1>4, <1>6 DEF IInv, DescriptorInv
<1>15. OwnerInv'
  <2>1. \A u \in Walkers \cup Scanners : job'[u] = job[u] /\ job[u].on # f
    <3>1. \A u \in Walkers \cup Scanners : job[u].on = Nobody \/ Made(job[u].on)
      BY DEF IInv, WalkerInv, ScannerInv
    <3> QED
      BY <1>1, <1>2, <1>4, <1>5, <3>1, ThreadsAssumption
  <2>2. /\ \A d : Entries(d)' = Entries(d) /\ Entries(d) \subseteq Files \ Starts
        /\ \A w \in Walkers : BatchOf(w)' = BatchOf(w)
        /\ (UNION {BatchOf(w) : w \in Walkers})' = UNION {BatchOf(w) : w \in Walkers}
    BY <2>1 DEF Entries, Starts, BatchOf
  <2>3. dirs \subseteq Files /\ files \subseteq Files
        /\ UNION {BatchOf(w) : w \in Walkers} \subseteq Files
    BY <1>1 DEF TypeInv, BatchOf, Jobs
  <2>4. f \notin dirs \cup files
    BY <1>5 DEF IInv, OwnerInv
  <2>5. \A g \in Entries(f) : ~Made(g)'
    <3>1. ASSUME NEW g \in Entries(f), Made(g) PROVE FALSE
      <4>1. g \in Files \ (Starts \cup {Root}) /\ AtDir[g] = f
        BY DEF Entries
      <4> QED
        BY <1>5, <3>1, <4>1 DEF IInv, MadeInv
    <3> QED
      BY <1>2, <1>8, <2>2, <3>1
  <2>6. ASSUME NEW d \in dirs
        PROVE  /\ TakenFor(d) = "dir" /\ Made(d)' /\ "UUID" \in valid'[d]
               /\ \A w \in Walkers : job'[w].on # d
               /\ \A g \in Entries(d) : ~Made(g)'
    BY <1>2, <1>7, <1>8, <2>1, <2>2, <2>3, <2>4 DEF IInv, OwnerInv
  <2>7. ASSUME NEW g \in files \cup UNION {BatchOf(w) : w \in Walkers}
        PROVE  /\ TakenFor(g) = "file" /\ Made(g)' /\ "FILE_DESC" \notin valid'[g]
               /\ \A u \in Scanners : job'[u].on # g
    BY <1>7, <1>8, <2>1, <2>3 DEF IInv, OwnerInv
  <2>8. ASSUME NEW u \in Walkers \cup Scanners, NEW v \in Walkers \cup Scanners,
               u # v, job'[u].on = job'[v].on
        PROVE  job'[u].on = Nobody
    BY <2>1, <2>8 DEF IInv, OwnerInv
  <2>9. \A w \in Walkers : BatchOf(w) \cap files = {}
    BY DEF IInv, OwnerInv
  <2>10. "FILE_DESC" \notin valid'[f] /\ \A u \in Walkers \cup Scanners : job'[u].on # f
    BY <1>7, <2>1
  <2>11. files' = files /\ dirs' = dirs /\ f = StartPaths[job'[Main].asked]
    BY <1>3, <1>4
  <2>12. /\ \A d \in dirs : TakenFor(d)' = "dir"
         /\ \A g \in files \cup UNION {BatchOf(w) : w \in Walkers} : TakenFor(g)' = "file"
    BY <2>3, <2>6, <2>7, SameTypes
  <2> QED
    BY <2>2, <2>4, <2>5, <2>6, <2>7, <2>8, <2>9, <2>10, <2>11, <2>12 DEF OwnerInv
<1>16. MainInv'
  <2>1. obj'[Root].temp
    BY <1>1, <1>2, <1>6 DEF MainInv
  <2>2. ~Idle(Main)' /\ Asks(Main, "GetFileType", f)'
    BY <1>10 DEF Asks, Bottom, Idle
  <2>3. n \in 0..Len(StartPaths) /\ n > 0 /\ n # 0
    BY <1>2
  <2> QED
    BY <1>2, <1>4, <2>1, <2>2, <2>3 DEF MainInv, Asks
<1> QED
  BY <1>1, <1>9, <1>11, <1>12, <1>13, <1>14, <1>15, <1>16, OwnInv

\* What the main thread knows of the start path in its hand.
LEMMA StartInHand ==
  ASSUME IInv, job[Main].at = "switch", Idle(Main), NEW f, f = job[Main].on
  PROVE  /\ f \in Files \ {Root} /\ f \in Starts /\ Made(f) /\ job[Main].asked > 0
         /\ f = StartPaths[job[Main].asked] /\ "UUID" \in valid[f] /\ "FILE_DESC" \notin valid[f]
         /\ f \notin dirs \cup files /\ (\A u \in Walkers \cup Scanners : job[u].on # f)
         /\ \A g \in Entries(f) : ~Made(g)
<1>1. MainInv /\ job[Main].asked \in Nat
  BY DEF IInv, TypeInv, Jobs, Threads
<1>2. /\ job[Main].asked \in 1..Len(StartPaths) /\ f = StartPaths[job[Main].asked]
      /\ "TYPE" \in valid[f]
  BY <1>1, FilesAssumption, LenProperties DEF MainInv
<1>3. f \in Files \ {Root} /\ f \in Starts
  BY <1>2, FilesAssumption, LenProperties DEF Starts
<1>4. job[Main].asked \in 1..job[Main].asked
  BY <1>1, <1>2
<1>5. Made(f) /\ "UUID" \in valid[f]
  BY <1>2, <1>3, <1>4 DEF Made, IInv, BitsInv
<1> QED
  BY <1>1, <1>2, <1>3, <1>5 DEF MainInv, IInv, OwnerInv

LEMMA QueueStartPathInv ==
  ASSUME IInv, QueueStartPath, UNCHANGED faults
  PROVE  IInv'
<1> PICK f : f = job[Main].on
  OBVIOUS
<1>1. /\ TypeInv /\ MainInv /\ Main \in Threads /\ Main \notin Walkers \cup Scanners
      /\ Walkers \cup Scanners \subseteq Threads \ {Main}
      /\ Root \in Files /\ Idle(Main) /\ job[Main].at = "switch"
  BY ThreadsAssumption, FilesAssumption DEF IInv, Threads, QueueStartPath, At
<1>2. /\ f \in Files \ {Root} /\ f \in Starts /\ Made(f) /\ job[Main].asked > 0
      /\ f = StartPaths[job[Main].asked] /\ "UUID" \in valid[f] /\ "FILE_DESC" \notin valid[f]
      /\ f \notin dirs \cup files /\ (\A u \in Walkers \cup Scanners : job[u].on # f)
      /\ \A g \in Entries(f) : ~Made(g)
  BY <1>1, StartInHand
<1>3. Move(Main, "paths", Root) /\ UNCHANGED <<valid, mutex, done>>
  BY DEF QueueStartPath
<1>4. \/ /\ obj[f].type = "file" /\ obj' = [obj EXCEPT ![f].flags = TRUE]
         /\ files' = files \cup {f} /\ UNCHANGED <<stack, dirs>>
      \/ /\ obj[f].type = "dir" /\ obj' = [obj EXCEPT ![f].flags = TRUE]
         /\ dirs' = dirs \cup {f} /\ UNCHANGED <<stack, files>>
      \/ Call(Main, "GetPath", f) /\ UNCHANGED <<obj, dirs, files>>
  BY DEF QueueStartPath, SetFileDescriptorMode
<1>5. /\ job' \in [Threads -> Jobs] /\ \A u \in Threads \ {Main} : job'[u] = job[u]
      /\ job'[Main].at = "paths" /\ job'[Main].asked = job[Main].asked
  BY <1>1, <1>3, MoveJob DEF Places
<1>6. /\ obj' \in [Files -> Impls]
      /\ \A g \in Files \ {f} : obj'[g] = obj[g]
      /\ \A g \in Files : obj'[g].type \in {Unset, StatFailed, TakenFor(g)}
      /\ obj'[f].path = obj[f].path /\ obj'[f].size = obj[f].size
      /\ obj'[f].fd = obj[f].fd /\ obj'[f].temp = obj[f].temp
  <2>1. CASE obj' = [obj EXCEPT ![f].flags = TRUE]
    BY <1>1, <1>2, <2>1, SetFlags
  <2>2. CASE obj' = obj
    BY <1>1, <2>2 DEF TypeInv
  <2> QED
    BY <1>4, <2>1, <2>2
<1>7. \A g \in Files : Made(g)' <=> Made(g)
  BY <1>1, <1>2, <1>5, <1>6 DEF Made
<1>8. OwnCall(Main)
  BY <1>2, <1>4, <1>7 DEF OwnCall, Getters
<1>9. /\ stack' \in [Threads -> Seq(Frames)]
      /\ \/ Idle(Main)'
         \/ /\ UNCHANGED <<obj, dirs, files>>
            /\ Len(stack'[Main]) = 1 /\ stack'[Main] # <<>>
            /\ stack'[Main][1].op = "GetPath" /\ stack'[Main][1].of = f
  <2>1. CASE stack' = stack
    BY <1>1, <2>1 DEF TypeInv, Idle
  <2>2. CASE Call(Main, "GetPath", f) /\ UNCHANGED <<obj, dirs, files>>
    BY <1>1, <1>2, <2>2, CallStack DEF Getters
  <2> QED
    BY <1>4, <2>1, <2>2
<1>10. /\ dirs' \subseteq Files \ {Root} /\ files' \subseteq Files \ {Root}
       /\ dirs' \subseteq dirs \cup {f} /\ files' \subseteq files \cup {f}
       /\ f \in dirs' => TakenFor(f) = "dir" /\ Idle(Main)'
       /\ f \in files' => TakenFor(f) = "file" /\ Idle(Main)'
  <2>1. obj[f].type \in {Unset, StatFailed, TakenFor(f)} /\ dirs \subseteq Files \ {Root}
        /\ files \subseteq Files \ {Root}
    BY <1>1, <1>2 DEF TypeInv
  <2>2. obj[f].type \in {"file", "dir"} => obj[f].type = TakenFor(f)
    BY <2>1 DEF Unset, StatFailed
  <2>3. stack' = stack => Idle(Main)'
    BY <1>1 DEF Idle
  <2> QED
    BY <1>2, <1>4, <2>1, <2>2, <2>3
<1>11. TypeInv'
  BY <1>1, <1>3, <1>5, <1>6, <1>9, <1>10, SameTypes DEF TypeInv
<1>12. OwnEffect(Main)
  BY <1>1, <1>2, <1>3, <1>5, <1>6, <1>7 DEF OwnEffect
<1>13. BitsInv'
  BY <1>1, <1>3, <1>6, <1>12, OwnBits
<1>14. DescriptorInv'
  BY <1>1, <1>2, <1>5, <1>6 DEF IInv, DescriptorInv
<1>15. OwnerInv'
  <2>1. \A u \in Walkers \cup Scanners : job'[u] = job[u] /\ job[u].on # f
    BY <1>1, <1>2, <1>5
  <2>2. /\ \A d : Entries(d)' = Entries(d) /\ Entries(d) \subseteq Files \ Starts
        /\ \A w \in Walkers : BatchOf(w)' = BatchOf(w)
        /\ (UNION {BatchOf(w) : w \in Walkers})' = UNION {BatchOf(w) : w \in Walkers}
    BY <2>1 DEF Entries, Starts, BatchOf
  <2>3. dirs \subseteq Files /\ files \subseteq Files
        /\ UNION {BatchOf(w) : w \in Walkers} \subseteq Files
    BY <1>1 DEF TypeInv, BatchOf, Jobs
  <2>4. \A w \in Walkers : f \notin BatchOf(w)
    BY <1>2, <2>2 DEF BatchOf, IInv, WalkerInv
  <2>5. ASSUME NEW d \in dirs'
        PROVE  /\ TakenFor(d) = "dir" /\ Made(d)' /\ "UUID" \in valid'[d]
               /\ \A w \in Walkers : job'[w].on # d
               /\ \A g \in Entries(d) : ~Made(g)'
    <3>1. CASE d = f
      BY <1>2, <1>3, <1>7, <1>10, <2>1, <2>2, <3>1
    <3>2. CASE d \in dirs
      BY <1>3, <1>7, <2>1, <2>2, <2>3, <3>2 DEF IInv, OwnerInv
    <3> QED
      BY <1>10, <3>1, <3>2
  <2>6. ASSUME NEW g \in files' \cup UNION {BatchOf(w) : w \in Walkers}
        PROVE  /\ TakenFor(g) = "file" /\ Made(g)' /\ "FILE_DESC" \notin valid'[g]
               /\ \A u \in Scanners : job'[u].on # g
    <3>1. CASE g = f
      BY <1>2, <1>3, <1>7, <1>10, <2>1, <2>4, <3>1
    <3>2. CASE g \in files \cup UNION {BatchOf(w) : w \in Walkers}
      BY <1>3, <1>7, <2>1, <2>3, <3>2 DEF IInv, OwnerInv
    <3> QED
      BY <1>10, <3>1, <3>2
  <2>7. ASSUME NEW u \in Walkers \cup Scanners, NEW v \in Walkers \cup Scanners,
               u # v, job'[u].on = job'[v].on
        PROVE  job'[u].on = Nobody
    BY <2>1, <2>7 DEF IInv, OwnerInv
  <2>8. \A w \in Walkers : BatchOf(w) \cap files' = {}
    BY <1>10, <2>4 DEF IInv, OwnerInv
  <2>9. ~Idle(Main)' => f \notin dirs' \cup files'
    BY <1>10
  <2>10. /\ "FILE_DESC" \notin valid'[f] /\ \A u \in Walkers \cup Scanners : job'[u].on # f
         /\ \A g \in Entries(f) : ~Made(g)'
    BY <1>2, <1>3, <1>7, <2>1, <2>2
  <2>11. f = StartPaths[job'[Main].asked] /\ job'[Main].at # "switch"
    BY <1>2, <1>5
  <2>12. /\ \A d \in dirs' : TakenFor(d)' = "dir"
         /\ \A g \in files' \cup UNION {BatchOf(w) : w \in Walkers} : TakenFor(g)' = "file"
    BY <1>10, <2>3, <2>5, <2>6, SameTypes
  <2> QED
    BY <2>2, <2>5, <2>6, <2>7, <2>8, <2>9, <2>10, <2>11, <2>12 DEF OwnerInv
<1>16. MainInv'
  <2>1. obj'[Root].temp
    BY <1>1, <1>2, <1>6 DEF MainInv
  <2>2. Asks(Main, "GetPath", f)'
    BY <1>9 DEF Asks, Bottom, Idle
  <2>3. job[Main].asked \in 0..Len(StartPaths) /\ job[Main].asked # 0
    BY <1>1, <1>2 DEF MainInv
  <2> QED
    BY <1>2, <1>5, <2>1, <2>2, <2>3 DEF MainInv, Asks
<1> QED
  BY <1>1, <1>8, <1>11, <1>12, <1>13, <1>14, <1>15, <1>16, OwnInv

-----------------------------------------------------------------------------
(* The traversal threads and the scanners                                   *)

\* What a walker has in its hand was in a directory of its own.
LEMMA BatchEntries ==
  ASSUME IInv, NEW w \in Walkers
  PROVE  /\ BatchOf(w) # {} => job[w].on # Nobody
         /\ BatchOf(w) \subseteq Entries(job[w].on)
         /\ \A f \in Entries(job[w].on) : f \in Files \ {Root} /\ AtDir[f] = job[w].on /\ f \notin Starts
  BY DEF IInv, WalkerInv, BatchOf, Entries

\* What is in a thread's hand is there.
LEMMA HandsMade ==
  ASSUME IInv, NEW u \in Walkers \cup Scanners, job[u].on # Nobody
  PROVE  /\ job[u].on \in Files \ {Root} /\ Made(job[u].on)
         /\ u \in Walkers => TakenFor(job[u].on) = "dir"
         /\ u \in Scanners => TakenFor(job[u].on) = "file"
  BY DEF IInv, WalkerInv, ScannerInv

\* The start path in the main thread's hand stays there while other threads go on.
LEMMA MainHand ==
  ASSUME IInv, NEW t \in Walkers \cup Scanners, OwnEffect(t), OwnCall(t),
         job'[Main].asked > 0, job'[Main].at = "switch" \/ ~Idle(Main)',
         NEW f, f = StartPaths[job'[Main].asked]
  PROVE  /\ f \in Files \ {Root} /\ f \in Starts /\ Made(f)
         /\ f \notin dirs \cup files /\ "FILE_DESC" \notin valid'[f]
         /\ \A u \in Walkers \cup Scanners : job[u].on # f
         /\ \A g \in Entries(f) : ~Made(g)'
<1>1. t \in Threads /\ Main \in Threads /\ t # Main
  BY ThreadsAssumption DEF Threads
<1>2. job'[Main] = job[Main] /\ stack'[Main] = stack[Main]
  BY <1>1, OwnStacks DEF OwnEffect
<1>3. job[Main].asked > 0 /\ (job[Main].at = "switch" \/ ~Idle(Main)) /\ f = StartPaths[job[Main].asked]
  BY <1>2 DEF Idle
<1>4. /\ f \notin dirs \cup files /\ "FILE_DESC" \notin valid[f]
      /\ \A u \in Walkers \cup Scanners : job[u].on # f
      /\ \A g \in Entries(f) : ~Made(g)
  BY <1>3 DEF IInv, OwnerInv
<1>5. job[Main].asked \in 1..Len(StartPaths) /\ job[Main].asked \in 1..job[Main].asked
  BY <1>3, FilesAssumption, LenProperties DEF IInv, MainInv
<1>6. f \in Files \ {Root} /\ f \in Starts /\ Made(f)
  BY <1>3, <1>5, FilesAssumption, LenProperties DEF Starts, Made
<1>7. \A g \in Entries(f) : ~Made(g)'
  BY <1>4 DEF OwnEffect, Entries
<1>8. "FILE_DESC" \notin valid'[f]
  BY <1>4, <1>6 DEF OwnEffect
<1> QED
  BY <1>4, <1>6, <1>7, <1>8

\* A FileID goes from a queue to a hand, from a hand to a batch or a queue, or nowhere.
LEMMA Handover ==
  ASSUME IInv, NEW t \in Walkers \cup Scanners, OwnEffect(t), OwnCall(t),
         \/ job'[t].on \in {job[t].on, Nobody}
         \/ t \in Walkers /\ job'[t].on \in dirs \ dirs'
         \/ t \in Scanners /\ job'[t].on \in files \ files',
         \A d \in dirs' \ dirs :
           TakenFor(d) = "dir" /\ "UUID" \in valid'[d] /\ Made(d)' /\ ~Made(d) /\ d \in Files \ Starts,
         \A f \in BatchOf(t)' \ BatchOf(t) :
           TakenFor(f) = "file" /\ "FILE_DESC" \notin valid'[f] /\ Made(f)' /\ ~Made(f)
           /\ f \in Files \ Starts /\ t \in Walkers,
         \A f \in files' \ files : t \in Walkers /\ f \in BatchOf(t),
         t \in Walkers => BatchOf(t)' \cap files' = {}
  PROVE  OwnerInv'
<1>1. /\ t \in Threads /\ Main \in Threads /\ t # Main /\ Walkers \cap Scanners = {}
      /\ Walkers \cup Scanners \subseteq Threads /\ Nobody \notin Files
  BY ThreadsAssumption DEF Threads
<1>2. /\ \A u \in Threads \ {t} : job'[u] = job[u]
      /\ \A f \in Files : Made(f) => Made(f)' /\ valid'[f] = valid[f]
      /\ \A f \in Files : Made(f)' =>
           Made(f) \/ f \in Starts \/ (t \in Walkers /\ job[t].on # Nobody /\ f \in Entries(job[t].on))
  BY DEF OwnEffect
<1>3. /\ \A d : Entries(d)' = Entries(d)
      /\ \A d : \A f \in Entries(d) : f \in Files \ {Root} /\ f \notin Starts /\ AtDir[f] = d
      /\ \A w \in Walkers \ {t} : BatchOf(w)' = BatchOf(w)
      /\ dirs \subseteq Files /\ files \subseteq Files
  BY <1>1, <1>2 DEF Entries, Starts, BatchOf, IInv, TypeInv
<1>4. \A u \in Walkers \cup Scanners : job[u].on # Nobody =>
         /\ job[u].on \in Files \ {Root} /\ Made(job[u].on)
         /\ u \in Walkers => TakenFor(job[u].on) = "dir"
         /\ u \in Scanners => TakenFor(job[u].on) = "file"
  BY HandsMade
<1>5. /\ \A d \in dirs : /\ TakenFor(d) = "dir" /\ Made(d) /\ "UUID" \in valid[d]
                         /\ \A w \in Walkers : job[w].on # d
                         /\ \A f \in Entries(d) : ~Made(f)
      /\ \A f \in files : /\ TakenFor(f) = "file" /\ Made(f) /\ "FILE_DESC" \notin valid[f]
                          /\ \A u \in Scanners : job[u].on # f
      /\ \A w \in Walkers : \A f \in BatchOf(w) :
           /\ TakenFor(f) = "file" /\ Made(f) /\ "FILE_DESC" \notin valid[f]
           /\ f \in Files \ Starts /\ f \notin files
           /\ \A u \in Scanners : job[u].on # f
  BY BatchEntries DEF IInv, OwnerInv
<1>6. ASSUME NEW v \in (Walkers \cup Scanners) \ {t}, job'[t].on = job[v].on PROVE job[v].on = Nobody
  <2>1. CASE job'[t].on \in {job[t].on, Nobody}
    BY <1>6, <2>1 DEF IInv, OwnerInv
  <2>2. CASE t \in Walkers /\ job'[t].on \in dirs \ dirs'
    BY <1>4, <1>5, <1>6, <2>2
  <2>3. CASE t \in Scanners /\ job'[t].on \in files \ files'
    BY <1>4, <1>5, <1>6, <2>3
  <2> QED
    BY <2>1, <2>2, <2>3
<1>7. ASSUME NEW u \in Walkers \cup Scanners, NEW v \in Walkers \cup Scanners,
             u # v, job'[u].on = job'[v].on
      PROVE  job'[u].on = Nobody
  <2>1. CASE u = t
    BY <1>1, <1>2, <1>6, <1>7, <2>1
  <2>2. CASE v = t
    BY <1>1, <1>2, <1>6, <1>7, <2>2
  <2>3. CASE u # t /\ v # t
    BY <1>1, <1>2, <1>7, <2>3 DEF IInv, OwnerInv
  <2> QED
    BY <2>1, <2>2, <2>3
<1>8. ASSUME NEW d \in dirs'
      PROVE  /\ TakenFor(d) = "dir" /\ Made(d)' /\ "UUID" \in valid'[d]
             /\ \A w \in Walkers : job'[w].on # d
             /\ \A f \in Entries(d) : ~Made(f)'
  <2>1. CASE d \in dirs
    <3>1. TakenFor(d) = "dir" /\ Made(d)' /\ "UUID" \in valid'[d]
      BY <1>2, <1>3, <1>5, <2>1
    <3>2. \A w \in Walkers : job'[w].on # d
      BY <1>1, <1>2, <1>3, <1>5, <2>1
    <3>3. \A f \in Entries(d) : ~Made(f)'
      BY <1>2, <1>3, <1>5, <2>1
    <3> QED
      BY <3>1, <3>2, <3>3
  <2>2. CASE d \notin dirs
    <3>1. TakenFor(d) = "dir" /\ "UUID" \in valid'[d] /\ Made(d)' /\ ~Made(d) /\ d \in Files \ Starts
      BY <1>8, <2>2
    <3>2. \A u \in Walkers \cup Scanners : job[u].on # d
      BY <1>1, <1>4, <3>1
    <3>3. \A w \in Walkers : job'[w].on # d
      BY <1>1, <1>2, <2>2, <3>1, <3>2
    <3>4. \A f \in Entries(d) : ~Made(f)'
      <4>1. ASSUME NEW f \in Entries(d), Made(f) PROVE FALSE
        <5>1. f \in Files \ (Starts \cup {Root}) /\ AtDir[f] = d
          BY <1>3
        <5> QED
          BY <3>1, <4>1, <5>1 DEF IInv, MadeInv
      <4> QED
        BY <1>2, <1>3, <3>2, <4>1
    <3> QED
      BY <3>1, <3>3, <3>4
  <2> QED
    BY <2>1, <2>2
<1>9. ASSUME NEW w \in Walkers, NEW f \in BatchOf(w)'
      PROVE  /\ TakenFor(f) = "file" /\ Made(f)' /\ "FILE_DESC" \notin valid'[f]
             /\ \A u \in Scanners : job'[u].on # f
             /\ f \notin files'
  <2>1. CASE f \in BatchOf(w)
    <3>1. TakenFor(f) = "file" /\ Made(f)' /\ "FILE_DESC" \notin valid'[f]
      BY <1>2, <1>5, <2>1
    <3>2. \A u \in Scanners : job'[u].on # f
      BY <1>1, <1>2, <1>5, <2>1
    <3>3. f \notin files'
      <4>1. CASE w = t
        BY <1>9, <4>1
      <4>2. CASE w # t
        <5>1. t \in Walkers => f \notin BatchOf(t)
          <6>1. ASSUME t \in Walkers, f \in BatchOf(t) PROVE FALSE
            <7>1. job[t].on # Nobody /\ AtDir[f] = job[t].on /\ AtDir[f] = job[w].on
              BY <2>1, <6>1, BatchEntries
            <7> QED
              BY <4>2, <6>1, <7>1 DEF IInv, OwnerInv
          <6> QED
            BY <6>1
        <5> QED
          BY <1>5, <2>1, <5>1
      <4> QED
        BY <4>1, <4>2
    <3> QED
      BY <3>1, <3>2, <3>3
  <2>2. CASE f \notin BatchOf(w)
    <3>1. w = t
      BY <1>3, <1>9, <2>2
    <3>2. TakenFor(f) = "file" /\ "FILE_DESC" \notin valid'[f] /\ Made(f)' /\ ~Made(f)
          /\ f \in Files \ Starts /\ t \in Walkers
      BY <1>9, <2>2, <3>1
    <3>3. \A u \in Scanners : job'[u].on # f
      BY <1>1, <1>2, <1>4, <3>2
    <3>4. f \notin files'
      BY <1>9, <3>1, <3>2
    <3> QED
      BY <3>2, <3>3, <3>4
  <2> QED
    BY <2>1, <2>2
<1>10. ASSUME NEW f \in files'
       PROVE  /\ TakenFor(f) = "file" /\ Made(f)' /\ "FILE_DESC" \notin valid'[f]
              /\ \A u \in Scanners : job'[u].on # f
  <2>1. CASE f \in files
    <3>1. TakenFor(f) = "file" /\ Made(f)' /\ "FILE_DESC" \notin valid'[f]
      BY <1>2, <1>3, <1>5, <2>1
    <3>2. \A u \in Scanners : job'[u].on # f
      BY <1>1, <1>2, <1>3, <1>5, <1>10, <2>1
    <3> QED
      BY <3>1, <3>2
  <2>2. CASE f \notin files
    <3>1. t \in Walkers /\ f \in BatchOf(t)
      BY <1>10, <2>2
    <3> QED
      BY <1>1, <1>2, <1>5, <3>1
  <2> QED
    BY <2>1, <2>2
<1>11. ASSUME job'[Main].asked > 0, job'[Main].at = "switch" \/ ~Idle(Main)',
              NEW f, f = StartPaths[job'[Main].asked]
       PROVE  /\ f \notin dirs' \cup files'
              /\ "FILE_DESC" \notin valid'[f]
              /\ \A u \in Walkers \cup Scanners : job'[u].on # f
              /\ \A g \in Entries(f) : ~Made(g)'
  <2>1. /\ f \in Files \ {Root} /\ f \in Starts /\ Made(f)
        /\ f \notin dirs \cup files /\ "FILE_DESC" \notin valid'[f]
        /\ \A u \in Walkers \cup Scanners : job[u].on # f
        /\ \A g \in Entries(f) : ~Made(g)'
    BY <1>11, MainHand
  <2>2. f \notin dirs' \cup files'
    BY <1>5, <2>1
  <2>3. \A u \in Walkers \cup Scanners : job'[u].on # f
    BY <1>1, <1>2, <2>1
  <2> QED
    BY <2>1, <2>2, <2>3
<1>12. /\ \A d \in dirs' : TakenFor(d)' = "dir"
       /\ \A f \in files' : TakenFor(f)' = "file"
       /\ \A w \in Walkers : \A f \in BatchOf(w)' : TakenFor(f)' = "file"
  <2>1. UNCHANGED faults
    BY DEF OwnEffect
  <2>2. /\ dirs' \subseteq Files /\ files' \subseteq Files
        /\ \A w \in Walkers : BatchOf(w)' \subseteq Files
    BY <1>3, <1>5
  <2> QED
    BY <1>8, <1>9, <1>10, <2>1, <2>2, SameTypes
<1> QED
  BY <1>3, <1>7, <1>8, <1>9, <1>10, <1>11, <1>12 DEF OwnerInv

\* A walker's place after it took a directory, an entry of it, or put a file into its batch.
ReadsDir(t, d, left, batch) ==
  job' = [job EXCEPT ![t].at = "opened", ![t].on = d, ![t].left = left, ![t].batch = batch]

ReadsEntry(t, left, f) ==
  job' = [job EXCEPT ![t].at = "consider", ![t].left = left, ![t].entry = f]

KeepsBatch(t, batch) ==
  job' = [job EXCEPT ![t].at = "opened", ![t].batch = batch]

LEMMA ReadsDirJob ==
  ASSUME TypeInv, NEW t \in Threads, NEW d \in Files, NEW left \in SUBSET Files,
         NEW batch \in SUBSET Files, ReadsDir(t, d, left, batch)
  PROVE  /\ job' \in [Threads -> Jobs]
         /\ \A u \in Threads \ {t} : job'[u] = job[u]
         /\ job'[t].at = "opened" /\ job'[t].on = d /\ job'[t].left = left
         /\ job'[t].batch = batch /\ job'[t].entry = job[t].entry
         /\ job'[t].asked = job[t].asked
<1> DEFINE j == [job[t] EXCEPT !.at = "opened", !.on = d, !.left = left, !.batch = batch]
<1>1. job[t] \in Jobs
  BY DEF TypeInv
<1>2. j \in Jobs /\ j.at = "opened" /\ j.on = d /\ j.left = left /\ j.batch = batch
      /\ j.entry = job[t].entry /\ j.asked = job[t].asked
  BY <1>1, JobFields DEF Jobs, Places
<1>3. job' = [job EXCEPT ![t] = j]
  BY DEF TypeInv, ReadsDir
<1> HIDE DEF j
<1> QED
  BY <1>2, <1>3, NextJob

LEMMA ReadsEntryJob ==
  ASSUME TypeInv, NEW t \in Threads, NEW left \in SUBSET Files, NEW f \in Files,
         ReadsEntry(t, left, f)
  PROVE  /\ job' \in [Threads -> Jobs]
         /\ \A u \in Threads \ {t} : job'[u] = job[u]
         /\ job'[t].at = "consider" /\ job'[t].on = job[t].on /\ job'[t].left = left
         /\ job'[t].batch = job[t].batch /\ job'[t].entry = f
         /\ job'[t].asked = job[t].asked
<1> DEFINE j == [job[t] EXCEPT !.at = "consider", !.left = left, !.entry = f]
<1>1. job[t] \in Jobs
  BY DEF TypeInv
<1>2. j \in Jobs /\ j.at = "consider" /\ j.on = job[t].on /\ j.left = left /\ j.batch = job[t].batch
      /\ j.entry = f /\ j.asked = job[t].asked
  BY <1>1, JobFields DEF Jobs, Places
<1>3. job' = [job EXCEPT ![t] = j]
  BY DEF TypeInv, ReadsEntry
<1> HIDE DEF j
<1> QED
  BY <1>2, <1>3, NextJob

LEMMA KeepsBatchJob ==
  ASSUME TypeInv, NEW t \in Threads, NEW batch \in SUBSET Files, KeepsBatch(t, batch)
  PROVE  /\ job' \in [Threads -> Jobs]
         /\ \A u \in Threads \ {t} : job'[u] = job[u]
         /\ job'[t].at = "opened" /\ job'[t].on = job[t].on /\ job'[t].left = job[t].left
         /\ job'[t].batch = batch /\ job'[t].entry = job[t].entry
         /\ job'[t].asked = job[t].asked
<1> DEFINE j == [job[t] EXCEPT !.at = "opened", !.batch = batch]
<1>1. job[t] \in Jobs
  BY DEF TypeInv
<1>2. j \in Jobs /\ j.at = "opened" /\ j.on = job[t].on /\ j.left = job[t].left /\ j.batch = batch
      /\ j.entry = job[t].entry /\ j.asked = job[t].asked
  BY <1>1, JobFields DEF Jobs, Places
<1>3. job' = [job EXCEPT ![t] = j]
  BY DEF TypeInv, KeepsBatch
<1> HIDE DEF j
<1> QED
  BY <1>2, <1>3, NextJob

LEMMA PullDirInv ==
  ASSUME IInv, NEW t \in Walkers, PullDir(t), UNCHANGED faults
  PROVE  IInv'
<1>1. /\ TypeInv /\ t \in Threads /\ Main \in Threads /\ t # Main /\ t \notin Scanners
      /\ Walkers \cup Scanners \subseteq Threads /\ WalkerInv(t)
      /\ Idle(t) /\ job[t].at = "pull" /\ job[t].on = Nobody
  BY ThreadsAssumption DEF IInv, Threads, PullDir, At, WalkerInv
<1>2. PICK d \in dirs : /\ dirs' = dirs \ {d}
                        /\ Call(t, "OpenDir", d)
                        /\ ReadsDir(t, d, Entries(d), {})
                        /\ UNCHANGED <<obj, valid, mutex, files, done>>
  BY DEF PullDir, ReadsDir
<1>3. /\ d \in Files \ {Root} /\ TakenFor(d) = "dir" /\ Made(d) /\ "UUID" \in valid[d] /\ d # Nobody
      /\ \A f \in Entries(d) : ~Made(f)
  BY <1>1, ThreadsAssumption DEF TypeInv, IInv, OwnerInv
<1>4. /\ job' \in [Threads -> Jobs] /\ \A u \in Threads \ {t} : job'[u] = job[u]
      /\ job'[t].at = "opened" /\ job'[t].on = d /\ job'[t].left = Entries(d) /\ job'[t].batch = {}
  <2> PICK none : none = {}
    OBVIOUS
  <2>1. ReadsDir(t, d, Entries(d), none) /\ Entries(d) \in SUBSET Files /\ none \in SUBSET Files
    BY <1>2 DEF Entries
  <2>2. /\ job' \in [Threads -> Jobs] /\ \A u \in Threads \ {t} : job'[u] = job[u]
        /\ job'[t].at = "opened" /\ job'[t].on = d /\ job'[t].left = Entries(d) /\ job'[t].batch = none
    BY <1>1, <1>3, <2>1, ReadsDirJob
  <2> QED
    BY <2>2
<1>5. \A f \in Files : Made(f)' <=> Made(f)
  BY <1>1, <1>2, <1>4, MadeKept
<1>6. OwnCall(t)
  BY <1>2, <1>3, <1>5 DEF OwnCall
<1>7. /\ stack' \in [Threads -> Seq(Frames)] /\ Len(stack'[t]) = 1 /\ stack'[t] # <<>>
      /\ stack'[t][1].op = "OpenDir" /\ stack'[t][1].of = d
  <2> PICK op : op = "OpenDir"
    OBVIOUS
  <2>1. op \in Getters \cup {"OpenDir"} /\ d \in Files /\ Call(t, op, d)
    BY <1>2, <1>3
  <2> QED
    BY <1>1, <2>1, CallStack
<1>8. TypeInv'
  BY <1>1, <1>2, <1>4, <1>7, SameTypes DEF TypeInv
<1>9. OwnEffect(t)
  BY <1>1, <1>2, <1>4, <1>5 DEF OwnEffect
<1>10. BitsInv'
  BY <1>1, <1>2, <1>9, OwnBits
<1>11. DescriptorInv'
  BY <1>1, <1>2, <1>4, ThreadsAssumption DEF IInv, DescriptorInv
<1>12. OwnerInv'
  <2>1. BatchOf(t)' = {}
    BY <1>4 DEF BatchOf
  <2> QED
    BY <1>2, <1>4, <1>6, <1>9, <2>1, Handover
<1>13. WalkerInv(t)'
  <2>1. Asks(t, "OpenDir", d)'
    BY <1>7 DEF Asks, Bottom
  <2>2. \A e : Entries(e)' = Entries(e)
    BY DEF Entries, Starts
  <2>3. Made(d)' /\ \A f \in Entries(d) : ~Made(f)'
    BY <1>3, <1>5 DEF Entries
  <2> QED
    BY <1>2, <1>3, <1>4, <2>1, <2>2, <2>3, SameTypes DEF WalkerInv
<1> QED
  BY <1>1, <1>6, <1>8, <1>9, <1>10, <1>11, <1>12, <1>13, OwnInv

\* What a traversal thread knows in its own code.
LEMMA WalkerFacts ==
  ASSUME IInv, NEW t \in Walkers
  PROVE  /\ TypeInv /\ t \in Threads /\ Main \in Threads /\ t # Main /\ t \notin Scanners
         /\ Walkers \cup Scanners \subseteq Threads /\ WalkerInv(t) /\ Nobody \notin Files
         /\ \A d : Entries(d)' = Entries(d) /\ Entries(d) \subseteq Files \ (Starts \cup {Root})
  BY ThreadsAssumption DEF IInv, Threads, Entries, Starts

LEMMA OpenDirFailedInv ==
  ASSUME IInv, NEW t \in Walkers, OpenDirFailed(t), UNCHANGED faults
  PROVE  IInv'
<1>1. /\ TypeInv /\ t \in Threads /\ Main \in Threads /\ t # Main /\ t \notin Scanners
      /\ Walkers \cup Scanners \subseteq Threads /\ WalkerInv(t) /\ Nobody \notin Files
  BY WalkerFacts
<1>2. /\ Idle(t) /\ job[t].at = "opened" /\ ~obj[job[t].on].temp /\ Move(t, "pull", Nobody)
      /\ UNCHANGED <<obj, valid, mutex, stack, dirs, files, done>>
  BY DEF OpenDirFailed, At
<1>3. /\ job' \in [Threads -> Jobs] /\ \A u \in Threads \ {t} : job'[u] = job[u]
      /\ job'[t].at = "pull" /\ job'[t].on = Nobody
  BY <1>1, <1>2, MoveJob DEF Places
<1>4. \A f \in Files : Made(f)' <=> Made(f)
  BY <1>1, <1>2, <1>3, MadeKept
<1>5. OwnCall(t) /\ Idle(t)'
  BY <1>2 DEF OwnCall, Idle
<1>6. TypeInv'
  BY <1>1, <1>2, <1>3, SameTypes DEF TypeInv
<1>7. OwnEffect(t)
  BY <1>1, <1>2, <1>3, <1>4 DEF OwnEffect
<1>8. BitsInv'
  BY <1>1, <1>2, <1>7, OwnBits
<1>9. DescriptorInv'
  BY <1>1, <1>2, <1>3 DEF IInv, DescriptorInv
<1>10. OwnerInv'
  <2>1. BatchOf(t)' = {}
    BY <1>3 DEF BatchOf
  <2> QED
    BY <1>2, <1>3, <1>5, <1>7, <2>1, Handover
<1>11. WalkerInv(t)'
  BY <1>3, <1>5 DEF WalkerInv
<1> QED
  BY <1>1, <1>5, <1>6, <1>7, <1>8, <1>9, <1>10, <1>11, OwnInv

LEMMA ReadEntryInv ==
  ASSUME IInv, NEW t \in Walkers, ReadEntry(t), UNCHANGED faults
  PROVE  IInv'
<1> PICK d : d = job[t].on
  OBVIOUS
<1>1. /\ TypeInv /\ t \in Threads /\ Main \in Threads /\ t # Main /\ t \notin Scanners
      /\ Walkers \cup Scanners \subseteq Threads /\ WalkerInv(t) /\ Nobody \notin Files
      /\ \A e : Entries(e)' = Entries(e) /\ Entries(e) \subseteq Files \ (Starts \cup {Root})
  BY WalkerFacts
<1>2. PICK f \in job[t].left : /\ ReadsEntry(t, job[t].left \ {f}, f)
                               /\ Call(t, "GetPath", d) \/ stack' = stack
                               /\ UNCHANGED <<obj, valid, mutex, dirs, files, done>>
  BY <1>1 DEF ReadEntry, ReadsEntry, TypeInv
<1>3. /\ Idle(t) /\ job[t].at = "opened" /\ d \in Files \ {Root} /\ TakenFor(d) = "dir" /\ Made(d)
      /\ "UUID" \in valid[d] /\ job[t].left \subseteq Entries(d) /\ d # Nobody
      /\ (\A g \in job[t].left : ~Made(g)) /\ job[t].batch \subseteq Entries(d)
      /\ job[t].left \subseteq Files
  <2>1. Idle(t) /\ job[t].at = "opened"
    BY DEF ReadEntry, At
  <2> QED
    BY <1>1, <2>1 DEF WalkerInv
<1>4. /\ job' \in [Threads -> Jobs] /\ \A u \in Threads \ {t} : job'[u] = job[u]
      /\ job'[t].at = "consider" /\ job'[t].on = d /\ job'[t].left = job[t].left \ {f}
      /\ job'[t].batch = job[t].batch /\ job'[t].entry = f
  <2> PICK left : left = job[t].left \ {f}
    OBVIOUS
  <2>1. ReadsEntry(t, left, f) /\ left \in SUBSET Files /\ f \in Files
    BY <1>2, <1>3
  <2> QED
    BY <1>1, <2>1, ReadsEntryJob
<1>5. \A g \in Files : Made(g)' <=> Made(g)
  BY <1>1, <1>2, <1>4, MadeKept
<1>6. OwnCall(t)
  BY <1>2, <1>3, <1>5 DEF OwnCall, Getters
<1>7. stack' \in [Threads -> Seq(Frames)] /\ Asks(t, "GetPath", d)'
  <2>1. CASE stack' = stack
    BY <1>1, <1>3, <2>1 DEF TypeInv, Asks, Idle
  <2>2. CASE Call(t, "GetPath", d)
    <3>1. /\ stack' \in [Threads -> Seq(Frames)] /\ Len(stack'[t]) = 1
          /\ stack'[t][1].op = "GetPath" /\ stack'[t][1].of = d
      BY <1>1, <1>3, <2>2, CallStack DEF Getters
    <3> QED
      BY <3>1 DEF Asks, Bottom
  <2> QED
    BY <1>2, <2>1, <2>2
<1>8. TypeInv'
  BY <1>1, <1>2, <1>4, <1>7, SameTypes DEF TypeInv
<1>9. OwnEffect(t)
  BY <1>1, <1>2, <1>3, <1>4, <1>5 DEF OwnEffect
<1>10. BitsInv'
  BY <1>1, <1>2, <1>9, OwnBits
<1>11. DescriptorInv'
  BY <1>1, <1>2, <1>4 DEF IInv, DescriptorInv
<1>12. OwnerInv'
  <2>1. BatchOf(t)' = BatchOf(t)
    BY <1>3, <1>4 DEF BatchOf
  <2>2. \A u \in Walkers \cup Scanners : job'[u].on = job[u].on
    BY <1>1, <1>4
  <2> QED
    BY <1>1, <1>2, <1>5, <1>6, <1>9, <2>1, <2>2, OwnOwners
<1>13. WalkerInv(t)'
  <2>1. Made(d)' /\ (\A g \in job[t].left : ~Made(g)') /\ ~Made(f)'
    BY <1>2, <1>3, <1>5
  <2> QED
    BY <1>1, <1>2, <1>3, <1>4, <1>7, <2>1, SameTypes DEF WalkerInv
<1> QED
  BY <1>1, <1>6, <1>8, <1>9, <1>10, <1>11, <1>12, <1>13, OwnInv

LEMMA RejectEntryInv ==
  ASSUME IInv, NEW t \in Walkers, RejectEntry(t), UNCHANGED faults
  PROVE  IInv'
<1> PICK d : d = job[t].on
  OBVIOUS
<1>1. /\ TypeInv /\ t \in Threads /\ Main \in Threads /\ t # Main /\ t \notin Scanners
      /\ Walkers \cup Scanners \subseteq Threads /\ WalkerInv(t) /\ Nobody \notin Files
      /\ \A e : Entries(e)' = Entries(e) /\ Entries(e) \subseteq Files \ (Starts \cup {Root})
  BY WalkerFacts
<1>2. /\ Idle(t) /\ job[t].at = "consider" /\ Move(t, "opened", d)
      /\ UNCHANGED stack
      /\ UNCHANGED <<obj, valid, mutex, dirs, files, done>>
  BY DEF RejectEntry, At
<1>3. /\ d \in Files \ {Root} /\ TakenFor(d) = "dir" /\ Made(d) /\ d # Nobody
      /\ "UUID" \in valid[d] /\ job[t].left \subseteq Entries(d)
      /\ (\A g \in job[t].left : ~Made(g)) /\ job[t].batch \subseteq Entries(d)
      /\ job[t].entry \in Entries(d) \ job[t].left /\ ~Made(job[t].entry)
  BY <1>1, <1>2 DEF WalkerInv
<1>4. /\ job' \in [Threads -> Jobs] /\ \A u \in Threads \ {t} : job'[u] = job[u]
      /\ job'[t].at = "opened" /\ job'[t].on = d /\ job'[t].left = job[t].left
      /\ job'[t].batch = job[t].batch /\ job'[t].entry = job[t].entry
  BY <1>1, <1>2, <1>3, MoveJob DEF Places
<1>5. \A g \in Files : Made(g)' <=> Made(g)
  BY <1>1, <1>2, <1>4, MadeKept
<1>6. OwnCall(t)
  BY <1>2 DEF OwnCall
<1>7. stack' \in [Threads -> Seq(Frames)] /\ Idle(t)'
  BY <1>1, <1>2 DEF TypeInv, Idle
<1>8. TypeInv'
  BY <1>1, <1>2, <1>4, <1>7, SameTypes DEF TypeInv
<1>9. OwnEffect(t)
  BY <1>1, <1>2, <1>3, <1>4, <1>5 DEF OwnEffect
<1>10. BitsInv'
  BY <1>1, <1>2, <1>9, OwnBits
<1>11. DescriptorInv'
  BY <1>1, <1>2, <1>4 DEF IInv, DescriptorInv
<1>12. OwnerInv'
  <2>1. BatchOf(t)' = BatchOf(t)
    BY <1>2, <1>4 DEF BatchOf
  <2>2. \A u \in Walkers \cup Scanners : job'[u].on = job[u].on
    BY <1>1, <1>4
  <2> QED
    BY <1>1, <1>2, <1>5, <1>6, <1>9, <2>1, <2>2, OwnOwners
<1>13. WalkerInv(t)'
  <2>1. Asks(t, "OpenDir", d)'
    BY <1>7 DEF Asks
  <2>2. Made(d)' /\ (\A g \in job[t].left : ~Made(g)')
    BY <1>1, <1>3, <1>5
  <2> QED
    BY <1>1, <1>2, <1>3, <1>4, <1>7, <2>1, <2>2, SameTypes DEF WalkerInv
<1> QED
  BY <1>1, <1>6, <1>8, <1>9, <1>10, <1>11, <1>12, <1>13, OwnInv

LEMMA AcceptEntryInv ==
  ASSUME IInv, NEW t \in Walkers, AcceptEntry(t), UNCHANGED faults
  PROVE  IInv'
<1> PICK d : d = job[t].on
  OBVIOUS
<1> PICK e : e = job[t].entry
  OBVIOUS
<1>1. /\ TypeInv /\ t \in Threads /\ Main \in Threads /\ t # Main /\ t \notin Scanners
      /\ Walkers \cup Scanners \subseteq Threads /\ WalkerInv(t) /\ Nobody \notin Files
      /\ \A c : Entries(c)' = Entries(c) /\ Entries(c) \subseteq Files \ (Starts \cup {Root})
  BY WalkerFacts
<1>2. /\ Idle(t) /\ job[t].at = "consider" /\ Move(t, "create", d)
      /\ Call(t, "GetDev", d)
      /\ UNCHANGED <<obj, valid, mutex, dirs, files, done>>
  BY DEF AcceptEntry, At
<1>3. /\ d \in Files \ {Root} /\ TakenFor(d) = "dir" /\ Made(d) /\ d # Nobody
      /\ "UUID" \in valid[d] /\ job[t].left \subseteq Entries(d)
      /\ (\A g \in job[t].left : ~Made(g)) /\ job[t].batch \subseteq Entries(d)
      /\ e \in Entries(d) \ job[t].left /\ ~Made(e) /\ e \in Files
  BY <1>1, <1>2 DEF WalkerInv
<1>4. /\ job' \in [Threads -> Jobs] /\ \A u \in Threads \ {t} : job'[u] = job[u]
      /\ job'[t].at = "create" /\ job'[t].on = d /\ job'[t].left = job[t].left
      /\ job'[t].batch = job[t].batch /\ job'[t].entry = e
  BY <1>1, <1>2, <1>3, MoveJob DEF Places
<1>5. \A g \in Files : Made(g)' <=> Made(g)
  BY <1>1, <1>2, <1>4, MadeKept
<1>6. OwnCall(t)
  BY <1>2, <1>3, <1>5 DEF OwnCall, Getters
<1>7. /\ stack' \in [Threads -> Seq(Frames)] /\ Len(stack'[t]) = 1 /\ stack'[t] # <<>>
      /\ stack'[t][1].op = "GetDev" /\ stack'[t][1].of = d /\ stack'[t][1].pc = "check"
  BY <1>1, <1>2, <1>3, CallStack DEF Getters
<1>8. TypeInv'
  BY <1>1, <1>2, <1>4, <1>7, SameTypes DEF TypeInv
<1>9. OwnEffect(t)
  BY <1>1, <1>2, <1>3, <1>4, <1>5 DEF OwnEffect
<1>10. BitsInv'
  BY <1>1, <1>2, <1>9, OwnBits
<1>11. DescriptorInv'
  BY <1>1, <1>2, <1>4 DEF IInv, DescriptorInv
<1>12. OwnerInv'
  <2>1. BatchOf(t)' = BatchOf(t)
    BY <1>2, <1>4 DEF BatchOf
  <2>2. \A u \in Walkers \cup Scanners : job'[u].on = job[u].on
    BY <1>1, <1>4
  <2> QED
    BY <1>1, <1>2, <1>5, <1>6, <1>9, <2>1, <2>2, OwnOwners
<1>13. WalkerInv(t)'
  <2>1. Asks(t, "GetDev", d)' /\ Bottom(t)'.pc = "check"
    BY <1>7 DEF Asks, Bottom
  <2>2. Made(d)' /\ (\A g \in job[t].left : ~Made(g)') /\ ~Made(e)'
    BY <1>1, <1>3, <1>5
  <2> QED
    BY <1>1, <1>2, <1>3, <1>4, <2>1, <2>2, SameTypes DEF WalkerInv
<1> QED
  BY <1>1, <1>6, <1>8, <1>9, <1>10, <1>11, <1>12, <1>13, OwnInv

LEMMA CreateEntryInv ==
  ASSUME IInv, NEW t \in Walkers, CreateEntry(t), UNCHANGED faults
  PROVE  IInv'
<1> PICK d : d = job[t].on
  OBVIOUS
<1> PICK f : f = job[t].entry
  OBVIOUS
<1> PICK batch : batch = IF TakenFor(f) = "file" THEN job[t].batch \cup {f} ELSE job[t].batch
  OBVIOUS
<1>1. /\ TypeInv /\ t \in Threads /\ Main \in Threads /\ t # Main /\ t \notin Scanners
      /\ Walkers \cup Scanners \subseteq Threads /\ WalkerInv(t) /\ Nobody \notin Files
      /\ \A e : Entries(e)' = Entries(e) /\ Entries(e) \subseteq Files \ (Starts \cup {Root})
  BY WalkerFacts
<1>2. /\ Idle(t) /\ job[t].at = "create"
      /\ obj' = [obj EXCEPT ![f] = EntryFileID(f)]
      /\ valid' = [valid EXCEPT ![f] = EntryBits(f)]
      /\ dirs' = IF TakenFor(f) = "dir" THEN dirs \cup {f} ELSE dirs
      /\ UNCHANGED <<mutex, stack, files, done>>
  BY DEF CreateEntry, At
<1>3. KeepsBatch(t, batch)
  BY <1>1 DEF CreateEntry, KeepsBatch, TypeInv
<1>4. /\ d \in Files \ {Root} /\ TakenFor(d) = "dir" /\ Made(d) /\ d # Nobody
      /\ "UUID" \in valid[d] /\ job[t].left \subseteq Entries(d)
      /\ (\A g \in job[t].left : ~Made(g)) /\ job[t].batch \subseteq Entries(d)
      /\ f \in Entries(d) /\ f \notin job[t].left /\ ~Made(f)
      /\ f \in Files \ (Starts \cup {Root})
  BY <1>1, <1>2 DEF WalkerInv
<1>5. /\ job' \in [Threads -> Jobs] /\ \A u \in Threads \ {t} : job'[u] = job[u]
      /\ job'[t].at = "opened" /\ job'[t].on = d /\ job'[t].left = job[t].left
      /\ job'[t].batch = batch
  <2>1. batch \in SUBSET Files
    BY <1>1, <1>4
  <2> QED
    BY <1>1, <1>3, <2>1, KeepsBatchJob
<1>6. /\ EntryFileID(f) \in Impls /\ EntryFileID(f).type = TakenFor(f)
      /\ EntryFileID(f).flags = TRUE /\ EntryFileID(f).fd = FALSE /\ EntryFileID(f).temp = FALSE
      /\ EntryFileID(f).size = IF f \in UnknownTypes THEN StatBuf(f).size ELSE 0
  <2> PICK size : size = IF f \in UnknownTypes THEN StatBuf(f).size ELSE 0
    OBVIOUS
  <2> PICK path : path = <<>>
    OBVIOUS
  <2> PICK type : type = TakenFor(f)
    OBVIOUS
  <2>1. path \in Seq(Files \cup {"."}) /\ type \in Kinds /\ size \in Int
    <3>1. TakenFor(f) \in Kinds /\ StatBuf(f).size \in Int
      BY <1>1, <1>4, TypesTaken DEF TypeInv
    <3>2. size \in Int
      BY <3>1
    <3> QED
      BY <3>1, <3>2
  <2> PICK x : x = Impl(path, type, size)
    OBVIOUS
  <2>2. x = [path |-> path, type |-> type, size |-> size, flags |-> FALSE, fd |-> FALSE,
             temp |-> FALSE]
    BY DEF Impl
  <2>3. x.type = type /\ x.size = size /\ x.flags = FALSE /\ x.fd = FALSE /\ x.temp = FALSE
        /\ x \in Impls
    <3>1. x.type = type /\ x.size = size /\ x.flags = FALSE /\ x.fd = FALSE /\ x.temp = FALSE
      BY <2>2
    <3>2. type \in {Unset, StatFailed} \cup Kinds
      BY <2>1
    <3>3. x \in Impls
      BY <2>1, <2>2, <3>2, NewImpl
    <3> QED
      BY <3>1, <3>3
  <2>4. EntryFileID(f) = [x EXCEPT !.flags = TRUE]
    <3>1. x = Impl(<<>>, TakenFor(f), IF f \in UnknownTypes THEN StatBuf(f).size ELSE 0)
      OBVIOUS
    <3> QED
      BY <3>1, Zenon DEF EntryFileID
  <2> QED
    BY <2>3, <2>4, ImplFields DEF Impls
<1>7. /\ obj' \in [Files -> Impls] /\ obj'[f] = EntryFileID(f)
      /\ \A g \in Files \ {f} : obj'[g] = obj[g]
      /\ \A g \in Files : obj'[g].type \in {Unset, StatFailed, TakenFor(g)}
  BY <1>1, <1>2, <1>4, <1>6, ObjChange
<1>8. /\ EntryBits(f) \subseteq Bits /\ "UUID" \in EntryBits(f)
      /\ "FILE_DESC" \notin EntryBits(f) /\ "PATH" \notin EntryBits(f)
      /\ "STATINFO" \in EntryBits(f) => f \in UnknownTypes
  BY DEF EntryBits, Bits, StatBits
<1>9. /\ valid' \in [Files -> SUBSET Bits] /\ valid'[f] = EntryBits(f)
      /\ \A g \in Files \ {f} : valid'[g] = valid[g]
  BY <1>1, <1>2, <1>4, <1>8 DEF TypeInv
<1>10. \A g \in Files : Made(g)' <=> Made(g) \/ g = f
  <2>1. Made(f)'
    BY <1>4, <1>6, <1>7 DEF Made, Starts
  <2>2. \A g \in Files \ {f} : Made(g)' <=> Made(g)
    BY <1>1, <1>5, <1>7, MadeKept
  <2> QED
    BY <2>1, <2>2
<1>11. OwnCall(t) /\ Idle(t)'
  BY <1>2 DEF OwnCall, Idle
<1>12. TypeInv'
  <2>1. dirs' \subseteq Files \ {Root}
    BY <1>1, <1>2, <1>4 DEF TypeInv
  <2> QED
    BY <1>1, <1>2, <1>5, <1>7, <1>9, <2>1, SameTypes DEF TypeInv
<1>13. OwnEffect(t)
  <2>1. ASSUME NEW g \in Files, Made(g)
        PROVE  /\ Made(g)' /\ obj'[g].path = obj[g].path /\ obj'[g].size = obj[g].size
               /\ valid'[g] = valid[g]
               /\ obj[g].fd /\ ~obj'[g].fd => t \in Scanners /\ g = job[t].on
    <3>1. g # f
      BY <1>4, <2>1
    <3> QED
      BY <1>7, <1>9, <1>10, <2>1, <3>1
  <2>2. obj'[Root].temp = obj[Root].temp
    BY <1>4, <1>7, FilesAssumption
  <2> QED
    BY <1>1, <1>2, <1>4, <1>5, <1>10, <2>1, <2>2 DEF OwnEffect
<1>14. BitsInv'
  <2>1. obj'[f].size = IF f \in UnknownTypes THEN StatBuf(f).size ELSE 0
    BY <1>6, <1>7
  <2>2. /\ f \notin Misread => StatBuf(f).size = 1
        /\ f \in Misread => f \in unstatable
        /\ f \in UnknownTypes /\ f \notin Misread => f \notin unstatable
    BY <1>1, <1>4, TypesTaken DEF TypeInv
  <2>3. /\ "STATINFO" \in valid'[f] /\ obj'[f].size = 0 => f \in unstatable
        /\ f \notin Misread => obj'[f].size = 0 \/ (obj'[f].size = 1 /\ f \notin unstatable)
    BY <1>8, <1>9, <2>1, <2>2
  <2> QED
    BY <1>1, <1>7, <1>8, <1>9, <1>13, <2>3, OwnBits
<1>15. DescriptorInv'
  <2>1. \A u \in Walkers \cup Scanners : job'[u].on = job[u].on
    BY <1>1, <1>5
  <2>2. \A g \in Files : g = f \/ obj'[g] = obj[g]
    BY <1>7
  <2> QED
    BY <1>6, <1>7, <2>1, <2>2 DEF IInv, DescriptorInv
<1>16. OwnerInv'
  <2>1. BatchOf(t)' = batch /\ BatchOf(t) = job[t].batch
    BY <1>2, <1>5 DEF BatchOf
  <2>2. \A g \in dirs' \ dirs :
           TakenFor(g) = "dir" /\ "UUID" \in valid'[g] /\ Made(g)' /\ ~Made(g) /\ g \in Files \ Starts
    BY <1>2, <1>4, <1>8, <1>9, <1>10
  <2>3. \A g \in BatchOf(t)' \ BatchOf(t) :
           TakenFor(g) = "file" /\ "FILE_DESC" \notin valid'[g] /\ Made(g)' /\ ~Made(g)
           /\ g \in Files \ Starts /\ t \in Walkers
    BY <1>4, <1>8, <1>9, <1>10, <2>1
  <2>4. BatchOf(t)' \cap files' = {}
    <3>1. f \notin files /\ BatchOf(t) \cap files = {}
      BY <1>4 DEF IInv, OwnerInv
    <3> QED
      BY <1>2, <2>1, <3>1
  <2> QED
    BY <1>2, <1>5, <1>11, <1>13, <2>2, <2>3, <2>4, Handover
<1>17. WalkerInv(t)'
  <2>1. Made(d)' /\ "UUID" \in valid'[d] /\ \A g \in job[t].left : ~Made(g)'
    BY <1>1, <1>4, <1>9, <1>10
  <2>2. batch \subseteq Entries(d)
    BY <1>4
  <2> QED
    BY <1>1, <1>4, <1>5, <1>11, <2>1, <2>2, SameTypes DEF WalkerInv, Asks
<1> QED
  BY <1>1, <1>11, <1>12, <1>13, <1>14, <1>15, <1>16, <1>17, OwnInv

LEMMA PushFilesInv ==
  ASSUME IInv, NEW t \in Walkers, PushFiles(t), UNCHANGED faults
  PROVE  IInv'
<1> PICK d : d = job[t].on
  OBVIOUS
<1>1. /\ TypeInv /\ t \in Threads /\ Main \in Threads /\ t # Main /\ t \notin Scanners
      /\ Walkers \cup Scanners \subseteq Threads /\ WalkerInv(t) /\ Nobody \notin Files
      /\ \A e : Entries(e)' = Entries(e) /\ Entries(e) \subseteq Files \ (Starts \cup {Root})
  BY WalkerFacts
<1>2. /\ Idle(t) /\ job[t].at = "opened" /\ files' = files \cup job[t].batch
      /\ Move(t, "closedir", d) /\ UNCHANGED <<obj, valid, mutex, stack, dirs, done>>
  BY DEF PushFiles, At
<1>3. /\ d \in Files \ {Root} /\ TakenFor(d) = "dir" /\ Made(d) /\ d # Nobody
      /\ "UUID" \in valid[d] /\ job[t].left \subseteq Entries(d) /\ job[t].batch \subseteq Entries(d)
  BY <1>1, <1>2 DEF WalkerInv
<1>4. /\ job' \in [Threads -> Jobs] /\ \A u \in Threads \ {t} : job'[u] = job[u]
      /\ job'[t].at = "closedir" /\ job'[t].on = d /\ job'[t].left = job[t].left
  BY <1>1, <1>2, <1>3, MoveJob DEF Places
<1>5. \A f \in Files : Made(f)' <=> Made(f)
  BY <1>1, <1>2, <1>4, MadeKept
<1>6. OwnCall(t) /\ Idle(t)'
  BY <1>2 DEF OwnCall, Idle
<1>7. TypeInv'
  <2>1. files' \subseteq Files \ {Root}
    BY <1>1, <1>2, <1>3 DEF TypeInv
  <2> QED
    BY <1>1, <1>2, <1>4, <2>1, SameTypes DEF TypeInv
<1>8. OwnEffect(t)
  BY <1>1, <1>2, <1>4, <1>5 DEF OwnEffect
<1>9. BitsInv'
  BY <1>1, <1>2, <1>8, OwnBits
<1>10. DescriptorInv'
  <2>1. \A u \in Walkers \cup Scanners : job'[u].on = job[u].on
    BY <1>1, <1>4
  <2> QED
    BY <1>2, <2>1 DEF IInv, DescriptorInv
<1>11. OwnerInv'
  <2>1. BatchOf(t)' = {} /\ BatchOf(t) = job[t].batch
    BY <1>2, <1>4 DEF BatchOf
  <2> QED
    BY <1>2, <1>4, <1>6, <1>8, <2>1, Handover
<1>12. WalkerInv(t)'
  <2>1. Made(d)'
    BY <1>3, <1>5
  <2> QED
    BY <1>1, <1>2, <1>3, <1>4, <1>6, <2>1, SameTypes DEF WalkerInv
<1> QED
  BY <1>1, <1>6, <1>7, <1>8, <1>9, <1>10, <1>11, <1>12, OwnInv

LEMMA CloseThisDirInv ==
  ASSUME IInv, NEW t \in Walkers, CloseThisDir(t), UNCHANGED faults
  PROVE  IInv'
<1> PICK d : d = job[t].on
  OBVIOUS
<1>1. /\ TypeInv /\ t \in Threads /\ Main \in Threads /\ t # Main /\ t \notin Scanners
      /\ Walkers \cup Scanners \subseteq Threads /\ WalkerInv(t) /\ Nobody \notin Files
  BY WalkerFacts
<1>2. /\ Idle(t) /\ job[t].at = "closedir" /\ obj' = [obj EXCEPT ![d].temp = FALSE]
      /\ Move(t, "pull", Nobody) /\ UNCHANGED <<valid, mutex, stack, dirs, files, done>>
  BY DEF CloseThisDir, CloseDir, At
<1>3. d \in Files \ {Root}
  BY <1>1, <1>2 DEF WalkerInv
<1>4. /\ job' \in [Threads -> Jobs] /\ \A u \in Threads \ {t} : job'[u] = job[u]
      /\ job'[t].at = "pull" /\ job'[t].on = Nobody
  BY <1>1, <1>2, MoveJob DEF Places
<1>5. /\ obj' \in [Files -> Impls]
      /\ \A g \in Files \ {d} : obj'[g] = obj[g]
      /\ \A g \in Files : obj'[g].type \in {Unset, StatFailed, TakenFor(g)}
      /\ obj'[d].temp = FALSE /\ obj'[d].path = obj[d].path
      /\ obj'[d].size = obj[d].size /\ obj'[d].flags = obj[d].flags
      /\ obj'[d].fd = obj[d].fd
  BY <1>1, <1>2, <1>3, SetTemp
<1>6. \A f \in Files : Made(f)' <=> Made(f)
  BY <1>1, <1>4, <1>5, MadeKept
<1>7. OwnCall(t) /\ Idle(t)'
  BY <1>2 DEF OwnCall, Idle
<1>8. TypeInv'
  BY <1>1, <1>2, <1>4, <1>5, SameTypes DEF TypeInv
<1>9. OwnEffect(t)
  <2>1. obj'[Root].temp = obj[Root].temp
    BY <1>3, <1>5, FilesAssumption
  <2> QED
    BY <1>1, <1>2, <1>4, <1>5, <1>6, <2>1 DEF OwnEffect
<1>10. BitsInv'
  BY <1>1, <1>2, <1>5, <1>9, OwnBits
<1>11. DescriptorInv'
  <2>1. ASSUME NEW f \in Files \ {Root}, obj'[f].temp PROVE \E u \in Walkers : job'[u].on = f
    <3>1. f # d /\ obj[f].temp
      BY <1>5, <2>1
    <3>2. PICK u \in Walkers : job[u].on = f
      BY <3>1 DEF IInv, DescriptorInv
    <3> QED
      BY <1>1, <1>4, <3>1, <3>2
  <2>2. ASSUME NEW f \in Files \ {Root}, obj'[f].fd PROVE \E u \in Scanners : job'[u].on = f
    <3>1. obj[f].fd
      BY <1>5, <2>2
    <3> QED
      BY <1>1, <1>4, <3>1 DEF IInv, DescriptorInv
  <2> QED
    BY <2>1, <2>2 DEF DescriptorInv
<1>12. OwnerInv'
  <2>1. BatchOf(t)' = {}
    BY <1>4 DEF BatchOf
  <2> QED
    BY <1>2, <1>4, <1>7, <1>9, <2>1, Handover
<1>13. WalkerInv(t)'
  BY <1>4, <1>7 DEF WalkerInv
<1> QED
  BY <1>1, <1>7, <1>8, <1>9, <1>10, <1>11, <1>12, <1>13, OwnInv

-----------------------------------------------------------------------------
(* A scanner thread                                                         *)

LEMMA ScannerFacts ==
  ASSUME IInv, NEW t \in Scanners
  PROVE  /\ TypeInv /\ t \in Threads /\ Main \in Threads /\ t # Main /\ t \notin Walkers
         /\ Walkers \cup Scanners \subseteq Threads /\ ScannerInv(t) /\ Nobody \notin Files
  BY ThreadsAssumption DEF IInv, Threads

\* The descriptor of the file before is closed with its FileID.
Destroys(old) ==
  obj' = [g \in Files |-> IF g = old THEN [obj[g] EXCEPT !.fd = FALSE] ELSE obj[g]]

LEMMA Destroyed ==
  ASSUME TypeInv, NEW old, Destroys(old)
  PROVE  /\ obj' \in [Files -> Impls]
         /\ \A g \in Files :
              /\ obj'[g].path = obj[g].path /\ obj'[g].type = obj[g].type
              /\ obj'[g].size = obj[g].size /\ obj'[g].flags = obj[g].flags
              /\ obj'[g].temp = obj[g].temp
              /\ obj'[g].fd => obj[g].fd /\ g # old
              /\ g # old => obj'[g] = obj[g]
<1>1. ASSUME NEW x \in Impls
      PROVE  /\ [x EXCEPT !.fd = FALSE] \in Impls /\ [x EXCEPT !.fd = FALSE].fd = FALSE
             /\ [x EXCEPT !.fd = FALSE].path = x.path /\ [x EXCEPT !.fd = FALSE].type = x.type
             /\ [x EXCEPT !.fd = FALSE].size = x.size /\ [x EXCEPT !.fd = FALSE].flags = x.flags
             /\ [x EXCEPT !.fd = FALSE].temp = x.temp
  BY ImplFields DEF Impls
<1>2. \A g \in Files : obj[g] \in Impls
  BY DEF TypeInv
<1>3. ASSUME NEW g \in Files
      PROVE  /\ obj'[g] \in Impls
             /\ obj'[g].path = obj[g].path /\ obj'[g].type = obj[g].type
             /\ obj'[g].size = obj[g].size /\ obj'[g].flags = obj[g].flags
             /\ obj'[g].temp = obj[g].temp
             /\ obj'[g].fd => obj[g].fd /\ g # old
             /\ g # old => obj'[g] = obj[g]
  <2>1. CASE g = old
    <3>1. obj'[g] = [obj[g] EXCEPT !.fd = FALSE]
      BY <2>1 DEF Destroys
    <3> QED
      BY <1>1, <1>2, <2>1, <3>1
  <2>2. CASE g # old
    <3>1. obj'[g] = obj[g]
      BY <2>2 DEF Destroys
    <3> QED
      BY <1>2, <2>2, <3>1
  <2> QED
    BY <2>1, <2>2
<1> QED
  BY <1>3 DEF Destroys

LEMMA PullFileInv ==
  ASSUME IInv, NEW t \in Scanners, PullFile(t), UNCHANGED faults
  PROVE  IInv'
<1> PICK old : old = job[t].on
  OBVIOUS
<1>1. /\ TypeInv /\ t \in Threads /\ Main \in Threads /\ t # Main /\ t \notin Walkers
      /\ Walkers \cup Scanners \subseteq Threads /\ ScannerInv(t) /\ Nobody \notin Files
  BY ScannerFacts
<1>2. PICK f \in files :
        /\ files' = files \ {f}
        /\ Destroys(old)
        /\ Takes(t, "ask", f, 0)
        /\ UNCHANGED <<valid, mutex, stack, dirs, done>>
  BY DEF PullFile, Takes, Destroys
<1>3. /\ Idle(t) /\ job[t].at = "pull" /\ f \in Files \ {Root} /\ f # Nobody
      /\ TakenFor(f) = "file" /\ Made(f) /\ "FILE_DESC" \notin valid[f]
  BY <1>1 DEF PullFile, At, TypeInv, IInv, OwnerInv
<1>4. /\ job' \in [Threads -> Jobs] /\ \A u \in Threads \ {t} : job'[u] = job[u]
      /\ job'[t].at = "ask" /\ job'[t].on = f /\ job'[t].asked = 0
  <2>1. "ask" \in Places /\ f \in Files \cup {Nobody} /\ 0 \in Nat
    BY <1>3 DEF Places
  <2> QED
    BY <1>1, <1>2, <2>1, TakeJob
<1>5. /\ obj' \in [Files -> Impls]
      /\ \A g \in Files :
           /\ obj'[g].path = obj[g].path /\ obj'[g].type = obj[g].type
           /\ obj'[g].size = obj[g].size /\ obj'[g].flags = obj[g].flags
           /\ obj'[g].temp = obj[g].temp
           /\ obj'[g].fd => obj[g].fd /\ g # old
           /\ g # old => obj'[g] = obj[g]
  BY <1>1, <1>2, Destroyed
<1>6. \A g \in Files : Made(g)' <=> Made(g)
  BY <1>1, <1>4, <1>5, MadeKept
<1>7. OwnCall(t) /\ Idle(t)'
  BY <1>2, <1>3 DEF OwnCall, Idle
<1>8. TypeInv'
  <2>1. files' \subseteq Files \ {Root}
    BY <1>1, <1>2 DEF TypeInv
  <2> QED
    BY <1>1, <1>2, <1>4, <1>5, <2>1, SameTypes DEF TypeInv
<1>9. OwnEffect(t)
  <2>1. \A g \in Files : obj[g].fd /\ ~obj'[g].fd => g = job[t].on
    BY <1>5
  <2> QED
    BY <1>1, <1>2, <1>3, <1>4, <1>5, <1>6, <2>1, FilesAssumption DEF OwnEffect
<1>10. BitsInv'
  BY <1>1, <1>2, <1>5, <1>9, OwnBits
<1>11. DescriptorInv'
  <2>1. ASSUME NEW g \in Files \ {Root}, obj'[g].temp PROVE \E u \in Walkers : job'[u].on = g
    <3>1. obj[g].temp
      BY <1>5, <2>1
    <3> QED
      BY <1>1, <1>4, <3>1 DEF IInv, DescriptorInv
  <2>2. ASSUME NEW g \in Files \ {Root}, obj'[g].fd PROVE \E u \in Scanners : job'[u].on = g
    <3>1. obj[g].fd /\ g # old
      BY <1>5, <2>2
    <3>2. PICK u \in Scanners : job[u].on = g
      BY <3>1 DEF IInv, DescriptorInv
    <3> QED
      BY <1>1, <1>4, <3>1, <3>2
  <2> QED
    BY <2>1, <2>2 DEF DescriptorInv
<1>12. OwnerInv'
  <2>1. BatchOf(t)' = {}
    BY <1>4 DEF BatchOf
  <2> QED
    BY <1>1, <1>2, <1>4, <1>7, <1>9, <2>1, Handover
<1>13. ScannerInv(t)'
  <2>1. Made(f)' /\ "FILE_DESC" \notin valid'[f]
    BY <1>2, <1>3, <1>6
  <2> QED
    BY <1>3, <1>4, <1>7, <2>1, SameTypes DEF ScannerInv
<1> QED
  BY <1>1, <1>7, <1>8, <1>9, <1>10, <1>11, <1>12, <1>13, OwnInv

\* A scanner's place after it asked the next thing.
AsksNext(t, n) == job' = [job EXCEPT ![t].asked = n]

LEMMA AsksNextJob ==
  ASSUME TypeInv, NEW t \in Threads, NEW n \in Nat, AsksNext(t, n)
  PROVE  /\ job' \in [Threads -> Jobs]
         /\ \A u \in Threads \ {t} : job'[u] = job[u]
         /\ job'[t].at = job[t].at /\ job'[t].on = job[t].on /\ job'[t].asked = n
<1> DEFINE j == [job[t] EXCEPT !.asked = n]
<1>1. job[t] \in Jobs
  BY DEF TypeInv
<1>2. j \in Jobs /\ j.at = job[t].at /\ j.on = job[t].on /\ j.asked = n
  BY <1>1, JobFields DEF Jobs
<1>3. job' = [job EXCEPT ![t] = j]
  BY DEF TypeInv, AsksNext
<1> HIDE DEF j
<1> QED
  BY <1>2, <1>3, NextJob

LEMMA AskFileInv ==
  ASSUME IInv, NEW t \in Scanners, AskFile(t), UNCHANGED faults
  PROVE  IInv'
<1> PICK f : f = job[t].on
  OBVIOUS
<1> PICK n : n = job[t].asked + 1
  OBVIOUS
<1>1. /\ TypeInv /\ t \in Threads /\ Main \in Threads /\ t # Main /\ t \notin Walkers
      /\ Walkers \cup Scanners \subseteq Threads /\ ScannerInv(t) /\ Nobody \notin Files
  BY ScannerFacts
<1>2. /\ Idle(t) /\ job[t].at = "ask" /\ n \in DOMAIN FileCalls /\ Call(t, FileCalls[n], f)
      /\ AsksNext(t, n) /\ UNCHANGED <<obj, valid, mutex, dirs, files, done>>
  BY DEF AskFile, At, AsksNext
<1>3. /\ f \in Files \ {Root} /\ f # Nobody /\ TakenFor(f) = "file" /\ Made(f)
      /\ "FILE_DESC" \in valid[f] => obj[f].fd
  BY <1>1, <1>2 DEF ScannerInv
<1>4. n \in 1..3 /\ n \in Nat /\ FileCalls[n] \in Getters
  BY <1>2 DEF FileCalls, Getters
<1>5. /\ job' \in [Threads -> Jobs] /\ \A u \in Threads \ {t} : job'[u] = job[u]
      /\ job'[t].at = "ask" /\ job'[t].on = f /\ job'[t].asked = n
  BY <1>1, <1>2, <1>4, AsksNextJob
<1>6. \A g \in Files : Made(g)' <=> Made(g)
  BY <1>1, <1>2, <1>5, MadeKept
<1>7. OwnCall(t)
  BY <1>2, <1>3, <1>4, <1>6 DEF OwnCall
<1>8. /\ stack' \in [Threads -> Seq(Frames)] /\ Len(stack'[t]) = 1 /\ stack'[t] # <<>>
      /\ stack'[t][1].op = FileCalls[n] /\ stack'[t][1].of = f
  <2> PICK op : op = FileCalls[n]
    OBVIOUS
  <2>1. op \in Getters \cup {"OpenDir"} /\ f \in Files /\ Call(t, op, f)
    BY <1>2, <1>3, <1>4
  <2> QED
    BY <1>1, <1>2, <2>1, CallStack
<1>9. TypeInv'
  BY <1>1, <1>2, <1>5, <1>8, SameTypes DEF TypeInv
<1>10. OwnEffect(t)
  BY <1>1, <1>2, <1>3, <1>5, <1>6 DEF OwnEffect
<1>11. BitsInv'
  BY <1>1, <1>2, <1>10, OwnBits
<1>12. DescriptorInv'
  <2>1. \A u \in Walkers \cup Scanners : job'[u].on = job[u].on
    BY <1>1, <1>5
  <2> QED
    BY <1>2, <2>1 DEF IInv, DescriptorInv
<1>13. OwnerInv'
  <2>1. \A u \in Walkers \cup Scanners : job'[u].on = job[u].on
    BY <1>1, <1>5
  <2> QED
    BY <1>1, <1>2, <1>6, <1>7, <1>10, <2>1, OwnOwners
<1>14. ScannerInv(t)'
  <2>1. Asks(t, FileCalls[n], f)' /\ ~Idle(t)'
    BY <1>8 DEF Asks, Bottom, Idle
  <2>2. ASSUME NEW m \in 1..n, m < n PROVE Wants[FileCalls[m]] \in valid'[f]
    <3>1. job[t].asked \in 0..3 /\ m \in 1..job[t].asked
      BY <1>1, <1>4, <2>2 DEF ScannerInv
    <3> QED
      BY <1>1, <1>2, <3>1 DEF ScannerInv
  <2>3. Made(f)'
    BY <1>3, <1>6
  <2>4. n # 0 /\ n \in 0..3
    BY <1>4
  <2> QED
    BY <1>2, <1>3, <1>5, <2>1, <2>2, <2>3, <2>4, SameTypes DEF ScannerInv
<1> QED
  BY <1>1, <1>7, <1>9, <1>10, <1>11, <1>12, <1>13, <1>14, OwnInv

\* A scanner is done with a file and goes for the next one, the file still in its hand.
LEMMA AnsweredInv ==
  ASSUME IInv, NEW t \in Scanners, Idle(t), job[t].at \in {"ask", "threw"},
         NEW answer \in [verdict : {"none", "scanned", "skipped"},
                         path : Seq(Files \cup {"."}), size : Int],
         NEW f, f = job[t].on, done' = [done EXCEPT ![f] = answer], Move(t, "pull", f),
         UNCHANGED <<obj, valid, mutex, stack, dirs, files>>, UNCHANGED faults
  PROVE  IInv'
<1>1. /\ TypeInv /\ t \in Threads /\ Main \in Threads /\ t # Main /\ t \notin Walkers
      /\ Walkers \cup Scanners \subseteq Threads /\ ScannerInv(t) /\ Nobody \notin Files
  BY ScannerFacts
<1>2. /\ f \in Files \ {Root} /\ f # Nobody /\ TakenFor(f) = "file" /\ Made(f)
      /\ job[t].asked \in 0..3
  BY <1>1 DEF ScannerInv
<1>3. /\ job' \in [Threads -> Jobs] /\ \A u \in Threads \ {t} : job'[u] = job[u]
      /\ job'[t].at = "pull" /\ job'[t].on = f /\ job'[t].asked = job[t].asked
  BY <1>1, <1>2, MoveJob DEF Places
<1>4. \A g \in Files : Made(g)' <=> Made(g)
  BY <1>1, <1>3, MadeKept
<1>5. OwnCall(t) /\ Idle(t)'
  BY DEF OwnCall, Idle
<1>6. TypeInv'
  BY <1>1, <1>3, SameTypes DEF TypeInv
<1>7. OwnEffect(t)
  BY <1>1, <1>3, <1>4 DEF OwnEffect
<1>8. BitsInv'
  BY <1>1, <1>7, OwnBits
<1>9. \A u \in Walkers \cup Scanners : job'[u].on = job[u].on
  BY <1>1, <1>3
<1>10. DescriptorInv'
  BY <1>9 DEF IInv, DescriptorInv
<1>11. OwnerInv'
  BY <1>1, <1>4, <1>5, <1>7, <1>9, OwnOwners
<1>12. ScannerInv(t)'
  BY <1>2, <1>3, <1>4, <1>5, SameTypes DEF ScannerInv
<1> QED
  BY <1>1, <1>5, <1>6, <1>7, <1>8, <1>10, <1>11, <1>12, OwnInv

LEMMA ScanFileInv ==
  ASSUME IInv, NEW t \in Scanners, ScanFile(t), UNCHANGED faults
  PROVE  IInv'
<1> PICK f : f = job[t].on
  OBVIOUS
<1> PICK answer : answer = Answer("scanned", obj[f].path, obj[f].size)
  OBVIOUS
<1>1. /\ Idle(t) /\ job[t].at = "ask" /\ done' = [done EXCEPT ![f] = answer] /\ Move(t, "pull", f)
      /\ UNCHANGED <<obj, valid, mutex, stack, dirs, files>>
  BY DEF ScanFile, At
<1>2. f \in Files
  BY <1>1, ScannerFacts DEF ScannerInv
<1>3. obj[f].path \in Seq(Files \cup {"."}) /\ obj[f].size \in Int
  BY <1>2, ImplFields, ScannerFacts DEF TypeInv
<1>4. answer \in [verdict : {"none", "scanned", "skipped"},
                  path : Seq(Files \cup {"."}), size : Int]
  BY <1>3 DEF Answer
<1> QED
  BY <1>1, <1>4, AnsweredInv

LEMMA SkipFileInv ==
  ASSUME IInv, NEW t \in Scanners, SkipFile(t), UNCHANGED faults
  PROVE  IInv'
<1> PICK f : f = job[t].on
  OBVIOUS
<1> PICK answer : answer = Answer("skipped", <<>>, 0)
  OBVIOUS
<1>1. /\ Idle(t) /\ job[t].at = "threw" /\ done' = [done EXCEPT ![f] = answer] /\ Move(t, "pull", f)
      /\ UNCHANGED <<obj, valid, mutex, stack, dirs, files>>
  BY DEF SkipFile, At
<1>2. answer \in [verdict : {"none", "scanned", "skipped"},
                  path : Seq(Files \cup {"."}), size : Int]
  BY DEF Answer
<1> QED
  BY <1>1, <1>2, AnsweredInv

-----------------------------------------------------------------------------
(* The specification                                                        *)

LEMMA StutterInv ==
  ASSUME IInv, UNCHANGED vars
  PROVE  IInv'
<1> USE DEF vars, faults
<1>0. UNCHANGED faults
  OBVIOUS
<1>1. TypeInv' /\ StackInv' /\ DescriptorInv'
  BY <1>0, SameTypes DEF IInv, TypeInv, StackInv, DescriptorInv
<1>2. MutexInv'
  BY DEF IInv, MutexInv
<1>3. BitsInv'
  BY <1>0, SameTypes DEF IInv, BitsInv, HasPath
<1>4. FramesInv' /\ ReturnInv'
  BY DEF IInv, FramesInv, FrameInv, Made, HasPath, ReturnInv, In, Of
<1>5. MadeInv' /\ MainInv'
  BY DEF IInv, MadeInv, MainInv, Made, Asks, Bottom, Idle
<1>6. ASSUME NEW t \in Walkers PROVE WalkerInv(t)'
  BY <1>0, SameTypes DEF IInv, WalkerInv, Made, Asks, Bottom, Idle
<1>7. ASSUME NEW t \in Scanners PROVE ScannerInv(t)'
  BY <1>0, SameTypes DEF IInv, ScannerInv, Made, Asks, Bottom, Idle
<1>8. OwnerInv'
  <2>1. dirs \subseteq Files /\ files \cup UNION {BatchOf(t) : t \in Walkers} \subseteq Files
    BY ThreadsAssumption DEF IInv, TypeInv, BatchOf, Jobs, Threads
  <2>2. /\ \A d \in dirs : TakenFor(d)' = TakenFor(d)
        /\ \A f \in files \cup UNION {BatchOf(t) : t \in Walkers} : TakenFor(f)' = TakenFor(f)
    BY <1>0, <2>1, SameTypes
  <2> QED
    BY <2>2 DEF IInv, OwnerInv, BatchOf, Made, Idle
<1> QED
  BY <1>1, <1>2, <1>3, <1>4, <1>5, <1>6, <1>7, <1>8 DEF IInv

LEMMA NextInv ==
  ASSUME IInv, [Next]_vars
  PROVE  IInv'
<1>1. CASE UNCHANGED vars
  BY <1>1, StutterInv
<1>2. CASE Next
  <2>1. UNCHANGED faults
    BY <1>2 DEF Next
  <2>2. CASE MainStep
    BY <2>1, <2>2, OpenCwdInv, TakeStartPathInv, QueueStartPathInv, CloseCwdInv DEF MainStep
  <2>3. CASE \E t \in Walkers : WalkerStep(t)
    BY <2>1, <2>3, PullDirInv, OpenDirFailedInv, ReadEntryInv, RejectEntryInv,
       AcceptEntryInv, CreateEntryInv, PushFilesInv, CloseThisDirInv DEF WalkerStep
  <2>4. CASE \E t \in Scanners : ScannerStep(t)
    BY <2>1, <2>4, PullFileInv, AskFileInv, ScanFileInv, SkipFileInv DEF ScannerStep
  <2>5. CASE \E t \in Threads : CallStep(t)
    BY <2>1, <2>5, CallInv
  <2> QED
    BY <1>2, <2>2, <2>3, <2>4, <2>5 DEF Next
<1> QED
  BY <1>1, <1>2

\* The inductive invariant: what each call in progress may rely on, what each thread knows of
\* the object in its hand, and that an object is in one queue, one batch or one hand
\* (FileID.cpp and the calls DirTree, FileScanner and File make on it).
THEOREM CallsAndHands == Spec => []IInv
<1>1. Init => IInv
  BY InitInv
<1>2. IInv /\ [Next]_vars => IInv'
  BY NextInv
<1> QED
  BY <1>1, <1>2, PTL DEF Spec

\* The bits, types and sizes are ones that exist, a file's type is never another file's, and
\* whoever holds the mutex of a FileID is inside a call on it: every way out of
\* DoubleCheckedMultiLock() unlocks, the exception of an open() that fails too.
THEOREM TypeCorrect == Spec => []TypeOK
<1>1. IInv => TypeOK
  BY TypeOKInv
<1> QED
  BY <1>1, CallsAndHands, PTL

\* No thread is about to touch a field of a FileID that another one is about to write,
\* although the getters read them, and OpenDir(), FStatAt() and CloseDir() write them,
\* without the mutex (FileID.cpp:532-630).
THEOREM NoFieldIsRaced == Spec => []NoDataRace
<1>1. IInv => NoDataRace
  BY NoDataRaceInv
<1> QED
  BY <1>1, CallsAndHands, PTL

\* A directory's descriptor is open only in the hand of a traversal thread, and at most
\* one file is open for each scanner: whatever opens, fails to open, and in which order.
THEOREM DescriptorsAreGivenBack == Spec => []DescriptorsAreBounded
<1>1. IInv => DescriptorsAreBounded
  BY DescriptorsInv
<1> QED
  BY <1>1, CallsAndHands, PTL

-----------------------------------------------------------------------------
(* The path of a file                                                       *)

Names == Files \cup {"."}

\* One step of the recursion, and functions that satisfy it on some files with their
\* directories.
PathOf(g, f) ==
  IF f = Root THEN <<".">>
  ELSE IF f \in Starts \/ AtDir[f] = "." THEN <<f>>
  ELSE Append(g[AtDir[f]], f)

PathsOn(g, some) ==
  /\ some \subseteq Files
  /\ \A f \in some : /\ g[f] = PathOf(g, f) /\ g[f] \in Seq(Names)
                     /\ f = Root \/ AtDir[f] \in some

\* Two such functions agree: nothing is below itself.
LEMMA OnePath ==
  ASSUME NEW g, NEW h, NEW some, NEW more, PathsOn(g, some), PathsOn(h, more),
         NEW f, f \in some \cap more
  PROVE  g[f] = h[f]
<1> DEFINE wrong == {x \in (some \cap more) \ {Root} : g[x] # h[x]}
<1>1. wrong \in SUBSET (Files \ {Root})
  BY DEF PathsOn
<1>2. ASSUME wrong # {} PROVE FALSE
  <2>1. PICK x \in wrong : AtDir[x] \notin wrong
    BY <1>1, <1>2, TreeAssumption
  <2>2. /\ x \in some /\ x \in more /\ x # Root /\ g[x] # h[x]
        /\ AtDir[x] \in some /\ AtDir[x] \in more
        /\ g[x] = PathOf(g, x) /\ h[x] = PathOf(h, x)
    BY <2>1 DEF PathsOn
  <2>3. g[AtDir[x]] = h[AtDir[x]]
    <3>1. CASE AtDir[x] = Root
      <4>1. g[Root] = PathOf(g, Root) /\ h[Root] = PathOf(h, Root)
        BY <2>2, <3>1 DEF PathsOn
      <4> QED
        BY <3>1, <4>1 DEF PathOf
    <3>2. CASE AtDir[x] # Root
      BY <2>1, <2>2, <3>2
    <3> QED
      BY <3>1, <3>2
  <2> QED
    BY <2>2, <2>3 DEF PathOf
<1>3. CASE f = Root
  BY <1>3 DEF PathsOn, PathOf
<1>4. CASE f # Root
  BY <1>2, <1>4
<1> QED
  BY <1>3, <1>4

\* Every file has one.
LEMMA SomePath ==
  ASSUME NEW f \in Files
  PROVE  \E g, some : f \in some /\ PathsOn(g, some)
<1> DEFINE Has(x) == \E g, some : x \in some /\ PathsOn(g, some)
           without == {x \in Files \ {Root} : ~Has(x)}
<1>1. Has(Root)
  <2> PICK g : g = [x \in {Root} |-> <<".">>]
    OBVIOUS
  <2>1. g[Root] = <<".">> /\ <<".">> \in Seq(Names) /\ PathOf(g, Root) = <<".">>
    BY DEF PathOf, Names
  <2>2. PathsOn(g, {Root})
    BY <2>1, FilesAssumption DEF PathsOn
  <2> QED
    BY <2>2
<1>2. ASSUME without # {} PROVE FALSE
  <2>1. PICK x \in without : AtDir[x] \notin without
    BY <1>2, TreeAssumption
  <2>2. x \in Files \ {Root} /\ AtDir[x] \in Files /\ ~Has(x)
    BY <2>1, FilesAssumption
  <2>3. Has(AtDir[x])
    BY <1>1, <2>1, <2>2
  <2>4. PICK g, some : AtDir[x] \in some /\ PathsOn(g, some)
    BY <2>3
  <2>5. x \notin some
    BY <2>2, <2>4
  <2> PICK more : more = some \cup {x}
    OBVIOUS
  <2> PICK new : new = IF x \in Starts \/ AtDir[x] = "." THEN <<x>> ELSE Append(g[AtDir[x]], x)
    OBVIOUS
  <2> PICK h : h = [y \in more |-> IF y = x THEN new ELSE g[y]]
    OBVIOUS
  <2>6. h[x] = new /\ \A y \in some : h[y] = g[y]
    BY <2>5
  <2>7. h[x] = PathOf(h, x)
    BY <2>2, <2>4, <2>6 DEF PathOf
  <2>8. new \in Seq(Names)
    <3>1. x \in Names /\ g[AtDir[x]] \in Seq(Names)
      BY <2>2, <2>4 DEF Names, PathsOn
    <3> QED
      BY <3>1, AppendProperties
  <2>9. ASSUME NEW y \in some
        PROVE  /\ h[y] = PathOf(h, y) /\ h[y] \in Seq(Names)
               /\ y = Root \/ AtDir[y] \in more
    <3>1. g[y] = PathOf(g, y) /\ g[y] \in Seq(Names) /\ (y = Root \/ AtDir[y] \in some)
      BY <2>4 DEF PathsOn
    <3> QED
      BY <2>6, <3>1 DEF PathOf
  <2>10. PathsOn(h, more)
    BY <2>2, <2>4, <2>6, <2>7, <2>8, <2>9 DEF PathsOn
  <2> QED
    BY <2>2, <2>10
<1> QED
  BY <1>1, <1>2

\* The recursion defines FullPath.
LEMMA FullPathIs ==
  ASSUME NEW f \in Files
  PROVE  FullPath[f] = PathOf(FullPath, f) /\ FullPath[f] \in Seq(Names)
<1> DEFINE Is(x, p) == \E g, some : x \in some /\ PathsOn(g, some) /\ p = g[x]
           full == [x \in Files |-> CHOOSE p : Is(x, p)]
           Eq(h) == [x \in Files |->
                       IF x = Root THEN <<".">>
                       ELSE IF x \in Starts \/ AtDir[x] = "." THEN <<x>>
                       ELSE Append(h[AtDir[x]], x)]
<1>1. ASSUME NEW x \in Files
      PROVE  \E g, some : x \in some /\ PathsOn(g, some) /\ full[x] = g[x]
  <2>1. \E p : Is(x, p)
    BY SomePath
  <2>2. Is(x, CHOOSE p : Is(x, p))
    BY <2>1
  <2> QED
    BY <2>2
<1>2. ASSUME NEW g, NEW some, PathsOn(g, some), NEW x \in some PROVE full[x] = g[x]
  <2>1. x \in Files
    BY <1>2 DEF PathsOn
  <2>2. PICK h, more : x \in more /\ PathsOn(h, more) /\ full[x] = h[x]
    BY <1>1, <2>1
  <2> QED
    BY <1>2, <2>2, OnePath
<1>3. full = [x \in Files |-> full[x]]
  BY DEF full
<1> HIDE DEF full
<1>4. ASSUME NEW x \in Files PROVE full[x] = PathOf(full, x) /\ full[x] \in Seq(Names)
  <2>1. PICK g, some : x \in some /\ PathsOn(g, some) /\ full[x] = g[x]
    BY <1>1
  <2>2. g[x] = PathOf(g, x) /\ g[x] \in Seq(Names) /\ (x = Root \/ AtDir[x] \in some)
    BY <2>1 DEF PathsOn
  <2>3. x # Root => full[AtDir[x]] = g[AtDir[x]]
    BY <1>2, <2>1, <2>2
  <2> QED
    BY <2>1, <2>2, <2>3 DEF PathOf
<1>5. full = Eq(full)
  <2>1. \A x \in Files : full[x] = IF x = Root THEN <<".">>
                                   ELSE IF x \in Starts \/ AtDir[x] = "." THEN <<x>>
                                   ELSE Append(full[AtDir[x]], x)
    BY <1>4 DEF PathOf
  <2>2. [x \in Files |-> full[x]] = Eq(full)
    BY <2>1
  <2> QED
    BY <1>3, <2>2
<1>6. FullPath = CHOOSE h : h = Eq(h)
  BY DEF FullPath
<1>7. FullPath = Eq(FullPath)
  BY <1>5, <1>6
<1> HIDE DEF Is
<1>8. ASSUME NEW x \in Files PROVE FullPath[x] = PathOf(FullPath, x)
  BY <1>7 DEF PathOf
<1>9. ASSUME NEW x \in Files PROVE FullPath[x] \in Seq(Names)
  <2> DEFINE wrong == {y \in Files \ {Root} : FullPath[y] \notin Seq(Names)}
  <2>1. FullPath[Root] \in Seq(Names)
    <3>1. FullPath[Root] = <<".">> /\ "." \in Names
      BY <1>8, FilesAssumption DEF PathOf, Names
    <3> QED
      BY <3>1
  <2>2. ASSUME wrong # {} PROVE FALSE
    <3>1. PICK y \in wrong : AtDir[y] \notin wrong
      BY <2>2, TreeAssumption
    <3>2. y \in Files \ {Root} /\ AtDir[y] \in Files /\ FullPath[y] \notin Seq(Names)
      BY <3>1, FilesAssumption
    <3>3. FullPath[AtDir[y]] \in Seq(Names) /\ y \in Names
      BY <2>1, <3>1, <3>2 DEF Names
    <3>4. FullPath[y] = PathOf(FullPath, y)
      BY <1>8, <3>2
    <3>5. <<y>> \in Seq(Names) /\ Append(FullPath[AtDir[y]], y) \in Seq(Names)
      BY <3>3, AppendProperties
    <3> QED
      BY <3>2, <3>4, <3>5 DEF PathOf
  <2> QED
    BY <2>1, <2>2
<1> QED
  BY <1>8, <1>9

\* Only the working directory and a start path "." have the path ".".
LEMMA DotPath ==
  ASSUME NEW f \in Files, FullPath[f] = <<".">>
  PROVE  f = Root \/ f = "."
<1>1. CASE f \in Starts \/ AtDir[f] = "."
  <2>1. f = Root \/ FullPath[f] = <<f>>
    BY <1>1, FullPathIs DEF PathOf
  <2>2. <<f>>[1] = f /\ <<".">>[1] = "."
    OBVIOUS
  <2> QED
    BY <2>1, <2>2
<1>2. CASE f # Root /\ ~(f \in Starts \/ AtDir[f] = ".")
  <2>1. AtDir[f] \in Files /\ f \in Names
    BY <1>2, FilesAssumption DEF Names
  <2> PICK p : p = FullPath[AtDir[f]]
    OBVIOUS
  <2>2. p \in Seq(Names) /\ Append(p, f) = <<".">>
    BY <1>2, <2>1, FullPathIs DEF PathOf
  <2>3. Len(Append(p, f)) = Len(p) + 1 /\ Append(p, f)[Len(p) + 1] = f /\ Len(p) \in Nat
    <3> PICK S : S = Names
      OBVIOUS
    <3>1. p \in Seq(S) /\ f \in S
      BY <2>1, <2>2
    <3> QED
      BY ONLY <3>1, AppendProperties, LenProperties
  <2>4. Len(<<".">>) = 1 /\ <<".">>[1] = "."
    OBVIOUS
  <2> QED
    BY <2>2, <2>3, <2>4
<1> QED
  BY <1>1, <1>2

-----------------------------------------------------------------------------
(* What is known of the paths                                               *)

PathInv ==
  /\ \A f \in Files : HasPath(f) => obj[f].path = FullPath[f]
  /\ ScannersSeeTheFile

\* A step forgets paths, as the making of a FileID does, or finds the right ones.
LEMMA NewPaths ==
  ASSUME PathInv, UNCHANGED <<done, faults>>,
         \A f \in Files : obj'[f].path \in {obj[f].path, <<>>, FullPath[f]}
  PROVE  PathInv'
  BY SameTypes DEF PathInv, HasPath, ScannersSeeTheFile

\* The path a call puts together from the directory's, whose GetPath() returned.
LEMMA PathIsAppended ==
  ASSUME IInv, PathInv, NEW t \in Threads, AppendPath(t), NEW f, f = Of(t)
  PROVE  obj'[f].path = FullPath[f]
<1> PICK d : d = AtDir[f]
  OBVIOUS
<1>1. In(t, "append")
  BY DEF AppendPath
<1>2. f \in Files \ {Root} /\ Made(f) /\ "PATH" \in valid[d]
  BY <1>1, InnermostCall DEF FrameInv, IInv, ReturnInv
<1>3. d \in Files /\ obj[d].path = FullPath[d]
  BY <1>2, FilesAssumption DEF IInv, BitsInv, PathInv
<1>4. obj'[f].path = IF FullPath[d] = <<".">> THEN <<f>> ELSE Append(FullPath[d], f)
  <2>1. obj'[f].path = IF obj[AtDir[f]].path = <<".">> THEN <<f>> ELSE Append(obj[AtDir[f]].path, f)
    BY AppendedPath, ZenonT(60)
  <2>2. obj[AtDir[f]].path = FullPath[d]
    BY <1>3
  <2> QED
    BY ONLY <2>1, <2>2, Zenon
<1>5. FullPath[f] = PathOf(FullPath, f) /\ FullPath[d] = PathOf(FullPath, d)
  <2>1. ASSUME NEW g \in Files PROVE FullPath[g] = PathOf(FullPath, g)
    BY ONLY <2>1, FullPathIs, Zenon
  <2>2. f \in Files
    BY <1>2
  <2> QED
    BY ONLY <1>3, <2>1, <2>2, Zenon
<1>6. CASE f \in Starts
  <2>1. d = Root
    BY <1>6, FilesAssumption DEF Starts
  <2> QED
    BY <1>2, <1>4, <1>5, <1>6, <2>1 DEF PathOf
<1>7. CASE f \notin Starts
  <2>1. d # Root
    BY <1>2, <1>7 DEF IInv, MadeInv
  <2>2. CASE d = "."
    <3>1. d \in Starts
      BY <1>3, <2>1, <2>2, FilesAssumption DEF Starts
    <3> QED
      BY <1>2, <1>4, <1>5, <2>1, <2>2, <3>1 DEF PathOf
  <2>3. CASE d # "."
    <3>1. FullPath[d] # <<".">>
      BY <1>3, <2>1, <2>3, DotPath
    <3> QED
      BY <1>2, <1>4, <1>5, <1>7, <2>3, <3>1 DEF PathOf
  <2> QED
    BY <2>2, <2>3
<1> QED
  BY <1>6, <1>7

LEMMA CallPaths ==
  ASSUME IInv, PathInv, NEW t \in Threads, CallStep(t), UNCHANGED faults
  PROVE  PathInv'
<1>1. /\ UNCHANGED done
      /\ \A f \in Files : obj'[f].path = obj[f].path \/ (In(t, "append") /\ f = Of(t))
  BY CallTypes DEF CallEffect
<1>2. ASSUME In(t, "append") PROVE AppendPath(t)
  BY <1>2 DEF CallStep, In, FirstCheck, LockAndCheck, ResolvePath, OpenFile, LazyLoadStatInfo,
              Publish, ReadValue, GetTempDirFileDesc, OpenTempDir
<1>3. \A f \in Files : obj'[f].path \in {obj[f].path, <<>>, FullPath[f]}
  BY <1>1, <1>2, PathIsAppended
<1> QED
  BY <1>1, <1>3, NewPaths

LEMMA MainPaths ==
  ASSUME IInv, PathInv, MainStep, UNCHANGED faults
  PROVE  PathInv'
<1>1. TypeInv /\ Root \in Files /\ Main \in Threads
  BY FilesAssumption DEF IInv, Threads
<1>2. CASE OpenCwd
  BY <1>2, NewPaths DEF OpenCwd
<1>3. CASE TakeStartPath
  <2> PICK f : f = StartPaths[job[Main].asked + 1]
    OBVIOUS
  <2>1. obj' = [obj EXCEPT ![f] = StartFileID(f)] /\ UNCHANGED done
        /\ job[Main].asked < Len(StartPaths) /\ job[Main].asked \in Nat
    BY <1>1, <1>3 DEF TakeStartPath, TypeInv, Jobs
  <2>2. job[Main].asked + 1 \in DOMAIN StartPaths
    BY <2>1, FilesAssumption, LenProperties
  <2>3. f \in Files \ {Root} /\ f \in Starts
    BY <2>2, FilesAssumption, LenProperties DEF Starts
  <2>4. StartFileID(f).path \in {<<>>, FullPath[f]}
    <3>1. FullPath[f] = <<f>>
      BY <2>3, FullPathIs DEF PathOf
    <3> QED
      BY <3>1 DEF StartFileID, Impl
  <2>5. \A g \in Files : obj'[g] = IF g = f THEN StartFileID(f) ELSE obj[g]
    BY <1>1, <2>1 DEF TypeInv
  <2> QED
    BY <2>1, <2>4, <2>5, NewPaths
<1>4. CASE QueueStartPath
  <2> PICK f : f = job[Main].on
    OBVIOUS
  <2>1. /\ UNCHANGED done
        /\ obj' = [obj EXCEPT ![f].flags = TRUE] \/ UNCHANGED obj
    BY <1>4 DEF QueueStartPath, SetFileDescriptorMode
  <2>2. CASE UNCHANGED obj
    BY <2>1, <2>2, NewPaths
  <2>3. CASE obj' = [obj EXCEPT ![f].flags = TRUE] /\ f \in Files
    <3>1. \A g \in Files : obj'[g].path = obj[g].path
      BY <1>1, <2>3, SetFlags
    <3> QED
      BY <2>1, <3>1, NewPaths
  <2>4. CASE f \notin Files /\ obj' = [obj EXCEPT ![f].flags = TRUE]
    <3>1. \A g \in Files : obj'[g] = obj[g]
      BY <1>1, <2>4 DEF TypeInv
    <3> QED
      BY <2>1, <3>1, NewPaths
  <2> QED
    BY <2>1, <2>2, <2>3, <2>4
<1>5. CASE CloseCwd
  <2>1. obj' = [obj EXCEPT ![Root].temp = FALSE] /\ UNCHANGED done
    BY <1>5 DEF CloseCwd, CloseDir
  <2>2. \A g \in Files : obj'[g].path = obj[g].path
    BY <1>1, <2>1, SetTemp
  <2> QED
    BY <2>1, <2>2, NewPaths
<1> QED
  BY <1>2, <1>3, <1>4, <1>5 DEF MainStep

LEMMA WalkerPaths ==
  ASSUME IInv, PathInv, NEW t \in Walkers, WalkerStep(t), UNCHANGED faults
  PROVE  PathInv'
<1>1. TypeInv /\ t \in Threads /\ WalkerInv(t)
  BY WalkerFacts
<1>2. CASE \/ PullDir(t) \/ OpenDirFailed(t) \/ ReadEntry(t) \/ RejectEntry(t)
            \/ AcceptEntry(t) \/ PushFiles(t)
  BY <1>2, NewPaths DEF PullDir, OpenDirFailed, ReadEntry, RejectEntry, AcceptEntry,
                        PushFiles
<1>3. CASE CreateEntry(t)
  <2> PICK f : f = job[t].entry
    OBVIOUS
  <2>1. obj' = [obj EXCEPT ![f] = EntryFileID(f)] /\ UNCHANGED done
    BY <1>3 DEF CreateEntry
  <2>2. EntryFileID(f).path = <<>>
    BY DEF EntryFileID, Impl
  <2>3. \A g \in Files : obj'[g] = IF g = f THEN EntryFileID(f) ELSE obj[g]
    BY <1>1, <2>1 DEF TypeInv
  <2> QED
    BY <2>1, <2>2, <2>3, NewPaths
<1>4. CASE CloseThisDir(t)
  <2> PICK d : d = job[t].on
    OBVIOUS
  <2>1. obj' = [obj EXCEPT ![d].temp = FALSE] /\ UNCHANGED done /\ job[t].at = "closedir"
    BY <1>4 DEF CloseThisDir, CloseDir, At
  <2>2. d \in Files
    BY <1>1, <2>1 DEF WalkerInv
  <2>3. \A g \in Files : obj'[g].path = obj[g].path
    BY <1>1, <2>1, <2>2, SetTemp
  <2> QED
    BY <2>1, <2>3, NewPaths
<1> QED
  BY <1>2, <1>3, <1>4 DEF WalkerStep

\* The three answers a scanner has when it scans: the file opened, its path is the whole
\* path, and what it scans is a file of that size unless the stat() failed.
LEMMA ScannerPaths ==
  ASSUME IInv, PathInv, NEW t \in Scanners, ScannerStep(t), UNCHANGED faults
  PROVE  PathInv'
<1> PICK f : f = job[t].on
  OBVIOUS
<1>1. TypeInv /\ t \in Threads /\ ScannerInv(t)
  BY ScannerFacts
<1>2. CASE PullFile(t)
  <2>1. Destroys(f) /\ UNCHANGED done
    BY <1>2 DEF PullFile, Destroys
  <2>2. \A g \in Files : obj'[g].path = obj[g].path
    BY <1>1, <2>1, Destroyed
  <2> QED
    BY <2>1, <2>2, NewPaths
<1>3. CASE AskFile(t)
  BY <1>3, NewPaths DEF AskFile
<1>4. CASE ScanFile(t)
  <2>1. /\ Idle(t) /\ job[t].at = "ask" /\ job[t].asked = Len(FileCalls)
        /\ done' = [done EXCEPT ![f] = Answer("scanned", obj[f].path, obj[f].size)]
        /\ UNCHANGED <<obj, valid>>
    BY <1>4 DEF ScanFile, At
  <2>2. /\ job[t].asked = 3
        /\ FileCalls[1] = "GetFileDescriptor" /\ FileCalls[2] = "GetFileSize"
        /\ FileCalls[3] = "GetPath"
    BY <2>1 DEF FileCalls
  <2>3. f \in Files \ {Root} /\ \A n \in 1..3 : Wants[FileCalls[n]] \in valid[f]
    BY <1>1, <2>1, <2>2 DEF ScannerInv
  <2>4. {"FILE_DESC", "STATINFO", "PATH"} \subseteq valid[f]
    BY <2>2, <2>3 DEF Wants
  <2>5. /\ f \notin unopenable /\ (obj[f].size = 0 => f \in unstatable) /\ HasPath(f)
        /\ f \notin Misread => obj[f].size = 0 \/ (obj[f].size = 1 /\ f \notin unstatable)
    BY <2>3, <2>4 DEF IInv, BitsInv
  <2>6. obj[f].path = FullPath[f]
    BY <2>3, <2>5 DEF PathInv
  <2>7. \A g \in Files : done'[g] = IF g = f THEN Answer("scanned", FullPath[f], obj[f].size)
                                    ELSE done[g]
    BY <1>1, <2>1, <2>6 DEF TypeInv
  <2>8. f \notin Misread =>
           Kind[f] = "file" /\ obj[f].size = IF f \in unstatable THEN 0 ELSE 1
    <3>1. TakenFor(f) = "file"
      BY <1>1, <2>1 DEF ScannerInv
    <3>2. f \notin Misread => Kind[f] = "file"
      BY <1>1, <2>3, <3>1, TypesTaken DEF TypeInv
    <3> QED
      BY <2>5, <3>2
  <2>9. done'[f].verdict = "scanned" /\ done'[f].path = FullPath[f] /\ done'[f].size = obj[f].size
    BY <2>3, <2>7 DEF Answer
  <2>10. ScannersSeeTheFile'
    <3> SUFFICES ASSUME NEW g \in Files, done'[g].verdict = "scanned"
                 PROVE  /\ g \notin unopenable
                        /\ done'[g].path = FullPath[g]
                        /\ g \notin Misread =>
                              /\ Kind[g] = "file"
                              /\ done'[g].size = IF g \in unstatable THEN 0 ELSE 1
      BY SameTypes DEF ScannersSeeTheFile
    <3>1. CASE g = f
      BY <2>5, <2>8, <2>9, <3>1
    <3>2. CASE g # f
      <4>1. done'[g] = done[g]
        BY <2>7, <3>2
      <4> QED
        BY <4>1 DEF PathInv, ScannersSeeTheFile
    <3> QED
      BY <3>1, <3>2
  <2> QED
    BY <2>1, <2>10 DEF PathInv, HasPath
<1>5. CASE SkipFile(t)
  <2>1. /\ done' = [done EXCEPT ![f] = Answer("skipped", <<>>, 0)] /\ UNCHANGED obj
    BY <1>5 DEF SkipFile
  <2>2. \A g \in Files : done'[g] = IF g = f THEN Answer("skipped", <<>>, 0) ELSE done[g]
    BY <1>1, <2>1 DEF TypeInv
  <2>3. ScannersSeeTheFile'
    BY <2>2, SameTypes DEF PathInv, ScannersSeeTheFile, Answer
  <2> QED
    BY <2>1, <2>3 DEF PathInv, HasPath
<1> QED
  BY <1>2, <1>3, <1>4, <1>5 DEF ScannerStep

-----------------------------------------------------------------------------
(* The specification                                                        *)

LEMMA InitPaths == Init => PathInv
<1> SUFFICES ASSUME Init PROVE PathInv
  OBVIOUS
<1>1. \A f \in Files : obj[f].path = IF f = Root THEN <<".">> ELSE <<>>
  BY DEF Init, CwdFileID, NotMade, Impl
<1>2. FullPath[Root] = <<".">>
  BY FilesAssumption, FullPathIs DEF PathOf
<1>3. \A f \in Files : done[f].verdict = "none"
  BY DEF Init, Answer
<1> QED
  BY <1>1, <1>2, <1>3 DEF PathInv, HasPath, ScannersSeeTheFile

LEMMA NextPathInv ==
  ASSUME IInv, PathInv, [Next]_vars
  PROVE  PathInv'
<1>1. CASE UNCHANGED vars
  BY <1>1, NewPaths DEF vars
<1>2. CASE Next
  BY <1>2, MainPaths, WalkerPaths, ScannerPaths, CallPaths DEF Next
<1> QED
  BY <1>1, <1>2

\* A scanner that got as far as scanning has the whole path of its file, which the getters
\* put together from the directories' (FileID::impl::ResolvePath()), and has it open; it is a
\* file, and its size is known, or 0 if the stat() failed.  All of it in every tree, whatever
\* the threads' order and whatever fails, but for the entries whose dirent has no type and
\* whose FStatAt() failed: of those only the path and the open() are certain, as
\* DirTree::ProcessDirent() goes on with a struct stat nobody filled in.
THEOREM ScannersAreRight == Spec => []ScannersSeeTheFile
<1>1. Init => PathInv
  BY InitPaths
<1>2. IInv /\ PathInv /\ [Next]_vars => PathInv'
  BY NextPathInv
<1>3. PathInv => ScannersSeeTheFile
  BY DEF PathInv
<1> QED
  BY <1>1, <1>2, <1>3, CallsAndHands, PTL DEF Spec

=============================================================================
