------------------------------- MODULE FileID -------------------------------
(* The lazily filled FileID objects (libext/FileID.cpp) and the calls that   *)
(* the traversal's and the scanners' threads make on them.  A getter tests a *)
(* validity bit without the mutex, fills the value in under it when the bit  *)
(* is not set, publishes the bits and reads the value without the mutex      *)
(* (DoubleCheckedMultiLock).  Filling in a path asks the at-directory for    *)
(* its own, with the mutex of the child held.  OpenDir, FStatAt and CloseDir *)
(* take no mutex at all: what keeps them apart from the getters is only the  *)
(* order in which DirTree and File call them.                                *)
(* A call in progress is a frame on its thread's stack; one step of this     *)
(* module is one access to the shared data.                                  *)
EXTENDS Integers, Sequences, FiniteSets

CONSTANTS
    Files,          \* everything a FileID is made for
    Root,           \* the FileID of the working directory
    AtDir,          \* the directory each of the others is in
    Kind,           \* "dir", "file", or "other"
    StartPaths,     \* those named on the command line, in order
    AbsolutePaths,  \* the ones of them with an absolute name
    UnknownTypes,   \* entries whose dirent does not say what they are
    MayNotStat,     \* stat()ing one of these may fail
    StatData,       \* the [type, size] a struct stat may have by chance
    MayNotOpen,     \* opening one of these may fail
    MaxFaults,      \* how many of these failures there are at the most
    Walkers, Scanners, Main,
    Nobody

ASSUME FilesAssumption ==
    /\ Root \in Files /\ AtDir \in [Files \ {Root} -> Files]
    /\ Kind \in [Files -> {"dir", "file", "other"}] /\ Kind[Root] = "dir"
    /\ StartPaths \in Seq(Files \ {Root})
    /\ \A m, n \in DOMAIN StartPaths : StartPaths[m] = StartPaths[n] => m = n
    /\ \A n \in DOMAIN StartPaths : AtDir[StartPaths[n]] = Root
    /\ AbsolutePaths \subseteq {StartPaths[n] : n \in DOMAIN StartPaths}
    /\ UnknownTypes \subseteq Files \ {Root}
    /\ \A n \in DOMAIN StartPaths : StartPaths[n] \notin UnknownTypes
    /\ StatData \subseteq [type : {"dir", "file", "other"}, size : Int]
    /\ "." \in Files \ {Root} => \E n \in DOMAIN StartPaths : StartPaths[n] = "."

\* A directory does not lie below itself: among some files there is always one whose
\* directory is not one of them.
ASSUME TreeAssumption ==
    \A some \in SUBSET (Files \ {Root}) :
        some # {} => \E f \in some : AtDir[f] \notin some

ASSUME ThreadsAssumption ==
    /\ Walkers \cap Scanners = {} /\ Main \notin Walkers \cup Scanners
    /\ IsFiniteSet(Scanners)
    /\ Nobody \notin Walkers \cup Scanners \cup {Main} \cup Files

VARIABLES
    obj,      \* what FileID::impl holds
    valid,    \* m_valid_bits
    mutex,    \* m_mutex: the thread that holds it
    stack,    \* the calls each thread is in, innermost first
    job,      \* where each thread is in its own code
    dirs,     \* the directories in the directory queue
    files,    \* the files in the files queue
    done,     \* what a scanner learned of each file it pulled
    unstatable, unopenable,  \* the files the system fails on, chosen once
    garbage   \* ... and what the stat data of an entry are then taken to be

faults == <<unstatable, unopenable, garbage>>
vars == <<obj, valid, mutex, stack, job, dirs, files, done, faults>>

Threads == Walkers \cup Scanners \cup {Main}
StatBits == {"UUID", "STATINFO", "TYPE"}
Bits == StatBits \cup {"FILE_DESC", "PATH"}
Unset == "FT_UNINITIALIZED"
StatFailed == "FT_STAT_FAILED"
Starts == {StartPaths[n] : n \in DOMAIN StartPaths}
Entries(d) == {f \in Files \ {Root} : AtDir[f] = d /\ f \notin Starts}

(* The path a file has: the names from the start path down to it, without the *)
(* start path if that is ".", which it is when none is given.                 *)
FullPath[f \in Files] ==
    IF f = Root THEN <<".">>
    ELSE IF f \in Starts \/ AtDir[f] = "." THEN <<f>>
    ELSE Append(FullPath[AtDir[f]], f)

-----------------------------------------------------------------------------
(* Construction.                                                             *)

Impl(path, type, size) ==
    [path |-> path, type |-> type, size |-> size,
     flags |-> FALSE, fd |-> FALSE, temp |-> FALSE]

NotMade == Impl(<<>>, Unset, 0)

CwdFileID == [NotMade EXCEPT !.path = <<".">>, !.type = "dir", !.flags = TRUE, !.fd = TRUE]

(* FileID(at_dir, pathname) is moved into the shared_ptr, and a move leaves   *)
(* the validity bits behind: a start path begins with none, its path already  *)
(* there when it is absolute.                                                *)
StartFileID(f) == Impl(IF f \in AbsolutePaths THEN <<f>> ELSE <<>>, Unset, 0)

(* ProcessDirent stat()s an entry whose dirent does not tell its type, and     *)
(* does not look at whether that failed: type and size then come from a local  *)
(* struct stat that nobody has written to, and may be anything.  (The size a    *)
(* file has is 1.)                                                            *)
Misread == UnknownTypes \cap unstatable
StatBuf(f) == IF f \in Misread THEN garbage[f] ELSE [type |-> Kind[f], size |-> 1]
TakenFor(f) == StatBuf(f).type

(* An entry of a directory comes with its type, device and inode, and with    *)
(* the rest of the stat data if the entry had to be stat()ed.                 *)
EntryFileID(f) ==
    [Impl(<<>>, TakenFor(f), IF f \in UnknownTypes THEN StatBuf(f).size ELSE 0)
        EXCEPT !.flags = TRUE]

(* Mutant: every entry counts as stat()ed. *)
EntryBitsOfStat(f) == StatBits

EntryBits(f) == IF f \in UnknownTypes THEN StatBits ELSE {"UUID", "TYPE"}

-----------------------------------------------------------------------------
(* Calls.                                                                    *)

Wants == [GetPath |-> "PATH", GetFileType |-> "TYPE", GetFileSize |-> "STATINFO",
          GetDev |-> "UUID", GetFileDescriptor |-> "FILE_DESC"]

Field == [GetPath |-> "path", GetFileType |-> "type", GetFileSize |-> "size",
          GetDev |-> "uuid", GetFileDescriptor |-> "fd"]

Frame(op, f) == [op |-> op, of |-> f, pc |-> IF op = "OpenDir" THEN "temp" ELSE "check"]

Call(t, op, f) == stack' = [stack EXCEPT ![t] = <<Frame(op, f)>> \o @]
Goto(t, pc) == stack' = [stack EXCEPT ![t][1].pc = pc]
Return(t) == stack' = [stack EXCEPT ![t] = Tail(@)]

In(t, pc) == stack[t] # <<>> /\ Head(stack[t]).pc = pc
Op(t) == Head(stack[t]).op
Of(t) == Head(stack[t]).of
Idle(t) == stack[t] = <<>>

(* The test without the mutex.  The acquire fence behind it pairs with the    *)
(* release fence before the bits are set, so the bits never arrive before     *)
(* what they stand for.                                                      *)
FirstCheck(t) ==
    /\ In(t, "check")
    /\ Goto(t, IF Wants[Op(t)] \in valid[Of(t)] THEN "read" ELSE "lock")
    /\ UNCHANGED <<obj, valid, mutex, job, dirs, files, done>>

CacheFiller(op) == IF op \in {"GetPath", "GetFileDescriptor"} THEN "resolve" ELSE "stat"

(* The mutex is taken and the bit tested once more: somebody may have filled  *)
(* the value in while this thread waited.                                    *)
LockAndCheck(t) ==
    /\ In(t, "lock")
    /\ mutex[Of(t)] = Nobody
    /\ IF Wants[Op(t)] \in valid[Of(t)]
       THEN /\ Goto(t, "read")
            /\ UNCHANGED mutex
       ELSE /\ mutex' = [mutex EXCEPT ![Of(t)] = t]
            /\ Goto(t, CacheFiller(Op(t)))
    /\ UNCHANGED <<obj, valid, job, dirs, files, done>>

AfterResolve == [GetPath |-> "publish", GetFileDescriptor |-> "open", OpenDir |-> "opentemp"]

HasPath(f) == obj[f].path # <<>>

(* Mutant: the object's own path is asked for instead of the directory's. *)
PathPrefixOfItself(f) == f

PathPrefix(f) == AtDir[f]

(* ResolvePath() does nothing if there is a path, whatever the bits say, and   *)
(* calls the at-directory's GetPath() if there is none.                       *)
ResolvePath(t) ==
    /\ In(t, "resolve")
    /\ stack' = IF HasPath(Of(t))
                THEN [stack EXCEPT ![t][1].pc = AfterResolve[Op(t)]]
                ELSE [stack EXCEPT ![t] =
                        <<Frame("GetPath", PathPrefix(Of(t))),
                          [Head(@) EXCEPT !.pc = "append"]>> \o Tail(@)]
    /\ UNCHANGED <<obj, valid, mutex, job, dirs, files, done>>

(* The answer is read through the reference GetPath() returned.               *)
AppendPath(t) ==
    /\ In(t, "append")
    /\ LET at == obj[AtDir[Of(t)]].path
       IN obj' = [obj EXCEPT ![Of(t)].path =
                     IF at = <<".">> THEN <<Of(t)>> ELSE @ \o Append(at, Of(t))]
    /\ Goto(t, AfterResolve[Op(t)])
    /\ UNCHANGED <<valid, mutex, job, dirs, files, done>>

(* Mutant: the exception leaves the mutex locked. *)
UnwindKeepsLock(f) == UNCHANGED mutex

Unwind(f) == mutex' = [mutex EXCEPT ![f] = Nobody]

(* impl::GetFileDescriptor(): open() by path.  A failure throws: the mutex is  *)
(* released by the unwinding, the bit stays clear, the caller gives up on the  *)
(* file.                                                                     *)
OpenFile(t) ==
    /\ In(t, "open")
    /\ IF Of(t) \in unopenable
       THEN /\ Unwind(Of(t))
            /\ Return(t)
            /\ job' = [job EXCEPT ![t].at = "threw"]
            /\ UNCHANGED obj
       ELSE /\ obj' = [obj EXCEPT ![Of(t)].fd = TRUE]
            /\ Goto(t, "publish")
            /\ UNCHANGED <<mutex, job>>
    /\ UNCHANGED <<valid, dirs, files, done>>

(* Where LazyLoadStatInfo() finds the file: its own descriptor, or its name    *)
(* relative to the directory's temporary descriptor, which need not be open.   *)
StatSucceeds(f) == f \notin unstatable /\ (obj[f].fd \/ obj[AtDir[f]].temp)

(* Failure is cached like success: only the type tells, the size stays as it    *)
(* is, and all three bits are published.  (The message about a failed         *)
(* fstatat() asks the directory for its path; that is the working directory,   *)
(* the only one whose files are stat()ed by name here, and it has its path.)   *)
LazyLoadStatInfo(t) ==
    /\ In(t, "stat")
    /\ LET f == Of(t)
       IN obj' = IF StatSucceeds(f)
                 THEN [obj EXCEPT ![f].type = Kind[f], ![f].size = 1]
                 ELSE [obj EXCEPT ![f].type = StatFailed]
    /\ Goto(t, "publish")
    /\ UNCHANGED <<valid, mutex, job, dirs, files, done>>

Publishes(op) == CASE op = "GetPath" -> {"PATH"}
                   [] op = "GetFileDescriptor" -> {"FILE_DESC", "PATH"}
                   [] OTHER -> StatBits

Publish(t) ==
    /\ In(t, "publish")
    /\ valid' = [valid EXCEPT ![Of(t)] = @ \cup Publishes(Op(t))]
    /\ mutex' = [mutex EXCEPT ![Of(t)] = Nobody]
    /\ Goto(t, "read")
    /\ UNCHANGED <<obj, job, dirs, files, done>>

ReadValue(t) ==
    /\ In(t, "read")
    /\ Return(t)
    /\ UNCHANGED <<obj, valid, mutex, job, dirs, files, done>>

(* GetTempDirFileDesc(): reuse the temporary descriptor, dup() the permanent    *)
(* one, or open the path with O_DIRECTORY.                                    *)
GetTempDirFileDesc(t) ==
    /\ In(t, "temp")
    /\ LET f == Of(t)
       IN IF obj[f].temp \/ obj[f].fd
          THEN Return(t) /\ obj' = [obj EXCEPT ![f].temp = TRUE]
          ELSE Goto(t, "resolve") /\ UNCHANGED obj
    /\ UNCHANGED <<valid, mutex, job, dirs, files, done>>

OpenTempDir(t) ==
    /\ In(t, "opentemp")
    /\ obj' = [obj EXCEPT ![Of(t)].temp = Kind[Of(t)] = "dir" /\ Of(t) \notin unopenable]
    /\ Return(t)
    /\ UNCHANGED <<valid, mutex, job, dirs, files, done>>

CallStep(t) ==
    \/ FirstCheck(t) \/ LockAndCheck(t) \/ ResolvePath(t) \/ AppendPath(t)
    \/ OpenFile(t) \/ LazyLoadStatInfo(t) \/ Publish(t) \/ ReadValue(t)
    \/ GetTempDirFileDesc(t) \/ OpenTempDir(t)

-----------------------------------------------------------------------------
(* The calls DirTree::Scandir makes on the main thread: the working directory  *)
(* is opened for the start paths to be stat()ed in it, and closed before the   *)
(* traversal threads start.                                                   *)

At(t, place) == Idle(t) /\ job[t].at = place
Move(t, place, f) == job' = [job EXCEPT ![t].at = place, ![t].on = f]

OpenCwd ==
    /\ At(Main, "start")
    /\ Call(Main, "OpenDir", Root)
    /\ Move(Main, "paths", Root)
    /\ UNCHANGED <<obj, valid, mutex, dirs, files, done>>

TakeStartPath ==
    /\ At(Main, "paths")
    /\ job[Main].asked < Len(StartPaths)
    /\ LET f == StartPaths[job[Main].asked + 1]
       IN /\ obj' = [obj EXCEPT ![f] = StartFileID(f)]
          /\ valid' = [valid EXCEPT ![f] = {}]
          /\ Call(Main, "GetFileType", f)
          /\ job' = [job EXCEPT ![Main].at = "switch", ![Main].on = f, ![Main].asked = @ + 1]
    /\ UNCHANGED <<mutex, dirs, files, done>>

(* SetFileDescriptorMode() takes the mutex for its one assignment.            *)
SetFileDescriptorMode(f) ==
    mutex[f] = Nobody /\ obj' = [obj EXCEPT ![f].flags = TRUE]

QueueStartPath ==
    LET f == job[Main].on
    IN /\ At(Main, "switch")
       /\ Move(Main, "paths", Root)
       /\ CASE obj[f].type = "file" ->
                 /\ SetFileDescriptorMode(f)
                 /\ files' = files \cup {f}
                 /\ UNCHANGED <<stack, dirs>>
            [] obj[f].type = "dir" ->
                 /\ SetFileDescriptorMode(f)
                 /\ dirs' = dirs \cup {f}
                 /\ UNCHANGED <<stack, files>>
            [] OTHER ->
                 /\ Call(Main, "GetPath", f)       \* for the message
                 /\ UNCHANGED <<obj, dirs, files>>
       /\ UNCHANGED <<valid, mutex, done>>

(* Mutant: the directory stays open. *)
CloseDirLeaks(f) == UNCHANGED obj

CloseDir(f) == obj' = [obj EXCEPT ![f].temp = FALSE]

CloseCwd ==
    /\ At(Main, "paths") /\ job[Main].asked = Len(StartPaths)
    /\ CloseDir(Root)
    /\ Move(Main, "traverse", Root)
    /\ UNCHANGED <<stack, valid, mutex, dirs, files, done>>

-----------------------------------------------------------------------------
(* DirTree::ReaddirLoop and ProcessDirent on a traversal thread.              *)

PullDir(t) ==
    /\ job[Main].at = "traverse"
    /\ At(t, "pull")
    /\ \E d \in dirs :
           /\ dirs' = dirs \ {d}
           /\ Call(t, "OpenDir", d)
           /\ job' = [job EXCEPT ![t].at = "opened", ![t].on = d,
                                 ![t].left = Entries(d), ![t].batch = {}]
    /\ UNCHANGED <<obj, valid, mutex, files, done>>

(* fdopendir() of a descriptor that was not opened: on to the next directory.  *)
OpenDirFailed(t) ==
    /\ At(t, "opened") /\ ~obj[job[t].on].temp
    /\ Move(t, "pull", Nobody)
    /\ UNCHANGED <<obj, valid, mutex, stack, dirs, files, done>>

(* FStatAt() through the directory's descriptor if the dirent gives no type; if *)
(* that fails, the message has the directory's path in it.                     *)
ReadEntry(t) ==
    LET d == job[t].on
    IN /\ At(t, "opened") /\ obj[d].temp
       /\ \E f \in job[t].left :
              /\ job' = [job EXCEPT ![t].at = "consider", ![t].left = @ \ {f}, ![t].entry = f]
              /\ IF f \in Misread THEN Call(t, "GetPath", d) ELSE UNCHANGED stack
       /\ UNCHANGED <<obj, valid, mutex, dirs, files, done>>

(* Anything but a file or a directory, or what looks like it, is passed over.   *)
RejectEntry(t) ==
    /\ At(t, "consider") /\ TakenFor(job[t].entry) = "other"
    /\ Move(t, "opened", job[t].on)
    /\ UNCHANGED <<obj, valid, mutex, stack, dirs, files, done>>

(* GetDev() of the directory, for the new object.                              *)
AcceptEntry(t) ==
    /\ At(t, "consider") /\ TakenFor(job[t].entry) # "other"
    /\ Move(t, "create", job[t].on)
    /\ Call(t, "GetDev", job[t].on)
    /\ UNCHANGED <<obj, valid, mutex, dirs, files, done>>

CreateEntry(t) ==
    LET f == job[t].entry
    IN /\ At(t, "create")
       /\ obj' = [obj EXCEPT ![f] = EntryFileID(f)]
       /\ valid' = [valid EXCEPT ![f] = EntryBits(f)]
       /\ job' = [job EXCEPT ![t].at = "opened",
                             ![t].batch = IF TakenFor(f) = "file" THEN @ \cup {f} ELSE @]
       /\ dirs' = IF TakenFor(f) = "dir" THEN dirs \cup {f} ELSE dirs
       /\ UNCHANGED <<mutex, stack, files, done>>

PushFiles(t) ==
    /\ At(t, "opened") /\ obj[job[t].on].temp /\ job[t].left = {}
    /\ files' = files \cup job[t].batch
    /\ Move(t, "closedir", job[t].on)
    /\ UNCHANGED <<obj, valid, mutex, stack, dirs, done>>

CloseThisDir(t) ==
    /\ At(t, "closedir")
    /\ CloseDir(job[t].on)
    /\ Move(t, "pull", Nobody)
    /\ UNCHANGED <<valid, mutex, stack, dirs, files, done>>

-----------------------------------------------------------------------------
(* FileScanner::Run and File::File on a scanner thread.                       *)

(* Mutant: File::File() asks for the size before it opens the file. *)
FileCallsSizeFirst == <<"GetFileSize", "GetFileDescriptor", "GetPath">>

(* What is asked of a file, in this order: File() opens it and takes its size,  *)
(* the matches carry its path.                                                *)
FileCalls == <<"GetFileDescriptor", "GetFileSize", "GetPath">>

Answer(verdict, path, size) == [verdict |-> verdict, path |-> path, size |-> size]

(* The FileID pulled before is destroyed by the assignment, and its destructor  *)
(* closes its descriptor.                                                     *)
PullFile(t) ==
    /\ At(t, "pull")
    /\ \E f \in files :
           /\ files' = files \ {f}
           /\ obj' = [g \in Files |-> IF g = job[t].on THEN [obj[g] EXCEPT !.fd = FALSE]
                                      ELSE obj[g]]
           /\ job' = [job EXCEPT ![t].at = "ask", ![t].on = f, ![t].asked = 0]
    /\ UNCHANGED <<valid, mutex, stack, dirs, done>>

AskFile(t) ==
    LET n == job[t].asked + 1
    IN /\ At(t, "ask") /\ n \in DOMAIN FileCalls
       /\ Call(t, FileCalls[n], job[t].on)
       /\ job' = [job EXCEPT ![t].asked = n]
       /\ UNCHANGED <<obj, valid, mutex, dirs, files, done>>

ScanFile(t) ==
    LET f == job[t].on
    IN /\ At(t, "ask") /\ job[t].asked = Len(FileCalls)
       /\ done' = [done EXCEPT ![f] = Answer("scanned", obj[f].path, obj[f].size)]
       /\ Move(t, "pull", f)
       /\ UNCHANGED <<obj, valid, mutex, stack, dirs, files>>

(* The FileException of a file that does not open ends with a message.        *)
SkipFile(t) ==
    /\ At(t, "threw")
    /\ done' = [done EXCEPT ![job[t].on] = Answer("skipped", <<>>, 0)]
    /\ Move(t, "pull", job[t].on)
    /\ UNCHANGED <<obj, valid, mutex, stack, dirs, files>>

-----------------------------------------------------------------------------
MainStep == OpenCwd \/ TakeStartPath \/ QueueStartPath \/ CloseCwd

WalkerStep(t) ==
    \/ PullDir(t) \/ OpenDirFailed(t)
    \/ ReadEntry(t) \/ RejectEntry(t) \/ AcceptEntry(t) \/ CreateEntry(t)
    \/ PushFiles(t) \/ CloseThisDir(t)

ScannerStep(t) == PullFile(t) \/ AskFile(t) \/ ScanFile(t) \/ SkipFile(t)

Init ==
    /\ obj = [f \in Files |-> IF f = Root THEN CwdFileID ELSE NotMade]
    /\ valid = [f \in Files |-> IF f = Root THEN {"FILE_DESC", "TYPE", "PATH"} ELSE {}]
    /\ mutex = [f \in Files |-> Nobody]
    /\ stack = [t \in Threads |-> <<>>]
    /\ job = [t \in Threads |->
                [at |-> IF t = Main THEN "start" ELSE "pull", on |-> Nobody,
                 left |-> {}, batch |-> {}, entry |-> Nobody,
                 asked |-> 0]]
    /\ dirs = {} /\ files = {}
    /\ done = [f \in Files |-> Answer("none", <<>>, 0)]
    /\ unstatable \in SUBSET MayNotStat /\ unopenable \in SUBSET MayNotOpen
    /\ Cardinality(unstatable) + Cardinality(unopenable) <= MaxFaults
    /\ garbage \in [Misread -> StatData]

Next ==
    /\ \/ MainStep
       \/ \E t \in Walkers : WalkerStep(t)
       \/ \E t \in Scanners : ScannerStep(t)
       \/ \E t \in Threads : CallStep(t)
    /\ UNCHANGED faults

(* Some thread runs as long as one can: a step never leads back, so no more is  *)
(* needed for the end to come.                                                *)
Spec == Init /\ [][Next]_vars /\ WF_vars(Next)

-----------------------------------------------------------------------------
(* The state has the declared shape; a mutex is held by a thread that is inside *)
(* a call on that object.                                                     *)
TypeOK ==
    /\ \A f \in Files :
           /\ valid[f] \subseteq Bits
           /\ obj[f].type \in {Unset, StatFailed, TakenFor(f)} /\ obj[f].size \in Int
           /\ mutex[f] # Nobody => \E n \in DOMAIN stack[mutex[f]] :
                                       stack[mutex[f]][n].of = f
    /\ dirs \subseteq Files /\ files \subseteq Files

(* What a thread's next step reads and writes outside a mutex's atomicity.     *)
Access(what, f) == [field |-> what, of |-> f]

ReadsNext(t) ==
    IF ~Idle(t) THEN
        LET f == Of(t)
        IN CASE In(t, "resolve") -> {Access("path", f)}
             [] In(t, "append") -> {Access("path", f), Access("path", AtDir[f])}
             [] In(t, "open") -> {Access("path", f), Access("flags", f), Access("fd", f)}
             [] In(t, "opentemp") -> {Access("path", f)}
             [] In(t, "stat") -> {Access("fd", f)} \cup
                    (IF obj[f].fd THEN {} ELSE {Access("temp", AtDir[f])})
             [] In(t, "temp") -> {Access("temp", f), Access("fd", f)}
             [] In(t, "read") -> {Access(Field[Op(t)], f)}
             [] OTHER -> {}
    ELSE IF t \in Walkers /\ job[t].at = "opened" THEN {Access("temp", job[t].on)}
    ELSE {}

WritesNext(t) ==
    IF ~Idle(t) THEN
        LET f == Of(t)
        IN CASE In(t, "append") -> {Access("path", f)}
             [] In(t, "open") -> {Access("fd", f)}
             [] In(t, "opentemp") -> {Access("temp", f)}
             [] In(t, "temp") -> IF ~obj[f].temp /\ obj[f].fd THEN {Access("temp", f)} ELSE {}
             [] In(t, "stat") -> {Access("type", f), Access("uuid", f), Access("size", f)}
             [] OTHER -> {}
    ELSE CASE At(t, "switch") -> {Access("flags", job[t].on)}
           [] At(t, "closedir") -> {Access("temp", job[t].on)}
           [] At(t, "paths") /\ job[t].asked = Len(StartPaths) -> {Access("temp", Root)}
           [] OTHER -> {}

(* Two threads are never about to touch the same field, one of them to write,   *)
(* although the fields are read, and some of them written, with no mutex held:  *)
(* FileID.cpp:532-630, OpenDir() at 584, FStatAt() at 591, CloseDir() at 608.   *)
NoDataRace ==
    \A t, u \in Threads :
        t # u => WritesNext(t) \cap (ReadsNext(u) \cup WritesNext(u)) = {}

(* A directory's temporary descriptor is open only while somebody reads it: the   *)
(* working directory's until the traversal starts, any other one for as long as   *)
(* a traversal thread is at it ("Consumes one file descriptor until CloseDir() is *)
(* called", FileID.h).  No more files are open than there are scanners.           *)
DescriptorsAreBounded ==
    /\ obj[Root].temp => job[Main].at # "traverse"
    /\ \A f \in Files \ {Root} :
           obj[f].temp => \E t \in Walkers : job[t].on = f /\ job[t].at # "pull"
    /\ Cardinality({f \in Files \ {Root} : obj[f].fd}) <= Cardinality(Scanners)

(* What a scanner learns of a file that opened: its whole path, and its size.     *)
(* If the fstat() of the descriptor failed, it passes for an empty file; only if   *)
(* the FStatAt() of an entry of unknown type failed may the size be a wrong one,   *)
(* and may what is scanned not be a file.                                        *)
ScannersSeeTheFile ==
    \A f \in Files :
        done[f].verdict = "scanned" =>
            /\ f \notin unopenable
            /\ done[f].path = FullPath[f]
            /\ f \notin Misread =>
                   /\ Kind[f] = "file"
                   /\ done[f].size = IF f \in unstatable THEN 0 ELSE 1

(* The files the start paths lead to, through directories that open, and with    *)
(* no stat() that failed where the walk depends on it.                          *)
Walked[f \in Files] ==
    IF f \in Starts THEN f \notin unstatable
    ELSE /\ f # Root /\ f \notin Misread
         /\ Kind[AtDir[f]] = "dir" /\ AtDir[f] \notin unopenable /\ Walked[AtDir[f]]

(* No thread waits for ever in a getter, a child's mutex in its hand while it     *)
(* waits for its parent's: every file the walk leads to is scanned or skipped.    *)
EveryFileIsAnswered ==
    <>(\A f \in Files : Kind[f] = "file" /\ Walked[f] => done[f].verdict # "none")
=============================================================================
