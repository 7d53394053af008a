------------------------------- MODULE DirTree -------------------------------
(***************************************************************************)
(* The multithreaded directory traversal (src/src/libext/DirTree.cpp):     *)
(* Scandir() on the main thread, which seeds the directory queue from the  *)
(* command line, starts the workers, waits until they have run out of      *)
(* work, closes the queue and joins them; and the workers, each running    *)
(* ReaddirLoop(): pull a directory, read it, push the directories found    *)
(* back on the same queue and the files found on the output queue.         *)
(*                                                                         *)
(* The directory queue is the sync_queue<> of module SyncQueue, one mutex  *)
(* critical section per step.  The output queue stays open until Scandir   *)
(* has returned (src/main.cpp), so here it is only the bag of what went    *)
(* into it.                                                                *)
(***************************************************************************)
EXTENDS SyncQueue, FileTree, Bags

CONSTANTS
  Workers,      \* the traversal threads, m_dirjobs of them
  Master,       \* the thread that runs Scandir
  StartNodes    \* what each command-line path resolves to

ASSUME WorkersAssumption ==
  /\ IsFiniteSet(Workers)
  /\ Workers # {}               \* ArgParse accepts only --dirjobs > 0 and defaults to 4
  /\ Master \notin Workers
  /\ StartNodes \in Seq(Node \cup {Missing})

VARIABLES
  master,    \* where Scandir is
  next_path, \* the command-line path it looks at next
  pc,        \* where each worker is
  dse,       \* the directory each worker holds
  todo,      \* the entries of that directory the worker has still to read
  files,     \* local_file_queue of each worker
  pending,   \* the subdirectory each worker is about to push
  err,       \* whether the worker's thread-local errno is nonzero
  visited,   \* m_dir_has_been_visited
  out,       \* m_out_queue: the bag of the paths pushed on it
  warned,    \* the warnings written so far
  accepted,  \* history: the directories that were put on the directory queue
  scanned    \* history: the directories whose reading has ended

master_vars == <<master, next_path>>
worker_vars == <<pc, dse, todo, files, pending, err>>
shared_vars == <<visited, out, warned>>
history_vars == <<accepted, scanned>>
vars == <<sync_queue_vars, master_vars, worker_vars, shared_vars, history_vars>>

NoItem == Item(0, <<>>, Missing, 0)

Init ==
  /\ SyncQueueInit
  /\ master = "start_paths"
  /\ next_path = 1
  /\ pc = [w \in Workers |-> "unborn"]
  /\ dse = [w \in Workers |-> NoItem]
  /\ todo = [w \in Workers |-> {}]
  /\ files = [w \in Workers |-> {}]
  /\ pending = [w \in Workers |-> NoItem]
  /\ err = [w \in Workers |-> FALSE]
  /\ visited = {}
  /\ out = EmptyBag
  /\ warned = {}
  /\ accepted = {}
  /\ scanned = {}

Goto(w, label) == pc' = [pc EXCEPT ![w] = label]

-----------------------------------------------------------------------------
(* Scandir                                                                  *)

\* One command-line path: a directory is queued, a file goes straight to the output, both
\* unfiltered; anything else, or nothing, is skipped with a notice.  No worker exists yet, so
\* the notify_one() of the push finds nobody asleep.
StartPathStep ==
  LET node == StartNodes[next_path]
  IN  /\ master = "start_paths"
      /\ next_path <= Len(StartNodes)
      /\ next_path' = next_path + 1
      /\ IF node # Missing /\ NodeType[node] = "dir"
         THEN /\ push_back(StartItem(next_path, node))
              /\ accepted' = accepted \cup {StartItem(next_path, node)}
         ELSE UNCHANGED <<sync_queue_vars, accepted>>
      /\ out' = IF node # Missing /\ NodeType[node] = "reg"
                THEN out (+) SetToBag({StartFile(next_path)})
                ELSE out
      /\ UNCHANGED <<master, worker_vars, visited, warned, scanned>>

StartPathsDone ==
  /\ master = "start_paths"
  /\ next_path > Len(StartNodes)
  /\ master' = "spawn"
  /\ UNCHANGED <<sync_queue_vars, next_path, worker_vars, shared_vars, history_vars>>

Spawn(w) ==
  /\ master = "spawn"
  /\ pc[w] = "unborn"
  /\ Goto(w, "pull")
  /\ master' = IF \A u \in Workers \ {w} : pc[u] # "unborn" THEN "wait_call" ELSE master
  /\ UNCHANGED <<sync_queue_vars, next_path, dse, todo, files, pending, err,
                 shared_vars, history_vars>>

\* m_dir_queue.wait_for_worker_completion(m_dirjobs)
WaitCall ==
  /\ master = "wait_call"
  /\ wait_for_worker_completion(Master, Cardinality(Workers))
  /\ master' = IF Completed(level') THEN "close" ELSE "wait"
  /\ UNCHANGED <<next_path, worker_vars, shared_vars, history_vars>>

WaitWake ==
  /\ master = "wait"
  /\ \/ completion_wake(Master) /\ master' = "close"
     \/ completion_resleep(Master) /\ UNCHANGED master
  /\ UNCHANGED <<next_path, worker_vars, shared_vars, history_vars>>

Close ==
  /\ master = "close"
  /\ close
  /\ master' = "notify"
  /\ UNCHANGED <<next_path, worker_vars, shared_vars, history_vars>>

NotifyClosed ==
  /\ master = "notify"
  /\ notify_all
  /\ master' = "join"
  /\ UNCHANGED <<next_path, worker_vars, shared_vars, history_vars>>

Join ==
  /\ master = "join"
  /\ \A w \in Workers : pc[w] = "done"
  /\ master' = "done"
  /\ UNCHANGED <<sync_queue_vars, next_path, worker_vars, shared_vars, history_vars>>

-----------------------------------------------------------------------------
(* ReaddirLoop                                                              *)

\* The result of a pull that found its predicate true; a directory clears local_file_queue.
Pulled(w) ==
  IF queue = <<>>
  THEN Goto(w, "done") /\ UNCHANGED <<dse, files>>
  ELSE /\ Goto(w, "open")
       /\ dse' = [dse EXCEPT ![w] = Head(queue)]
       /\ files' = [files EXCEPT ![w] = {}]

Pull(w) ==
  /\ pc[w] = "pull"
  /\ \/ pull_front /\ Pulled(w)
     \/ pull_front_sleep(w) /\ Goto(w, "wait") /\ UNCHANGED <<dse, files>>
  /\ UNCHANGED <<master_vars, todo, pending, err, shared_vars, history_vars>>

Wake(w) ==
  /\ pc[w] = "wait"
  /\ \/ pull_front_wake(w) /\ Pulled(w)
     \/ pull_front_resleep(w) /\ UNCHANGED <<pc, dse, files>>
  /\ UNCHANGED <<master_vars, todo, pending, err, shared_vars, history_vars>>

\* The worker is through with its directory (and goes on to pull the next one).
Finish(w) ==
  /\ scanned' = scanned \cup {dse[w]}
  /\ dse' = [dse EXCEPT ![w] = NoItem]
  /\ Goto(w, "pull")

Warning(kind, item) == [kind |-> kind, item |-> item]

\* A directory that cannot be opened is skipped, and errno keeps the error.
OpenDirFails(w) ==
  /\ pc[w] = "open"
  /\ OpenFails(dse[w].node)
  /\ err' = [err EXCEPT ![w] = TRUE]
  /\ warned' = warned \cup {Warning("open", dse[w])}
  /\ Finish(w)
  /\ UNCHANGED <<sync_queue_vars, master_vars, todo, files, pending, visited, out, accepted>>

OpenDir(w) ==
  /\ pc[w] = "open"
  /\ ~OpenFails(dse[w].node)
  /\ Goto(w, "read")
  /\ todo' = [todo EXCEPT ![w] = Entries[dse[w].node]]
  /\ UNCHANGED <<sync_queue_vars, master_vars, dse, files, pending, err, shared_vars, history_vars>>

\* Mutant: a visited directory is reported, and queued all the same.
ProcessDirent_descends_again(w, e, kind) ==
  LET id == UniqueFileIdentifier(dse[w], e)
      child == Child(dse[w], e)
      loop == Follow /\ id \in visited
  IN  /\ pc[w] = "read"
      /\ e \in todo[w]
      /\ kind \in Kinds(e)
      /\ todo' = [todo EXCEPT ![w] = @ \ {e}]
      /\ err' = [err EXCEPT ![w] = @ \/ StatFails(e)]
      /\ files' = IF IsScannedFile(e, kind)
                  THEN [files EXCEPT ![w] = @ \cup {FilePath(dse[w], e)}]
                  ELSE files
      /\ IF IsDescended(e, kind)
         THEN /\ visited' = IF Follow THEN visited \cup {id} ELSE visited
              /\ warned' = IF loop THEN warned \cup {Warning("loop", child)} ELSE warned
              /\ Goto(w, "push")
              /\ pending' = [pending EXCEPT ![w] = child]
         ELSE UNCHANGED <<visited, warned, pc, pending>>
      /\ UNCHANGED <<sync_queue_vars, master_vars, dse, out, history_vars>>

\* readdir() returned e: ProcessDirent up to the push.  HasDirBeenVisited tests and inserts in
\* one critical section of m_dir_mutex; everything else here is local to the worker.
ProcessDirent(w, e, kind) ==
  LET id == UniqueFileIdentifier(dse[w], e)
      child == Child(dse[w], e)
      loop == Follow /\ id \in visited
  IN  /\ pc[w] = "read"
      /\ e \in todo[w]
      /\ kind \in Kinds(e)
      /\ todo' = [todo EXCEPT ![w] = @ \ {e}]
      /\ err' = [err EXCEPT ![w] = @ \/ StatFails(e)]
      /\ files' = IF IsScannedFile(e, kind)
                  THEN [files EXCEPT ![w] = @ \cup {FilePath(dse[w], e)}]
                  ELSE files
      /\ IF IsDescended(e, kind)
         THEN /\ visited' = IF Follow THEN visited \cup {id} ELSE visited
              /\ warned' = IF loop THEN warned \cup {Warning("loop", child)} ELSE warned
              /\ IF loop
                 THEN UNCHANGED <<pc, pending>>
                 ELSE Goto(w, "push") /\ pending' = [pending EXCEPT ![w] = child]
         ELSE UNCHANGED <<visited, warned, pc, pending>>
      /\ UNCHANGED <<sync_queue_vars, master_vars, dse, out, history_vars>>

\* m_dir_queue.push_back(dir_atfd): its result is ignored, so a refused directory is lost.
PushDir(w) ==
  /\ pc[w] = "push"
  /\ push_back(pending[w])
  /\ accepted' = IF closed THEN accepted ELSE accepted \cup {pending[w]}
  /\ pending' = [pending EXCEPT ![w] = NoItem]
  /\ Goto(w, IF closed THEN "read" ELSE "notify_one")
  /\ UNCHANGED <<master_vars, dse, todo, files, err, shared_vars, scanned>>

NotifyOne(w) ==
  /\ pc[w] = "notify_one"
  /\ notify_one
  /\ Goto(w, "read")
  /\ UNCHANGED <<master_vars, dse, todo, files, pending, err, shared_vars, history_vars>>

\* Mutant: after a readdir error the files already found are not pushed.
ReaddirEnd_drops_files(w, failed) ==
  /\ pc[w] = "read"
  /\ IF failed THEN dse[w].node \in Flaky ELSE todo[w] = {}
  /\ err' = [err EXCEPT ![w] = FALSE]
  /\ warned' = IF err[w] \/ failed THEN warned \cup {Warning("read", dse[w])} ELSE warned
  /\ out' = IF err[w] \/ failed THEN out ELSE out (+) SetToBag(files[w])
  /\ todo' = [todo EXCEPT ![w] = {}]
  /\ files' = [files EXCEPT ![w] = {}]
  /\ Finish(w)
  /\ UNCHANGED <<sync_queue_vars, master_vars, pending, visited, accepted>>

\* readdir() returned NULL, at the end or because it failed.  Whatever errno holds by now is
\* taken for a readdir error; the files found are pushed all the same, and the DIR is closed.
ReaddirEnd(w, failed) ==
  /\ pc[w] = "read"
  /\ IF failed THEN dse[w].node \in Flaky ELSE todo[w] = {}
  /\ err' = [err EXCEPT ![w] = FALSE]
  /\ warned' = IF err[w] \/ failed THEN warned \cup {Warning("read", dse[w])} ELSE warned
  /\ out' = out (+) SetToBag(files[w])
  /\ todo' = [todo EXCEPT ![w] = {}]
  /\ files' = [files EXCEPT ![w] = {}]
  /\ Finish(w)
  /\ UNCHANGED <<sync_queue_vars, master_vars, pending, visited, accepted>>

-----------------------------------------------------------------------------

MasterStep ==
  \/ StartPathStep \/ StartPathsDone
  \/ \E w \in Workers : Spawn(w)
  \/ WaitCall \/ WaitWake \/ Close \/ NotifyClosed \/ Join

EntryKinds == {"dir", "reg", "lnk", "unknown", "other"}

WorkerStep(w) ==
  \/ Pull(w) \/ Wake(w)
  \/ OpenDirFails(w) \/ OpenDir(w)
  \/ \E e \in todo[w], kind \in EntryKinds : ProcessDirent(w, e, kind)
  \/ PushDir(w) \/ NotifyOne(w)
  \/ \E failed \in BOOLEAN : ReaddirEnd(w, failed)

Spurious ==
  /\ \E t \in Workers \cup {Master} : spurious_wakeup(t)
  /\ UNCHANGED <<master_vars, worker_vars, shared_vars, history_vars>>

Terminated == master = "done" /\ UNCHANGED vars

Next == MasterStep \/ (\E w \in Workers : WorkerStep(w)) \/ Spurious \/ Terminated

\* Each thread that can run is eventually run.
Fairness == WF_vars(MasterStep) /\ \A w \in Workers : WF_vars(WorkerStep(w))

Spec == Init /\ [][Next]_vars /\ Fairness
-----------------------------------------------------------------------------
(* Properties                                                               *)

\* Whether worker w has its directory open.
Reading(w) == pc[w] \in {"read", "push", "notify_one"}

TypeOK ==
  /\ queue \in Seq(ItemType)
  /\ closed \in BOOLEAN
  /\ num_waiting \in 0..Cardinality(Workers)
  /\ level \in {InitialLevel, Cardinality(Workers)}
  /\ cv \subseteq Workers
  /\ cv_complete \subseteq {Master}
  /\ master \in {"start_paths", "spawn", "wait_call", "wait", "close", "notify", "join", "done"}
  /\ next_path \in 1..(Len(StartNodes) + 1)
  /\ pc \in [Workers -> {"unborn", "pull", "wait", "open", "read", "push", "notify_one", "done"}]
  /\ dse \in [Workers -> ItemType]
  /\ pending \in [Workers -> ItemType]
  /\ todo \in [Workers -> SUBSET UNION {Entries[n] : n \in DOMAIN Entries}]
  /\ files \in [Workers -> SUBSET (Nat \X Seq(STRING))]
  /\ \A w \in Workers :
       Reading(w) => dse[w].node \in DOMAIN Entries /\ todo[w] \subseteq Entries[dse[w].node]
  /\ err \in [Workers -> BOOLEAN]
  /\ IsABag(out)

\* wait_for_worker_completion() returns only when the traversal is complete (DirTree.cpp:131-133):
\* from then on the queue is empty and no worker is inside a directory, so closing the queue
\* loses no directory and no push can be refused.
NothingLeftAtClose ==
  master \in {"close", "notify", "join", "done"} =>
    queue = <<>> /\ \A w \in Workers : pc[w] \in {"wait", "done"}

\* The master never sleeps through the state it waits for: m_cv_complete is notified only when
\* the count of waiting workers reaches the level, and that is enough.
MasterNotStranded == Master \in cv_complete => ~Completed(level)

\* Pushes notify after unlocking.  Still, whenever a directory is queued, a worker that is awake
\* will come back for it, or a notification is about to be sent, or no worker exists yet.
NoIdleQueue ==
  queue # <<>> =>
    \E w \in Workers : pc[w] # "done" /\ w \notin cv

\* What makes the three properties above inductive: the count of waiting workers is exact, the
\* sleepers are among them, and the master's place says what the queue's flags are.
Waiting == {w \in Workers : pc[w] = "wait"}

QueueInv ==
  /\ num_waiting = Cardinality(Waiting)
  /\ cv \subseteq Waiting
  /\ closed <=> master \in {"notify", "join", "done"}
  /\ \A w \in Workers : pc[w] = "done" => closed

MasterInv ==
  /\ Master \in cv_complete => master = "wait"
  /\ master \notin {"start_paths", "spawn", "wait_call"} => level = Cardinality(Workers)
  /\ master = "start_paths" => \A w \in Workers : pc[w] = "unborn"
  /\ master \notin {"start_paths", "spawn"} => \A w \in Workers : pc[w] # "unborn"

\* The inductive invariant of the traversal: types, exact counting, the place of the master, and
\* the three properties.
IInv ==
  /\ TypeOK /\ QueueInv /\ MasterInv
  /\ NothingLeftAtClose /\ MasterNotStranded /\ NoIdleQueue

\* The directories found so far: put on the queue, or about to be.
Found == accepted \cup {pending[w] : w \in {u \in Workers : pc[u] = "push"}}

\* A directory is rejected as "already visited this directory" (DirTree.cpp:343) only if that very
\* directory has been found before, under another name.
LoopWarningsAreReal ==
  \A x \in warned :
    x.kind = "loop" =>
      \E item \in Found :
        item.node = x.item.node /\ item # x.item

\* "Could not read directory" is written only for a directory whose readdir() failed: the test of
\* errno is there to "Check if readdir is just done with this directory, or encountered an
\* error" (DirTree.cpp:184).
ReadWarningsAreReal == \A x \in warned : x.kind = "read" => x.item.node \in Flaky

\* The traversal of module Traversal.
TraversalImpl == INSTANCE Traversal WITH
  reached  <- Found,
  seen     <- visited,
  started  <- 1..(next_path - 1),
  returned <- master \in {"close", "notify", "join", "done"}

\* Every step of the threads is a step of that traversal or none, and it reaches its end.
ImplementsTraversal == TraversalImpl!Spec

\* Scandir() returns, whatever links the tree contains.
Termination == <>(master = "done")
=============================================================================
