--------------------------- MODULE DirTree_proofs ---------------------------
(***************************************************************************)
(* Proofs about the directory traversal for any number of workers and any  *)
(* file system.                                                            *)
(***************************************************************************)
EXTENDS DirTree, FiniteSetTheorems, SequenceTheorems, TLAPS

-----------------------------------------------------------------------------
(* Counting the waiting workers.                                            *)

\* The workers are finitely many, and so are those that wait.
LEMMA WaitingFinite ==
  ASSUME NEW W \in SUBSET Workers
  PROVE  /\ IsFiniteSet(W)
         /\ Cardinality(W) \in 0..Cardinality(Workers)
         /\ Cardinality(W) = Cardinality(Workers) => W = Workers
         /\ Cardinality(Workers) \in Nat \ {0}
<1>1. IsFiniteSet(Workers) /\ Workers # {}
  BY WorkersAssumption
<1>2. IsFiniteSet(W) /\ Cardinality(W) <= Cardinality(Workers)
                     /\ (Cardinality(Workers) = Cardinality(W) => Workers = W)
  BY <1>1, FS_Subset
<1>3. Cardinality(W) \in Nat /\ Cardinality(Workers) \in Nat
  BY <1>1, <1>2, FS_CardinalityType
<1>4. Cardinality(Workers) # 0
  BY <1>1, FS_EmptySet
<1> QED
  BY <1>2, <1>3, <1>4

\* A worker that starts to wait, and one that stops, change the count by one.
LEMMA WaitingCount ==
  ASSUME NEW W \in SUBSET Workers, NEW w \in Workers
  PROVE  /\ w \notin W => Cardinality(W \cup {w}) = Cardinality(W) + 1
         /\ w \in W => Cardinality(W \ {w}) = Cardinality(W) - 1
<1>1. IsFiniteSet(W)
  BY WaitingFinite
<1> QED
  BY <1>1, FS_AddElement, FS_RemoveElement

-----------------------------------------------------------------------------
(* Items                                                                    *)

\* The items made for start paths and for directory entries are items.
LEMMA NoItemType == NoItem \in ItemType
  BY DEF NoItem, Item, ItemType

LEMMA StartItemType ==
  ASSUME NEW i \in Nat, NEW node \in Node
  PROVE  StartItem(i, node) \in ItemType
  BY FileTreeAssumption DEF StartItem, Item, ItemType

LEMMA ChildType ==
  ASSUME NEW item \in ItemType, item.node \in DOMAIN Entries, NEW e \in Entries[item.node]
  PROVE  Child(item, e) \in ItemType
<1>1. e.name \in STRING /\ e.node \in Node \cup {Missing} /\ (e.node = Missing => e.d_ino # 0)
  BY FileTreeAssumption
<1>2. (IF e.d_ino = 0 THEN NodeDev[e.node] ELSE item.dev) \in Nat
  BY <1>1, FileTreeAssumption DEF ItemType
<1>3. Append(item.path, e.name) \in Seq(STRING)
  BY <1>1 DEF ItemType
<1> QED
  BY <1>1, <1>2, <1>3 DEF Child, Item, ItemType
-----------------------------------------------------------------------------
LEMMA InitIInv == Init => IInv
<1> SUFFICES ASSUME Init PROVE IInv
  OBVIOUS
<1>1. Waiting = {} /\ Cardinality(Waiting) = 0
  BY FS_EmptySet DEF Init, Waiting
<1>2. TypeOK
  <2>1. IsABag(out)
    BY DEF Init, EmptyBag, IsABag, SetToBag
  <2>2. 0 \in 0..Cardinality(Workers) /\ 1 \in 1..(Len(StartNodes) + 1)
    <3>1. Cardinality(Workers) \in Nat
      BY WaitingFinite
    <3>2. Len(StartNodes) \in Nat
      BY WorkersAssumption
    <3> QED
      BY <3>1, <3>2
  <2>3. queue \in Seq(ItemType)
    BY DEF Init, SyncQueueInit
  <2>4. \A w \in Workers : ~Reading(w)
    BY DEF Init, Reading
  <2> QED
    BY <2>1, <2>2, <2>3, <2>4, NoItemType DEF Init, SyncQueueInit, TypeOK
<1> QED
  BY <1>1, <1>2, WorkersAssumption
     DEF Init, SyncQueueInit, IInv, QueueInv, MasterInv, NothingLeftAtClose, MasterNotStranded,
         NoIdleQueue
-----------------------------------------------------------------------------
(* What a change of one program counter does to the set of waiting workers. *)

LEMMA GotoPc ==
  ASSUME TypeOK, NEW w \in Workers, NEW label, Goto(w, label)
  PROVE  /\ \A u \in Workers : pc'[u] = IF u = w THEN label ELSE pc[u]
         /\ (label = "wait") => Waiting' = Waiting \cup {w}
         /\ (label # "wait") => Waiting' = Waiting \ {w}
  BY DEF TypeOK, Goto, Waiting

\* Between two places outside m_cv.wait the set of waiting workers stays the same.
LEMMA GotoElsewhere ==
  ASSUME TypeOK, NEW w \in Workers, pc[w] # "wait", NEW label, label # "wait", Goto(w, label)
  PROVE  Waiting' = Waiting
<1>1. Waiting' = Waiting \ {w}
  BY GotoPc
<1> QED
  BY <1>1 DEF Waiting

-----------------------------------------------------------------------------
(* The count of waiting workers stays exact, and the sleepers among them.   *)

LEMMA QueueInvStep ==
  ASSUME IInv, [Next]_vars
  PROVE  QueueInv'
<1> USE DEF IInv
<1>0. Waiting \in SUBSET Workers
  BY DEF Waiting
<1>1. CASE UNCHANGED vars
  BY <1>1 DEF vars, sync_queue_vars, master_vars, worker_vars, QueueInv, Waiting
<1>2. CASE StartPathStep
  <2>1. UNCHANGED <<closed, num_waiting, cv, master, pc>>
    BY <1>2 DEF StartPathStep, push_back, push_back_all, sync_queue_vars, worker_vars
  <2> QED
    BY <2>1 DEF QueueInv, Waiting
<1>3. CASE StartPathsDone \/ WaitCall \/ WaitWake
  <2>1. UNCHANGED <<closed, num_waiting, cv, pc>>
    BY <1>3 DEF StartPathsDone, WaitCall, WaitWake, wait_for_worker_completion, completion_wake,
                completion_resleep, sync_queue_vars, worker_vars
  <2>2. master \notin {"notify", "join", "done"} /\ master' \notin {"notify", "join", "done"}
    BY <1>3 DEF StartPathsDone, WaitCall, WaitWake
  <2> QED
    BY <2>1, <2>2 DEF QueueInv, Waiting
<1>4. ASSUME NEW w \in Workers, Spawn(w) PROVE QueueInv'
  <2>1. UNCHANGED <<closed, num_waiting, cv>> /\ Goto(w, "pull") /\ pc[w] = "unborn"
    BY <1>4 DEF Spawn, sync_queue_vars
  <2>2. master = "spawn" /\ master' \notin {"notify", "join", "done"}
    BY <1>4 DEF Spawn
  <2>3. Waiting' = Waiting /\ \A u \in Workers : pc'[u] = IF u = w THEN "pull" ELSE pc[u]
    BY <2>1, GotoPc, GotoElsewhere
  <2> QED
    BY <2>1, <2>2, <2>3 DEF QueueInv
<1>5. CASE Close \/ NotifyClosed \/ Join
  <2>1. UNCHANGED <<num_waiting, pc>> /\ cv' \subseteq cv
    BY <1>5 DEF Close, close, NotifyClosed, notify_all, Join, sync_queue_vars, worker_vars
  <2>2. closed' /\ master' \in {"notify", "join", "done"}
    BY <1>5 DEF Close, close, NotifyClosed, notify_all, Join, sync_queue_vars, QueueInv
  <2> QED
    BY <2>1, <2>2 DEF QueueInv, Waiting
<1>6. ASSUME NEW w \in Workers, Pull(w) PROVE QueueInv'
  <2>0. pc[w] = "pull" /\ UNCHANGED <<master, closed>>
    BY <1>6 DEF Pull, pull_front, pull_front_sleep, master_vars
  <2>1. CASE pull_front /\ Pulled(w)
    <3>1. UNCHANGED <<num_waiting, cv>>
      BY <2>1 DEF pull_front
    <3>2. PICK label \in {"done", "open"} : Goto(w, label) /\ (label = "done" => closed)
      BY <2>1 DEF pull_front, Pullable, Pulled
    <3>3. Waiting' = Waiting /\ \A u \in Workers : pc'[u] = IF u = w THEN label ELSE pc[u]
      BY <2>0, <3>2, GotoPc, GotoElsewhere
    <3> QED
      BY <2>0, <3>1, <3>2, <3>3 DEF QueueInv
  <2>2. CASE pull_front_sleep(w) /\ Goto(w, "wait")
    <3>1. num_waiting' = num_waiting + 1 /\ cv' = cv \cup {w}
      BY <2>2 DEF pull_front_sleep
    <3>2. /\ Waiting' = Waiting \cup {w}
          /\ \A u \in Workers : pc'[u] = IF u = w THEN "wait" ELSE pc[u]
      BY <2>2, GotoPc
    <3>3. Cardinality(Waiting') = Cardinality(Waiting) + 1
      BY <1>0, <2>0, <3>2, WaitingCount DEF Waiting
    <3> QED
      BY <2>0, <3>1, <3>2, <3>3 DEF QueueInv
  <2> QED
    BY <1>6, <2>1, <2>2 DEF Pull
<1>7. ASSUME NEW w \in Workers, Wake(w) PROVE QueueInv'
  <2>0. pc[w] = "wait" /\ UNCHANGED <<master, closed>> /\ w \notin cv
    BY <1>7 DEF Wake, pull_front_wake, pull_front_resleep, master_vars
  <2>1. CASE pull_front_wake(w) /\ Pulled(w)
    <3>1. num_waiting' = num_waiting - 1 /\ UNCHANGED cv
      BY <2>1 DEF pull_front_wake
    <3>2. PICK label \in {"done", "open"} : Goto(w, label) /\ (label = "done" => closed)
      BY <2>1 DEF pull_front_wake, Pullable, Pulled
    <3>3. /\ Waiting' = Waiting \ {w}
          /\ \A u \in Workers : pc'[u] = IF u = w THEN label ELSE pc[u]
      BY <3>2, GotoPc
    <3>4. Cardinality(Waiting') = Cardinality(Waiting) - 1
      BY <1>0, <2>0, <3>3, WaitingCount DEF Waiting
    <3> QED
      BY <2>0, <3>1, <3>2, <3>3, <3>4 DEF QueueInv
  <2>2. CASE pull_front_resleep(w) /\ UNCHANGED <<pc, dse, files>>
    BY <2>0, <2>2 DEF pull_front_resleep, QueueInv, Waiting
  <2> QED
    BY <1>7, <2>1, <2>2 DEF Wake
<1>8. ASSUME NEW w \in Workers,
             OpenDirFails(w) \/ OpenDir(w) \/ PushDir(w) \/ NotifyOne(w)
               \/ (\E e \in todo[w], kind \in EntryKinds : ProcessDirent(w, e, kind))
               \/ (\E failed \in BOOLEAN : ReaddirEnd(w, failed))
      PROVE QueueInv'
  <2>1. UNCHANGED <<master, closed, num_waiting>> /\ cv' \subseteq cv
    BY <1>8 DEF OpenDirFails, OpenDir, PushDir, NotifyOne, ProcessDirent, ReaddirEnd, push_back,
                push_back_all, notify_one, sync_queue_vars, master_vars
  <2>2. /\ pc[w] \in {"open", "read", "push", "notify_one"}
        /\ UNCHANGED pc \/ \E label \in {"pull", "read", "push", "notify_one"} : Goto(w, label)
    BY <1>8 DEF OpenDirFails, OpenDir, PushDir, NotifyOne, ProcessDirent, ReaddirEnd, Finish
  <2>3. Waiting' = Waiting
    <3>1. CASE UNCHANGED pc
      BY <3>1 DEF Waiting
    <3>2. ASSUME NEW label \in {"pull", "read", "push", "notify_one"}, Goto(w, label)
          PROVE  Waiting' = Waiting
      BY <2>2, <3>2, GotoElsewhere
    <3> QED
      BY <2>2, <3>1, <3>2
  <2>4. \A u \in Workers : pc'[u] = "done" => pc[u] = "done"
    BY <2>2, GotoPc
  <2> QED
    BY <2>1, <2>3, <2>4 DEF QueueInv
<1>9. CASE Spurious
  <2>1. UNCHANGED <<master, closed, num_waiting, pc>> /\ cv' \subseteq cv
    BY <1>9 DEF Spurious, spurious_wakeup, master_vars, worker_vars
  <2> QED
    BY <2>1 DEF QueueInv, Waiting
<1>10. CASE Terminated
  BY <1>1, <1>10 DEF Terminated
<1> QED
  BY <1>1, <1>2, <1>3, <1>4, <1>5, <1>6, <1>7, <1>8, <1>9, <1>10
     DEF Next, MasterStep, WorkerStep
-----------------------------------------------------------------------------
(* The master's place.                                                      *)

LEMMA MasterInvStep ==
  ASSUME IInv, [Next]_vars
  PROVE  MasterInv'
<1> USE DEF IInv
<1>1. CASE UNCHANGED vars
  BY <1>1 DEF vars, sync_queue_vars, master_vars, worker_vars, MasterInv
<1>2. CASE StartPathStep
  <2>1. UNCHANGED <<cv_complete, level, master, pc>>
    BY <1>2 DEF StartPathStep, push_back, push_back_all, sync_queue_vars, worker_vars
  <2> QED
    BY <2>1 DEF MasterInv
<1>3. CASE StartPathsDone
  BY <1>3 DEF StartPathsDone, sync_queue_vars, worker_vars, MasterInv
<1>4. ASSUME NEW w \in Workers, Spawn(w) PROVE MasterInv'
  <2>1. master = "spawn" /\ UNCHANGED <<cv_complete, level>> /\ Goto(w, "pull")
    BY <1>4 DEF Spawn, sync_queue_vars
  <2>2. \A u \in Workers : pc'[u] = IF u = w THEN "pull" ELSE pc[u]
    BY <2>1, GotoPc
  <2>3. \/ master' = "spawn"
        \/ master' = "wait_call" /\ \A u \in Workers \ {w} : pc[u] # "unborn"
    BY <1>4 DEF Spawn
  <2> QED
    BY <2>1, <2>2, <2>3 DEF MasterInv
<1>5. CASE WaitCall
  <2>1. /\ master = "wait_call" /\ UNCHANGED pc
        /\ wait_for_worker_completion(Master, Cardinality(Workers))
        /\ master' = IF Completed(level') THEN "close" ELSE "wait"
    BY <1>5 DEF WaitCall, worker_vars
  <2>2. Cardinality(Workers) > 0
    BY WaitingFinite
  <2>3. level' = Cardinality(Workers)
    BY <2>1, <2>2 DEF wait_for_worker_completion
  <2>4. Master \in cv_complete' => ~Completed(level')
    BY <2>1, <2>2, <2>3 DEF wait_for_worker_completion
  <2> QED
    BY <2>1, <2>3, <2>4 DEF MasterInv
<1>6. CASE WaitWake
  BY <1>6 DEF WaitWake, completion_wake, completion_resleep, sync_queue_vars, worker_vars, MasterInv
<1>7. CASE Close \/ NotifyClosed \/ Join
  BY <1>7 DEF Close, close, NotifyClosed, notify_all, Join, sync_queue_vars, worker_vars, MasterInv
<1>8. ASSUME NEW w \in Workers, WorkerStep(w) PROVE MasterInv'
  <2>1. UNCHANGED <<master, level>> /\ cv_complete' \subseteq cv_complete
    BY <1>8 DEF WorkerStep, Pull, Wake, pull_front, pull_front_sleep, pull_front_wake,
                pull_front_resleep, SignalCompletion, OpenDirFails, OpenDir, PushDir, NotifyOne,
                ProcessDirent, ReaddirEnd, push_back, push_back_all, notify_one, sync_queue_vars,
                master_vars
  <2>2. /\ pc[w] # "unborn"
        /\ \/ UNCHANGED pc
           \/ \E label \in {"pull", "wait", "open", "read", "push", "notify_one", "done"} :
                Goto(w, label)
    BY <1>8 DEF WorkerStep, Pull, Wake, Pulled, OpenDirFails, OpenDir, PushDir, NotifyOne,
                ProcessDirent, ReaddirEnd, Finish
  <2>3. \A u \in Workers : (pc'[u] = "unborn") <=> (pc[u] = "unborn")
    BY <2>2, GotoPc
  <2>4. pc[w] # "unborn" => master # "start_paths"
    BY DEF MasterInv
  <2> QED
    BY <2>1, <2>2, <2>3, <2>4 DEF MasterInv
<1>9. CASE Spurious
  BY <1>9 DEF Spurious, spurious_wakeup, master_vars, worker_vars, MasterInv
<1>10. CASE Terminated
  BY <1>1, <1>10 DEF Terminated
<1> QED
  BY <1>1, <1>2, <1>3, <1>4, <1>5, <1>6, <1>7, <1>8, <1>9, <1>10 DEF Next, MasterStep

-----------------------------------------------------------------------------
(* Termination detection.                                                   *)

\* When the master's predicate holds before the close, every worker waits and nothing is queued.
LEMMA CompletedMeansAllWait ==
  ASSUME IInv, ~closed, Completed(Cardinality(Workers))
  PROVE  queue = <<>> /\ \A w \in Workers : pc[w] = "wait"
<1>1. queue = <<>> /\ Cardinality(Waiting) = Cardinality(Workers)
  BY DEF IInv, QueueInv, Completed
<1>2. Waiting = Workers
  <2>1. Waiting \in SUBSET Workers
    BY DEF Waiting
  <2> QED
    BY <1>1, <2>1, WaitingFinite
<1> QED
  BY <1>1, <1>2 DEF Waiting

LEMMA NothingLeftStep ==
  ASSUME IInv, [Next]_vars
  PROVE  NothingLeftAtClose'
<1> DEFINE Over == {"close", "notify", "join", "done"}
<1> USE DEF IInv
<1>1. CASE UNCHANGED vars
  BY <1>1 DEF vars, sync_queue_vars, master_vars, worker_vars, NothingLeftAtClose
<1>2. CASE StartPathStep \/ StartPathsDone
  <2>1. master' \notin Over
    BY <1>2 DEF StartPathStep, StartPathsDone
  <2> QED
    BY <2>1 DEF NothingLeftAtClose
<1>3. ASSUME NEW w \in Workers, Spawn(w) PROVE NothingLeftAtClose'
  <2>1. master' \notin Over
    BY <1>3 DEF Spawn
  <2> QED
    BY <2>1 DEF NothingLeftAtClose
<1>4. CASE WaitCall \/ WaitWake
  <2>1. UNCHANGED <<queue, pc, closed, num_waiting>> /\ ~closed
    BY <1>4 DEF WaitCall, WaitWake, wait_for_worker_completion, completion_wake,
                completion_resleep, sync_queue_vars, worker_vars, QueueInv
  <2>2. level' = Cardinality(Workers)
    BY <1>4, MasterInvStep DEF WaitCall, WaitWake, MasterInv
  <2>3. master' \in Over => Completed(Cardinality(Workers))
    <3>1. CASE WaitCall
      BY <2>1, <2>2, <3>1 DEF WaitCall, Completed
    <3>2. CASE WaitWake
      <4>1. level = Cardinality(Workers)
        BY <3>2 DEF WaitWake, MasterInv
      <4> QED
        BY <3>2, <4>1 DEF WaitWake, completion_wake
    <3> QED
      BY <1>4, <3>1, <3>2
  <2> QED
    BY <2>1, <2>3, CompletedMeansAllWait DEF NothingLeftAtClose
<1>5. CASE Close \/ NotifyClosed \/ Join
  BY <1>5 DEF Close, close, NotifyClosed, notify_all, Join, sync_queue_vars, worker_vars,
              NothingLeftAtClose
<1>6. ASSUME NEW w \in Workers, WorkerStep(w) PROVE NothingLeftAtClose'
  <2> SUFFICES ASSUME master' \in Over
               PROVE  queue' = <<>> /\ \A u \in Workers : pc'[u] \in {"wait", "done"}
    BY DEF NothingLeftAtClose
  <2>1. UNCHANGED master
    BY <1>6 DEF WorkerStep, Pull, Wake, OpenDirFails, OpenDir, PushDir, NotifyOne,
                ProcessDirent, ReaddirEnd, master_vars
  <2>2. queue = <<>> /\ \A u \in Workers : pc[u] \in {"wait", "done"}
    BY <2>1 DEF NothingLeftAtClose
  <2>3. Wake(w)
    BY <1>6, <2>2 DEF WorkerStep, Pull, OpenDirFails, OpenDir, PushDir, NotifyOne,
                      ProcessDirent, ReaddirEnd
  <2>4. queue' = <<>> /\ (UNCHANGED pc \/ Goto(w, "done"))
    BY <2>2, <2>3 DEF Wake, pull_front_wake, pull_front_resleep, TakeFront, Pulled
  <2> QED
    BY <2>2, <2>4, GotoPc
<1>7. CASE Spurious
  BY <1>7 DEF Spurious, spurious_wakeup, master_vars, worker_vars, NothingLeftAtClose
<1>8. CASE Terminated
  BY <1>1, <1>8 DEF Terminated
<1> QED
  BY <1>1, <1>2, <1>3, <1>4, <1>5, <1>6, <1>7, <1>8 DEF Next, MasterStep
-----------------------------------------------------------------------------
(* The master is woken.                                                     *)

LEMMA MasterNotStrandedStep ==
  ASSUME IInv, [Next]_vars
  PROVE  MasterNotStranded'
<1> USE DEF IInv
<1>1. CASE UNCHANGED vars
  BY <1>1 DEF vars, sync_queue_vars, MasterNotStranded, Completed
<1>2. CASE StartPathStep \/ StartPathsDone \/ WaitCall \/ WaitWake
  <2>1. CASE StartPathStep \/ StartPathsDone
    <3>1. UNCHANGED cv_complete /\ master # "wait"
      BY <2>1 DEF StartPathStep, StartPathsDone, push_back, push_back_all, sync_queue_vars
    <3> QED
      BY <3>1 DEF MasterInv, MasterNotStranded
  <2>2. CASE WaitCall
    <3> DEFINE l == IF Cardinality(Workers) > 0 THEN Cardinality(Workers) ELSE level
    <3>1. /\ level' = l
          /\ cv_complete' = IF Completed(l) THEN {} ELSE {Master}
          /\ UNCHANGED <<queue, closed, num_waiting>>
      BY <2>2 DEF WaitCall, wait_for_worker_completion
    <3> QED
      BY <3>1 DEF MasterNotStranded, Completed
  <2>3. CASE WaitWake
    BY <2>3 DEF WaitWake, completion_wake, completion_resleep, sync_queue_vars,
                MasterNotStranded, Completed
  <2> QED
    BY <1>2, <2>1, <2>2, <2>3
<1>3. ASSUME NEW w \in Workers, Spawn(w) PROVE MasterNotStranded'
  BY <1>3 DEF Spawn, sync_queue_vars, MasterNotStranded, Completed
<1>4. CASE Close \/ NotifyClosed \/ Join
  <2>1. UNCHANGED cv_complete /\ master # "wait"
    BY <1>4 DEF Close, close, NotifyClosed, notify_all, Join, sync_queue_vars
  <2> QED
    BY <2>1 DEF MasterInv, MasterNotStranded
<1>5. ASSUME NEW w \in Workers, WorkerStep(w) PROVE MasterNotStranded'
  <2>0. num_waiting \in Nat
    BY WaitingFinite DEF TypeOK
  <2>1. CASE Pull(w)
    <3>1. CASE pull_front
      \* The queue was not empty, or it was closed; the count is N at most for an instant.
      <4>1. UNCHANGED <<num_waiting, level, closed>> /\ SignalCompletion /\ TakeFront /\ Pullable
        BY <3>1 DEF pull_front
      <4>2. Master \in cv_complete' => Master \in cv_complete /\ ~closed
        BY <4>1 DEF SignalCompletion, MasterNotStranded, Completed
      <4>3. Master \in cv_complete => level = Cardinality(Workers)
        BY DEF MasterInv
      <4>4. num_waiting # Cardinality(Workers)
        <5>1. Waiting \in SUBSET Workers /\ w \notin Waiting
          BY <2>1 DEF Waiting, Pull
        <5> QED
          BY <5>1, WaitingFinite DEF QueueInv
      <4> QED
        BY <4>1, <4>2, <4>3, <4>4 DEF MasterNotStranded, Completed
    <3>2. CASE pull_front_sleep(w)
      BY <2>0, <3>2 DEF pull_front_sleep, SignalCompletion, Pullable, MasterNotStranded, Completed
    <3> QED
      BY <2>1, <3>1, <3>2 DEF Pull
  <2>2. CASE Wake(w)
    <3>1. CASE pull_front_wake(w)
      <4>1. UNCHANGED <<cv_complete, level, closed>> /\ num_waiting' = num_waiting - 1
        BY <3>1 DEF pull_front_wake
      <4>2. Waiting \in SUBSET Workers
        BY DEF Waiting
      <4>3. num_waiting' # Cardinality(Workers)
        BY <2>0, <4>1, <4>2, WaitingFinite DEF QueueInv
      <4>4. Master \in cv_complete => level = Cardinality(Workers) /\ ~closed
        BY DEF MasterInv, MasterNotStranded, Completed
      <4> QED
        BY <4>1, <4>3, <4>4 DEF MasterNotStranded, Completed
    <3>2. CASE pull_front_resleep(w)
      BY <3>2 DEF pull_front_resleep, MasterNotStranded, Completed
    <3> QED
      BY <2>2, <3>1, <3>2 DEF Wake
  <2>3. CASE PushDir(w)
    <3>1. /\ UNCHANGED <<closed, num_waiting, level, cv_complete>>
          /\ queue' = IF closed THEN queue ELSE queue \o <<pending[w]>>
      BY <2>3 DEF PushDir, push_back, push_back_all
    <3>2. ~closed => queue' # <<>>
      BY <3>1 DEF TypeOK
    <3> QED
      BY <3>1, <3>2 DEF MasterNotStranded, Completed
  <2>4. CASE NotifyOne(w)
    BY <2>4 DEF NotifyOne, notify_one, MasterNotStranded, Completed
  <2>5. CASE \/ OpenDirFails(w) \/ OpenDir(w)
             \/ \E e \in todo[w], kind \in EntryKinds : ProcessDirent(w, e, kind)
             \/ \E failed \in BOOLEAN : ReaddirEnd(w, failed)
    <3>1. UNCHANGED sync_queue_vars
      BY <2>5 DEF OpenDirFails, OpenDir, ProcessDirent, ReaddirEnd
    <3> QED
      BY <3>1 DEF sync_queue_vars, MasterNotStranded, Completed
  <2> QED
    BY <1>5, <2>1, <2>2, <2>3, <2>4, <2>5 DEF WorkerStep
<1>6. CASE Spurious
  BY <1>6 DEF Spurious, spurious_wakeup, MasterNotStranded, Completed
<1>7. CASE Terminated
  BY <1>1, <1>7 DEF Terminated
<1> QED
  BY <1>1, <1>2, <1>3, <1>4, <1>5, <1>6, <1>7 DEF Next, MasterStep

-----------------------------------------------------------------------------
(* A queued directory has a worker that will come for it.                   *)

LEMMA NoIdleQueueStep ==
  ASSUME IInv, [Next]_vars
  PROVE  NoIdleQueue'
<1> USE DEF IInv
<1>1. CASE UNCHANGED vars
  BY <1>1 DEF vars, sync_queue_vars, worker_vars, NoIdleQueue
<1>2. CASE StartPathStep
  <2>1. PICK w \in Workers : TRUE
    BY WorkersAssumption
  <2>2. UNCHANGED <<cv, pc>> /\ pc[w] = "unborn"
    BY <1>2 DEF StartPathStep, push_back, push_back_all, sync_queue_vars, worker_vars, MasterInv
  <2> QED
    BY <2>2 DEF NoIdleQueue, QueueInv, Waiting
<1>3. CASE StartPathsDone \/ WaitCall \/ WaitWake \/ Close \/ NotifyClosed \/ Join
  <2>1. UNCHANGED <<queue, pc>> /\ cv' \subseteq cv
    BY <1>3 DEF StartPathsDone, WaitCall, WaitWake, Close, close, NotifyClosed, notify_all, Join,
                wait_for_worker_completion, completion_wake, completion_resleep,
                sync_queue_vars, worker_vars
  <2> QED
    BY <2>1 DEF NoIdleQueue
<1>4. ASSUME NEW w \in Workers, Spawn(w) PROVE NoIdleQueue'
  <2>1. UNCHANGED <<queue, cv>> /\ Goto(w, "pull")
    BY <1>4 DEF Spawn, sync_queue_vars
  <2>2. \A u \in Workers : pc'[u] = "done" => pc[u] = "done"
    BY <2>1, GotoPc
  <2> QED
    BY <2>1, <2>2 DEF NoIdleQueue
<1>5. ASSUME NEW w \in Workers, WorkerStep(w) PROVE NoIdleQueue'
  <2> SUFFICES ASSUME queue' # <<>> PROVE pc'[w] # "done" /\ w \notin cv'
    BY DEF NoIdleQueue
  <2>1. CASE Pull(w) \/ Wake(w)
    <3>1. w \notin cv
      BY <2>1 DEF Pull, Wake, pull_front_wake, pull_front_resleep, QueueInv, Waiting
    <3>2. queue # <<>> /\ (pull_front \/ pull_front_wake(w)) /\ Pulled(w)
      BY <2>1 DEF Pull, Wake, pull_front, pull_front_sleep, pull_front_wake, pull_front_resleep,
                  Pullable, TakeFront
    <3>3. UNCHANGED cv /\ Goto(w, "open")
      BY <3>2 DEF pull_front, pull_front_wake, Pulled
    <3> QED
      BY <3>1, <3>3, GotoPc
  <2>2. CASE ~(Pull(w) \/ Wake(w))
    <3>1. /\ pc[w] \in {"open", "read", "push", "notify_one"}
          /\ cv' \subseteq cv
          /\ UNCHANGED pc \/ \E label \in {"pull", "read", "push", "notify_one"} : Goto(w, label)
      BY <1>5, <2>2 DEF WorkerStep, OpenDirFails, OpenDir, PushDir, NotifyOne, ProcessDirent,
                        ReaddirEnd, Finish, push_back, push_back_all, notify_one, sync_queue_vars
    <3>2. w \notin cv
      BY <3>1 DEF QueueInv, Waiting
    <3> QED
      BY <3>1, <3>2, GotoPc
  <2> QED
    BY <2>1, <2>2
<1>6. CASE Spurious
  BY <1>6 DEF Spurious, spurious_wakeup, worker_vars, NoIdleQueue
<1>7. CASE Terminated
  BY <1>1, <1>7 DEF Terminated
<1> QED
  BY <1>1, <1>2, <1>3, <1>4, <1>5, <1>6, <1>7 DEF Next, MasterStep
-----------------------------------------------------------------------------
(* Types                                                                    *)

LEMMA BagOfMore ==
  ASSUME NEW B, IsABag(B), NEW S
  PROVE  IsABag(B (+) SetToBag(S))
  BY DEF IsABag, SetToBag, (+)

LEMMA AppendOne ==
  ASSUME NEW S, NEW s \in Seq(S), NEW x \in S
  PROVE  s \o <<x>> \in Seq(S)
<1>1. <<x>> \in Seq(S)
  OBVIOUS
<1> QED
  BY <1>1, ConcatProperties

\* An entry still to be read belongs to a directory, so its child is an item.
LEMMA EntryTypes ==
  ASSUME TypeOK, NEW w \in Workers, Reading(w), NEW e \in todo[w]
  PROVE  /\ Child(dse[w], e) \in ItemType
         /\ FilePath(dse[w], e) \in Nat \X Seq(STRING)
<1>1. dse[w] \in ItemType /\ dse[w].node \in DOMAIN Entries /\ e \in Entries[dse[w].node]
  BY DEF TypeOK
<1>2. e.name \in STRING
  BY <1>1, FileTreeAssumption
<1>3. Child(dse[w], e) \in ItemType
  BY <1>1, ChildType
<1>4. dse[w].start \in Nat /\ dse[w].path \in Seq(STRING)
  BY <1>1 DEF ItemType
<1>5. Append(dse[w].path, e.name) \in Seq(STRING)
  BY <1>2, <1>4
<1> QED
  BY <1>3, <1>4, <1>5 DEF FilePath

LEMMA TypeOKStep ==
  ASSUME IInv, [Next]_vars
  PROVE  TypeOK'
<1> DEFINE PcType == {"unborn", "pull", "wait", "open", "read", "push", "notify_one", "done"}
<1> USE DEF IInv
<1>0. num_waiting' \in 0..Cardinality(Workers)
  <2>1. Waiting' \in SUBSET Workers
    BY DEF Waiting
  <2> QED
    BY <2>1, QueueInvStep, WaitingFinite DEF QueueInv
<1>1. CASE UNCHANGED vars
  BY <1>1 DEF vars, sync_queue_vars, master_vars, worker_vars, shared_vars, TypeOK, Reading
<1>2. CASE StartPathStep
  <2> DEFINE node == StartNodes[next_path]
  <2>1. next_path \in Nat /\ next_path \in 1..Len(StartNodes) /\ node \in Node \cup {Missing}
    BY <1>2, WorkersAssumption DEF StartPathStep, TypeOK
  <2>2. queue' \in Seq(ItemType)
    <3>1. CASE node # Missing /\ NodeType[node] = "dir"
      <4>1. StartItem(next_path, node) \in ItemType
        BY <2>1, <3>1, StartItemType
      <4>2. queue' = queue \/ queue' = queue \o <<StartItem(next_path, node)>>
        BY <1>2, <3>1 DEF StartPathStep, push_back, push_back_all
      <4>3. queue \in Seq(ItemType)
        BY DEF TypeOK
      <4> HIDE DEF node
      <4>4. queue \o <<StartItem(next_path, node)>> \in Seq(ItemType)
        BY <4>1, <4>3, AppendOne
      <4> QED
        BY <4>2, <4>3, <4>4
    <3>2. CASE ~(node # Missing /\ NodeType[node] = "dir")
      BY <1>2, <3>2 DEF StartPathStep, sync_queue_vars, TypeOK
    <3> QED
      BY <3>1, <3>2
  <2>3. IsABag(out')
    BY <1>2, BagOfMore DEF StartPathStep, TypeOK
  <2>4. UNCHANGED <<closed, level, cv, cv_complete, master>> /\ next_path' = next_path + 1
    BY <1>2 DEF StartPathStep, push_back, push_back_all, sync_queue_vars
  <2>5. UNCHANGED <<pc, dse, todo, files, pending, err>>
    BY <1>2 DEF StartPathStep, worker_vars
  <2> QED
    BY <1>0, <2>1, <2>2, <2>3, <2>4, <2>5, WorkersAssumption DEF TypeOK, Reading
<1>3. CASE StartPathsDone \/ Close \/ NotifyClosed \/ Join
  BY <1>3 DEF StartPathsDone, Close, close, NotifyClosed, notify_all, Join, sync_queue_vars,
              worker_vars, shared_vars, TypeOK, Reading
<1>4. ASSUME NEW w \in Workers, Spawn(w) PROVE TypeOK'
  <2>1. pc' \in [Workers -> PcType] /\ \A u \in Workers : Reading(u)' => Reading(u)
    BY <1>4 DEF Spawn, Goto, TypeOK, Reading
  <2> QED
    BY <1>4, <2>1 DEF Spawn, sync_queue_vars, shared_vars, TypeOK
<1>5. CASE WaitCall
  <2>1. level' \in {InitialLevel, Cardinality(Workers)} /\ cv_complete' \subseteq {Master}
        /\ UNCHANGED <<queue, closed, num_waiting, cv>> /\ master' \in {"close", "wait"}
    BY <1>5 DEF WaitCall, wait_for_worker_completion, TypeOK
  <2> QED
    BY <1>5, <2>1 DEF WaitCall, worker_vars, shared_vars, TypeOK, Reading
<1>6. CASE WaitWake
  BY <1>6 DEF WaitWake, completion_wake, completion_resleep, sync_queue_vars, worker_vars,
              shared_vars, TypeOK, Reading
<1>7. ASSUME NEW w \in Workers, Pull(w) \/ Wake(w) PROVE TypeOK'
  <2>0. queue' = queue \/ TakeFront
    BY <1>7 DEF Pull, Wake, pull_front, pull_front_sleep, pull_front_wake, pull_front_resleep
  <2>1. /\ queue' \in Seq(ItemType) /\ cv' \subseteq Workers /\ cv_complete' \subseteq {Master}
        /\ UNCHANGED <<closed, level>>
    <3>1. queue' \in Seq(ItemType)
      <4>1. queue \in Seq(ItemType)
        BY DEF TypeOK
      <4>2. queue # <<>> => Tail(queue) \in Seq(ItemType)
        BY <4>1, HeadTailProperties
      <4> QED
        BY <2>0, <4>1, <4>2 DEF TakeFront
    <3> QED
      BY <1>7, <3>1 DEF Pull, Wake, pull_front, pull_front_sleep, pull_front_wake,
                        pull_front_resleep, SignalCompletion, TypeOK
  <2>2. UNCHANGED <<master, next_path, todo, pending, err, out>>
    BY <1>7 DEF Pull, Wake, master_vars, shared_vars
  <2>3. CASE UNCHANGED <<pc, dse, files>>
    BY <1>0, <2>1, <2>2, <2>3 DEF TypeOK, Reading
  <2>4. CASE \E label \in {"wait", "done"} : Goto(w, label) /\ UNCHANGED <<dse, files>>
    <3>1. pc' \in [Workers -> PcType] /\ \A u \in Workers : Reading(u)' => Reading(u)
      BY <2>4 DEF Goto, TypeOK, Reading
    <3> QED
      BY <1>0, <2>1, <2>2, <2>4, <3>1 DEF TypeOK
  <2>5. CASE queue # <<>> /\ Pulled(w)
    <3>1. /\ Head(queue) \in ItemType
          /\ dse' = [dse EXCEPT ![w] = Head(queue)] /\ files' = [files EXCEPT ![w] = {}]
          /\ Goto(w, "open")
      BY <2>5 DEF Pulled, TypeOK
    <3>2. pc' \in [Workers -> PcType]
      BY <3>1 DEF Goto, TypeOK
    <3>3. \A u \in Workers : Reading(u)' => Reading(u) /\ u # w
      BY <3>1 DEF Goto, TypeOK, Reading
    <3>4. dse' \in [Workers -> ItemType] /\ files' \in [Workers -> SUBSET (Nat \X Seq(STRING))]
      BY <3>1 DEF TypeOK
    <3>5. \A u \in Workers : u # w => dse'[u] = dse[u]
      BY <3>1 DEF TypeOK
    <3> QED
      BY <1>0, <2>1, <2>2, <3>2, <3>3, <3>4, <3>5 DEF TypeOK
  <2> QED
    BY <1>7, <2>3, <2>4, <2>5 DEF Pull, Wake, Pulled
<1>8. ASSUME NEW w \in Workers, OpenDir(w) PROVE TypeOK'
  <2>1. dse[w].node \in DOMAIN Entries
    BY <1>8 DEF OpenDir, OpenFails
  <2>2. pc' \in [Workers -> PcType] /\ \A u \in Workers : u # w => (Reading(u)' <=> Reading(u))
    BY <1>8 DEF OpenDir, Goto, TypeOK, Reading
  <2>3. /\ todo' \in [Workers -> SUBSET UNION {Entries[n] : n \in DOMAIN Entries}]
        /\ \A u \in Workers : todo'[u] = IF u = w THEN Entries[dse[w].node] ELSE todo[u]
    BY <1>8, <2>1 DEF OpenDir, TypeOK
  <2> QED
    BY <1>8, <2>1, <2>2, <2>3 DEF OpenDir, sync_queue_vars, master_vars, shared_vars, TypeOK
<1>9. ASSUME NEW w \in Workers, NEW e \in todo[w], NEW kind, ProcessDirent(w, e, kind)
      PROVE  TypeOK'
  <2>1. Reading(w) /\ pc[w] = "read"
    BY <1>9 DEF ProcessDirent, Reading
  <2>2. Child(dse[w], e) \in ItemType /\ FilePath(dse[w], e) \in Nat \X Seq(STRING)
    BY <2>1, EntryTypes
  <2>3. /\ files' \in [Workers -> SUBSET (Nat \X Seq(STRING))]
        /\ err' \in [Workers -> BOOLEAN]
        /\ todo' \in [Workers -> SUBSET UNION {Entries[n] : n \in DOMAIN Entries}]
        /\ \A u \in Workers : todo'[u] \subseteq todo[u]
    <3>1. files' \in [Workers -> SUBSET (Nat \X Seq(STRING))]
      BY <1>9, <2>2 DEF ProcessDirent, TypeOK
    <3>2. err' = [err EXCEPT ![w] = err[w] \/ StatFails(e)]
      BY <1>9 DEF ProcessDirent
    <3>3. err' \in [Workers -> BOOLEAN]
      <4>1. (err[w] \/ StatFails(e)) \in BOOLEAN
        OBVIOUS
      <4> QED
        BY <3>2, <4>1 DEF TypeOK
    <3>4. todo' = [todo EXCEPT ![w] = todo[w] \ {e}]
      BY <1>9 DEF ProcessDirent
    <3> QED
      BY <3>1, <3>3, <3>4 DEF TypeOK
  <2>4. \/ UNCHANGED <<pc, pending>>
        \/ pc' = [pc EXCEPT ![w] = "push"] /\ pending' = [pending EXCEPT ![w] = Child(dse[w], e)]
    BY <1>9 DEF ProcessDirent, Goto
  <2>5. /\ pc' \in [Workers -> PcType] /\ pending' \in [Workers -> ItemType]
        /\ \A u \in Workers : Reading(u)' => Reading(u)
    BY <2>1, <2>2, <2>4 DEF TypeOK, Reading
  <2> QED
    BY <1>9, <2>3, <2>5 DEF ProcessDirent, sync_queue_vars, master_vars, TypeOK
<1>10. ASSUME NEW w \in Workers, PushDir(w) PROVE TypeOK'
  <2>1. queue' \in Seq(ItemType) /\ UNCHANGED <<closed, num_waiting, level, cv, cv_complete>>
    BY <1>10, AppendOne DEF PushDir, push_back, push_back_all, TypeOK
  <2>2. PICK label \in {"read", "notify_one"} : Goto(w, label)
    BY <1>10 DEF PushDir
  <2>3. pc' \in [Workers -> PcType] /\ \A u \in Workers : Reading(u)' => Reading(u)
    BY <1>10, <2>2 DEF PushDir, Goto, TypeOK, Reading
  <2>4. pending' \in [Workers -> ItemType]
    BY <1>10, NoItemType DEF PushDir, TypeOK
  <2> QED
    BY <1>10, <2>1, <2>3, <2>4 DEF PushDir, master_vars, shared_vars, TypeOK
<1>11. ASSUME NEW w \in Workers, NotifyOne(w) PROVE TypeOK'
  <2>1. UNCHANGED <<queue, closed, num_waiting, level, cv_complete>> /\ cv' \subseteq Workers
    BY <1>11 DEF NotifyOne, notify_one, TypeOK
  <2>2. pc' \in [Workers -> PcType] /\ \A u \in Workers : Reading(u)' => Reading(u)
    BY <1>11 DEF NotifyOne, Goto, TypeOK, Reading
  <2> QED
    BY <1>11, <2>1, <2>2 DEF NotifyOne, master_vars, shared_vars, TypeOK
<1>12. ASSUME NEW w \in Workers,
              OpenDirFails(w) \/ (\E failed \in BOOLEAN : ReaddirEnd(w, failed))
       PROVE  TypeOK'
  <2>1. UNCHANGED <<sync_queue_vars, master_vars, pending>> /\ Finish(w)
    BY <1>12 DEF OpenDirFails, ReaddirEnd
  <2>2. /\ pc' \in [Workers -> PcType] /\ dse' \in [Workers -> ItemType]
        /\ \A u \in Workers : Reading(u)' => Reading(u) /\ u # w
        /\ \A u \in Workers : u # w => dse'[u] = dse[u]
    BY <2>1, NoItemType DEF Finish, Goto, TypeOK, Reading
  <2>3. /\ todo' \in [Workers -> SUBSET UNION {Entries[n] : n \in DOMAIN Entries}]
        /\ files' \in [Workers -> SUBSET (Nat \X Seq(STRING))]
        /\ \A u \in Workers : u # w => todo'[u] = todo[u]
        /\ err' \in [Workers -> BOOLEAN]
    BY <1>12 DEF OpenDirFails, ReaddirEnd, TypeOK
  <2>4. IsABag(out')
    BY <1>12, BagOfMore DEF OpenDirFails, ReaddirEnd, TypeOK
  <2> QED
    BY <2>1, <2>2, <2>3, <2>4 DEF sync_queue_vars, master_vars, TypeOK
<1>13. CASE Spurious
  BY <1>13 DEF Spurious, spurious_wakeup, master_vars, worker_vars, shared_vars, TypeOK, Reading
<1>14. CASE Terminated
  BY <1>1, <1>14 DEF Terminated
<1> QED
  BY <1>1, <1>2, <1>3, <1>4, <1>5, <1>6, <1>7, <1>8, <1>9, <1>10, <1>11, <1>12, <1>13, <1>14
     DEF Next, MasterStep, WorkerStep

-----------------------------------------------------------------------------
(* The theorems.                                                            *)

\* The inductive invariant holds in every state of every execution.
THEOREM InductiveInvariant == Spec => []IInv
<1>1. Init => IInv
  BY InitIInv
<1>2. IInv /\ [Next]_vars => IInv'
  BY QueueInvStep, MasterInvStep, NothingLeftStep, MasterNotStrandedStep, NoIdleQueueStep,
     TypeOKStep DEF IInv
<1> QED
  BY <1>1, <1>2, PTL DEF Spec

\* Type correctness of the traversal, for any number of workers and any file system.
THEOREM TypeCorrect == Spec => []TypeOK
<1>1. IInv => TypeOK
  BY DEF IInv
<1> QED
  BY <1>1, InductiveInvariant, PTL

\* wait_for_worker_completion() (sync_queue.h:263) never returns to Scandir() too early: closing the
\* directory queue and joining the workers (DirTree.cpp:131-139) loses no directory.
THEOREM TerminationDetection == Spec => []NothingLeftAtClose
<1>1. IInv => NothingLeftAtClose
  BY DEF IInv
<1> QED
  BY <1>1, InductiveInvariant, PTL

\* The master is never asleep in wait_for_worker_completion() while its condition holds: the one
\* notification in pull_front (sync_queue.h:190) is enough.
THEOREM NoLostCompletion == Spec => []MasterNotStranded
<1>1. IInv => MasterNotStranded
  BY DEF IInv
<1> QED
  BY <1>1, InductiveInvariant, PTL

\* A directory on the queue always has an unfinished worker that is awake (or will be started),
\* although every notification is sent after the mutex was released.
THEOREM NoLostWakeup == Spec => []NoIdleQueue
<1>1. IInv => NoIdleQueue
  BY DEF IInv
<1> QED
  BY <1>1, InductiveInvariant, PTL
=============================================================================
