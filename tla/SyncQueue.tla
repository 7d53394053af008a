----------------------------- MODULE SyncQueue -----------------------------
(***************************************************************************)
(* The class template sync_queue<> (src/src/sync_queue.h): an unbounded    *)
(* FIFO protected by one mutex, with two condition variables.              *)
(*                                                                         *)
(* A step here is one critical section of m_mutex.  A notification that    *)
(* the code sends after unlocking is a step of its own, and so is the      *)
(* reacquisition of the mutex by a thread that a condition variable woke.  *)
(* The module has no Next: the modules that extend it (ProducerConsumer,   *)
(* DirTree) own the threads, and their program counters say which thread   *)
(* is inside which call.                                                   *)
(***************************************************************************)
EXTENDS Naturals, Sequences, FiniteSets

CONSTANT InitialLevel   \* what m_num_waiting_threads_notification_level starts as

ASSUME LevelAssumption == InitialLevel \in Nat

VARIABLES
  queue,        \* m_underlying_queue
  closed,       \* m_closed
  num_waiting,  \* m_num_waiting_threads
  level,        \* m_num_waiting_threads_notification_level
  cv,           \* the threads asleep on m_cv
  cv_complete   \* the threads asleep on m_cv_complete

sync_queue_vars == <<queue, closed, num_waiting, level, cv, cv_complete>>

SyncQueueInit ==
  /\ queue = <<>>
  /\ closed = FALSE
  /\ num_waiting = 0
  /\ level = InitialLevel
  /\ cv = {}
  /\ cv_complete = {}

-----------------------------------------------------------------------------
(* Producers.  A push on a closed queue is refused: it changes nothing, and  *)
(* the callers in this program all ignore the result.                       *)

push_back_all(xs) ==
  /\ queue' = IF closed THEN queue ELSE queue \o xs
  /\ UNCHANGED <<closed, num_waiting, level, cv, cv_complete>>

push_back(x) == push_back_all(<<x>>)

close ==
  /\ closed' = TRUE
  /\ UNCHANGED <<queue, num_waiting, level, cv, cv_complete>>

\* m_cv.notify_one(), sent after unlocking: it wakes any one sleeper, if there is one.
notify_one ==
  /\ \/ cv = {} /\ cv' = {}
     \/ \E t \in cv : cv' = cv \ {t}
  /\ UNCHANGED <<queue, closed, num_waiting, level, cv_complete>>

\* m_cv.notify_all(), sent after unlocking.
notify_all ==
  /\ cv' = {}
  /\ UNCHANGED <<queue, closed, num_waiting, level, cv_complete>>

-----------------------------------------------------------------------------
(* Consumers: pull_front.                                                   *)

\* Mutant: the close does not end the wait.
Pullable_forgets_close == queue # <<>>

\* The predicate pull_front waits for.
Pullable == queue # <<>> \/ closed

\* Mutant: the youngest element instead of the oldest.
TakeFront_takes_back == queue' = IF queue = <<>> THEN queue ELSE SubSeq(queue, 1, Len(queue) - 1)

\* What pull_front does once Pullable holds: the front element, or "closed" on an empty queue.
TakeFront == queue' = IF queue = <<>> THEN queue ELSE Tail(queue)

\* Mutant: the count is compared before it goes up.
SignalCompletion_early ==
  cv_complete' = IF num_waiting = level THEN {} ELSE cv_complete

\* The count of pulling threads reaches the level, so m_cv_complete is notified under the lock.
SignalCompletion ==
  cv_complete' = IF num_waiting + 1 = level THEN {} ELSE cv_complete

\* pull_front finds the predicate true: the count goes up, is compared, and comes down again.
pull_front ==
  /\ Pullable
  /\ SignalCompletion
  /\ TakeFront
  /\ UNCHANGED <<closed, num_waiting, level, cv>>

\* Mutant: the predicate is not tested under the mutex that m_cv.wait releases.
pull_front_sleep_unchecked(t) ==
  /\ num_waiting' = num_waiting + 1
  /\ SignalCompletion
  /\ cv' = cv \cup {t}
  /\ UNCHANGED <<queue, closed, level>>

\* pull_front finds the predicate false: thread t sleeps on m_cv, still counted as waiting.
pull_front_sleep(t) ==
  /\ ~Pullable
  /\ num_waiting' = num_waiting + 1
  /\ SignalCompletion
  /\ cv' = cv \cup {t}
  /\ UNCHANGED <<queue, closed, level>>

\* Mutant: the count does not come down when the wait ends.
pull_front_wake_uncounted(t) ==
  /\ t \notin cv
  /\ Pullable
  /\ TakeFront
  /\ UNCHANGED <<closed, num_waiting, level, cv, cv_complete>>

\* A woken thread holds the mutex again and the predicate is true.
pull_front_wake(t) ==
  /\ t \notin cv
  /\ Pullable
  /\ num_waiting' = num_waiting - 1
  /\ TakeFront
  /\ UNCHANGED <<closed, level, cv, cv_complete>>

\* A woken thread finds the predicate false (another thread was faster, or it woke spuriously).
pull_front_resleep(t) ==
  /\ t \notin cv
  /\ ~Pullable
  /\ cv' = cv \cup {t}
  /\ UNCHANGED <<queue, closed, num_waiting, level, cv_complete>>

\* The standard lets a condition variable wake a thread nobody notified.
spurious_wakeup(t) ==
  \/ /\ t \in cv
     /\ cv' = cv \ {t}
     /\ UNCHANGED <<queue, closed, num_waiting, level, cv_complete>>
  \/ /\ t \in cv_complete
     /\ cv_complete' = cv_complete \ {t}
     /\ UNCHANGED <<queue, closed, num_waiting, level, cv>>

-----------------------------------------------------------------------------
(* The master: wait_for_worker_completion(num_workers).                     *)

\* Mutant: an empty queue is taken for the end of the work.
Completed_on_empty_queue(l) == queue = <<>> \/ closed

\* The predicate the master waits for, with the level l in force.
Completed(l) == (num_waiting = l /\ queue = <<>>) \/ closed

\* Mutant: the number of workers is not stored as the level.
wait_for_worker_completion_keeps_level(t, num_workers) ==
  /\ cv_complete' = IF Completed(level) THEN {} ELSE {t}
  /\ UNCHANGED <<queue, closed, num_waiting, level, cv>>

\* The call: an argument of zero keeps the level that is set.  It notifies every
\* thread on m_cv_complete, then returns at once or sleeps there itself.
wait_for_worker_completion(t, num_workers) ==
  LET l == IF num_workers > 0 THEN num_workers ELSE level
  IN  /\ level' = l
      /\ cv_complete' = IF Completed(l) THEN {} ELSE {t}
      /\ UNCHANGED <<queue, closed, num_waiting, cv>>

\* The woken master returns once the predicate holds ...
completion_wake(t) ==
  /\ t \notin cv_complete
  /\ Completed(level)
  /\ UNCHANGED sync_queue_vars

\* ... and sleeps again as long as it does not.
completion_resleep(t) ==
  /\ t \notin cv_complete
  /\ ~Completed(level)
  /\ cv_complete' = cv_complete \cup {t}
  /\ UNCHANGED <<queue, closed, num_waiting, level, cv>>

=============================================================================
