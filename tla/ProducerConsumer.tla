-------------------------- MODULE ProducerConsumer --------------------------
(***************************************************************************)
(* One sync_queue<> between the threads that fill it and the threads that  *)
(* empty it, the way main() (src/main.cpp) uses both of its queues:        *)
(*   files_to_scan_queue  ReaddirLoop threads -> FileScanner::Run threads, *)
(*   match_queue          FileScanner::Run threads -> OutputTask::Run.     *)
(* The producers push one value or a container of values at a time and     *)
(* end; main() joins them, closes the queue, and joins the consumers, who  *)
(* pull until they are told that the queue is closed.                      *)
(***************************************************************************)
EXTENDS SyncQueue, SequencesExt

CONSTANTS Producers, Consumers,
          Work     \* for each producer, the sequence of batches it will push

\* Every value any producer pushes.
Value == UNION {UNION {Range(Work[p][i]) : i \in DOMAIN Work[p]} : p \in Producers}

ASSUME ClientAssumption ==
  /\ IsFiniteSet(Consumers) /\ Consumers # {}
  /\ Producers \cap Consumers = {}
  /\ Work \in [Producers -> Seq(Seq(Value))]
  /\ \A p \in Producers : \A i \in DOMAIN Work[p] : Work[p][i] # <<>>

\* Every value has a name of its own.  The queue never compares the values it carries, so this
\* only says which is which: each push moves in a file or a list of matches made for it.
ASSUME LabelAssumption ==
  \A p, q \in Producers : \A i \in DOMAIN Work[p], j \in DOMAIN Work[q] :
    \A k \in DOMAIN Work[p][i], l \in DOMAIN Work[q][j] :
      Work[p][i][k] = Work[q][j][l] => p = q /\ i = j /\ k = l

VARIABLES
  producer,   \* where each producer is: "push", "notify_one", "notify_all" or "done"
  todo,       \* the batches each producer still has to push
  consumer,   \* where each consumer is: "pull", "wait" (inside m_cv.wait) or "done"
  main,       \* "join_producers", "notify", "join_consumers" or "done"
  taken       \* history: the values pulled so far, in the order they left the queue

client_vars == <<producer, todo, consumer, main, taken>>
vars == <<sync_queue_vars, client_vars>>

Init ==
  /\ SyncQueueInit
  /\ producer = [p \in Producers |-> IF Work[p] = <<>> THEN "done" ELSE "push"]
  /\ todo = Work
  /\ consumer = [c \in Consumers |-> "pull"]
  /\ main = "join_producers"
  /\ taken = <<>>

-----------------------------------------------------------------------------
(* Producers                                                                *)

\* Where a producer with these batches left goes after a push and its notification.
AfterPush(rest) == IF rest = <<>> THEN "done" ELSE "push"

\* One push_back critical section; a refused push returns without notifying.
PushWith(p, notification) ==
  /\ producer[p] = "push"
  /\ push_back_all(Head(todo[p]))
  /\ todo' = [todo EXCEPT ![p] = Tail(@)]
  /\ producer' = [producer EXCEPT ![p] = IF closed THEN AfterPush(Tail(todo[p])) ELSE notification]
  /\ UNCHANGED <<consumer, main, taken>>

PushOne(p) ==
  /\ producer[p] = "push"
  /\ Len(Head(todo[p])) = 1
  /\ PushWith(p, "notify_one")

PushContainer(p) == PushWith(p, "notify_all")

Notify(p) ==
  /\ \/ producer[p] = "notify_one" /\ notify_one
     \/ producer[p] = "notify_all" /\ notify_all
  /\ producer' = [producer EXCEPT ![p] = AfterPush(todo[p])]
  /\ UNCHANGED <<todo, consumer, main, taken>>

-----------------------------------------------------------------------------
(* Consumers: while(pull_front(x) != queue_op_status::closed) ...           *)

\* The result of a pull that found the predicate true.
Pulled(c) ==
  IF queue = <<>>
  THEN /\ consumer' = [consumer EXCEPT ![c] = "done"]
       /\ UNCHANGED taken
  ELSE /\ consumer' = [consumer EXCEPT ![c] = "pull"]
       /\ taken' = Append(taken, Head(queue))

Pull(c) ==
  /\ consumer[c] = "pull"
  /\ \/ pull_front /\ Pulled(c)
     \/ /\ pull_front_sleep(c)
        /\ consumer' = [consumer EXCEPT ![c] = "wait"]
        /\ UNCHANGED taken
  /\ UNCHANGED <<producer, todo, main>>

Wake(c) ==
  /\ consumer[c] = "wait"
  /\ \/ pull_front_wake(c) /\ Pulled(c)
     \/ pull_front_resleep(c) /\ UNCHANGED <<consumer, taken>>
  /\ UNCHANGED <<producer, todo, main>>

-----------------------------------------------------------------------------
(* main()                                                                   *)

\* Mutant: the queue is closed without joining the producers.
Close_unjoined ==
  /\ main = "join_producers"
  /\ close
  /\ main' = "notify"
  /\ UNCHANGED <<producer, todo, consumer, taken>>

Close ==
  /\ main = "join_producers"
  /\ \A p \in Producers : producer[p] = "done"
  /\ close
  /\ main' = "notify"
  /\ UNCHANGED <<producer, todo, consumer, taken>>

NotifyClosed ==
  /\ main = "notify"
  /\ notify_all
  /\ main' = "join_consumers"
  /\ UNCHANGED <<producer, todo, consumer, taken>>

JoinConsumers ==
  /\ main = "join_consumers"
  /\ \A c \in Consumers : consumer[c] = "done"
  /\ main' = "done"
  /\ UNCHANGED <<sync_queue_vars, producer, todo, consumer, taken>>

-----------------------------------------------------------------------------

ProducerStep(p) == PushOne(p) \/ PushContainer(p) \/ Notify(p)
ConsumerStep(c) == Pull(c) \/ Wake(c)
MainStep == Close \/ NotifyClosed \/ JoinConsumers

Spurious == \E c \in Consumers : spurious_wakeup(c) /\ UNCHANGED client_vars

Terminated == main = "done" /\ UNCHANGED vars

Next ==
  \/ \E p \in Producers : ProducerStep(p)
  \/ \E c \in Consumers : ConsumerStep(c)
  \/ MainStep
  \/ Spurious
  \/ Terminated

\* Every thread that can take a step eventually takes one: the operating system
\* schedules every runnable thread, and each holds the mutex for a bounded time.
\* A consumer asleep on m_cv takes no step until something takes it out of cv.
Fairness ==
  /\ \A p \in Producers : WF_vars(ProducerStep(p))
  /\ \A c \in Consumers : WF_vars(ConsumerStep(c))
  /\ WF_vars(MainStep)

Spec == Init /\ [][Next]_vars /\ Fairness
-----------------------------------------------------------------------------
(* Properties                                                               *)

TypeOK ==
  /\ queue \in Seq(Value)
  /\ closed \in BOOLEAN
  /\ num_waiting \in 0..Cardinality(Consumers)
  /\ level = InitialLevel
  /\ cv \subseteq {c \in Consumers : consumer[c] = "wait"}
  /\ cv_complete = {}
  /\ producer \in [Producers -> {"push", "notify_one", "notify_all", "done"}]
  /\ todo \in [Producers -> Seq(Seq(Value))]
  /\ consumer \in [Consumers -> {"pull", "wait", "done"}]
  /\ main \in {"join_producers", "notify", "join_consumers", "done"}
  /\ taken \in Seq(Value)

\* A notification that some thread still owes: it has unlocked but not yet notified.
NotificationDue ==
  \/ \E p \in Producers : producer[p] \in {"notify_one", "notify_all"}
  \/ main = "notify"

\* No lost wakeup (sync_queue.h pushes and closes, unlocks, and only then notifies): as long
\* as there is something to pull, or the queue is closed, an unfinished consumer that is not
\* asleep exists or a notification is due, unless all consumers have finished.
NoLostWakeup ==
  Pullable =>
    \/ NotificationDue
    \/ \E c \in Consumers : consumer[c] # "done" /\ c \notin cv
    \/ \A c \in Consumers : consumer[c] = "done"

\* Of two values in s that one producer pushes, the one it pushes earlier comes first; so none
\* is in s twice.
InPushOrder(s) ==
  \A p \in Producers : \A i, j \in DOMAIN Work[p] :
    \A k \in DOMAIN Work[p][i], l \in DOMAIN Work[p][j] :
      \A m, n \in DOMAIN s :
        m < n /\ s[m] = Work[p][i][k] /\ s[n] = Work[p][j][l] => i < j \/ (i = j /\ k < l)

\* When main() is done every value that any producer pushed was pulled exactly once, and the
\* values of one producer in the order it pushed them: no push was refused by a closed queue,
\* no consumer left while the queue still held something.
AllDelivered ==
  main = "done" =>
    /\ queue = <<>>
    /\ Range(taken) = Value
    /\ InPushOrder(taken)

\* sync_queue<> is the closable FIFO of module Channel.
AllBatches == UNION {Range(Work[p]) : p \in Producers}

ChannelImpl == INSTANCE Channel WITH
  Batches  <- AllBatches,
  sent     <- taken \o queue,
  received <- Len(taken),
  open     <- ~closed,
  told     <- {c \in Consumers : consumer[c] = "done"}

\* Every step of the queue is a step of the channel or none, and what was accepted comes out.
ImplementsChannel == ChannelImpl!Spec

\* main() returns: both joins terminate on every schedule.
Termination == <>(main = "done")
=============================================================================
