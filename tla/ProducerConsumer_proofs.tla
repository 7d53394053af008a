---------------------- MODULE ProducerConsumer_proofs ----------------------
(***************************************************************************)
(* Theorems about module ProducerConsumer: for any producers, consumers    *)
(* and batches no wakeup is lost, every step of the queue is a step of the *)
(* closable FIFO of module Channel or leaves it as it is, and when main()  *)
(* is done everything that was pushed was pulled once, in order.           *)
(***************************************************************************)
EXTENDS ProducerConsumer, FiniteSetTheorems, SequenceTheorems, TLAPS

-----------------------------------------------------------------------------
(* The inductive invariant                                                  *)

\* What TypeOK says of every variable but num_waiting.
TypeInv ==
  /\ queue \in Seq(Value)
  /\ closed \in BOOLEAN
  /\ level = InitialLevel
  /\ cv \subseteq {c \in Consumers : consumer[c] = "wait"}
  /\ cv_complete = {}
  /\ producer \in [Producers -> {"push", "notify_one", "notify_all", "done"}]
  /\ todo \in [Producers -> Seq(Seq(Value))]
  /\ consumer \in [Consumers -> {"pull", "wait", "done"}]
  /\ main \in {"join_producers", "notify", "join_consumers", "done"}
  /\ taken \in Seq(Value)

\* m_num_waiting_threads counts the consumers inside m_cv.wait, woken ones included.
Waiting == {c \in Consumers : consumer[c] = "wait"}
CountInv == num_waiting = Cardinality(Waiting)

\* What is left to push are batches that there were at the start, and a producer at its
\* push has one.
TodoInv ==
  \A p \in Producers :
    /\ \A i \in DOMAIN todo[p] : todo[p][i] \in AllBatches
    /\ producer[p] = "push" => todo[p] # <<>>

\* main() closes once, after the producers, and from its notification on nobody sleeps.
ClosingInv ==
  /\ closed <=> main # "join_producers"
  /\ closed => \A p \in Producers : producer[p] = "done"
  /\ main \in {"join_consumers", "done"} => cv = {}

\* A consumer leaves only a queue that is closed and empty, and main() waits for all of them.
LeavingInv ==
  /\ \A c \in Consumers : consumer[c] = "done" => closed /\ queue = <<>>
  /\ main = "done" => \A c \in Consumers : consumer[c] = "done"

\* Nothing is left in the queue when main() is done with it.
NothingLeftBehind == main = "done" => closed /\ queue = <<>>

QueueInv ==
  /\ TypeInv
  /\ TodoInv
  /\ ClosingInv
  /\ LeavingInv
  /\ NoLostWakeup

-----------------------------------------------------------------------------
\* What is behind the first batch of a producer.
LEMMA TailOfTodo ==
  ASSUME NEW S, NEW s \in Seq(S), s # <<>>
  PROVE  /\ Head(s) \in S
         /\ Tail(s) \in Seq(S)
         /\ \A i \in DOMAIN Tail(s) : \E j \in DOMAIN s : Tail(s)[i] = s[j]
<1>1. /\ Head(s) \in S
      /\ Tail(s) \in Seq(S)
      /\ Len(Tail(s)) = Len(s) - 1
      /\ \A i \in 1..Len(Tail(s)) : Tail(s)[i] = s[i + 1]
  BY HeadTailProperties
<1>2. DOMAIN s = 1..Len(s) /\ Len(s) \in Nat /\ DOMAIN Tail(s) = 1..Len(Tail(s))
  BY <1>1, LenProperties
<1>3. \A i \in 1..(Len(s) - 1) : i + 1 \in 1..Len(s)
  BY <1>2
<1> QED
  BY <1>1, <1>2, <1>3

\* Moving the front of one sequence to the end of another leaves their concatenation alone.
LEMMA MoveFront ==
  ASSUME NEW S, NEW s \in Seq(S), NEW t \in Seq(S), t # <<>>
  PROVE  Append(s, Head(t)) \o Tail(t) = s \o t
<1>1. Head(t) \in S /\ Tail(t) \in Seq(S) /\ Len(Tail(t)) = Len(t) - 1
      /\ \A i \in 1..Len(Tail(t)) : Tail(t)[i] = t[i + 1]
  BY HeadTailProperties
<1>2. Append(s, Head(t)) \in Seq(S) /\ Len(Append(s, Head(t))) = Len(s) + 1
      /\ (\A i \in 1..Len(s) : Append(s, Head(t))[i] = s[i])
      /\ Append(s, Head(t))[Len(s) + 1] = Head(t)
  BY <1>1, AppendProperties
<1>3. Len(s) \in Nat /\ Len(t) \in Nat /\ Head(t) = t[1]
  BY LenProperties
<1> DEFINE u == Append(s, Head(t)) \o Tail(t)
           v == s \o t
<1>4. u \in Seq(S) /\ v \in Seq(S)
  BY <1>1, <1>2, ConcatProperties
<1>5. Len(u) = Len(s) + Len(t) /\ Len(v) = Len(s) + Len(t)
  BY <1>1, <1>2, <1>3, ConcatProperties
<1>6. ASSUME NEW i \in 1..Len(u)
      PROVE  u[i] = v[i]
  <2>1. v[i] = IF i <= Len(s) THEN s[i] ELSE t[i - Len(s)]
    BY <1>5, ConcatProperties
  <2>2. u[i] = IF i <= Len(s) + 1 THEN Append(s, Head(t))[i] ELSE Tail(t)[i - (Len(s) + 1)]
    <3>1. i \in 1..(Len(Append(s, Head(t))) + Len(Tail(t)))
      BY <1>1, <1>2, <1>3, <1>5
    <3> QED
      BY <3>1, <1>1, <1>2, ConcatProperties
  <2>3. CASE i <= Len(s)
    BY <2>1, <2>2, <2>3, <1>2, <1>3
  <2>4. CASE i = Len(s) + 1
    BY <2>1, <2>2, <2>4, <1>2, <1>3
  <2>5. CASE i > Len(s) + 1
    <3>1. i - (Len(s) + 1) \in 1..Len(Tail(t)) /\ (i - (Len(s) + 1)) + 1 = i - Len(s)
      BY <2>5, <1>1, <1>3, <1>5
    <3>2. Tail(t)[i - (Len(s) + 1)] = t[(i - (Len(s) + 1)) + 1]
      BY <3>1, <1>1
    <3> QED
      BY <2>1, <2>2, <2>5, <3>1, <3>2, <1>3
  <2> QED
    BY <2>3, <2>4, <2>5, <1>3, <1>5
<1> HIDE DEF u, v
<1>7. u = v
  BY <1>4, <1>5, <1>6, SeqEqual
<1> QED
  BY <1>7 DEF u, v

\* What was taken and what is in the queue, with more behind it.
LEMMA AddBehind ==
  ASSUME NEW S, NEW s \in Seq(S), NEW t \in Seq(S), NEW u \in Seq(S)
  PROVE  s \o (t \o u) = (s \o t) \o u
BY ConcatAssociative

-----------------------------------------------------------------------------
\* The initial states satisfy the invariant.
THEOREM InitQueue == Init => QueueInv
<1> SUFFICES ASSUME Init PROVE QueueInv
  OBVIOUS
<1> USE DEF Init, SyncQueueInit
<1>1. TypeInv
  <2>1. queue \in Seq(Value) /\ taken \in Seq(Value)
    OBVIOUS
  <2>2. producer \in [Producers -> {"push", "notify_one", "notify_all", "done"}]
    OBVIOUS
  <2>3. todo \in [Producers -> Seq(Seq(Value))]
    BY ClientAssumption
  <2> QED
    BY <2>1, <2>2, <2>3, LevelAssumption DEF TypeInv
<1>2. TodoInv
  <2> SUFFICES ASSUME NEW p \in Producers
               PROVE  /\ \A i \in DOMAIN todo[p] : todo[p][i] \in AllBatches
                      /\ producer[p] = "push" => todo[p] # <<>>
    BY DEF TodoInv
  <2>1. \A i \in DOMAIN Work[p] : Work[p][i] \in AllBatches
    BY DEF AllBatches, Range
  <2> QED
    BY <2>1
<1>3. ClosingInv /\ LeavingInv /\ NoLostWakeup
  BY DEF ClosingInv, LeavingInv, NoLostWakeup, Pullable
<1> QED
  BY <1>1, <1>2, <1>3 DEF QueueInv

\* A push of one batch keeps the invariant.
LEMMA PushKeeps ==
  ASSUME QueueInv, NEW p \in Producers, NEW n \in {"notify_one", "notify_all"}, PushWith(p, n)
  PROVE  QueueInv'
<1> USE DEF QueueInv, TypeInv
<1>1. ~closed /\ queue' = queue \o Head(todo[p]) /\ todo[p] # <<>> /\ todo[p] \in Seq(Seq(Value))
  BY DEF PushWith, push_back_all, ClosingInv, TodoInv
<1>2. /\ Head(todo[p]) \in Seq(Value)
      /\ Tail(todo[p]) \in Seq(Seq(Value))
      /\ \A i \in DOMAIN Tail(todo[p]) : \E j \in DOMAIN todo[p] : Tail(todo[p])[i] = todo[p][j]
  BY <1>1, TailOfTodo
<1>3. /\ UNCHANGED <<closed, num_waiting, level, cv, cv_complete, consumer, main, taken>>
      /\ todo' = [todo EXCEPT ![p] = Tail(@)]
      /\ producer' = [producer EXCEPT ![p] = n]
  BY <1>1 DEF PushWith, push_back_all
<1>4. TypeInv'
  BY <1>1, <1>2, <1>3, ConcatProperties
<1>5. TodoInv'
  <2> SUFFICES ASSUME NEW q \in Producers
               PROVE  /\ \A i \in DOMAIN todo'[q] : todo'[q][i] \in AllBatches
                      /\ producer'[q] = "push" => todo'[q] # <<>>
    BY DEF TodoInv
  <2>1. CASE q = p
    BY <2>1, <1>2, <1>3 DEF TodoInv
  <2>2. CASE q # p
    BY <2>2, <1>3 DEF TodoInv
  <2> QED
    BY <2>1, <2>2
<1>6. ClosingInv' /\ LeavingInv'
  BY <1>1, <1>3 DEF ClosingInv, LeavingInv
<1>7. NoLostWakeup'
  <2>1. producer'[p] \in {"notify_one", "notify_all"}
    BY <1>3
  <2> QED
    BY <2>1 DEF NoLostWakeup, NotificationDue
<1> QED
  BY <1>4, <1>5, <1>6, <1>7

\* A consumer that is not asleep after a step is what NoLostWakeup asks for.
LEMMA AwakeSuffices ==
  ASSUME cv' = {} \/ \E c \in Consumers : consumer'[c] # "done" /\ c \notin cv'
  PROVE  NoLostWakeup'
BY DEF NoLostWakeup, NotificationDue

\* A notification after a push keeps the invariant.
LEMMA NotifyKeeps ==
  ASSUME QueueInv, NEW p \in Producers, Notify(p)
  PROVE  QueueInv'
<1> USE DEF QueueInv, TypeInv
<1>1. /\ UNCHANGED <<queue, closed, num_waiting, level, cv_complete, todo, consumer, main, taken>>
      /\ producer' = [producer EXCEPT ![p] = AfterPush(todo[p])]
      /\ cv' \subseteq cv
  BY DEF Notify, notify_one, notify_all
<1>2. cv' = {} \/ \E c \in cv : c \notin cv'
  BY DEF Notify, notify_one, notify_all
<1>3. TypeInv'
  BY <1>1 DEF AfterPush
<1>4. TodoInv'
  <2> SUFFICES ASSUME NEW q \in Producers
               PROVE  /\ \A i \in DOMAIN todo'[q] : todo'[q][i] \in AllBatches
                      /\ producer'[q] = "push" => todo'[q] # <<>>
    BY DEF TodoInv
  <2>1. \A i \in DOMAIN todo'[q] : todo'[q][i] \in AllBatches
    BY <1>1 DEF TodoInv
  <2>2. producer'[q] = "push" => todo'[q] # <<>>
    BY <1>1 DEF TodoInv, AfterPush
  <2> QED
    BY <2>1, <2>2
<1>5. ClosingInv' /\ LeavingInv'
  <2>1. ~closed
    BY DEF Notify, ClosingInv
  <2> QED
    BY <1>1, <2>1 DEF ClosingInv, LeavingInv
<1>6. NoLostWakeup'
  <2>1. CASE cv' = {}
    BY <2>1, AwakeSuffices
  <2>2. CASE \E c \in cv : c \notin cv'
    <3>1. PICK c \in cv : c \notin cv'
      BY <2>2
    <3>2. c \in Consumers /\ consumer'[c] # "done"
      BY <1>1
    <3> QED
      BY <3>1, <3>2, AwakeSuffices
  <2> QED
    BY <1>2, <2>1, <2>2
<1> QED
  BY <1>3, <1>4, <1>5, <1>6

\* The end of a pull keeps the invariant.
LEMMA PulledKeeps ==
  ASSUME QueueInv, NEW c \in Consumers, consumer[c] # "done", c \notin cv, Pullable,
         TakeFront, Pulled(c),
         UNCHANGED <<closed, level, cv, cv_complete, producer, todo, main>>
  PROVE  QueueInv'
<1> USE DEF QueueInv, TypeInv
<1>1. CASE queue = <<>>
  <2>1. closed /\ queue' = <<>> /\ taken' = taken /\ consumer' = [consumer EXCEPT ![c] = "done"]
    BY <1>1 DEF Pullable, TakeFront, Pulled
  <2>2. TypeInv'
    BY <2>1, <1>1
  <2>3. TodoInv' /\ ClosingInv' /\ LeavingInv'
    BY <2>1 DEF TodoInv, ClosingInv, LeavingInv
  <2>4. main = "notify" \/ cv = {}
    BY <2>1 DEF ClosingInv
  <2>5. NoLostWakeup'
    <3>1. CASE main = "notify"
      BY <3>1 DEF NoLostWakeup, NotificationDue
    <3>2. CASE cv = {}
      BY <3>2, AwakeSuffices
    <3> QED
      BY <2>4, <3>1, <3>2
  <2> QED
    BY <2>2, <2>3, <2>5
<1>2. CASE queue # <<>>
  <2>1. /\ queue' = Tail(queue)
        /\ taken' = Append(taken, Head(queue))
        /\ consumer' = [consumer EXCEPT ![c] = "pull"]
    BY <1>2 DEF TakeFront, Pulled
  <2>2. Head(queue) \in Value /\ Tail(queue) \in Seq(Value)
    BY <1>2, TailOfTodo
  <2>3. taken' \in Seq(Value)
    BY <2>1, <2>2, AppendProperties
  <2>4. TypeInv'
    BY <2>1, <2>2, <2>3
  <2>5. TodoInv' /\ ClosingInv' /\ LeavingInv'
    BY <1>2, <2>1 DEF TodoInv, ClosingInv, LeavingInv
  <2>6. NoLostWakeup'
    BY <2>1, AwakeSuffices
  <2> QED
    BY <2>4, <2>5, <2>6
<1> QED
  BY <1>1, <1>2

\* Falling asleep on an open and empty queue keeps the invariant.
LEMMA SleepKeeps ==
  ASSUME QueueInv, NEW c \in Consumers, ~Pullable, cv' = cv \cup {c}, cv_complete' = {},
         consumer' = [consumer EXCEPT ![c] = "wait"],
         UNCHANGED <<queue, closed, level, producer, todo, main, taken>>
  PROVE  QueueInv'
<1> USE DEF QueueInv, TypeInv
<1>1. TypeInv'
  OBVIOUS
<1>2. TodoInv' /\ ClosingInv' /\ LeavingInv' /\ NoLostWakeup'
  BY DEF TodoInv, ClosingInv, LeavingInv, NoLostWakeup, Pullable
<1> QED
  BY <1>1, <1>2

\* A consumer's steps keep the invariant.
LEMMA ConsumerKeeps ==
  ASSUME QueueInv, NEW c \in Consumers, ConsumerStep(c)
  PROVE  QueueInv'
<1>1. cv_complete = {} /\ (consumer[c] = "pull" => c \notin cv)
      /\ consumer \in [Consumers -> {"pull", "wait", "done"}]
  BY DEF QueueInv, TypeInv
<1>2. CASE Pull(c)
  <2>1. CASE pull_front /\ Pulled(c)
    BY <1>1, <1>2, <2>1, PulledKeeps DEF Pull, pull_front, SignalCompletion
  <2>2. CASE pull_front_sleep(c) /\ consumer' = [consumer EXCEPT ![c] = "wait"] /\ UNCHANGED taken
    BY <1>1, <1>2, <2>2, SleepKeeps DEF Pull, pull_front_sleep, SignalCompletion
  <2> QED
    BY <1>2, <2>1, <2>2 DEF Pull
<1>3. CASE Wake(c)
  <2>1. CASE pull_front_wake(c) /\ Pulled(c)
    BY <1>1, <1>3, <2>1, PulledKeeps DEF Wake, pull_front_wake
  <2>2. CASE pull_front_resleep(c) /\ UNCHANGED <<consumer, taken>>
    <3>1. consumer' = [consumer EXCEPT ![c] = "wait"]
      BY <1>1, <1>3, <2>2 DEF Wake
    <3> QED
      BY <1>1, <1>3, <2>2, <3>1, SleepKeeps DEF Wake, pull_front_resleep
  <2> QED
    BY <1>3, <2>1, <2>2 DEF Wake
<1> QED
  BY <1>2, <1>3 DEF ConsumerStep

\* The steps of main() keep the invariant.
LEMMA MainKeeps ==
  ASSUME QueueInv, MainStep
  PROVE  QueueInv'
<1> USE DEF QueueInv, TypeInv
<1>1. CASE Close
  <2>1. TypeInv'
    BY <1>1 DEF Close, close
  <2>2. TodoInv' /\ ClosingInv' /\ LeavingInv' /\ NoLostWakeup'
    BY <1>1 DEF Close, close, TodoInv, ClosingInv, LeavingInv, NoLostWakeup, NotificationDue
  <2> QED
    BY <2>1, <2>2
<1>2. CASE NotifyClosed
  <2>1. TypeInv'
    BY <1>2 DEF NotifyClosed, notify_all
  <2>2. TodoInv' /\ ClosingInv' /\ LeavingInv'
    BY <1>2 DEF NotifyClosed, notify_all, TodoInv, ClosingInv, LeavingInv
  <2>3. NoLostWakeup'
    BY <1>2, AwakeSuffices DEF NotifyClosed, notify_all
  <2> QED
    BY <2>1, <2>2, <2>3
<1>3. CASE JoinConsumers
  <2>1. TypeInv'
    BY <1>3 DEF JoinConsumers, sync_queue_vars
  <2>2. TodoInv' /\ ClosingInv' /\ LeavingInv'
    BY <1>3 DEF JoinConsumers, sync_queue_vars, TodoInv, ClosingInv, LeavingInv
  <2>3. NoLostWakeup'
    BY <1>3, <2>2, AwakeSuffices DEF JoinConsumers, sync_queue_vars, ClosingInv
  <2> QED
    BY <2>1, <2>2, <2>3
<1> QED
  BY <1>1, <1>2, <1>3 DEF MainStep

\* A spurious wakeup keeps the invariant.
LEMMA SpuriousKeeps ==
  ASSUME QueueInv, Spurious
  PROVE  QueueInv'
<1> USE DEF QueueInv, TypeInv
<1>1. PICK c \in Consumers : spurious_wakeup(c) /\ UNCHANGED client_vars
  BY DEF Spurious
<1>2. /\ c \in cv /\ cv' = cv \ {c}
      /\ UNCHANGED <<queue, closed, num_waiting, level, cv_complete>>
  BY <1>1 DEF spurious_wakeup
<1>3. TypeInv'
  BY <1>1, <1>2 DEF client_vars
<1>4. TodoInv' /\ ClosingInv' /\ LeavingInv'
  BY <1>1, <1>2 DEF client_vars, TodoInv, ClosingInv, LeavingInv
<1>5. NoLostWakeup'
  BY <1>1, <1>2, AwakeSuffices DEF client_vars
<1> QED
  BY <1>3, <1>4, <1>5

\* A step that changes nothing keeps the invariant.
LEMMA StutterKeeps ==
  ASSUME QueueInv, UNCHANGED vars
  PROVE  QueueInv'
<1> USE DEF vars, sync_queue_vars, client_vars
<1>1. TypeInv'
  BY DEF QueueInv, TypeInv
<1>2. TodoInv' /\ ClosingInv' /\ LeavingInv'
  BY DEF QueueInv, TodoInv, ClosingInv, LeavingInv
<1>3. NoLostWakeup'
  BY DEF QueueInv, NoLostWakeup, NotificationDue, Pullable
<1> QED
  BY <1>1, <1>2, <1>3 DEF QueueInv

\* Every step keeps the invariant.
THEOREM StepQueue == QueueInv /\ [Next]_vars => QueueInv'
<1> SUFFICES ASSUME QueueInv, [Next]_vars PROVE QueueInv'
  OBVIOUS
<1>1. ASSUME NEW p \in Producers, ProducerStep(p)
      PROVE  QueueInv'
  <2>1. CASE PushOne(p)
    BY <2>1, PushKeeps DEF PushOne
  <2>2. CASE PushContainer(p)
    BY <2>2, PushKeeps DEF PushContainer
  <2>3. CASE Notify(p)
    BY <2>3, NotifyKeeps
  <2> QED
    BY <1>1, <2>1, <2>2, <2>3 DEF ProducerStep
<1>2. ASSUME NEW c \in Consumers, ConsumerStep(c)
      PROVE  QueueInv'
  BY <1>2, ConsumerKeeps
<1>3. CASE MainStep
  BY <1>3, MainKeeps
<1>4. CASE Spurious
  BY <1>4, SpuriousKeeps
<1>5. CASE Terminated \/ UNCHANGED vars
  BY <1>5, StutterKeeps DEF Terminated
<1> QED
  BY <1>1, <1>2, <1>3, <1>4, <1>5 DEF Next

\* No wakeup is lost: while there is something to pull or the queue is closed, some
\* unfinished consumer is awake or will be notified, or all of them have finished
\* (pull_front, push_back, close of sync_queue.h).
THEOREM QueueNeverStrands == Spec => []NoLostWakeup
<1>1. Spec => []QueueInv
  BY InitQueue, StepQueue, PTL DEF Spec
<1>2. QueueInv => NoLostWakeup
  BY DEF QueueInv
<1> QED
  BY <1>1, <1>2, PTL

\* When main() has joined the consumers the queue is empty: the last value was pulled.
THEOREM QueueIsDrained == Spec => []NothingLeftBehind
<1>1. Spec => []QueueInv
  BY InitQueue, StepQueue, PTL DEF Spec
<1>2. QueueInv => NothingLeftBehind
  BY ClientAssumption DEF QueueInv, LeavingInv, NothingLeftBehind
<1> QED
  BY <1>1, <1>2, PTL

-----------------------------------------------------------------------------
(* The count of waiting threads                                             *)

\* A consumer that starts to wait, one that stops, and a step that does neither.
LEMMA CountChanges ==
  ASSUME CountInv, QueueInv, NEW c \in Consumers
  PROVE  /\ consumer[c] # "wait" /\ consumer' = [consumer EXCEPT ![c] = "wait"]
              => Cardinality(Waiting') = num_waiting + 1
         /\ \A w \in {"pull", "done"} :
              /\ consumer[c] = "wait" /\ consumer' = [consumer EXCEPT ![c] = w]
                   => Cardinality(Waiting') = num_waiting - 1
              /\ consumer[c] # "wait" /\ consumer' = [consumer EXCEPT ![c] = w]
                   => Cardinality(Waiting') = num_waiting
<1>1. IsFiniteSet(Waiting) /\ consumer \in [Consumers -> {"pull", "wait", "done"}]
  BY ClientAssumption, FS_Subset DEF Waiting, QueueInv, TypeInv
<1>2. ASSUME consumer[c] # "wait", consumer' = [consumer EXCEPT ![c] = "wait"]
      PROVE  Cardinality(Waiting') = num_waiting + 1
  <2>1. c \notin Waiting /\ Waiting' = Waiting \cup {c}
    BY <1>1, <1>2 DEF Waiting
  <2> QED
    BY <1>1, <2>1, FS_AddElement DEF CountInv
<1>3. ASSUME NEW w \in {"pull", "done"},
             consumer[c] = "wait", consumer' = [consumer EXCEPT ![c] = w]
      PROVE  Cardinality(Waiting') = num_waiting - 1
  <2>1. c \in Waiting /\ Waiting' = Waiting \ {c}
    BY <1>1, <1>3 DEF Waiting
  <2> QED
    BY <1>1, <2>1, FS_RemoveElement DEF CountInv
<1>4. ASSUME NEW w \in {"pull", "done"},
             consumer[c] # "wait", consumer' = [consumer EXCEPT ![c] = w]
      PROVE  Cardinality(Waiting') = num_waiting
  <2>1. Waiting' = Waiting
    BY <1>1, <1>4 DEF Waiting
  <2> QED
    BY <2>1 DEF CountInv
<1> QED
  BY <1>2, <1>3, <1>4

\* Every step keeps the count right: it goes up before the wait and down after it.
LEMMA StepCount == QueueInv /\ CountInv /\ [Next]_vars => CountInv'
<1> SUFFICES ASSUME QueueInv, CountInv, [Next]_vars PROVE CountInv'
  OBVIOUS
<1>1. ASSUME UNCHANGED <<num_waiting, consumer>>
      PROVE  CountInv'
  BY <1>1 DEF CountInv, Waiting
<1>2. ASSUME NEW c \in Consumers, ConsumerStep(c)
      PROVE  CountInv'
  <2>1. ASSUME Pulled(c)
        PROVE  \E w \in {"pull", "done"} : consumer' = [consumer EXCEPT ![c] = w]
    BY <2>1 DEF Pulled
  <2>2. CASE Pull(c)
    <3>1. CASE pull_front /\ Pulled(c)
      BY <2>1, <2>2, <3>1, CountChanges DEF Pull, pull_front, CountInv
    <3>2. CASE pull_front_sleep(c) /\ consumer' = [consumer EXCEPT ![c] = "wait"]
      BY <2>2, <3>2, CountChanges DEF Pull, pull_front_sleep, CountInv
    <3> QED
      BY <2>2, <3>1, <3>2 DEF Pull
  <2>3. CASE Wake(c)
    <3>1. CASE pull_front_wake(c) /\ Pulled(c)
      BY <2>1, <2>3, <3>1, CountChanges DEF Wake, pull_front_wake, CountInv
    <3>2. CASE pull_front_resleep(c) /\ UNCHANGED <<consumer, taken>>
      BY <3>2, <1>1 DEF pull_front_resleep
    <3> QED
      BY <2>3, <3>1, <3>2 DEF Wake
  <2> QED
    BY <1>2, <2>2, <2>3 DEF ConsumerStep
<1>3. ASSUME NEW p \in Producers, ProducerStep(p)
      PROVE  CountInv'
  BY <1>1, <1>3
     DEF ProducerStep, PushOne, PushContainer, PushWith, push_back_all, Notify, notify_one, notify_all
<1>4. CASE MainStep
  BY <1>1, <1>4
     DEF MainStep, Close, close, NotifyClosed, notify_all, JoinConsumers, sync_queue_vars
<1>5. CASE Spurious
  BY <1>1, <1>5 DEF Spurious, spurious_wakeup, client_vars
<1>6. CASE Terminated \/ UNCHANGED vars
  BY <1>1, <1>6 DEF Terminated, vars, sync_queue_vars, client_vars
<1> QED
  BY <1>2, <1>3, <1>4, <1>5, <1>6 DEF Next

\* The variables keep their types; the count of waiting threads never exceeds the consumers.
THEOREM QueueTypes == Spec => []TypeOK
<1>1. Init => CountInv
  <2> SUFFICES ASSUME Init PROVE CountInv
    OBVIOUS
  <2>1. Waiting = {}
    BY DEF Init, Waiting
  <2> QED
    BY <2>1, FS_EmptySet DEF Init, SyncQueueInit, CountInv
<1>2. QueueInv /\ CountInv => TypeOK
  <2> SUFFICES ASSUME QueueInv, CountInv PROVE TypeOK
    OBVIOUS
  <2>1. num_waiting \in 0..Cardinality(Consumers)
    <3>1. Waiting \subseteq Consumers
      BY DEF Waiting
    <3>2. IsFiniteSet(Waiting) /\ Cardinality(Waiting) <= Cardinality(Consumers)
      BY <3>1, ClientAssumption, FS_Subset
    <3> QED
      BY <3>2, ClientAssumption, FS_CardinalityType DEF CountInv
  <2> QED
    BY <2>1 DEF TypeOK, QueueInv, TypeInv
<1>3. Spec => [](QueueInv /\ CountInv)
  BY InitQueue, StepQueue, StepCount, <1>1, PTL DEF Spec
<1> QED
  BY <1>2, <1>3, PTL

-----------------------------------------------------------------------------
(* The refinement                                                           *)

\* A pull that succeeds is a receive of the channel, one that fails a telling.
LEMMA PulledImplements ==
  ASSUME QueueInv, NEW c \in Consumers, consumer[c] # "done", Pullable, TakeFront, Pulled(c),
         UNCHANGED closed
  PROVE  ChannelImpl!Next
<1> USE DEF QueueInv, TypeInv
<1> DEFINE told == {t \in Consumers : consumer[t] = "done"}
<1>1. CASE queue = <<>>
  <2>1. closed /\ queue' = <<>> /\ taken' = taken /\ consumer' = [consumer EXCEPT ![c] = "done"]
    BY <1>1 DEF Pullable, TakeFront, Pulled
  <2>2. taken \o queue = taken /\ (taken \o queue)' = taken
    BY <1>1, <2>1, ConcatEmptySeq
  <2>3. told' = told \cup {c} /\ c \notin told
    BY <2>1
  <2>4. ChannelImpl!TellClosed(c)
    BY <2>1, <2>2, <2>3 DEF ChannelImpl!TellClosed
  <2> QED
    BY <2>4 DEF ChannelImpl!Next
<1>2. CASE queue # <<>>
  <2>1. /\ queue' = Tail(queue)
        /\ taken' = Append(taken, Head(queue))
        /\ consumer' = [consumer EXCEPT ![c] = "pull"]
    BY <1>2 DEF TakeFront, Pulled
  <2>2. (taken \o queue)' = taken \o queue
    BY <1>2, <2>1, MoveFront
  <2>3. told' = told
    BY <2>1
  <2>4. Len(taken') = Len(taken) + 1 /\ Len(taken) < Len(taken \o queue)
    BY <1>2, <2>1, TailOfTodo, AppendProperties, ConcatProperties, LenProperties, EmptySeq
  <2>5. ChannelImpl!Receive
    BY <2>2, <2>3, <2>4 DEF ChannelImpl!Receive
  <2> QED
    BY <2>5 DEF ChannelImpl!Next
<1> QED
  BY <1>1, <1>2

\* A push sends one of the batches.
LEMMA PushImplements ==
  ASSUME QueueInv, NEW p \in Producers, NEW n \in {"notify_one", "notify_all"}, PushWith(p, n)
  PROVE  ChannelImpl!Next
<1>1. /\ queue \in Seq(Value)
      /\ taken \in Seq(Value)
      /\ todo[p] \in Seq(Seq(Value))
      /\ todo[p] # <<>>
      /\ \A i \in DOMAIN todo[p] : todo[p][i] \in AllBatches
      /\ ~closed
  BY DEF QueueInv, TypeInv, TodoInv, ClosingInv, PushWith
<1>2. queue' = queue \o Head(todo[p]) /\ UNCHANGED <<closed, consumer, taken>>
  BY <1>1 DEF PushWith, push_back_all
<1>3. PICK batch \in AllBatches : batch = Head(todo[p]) /\ batch \in Seq(Value)
  BY <1>1, EmptySeq, LenProperties
<1>4. (taken \o queue)' = (taken \o queue) \o batch
  <2>1. (taken \o queue)' = taken \o (queue \o batch)
    BY <1>2, <1>3
  <2>2. taken \in Seq(Value) /\ queue \in Seq(Value) /\ batch \in Seq(Value)
    BY <1>1, <1>3
  <2>3. taken \o (queue \o batch) = (taken \o queue) \o batch
    BY ONLY <2>2, AddBehind
  <2> QED
    BY <2>1, <2>3
<1>5. ChannelImpl!Send(batch)
  BY <1>1, <1>2, <1>4 DEF ChannelImpl!Send
<1> QED
  BY <1>5 DEF ChannelImpl!Next

\* Every step of the queue and its clients is a step of the channel or leaves it as it is.
LEMMA StepImplements ==
  QueueInv /\ [Next]_vars => [ChannelImpl!Next]_ChannelImpl!vars
<1> SUFFICES ASSUME QueueInv, [Next]_vars PROVE ChannelImpl!Next \/ UNCHANGED ChannelImpl!vars
  OBVIOUS
<1>1. ASSUME UNCHANGED <<queue, closed, taken>>,
             {c \in Consumers : consumer'[c] = "done"} = {c \in Consumers : consumer[c] = "done"}
      PROVE  UNCHANGED ChannelImpl!vars
  BY <1>1 DEF ChannelImpl!vars
<1>2. ASSUME NEW p \in Producers, ProducerStep(p)
      PROVE  ChannelImpl!Next \/ UNCHANGED ChannelImpl!vars
  <2>1. CASE PushOne(p)
    BY <2>1, PushImplements DEF PushOne
  <2>2. CASE PushContainer(p)
    BY <2>2, PushImplements DEF PushContainer
  <2>3. CASE Notify(p)
    BY <2>3, <1>1 DEF Notify, notify_one, notify_all
  <2> QED
    BY <1>2, <2>1, <2>2, <2>3 DEF ProducerStep
<1>3. ASSUME NEW c \in Consumers, ConsumerStep(c)
      PROVE  ChannelImpl!Next \/ UNCHANGED ChannelImpl!vars
  <2>1. consumer \in [Consumers -> {"pull", "wait", "done"}]
    BY DEF QueueInv, TypeInv
  <2>2. CASE pull_front /\ Pulled(c) /\ consumer[c] = "pull"
    BY <2>2, PulledImplements DEF pull_front
  <2>3. CASE pull_front_sleep(c) /\ consumer' = [consumer EXCEPT ![c] = "wait"] /\ UNCHANGED taken
             /\ consumer[c] = "pull"
    BY <2>1, <2>3, <1>1 DEF pull_front_sleep
  <2>4. CASE pull_front_wake(c) /\ Pulled(c) /\ consumer[c] = "wait"
    BY <2>4, PulledImplements DEF pull_front_wake
  <2>5. CASE pull_front_resleep(c) /\ UNCHANGED <<consumer, taken>>
    BY <2>5, <1>1 DEF pull_front_resleep
  <2> QED
    BY <1>3, <2>2, <2>3, <2>4, <2>5 DEF ConsumerStep, Pull, Wake
<1>4. CASE Close
  <2>1. ChannelImpl!Close
    BY <1>4 DEF Close, close, ChannelImpl!Close, QueueInv, ClosingInv
  <2> QED
    BY <2>1 DEF ChannelImpl!Next
<1>5. CASE NotifyClosed \/ JoinConsumers
  BY <1>5, <1>1 DEF NotifyClosed, notify_all, JoinConsumers, sync_queue_vars
<1>6. CASE Spurious
  BY <1>6, <1>1 DEF Spurious, spurious_wakeup, client_vars
<1>7. CASE Terminated \/ UNCHANGED vars
  BY <1>7, <1>1 DEF Terminated, vars, sync_queue_vars, client_vars
<1> QED
  BY <1>2, <1>3, <1>4, <1>5, <1>6, <1>7 DEF Next, MainStep

\* sync_queue<> between its producers and consumers is a closable FIFO (the safety part of
\* ImplementsChannel): values leave in the order they came, each once, and a consumer is told
\* of the close only when the queue is closed and empty.
THEOREM QueueIsChannel == Spec => ChannelImpl!Init /\ [][ChannelImpl!Next]_ChannelImpl!vars
<1>1. Init => ChannelImpl!Init
  <2> SUFFICES ASSUME Init PROVE ChannelImpl!Init
    OBVIOUS
  <2>1. taken = <<>> /\ queue = <<>> /\ closed = FALSE
        /\ {c \in Consumers : consumer[c] = "done"} = {}
    BY DEF Init, SyncQueueInit
  <2>2. taken \o queue = <<>> /\ Len(taken) = 0
    BY <2>1
  <2> QED
    BY <2>1, <2>2 DEF ChannelImpl!Init
<1>2. Spec => []QueueInv
  BY InitQueue, StepQueue, PTL DEF Spec
<1> QED
  BY <1>1, <1>2, StepImplements, PTL DEF Spec
-----------------------------------------------------------------------------
(* Delivery                                                                 *)

\* How many batches a producer has pushed, and every value that was accepted so far.
PushedOf(p) == Len(Work[p]) - Len(todo[p])
Sent == taken \o queue

\* The value v is the one at place k of batch i of p, one of its first count batches.
IsAt(p, count, i, k, v) == i \in 1..count /\ k \in DOMAIN Work[p][i] /\ v = Work[p][i][k]

\* What a producer still has to push is the rest of its work, and nothing when it ends.
RestInv ==
  \A p \in Producers :
    /\ Len(todo[p]) <= Len(Work[p])
    /\ \A i \in 1..Len(todo[p]) : todo[p][i] = Work[p][PushedOf(p) + i]
    /\ producer[p] = "done" => todo[p] = <<>>

\* What was accepted is what the producers have pushed, in the order of each of them.
SentInv ==
  /\ \A m \in DOMAIN Sent : \E p \in Producers : \E i, k \in Nat : IsAt(p, PushedOf(p), i, k, Sent[m])
  /\ \A p \in Producers : \A i, k \in Nat : \A v :
       IsAt(p, PushedOf(p), i, k, v) => \E m \in DOMAIN Sent : Sent[m] = v
  /\ InPushOrder(Sent)

DeliveryInv == RestInv /\ SentInv

\* The work of a producer is a sequence of sequences of values.
LEMMA WorkTypes ==
  ASSUME NEW p \in Producers
  PROVE  /\ Work[p] \in Seq(Seq(Value)) /\ Len(Work[p]) \in Nat /\ DOMAIN Work[p] = 1..Len(Work[p])
         /\ \A i \in DOMAIN Work[p] :
              /\ Work[p][i] \in Seq(Value) /\ Len(Work[p][i]) \in Nat
              /\ DOMAIN Work[p][i] = 1..Len(Work[p][i])
<1>1. Work[p] \in Seq(Seq(Value))
  BY ClientAssumption
<1>2. \A i \in DOMAIN Work[p] : Work[p][i] \in Seq(Value)
  BY <1>1, ElementOfSeq
<1> QED
  BY <1>1, <1>2, LenProperties

\* How much a producer has pushed is a number, and not all as long as something is left.
LEMMA CountPushed ==
  ASSUME QueueInv, RestInv, NEW p \in Producers
  PROVE  /\ Len(todo[p]) \in Nat
         /\ PushedOf(p) \in Nat
         /\ PushedOf(p) <= Len(Work[p])
         /\ \A i \in 1..PushedOf(p) : i \in DOMAIN Work[p]
         /\ todo[p] = <<>> => PushedOf(p) = Len(Work[p])
         /\ todo[p] # <<>> => PushedOf(p) + 1 \in DOMAIN Work[p]
<1>1. todo[p] \in Seq(Seq(Value))
  BY DEF QueueInv, TypeInv
<1>2. Len(todo[p]) \in Nat /\ (todo[p] = <<>> <=> Len(todo[p]) = 0)
  BY <1>1, LenProperties, EmptySeq
<1>3. Len(Work[p]) \in Nat /\ DOMAIN Work[p] = 1..Len(Work[p]) /\ Len(todo[p]) <= Len(Work[p])
  BY WorkTypes DEF RestInv
<1>4. \A l, m \in Nat : l <= m => /\ m - l \in Nat
                                  /\ m - l <= m
                                  /\ \A i \in 1..(m - l) : i \in 1..m
                                  /\ l = 0 => m - l = m
                                  /\ l # 0 => (m - l) + 1 \in 1..m
  OBVIOUS
<1>5. PushedOf(p) = Len(Work[p]) - Len(todo[p])
  BY DEF PushedOf
<1>6. /\ PushedOf(p) \in Nat
      /\ PushedOf(p) <= Len(Work[p])
      /\ \A i \in 1..PushedOf(p) : i \in 1..Len(Work[p])
      /\ Len(todo[p]) = 0 => PushedOf(p) = Len(Work[p])
      /\ Len(todo[p]) # 0 => PushedOf(p) + 1 \in 1..Len(Work[p])
  <2> DEFINE l == Len(todo[p])
             m == Len(Work[p])
  <2>1. l \in Nat /\ m \in Nat /\ l <= m /\ PushedOf(p) = m - l
    BY <1>2, <1>3, <1>5
  <2> HIDE DEF l, m
  <2>2. /\ PushedOf(p) \in Nat /\ PushedOf(p) <= m
        /\ \A i \in 1..PushedOf(p) : i \in 1..m
        /\ l = 0 => PushedOf(p) = m
        /\ l # 0 => PushedOf(p) + 1 \in 1..m
    BY <1>4, <2>1
  <2> QED
    BY <2>2 DEF l, m
<1> QED
  BY <1>2, <1>3, <1>6

\* At the start everything is left and nothing was accepted.
LEMMA InitDelivery == Init => DeliveryInv
<1> SUFFICES ASSUME Init PROVE DeliveryInv
  OBVIOUS
<1>1. todo = Work /\ Sent = <<>>
      /\ \A p \in Producers : producer[p] = IF Work[p] = <<>> THEN "done" ELSE "push"
  BY DEF Init, SyncQueueInit, Sent
<1>2. \A p \in Producers : Len(Work[p]) \in Nat /\ PushedOf(p) = 0
  BY <1>1, WorkTypes DEF PushedOf
<1>3. RestInv
  BY <1>1, <1>2 DEF RestInv
<1>4. DOMAIN Sent = {}
  BY <1>1
<1>5. SentInv
  BY <1>2, <1>4 DEF SentInv, IsAt, InPushOrder
<1> QED
  BY <1>3, <1>5 DEF DeliveryInv

\* A step that pushes nothing keeps what was accepted and what is left.
LEMMA SameDelivery ==
  ASSUME DeliveryInv, UNCHANGED todo, Sent' = Sent,
         \A p \in Producers : producer'[p] = "done" => producer[p] = "done" \/ todo[p] = <<>>
  PROVE  DeliveryInv'
<1>1. RestInv'
  BY DEF DeliveryInv, RestInv, PushedOf
<1>2. SentInv'
  BY DEF DeliveryInv, SentInv, IsAt, PushedOf, InPushOrder
<1> QED
  BY <1>1, <1>2 DEF DeliveryInv

\* A push accepts the next batch of one producer.
LEMMA PushDelivers ==
  ASSUME QueueInv, DeliveryInv, NEW p \in Producers, NEW n \in {"notify_one", "notify_all"},
         PushWith(p, n)
  PROVE  DeliveryInv'
<1> DEFINE c     == PushedOf(p) + 1
           batch == Work[p][c]
<1>1. /\ queue \in Seq(Value)
      /\ taken \in Seq(Value)
      /\ todo \in [Producers -> Seq(Seq(Value))]
      /\ todo[p] # <<>>
      /\ ~closed
      /\ producer \in [Producers -> {"push", "notify_one", "notify_all", "done"}]
  BY DEF QueueInv, TypeInv, TodoInv, ClosingInv, PushWith
<1>2. /\ queue' = queue \o Head(todo[p])
      /\ todo' = [todo EXCEPT ![p] = Tail(@)]
      /\ producer' = [producer EXCEPT ![p] = n]
      /\ taken' = taken
  BY <1>1 DEF PushWith, push_back_all
<1>3. /\ Head(todo[p]) = todo[p][1]
      /\ Len(todo[p]) \in Nat /\ Len(todo[p]) # 0
      /\ Tail(todo[p]) \in Seq(Seq(Value))
      /\ Len(Tail(todo[p])) = Len(todo[p]) - 1
      /\ \A i \in 1..Len(Tail(todo[p])) : Tail(todo[p])[i] = todo[p][i + 1]
  <2>1. todo[p] \in Seq(Seq(Value))
    BY <1>1
  <2> QED
    BY <1>1, <2>1, HeadTailProperties, LenProperties, EmptySeq
<1>4. Len(Work[p]) \in Nat /\ DOMAIN Work[p] = 1..Len(Work[p]) /\ Len(todo[p]) <= Len(Work[p])
  BY WorkTypes DEF DeliveryInv, RestInv
<1>5. c \in DOMAIN Work[p] /\ c \in Nat /\ PushedOf(p) \in Nat
  BY <1>1, CountPushed DEF DeliveryInv
<1>6. Head(todo[p]) = batch
  <2>1. 1 \in 1..Len(todo[p])
    BY <1>3
  <2> QED
    BY <1>3, <2>1 DEF DeliveryInv, RestInv
<1>7. batch \in Seq(Value) /\ Len(batch) \in Nat /\ DOMAIN batch = 1..Len(batch)
  BY <1>5, WorkTypes
<1>8. PushedOf(p)' = c /\ \A q \in Producers : q # p => PushedOf(q)' = PushedOf(q)
  BY <1>1, <1>2, <1>3, <1>4 DEF PushedOf
<1>9. RestInv'
  <2> SUFFICES ASSUME NEW q \in Producers
               PROVE  /\ Len(todo'[q]) <= Len(Work[q])
                      /\ \A i \in 1..Len(todo'[q]) : todo'[q][i] = Work[q][PushedOf(q)' + i]
                      /\ producer'[q] = "done" => todo'[q] = <<>>
    BY DEF RestInv
  <2>1. CASE q = p
    <3>1. todo'[p] = Tail(todo[p]) /\ producer'[p] # "done"
      BY <1>1, <1>2
    <3>2. ASSUME NEW i \in 1..Len(todo'[p])
          PROVE  todo'[p][i] = Work[p][c + i]
      <4>1. i + 1 \in 1..Len(todo[p]) /\ PushedOf(p) + (i + 1) = c + i
        <5>1. Len(todo[p]) \in Nat /\ Len(todo[p]) # 0 /\ i \in 1..(Len(todo[p]) - 1)
          BY <1>3, <3>1
        <5>2. \A l, m \in Nat : \A x \in 1..(l - 1) : x + 1 \in 1..l /\ m + (x + 1) = (m + 1) + x
          OBVIOUS
        <5> QED
          BY <1>5, <5>1, <5>2
      <4>2. todo'[p][i] = todo[p][i + 1]
        BY <1>3, <3>1
      <4>3. todo[p][i + 1] = Work[p][PushedOf(p) + (i + 1)]
        BY <4>1 DEF DeliveryInv, RestInv
      <4> QED
        BY <4>1, <4>2, <4>3
    <3> QED
      BY <1>3, <1>4, <1>8, <2>1, <3>1, <3>2
  <2>2. CASE q # p
    <3>1. todo'[q] = todo[q] /\ producer'[q] = producer[q] /\ PushedOf(q)' = PushedOf(q)
      BY <1>1, <1>2, <1>8, <2>2
    <3> QED
      BY <3>1 DEF DeliveryInv, RestInv
  <2> QED
    BY <2>1, <2>2
<1>10. Sent' = Sent \o batch /\ Sent \in Seq(Value)
  <2>1. Sent' = taken \o (queue \o batch)
    BY <1>2, <1>6 DEF Sent
  <2>2. taken \o (queue \o batch) = (taken \o queue) \o batch
    <3>1. taken \in Seq(Value) /\ queue \in Seq(Value) /\ batch \in Seq(Value)
      BY <1>1, <1>7
    <3> HIDE DEF c, batch
    <3> QED
      BY ONLY <3>1, AddBehind
  <2>3. taken \o queue \in Seq(Value)
    BY <1>1, ConcatProperties
  <2> QED
    BY <2>1, <2>2, <2>3 DEF Sent
<1>11. /\ Len(Sent) \in Nat /\ DOMAIN Sent = 1..Len(Sent)
       /\ Sent' \in Seq(Value) /\ Len(Sent') = Len(Sent) + Len(batch) /\ DOMAIN Sent' = 1..Len(Sent')
       /\ \A m \in 1..Len(Sent') :
            Sent'[m] = IF m <= Len(Sent) THEN Sent[m] ELSE batch[m - Len(Sent)]
  BY <1>7, <1>10, ConcatProperties, LenProperties
<1> HIDE DEF c, batch
<1>12. ASSUME NEW m \in DOMAIN Sent', m > Len(Sent)
       PROVE  m - Len(Sent) \in DOMAIN batch /\ Sent'[m] = batch[m - Len(Sent)]
  BY <1>7, <1>11, <1>12
<1>13. ASSUME NEW m \in DOMAIN Sent', ~(m > Len(Sent))
       PROVE  m \in DOMAIN Sent /\ Sent'[m] = Sent[m]
  BY <1>7, <1>11, <1>13
<1>14. ASSUME NEW x \in DOMAIN batch, NEW q \in Producers, NEW j \in DOMAIN Work[q],
              NEW l \in DOMAIN Work[q][j], batch[x] = Work[q][j][l]
       PROVE  q = p /\ j = c /\ l = x
  <2>1. c \in DOMAIN Work[p] /\ x \in DOMAIN Work[p][c] /\ Work[q][j][l] = Work[p][c][x]
    BY <1>5, <1>14 DEF batch
  <2> QED
    BY <2>1, LabelAssumption
<1>15. ASSUME NEW q \in Producers, NEW i \in Nat, NEW k \in Nat, NEW v, IsAt(q, PushedOf(q), i, k, v)
       PROVE  IsAt(q, PushedOf(q)', i, k, v)
  <2>1. CASE q = p
    BY <1>5, <1>8, <1>15, <2>1 DEF IsAt, c
  <2>2. CASE q # p
    BY <1>8, <1>15, <2>2 DEF IsAt
  <2> QED
    BY <2>1, <2>2
<1>16. ASSUME NEW m \in DOMAIN Sent'
       PROVE  \E q \in Producers : \E i, k \in Nat : IsAt(q, PushedOf(q)', i, k, Sent'[m])
  <2>1. CASE m > Len(Sent)
    <3>1. m - Len(Sent) \in DOMAIN batch /\ Sent'[m] = batch[m - Len(Sent)]
      BY <1>12, <2>1
    <3>2. IsAt(p, c, c, m - Len(Sent), Sent'[m])
      <4>1. c \in 1..c
        BY <1>5 DEF c
      <4> QED
        BY <3>1, <4>1 DEF IsAt, batch
    <3>3. m - Len(Sent) \in Nat
      BY <1>7, <3>1
    <3> QED
      BY <1>5, <1>8, <3>2, <3>3
  <2>2. CASE ~(m > Len(Sent))
    <3>1. m \in DOMAIN Sent /\ Sent'[m] = Sent[m]
      BY <1>13, <2>2
    <3>2. PICK q \in Producers, i \in Nat, k \in Nat : IsAt(q, PushedOf(q), i, k, Sent[m])
      BY <3>1 DEF DeliveryInv, SentInv
    <3> QED
      BY <1>15, <3>1, <3>2
  <2> QED
    BY <2>1, <2>2
<1>17. ASSUME NEW q \in Producers, NEW i \in Nat, NEW k \in Nat, NEW v, IsAt(q, PushedOf(q)', i, k, v)
       PROVE  \E m \in DOMAIN Sent' : Sent'[m] = v
  <2>1. CASE IsAt(q, PushedOf(q), i, k, v)
    <3>1. PICK m \in DOMAIN Sent : Sent[m] = v
      BY <2>1 DEF DeliveryInv, SentInv
    <3>2. m \in DOMAIN Sent' /\ Sent'[m] = Sent[m]
      BY <1>7, <1>11, <3>1
    <3> QED
      BY <3>1, <3>2
  <2>2. CASE ~IsAt(q, PushedOf(q), i, k, v)
    <3>1. q = p /\ i = c
      BY <1>5, <1>8, <1>17, <2>2 DEF IsAt, c
    <3>2. k \in DOMAIN batch /\ v = batch[k]
      BY <1>17, <3>1 DEF IsAt, batch
    <3>3. Len(Sent) + k \in 1..Len(Sent') /\ ~(Len(Sent) + k <= Len(Sent))
          /\ (Len(Sent) + k) - Len(Sent) = k
      BY <1>7, <1>11, <3>2
    <3>4. Sent'[Len(Sent) + k] = batch[k]
      BY <1>11, <3>3
    <3> QED
      BY <1>11, <3>2, <3>3, <3>4
  <2> QED
    BY <2>1, <2>2
<1>18. ASSUME NEW q \in Producers, NEW i \in DOMAIN Work[q], NEW j \in DOMAIN Work[q],
              NEW k \in DOMAIN Work[q][i], NEW l \in DOMAIN Work[q][j],
              NEW m \in DOMAIN Sent', NEW r \in DOMAIN Sent',
              m < r, Sent'[m] = Work[q][i][k], Sent'[r] = Work[q][j][l]
       PROVE  i < j \/ (i = j /\ k < l)
  <2>1. m \in Nat /\ r \in Nat /\ i \in Nat /\ j \in Nat /\ k \in Nat /\ l \in Nat
    <3>1. m \in Nat /\ r \in Nat
      BY <1>7, <1>11
    <3>2. i \in Nat /\ j \in Nat
      BY WorkTypes
    <3>3. k \in Nat /\ l \in Nat
      BY WorkTypes
    <3> QED
      BY <3>1, <3>2, <3>3
  <2>2. ASSUME r > Len(Sent)
        PROVE  q = p /\ j = c /\ l = r - Len(Sent)
    <3>1. PICK x \in DOMAIN batch : x = r - Len(Sent) /\ Sent'[r] = batch[x]
      BY <1>12, <2>2
    <3>2. batch[x] = Work[q][j][l]
      BY <1>18, <3>1
    <3>3. q = p /\ j = c /\ l = x
      BY <1>14, <3>2
    <3> QED
      BY <3>1, <3>3
  <2>3. CASE ~(r > Len(Sent))
    <3>1. m \in DOMAIN Sent /\ Sent'[m] = Sent[m] /\ r \in DOMAIN Sent /\ Sent'[r] = Sent[r]
      BY <1>11, <1>13, <1>18, <2>1, <2>3
    <3>2. InPushOrder(Sent)
      BY DEF DeliveryInv, SentInv
    <3>3. Sent[m] = Work[q][i][k] /\ Sent[r] = Work[q][j][l] /\ m < r
      BY <1>18, <3>1
    <3> QED
      BY <3>1, <3>2, <3>3 DEF InPushOrder
  <2>4. CASE r > Len(Sent) /\ ~(m > Len(Sent))
    <3>1. m \in DOMAIN Sent /\ Sent'[m] = Sent[m]
      BY <1>13, <2>4
    <3>2. PICK p2 \in Producers, i2 \in Nat, k2 \in Nat : IsAt(p2, PushedOf(p2), i2, k2, Sent[m])
      BY <3>1 DEF DeliveryInv, SentInv
    <3>3. i2 \in DOMAIN Work[p2] /\ k2 \in DOMAIN Work[p2][i2] /\ Work[p2][i2][k2] = Work[q][i][k]
      <4>1. i2 \in DOMAIN Work[p2]
        BY <3>2, CountPushed DEF IsAt, DeliveryInv
      <4> QED
        BY <1>18, <3>1, <3>2, <4>1 DEF IsAt
    <3>4. p2 = q /\ i2 = i
      BY <3>3, LabelAssumption
    <3>5. i \in 1..PushedOf(p) /\ j = c
      BY <2>2, <2>4, <3>2, <3>4 DEF IsAt
    <3> QED
      BY <1>5, <2>1, <3>5 DEF c
  <2>5. CASE r > Len(Sent) /\ m > Len(Sent)
    <3>1. PICK x \in DOMAIN batch : x = m - Len(Sent) /\ Sent'[m] = batch[x]
      BY <1>12, <2>5
    <3>2. batch[x] = Work[q][i][k]
      BY <1>18, <3>1
    <3>3. q = p /\ i = c /\ k = m - Len(Sent)
      BY <1>14, <3>1, <3>2
    <3> QED
      BY <1>11, <1>18, <2>1, <2>2, <2>5, <3>3
  <2> QED
    BY <2>3, <2>4, <2>5
<1>19. SentInv'
  <2>1. InPushOrder(Sent')
    BY <1>18 DEF InPushOrder
  <2> QED
    BY <1>16, <1>17, <2>1 DEF SentInv
<1> QED
  BY <1>9, <1>19 DEF DeliveryInv

\* A pull moves a value from the queue to what was taken.
LEMMA PulledKeepsSent ==
  ASSUME QueueInv, NEW c \in Consumers, Pullable, TakeFront, Pulled(c)
  PROVE  Sent' = Sent
<1>1. queue \in Seq(Value) /\ taken \in Seq(Value)
  BY DEF QueueInv, TypeInv
<1>2. CASE queue = <<>>
  BY <1>2 DEF TakeFront, Pulled, Sent
<1>3. CASE queue # <<>>
  BY <1>1, <1>3, MoveFront DEF TakeFront, Pulled, Sent
<1> QED
  BY <1>2, <1>3

\* Every step keeps what was accepted in step with what was pushed.
LEMMA StepDelivery == QueueInv /\ DeliveryInv /\ [Next]_vars => DeliveryInv'
<1> SUFFICES ASSUME QueueInv, DeliveryInv, [Next]_vars PROVE DeliveryInv'
  OBVIOUS
<1>1. ASSUME UNCHANGED <<queue, taken, todo, producer>>
      PROVE  DeliveryInv'
  BY <1>1, SameDelivery DEF Sent
<1>2. ASSUME NEW p \in Producers, ProducerStep(p)
      PROVE  DeliveryInv'
  <2>1. CASE PushOne(p)
    BY <2>1, PushDelivers DEF PushOne
  <2>2. CASE PushContainer(p)
    BY <2>2, PushDelivers DEF PushContainer
  <2>3. CASE Notify(p)
    <3>1. UNCHANGED <<queue, taken, todo>> /\ producer' = [producer EXCEPT ![p] = AfterPush(todo[p])]
      BY <2>3 DEF Notify, notify_one, notify_all
    <3>2. \A q \in Producers : producer'[q] = "done" => producer[q] = "done" \/ todo[q] = <<>>
      BY <3>1 DEF AfterPush, QueueInv, TypeInv
    <3> QED
      BY <3>1, <3>2, SameDelivery DEF Sent
  <2> QED
    BY <1>2, <2>1, <2>2, <2>3 DEF ProducerStep
<1>3. ASSUME NEW c \in Consumers, ConsumerStep(c)
      PROVE  DeliveryInv'
  <2>1. UNCHANGED <<producer, todo>>
    BY <1>3 DEF ConsumerStep, Pull, Wake
  <2>2. CASE Pulled(c) /\ Pullable /\ TakeFront
    BY <2>1, <2>2, PulledKeepsSent, SameDelivery
  <2>3. CASE UNCHANGED <<queue, taken>>
    BY <1>1, <2>1, <2>3
  <2> QED
    BY <1>3, <2>2, <2>3
       DEF ConsumerStep, Pull, Wake, pull_front, pull_front_sleep, pull_front_wake, pull_front_resleep
<1>4. CASE MainStep
  BY <1>4, <1>1 DEF MainStep, Close, close, NotifyClosed, notify_all, JoinConsumers, sync_queue_vars
<1>5. CASE Spurious
  BY <1>5, <1>1 DEF Spurious, spurious_wakeup, client_vars
<1>6. CASE Terminated \/ UNCHANGED vars
  BY <1>6, <1>1 DEF Terminated, vars, sync_queue_vars, client_vars
<1> QED
  BY <1>2, <1>3, <1>4, <1>5, <1>6 DEF Next

\* Whatever the producers push, in however many batches and to however many consumers: when
\* main() is done every value was pulled exactly once, and those of one producer in the order
\* it pushed them.  main() closes each queue only after it joined the producers, so no
\* push_back is refused (main.cpp:100-129, sync_queue.h).
THEOREM EverythingIsDelivered == Spec => []AllDelivered
<1>1. Spec => [](QueueInv /\ DeliveryInv)
  BY InitQueue, StepQueue, InitDelivery, StepDelivery, PTL DEF Spec
<1>2. QueueInv /\ DeliveryInv => AllDelivered
  <2> SUFFICES ASSUME QueueInv, DeliveryInv, main = "done"
               PROVE  queue = <<>> /\ Range(taken) = Value /\ InPushOrder(taken)
    BY DEF AllDelivered
  <2>1. closed /\ queue = <<>> /\ \A p \in Producers : producer[p] = "done"
    BY ClientAssumption DEF QueueInv, LeavingInv, ClosingInv
  <2>2. Sent = taken
    BY <2>1, ConcatEmptySeq DEF Sent, QueueInv, TypeInv
  <2>3. \A p \in Producers : PushedOf(p) = Len(Work[p])
    <3>1. \A p \in Producers : todo[p] = <<>>
      BY <2>1 DEF DeliveryInv, RestInv
    <3> QED
      BY <3>1, CountPushed DEF DeliveryInv
  <2>4. InPushOrder(taken)
    BY <2>2 DEF DeliveryInv, SentInv
  <2>5. ASSUME NEW v \in Value
        PROVE  v \in Range(taken)
    <3>1. PICK p \in Producers : \E i \in DOMAIN Work[p] : \E k \in DOMAIN Work[p][i] : v = Work[p][i][k]
      BY DEF Value, Range
    <3>2. PICK i \in DOMAIN Work[p] : \E k \in DOMAIN Work[p][i] : v = Work[p][i][k]
      BY <3>1
    <3>4. PICK k \in DOMAIN Work[p][i] : v = Work[p][i][k]
      BY <3>2
    <3>5. IsAt(p, PushedOf(p), i, k, v) /\ i \in Nat /\ k \in Nat
      BY <2>3, <3>4, WorkTypes DEF IsAt
    <3>3. \E m \in DOMAIN taken : taken[m] = v
      BY <2>2, <3>5 DEF DeliveryInv, SentInv
    <3> QED
      BY <3>3 DEF Range
  <2>6. Range(taken) \subseteq Value
    <3>1. \A m \in DOMAIN taken : taken[m] \in Value
      BY ElementOfSeq, LenProperties DEF QueueInv, TypeInv
    <3> QED
      BY <3>1 DEF Range
  <2> QED
    BY <2>1, <2>4, <2>5, <2>6
<1> QED
  BY <1>1, <1>2, PTL
=============================================================================
