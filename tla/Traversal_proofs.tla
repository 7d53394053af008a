-------------------------- MODULE Traversal_proofs --------------------------
(***************************************************************************)
(* The threads of DirTree carry out the traversal of module Traversal, for *)
(* any number of workers, any file system and any command line: every      *)
(* directory is read once, by one worker, and Scandir() returns only when  *)
(* all that were found have been read.                                     *)
(***************************************************************************)
EXTENDS DirTree_proofs

-----------------------------------------------------------------------------
(* The inductive invariant, on top of IInv                                  *)

Elements(q) == {q[i] : i \in DOMAIN q}
NoDuplicates(q) == \A i, j \in DOMAIN q : q[i] = q[j] => i = j

\* The workers that have a directory in hand.
Holders == {w \in Workers : pc[w] \in {"open", "read", "push", "notify_one"}}

\* A directory that was found and is not finished is on the queue or with one worker.
OwnerInv ==
  /\ accepted \subseteq ItemType
  /\ scanned \subseteq accepted
  /\ NoDuplicates(queue)
  /\ accepted \ scanned = Elements(queue) \cup {dse[w] : w \in Holders}
  /\ \A w \in Holders : dse[w] \notin Elements(queue)
  /\ \A u, w \in Holders : dse[u] = dse[w] => u = w

\* The entries of its directory that a worker has read.
Done(w) == Entries[dse[w].node] \ todo[w]

\* Whether entry e of item y has been read: y is finished, or its reader is past e.
AlreadyRead(y, e) ==
  \/ y \in scanned
  \/ \E w \in Workers : Reading(w) /\ dse[w] = y /\ e \in Done(w)

\* The directories found have different paths: each but the start paths is the child of another
\* one, for an entry that has been read.
PathInv ==
  /\ \A x \in Found : x.start \in 1..(next_path - 1)
  /\ \A x, y \in Found : x.start = y.start /\ x.path = y.path => x = y
  /\ \A x \in Found :
       x.path # <<>> =>
         \E y \in accepted :
           /\ y.node \in DOMAIN Entries
           /\ \E e \in Entries[y.node] : x = Child(y, e) /\ AlreadyRead(y, e)

\* A directory about to be pushed is not on the queue yet, nor is it in two hands.
PendingInv ==
  \A w \in Workers : pc[w] = "push" =>
    /\ pending[w] \notin accepted
    /\ \A u \in Workers : pc[u] = "push" /\ pending[u] = pending[w] => u = w

\* What a worker has made of the entries it has read.
Progress(w) ==
  /\ ~OpenFails(dse[w].node)
  /\ TraversalImpl!AllDescended(dse[w], Done(w))
  /\ TraversalImpl!MustScan(dse[w], Done(w)) \subseteq files[w]
  /\ files[w] \subseteq TraversalImpl!MayScan(dse[w], Done(w))

ReadInv ==
  \A w \in Workers :
    /\ pc[w] = "open" => files[w] = {}
    /\ Reading(w) => Progress(w)

\* All command-line paths have been looked at before the workers start.
StartInv == master # "start_paths" => next_path = Len(StartNodes) + 1

RefInv == OwnerInv /\ PathInv /\ PendingInv /\ ReadInv /\ StartInv

-----------------------------------------------------------------------------
(* The tree, in this module's terms and in Traversal's                      *)

\* What the traversal makes of a tree is what DirTree makes of it.
LEMMA SameTree ==
  /\ \A item, e : TraversalImpl!Child(item, e) = Child(item, e)
  /\ \A item, e : TraversalImpl!FilePath(item, e) = FilePath(item, e)
  /\ \A item, e : TraversalImpl!UniqueFileIdentifier(item, e) = UniqueFileIdentifier(item, e)
  /\ \A e : TraversalImpl!Kinds(e) = Kinds(e)
  /\ \A e, kind : TraversalImpl!IsDescended(e, kind) = IsDescended(e, kind)
  /\ \A e, kind : TraversalImpl!IsScannedFile(e, kind) = IsScannedFile(e, kind)
  /\ \A node : TraversalImpl!OpenFails(node) = OpenFails(node)
  /\ \A i, node : TraversalImpl!StartItem(i, node) = StartItem(i, node)
  /\ \A i : TraversalImpl!StartFile(i) = StartFile(i)
<1>1. \A item, e : TraversalImpl!Child(item, e) = Child(item, e)
  BY DEF TraversalImpl!Child, TraversalImpl!Item, Child, Item
<1>2. \A item, e : TraversalImpl!FilePath(item, e) = FilePath(item, e)
  BY DEF TraversalImpl!FilePath, FilePath
<1> QED
  BY <1>1, <1>2 DEF TraversalImpl!UniqueFileIdentifier, UniqueFileIdentifier,
     TraversalImpl!Kinds, Kinds, TraversalImpl!NeedsStat, NeedsStat, TraversalImpl!StatFails,
     StatFails,
     TraversalImpl!IsDescended, IsDescended, TraversalImpl!IsScannedFile, IsScannedFile,
     TraversalImpl!OpenFails, OpenFails, TraversalImpl!StartItem, StartItem,
     TraversalImpl!Item, Item,
     TraversalImpl!StartFile, StartFile

\* Both mean the same bags.
LEMMA SameBags ==
  \A B, S : TraversalImpl!(+)(B, TraversalImpl!SetToBag(S)) = B (+) SetToBag(S)
BY DEF TraversalImpl!(+), (+), TraversalImpl!SetToBag, SetToBag

-----------------------------------------------------------------------------
(* Sequences without duplicates                                             *)

\* The front is taken off ...
LEMMA FrontOff ==
  ASSUME NEW S, NEW q \in Seq(S), q # <<>>, NoDuplicates(q)
  PROVE  /\ Head(q) \in Elements(q)
         /\ Elements(Tail(q)) = Elements(q) \ {Head(q)}
         /\ NoDuplicates(Tail(q))
<1>1. /\ Len(q) \in Nat \ {0}
      /\ DOMAIN q = 1..Len(q)
      /\ Head(q) = q[1]
      /\ DOMAIN Tail(q) = 1..(Len(q) - 1)
      /\ \A i \in 1..(Len(q) - 1) : Tail(q)[i] = q[i + 1]
  BY EmptySeq, LenProperties, HeadTailProperties
<1>2. 1 \in 1..Len(q) /\ \A i \in 1..(Len(q) - 1) : i + 1 \in 1..Len(q) /\ i + 1 # 1
  BY <1>1
<1>3. \A j \in 1..Len(q) : j # 1 => j - 1 \in 1..(Len(q) - 1) /\ (j - 1) + 1 = j
  BY <1>1
<1>4. Head(q) \in Elements(q)
  BY <1>1, <1>2 DEF Elements
<1>5. Elements(Tail(q)) = Elements(q) \ {Head(q)}
  <2>1. ASSUME NEW x \in Elements(Tail(q))
        PROVE  x \in Elements(q) \ {Head(q)}
    BY <2>1, <1>1, <1>2 DEF Elements, NoDuplicates
  <2>2. ASSUME NEW x \in Elements(q), x # Head(q)
        PROVE  x \in Elements(Tail(q))
    <3>1. PICK j \in 1..Len(q) : x = q[j]
      BY <2>2, <1>1 DEF Elements
    <3>2. j - 1 \in DOMAIN Tail(q) /\ Tail(q)[j - 1] = x
      BY <3>1, <2>2, <1>1, <1>3
    <3> QED
      BY <3>2 DEF Elements
  <2> QED
    BY <2>1, <2>2
<1>6. NoDuplicates(Tail(q))
  <2> SUFFICES ASSUME NEW i \in 1..(Len(q) - 1), NEW j \in 1..(Len(q) - 1),
                      Tail(q)[i] = Tail(q)[j]
               PROVE  i = j
    BY <1>1 DEF NoDuplicates
  <2>1. i + 1 = j + 1
    BY <1>1, <1>2 DEF NoDuplicates
  <2> QED
    BY <2>1, <1>1
<1> QED
  BY <1>4, <1>5, <1>6

\* ... and something new is put behind.
LEMMA BackOn ==
  ASSUME NEW S, NEW q \in Seq(S), NEW x \in S, x \notin Elements(q), NoDuplicates(q)
  PROVE  /\ Elements(q \o <<x>>) = Elements(q) \cup {x}
         /\ NoDuplicates(q \o <<x>>)
<1> DEFINE r == q \o <<x>>
<1>1. /\ Len(q) \in Nat
      /\ DOMAIN q = 1..Len(q)
      /\ DOMAIN r = 1..(Len(q) + 1)
      /\ \A i \in 1..Len(q) : r[i] = q[i]
      /\ r[Len(q) + 1] = x
  <2>1. r = Append(q, x)
    BY AppendIsConcat
  <2> HIDE DEF r
  <2>2. r \in Seq(S) /\ Len(r) = Len(q) + 1
        /\ (\A i \in 1..Len(q) : r[i] = q[i]) /\ r[Len(q) + 1] = x
    BY <2>1, AppendProperties
  <2> QED
    BY <2>2, LenProperties
<1> HIDE DEF r
<1>2. \A i \in 1..(Len(q) + 1) : i \in 1..Len(q) \/ i = Len(q) + 1
  BY <1>1
<1>3. \A i \in 1..Len(q) : i \in 1..(Len(q) + 1)
  BY <1>1
<1>4. Len(q) + 1 \in 1..(Len(q) + 1)
  BY <1>1
<1>5. \A i \in 1..Len(q) : q[i] # x
  BY <1>1 DEF Elements
<1>6. Elements(r) = Elements(q) \cup {x}
  BY <1>1, <1>2, <1>3, <1>4 DEF Elements
<1>7. NoDuplicates(r)
  BY <1>1, <1>2, <1>5 DEF NoDuplicates
<1> QED
  BY <1>6, <1>7 DEF r

-----------------------------------------------------------------------------
(* What stays true when the rest moves on                                   *)

\* The start items and the children of items.
LEMMA ChildPath ==
  ASSUME NEW item \in ItemType, NEW e, e.name \in STRING
  PROVE  /\ Child(item, e).start = item.start
         /\ Child(item, e).path = Append(item.path, e.name)
         /\ Child(item, e).path # <<>>
  BY AppendProperties DEF Child, Item, ItemType

\* Two items with children of the same path are the same, if no two directories found have the
\* same path, and the entries have the same name.
LEMMA SameParent ==
  ASSUME NEW x \in ItemType, NEW y \in ItemType,
         NEW d, NEW e, d.name \in STRING, e.name \in STRING,
         Child(x, d).start = Child(y, e).start, Child(x, d).path = Child(y, e).path
  PROVE  x.start = y.start /\ x.path = y.path /\ d.name = e.name
<1>1. x.start = y.start /\ Append(x.path, d.name) = Append(y.path, e.name)
  BY ChildPath
<1>2. x.path \in Seq(STRING) /\ y.path \in Seq(STRING)
  BY DEF ItemType
<1> QED
  BY <1>1, <1>2, AppendInjective

\* What has been read stays read as long as its reader goes on, or finishes.
LEMMA ReadStaysRead ==
  ASSUME scanned \subseteq scanned',
         \A w \in Workers : Reading(w) =>
           \/ Reading(w)' /\ dse'[w] = dse[w] /\ Done(w) \subseteq Done(w)'
           \/ dse[w] \in scanned'
  PROVE  \A y, e : AlreadyRead(y, e) => AlreadyRead(y, e)'
BY DEF AlreadyRead

\* Without a new directory the paths stay as they are.
LEMMA PathsStay ==
  ASSUME PathInv, Found' = Found, accepted \subseteq accepted', next_path' = next_path,
         \A y, e : AlreadyRead(y, e) => AlreadyRead(y, e)'
  PROVE  PathInv'
<1>1. /\ \A x \in Found' : x.start \in 1..(next_path' - 1)
      /\ \A x, y \in Found' : x.start = y.start /\ x.path = y.path => x = y
  BY DEF PathInv
<1>2. \A x \in Found' :
        x.path # <<>> =>
          \E y \in accepted' :
            /\ y.node \in DOMAIN Entries
            /\ \E e \in Entries[y.node] : x = Child(y, e) /\ AlreadyRead(y, e)'
  BY DEF PathInv
<1> QED
  BY <1>1, <1>2 DEF PathInv

\* What has been found, and what has been visited, only grows, so a reader's progress is kept.
LEMMA ProgressKept ==
  ASSUME Found \subseteq Found', visited \subseteq visited', NEW w \in Workers, Progress(w),
         dse'[w] = dse[w], todo'[w] = todo[w], files'[w] = files[w]
  PROVE  Progress(w)'
<1> DEFINE item == dse[w]
           E == Done(w)
<1>1. dse'[w] = item /\ Done(w)' = E
  BY DEF Done
<1>2. TraversalImpl!AllDescended(dse[w], Done(w))'
  <2>1. TraversalImpl!AllDescended(item, E)
    BY DEF Progress
  <2> QED
    BY <1>1, <2>1 DEF TraversalImpl!AllDescended
<1>3. /\ ~OpenFails(dse'[w].node)
      /\ TraversalImpl!MustScan(dse'[w], Done(w)') \subseteq files'[w]
      /\ files'[w] \subseteq TraversalImpl!MayScan(dse'[w], Done(w)')
  BY <1>1 DEF Progress
<1> QED
  BY <1>2, <1>3 DEF Progress

-----------------------------------------------------------------------------
(* Each action keeps the invariant                                          *)

\* A step that moves no directory: the workers that hold, read or push one stay the same.
LEMMA QuietKeeps ==
  ASSUME RefInv, StartInv',
         UNCHANGED <<queue, accepted, scanned, dse, todo, files, visited, pending, next_path>>,
         \A w \in Workers :
           /\ w \in Holders' <=> w \in Holders
           /\ Reading(w)' <=> Reading(w)
           /\ pc'[w] = "open" <=> pc[w] = "open"
           /\ pc'[w] = "push" <=> pc[w] = "push"
  PROVE  RefInv' /\ Found' = Found
<1>1. Holders' = Holders
  BY DEF Holders
<1>2. Found' = Found
  BY DEF Found
<1>3. OwnerInv'
  BY <1>1 DEF RefInv, OwnerInv, Elements, NoDuplicates
<1>4. \A y, e : AlreadyRead(y, e) => AlreadyRead(y, e)'
  BY ReadStaysRead DEF Done
<1>5. PathInv'
  BY <1>2, <1>4, PathsStay DEF RefInv
<1>6. PendingInv'
  BY DEF RefInv, PendingInv
<1>7. ReadInv'
  BY <1>2, ProgressKept DEF RefInv, ReadInv
<1> QED
  BY <1>2, <1>3, <1>5, <1>6, <1>7 DEF RefInv

\* A pull hands the front of the queue to a worker that holds nothing.
LEMMA TakeKeeps ==
  ASSUME IInv, RefInv, NEW w \in Workers, pc[w] \in {"pull", "wait"}, queue # <<>>,
         TakeFront, Pulled(w),
         UNCHANGED <<todo, pending, visited, accepted, scanned, master, next_path>>
  PROVE  RefInv' /\ Found' = Found
<1>1. TypeOK /\ queue \in Seq(ItemType)
  BY DEF IInv, TypeOK
<1>2. /\ queue' = Tail(queue)
      /\ \A u \in Workers : pc'[u] = IF u = w THEN "open" ELSE pc[u]
      /\ \A u \in Workers : dse'[u] = IF u = w THEN Head(queue) ELSE dse[u]
      /\ \A u \in Workers : files'[u] = IF u = w THEN {} ELSE files[u]
  BY <1>1, GotoPc DEF TakeFront, Pulled, TypeOK
<1>3. Holders' = Holders \cup {w} /\ w \notin Holders
  BY <1>2 DEF Holders
<1>4. Found' = Found
  BY <1>2 DEF Found
<1>5. \A u \in Workers : /\ Reading(u)' <=> Reading(u)
                         /\ Reading(u) => u # w
  BY <1>2 DEF Reading
<1>6. OwnerInv'
  <2>1. /\ Head(queue) \in Elements(queue)
        /\ Elements(queue') = Elements(queue) \ {Head(queue)}
        /\ NoDuplicates(queue')
    BY <1>1, <1>2, FrontOff DEF RefInv, OwnerInv
  <2>2. {dse'[u] : u \in Holders'} = {dse[u] : u \in Holders} \cup {Head(queue)}
    BY <1>2, <1>3 DEF Holders
  <2>3. \A u \in Holders' : dse'[u] \notin Elements(queue')
    BY <1>2, <1>3, <2>1 DEF RefInv, OwnerInv, Holders
  <2>4. \A u, v \in Holders' : dse'[u] = dse'[v] => u = v
    BY <1>2, <1>3, <2>1 DEF RefInv, OwnerInv, Holders
  <2>5. accepted' \ scanned' = Elements(queue') \cup {dse'[u] : u \in Holders'}
    BY <2>1, <2>2 DEF RefInv, OwnerInv
  <2>6. accepted' \subseteq ItemType /\ scanned' \subseteq accepted'
    BY DEF RefInv, OwnerInv
  <2> QED
    BY <2>1, <2>3, <2>4, <2>5, <2>6 DEF OwnerInv
<1>7. \A y, e : AlreadyRead(y, e) => AlreadyRead(y, e)'
  BY <1>2, <1>5, ReadStaysRead DEF Done
<1>8. PathInv'
  BY <1>4, <1>7, PathsStay DEF RefInv
<1>9. PendingInv'
  BY <1>2 DEF RefInv, PendingInv
<1>10. ReadInv'
  <2> SUFFICES ASSUME NEW u \in Workers
               PROVE  /\ pc'[u] = "open" => files'[u] = {}
                      /\ Reading(u)' => Progress(u)'
    BY DEF ReadInv
  <2>1. pc'[u] = "open" => files'[u] = {}
    BY <1>2 DEF RefInv, ReadInv
  <2>2. Reading(u)' => Progress(u)'
    BY <1>2, <1>4, <1>5, ProgressKept DEF RefInv, ReadInv
  <2> QED
    BY <2>1, <2>2
<1>11. StartInv'
  BY DEF RefInv, StartInv
<1> QED
  BY <1>4, <1>6, <1>8, <1>9, <1>10, <1>11 DEF RefInv

\* A worker is through with its directory.
LEMMA FinishKeeps ==
  ASSUME IInv, RefInv, NEW w \in Workers, pc[w] \in {"open", "read"}, Finish(w),
         \A u \in Workers \ {w} : todo'[u] = todo[u] /\ files'[u] = files[u],
         UNCHANGED <<queue, pending, visited, accepted, master, next_path>>
  PROVE  RefInv' /\ Found' = Found
<1>1. TypeOK
  BY DEF IInv
<1>2. /\ scanned' = scanned \cup {dse[w]}
      /\ \A u \in Workers : pc'[u] = IF u = w THEN "pull" ELSE pc[u]
      /\ \A u \in Workers : dse'[u] = IF u = w THEN NoItem ELSE dse[u]
  BY <1>1, GotoPc DEF Finish, TypeOK
<1>3. w \in Holders /\ Holders' = Holders \ {w}
  BY <1>2 DEF Holders
<1>4. Found' = Found
  BY <1>2 DEF Found
<1>5. \A u \in Workers : /\ Reading(u)' <=> u # w /\ Reading(u)
  BY <1>2 DEF Reading
<1>6. OwnerInv'
  <2>1. dse[w] \in accepted \ scanned
    BY <1>3 DEF RefInv, OwnerInv
  <2>2. {dse'[u] : u \in Holders'} = {dse[u] : u \in Holders} \ {dse[w]}
    BY <1>2, <1>3 DEF RefInv, OwnerInv, Holders
  <2>3. accepted' \ scanned' = Elements(queue)' \cup {dse'[u] : u \in Holders'}
    BY <1>2, <1>3, <2>2 DEF RefInv, OwnerInv, Elements
  <2>4. \A u \in Holders' : dse'[u] \notin Elements(queue)'
    BY <1>2, <1>3 DEF RefInv, OwnerInv, Holders, Elements
  <2>5. \A u, v \in Holders' : dse'[u] = dse'[v] => u = v
    BY <1>2, <1>3 DEF RefInv, OwnerInv, Holders
  <2>6. accepted' \subseteq ItemType /\ scanned' \subseteq accepted' /\ NoDuplicates(queue)'
    BY <1>2, <2>1 DEF RefInv, OwnerInv, NoDuplicates
  <2> QED
    BY <2>3, <2>4, <2>5, <2>6 DEF OwnerInv
<1>7. \A y, e : AlreadyRead(y, e) => AlreadyRead(y, e)'
  BY <1>2, <1>5, ReadStaysRead DEF Done
<1>8. PathInv'
  BY <1>4, <1>7, PathsStay DEF RefInv
<1>9. PendingInv'
  BY <1>2 DEF RefInv, PendingInv
<1>10. ReadInv'
  <2> SUFFICES ASSUME NEW u \in Workers
               PROVE  /\ pc'[u] = "open" => files'[u] = {}
                      /\ Reading(u)' => Progress(u)'
    BY DEF ReadInv
  <2>1. pc'[u] = "open" => files'[u] = {}
    BY <1>2 DEF RefInv, ReadInv
  <2>2. Reading(u)' => Progress(u)'
    BY <1>2, <1>4, <1>5, ProgressKept DEF RefInv, ReadInv
  <2> QED
    BY <2>1, <2>2
<1>11. StartInv'
  BY DEF RefInv, StartInv
<1> QED
  BY <1>4, <1>6, <1>8, <1>9, <1>10, <1>11 DEF RefInv

\* A worker has opened its directory, and read none of its entries.
LEMMA OpenKeeps ==
  ASSUME IInv, RefInv, NEW w \in Workers, OpenDir(w)
  PROVE  RefInv' /\ Found' = Found
<1>1. TypeOK
  BY DEF IInv
<1>2. /\ pc[w] = "open" /\ ~OpenFails(dse[w].node)
      /\ \A u \in Workers : pc'[u] = IF u = w THEN "read" ELSE pc[u]
      /\ \A u \in Workers : todo'[u] = IF u = w THEN Entries[dse[w].node] ELSE todo[u]
      /\ UNCHANGED <<queue, accepted, scanned, dse, files, pending, visited, master, next_path>>
  BY <1>1, GotoPc DEF OpenDir, TypeOK, sync_queue_vars, master_vars, shared_vars, history_vars
<1>3. Holders' = Holders
  BY <1>2 DEF Holders
<1>4. Found' = Found
  BY <1>2 DEF Found
<1>5. \A u \in Workers : u # w => (Reading(u)' <=> Reading(u))
  BY <1>2 DEF Reading
<1>6. ~Reading(w) /\ Done(w)' = {}
  BY <1>2 DEF Reading, Done
<1>7. OwnerInv'
  BY <1>2, <1>3 DEF RefInv, OwnerInv, Elements, NoDuplicates
<1>8. \A y, e : AlreadyRead(y, e) => AlreadyRead(y, e)'
  BY <1>2, <1>5, <1>6, ReadStaysRead DEF Done
<1>9. PathInv'
  BY <1>2, <1>4, <1>8, PathsStay DEF RefInv
<1>10. PendingInv'
  BY <1>2 DEF RefInv, PendingInv
<1>11. Progress(w)'
  <2>1. files'[w] = {}
    BY <1>2 DEF RefInv, ReadInv
  <2>2. TraversalImpl!AllDescended(dse[w], Done(w))'
    BY <1>6 DEF TraversalImpl!AllDescended
  <2>3. TraversalImpl!MustScan(dse'[w], Done(w)') = {}
    BY <1>6 DEF TraversalImpl!MustScan
  <2> QED
    BY <1>2, <2>1, <2>2, <2>3 DEF Progress
<1>12. ReadInv'
  <2> SUFFICES ASSUME NEW u \in Workers
               PROVE  /\ pc'[u] = "open" => files'[u] = {}
                      /\ Reading(u)' => Progress(u)'
    BY DEF ReadInv
  <2>1. pc'[u] = "open" => files'[u] = {}
    BY <1>2 DEF RefInv, ReadInv
  <2>2. Reading(u)' => Progress(u)'
    BY <1>2, <1>4, <1>5, <1>11, ProgressKept DEF RefInv, ReadInv
  <2> QED
    BY <2>1, <2>2
<1>13. StartInv'
  BY <1>2 DEF RefInv, StartInv
<1> QED
  BY <1>4, <1>7, <1>9, <1>10, <1>12, <1>13 DEF RefInv

\* A subdirectory is put on the queue: that it was found is no news.
LEMMA PushDirKeeps ==
  ASSUME IInv, RefInv, NEW w \in Workers, PushDir(w)
  PROVE  RefInv' /\ Found' = Found
<1>1. TypeOK /\ queue \in Seq(ItemType) /\ pending[w] \in ItemType
  BY DEF IInv, TypeOK
<1>2. ~closed
  BY DEF IInv, QueueInv, NothingLeftAtClose, PushDir
<1>3. /\ pc[w] = "push"
      /\ queue' = queue \o <<pending[w]>>
      /\ accepted' = accepted \cup {pending[w]}
      /\ \A u \in Workers : pc'[u] = IF u = w THEN "notify_one" ELSE pc[u]
      /\ \A u \in Workers : u # w => pending'[u] = pending[u]
      /\ UNCHANGED <<scanned, dse, todo, files, visited, master, next_path>>
  BY <1>1, <1>2, GotoPc DEF PushDir, push_back, push_back_all, TypeOK, master_vars, shared_vars
<1>4. pending[w] \notin accepted
  BY <1>3 DEF RefInv, PendingInv
<1>5. Holders' = Holders
  BY <1>3 DEF Holders
<1>6. \A u \in Workers : Reading(u)' <=> Reading(u)
  BY <1>3 DEF Reading
<1>7. Found' = Found
  BY <1>3 DEF Found
<1>8. OwnerInv'
  <2>1. pending[w] \notin Elements(queue) /\ \A u \in Holders : dse[u] # pending[w]
    BY <1>4 DEF RefInv, OwnerInv
  <2>2. Elements(queue') = Elements(queue) \cup {pending[w]} /\ NoDuplicates(queue')
    BY <1>1, <1>3, <2>1, BackOn DEF RefInv, OwnerInv
  <2>3. accepted' \ scanned' = Elements(queue') \cup {dse'[u] : u \in Holders'}
    BY <1>3, <1>4, <1>5, <2>2 DEF RefInv, OwnerInv
  <2>4. \A u \in Holders' : dse'[u] \notin Elements(queue')
    BY <1>3, <1>5, <2>1, <2>2 DEF RefInv, OwnerInv
  <2>5. \A u, v \in Holders' : dse'[u] = dse'[v] => u = v
    BY <1>3, <1>5 DEF RefInv, OwnerInv
  <2>6. accepted' \subseteq ItemType /\ scanned' \subseteq accepted'
    BY <1>1, <1>3 DEF RefInv, OwnerInv
  <2> QED
    BY <2>2, <2>3, <2>4, <2>5, <2>6 DEF OwnerInv
<1>9. \A y, e : AlreadyRead(y, e) => AlreadyRead(y, e)'
  BY <1>3, <1>6, ReadStaysRead DEF Done
<1>10. PathInv'
  BY <1>3, <1>7, <1>9, PathsStay DEF RefInv
<1>11. PendingInv'
  BY <1>3 DEF RefInv, PendingInv
<1>12. ReadInv'
  <2> SUFFICES ASSUME NEW u \in Workers
               PROVE  /\ pc'[u] = "open" => files'[u] = {}
                      /\ Reading(u)' => Progress(u)'
    BY DEF ReadInv
  <2>1. pc'[u] = "open" => files'[u] = {}
    BY <1>3 DEF RefInv, ReadInv
  <2>2. Reading(u)' => Progress(u)'
    BY <1>3, <1>6, <1>7, ProgressKept DEF RefInv, ReadInv
  <2> QED
    BY <2>1, <2>2
<1>13. StartInv'
  BY <1>3 DEF RefInv, StartInv
<1> QED
  BY <1>7, <1>8, <1>10, <1>11, <1>12, <1>13 DEF RefInv

\* A command-line path is looked at; no worker runs yet.
LEMMA StartPathKeeps ==
  ASSUME IInv, RefInv, StartPathStep
  PROVE  /\ RefInv'
         /\ LET node == StartNodes[next_path]
            IN  Found' = IF node # Missing /\ NodeType[node] = "dir"
                         THEN Found \cup {StartItem(next_path, node)} ELSE Found
<1> DEFINE node == StartNodes[next_path]
           item == StartItem(next_path, node)
<1>1. /\ TypeOK /\ queue \in Seq(ItemType) /\ next_path \in Nat \ {0}
      /\ node \in Node \cup {Missing}
      /\ ~closed
      /\ master = "start_paths"
  BY WorkersAssumption DEF IInv, TypeOK, QueueInv, StartPathStep
<1>2. \A w \in Workers : pc[w] = "unborn"
  BY <1>1 DEF IInv, MasterInv
<1>3. /\ UNCHANGED <<master, pc, dse, todo, files, pending, visited, scanned>>
      /\ next_path' = next_path + 1
  BY DEF StartPathStep, worker_vars
<1>4. Holders = {} /\ Holders' = {} /\ Found = accepted /\ Found' = accepted'
  BY <1>2, <1>3 DEF Holders, Found
<1>5. \A w \in Workers : ~Reading(w) /\ ~Reading(w)'
  BY <1>2, <1>3 DEF Reading
<1>6. PendingInv' /\ ReadInv' /\ StartInv'
  BY <1>1, <1>2, <1>3, <1>5 DEF PendingInv, ReadInv, StartInv
<1>7. \A y, e : AlreadyRead(y, e) => AlreadyRead(y, e)'
  BY <1>3, <1>5, ReadStaysRead
<1>8. CASE node # Missing /\ NodeType[node] = "dir"
  <2>1. queue' = queue \o <<item>> /\ accepted' = accepted \cup {item}
    BY <1>1, <1>8 DEF StartPathStep, push_back, push_back_all
  <2>2. item \in ItemType
    BY <1>1, <1>8, StartItemType
  <2>3. item.start = next_path /\ item.path = <<>>
    BY DEF StartItem, Item
  <2> HIDE DEF item, node
  <2>4. \A x \in Found : x.start \in 1..(next_path - 1)
    BY DEF RefInv, PathInv
  <2>5. item \notin accepted
    BY <1>1, <1>4, <2>3, <2>4
  <2>6. OwnerInv'
    <3>1. Elements(queue) = accepted \ scanned /\ {dse'[u] : u \in Holders'} = {}
      BY <1>4 DEF RefInv, OwnerInv
    <3>2. Elements(queue') = Elements(queue) \cup {item} /\ NoDuplicates(queue')
      BY <1>1, <2>1, <2>2, <2>5, <3>1, BackOn DEF RefInv, OwnerInv
    <3>3. item \notin scanned /\ accepted' \subseteq ItemType /\ scanned' \subseteq accepted'
      BY <1>3, <2>1, <2>2, <2>5 DEF RefInv, OwnerInv
    <3>4. accepted' \ scanned' = Elements(queue') \cup {dse'[u] : u \in Holders'}
      BY <1>3, <2>1, <3>1, <3>2, <3>3
    <3> QED
      BY <1>4, <3>2, <3>3, <3>4 DEF OwnerInv
  <2>7. PathInv'
    <3>1. \A x \in Found' : x.start \in 1..(next_path' - 1)
      BY <1>1, <1>3, <1>4, <2>1, <2>3, <2>4
    <3>2. \A x, y \in Found' : x.start = y.start /\ x.path = y.path => x = y
      BY <1>1, <1>4, <2>1, <2>3, <2>4 DEF RefInv, PathInv
    <3>3. \A x \in Found' :
            x.path # <<>> =>
              \E y \in accepted' :
                /\ y.node \in DOMAIN Entries
                /\ \E e \in Entries[y.node] : x = Child(y, e) /\ AlreadyRead(y, e)'
      BY <1>4, <1>7, <2>1, <2>3 DEF RefInv, PathInv
    <3> QED
      BY <3>1, <3>2, <3>3 DEF PathInv
  <2> QED
    BY <1>4, <1>6, <1>8, <2>1, <2>6, <2>7 DEF RefInv, node, item
<1>9. CASE ~(node # Missing /\ NodeType[node] = "dir")
  <2>1. UNCHANGED <<queue, accepted>>
    BY <1>9 DEF StartPathStep, sync_queue_vars
  <2>2. OwnerInv'
    BY <1>3, <1>4, <2>1 DEF RefInv, OwnerInv, Elements, NoDuplicates
  <2>3. PathInv'
    <3>1. \A x \in Found' : x.start \in 1..(next_path' - 1)
      BY <1>1, <1>3, <1>4, <2>1 DEF RefInv, PathInv
    <3>2. \A x, y \in Found' : x.start = y.start /\ x.path = y.path => x = y
      BY <1>4, <2>1 DEF RefInv, PathInv
    <3>3. \A x \in Found' :
            x.path # <<>> =>
              \E y \in accepted' :
                /\ y.node \in DOMAIN Entries
                /\ \E e \in Entries[y.node] : x = Child(y, e) /\ AlreadyRead(y, e)'
      BY <1>4, <1>7, <2>1 DEF RefInv, PathInv
    <3> QED
      BY <3>1, <3>2, <3>3 DEF PathInv
  <2> QED
    BY <1>4, <1>6, <1>9, <2>1, <2>2, <2>3 DEF RefInv
<1> QED
  BY <1>8, <1>9

\* What ProcessDirent does to its worker, whatever it makes of the entry.
LEMMA EntryRead ==
  ASSUME IInv, RefInv, NEW w \in Workers, NEW kind \in EntryKinds, NEW e \in todo[w],
         ProcessDirent(w, e, kind)
  PROVE  /\ pc[w] = "read" /\ kind \in Kinds(e)
         /\ e \in Entries[dse[w].node] /\ dse[w].node \in DOMAIN Entries
         /\ dse[w] \in ItemType /\ dse[w] \in accepted \ scanned /\ e.name \in STRING
         /\ Child(dse[w], e) \in ItemType
         /\ ~OpenFails(dse[w].node)
         /\ UNCHANGED <<queue, accepted, scanned, dse, master, next_path, out>>
         /\ \A u \in Workers : u # w => /\ UNCHANGED <<pc[u], todo[u], files[u], pending[u]>>
         /\ Done(w)' = Done(w) \cup {e} /\ e \notin Done(w)
         /\ files'[w] = IF IsScannedFile(e, kind)
                        THEN files[w] \cup {FilePath(dse[w], e)} ELSE files[w]
<1>1. TypeOK
  BY DEF IInv
<1>2. /\ pc[w] = "read" /\ kind \in Kinds(e)
      /\ todo' = [todo EXCEPT ![w] = @ \ {e}]
      /\ files' = IF IsScannedFile(e, kind)
                  THEN [files EXCEPT ![w] = @ \cup {FilePath(dse[w], e)}]
                  ELSE files
      /\ UNCHANGED <<queue, accepted, scanned, dse, master, next_path, out>>
      /\ pc' = pc \/ pc' = [pc EXCEPT ![w] = "push"]
      /\ pending' = pending \/ pending' = [pending EXCEPT ![w] = Child(dse[w], e)]
  BY DEF ProcessDirent, Goto, sync_queue_vars, master_vars, history_vars
<1>3. Reading(w) /\ w \in Holders
  BY <1>2 DEF Reading, Holders
<1>4. /\ dse[w] \in ItemType /\ dse[w].node \in DOMAIN Entries
      /\ todo[w] \subseteq Entries[dse[w].node]
  BY <1>1, <1>3 DEF TypeOK
<1>5. e.name \in STRING /\ Child(dse[w], e) \in ItemType
  BY <1>4, FileTreeAssumption, ChildType
<1>6. dse[w] \in accepted \ scanned /\ ~OpenFails(dse[w].node)
  BY <1>3 DEF RefInv, OwnerInv, ReadInv, Progress
<1>7. todo'[w] = todo[w] \ {e}
  BY <1>1, <1>2 DEF TypeOK
<1>8. Done(w)' = Done(w) \cup {e} /\ e \notin Done(w)
  BY <1>2, <1>4, <1>7 DEF Done
<1>9. files'[w] = IF IsScannedFile(e, kind)
                  THEN files[w] \cup {FilePath(dse[w], e)} ELSE files[w]
  BY <1>1, <1>2 DEF TypeOK
<1>10. \A u \in Workers : u # w => UNCHANGED <<pc[u], todo[u], files[u], pending[u]>>
  BY <1>1, <1>2 DEF TypeOK
<1> QED
  BY <1>2, <1>4, <1>5, <1>6, <1>8, <1>9, <1>10

\* No directory found so far has the path of a child that has yet to be read.
LEMMA NewPath ==
  ASSUME IInv, RefInv, NEW w \in Workers, NEW kind \in EntryKinds, NEW e \in todo[w],
         ProcessDirent(w, e, kind), NEW x \in Found,
         x.start = Child(dse[w], e).start, x.path = Child(dse[w], e).path
  PROVE  FALSE
<1>1. /\ e \in Entries[dse[w].node] /\ dse[w].node \in DOMAIN Entries
      /\ dse[w] \in ItemType /\ dse[w] \in accepted \ scanned /\ e.name \in STRING
      /\ e \notin Done(w) /\ pc[w] = "read"
  BY EntryRead
<1>2. x.path # <<>>
  BY <1>1, ChildPath
<1>3. PICK y \in accepted :
        /\ y.node \in DOMAIN Entries
        /\ \E d \in Entries[y.node] : x = Child(y, d) /\ AlreadyRead(y, d)
  BY <1>2 DEF RefInv, PathInv
<1>4. PICK d \in Entries[y.node] : x = Child(y, d) /\ AlreadyRead(y, d)
  BY <1>3
<1>5. y \in ItemType /\ d.name \in STRING
  BY <1>3, <1>4, FileTreeAssumption DEF RefInv, OwnerInv
<1>6. y.start = dse[w].start /\ y.path = dse[w].path /\ d.name = e.name
  BY <1>1, <1>4, <1>5, SameParent
<1>7. y \in Found /\ dse[w] \in Found
  BY <1>1 DEF Found
<1>8. y = dse[w]
  BY <1>6, <1>7 DEF RefInv, PathInv
<1>9. d = e
  BY <1>1, <1>4, <1>6, <1>8, FileTreeAssumption
<1>10. PICK u \in Workers : Reading(u) /\ dse[u] = y /\ d \in Done(u)
  BY <1>1, <1>4, <1>8 DEF AlreadyRead
<1>11. u = w
  BY <1>1, <1>8, <1>10 DEF RefInv, OwnerInv, Holders, Reading
<1> QED
  BY <1>1, <1>9, <1>10, <1>11

\* A worker has read an entry: the step keeps the invariant, and finds the child or nothing.
LEMMA EntryKeeps ==
  ASSUME IInv, RefInv, NEW w \in Workers, NEW kind \in EntryKinds, NEW e \in todo[w],
         ProcessDirent(w, e, kind)
  PROVE  /\ RefInv'
         /\ LET id == UniqueFileIdentifier(dse[w], e)
            IN  IF IsDescended(e, kind) /\ ~(Follow /\ id \in visited)
                THEN /\ Found' = Found \cup {Child(dse[w], e)}
                     /\ visited' = IF Follow THEN visited \cup {id} ELSE visited
                     /\ Child(dse[w], e) \notin Found
                ELSE Found' = Found /\ visited' = visited
<1> DEFINE child == Child(dse[w], e)
           id == UniqueFileIdentifier(dse[w], e)
           pushes == IsDescended(e, kind) /\ ~(Follow /\ id \in visited)
<1>1. TypeOK
  BY DEF IInv
<1>2. /\ pc[w] = "read" /\ kind \in Kinds(e)
      /\ e \in Entries[dse[w].node] /\ dse[w].node \in DOMAIN Entries
      /\ dse[w] \in ItemType /\ dse[w] \in accepted \ scanned /\ e.name \in STRING
      /\ child \in ItemType
      /\ ~OpenFails(dse[w].node)
      /\ UNCHANGED <<queue, accepted, scanned, dse, master, next_path, out>>
      /\ \A u \in Workers : u # w => UNCHANGED <<pc[u], todo[u], files[u], pending[u]>>
      /\ Done(w)' = Done(w) \cup {e}
      /\ files'[w] = IF IsScannedFile(e, kind)
                     THEN files[w] \cup {FilePath(dse[w], e)} ELSE files[w]
  BY EntryRead
<1>3. \A x \in Found : ~(x.start = child.start /\ x.path = child.path)
  BY NewPath
<1>4. child \notin Found
  BY <1>3
<1>5. /\ pushes => pc'[w] = "push" /\ pending'[w] = child
                   /\ visited' = IF Follow THEN visited \cup {id} ELSE visited
      /\ ~pushes => pc'[w] = "read" /\ visited' = visited
  <2>1. CASE pushes
    BY <1>1, <2>1 DEF ProcessDirent, Goto, TypeOK
  <2>2. CASE ~IsDescended(e, kind)
    BY <1>2, <2>2 DEF ProcessDirent
  <2>3. CASE IsDescended(e, kind) /\ Follow /\ id \in visited
    BY <1>2, <2>3 DEF ProcessDirent
  <2> QED
    BY <2>1, <2>2, <2>3
<1> HIDE DEF child, id, pushes
<1>6. Holders' = Holders
  BY <1>2, <1>5 DEF Holders
<1>7. \A u \in Workers : Reading(u)' <=> Reading(u)
  BY <1>2, <1>5 DEF Reading
<1>8. Found' = IF pushes THEN Found \cup {child} ELSE Found
  <2>1. CASE pushes
    BY <1>2, <1>5, <2>1 DEF Found
  <2>2. CASE ~pushes
    BY <1>2, <1>5, <2>2 DEF Found
  <2> QED
    BY <2>1, <2>2
<1>9. Found \subseteq Found' /\ visited \subseteq visited'
  BY <1>5, <1>8
<1>10. OwnerInv'
  BY <1>2, <1>6 DEF RefInv, OwnerInv, Elements, NoDuplicates
<1>11. Reading(w) /\ Reading(w)' /\ w \in Holders
  BY <1>2, <1>7 DEF Reading, Holders
<1>12. \A y, d : AlreadyRead(y, d) => AlreadyRead(y, d)'
  <2>1. \A u \in Workers : u # w => Done(u)' = Done(u)
    BY <1>2 DEF Done
  <2> QED
    BY <1>2, <1>7, <2>1, ReadStaysRead
<1>13. PathInv'
  <2>1. CASE pushes
    <3>1. child.start = dse[w].start /\ dse[w] \in Found
      BY <1>2, ChildPath DEF Found, child
    <3>2. \A x \in Found' : x.start \in 1..(next_path' - 1)
      BY <1>2, <1>8, <2>1, <3>1 DEF RefInv, PathInv
    <3>3. \A x, y \in Found' : x.start = y.start /\ x.path = y.path => x = y
      BY <1>3, <1>8, <2>1 DEF RefInv, PathInv
    <3>4. AlreadyRead(dse[w], e)'
      BY <1>2, <1>11 DEF AlreadyRead
    <3>5. \A x \in Found' :
            x.path # <<>> =>
              \E y \in accepted' :
                /\ y.node \in DOMAIN Entries
                /\ \E d \in Entries[y.node] : x = Child(y, d) /\ AlreadyRead(y, d)'
      <4> SUFFICES ASSUME NEW x \in Found', x.path # <<>>
                   PROVE  \E y \in accepted' :
                            /\ y.node \in DOMAIN Entries
                            /\ \E d \in Entries[y.node] : x = Child(y, d) /\ AlreadyRead(y, d)'
        OBVIOUS
      <4>1. CASE x \in Found
        BY <1>2, <1>12, <4>1 DEF RefInv, PathInv
      <4>2. CASE x = child
        <5>1. AlreadyRead(dse[w], e)' /\ x = Child(dse[w], e) /\ dse[w] \in accepted'
          BY <1>2, <3>4, <4>2 DEF child
        <5> QED
          BY <1>2, <5>1
      <4> QED
        BY <1>8, <2>1, <4>1, <4>2
    <3> QED
      BY <3>2, <3>3, <3>5 DEF PathInv
  <2>2. CASE ~pushes
    BY <1>2, <1>8, <1>12, <2>2, PathsStay DEF RefInv
  <2> QED
    BY <2>1, <2>2
<1>14. PendingInv'
  <2>1. \A u \in Workers : u # w /\ pc'[u] = "push" => pc[u] = "push" /\ pending'[u] = pending[u]
    BY <1>2
  <2>2. \A u \in Workers : pc[u] = "push" => pending[u] \in Found
    BY DEF Found
  <2>3. pc'[w] = "push" => pending'[w] = child
    BY <1>5
  <2>4. accepted \subseteq Found
    BY DEF Found
  <2> QED
    BY <1>2, <1>4, <2>1, <2>2, <2>3, <2>4 DEF RefInv, PendingInv

<1>15. Progress(w)'
  <2>1. Progress(w)
    BY <1>11 DEF RefInv, ReadInv
  <2>2. TraversalImpl!AllDescended(dse[w], Done(w))'
    <3> SUFFICES ASSUME NEW d \in Done(w)', \A k \in Kinds(d) : IsDescended(d, k)
                 PROVE  \/ Child(dse[w], d) \in Found'
                        \/ Follow /\ UniqueFileIdentifier(dse[w], d) \in visited'
      BY <1>2, SameTree DEF TraversalImpl!AllDescended
    <3>1. CASE d \in Done(w)
      BY <1>9, <2>1, <3>1, SameTree DEF Progress, TraversalImpl!AllDescended
    <3>2. CASE d = e
      BY <1>2, <1>8, <1>9, <3>2 DEF child, id, pushes
    <3> QED
      BY <1>2, <3>1, <3>2
  <2>3. TraversalImpl!MustScan(dse'[w], Done(w)') \subseteq files'[w]
    BY <1>2, <2>1, SameTree DEF Progress, TraversalImpl!MustScan
  <2>4. files'[w] \subseteq TraversalImpl!MayScan(dse'[w], Done(w)')
    BY <1>2, <2>1, SameTree DEF Progress, TraversalImpl!MayScan
  <2> QED
    BY <1>2, <2>2, <2>3, <2>4 DEF Progress
<1>16. ReadInv'
  <2> SUFFICES ASSUME NEW u \in Workers
               PROVE  /\ pc'[u] = "open" => files'[u] = {}
                      /\ Reading(u)' => Progress(u)'
    BY DEF ReadInv
  <2>1. CASE u = w
    BY <1>5, <1>15, <2>1
  <2>2. CASE u # w
    BY <1>2, <1>7, <1>9, <2>2, ProgressKept DEF RefInv, ReadInv
  <2> QED
    BY <2>1, <2>2
<1>17. StartInv'
  BY <1>2 DEF RefInv, StartInv
<1> QED
  BY <1>4, <1>5, <1>8, <1>10, <1>13, <1>14, <1>16, <1>17 DEF RefInv, child, id, pushes

-----------------------------------------------------------------------------
(* The refinement                                                           *)

\* A step that Traversal does not see.
LEMMA Unseen ==
  ASSUME Found' = Found, UNCHANGED <<scanned, visited, out, next_path>>,
         (master' \in {"close", "notify", "join", "done"})
           <=> (master \in {"close", "notify", "join", "done"})
  PROVE  UNCHANGED TraversalImpl!vars
<1>1. (1..(next_path - 1))' = 1..(next_path - 1)
  OBVIOUS
<1>2. (master \in {"close", "notify", "join", "done"})'
        = (master \in {"close", "notify", "join", "done"})
  OBVIOUS
<1> QED
  BY <1>1, <1>2 DEF TraversalImpl!vars

\* The traversal starts with nothing found.
LEMMA InitRef == Init => RefInv /\ TraversalImpl!Init
<1> SUFFICES ASSUME Init PROVE RefInv /\ TraversalImpl!Init
  OBVIOUS
<1>1. /\ queue = <<>> /\ accepted = {} /\ scanned = {} /\ visited = {} /\ out = EmptyBag
      /\ master = "start_paths" /\ next_path = 1
      /\ \A w \in Workers : pc[w] = "unborn"
  BY DEF Init, SyncQueueInit
<1>2. Holders = {} /\ Found = {} /\ Elements(queue) = {} /\ NoDuplicates(queue)
  BY <1>1 DEF Holders, Found, Elements, NoDuplicates
<1>3. \A w \in Workers : ~Reading(w)
  BY <1>1 DEF Reading
<1>4. OwnerInv
  BY <1>1, <1>2 DEF OwnerInv
<1>5. PathInv /\ PendingInv /\ ReadInv /\ StartInv
  BY <1>1, <1>2, <1>3 DEF PathInv, PendingInv, ReadInv, StartInv
<1>6. EmptyBag = TraversalImpl!EmptyBag
  BY DEF EmptyBag, TraversalImpl!EmptyBag, SetToBag, TraversalImpl!SetToBag
<1>7. 1..(next_path - 1) = {}
  BY <1>1
<1>8. (master \in {"close", "notify", "join", "done"}) = FALSE
  BY <1>1
<1>9. TraversalImpl!Init
  BY <1>1, <1>2, <1>6, <1>7, <1>8 DEF TraversalImpl!Init
<1> QED
  BY <1>4, <1>5, <1>9 DEF RefInv

\* What the step simulation has to show.
Simulates == RefInv' /\ (TraversalImpl!Next \/ UNCHANGED TraversalImpl!vars)

\* Scandir's look at a command-line path is a Start.
LEMMA StartSimulates ==
  ASSUME IInv, RefInv, StartPathStep
  PROVE  Simulates
<1> DEFINE node == StartNodes[next_path]
<1>1. next_path \in DOMAIN StartNodes /\ next_path \in Nat \ {0} /\ master = "start_paths"
  BY WorkersAssumption DEF StartPathStep, IInv, TypeOK
<1>2. RefInv' /\ Found' = IF node # Missing /\ NodeType[node] = "dir"
                          THEN Found \cup {StartItem(next_path, node)} ELSE Found
  BY StartPathKeeps
<1>3. UNCHANGED <<scanned, visited, master>> /\ next_path' = next_path + 1
  BY DEF StartPathStep
<1>4. next_path \notin 1..(next_path - 1)
      /\ (1..(next_path - 1))' = (1..(next_path - 1)) \cup {next_path}
  BY <1>1, <1>3
<1>5. out' = IF TraversalImpl!StartIs(next_path, "reg")
             THEN out (+) SetToBag({StartFile(next_path)}) ELSE out
  BY DEF StartPathStep, TraversalImpl!StartIs
<1>6. out' = IF TraversalImpl!StartIs(next_path, "reg")
             THEN TraversalImpl!(+)
                    (out, TraversalImpl!SetToBag({TraversalImpl!StartFile(next_path)}))
             ELSE out
  BY <1>5, SameBags, SameTree
<1>7. Found' = IF TraversalImpl!StartIs(next_path, "dir")
               THEN Found \cup {TraversalImpl!StartItem(next_path, StartNodes[next_path])}
               ELSE Found
  BY <1>2, SameTree DEF TraversalImpl!StartIs
<1>8. UNCHANGED <<scanned, visited, master \in {"close", "notify", "join", "done"}>>
  BY <1>3
<1>9. TraversalImpl!Start(next_path)
  BY <1>4, <1>6, <1>7, <1>8 DEF TraversalImpl!Start
<1> QED
  BY <1>1, <1>2, <1>9 DEF Simulates, TraversalImpl!Next

\* The end of the master's wait is the Return; its other steps are not seen.
LEMMA MasterSimulates ==
  ASSUME IInv, IInv', RefInv, MasterStep
  PROVE  Simulates
<1> DEFINE Over == {"close", "notify", "join", "done"}
<1>1. CASE StartPathStep
  BY <1>1, StartSimulates
<1>2. ASSUME UNCHANGED <<queue, accepted, scanned, dse, todo, files, visited, pending,
                         next_path, pc, out>>,
             StartInv'
      PROVE  RefInv' /\ Found' = Found
  <2>1. \A w \in Workers : (w \in Holders' <=> w \in Holders) /\ (Reading(w)' <=> Reading(w))
    BY <1>2 DEF Holders, Reading
  <2> QED
    BY <1>2, <2>1, QuietKeeps
<1>3. CASE StartPathsDone
  <2>1. UNCHANGED <<queue, accepted, scanned, dse, todo, files, visited, pending,
                    next_path, pc, out>>
    BY <1>3 DEF StartPathsDone, sync_queue_vars, worker_vars, shared_vars, history_vars
  <2>2. StartInv' /\ master = "start_paths" /\ master' = "spawn"
    BY <1>3, <2>1, WorkersAssumption DEF StartPathsDone, StartInv, IInv, TypeOK
  <2> QED
    BY <1>2, <2>1, <2>2, Unseen DEF Simulates
<1>4. ASSUME NEW w \in Workers, Spawn(w)
      PROVE  Simulates
  <2>1. /\ UNCHANGED <<queue, accepted, scanned, dse, todo, files, visited, pending,
                       next_path, out>>
        /\ pc[w] = "unborn" /\ master = "spawn" /\ master' \in {"spawn", "wait_call"}
    BY <1>4 DEF Spawn, sync_queue_vars, shared_vars, history_vars
  <2>2. \A u \in Workers : pc'[u] = IF u = w THEN "pull" ELSE pc[u]
    BY <1>4, GotoPc DEF Spawn, IInv
  <2>3. StartInv'
    BY <2>1 DEF RefInv, StartInv
  <2>4. \A u \in Workers : (u \in Holders' <=> u \in Holders) /\ (Reading(u)' <=> Reading(u))
    BY <2>1, <2>2 DEF Holders, Reading
  <2>5. RefInv' /\ Found' = Found
    BY <2>1, <2>2, <2>3, <2>4, QuietKeeps
  <2> QED
    BY <2>1, <2>5, Unseen DEF Simulates
<1>5. CASE WaitCall \/ WaitWake
  <2>1. /\ UNCHANGED <<queue, accepted, scanned, dse, todo, files, visited, pending,
                       next_path, pc, out>>
        /\ master \in {"wait_call", "wait"} /\ master' \in {"wait", "close"}
    BY <1>5 DEF WaitCall, WaitWake, wait_for_worker_completion, completion_wake,
                completion_resleep,
                sync_queue_vars, worker_vars, shared_vars, history_vars
  <2>2. StartInv'
    BY <2>1 DEF RefInv, StartInv
  <2>3. RefInv' /\ Found' = Found
    BY <1>2, <2>1, <2>2
  <2>4. CASE master' = "wait"
    BY <2>1, <2>3, <2>4, Unseen DEF Simulates
  <2>5. CASE master' = "close"
    <3>1. queue = <<>> /\ \A w \in Workers : pc[w] \in {"wait", "done"}
      BY <2>1, <2>5 DEF IInv, NothingLeftAtClose
    <3>2. Holders = {} /\ Elements(queue) = {} /\ Found = accepted
      BY <3>1 DEF Holders, Elements, Found
    <3>3. Found = scanned
      BY <3>2 DEF RefInv, OwnerInv
    <3>4. 1..(next_path - 1) = DOMAIN StartNodes
      BY <2>1, WorkersAssumption DEF RefInv, StartInv
    <3>5. ~(master \in Over) /\ (master \in Over)' = TRUE
          /\ UNCHANGED <<scanned, visited, out, 1..(next_path - 1)>>
      BY <2>1, <2>5
    <3>6. TraversalImpl!Return
      BY <2>3, <3>3, <3>4, <3>5 DEF TraversalImpl!Return
    <3> QED
      BY <2>3, <3>6 DEF Simulates, TraversalImpl!Next
  <2> QED
    BY <2>1, <2>4, <2>5
<1>6. CASE Close \/ NotifyClosed \/ Join
  <2>1. /\ UNCHANGED <<queue, accepted, scanned, dse, todo, files, visited, pending,
                       next_path, pc, out>>
        /\ master \in Over /\ master' \in Over
    BY <1>6 DEF Close, close, NotifyClosed, notify_all, Join,
                sync_queue_vars, worker_vars, shared_vars, history_vars
  <2>2. StartInv'
    BY <2>1 DEF RefInv, StartInv
  <2> QED
    BY <1>2, <2>1, <2>2, Unseen DEF Simulates
<1> QED
  BY <1>1, <1>3, <1>4, <1>5, <1>6 DEF MasterStep

\* What the queue does between the workers is not seen.
LEMMA PullSimulates ==
  ASSUME IInv, RefInv, NEW w \in Workers, Pull(w) \/ Wake(w)
  PROVE  Simulates
<1>1. /\ UNCHANGED <<todo, pending, visited, out, accepted, scanned, master, next_path>>
      /\ pc[w] \in {"pull", "wait"} /\ TypeOK
  BY DEF Pull, Wake, master_vars, shared_vars, history_vars, IInv
<1>2. StartInv'
  BY <1>1 DEF RefInv, StartInv
<1>3. ASSUME NEW label \in {"wait", "done"}, UNCHANGED <<queue, dse, files>>,
             \A u \in Workers : pc'[u] = IF u = w THEN label ELSE pc[u]
      PROVE  RefInv' /\ Found' = Found
  <2>1. \A u \in Workers : (u \in Holders' <=> u \in Holders) /\ (Reading(u)' <=> Reading(u))
    BY <1>1, <1>3 DEF Holders, Reading
  <2> QED
    BY <1>1, <1>2, <1>3, <2>1, QuietKeeps
<1>4. CASE TakeFront /\ Pulled(w) /\ queue # <<>>
  BY <1>1, <1>4, TakeKeeps, Unseen DEF Simulates
<1>5. CASE TakeFront /\ Pulled(w) /\ queue = <<>>
  <2>1. UNCHANGED <<queue, dse,
                    files>>
        /\ \A u \in Workers : pc'[u] = IF u = w THEN "done" ELSE pc[u]
    BY <1>1, <1>5, GotoPc DEF TakeFront, Pulled
  <2> QED
    BY <1>1, <1>3, <2>1, Unseen DEF Simulates
<1>6. CASE pull_front_sleep(w) /\ Goto(w, "wait") /\ UNCHANGED <<dse, files>>
  <2>1. UNCHANGED <<queue, dse,
                    files>>
        /\ \A u \in Workers : pc'[u] = IF u = w THEN "wait" ELSE pc[u]
    BY <1>1, <1>6, GotoPc DEF pull_front_sleep
  <2> QED
    BY <1>1, <1>3, <2>1, Unseen DEF Simulates
<1>7. CASE pc[w] = "wait" /\ pull_front_resleep(w) /\ UNCHANGED <<pc, dse, files>>
  <2>1. UNCHANGED <<queue, dse,
                    files>>
        /\ \A u \in Workers : pc'[u] = IF u = w THEN "wait" ELSE pc[u]
    BY <1>7 DEF pull_front_resleep
  <2> QED
    BY <1>1, <1>3, <2>1, Unseen DEF Simulates
<1> QED
  BY <1>4, <1>5, <1>6, <1>7 DEF Pull, Wake, pull_front, pull_front_wake

\* A directory that cannot be opened is given up, one that was read is finished.
LEMMA FinishSimulates ==
  ASSUME IInv, RefInv, NEW w \in Workers,
         OpenDirFails(w) \/ \E failed \in BOOLEAN : ReaddirEnd(w, failed)
  PROVE  Simulates
<1> DEFINE item == dse[w]
<1>1. CASE OpenDirFails(w)
  <2>1. /\ pc[w] = "open" /\ Finish(w) /\ OpenFails(item.node)
        /\ UNCHANGED <<queue, todo, files, pending, visited, out, accepted, master, next_path>>
    BY <1>1 DEF OpenDirFails, sync_queue_vars, master_vars
  <2>2. RefInv' /\ Found' = Found
    BY <2>1, FinishKeeps
  <2>3. item \in Found \ scanned /\ scanned' = scanned \cup {item}
    BY <2>1 DEF RefInv, OwnerInv, Holders, Found, Finish
  <2>4. UNCHANGED <<visited, out, 1..(next_path - 1), master \in {"close", "notify",
                    "join", "done"}>>
    BY <2>1
  <2>5. TraversalImpl!GiveUp(item)
    BY <2>2, <2>3, <2>4 DEF TraversalImpl!GiveUp
  <2>6. TraversalImpl!OpenFails(item.node)
    BY <2>1, SameTree
  <2> QED
    BY <2>2, <2>3, <2>5, <2>6 DEF Simulates, TraversalImpl!Next
<1>2. ASSUME NEW failed \in BOOLEAN, ReaddirEnd(w, failed)
      PROVE  Simulates
  <2>1. /\ pc[w] = "read" /\ Finish(w) /\ TypeOK
        /\ IF failed THEN item.node \in Flaky ELSE todo[w] = {}
        /\ out' = out (+) SetToBag(files[w])
        /\ todo' = [todo EXCEPT ![w] = {}]
        /\ files' = [files EXCEPT ![w] = {}]
        /\ UNCHANGED <<queue, pending, visited, accepted, master, next_path>>
    BY <1>2 DEF ReaddirEnd, sync_queue_vars, master_vars, IInv
  <2>2. \A u \in Workers \ {w} : todo'[u] = todo[u] /\ files'[u] = files[u]
    BY <2>1 DEF TypeOK
  <2>3. RefInv' /\ Found' = Found
    BY <2>1, <2>2, FinishKeeps
  <2>4. item \in Found \ scanned /\ scanned' = scanned \cup {item}
    BY <2>1 DEF RefInv, OwnerInv, Holders, Found, Finish
  <2>5. Progress(w)
    BY <2>1 DEF RefInv, ReadInv, Reading
  <2>6. Done(w) \subseteq Entries[item.node]
        /\ (Done(w) = Entries[item.node] \/ item.node \in Flaky)
    BY <2>1 DEF Done
  <2>7. out' = TraversalImpl!(+)(out, TraversalImpl!SetToBag(files[w]))
    BY <2>1, SameBags
  <2>8. UNCHANGED <<visited, 1..(next_path - 1), master \in {"close", "notify", "join", "done"}>>
    BY <2>1
  <2>9. \E found \in SUBSET TraversalImpl!MayScan(item, Done(w)) :
          /\ TraversalImpl!MustScan(item, Done(w)) \subseteq found
          /\ out' = TraversalImpl!(+)(out, TraversalImpl!SetToBag(found))
    BY <2>5, <2>7 DEF Progress
  <2>10. TraversalImpl!Finish(item, Done(w))
    BY <2>3, <2>4, <2>5, <2>6, <2>8, <2>9 DEF TraversalImpl!Finish, Progress
  <2>11. ~TraversalImpl!OpenFails(item.node)
    BY <2>5, SameTree DEF Progress
  <2> QED
    BY <2>3, <2>4, <2>6, <2>10, <2>11 DEF Simulates, TraversalImpl!Next
<1> QED
  BY <1>1, <1>2

\* An entry that is a directory not seen before is a Descend; any other is not seen.
LEMMA EntrySimulates ==
  ASSUME IInv, RefInv, NEW w \in Workers, NEW e \in todo[w], NEW kind \in EntryKinds,
         ProcessDirent(w, e, kind)
  PROVE  Simulates
<1> DEFINE item == dse[w]
           id == UniqueFileIdentifier(item, e)
           pushes == IsDescended(e, kind) /\ ~(Follow /\ id \in visited)
<1>1. /\ kind \in Kinds(e) /\ e \in Entries[item.node]
      /\ item \in accepted \ scanned /\ ~OpenFails(item.node)
      /\ UNCHANGED <<scanned, master, next_path, out>>
  BY EntryRead
<1>2. RefInv' /\ IF pushes
                 THEN /\ Found' = Found \cup {Child(item, e)}
                      /\ visited' = IF Follow THEN visited \cup {id} ELSE visited
                      /\ Child(item, e) \notin Found
                 ELSE Found' = Found /\ visited' = visited
  BY EntryKeeps
<1>3. CASE pushes
  <2>1. item \in Found \ scanned
    BY <1>1 DEF Found
  <2>2. \E k \in TraversalImpl!Kinds(e) : TraversalImpl!IsDescended(e, k)
    BY <1>1, <1>3, SameTree
  <2>3. /\ TraversalImpl!Child(item, e) \notin Found
        /\ Found' = Found \cup {TraversalImpl!Child(item, e)}
        /\ Follow => TraversalImpl!UniqueFileIdentifier(item, e) \notin visited
        /\ visited' = IF Follow THEN visited \cup {TraversalImpl!UniqueFileIdentifier(item, e)}
                      ELSE visited
    BY <1>2, <1>3, SameTree
  <2>4. UNCHANGED <<scanned, out, 1..(next_path - 1), master \in {"close", "notify",
                    "join", "done"}>>
    BY <1>1
  <2>5. TraversalImpl!Descend(item, e)
    BY <2>1, <2>2, <2>3, <2>4 DEF TraversalImpl!Descend
  <2>6. ~TraversalImpl!OpenFails(item.node)
    BY <1>1, SameTree
  <2> QED
    BY <1>1, <1>2, <2>1, <2>5, <2>6 DEF Simulates, TraversalImpl!Next
<1>4. CASE ~pushes
  BY <1>1, <1>2, <1>4, Unseen DEF Simulates
<1> QED
  BY <1>3, <1>4

\* Every step is a step of the traversal, or not seen.
LEMMA StepSimulates ==
  ASSUME IInv, IInv', RefInv, [Next]_vars
  PROVE  Simulates
<1>1. ASSUME UNCHANGED <<queue, accepted, scanned, dse, todo, files, visited, pending,
                         next_path, out, master, pc>>
      PROVE  Simulates
  <2>1. \A w \in Workers : (w \in Holders' <=> w \in Holders) /\ (Reading(w)' <=> Reading(w))
    BY <1>1 DEF Holders, Reading
  <2>2. StartInv'
    BY <1>1 DEF RefInv, StartInv
  <2> QED
    BY <1>1, <2>1, <2>2, QuietKeeps, Unseen DEF Simulates
<1>2. ASSUME NEW w \in Workers, OpenDir(w)
      PROVE  Simulates
  <2>1. UNCHANGED <<scanned, visited, out, next_path, master>>
    BY <1>2 DEF OpenDir, master_vars, shared_vars, history_vars
  <2> QED
    BY <1>2, <2>1, OpenKeeps, Unseen DEF Simulates
<1>3. ASSUME NEW w \in Workers, PushDir(w)
      PROVE  Simulates
  <2>1. UNCHANGED <<scanned, visited, out, next_path, master>>
    BY <1>3 DEF PushDir, master_vars, shared_vars
  <2> QED
    BY <1>3, <2>1, PushDirKeeps, Unseen DEF Simulates
<1>4. ASSUME NEW w \in Workers, NotifyOne(w)
      PROVE  Simulates
  <2>1. /\ UNCHANGED <<queue, accepted, scanned, dse, todo, files, visited, pending,
                       next_path, out, master>>
        /\ pc[w] = "notify_one"
    BY <1>4 DEF NotifyOne, notify_one, master_vars, shared_vars, history_vars
  <2>2. \A u \in Workers : pc'[u] = IF u = w THEN "read" ELSE pc[u]
    BY <1>4, GotoPc DEF NotifyOne, IInv
  <2>3. \A u \in Workers : (u \in Holders' <=> u \in Holders) /\ (Reading(u)' <=> Reading(u))
    BY <2>1, <2>2 DEF Holders, Reading
  <2>4. StartInv'
    BY <2>1 DEF RefInv, StartInv
  <2> QED
    BY <2>1, <2>2, <2>3, <2>4, QuietKeeps, Unseen DEF Simulates
<1>5. ASSUME NEW w \in Workers, WorkerStep(w)
      PROVE  Simulates
  BY <1>2, <1>3, <1>4, <1>5, PullSimulates, FinishSimulates, EntrySimulates DEF WorkerStep
<1>6. CASE MasterStep
  BY <1>6, MasterSimulates
<1>7. CASE Spurious
  BY <1>1, <1>7 DEF Spurious, spurious_wakeup, master_vars, worker_vars, shared_vars, history_vars
<1>8. CASE Terminated \/ UNCHANGED vars
  BY <1>1, <1>8 DEF Terminated, vars, sync_queue_vars, master_vars, worker_vars, shared_vars,
                    history_vars
<1> QED
  BY <1>5, <1>6, <1>7, <1>8 DEF Next

-----------------------------------------------------------------------------
(* The theorems                                                             *)

\* Each directory that was found and is not finished is on the queue once or in the hands of one
\* worker (pull_front hands out each element once; HasDirBeenVisited lets one of the threads
\* that meet a directory descend).
THEOREM OneOwner == Spec => [](IInv /\ RefInv)
<1>1. IInv /\ RefInv /\ [Next]_vars => RefInv'
  <2> SUFFICES ASSUME IInv, RefInv, [Next]_vars PROVE RefInv'
    OBVIOUS
  <2>1. IInv'
    BY QueueInvStep, MasterInvStep, NothingLeftStep, MasterNotStrandedStep, NoIdleQueueStep,
       TypeOKStep DEF IInv
  <2> QED
    BY <2>1, StepSimulates DEF Simulates
<1> QED
  BY <1>1, InitRef, InductiveInvariant, PTL DEF Spec

\* The threads of DirTree carry out the traversal of module Traversal (the safety part of
\* ImplementsTraversal): each directory is read once and each file handed over once, and
\* Scandir() goes on to close the queue only when everything found has been read.
THEOREM ThreadsTraverse == Spec => TraversalImpl!Init /\ [][TraversalImpl!Next]_TraversalImpl!vars
<1>1. IInv /\ IInv' /\ RefInv /\ [Next]_vars => [TraversalImpl!Next]_TraversalImpl!vars
  BY StepSimulates DEF Simulates
<1>2. Init => TraversalImpl!Init
  BY InitRef
<1> QED
  BY <1>1, <1>2, OneOwner, InductiveInvariant, PTL DEF Spec
=============================================================================
