------------------------------ MODULE Traversal ------------------------------
(***************************************************************************)
(* What a directory traversal promises, whatever threads carry it out:     *)
(* every directory that is to be searched is read once, every file that is *)
(* to be scanned is handed over once, and the traversal returns only when  *)
(* nothing is left to read.  DirTree implements it.                        *)
(***************************************************************************)
EXTENDS FileTree, FiniteSets, Bags

CONSTANT StartNodes   \* what each command-line path resolves to

VARIABLES
  reached,   \* the directories found so far
  scanned,   \* those among them that have been read (or could not be)
  seen,      \* the identifiers of the directories found below the start paths
  out,       \* the bag of the files handed over
  started,   \* the command-line paths that were looked at
  returned   \* the traversal is over

vars == <<reached, scanned, seen, out, started, returned>>

Init ==
  /\ reached = {} /\ scanned = {} /\ seen = {}
  /\ out = EmptyBag
  /\ started = {}
  /\ returned = FALSE

StartIs(i, type) == StartNodes[i] # Missing /\ NodeType[StartNodes[i]] = type

Start(i) ==
  /\ i \notin started
  /\ started' = started \cup {i}
  /\ reached' = IF StartIs(i, "dir")
                THEN reached \cup {StartItem(i, StartNodes[i])} ELSE reached
  /\ out' = IF StartIs(i, "reg") THEN out (+) SetToBag({StartFile(i)}) ELSE out
  /\ UNCHANGED <<scanned, seen, returned>>

\* A subdirectory is found; following links, only under an identifier not seen before.
Descend(item, e) ==
  LET id == UniqueFileIdentifier(item, e)
  IN  /\ item \in reached \ scanned
      /\ \E kind \in Kinds(e) : IsDescended(e, kind)
      /\ Child(item, e) \notin reached
      /\ Follow => id \notin seen
      /\ reached' = reached \cup {Child(item, e)}
      /\ seen' = IF Follow THEN seen \cup {id} ELSE seen
      /\ UNCHANGED <<scanned, out, started, returned>>

\* What the entries E of an item must, and may, contribute to the search.
MustScan(item, E) ==
  {FilePath(item, e) : e \in {x \in E : \A kind \in Kinds(x) : IsScannedFile(x, kind)}}
MayScan(item, E) ==
  {FilePath(item, e) : e \in {x \in E : \E kind \in Kinds(x) : IsScannedFile(x, kind)}}
AllDescended(item, E) ==
  \A e \in E :
    (\A kind \in Kinds(e) : IsDescended(e, kind)) =>
      \/ Child(item, e) \in reached
      \/ Follow /\ UniqueFileIdentifier(item, e) \in seen

\* The directory has been read as far as the entries in E: all of them, unless reading it can
\* fail.  All files among them are handed over, and all subdirectories have been found.
Finish(item, E) ==
  LET node == item.node
  IN  /\ item \in reached \ scanned
      /\ E = Entries[node] \/ (node \in Flaky /\ E \subseteq Entries[node])
      /\ AllDescended(item, E)
      /\ \E found \in SUBSET MayScan(item, E) :
           /\ MustScan(item, E) \subseteq found
           /\ out' = out (+) SetToBag(found)
      /\ scanned' = scanned \cup {item}
      /\ UNCHANGED <<reached, seen, started, returned>>

\* A directory that cannot be opened contributes nothing.
GiveUp(item) ==
  /\ item \in reached \ scanned
  /\ scanned' = scanned \cup {item}
  /\ UNCHANGED <<reached, seen, out, started, returned>>

Return ==
  /\ started = DOMAIN StartNodes
  /\ reached = scanned
  /\ ~returned
  /\ returned' = TRUE
  /\ UNCHANGED <<reached, scanned, seen, out, started>>

Next ==
  \/ \E i \in DOMAIN StartNodes : Start(i)
  \/ \E item \in {x \in reached : ~OpenFails(x.node)} :
       \/ \E e \in Entries[item.node] : Descend(item, e)
       \/ \E E \in SUBSET Entries[item.node] : Finish(item, E)
  \/ \E item \in {x \in reached : OpenFails(x.node)} : GiveUp(item)
  \/ Return

\* The traversal comes to its end.
Spec == Init /\ [][Next]_vars /\ WF_vars(Next)
=============================================================================
