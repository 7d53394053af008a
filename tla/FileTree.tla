------------------------------ MODULE FileTree ------------------------------
(***************************************************************************)
(* The file system a traversal walks, and what DirTree::ProcessDirent      *)
(* (src/src/libext/DirTree.cpp) and the FileID it creates make of one      *)
(* directory entry.  Constants and constant operators only: the tree does  *)
(* not change while it is walked.                                          *)
(***************************************************************************)
EXTENDS Naturals, Sequences

CONSTANTS
  NodeType,      \* [node -> "dir", "reg" or "other"]: what stat() says of an inode
  NodeDev,       \* [node -> st_dev]
  NodeIno,       \* [node -> st_ino]
  Entries,       \* [directory node -> its entries, without "." and ".."]
  Missing,       \* what a dangling link, or a name that has vanished, resolves to
  Unopenable,    \* directory nodes that cannot be opened
  Flaky,         \* directory nodes whose readdir() may fail part way
  IncludedFile(_),  \* m_file_basename_filter
  ExcludedDir(_),   \* m_dir_basename_filter
  Recurse,       \* m_recurse
  Follow         \* m_follow_symlinks

\* An entry is [name, d_type, link, d_ino, node]: d_type is what the dirent says ("dir", "reg",
\* "lnk", "unknown" or "other"), link whether it is a symbolic link, d_ino the inode number
\* in the dirent (0 on file systems that give none), node what the name resolves to.

Node == DOMAIN NodeType

ASSUME FileTreeAssumption ==
  /\ Missing \notin Node
  /\ \A n \in Node : NodeType[n] \in {"dir", "reg", "other"} /\ NodeDev[n] \in Nat
  /\ DOMAIN Entries = {n \in Node : NodeType[n] = "dir"}
  /\ \A n \in DOMAIN Entries : \A e \in Entries[n] :
       /\ e.name \in STRING
       /\ e.node \in Node \cup {Missing}
       /\ e.node = Missing => e.d_ino # 0
       /\ \A x \in Entries[n] : x.name = e.name => x = e

\* The directory item a FileID stands for: the command-line path it was reached from (its
\* index) and the names on the way, the directory there, and the device number in the FileID.
Item(start, path, node, dev) == [start |-> start, path |-> path, node |-> node, dev |-> dev]

ItemType == [start : Nat, path : Seq(STRING), node : Node \cup {Missing}, dev : Nat]

-----------------------------------------------------------------------------

\* ProcessDirent stats an entry when the dirent does not say what it is, or says it is a link
\* and links are followed.
NeedsStat(e) == e.d_type = "unknown" \/ (Follow /\ e.d_type = "lnk")

\* fstatat() follows the link exactly when links are followed.
StatFails(e) == NeedsStat(e) /\ e.node = Missing /\ (Follow \/ ~e.link)

\* The kinds an entry may be taken for.  ProcessDirent ignores the result of FStatAt, so after
\* a failure it reads an uninitialized struct stat, which may look like anything.
Kinds(e) ==
  IF ~NeedsStat(e) THEN {e.d_type}
  ELSE IF StatFails(e) THEN {"dir", "reg", "lnk", "other"}
  ELSE IF e.link /\ ~Follow THEN {"lnk"}
  ELSE {NodeType[e.node]}

\* Whether an entry of the kind is passed on: a file to the scanners, a directory to the queue.
IsScannedFile(e, kind) == kind = "reg" /\ IncludedFile(e.name)
IsDescended(e, kind) == kind = "dir" /\ Recurse /\ ~ExcludedDir(e.name)

\* FileID::SetDevIno and LazyLoadStatInfo: a FileID made from a dirent takes the device number of
\* its parent's FileID and the inode number in the dirent; only without one is it stat()ed.
Child(item, e) ==
  Item(item.start, Append(item.path, e.name), e.node,
       IF e.d_ino = 0 THEN NodeDev[e.node] ELSE item.dev)

\* A file is handed to the scanners by the path it was found under.
FilePath(item, e) == <<item.start, Append(item.path, e.name)>>

\* Mutant: what the entry resolves to is identified, not the entry.
UniqueFileIdentifier_resolved(item, e) == <<NodeDev[e.node], NodeIno[e.node]>>

\* GetUniqueFileIdentifier() of that FileID.
UniqueFileIdentifier(item, e) ==
  IF e.d_ino = 0 THEN <<NodeDev[e.node], NodeIno[e.node]>> ELSE <<item.dev, e.d_ino>>

OpenFails(node) == node \notin DOMAIN Entries \ Unopenable

\* What Scandir makes of the i-th command-line path.
StartFile(i) == <<i, <<>>>>
StartItem(i, node) == Item(i, <<>>, node, NodeDev[node])

=============================================================================
