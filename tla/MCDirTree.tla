------------------------------ MODULE MCDirTree ------------------------------
(***************************************************************************)
(* Small file systems and thread counts on which TLC checks DirTree.       *)
(***************************************************************************)
EXTENDS DirTree, TLC

CONSTANTS w1, w2

TwoWorkers == {w1, w2}

Entry(name, d_type, d_ino, node) ==
  [name |-> name, d_type |-> d_type, link |-> d_type = "lnk", d_ino |-> d_ino, node |-> node]

Dev1(types) == [n \in DOMAIN types |-> 1]

AnyFile(name) == name # "x.o"
AnyDir(name) == name = ".git"
NoNodes == {}

-----------------------------------------------------------------------------
(* A tree that is hard to read, links not followed:                         *)
(*    top/  ln (a link to sub1)  .git/ (excluded)                           *)
(*          sub1/ a.c  x.o (excluded)    sub2/ sub3/ b.c gone               *)
(* with the command line  ucg PAT top a.c nosuchfile.  readdir() fails in    *)
(* sub2, sub3 cannot be opened, and only stat() tells the types of sub3,      *)
(* whose dirent has no inode number, and of gone, which is removed before it. *)

PlainType == ("top" :> "dir") @@ ("git" :> "dir") @@ ("sub1" :> "dir") @@ ("sub2" :> "dir")
             @@ ("sub3" :> "dir") @@ ("a" :> "reg") @@ ("b" :> "reg") @@ ("x" :> "reg")
PlainDev == Dev1(PlainType)
PlainIno == ("top" :> 1) @@ ("git" :> 2) @@ ("sub1" :> 3) @@ ("sub2" :> 4) @@ ("sub3" :> 5)
            @@ ("a" :> 6) @@ ("b" :> 7) @@ ("x" :> 8)
PlainEntries ==
  ("top" :> {Entry("ln", "lnk", 9, "sub1"), Entry(".git", "dir", 2, "git"),
             Entry("sub1", "dir", 3, "sub1"), Entry("sub2", "dir", 4, "sub2")})
  @@ ("sub1" :> {Entry("a.c", "reg", 6, "a"), Entry("x.o", "reg", 8, "x")})
  @@ ("sub2" :> {Entry("sub3", "unknown", 0, "sub3"), Entry("b.c", "reg", 7, "b"),
                 Entry("gone", "unknown", 10, "nosuchfile")})
  @@ ("sub3" :> {}) @@ ("git" :> {})
PlainStart == <<"top", "a", "nosuchfile">>
LockedNodes == {"sub3"}
BadNodes == {"sub2"}

-----------------------------------------------------------------------------
(* The cross-linked tree of tests/dir_tree_traversal.at, links followed:    *)
(*    ./dir1/dir2/ file1.py link_to_dir3      ./dir1/dir3/ file1.s link_to_dir2 *)

CrossType == ("cwd" :> "dir") @@ ("dir1" :> "dir") @@ ("dir2" :> "dir") @@ ("dir3" :> "dir")
             @@ ("py" :> "reg") @@ ("s" :> "reg")
CrossDev == Dev1(CrossType)
CrossIno == ("cwd" :> 1) @@ ("dir1" :> 2) @@ ("dir2" :> 3) @@ ("dir3" :> 4) @@ ("py" :> 5)
            @@ ("s" :> 6)
CrossEntries ==
  ("cwd" :> {Entry("dir1", "dir", 2, "dir1")})
  @@ ("dir1" :> {Entry("dir2", "dir", 3, "dir2"), Entry("dir3", "dir", 4, "dir3")})
  @@ ("dir2" :> {Entry("file1.py", "reg", 5, "py"), Entry("link_to_dir3", "lnk", 7, "dir3")})
  @@ ("dir3" :> {Entry("file1.s", "reg", 6, "s"), Entry("link_to_dir2", "lnk", 8, "dir2")})
CrossStart == <<"cwd">>

\* What that test expects of every run, single- or multithreaded: 12 matching lines, which are
\* four scans of the two three-line files, and two warnings, both about a recursive loop.
CrossLinkedTest ==
  master = "done" =>
    /\ BagCardinality(out) = 4
    /\ Cardinality(warned) = 2
    /\ \A x \in warned : x.kind = "loop"

-----------------------------------------------------------------------------
(* Another one with a directory that cannot be opened, and a dangling link.   *)

FaultType == ("top" :> "dir") @@ ("locked" :> "dir") @@ ("bad" :> "dir") @@ ("deep" :> "dir")
             @@ ("f" :> "reg") @@ ("g" :> "reg") @@ ("pipe" :> "other")
FaultDev == Dev1(FaultType)
FaultIno == ("top" :> 1) @@ ("locked" :> 2) @@ ("bad" :> 3) @@ ("deep" :> 4) @@ ("f" :> 5)
            @@ ("g" :> 6) @@ ("pipe" :> 7)
FaultEntries ==
  ("top" :> {Entry("locked", "dir", 2, "locked"), Entry("bad", "dir", 3, "bad"),
             Entry("dangling", "lnk", 9, "nosuchfile"), Entry("p", "other", 7, "pipe")})
  @@ ("locked" :> {})
  @@ ("bad" :> {Entry("f", "unknown", 0, "f"), Entry("deep", "unknown", 0, "deep")})
  @@ ("deep" :> {Entry("g", "reg", 6, "g")})
FaultStart == <<"top">>
LockedFault == {"locked"}

-----------------------------------------------------------------------------
(* Two devices under one start path, links followed: sub on the first one,  *)
(* and below the mount point mnt a directory of the second device that      *)
(* happens to have the same inode number.                                   *)

MountType == ("top" :> "dir") @@ ("sub" :> "dir") @@ ("mnt" :> "dir") @@ ("other" :> "dir")
             @@ ("f" :> "reg") @@ ("g" :> "reg")
MountDev == ("top" :> 1) @@ ("sub" :> 1) @@ ("f" :> 1) @@ ("mnt" :> 2) @@ ("other" :> 2)
            @@ ("g" :> 2)
MountIno == ("top" :> 1) @@ ("sub" :> 5) @@ ("f" :> 6) @@ ("mnt" :> 1) @@ ("other" :> 5)
            @@ ("g" :> 6)
MountEntries ==
  ("top" :> {Entry("sub", "dir", 5, "sub"), Entry("mnt", "dir", 7, "mnt")})
  @@ ("sub" :> {Entry("f", "reg", 6, "f")})
  @@ ("mnt" :> {Entry("other", "dir", 5, "other")})
  @@ ("other" :> {Entry("g", "reg", 6, "g")})
MountStart == <<"top">>
=============================================================================
