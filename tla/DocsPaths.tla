------------------------------ MODULE DocsPaths ------------------------------
(***************************************************************************)
(* Paths of the document store, and the two trees they index.              *)
(*                                                                         *)
(* A path is the sequence of names below one user's directory: the virtual *)
(* path /User/alice/docs/a is <<docs, a>> for alice, and Root is her       *)
(* directory itself.  normalize_path has already dropped empty, "." and    *)
(* ".." segments, so a path is no more than that sequence.                 *)
(*                                                                         *)
(* A tree is a function from the paths that exist to what is there.  The   *)
(* physical tree is the external file system (OpenDAL's Fs service), whose *)
(* operations are modelled as storage_service.rs uses them.                *)
(***************************************************************************)
EXTENDS Naturals, Sequences, SequencesExt

CONSTANTS
  Name,       \* names of files and directories
  Lookalike,  \* <<pattern, name>>: pattern, used unescaped in SQL LIKE, matches name
  Data,       \* file contents
  Folder      \* what a tree holds at a directory

ASSUME LookalikeAssumption ==
  /\ Lookalike \subseteq Name \X Name
  /\ \A n \in Name : <<n, n>> \in Lookalike

ASSUME FolderAssumption == Folder \notin Data

Path == Seq(Name)
Root == <<>>
Spot == Path \ {Root}
Parent(q) == Front(q)

\* q is f or lies below it; its place once f has been moved to t.
Within(q, f) == IsPrefix(f, q)
Rebase(q, f, t) == t \o SubSeq(q, Len(f) + 1, Len(q))

Above(q) == {SubSeq(q, 1, i) : i \in 1 .. Len(q) - 1}

(***************************************************************************)
(* SQL: dir = base OR dir LIKE base/%.  The base is spliced into the       *)
(* pattern unescaped, so each of its names may also match a lookalike.     *)
(***************************************************************************)
LikeBelow(dir, base) ==
  /\ Len(dir) > Len(base)
  /\ \A i \in 1 .. Len(base) : <<base[i], dir[i]>> \in Lookalike

DirInSubtree(dir, base) == dir = base \/ LikeBelow(dir, base)

\* strip_prefix(base).unwrap_or(""): a lookalike's directory loses its tail.
TailBelow(dir, base) ==
  IF IsPrefix(base, dir) THEN SubSeq(dir, Len(base) + 1, Len(dir)) ELSE Root

-----------------------------------------------------------------------------
(* Trees *)

Put(tree, q, v) == [x \in DOMAIN tree \cup {q} |-> IF x = q THEN v ELSE tree[x]]
Without(tree, S) == [x \in DOMAIN tree \ S |-> tree[x]]

IsTree(tree, V) ==
  /\ DOMAIN tree \subseteq Spot
  /\ \A q \in DOMAIN tree : tree[q] \in V

IsDirAt(tree, q) == q = Root \/ (q \in DOMAIN tree /\ tree[q] = Folder)
IsFileAt(tree, q) == q \in DOMAIN tree /\ tree[q] # Folder
Children(tree, q) == {x \in DOMAIN tree : Len(x) = Len(q) + 1 /\ Parent(x) = q}

\* create_dir("q/") succeeds when no file stands at q or above it; it also
\* creates every missing directory above q.
CanCreateDir(tree, q) == \A a \in Above(q) \cup {q} : ~IsFileAt(tree, a)
CreateDir(tree, q) ==
  LET new == (Above(q) \cup {q}) \ (DOMAIN tree \cup {Root})
  IN  [x \in DOMAIN tree \cup new |-> IF x \in new THEN Folder ELSE tree[x]]

\* let _ = create_dir(..): a failure is ignored.
TryCreateDir(tree, q) == IF CanCreateDir(tree, q) THEN CreateDir(tree, q) ELSE tree

\* write(q): creates the directories above q; fails on a directory, or below a file.
CanWrite(tree, q) == ~IsDirAt(tree, q) /\ CanCreateDir(tree, Parent(q))
Write(tree, q, d) == Put(CreateDir(tree, Parent(q)), q, d)

\* rename(f, t), once the directories above t exist: POSIX rename(2).
CanMove(tree, f, t) ==
  /\ f \in DOMAIN tree
  /\ ~Within(t, f)
  /\ IsDirAt(tree, Parent(t))
  /\ IF IsFileAt(tree, f) THEN ~IsDirAt(tree, t)
     ELSE IsDirAt(tree, t) \/ t \notin DOMAIN tree
  /\ t \in DOMAIN tree => Children(tree, t) = {}
Move(tree, f, t) ==
  LET stay == {x \in DOMAIN tree : ~Within(x, f) /\ x # t}
      moved == {Rebase(x, f, t) : x \in {y \in DOMAIN tree : Within(y, f)}}
  IN  [x \in stay \cup moved |->
         IF x \in moved THEN tree[Rebase(x, t, f)] ELSE tree[x]]

\* remove_all(q): q and everything below it.
RemoveAll(tree, q) == Without(tree, {x \in DOMAIN tree : Within(x, q)})

Blank == [x \in {} |-> Folder]
=============================================================================
