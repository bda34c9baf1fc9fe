------------------------- MODULE StorageInvariants -------------------------
(***************************************************************************)
(* The inductive invariants of Storage: what its handlers rely on from one *)
(* await to the next, whatever the others do in between.  TLC checks them  *)
(* on small instances, StorageProofs proves them.                          *)
(***************************************************************************)
EXTENDS Storage

\* Paths that are about to be indexed, written or filed are not the root.
RootedAt(l) ==
  /\ l.pc \in {"saveRow", "archive", "trashRow"} => l.path # Root
  /\ l.pc \in {"renameOwn", "renameKids", "renameDeep", "restoreFile", "restoreRow"}
       => l.to # Root
  /\ l.pc \in {"sweepRow", "copyRow"} => l.cur # Root
Rooted == \A p \in Proc : RootedAt(h[p])

TypeInv == TypeOK /\ Rooted

\* The rows that some query has returned and that may still be used.
Held == purge.rows \cup purge.cur \cup UNION {h[p].sel : p \in Proc}

\* Every identifier in use was drawn before the next one.
Drawn ==
  /\ \A r \in trash \cup Held : r.id < fresh /\ r.blob < fresh
  /\ \A b \in DOMAIN blobs : b < fresh
  /\ \A i \in expired : i < fresh

\* One file row for a blob, deleted rows that are still held included.
OneRowPerBlob ==
  \A r, s \in FileRows(trash \cup Held) : r.blob = s.blob => r = s

\* A blob between its archiving and its row is there, is the request's own
\* and is in no row yet.
StagedApart ==
  \A p \in Proc : h[p].pc \in Archiving =>
    /\ h[p].blob \in DOMAIN blobs
    /\ h[p].blob \notin BlobsOf(trash \cup Held)
    /\ \A q \in Proc \ {p} : h[q].pc \in Archiving => h[q].blob # h[p].blob

Restoring == {"restoreFile", "restoreRow", "dropRow", "eraseOne"}
Working == {"copy", "copyRow", "eraseBlobs"}

\* A row lies below the place loc, as RowsUnder has it.
Below(loc, r) == AtTop(loc) /\ r.form = "rel" /\ DirInSubtree(Parent(r.path), loc.path)

\* What a handler holds is what its later statements will match by key.
Fits(l) ==
  /\ l.pc \in Working => /\ l.rows \subseteq l.sel
                         /\ \A r \in l.sel : Below(l.loc, r)
  /\ l.pc = "eraseBlobs" => \A r \in l.sel : ~r.isDir
  /\ l.pc \in Restoring => \E r \in l.sel :
       /\ l.sel = {r} /\ ~r.isDir /\ r.blob = l.blob
       /\ r.form = l.loc.form /\ r.path = l.loc.path
  /\ l.pc \notin Working \cup Restoring => l.sel = {}

SelectedFits == \A p \in Proc : Fits(h[p])

\* The purger works on expired rows only.
PurgesExpired == \A r \in purge.rows \cup purge.cur : r.id \in expired

\* Without a failed statement, a restore erases after its row has gone.
RestoredUnlisted ==
  faults = 0 => \A p \in Proc : h[p].pc = "eraseOne" => h[p].sel \cap trash = {}

\* The inductive invariant behind BlobsUnshared, DanglingOnlyInFlight and the
\* refinement of BlobLifecycle: whichever handlers overlap, a held row is the
\* only one of its blob and a blob not yet listed belongs to one request.
BlobInv ==
  /\ Drawn /\ OneRowPerBlob /\ StagedApart /\ SelectedFits
  /\ PurgesExpired /\ RestoredUnlisted /\ DanglingOnlyInFlight

\* What the walk over a deleted directory finds lies in a directory of it.
SweptDeep(l) ==
  /\ l.pc = "listDir" => l.to # Root
  /\ l.pc = "sweepRow" => Len(l.cur) > 1
  /\ \A q \in l.files : Len(q) > 1

\* The inductive invariant behind TopRowsAreDirs.
TopInv == TopRowsAreDirs /\ \A p \in Proc : SweptDeep(h[p])

\* The store as the listing's promise: what rows (index) and tree (disk) have to do
\* with each other.  Operators of the two, to be read before and after a step.

\* Above each entry of the tree there are directories.
Whole(tree) == \A q \in DOMAIN tree : \A a \in Above(q) : IsDirAt(tree, a)

\* The rows agree with the tree, leaving out the rows at R and the files at F.
Matches(tree, kind, q) == IF kind = "dir" THEN IsDirAt(tree, q) ELSE IsFileAt(tree, q)
AgreeBut(rows, tree, R, F) ==
  /\ \A q \in DOMAIN rows \ R : Matches(tree, rows[q], q)
  /\ \A q \in DOMAIN tree \ F : IsFileAt(tree, q) => q \in DOMAIN rows
Agree(rows, tree) == AgreeBut(rows, tree, {}, {})

Subtree(f) == {q \in Path : Within(q, f)}
Gone(tree, f) == DOMAIN tree \cap Subtree(f) = {}

\* Rows of the subtree of l.path that the statements of a rename have yet to move:
\* they stand for what the tree has below l.to already.
Unmoved(rows, l) ==
  {q \in DOMAIN rows :
     /\ Within(q, l.path)
     /\ \/ l.pc = "renameOwn"
        \/ l.pc = "renameKids" /\ q # l.path
        \/ l.pc = "renameDeep" /\ q # l.path /\ Parent(q) # l.path}

\* A rename whose rows at U are still to move from f to t: nothing is left at f.
Moving(rows, tree, U, f, t) ==
  /\ ~Within(t, f) /\ ~Within(f, t) /\ Gone(tree, f)
  /\ AgreeBut(rows, tree, U, {Rebase(q, f, t) : q \in U})
  /\ \A q \in U : Matches(tree, rows[q], Rebase(q, f, t))

\* The walk over a deleted directory begins with the directory itself, and leaves
\* nothing of it once that is done.
Sweeping(rows, tree, l) ==
  /\ AgreeBut(rows, tree, Subtree(l.path), Subtree(l.path))
  /\ l.stack \cup l.files \subseteq Subtree(l.path)
  /\ l.pc = "trashDir" => l.stack = {l.path} \/ Gone(tree, l.path)
  /\ l.pc \in {"listDir", "sweep", "sweepRow"} =>
       l.to \in Subtree(l.path) /\ (l.to = l.path \/ Gone(tree, l.path))
  /\ l.pc = "unindexTree" => Gone(tree, l.path)

\* How far rows and tree are apart while a request that is alone is at its step.
Apart(rows, tree, l) ==
  CASE l.pc = "saveRow" -> IsFileAt(tree, l.path) /\ AgreeBut(rows, tree, {}, {l.path})
    [] l.pc = "mkdirDisk" ->
         l.path \in DOMAIN rows /\ rows[l.path] = "dir" /\ AgreeBut(rows, tree, {l.path}, {})
    [] l.pc \in {"renameOwn", "renameKids", "renameDeep"} ->
         Moving(rows, tree, Unmoved(rows, l), l.path, l.to)
    [] l.pc \in {"trashRow", "unindex"} ->
         l.path \notin DOMAIN tree /\ AgreeBut(rows, tree, {l.path}, {})
    [] l.pc \in {"trashDir", "listDir", "sweep", "sweepRow", "unindexTree"} ->
         Sweeping(rows, tree, l)
    [] l.pc = "restoreRow" -> IsFileAt(tree, l.to) /\ AgreeBut(rows, tree, {}, {l.to})
    [] l.pc = "copyRow" -> Matches(tree, l.made, l.cur) /\ AgreeBut(rows, tree, {}, {l.cur})
    [] OTHER -> Agree(rows, tree)

\* The inductive invariant behind AgreeWhileClean.
Settled == clean => \A p \in Proc : Apart(index, disk, h[p])
AgreeInv == Whole(disk) /\ (Cardinality(Proc) = 1 => Settled)
=============================================================================
