------------------------------- MODULE Storage -------------------------------
(***************************************************************************)
(* The document store of crates/storage: StorageServiceImpl.               *)
(*                                                                         *)
(* The store keeps one thing in three places, and no transaction spans     *)
(* them: the physical tree (disk), the rows of storage.cloud_files that    *)
(* list it (index), and for deleted files a row of storage.trash_items     *)
(* (trash) naming a blob under .Trash/blobs (blobs).  A request handler    *)
(* is a sequence of awaits, each one statement or one file operation, and  *)
(* handlers interleave between them.  One action here is one such step;    *)
(* two awaits are one action only when the first neither changes state nor *)
(* decides anything the second does not decide again.                      *)
(*                                                                         *)
(* All rows, paths and blobs carry the owner, so the module models one     *)
(* owner's part of the store, used by several sessions at once (Proc) and  *)
(* by the purger.                                                          *)
(***************************************************************************)
EXTENDS DocsPaths, FiniteSets

CONSTANTS
  Proc,        \* handler slots: requests in flight at once
  Paths,       \* paths requests may name
  Enabled,     \* kinds of request that arrive
  MaxOps,      \* bound: requests accepted
  MaxFaults    \* bound: failed statements plus crashes

OpKinds == {"save", "mkdir", "rename", "delete", "trashDelete", "restore"}

ASSUME ConstAssumption ==
  /\ Paths \subseteq Spot
  /\ Enabled \subseteq OpKinds
  /\ MaxOps \in Nat
  /\ MaxFaults \in Nat

VARIABLES
  disk,     \* physical tree of the owner, .Trash left out
  index,    \* rows of storage.cloud_files, by dir and name (unique)
  trash,    \* rows of storage.trash_items
  blobs,    \* files under .Trash/blobs, by their random name
  fresh,    \* the next random identifier
  expired,  \* ids of trash rows older than 30 days
  h,        \* handlers: program counter and locals
  purge,    \* the purger: rows of its query still to handle, and the current one
  ops,      \* requests accepted
  faults,   \* failed statements and crashes so far
  clean     \* history: no error so far, neither returned nor dropped

store == <<disk, index, trash, blobs, fresh, expired>>
vars == <<disk, index, trash, blobs, fresh, expired, h, purge, ops, faults, clean>>

-----------------------------------------------------------------------------
(* Trash rows.  A row keeps original_dir and name: `path' is both, below    *)
(* the root its form names.  A file deleted on its own has the absolute     *)
(* directory (form "user": /User/alice/..), one deleted with its directory  *)
(* and the directories themselves the directory below the owner's ("rel").  *)

NoBlob == 0
Row == [id : Nat, form : {"user", "rel"}, path : Spot, isDir : BOOLEAN, blob : Nat]
Place == [form : {"user", "rel"}, path : Path]   \* original_dir and name of a row

FileRows(S) == {r \in S : ~r.isDir}
BlobsOf(S) == {r.blob : r \in FileRows(S)}
RowsAt(loc) == {r \in trash : r.form = loc.form /\ r.path = loc.path}

\* original_dir is "/": the only key the handlers that build it without a
\* leading slash ("docs" where the table holds "/docs") ever match.
AtTop(loc) == loc.form = "rel" /\ Len(loc.path) = 1

\* Rows with original_dir = base or like base/%, base being loc without its slash.
RowsUnder(loc) ==
  {r \in trash : AtTop(loc) /\ r.form = "rel" /\ DirInSubtree(Parent(r.path), loc.path)}

\* Places a request under /Trash can name: those of rows that exist, and one that does not.
Places == {[form |-> r.form, path |-> r.path] : r \in trash}

-----------------------------------------------------------------------------
(* Handlers *)

PC == {"idle", "saveRow", "mkdirDisk", "renameOwn", "renameKids", "renameDeep",
       "archive", "trashRow", "trashDir", "listDir", "sweep", "sweepRow",
       "unindexTree", "unindex", "collect", "restoreFile", "restoreRow", "dropRow",
       "eraseOne", "restoreDir", "copy", "copyRow", "eraseBlobs", "dropRows", "dropDirRow"}

Idle == [pc |-> "idle", path |-> Root, to |-> Root, cur |-> Root, stack |-> {},
         files |-> {}, loc |-> [form |-> "rel", path |-> Root],
         sel |-> {}, rows |-> {}, made |-> "file", blob |-> NoBlob]

Asleep == [rows |-> {}, cur |-> {}]

Init ==
  /\ disk = Blank /\ index = Blank /\ blobs = Blank
  /\ trash = {} /\ expired = {}
  /\ fresh = 1
  /\ h = [p \in Proc |-> Idle]
  /\ purge = Asleep
  /\ ops = 0 /\ faults = 0 /\ clean = TRUE

Accept(p, kind) ==
  /\ h[p].pc = "idle"
  /\ kind \in Enabled
  /\ ops < MaxOps
  /\ ops' = ops + 1
  /\ UNCHANGED <<faults, purge>>

At(p, pc) == h[p].pc = pc /\ UNCHANGED <<ops, faults, purge>>

\* Go on with new locals, answer Ok, answer an error.
GotoIf(p, locals, fine) == h' = [h EXCEPT ![p] = locals] /\ clean' = (clean /\ fine)
Goto(p, locals) == GotoIf(p, locals, TRUE)
Answer(p) == h' = [h EXCEPT ![p] = Idle] /\ UNCHANGED clean
Fail(p) == h' = [h EXCEPT ![p] = Idle] /\ clean' = FALSE
Jump(p, pc) == Goto(p, [h[p] EXCEPT !.pc = pc])

-----------------------------------------------------------------------------
(* save_file, save_file_from_path: write, then upsert the row. *)

Save(p) ==
  /\ Accept(p, "save")
  /\ \E q \in Paths, d \in Data :
       \/ /\ CanWrite(disk, q)
          /\ disk' = Write(disk, q, d)
          /\ Goto(p, [Idle EXCEPT !.pc = "saveRow", !.path = q])
       \/ /\ ~CanWrite(disk, q)
          /\ Fail(p) /\ UNCHANGED disk
  /\ UNCHANGED <<index, trash, blobs, fresh, expired>>

\* Mutant: the row is keyed by the parent directory alone.
SaveRowOfParent(p) ==
  /\ At(p, "saveRow")
  /\ index' = Put(index, Parent(h[p].path), "file")
  /\ Answer(p)
  /\ UNCHANGED <<disk, trash, blobs, fresh, expired>>

SaveRow(p) ==
  /\ At(p, "saveRow")
  /\ index' = Put(index, h[p].path, "file")
  /\ Answer(p)
  /\ UNCHANGED <<disk, trash, blobs, fresh, expired>>

(* mkdir: insert the row, unique by (user, dir, name), then create the directory. *)

Mkdir(p) ==
  /\ Accept(p, "mkdir")
  /\ \E q \in Paths :
       \/ /\ q \notin DOMAIN index
          /\ index' = Put(index, q, "dir")
          /\ Goto(p, [Idle EXCEPT !.pc = "mkdirDisk", !.path = q])
       \/ /\ q \in DOMAIN index
          /\ Fail(p) /\ UNCHANGED index
  /\ UNCHANGED <<disk, trash, blobs, fresh, expired>>

MkdirDisk(p) ==
  /\ At(p, "mkdirDisk")
  /\ disk' = TryCreateDir(disk, h[p].path)
  /\ IF CanCreateDir(disk, h[p].path) THEN Answer(p) ELSE Fail(p)
  /\ UNCHANGED <<index, trash, blobs, fresh, expired>>

(* rename: move on disk, then three updates of the rows. *)

Rename(p) ==
  /\ Accept(p, "rename")
  /\ \E f, t \in Paths :
       LET ready == TryCreateDir(disk, Parent(t)) IN
       \/ /\ CanMove(ready, f, t)
          /\ disk' = Move(ready, f, t)
          /\ Goto(p, [Idle EXCEPT !.pc = "renameOwn", !.path = f, !.to = t])
       \/ /\ ~CanMove(ready, f, t)
          /\ disk' = ready
          /\ Fail(p)
  /\ UNCHANGED <<index, trash, blobs, fresh, expired>>

\* UPDATE of the rows at S, to[q] being the new place of q: fails as a whole
\* when the unique index would be violated.
UpdateRows(p, S, to, next) ==
  LET clash == \/ \E q \in S : to[q] \in DOMAIN index \ {q}
               \/ \E q, r \in S : q # r /\ to[q] = to[r]
      new == {to[q] : q \in S}
  IN  IF clash THEN Fail(p) /\ UNCHANGED index
      ELSE /\ index' = [x \in (DOMAIN index \ S) \cup new |->
                          IF x \in new THEN index[CHOOSE q \in S : to[q] = x] ELSE index[x]]
           /\ IF next = "idle" THEN Answer(p) ELSE Jump(p, next)

RenameOwn(p) ==
  /\ At(p, "renameOwn")
  /\ LET S == {h[p].path} \cap DOMAIN index
     IN  UpdateRows(p, S, [q \in S |-> h[p].to], "renameKids")
  /\ UNCHANGED <<disk, trash, blobs, fresh, expired>>

\* Mutant: the update of the direct children is forgotten.
RenameKidsForgotten(p) ==
  /\ At(p, "renameKids")
  /\ Jump(p, "renameDeep")
  /\ UNCHANGED store

RenameKids(p) ==
  /\ At(p, "renameKids")
  /\ LET S == {q \in DOMAIN index : Parent(q) = h[p].path}
     IN  UpdateRows(p, S, [q \in S |-> Append(h[p].to, Last(q))], "renameDeep")
  /\ UNCHANGED <<disk, trash, blobs, fresh, expired>>

\* The prefix is cut by length, whatever the pattern matched there.
RenameDeep(p) ==
  /\ At(p, "renameDeep")
  /\ LET S == {q \in DOMAIN index : LikeBelow(Parent(q), h[p].path)}
     IN  UpdateRows(p, S, [q \in S |-> Rebase(q, h[p].path, h[p].to)], "idle")
  /\ UNCHANGED <<disk, trash, blobs, fresh, expired>>

-----------------------------------------------------------------------------
(* delete *)

Delete(p) ==
  /\ Accept(p, "delete")
  /\ \E q \in Paths :
       \/ q \notin DOMAIN disk /\ Fail(p)
       \/ IsFileAt(disk, q) /\ Goto(p, [Idle EXCEPT !.pc = "archive", !.path = q])
       \/ /\ IsDirAt(disk, q)
          /\ Goto(p, [Idle EXCEPT !.pc = "trashDir", !.path = q, !.stack = {q}])
  /\ UNCHANGED store

\* Mutant: blobs named by content, as hash_and_archive_file's name says.
ArchiveByHash(p, q, locals) ==
  /\ IsFileAt(disk, q)
  /\ disk' = Without(disk, {q})
  /\ blobs' = Put(blobs, 1, disk[q])
  /\ fresh' = fresh + 1
  /\ Goto(p, [locals EXCEPT !.cur = q, !.blob = 1])
  /\ UNCHANGED <<index, trash, expired>>

\* hash_and_archive_file: move the file to a blob with a random name.
Archive(p, q, locals) ==
  \/ /\ IsFileAt(disk, q)
     /\ disk' = Without(disk, {q})
     /\ blobs' = Put(blobs, fresh, disk[q])
     /\ fresh' = fresh + 1
     /\ Goto(p, [locals EXCEPT !.cur = q, !.blob = fresh])
     /\ UNCHANGED <<index, trash, expired>>
  \/ /\ ~IsFileAt(disk, q)
     /\ Fail(p)
     /\ UNCHANGED store

ArchiveFile(p) ==
  /\ At(p, "archive")
  /\ Archive(p, h[p].path, [h[p] EXCEPT !.pc = "trashRow"])

\* upsert_trash_file_item and insert_trash_dir_item: plain inserts, the table
\* has no unique key but the random id.
InsertRow(form, path, isDir, blob) ==
  /\ trash' = trash \cup {[id |-> fresh, form |-> form, path |-> path,
                           isDir |-> isDir, blob |-> blob]}
  /\ fresh' = fresh + 1
  /\ UNCHANGED <<disk, index, blobs, expired>>

\* Mutant: the relative directory, as trash_directory_recursive has it.
TrashRowRelative(p) ==
  /\ At(p, "trashRow")
  /\ InsertRow("rel", h[p].path, FALSE, h[p].blob)
  /\ Jump(p, "unindex")

TrashRow(p) ==
  /\ At(p, "trashRow")
  /\ InsertRow("user", h[p].path, FALSE, h[p].blob)
  /\ Jump(p, "unindex")

\* trash_directory_recursive, one directory of its stack at a time.  The stack
\* is in listing order, which is the file system's: here, any order.
TrashDir(p) ==
  /\ At(p, "trashDir")
  /\ \E q \in h[p].stack :
       /\ InsertRow("rel", q, TRUE, NoBlob)
       /\ Goto(p, [h[p] EXCEPT !.pc = "listDir", !.to = q, !.stack = @ \ {q}])

ListDir(p) ==
  /\ At(p, "listDir")
  /\ LET found == Children(disk, h[p].to)
     IN  Goto(p, [h[p] EXCEPT !.pc = "sweep",
                              !.files = {q \in found : IsFileAt(disk, q)},
                              !.stack = @ \cup {q \in found : IsDirAt(disk, q)}])
  /\ UNCHANGED store

SweepFile(p) ==
  /\ At(p, "sweep")
  /\ \E q \in h[p].files :
       Archive(p, q, [h[p] EXCEPT !.pc = "sweepRow", !.files = @ \ {q}])

SweepRow(p) ==
  /\ At(p, "sweepRow")
  /\ InsertRow("rel", h[p].cur, FALSE, h[p].blob)
  /\ Jump(p, "sweep")

\* remove_all on the directory just listed.
RemoveDir(p) ==
  /\ At(p, "sweep")
  /\ h[p].files = {}
  /\ disk' = RemoveAll(disk, h[p].to)
  /\ Jump(p, IF h[p].stack = {} THEN "unindexTree" ELSE "trashDir")
  /\ UNCHANGED <<index, trash, blobs, fresh, expired>>

UnindexTree(p) ==
  /\ At(p, "unindexTree")
  /\ index' = Without(index, {q \in DOMAIN index : DirInSubtree(Parent(q), h[p].path)})
  /\ Jump(p, "unindex")
  /\ UNCHANGED <<disk, trash, blobs, fresh, expired>>

Unindex(p) ==
  /\ At(p, "unindex")
  /\ index' = Without(index, {h[p].path})
  /\ Answer(p)
  /\ UNCHANGED <<disk, trash, blobs, fresh, expired>>

-----------------------------------------------------------------------------
(* delete under /Trash: delete_trash_item_recursive.  Its key has no        *)
(* leading slash, so it finds a row only at the top; what is not found is   *)
(* answered Ok.  No file row is ever at the top (TopRowsAreDirs), so the    *)
(* handler's branch for a file never runs.                                  *)

TrashDelete(p) ==
  /\ Accept(p, "trashDelete")
  /\ \E loc \in Places :
       IF AtTop(loc)
       THEN Goto(p, [Idle EXCEPT !.pc = "collect", !.loc = loc])
       ELSE Answer(p)
  /\ UNCHANGED store

Collect(p) ==
  /\ At(p, "collect")
  /\ LET found == FileRows(RowsUnder(h[p].loc))
     IN  Goto(p, [h[p] EXCEPT !.pc = "eraseBlobs", !.sel = found, !.rows = found])
  /\ UNCHANGED store

\* Shared with the restore of a directory: the blobs one by one, then the rows.
EraseBlob(p) ==
  /\ At(p, "eraseBlobs")
  /\ \E r \in h[p].rows :
       /\ blobs' = Without(blobs, {r.blob})
       /\ Goto(p, [h[p] EXCEPT !.rows = @ \ {r}])
  /\ UNCHANGED <<disk, index, trash, fresh, expired>>

\* Mutant: only the rows of directories are deleted.
DropRowsOfDirs(p) ==
  /\ At(p, "eraseBlobs")
  /\ h[p].rows = {}
  /\ trash' = trash \ {r \in RowsUnder(h[p].loc) : r.isDir}
  /\ Goto(p, [h[p] EXCEPT !.pc = "dropDirRow", !.sel = {}])
  /\ UNCHANGED <<disk, index, blobs, fresh, expired>>

DropRows(p) ==
  /\ At(p, "eraseBlobs")
  /\ h[p].rows = {}
  /\ trash' = trash \ RowsUnder(h[p].loc)
  /\ Goto(p, [h[p] EXCEPT !.pc = "dropDirRow", !.sel = {}])
  /\ UNCHANGED <<disk, index, blobs, fresh, expired>>

DropDirRow(p) ==
  /\ At(p, "dropDirRow")
  /\ trash' = trash \ {r \in RowsAt(h[p].loc) : r.isDir}
  /\ Answer(p)
  /\ UNCHANGED <<disk, index, blobs, fresh, expired>>

-----------------------------------------------------------------------------
(* rename from /Trash: restore.  A file is written, indexed, dropped from   *)
(* the trash by its key and only then erased.                               *)

Restore(p) ==
  /\ Accept(p, "restore")
  /\ \E r \in trash, t \in Paths :
       LET locals == [Idle EXCEPT !.loc = [form |-> r.form, path |-> r.path], !.to = t] IN
       IF r.isDir
       THEN Goto(p, [locals EXCEPT !.pc = "restoreDir"])
       ELSE Goto(p, [locals EXCEPT !.pc = "restoreFile", !.sel = {r}, !.blob = r.blob])
  /\ UNCHANGED store

RestoreFile(p) ==
  /\ At(p, "restoreFile")
  /\ \/ /\ h[p].blob \in DOMAIN blobs /\ CanWrite(disk, h[p].to)
        /\ disk' = Write(disk, h[p].to, blobs[h[p].blob])
        /\ Jump(p, "restoreRow")
     \/ /\ ~(h[p].blob \in DOMAIN blobs /\ CanWrite(disk, h[p].to))
        /\ Fail(p) /\ UNCHANGED disk
  /\ UNCHANGED <<index, trash, blobs, fresh, expired>>

\* The size for the row is read from the written file: gone, the request fails.
RestoreRow(p) ==
  /\ At(p, "restoreRow")
  /\ \/ /\ h[p].to \in DOMAIN disk
        /\ index' = Put(index, h[p].to, "file")
        /\ Jump(p, "dropRow")
     \/ /\ h[p].to \notin DOMAIN disk
        /\ Fail(p) /\ UNCHANGED index
  /\ UNCHANGED <<disk, trash, blobs, fresh, expired>>

DropRow(p) ==
  /\ At(p, "dropRow")
  /\ trash' = trash \ FileRows(RowsAt(h[p].loc))
  /\ Jump(p, "eraseOne")
  /\ UNCHANGED <<disk, index, blobs, fresh, expired>>

EraseOne(p) ==
  /\ At(p, "eraseOne")
  /\ blobs' = Without(blobs, {h[p].blob})
  /\ Answer(p)
  /\ UNCHANGED <<disk, index, trash, fresh, expired>>

(* Restore of a directory: create the directory above the destination,      *)
(* select the rows below the deleted one, copy them out (directories        *)
(* first), then erase.                                                      *)

RestoreDir(p) ==
  /\ At(p, "restoreDir")
  /\ disk' = TryCreateDir(disk, Parent(h[p].to))
  /\ GotoIf(p, [h[p] EXCEPT !.pc = "copy", !.sel = RowsUnder(h[p].loc),
                            !.rows = RowsUnder(h[p].loc)],
            CanCreateDir(disk, Parent(h[p].to)))
  /\ UNCHANGED <<index, trash, blobs, fresh, expired>>

\* to_path, what is left of original_dir below the restored directory, name.
CopyTarget(p, r) ==
  Append(h[p].to \o TailBelow(Parent(r.path), h[p].loc.path), Last(r.path))

CopyDir(p) ==
  /\ At(p, "copy")
  /\ \E r \in h[p].rows \ FileRows(h[p].rows) :
       /\ disk' = TryCreateDir(disk, CopyTarget(p, r))
       /\ GotoIf(p, [h[p] EXCEPT !.pc = "copyRow", !.rows = @ \ {r},
                                 !.cur = CopyTarget(p, r), !.made = "dir"],
                 CanCreateDir(disk, CopyTarget(p, r)))
  /\ UNCHANGED <<index, trash, blobs, fresh, expired>>

\* Mutant: a blob that is not there is waited for.
CopyFileWaiting(p) ==
  /\ At(p, "copy")
  /\ h[p].rows = FileRows(h[p].rows)
  /\ \E r \in h[p].rows :
       LET q == CopyTarget(p, r) IN
       /\ r.blob \in DOMAIN blobs /\ CanWrite(disk, q)
       /\ disk' = Write(disk, q, blobs[r.blob])
       /\ Goto(p, [h[p] EXCEPT !.pc = "copyRow", !.rows = @ \ {r}, !.cur = q, !.made = "file"])
  /\ UNCHANGED <<index, trash, blobs, fresh, expired>>

CopyFile(p) ==
  /\ At(p, "copy")
  /\ h[p].rows = FileRows(h[p].rows)
  /\ \E r \in h[p].rows :
       LET q == CopyTarget(p, r) IN
       \/ /\ r.blob \in DOMAIN blobs /\ CanWrite(disk, q)
          /\ disk' = Write(disk, q, blobs[r.blob])
          /\ Goto(p, [h[p] EXCEPT !.pc = "copyRow", !.rows = @ \ {r}, !.cur = q, !.made = "file"])
       \/ /\ ~(r.blob \in DOMAIN blobs /\ CanWrite(disk, q))
          /\ disk' = TryCreateDir(disk, Parent(q))
          /\ Fail(p)
  /\ UNCHANGED <<index, trash, blobs, fresh, expired>>

\* A directory's row is inserted on conflict do nothing, a file's is an upsert.
CopyRow(p) ==
  /\ At(p, "copyRow")
  /\ index' = IF h[p].made = "dir" /\ h[p].cur \in DOMAIN index
              THEN index ELSE Put(index, h[p].cur, h[p].made)
  /\ Jump(p, "copy")
  /\ UNCHANGED <<disk, trash, blobs, fresh, expired>>

CopyDone(p) ==
  /\ At(p, "copy")
  /\ h[p].rows = {}
  /\ Goto(p, [h[p] EXCEPT !.pc = "eraseBlobs", !.sel = FileRows(@), !.rows = FileRows(h[p].sel)])
  /\ UNCHANGED store

-----------------------------------------------------------------------------
(* run_trash_purger: each day, the blob and the row of what has expired.    *)

PurgeStep == UNCHANGED <<disk, index, fresh, expired, h, ops, faults, clean>>

\* Mutant: the thirty days are left out of the query.
PurgeScanAll ==
  /\ purge = Asleep
  /\ trash # {} /\ purge' = [rows |-> trash, cur |-> {}]
  /\ UNCHANGED <<trash, blobs>> /\ PurgeStep

PurgeScan ==
  /\ purge = Asleep
  /\ LET old == {r \in trash : r.id \in expired}
     IN  old # {} /\ purge' = [rows |-> old, cur |-> {}]
  /\ UNCHANGED <<trash, blobs>> /\ PurgeStep

\* Mutant: a blob that is gone already stops the loop.
PurgeBlobStrict ==
  /\ purge.cur = {}
  /\ \E r \in purge.rows :
       /\ purge' = [rows |-> purge.rows \ {r}, cur |-> {r}]
       /\ r.isDir \/ r.blob \in DOMAIN blobs
       /\ blobs' = IF r.isDir THEN blobs ELSE Without(blobs, {r.blob})
  /\ UNCHANGED trash /\ PurgeStep

PurgeBlob ==
  /\ purge.cur = {}
  /\ \E r \in purge.rows :
       /\ purge' = [rows |-> purge.rows \ {r}, cur |-> {r}]
       /\ blobs' = IF r.isDir THEN blobs ELSE Without(blobs, {r.blob})
  /\ UNCHANGED trash /\ PurgeStep

PurgeRow ==
  /\ purge.cur # {}
  /\ trash' = {r \in trash : \A c \in purge.cur : c.id # r.id}
  /\ purge' = [purge EXCEPT !.cur = {}]
  /\ UNCHANGED blobs /\ PurgeStep

\* External: thirty days pass, longer than any request takes.
Age ==
  /\ \A p \in Proc : h[p].pc = "idle"
  /\ \E r \in trash : r.id \notin expired
  /\ expired' = expired \cup {r.id : r \in trash}
  /\ UNCHANGED <<disk, index, trash, blobs, fresh, h, purge, ops, faults, clean>>

-----------------------------------------------------------------------------
(* External: what can go wrong.                                             *)

Fault == faults < MaxFaults /\ faults' = faults + 1 /\ clean' = FALSE

\* The server stops: handlers and purger are gone, the store stays.
Crash ==
  /\ Fault
  /\ h' = [p \in Proc |-> Idle]
  /\ purge' = Asleep
  /\ h # h' \/ purge # purge'
  /\ UNCHANGED <<store, ops>>

\* A statement whose error the handler returns (map_err(..)?).
Checked == {"saveRow", "renameOwn", "renameKids", "renameDeep", "trashRow", "trashDir",
            "sweepRow", "collect", "restoreRow", "restoreDir", "copyRow"}

StatementFails(p) ==
  /\ Fault
  /\ h[p].pc \in Checked
  /\ h' = [h EXCEPT ![p] = Idle]
  /\ UNCHANGED <<store, ops, purge>>

\* A statement or removal whose error the handler drops (let _ = ..): it goes
\* on as if the step had been done.
Unchecked == [unindexTree |-> "unindex", unindex |-> "idle", dropRow |-> "eraseOne",
              eraseOne |-> "idle", copyRow |-> "copy", dropDirRow |-> "idle"]

ErrorDropped(p) ==
  /\ Fault
  /\ \/ /\ h[p].pc \in DOMAIN Unchecked
        /\ h' = [h EXCEPT ![p] = IF Unchecked[h[p].pc] = "idle" THEN Idle
                                 ELSE [h[p] EXCEPT !.pc = Unchecked[h[p].pc]]]
     \/ /\ h[p].pc = "eraseBlobs" /\ h[p].rows = {}
        /\ h' = [h EXCEPT ![p] = [h[p] EXCEPT !.pc = "dropDirRow", !.sel = {}]]
     \/ /\ h[p].pc = "eraseBlobs"
        /\ \E r \in h[p].rows : h' = [h EXCEPT ![p] = [h[p] EXCEPT !.rows = @ \ {r}]]
  /\ UNCHANGED <<store, ops, purge>>

PurgeErrorDropped ==
  /\ Fault
  /\ \/ purge.cur # {} /\ purge' = [purge EXCEPT !.cur = {}]
     \/ /\ purge.cur = {}
        /\ \E r \in purge.rows : purge' = [rows |-> purge.rows \ {r}, cur |-> {r}]
  /\ UNCHANGED <<store, ops, h>>

-----------------------------------------------------------------------------

Request(p) == Save(p) \/ Mkdir(p) \/ Rename(p) \/ Delete(p) \/ TrashDelete(p) \/ Restore(p)

Step(p) ==
  \/ SaveRow(p) \/ MkdirDisk(p)
  \/ RenameOwn(p) \/ RenameKids(p) \/ RenameDeep(p)
  \/ ArchiveFile(p) \/ TrashRow(p)
  \/ TrashDir(p) \/ ListDir(p) \/ SweepFile(p) \/ SweepRow(p) \/ RemoveDir(p)
  \/ UnindexTree(p) \/ Unindex(p)
  \/ Collect(p) \/ EraseBlob(p) \/ DropRows(p) \/ DropDirRow(p)
  \/ RestoreFile(p) \/ RestoreRow(p) \/ DropRow(p) \/ EraseOne(p)
  \/ RestoreDir(p) \/ CopyDir(p) \/ CopyFile(p) \/ CopyRow(p) \/ CopyDone(p)

Purger == PurgeScan \/ PurgeBlob \/ PurgeRow

Failure == Crash \/ PurgeErrorDropped \/ \E p \in Proc : StatementFails(p) \/ ErrorDropped(p)

Next == (\E p \in Proc : Request(p) \/ Step(p)) \/ Purger \/ Age \/ Failure

\* The runtime polls every handler it has accepted, and the purger's timer
\* keeps firing; requests, time and failures are the environment's.
Fairness == WF_vars(Purger) /\ \A p \in Proc : WF_vars(Step(p))

Spec == Init /\ [][Next]_vars /\ Fairness

-----------------------------------------------------------------------------
(* Properties                                                               *)

Locals ==
  [pc : PC, path : Path, to : Path, cur : Path, stack : SUBSET Spot, files : SUBSET Spot,
   loc : Place, sel : SUBSET Row, rows : SUBSET Row, made : {"dir", "file"}, blob : Nat]

StoreOK ==
  /\ IsTree(disk, Data \cup {Folder})
  /\ IsTree(index, {"dir", "file"})
  /\ trash \subseteq Row
  /\ DOMAIN blobs \subseteq Nat \ {NoBlob} /\ \A b \in DOMAIN blobs : blobs[b] \in Data
  /\ fresh \in Nat \ {NoBlob}
  /\ expired \subseteq Nat

CountersOK ==
  /\ purge \in [rows : SUBSET Row, cur : SUBSET Row]
  /\ ops \in 0 .. MaxOps
  /\ faults \in 0 .. MaxFaults

\* The types of the store, of the locals of every handler, and of the purger.
TypeOK == StoreOK /\ h \in [Proc -> Locals] /\ clean \in BOOLEAN /\ CountersOK

\* Rows whose blobs are being erased: those a handler has selected and is
\* working through, and the purger's current one.
ErasedBy(l) == IF l.pc = "eraseBlobs" THEN l.sel ELSE {}
Erasing == purge.cur \cup UNION {ErasedBy(h[p]) : p \in Proc}

\* A blob and its row go in two steps.  As long as no statement fails, a
\* deleted file listed in the trash can be read back, but for the time its
\* eraser needs to drop the row: whichever deletes, restores and purges
\* overlap, none leaves a row behind whose bytes are gone.
DanglingOnlyInFlight ==
  faults = 0 => \A r \in FileRows(trash) : r.blob \notin DOMAIN blobs => r \in Erasing

\* Two rows never share a blob: a restore or purge of one cannot erase the
\* bytes of another, whatever keys, lookalikes and repeated deletes they have.
BlobsUnshared ==
  \A r, s \in FileRows(trash) : r.blob = s.blob => r = s

\* No file row has original_dir "/": a file deleted on its own is filed under
\* its absolute directory, one deleted with its directory under that directory.
\* The file branch of delete_trash_item_recursive (storage_service.rs:294-306)
\* can therefore not be reached, and TrashDelete leaves it out.
TopRowsAreDirs ==
  \A r \in trash : AtTop([form |-> r.form, path |-> r.path]) => r.isDir

Quiet == \A p \in Proc : h[p].pc = "idle"

\* One client that issues its requests in turn, all answered Ok: between them
\* the listing and the tree agree.  Every row has its file or directory, and
\* every file its row (a directory made on the way to a file has none).
AgreeWhileClean ==
  (Cardinality(Proc) = 1 /\ clean /\ Quiet) =>
    /\ \A q \in DOMAIN index : IF index[q] = "dir" THEN IsDirAt(disk, q) ELSE IsFileAt(disk, q)
    /\ \A q \in DOMAIN disk : IsFileAt(disk, q) => q \in DOMAIN index

\* What has expired leaves the trash, though the purger may be stopped in the
\* middle, and any of its statements and removals fail.
ExpiredArePurged ==
  (\E r \in trash : r.id \in expired) ~> (\A r \in trash : r.id \notin expired)

\* Every request that has been accepted is answered: the walk over a deleted
\* directory ends although others keep adding to it.
RequestsAnswered == \A p \in Proc : h[p].pc # "idle" ~> h[p].pc = "idle"

(* What comments of the source say, and a run shows not to be so.            *)

\* "Remove the now-empty directory" (:142): nothing is left in a directory of
\* a deleted tree when it is removed.
SweptDirIsEmpty ==
  \A p \in Proc : (h[p].pc = "sweep" /\ h[p].files = {}) => Children(disk, h[p].to) = {}

\* "Remove from cloud_files for subtree" (:970): deleting a directory drops no
\* row of another one.
UnindexesOnlySubtree ==
  [][\A p \in Proc : (h[p].pc = "unindexTree" /\ h'[p].pc = "unindex") =>
       \A q \in DOMAIN index \ DOMAIN index' : Within(q, h[p].path)]_vars

\* "remove item and delete blob file" (:819): restoring a file takes that item
\* out of the trash, and no other.
RestoreTakesOneItem ==
  [][\A p \in Proc : (h[p].pc = "dropRow" /\ h'[p].pc = "eraseOne") =>
       trash \ trash' \subseteq h[p].sel]_vars

(***************************************************************************)
(* The store as the blobs' lifecycle (BlobLifecycle).                       *)
(***************************************************************************)
\* A request that has moved a file away and not yet inserted its row.
Archiving == {"trashRow", "sweepRow"}
StagedBy(l) == IF l.pc \in Archiving THEN {l.blob} ELSE {}
Staged == UNION {StagedBy(h[p]) : p \in Proc}
Chosen == UNION {BlobsOf(h[p].sel) : p \in Proc}
Aged == BlobsOf({r \in trash \cup purge.rows : r.id \in expired})

Contract == INSTANCE BlobLifecycle WITH
  kept   <- DOMAIN blobs,
  staged <- Staged,
  listed <- BlobsOf(trash),
  aged   <- Aged,
  chosen <- Chosen,
  due    <- BlobsOf(purge.rows),
  next   <- fresh

\* Every behaviour of the store is one of the lifecycle: bytes are erased only
\* for a row a request selected, or one that had expired.
ImplementsContract == Contract!Spec
=============================================================================
