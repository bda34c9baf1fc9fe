---------------------------- MODULE StorageProofs ----------------------------
(***************************************************************************)
(* The safety of the trash, for any number of requests, paths, failures    *)
(* and crashes: BlobInv is inductive, and it yields BlobsUnshared,         *)
(* DanglingOnlyInFlight and the refinement of BlobLifecycle.               *)
(***************************************************************************)
EXTENDS StorageTypeProofs

\* Handlers hold what they hold.
LEMMA HeldByHandler ==
  ASSUME NEW p \in Proc
  PROVE  h[p].sel \subseteq Held
BY DEF Held

\* A step of the handler p alone.
Alone(p) == \A q \in Proc \ {p} : h'[q] = h[q]

\* Locals with which a handler holds no row and no blob.
Plain(l) == l.sel = {} /\ l.pc \notin Working \cup Restoring \cup Archiving

\* What a handler does next is in its new locals.
LEMMA NewLocals ==
  ASSUME TypeInv, NEW p \in Proc
  PROVE  /\ \A l, fine : GotoIf(p, l, fine) => h'[p] = l /\ Alone(p)
         /\ \A l : Goto(p, l) => h'[p] = l /\ Alone(p)
         /\ Answer(p) \/ Fail(p) => h'[p] = Idle /\ Alone(p)
         /\ \A pc : Jump(p, pc) => h'[p] = [h[p] EXCEPT !.pc = pc] /\ Alone(p)
<1>1. \A l : h' = [h EXCEPT ![p] = l] => h'[p] = l /\ Alone(p)
  BY DEF TypeInv, TypeOK, Alone
<1> QED BY <1>1 DEF GotoIf, Goto, Answer, Fail, Jump

\* A free slot holds nothing.
LEMMA IdlePlain == Plain(Idle)
BY DEF Plain, Idle, Working, Restoring, Archiving

(***************************************************************************)
(* The steps of a handler that draw no identifier: rows and blobs may go,  *)
(* and the handler selects nothing but rows in the trash.                  *)
(***************************************************************************)
LEMMA HandlerStep ==
  ASSUME BlobInv, NEW p \in Proc, Alone(p),
         UNCHANGED <<fresh, expired, purge>>,
         trash' \subseteq trash,
         DOMAIN blobs' \subseteq DOMAIN blobs,
         \A b \in DOMAIN blobs \ DOMAIN blobs' : b \in BlobsOf(h[p].sel),
         faults' = 0 => faults = 0,
         h'[p].sel \subseteq h[p].sel \cup trash,
         Fits(h'[p]),
         h'[p].pc \notin Archiving,
         faults' = 0 /\ h'[p].pc = "eraseOne" => h'[p].sel \cap trash' = {},
         DanglingOnlyInFlight'
  PROVE  BlobInv'
<1>1. /\ Drawn /\ OneRowPerBlob /\ StagedApart /\ SelectedFits
      /\ PurgesExpired /\ RestoredUnlisted
  BY DEF BlobInv
<1>2. \A q \in Proc \ {p} : h'[q] = h[q]
  BY DEF Alone
<1>3. trash' \cup Held' \subseteq trash \cup Held
  BY <1>2 DEF Held
<1>4. Drawn'
  BY <1>1, <1>3 DEF Drawn
<1>5. OneRowPerBlob'
  BY <1>1, <1>3 DEF OneRowPerBlob, FileRows
<1>6. StagedApart'
  <2> SUFFICES ASSUME NEW q \in Proc, h'[q].pc \in Archiving
               PROVE  /\ h'[q].blob \in DOMAIN blobs'
                      /\ h'[q].blob \notin BlobsOf(trash' \cup Held')
                      /\ \A o \in Proc \ {q} : h'[o].pc \in Archiving => h'[o].blob # h'[q].blob
    BY DEF StagedApart
  <2>1. q # p /\ h'[q] = h[q]
    BY <1>2
  <2>2. /\ h[q].blob \in DOMAIN blobs /\ h[q].blob \notin BlobsOf(trash \cup Held)
        /\ \A o \in Proc \ {q} : h[o].pc \in Archiving => h[o].blob # h[q].blob
    BY <1>1, <2>1 DEF StagedApart
  <2>3. BlobsOf(h[p].sel) \subseteq BlobsOf(trash \cup Held)
    BY HeldByHandler DEF BlobsOf, FileRows
  <2>4. h'[q].blob \in DOMAIN blobs'
    BY <2>1, <2>2, <2>3
  <2>5. BlobsOf(trash' \cup Held') \subseteq BlobsOf(trash \cup Held)
    BY <1>3 DEF BlobsOf, FileRows
  <2>6. \A o \in Proc \ {q} : h'[o].pc \in Archiving => h'[o].blob # h'[q].blob
    BY <1>2, <2>1, <2>2
  <2> QED BY <2>1, <2>2, <2>4, <2>5, <2>6
<1>7. SelectedFits'
  BY <1>1, <1>2 DEF SelectedFits
<1>8. PurgesExpired'
  BY <1>1 DEF PurgesExpired
<1>9. RestoredUnlisted'
  BY <1>1, <1>2 DEF RestoredUnlisted
<1> QED BY <1>4, <1>5, <1>6, <1>7, <1>8, <1>9 DEF BlobInv

(***************************************************************************)
(* What a step must show: it preserves BlobInv, and it is a step of the    *)
(* blobs' lifecycle.                                                       *)
(***************************************************************************)
Sound == BlobInv' /\ Contract!Next

\* A step of one handler leaves what the others have staged and chosen.
LEMMA OneHandler ==
  ASSUME NEW p \in Proc, Alone(p)
  PROVE  \E S, C : /\ Staged = S \cup StagedBy(h[p])
                   /\ Staged' = S \cup StagedBy(h'[p])
                   /\ Chosen = C \cup BlobsOf(h[p].sel)
                   /\ Chosen' = C \cup BlobsOf(h'[p].sel)
<1> DEFINE S == UNION {StagedBy(h[q]) : q \in Proc \ {p}}
           C == UNION {BlobsOf(h[q].sel) : q \in Proc \ {p}}
<1>1. S = UNION {StagedBy(h'[q]) : q \in Proc \ {p}}
  BY DEF Alone
<1>2. C = UNION {BlobsOf(h'[q].sel) : q \in Proc \ {p}}
  BY DEF Alone
<1>3. Staged = S \cup StagedBy(h[p]) /\ Chosen = C \cup BlobsOf(h[p].sel)
  BY DEF Staged, Chosen
<1>4. Staged' = S \cup StagedBy(h'[p]) /\ Chosen' = C \cup BlobsOf(h'[p].sel)
  <2>1. Staged' = UNION {StagedBy(h'[q]) : q \in Proc}
    BY DEF Staged, StagedBy
  <2>2. Chosen' = UNION {BlobsOf(h'[q].sel) : q \in Proc}
    BY DEF Chosen, BlobsOf, FileRows
  <2> HIDE DEF S, C
  <2> QED BY <1>1, <1>2, <2>1, <2>2
<1> QED BY <1>3, <1>4

\* Fewer rows have fewer blobs.
LEMMA FewerBlobs ==
  ASSUME NEW S, NEW T, S \subseteq T
  PROVE  BlobsOf(S) \subseteq BlobsOf(T)
BY DEF BlobsOf, FileRows

\* A handler step that erases nothing and lets go of what it holds.
LEMMA UnlistStep ==
  ASSUME NEW p \in Proc, Alone(p),
         UNCHANGED <<fresh, expired, purge>>,
         DOMAIN blobs' = DOMAIN blobs,
         trash' \subseteq trash,
         StagedBy(h'[p]) \subseteq StagedBy(h[p]),
         h'[p].sel \subseteq h[p].sel
  PROVE  Contract!Unlist
<1>1. Staged' \subseteq Staged /\ Chosen' \subseteq Chosen
  BY OneHandler, FewerBlobs
<1>2. BlobsOf(trash') \subseteq BlobsOf(trash)
  BY FewerBlobs
<1>3. Aged' \subseteq Aged
  BY DEF Aged, BlobsOf, FileRows
<1>4. BlobsOf(purge.rows)' = BlobsOf(purge.rows)
  BY DEF BlobsOf, FileRows
<1> QED BY <1>1, <1>2, <1>3, <1>4 DEF Contract!Unlist, Contract!LetGo, BlobsOf, FileRows

\* A handler step that selects rows.
LEMMA ChooseStep ==
  ASSUME NEW p \in Proc, Alone(p),
         UNCHANGED <<fresh, expired, purge, blobs, trash>>,
         StagedBy(h'[p]) = StagedBy(h[p]),
         h'[p].sel \subseteq h[p].sel \cup trash
  PROVE  Contract!Choose
<1>1. BlobsOf(h[p].sel \cup trash) = BlobsOf(h[p].sel) \cup BlobsOf(trash)
  BY DEF BlobsOf, FileRows
<1>2. Staged' = Staged /\ Chosen' \subseteq Chosen \cup BlobsOf(trash)
  <2>1. BlobsOf(h'[p].sel) \subseteq BlobsOf(h[p].sel) \cup BlobsOf(trash)
    BY <1>1, FewerBlobs
  <2> QED BY <2>1, OneHandler
<1>3. Aged' = Aged /\ BlobsOf(trash)' = BlobsOf(trash) /\ BlobsOf(purge.rows)' = BlobsOf(purge.rows)
  BY DEF Aged, BlobsOf, FileRows
<1> QED BY <1>2, <1>3 DEF Contract!Choose

\* A handler step that erases a blob it has chosen.
LEMMA EraseStep ==
  ASSUME NEW p \in Proc, Alone(p), NEW b \in BlobsOf(h[p].sel),
         UNCHANGED <<fresh, expired, purge, trash>>,
         DOMAIN blobs' = DOMAIN blobs \ {b},
         StagedBy(h'[p]) \subseteq StagedBy(h[p]),
         h'[p].sel \subseteq h[p].sel
  PROVE  Contract!Erase
<1>1. Staged' \subseteq Staged /\ Chosen' \subseteq Chosen /\ b \in Chosen
  BY OneHandler, FewerBlobs
<1>2. Aged' = Aged /\ BlobsOf(trash)' = BlobsOf(trash) /\ BlobsOf(purge.rows)' = BlobsOf(purge.rows)
  BY DEF Aged, BlobsOf, FileRows
<1> QED BY <1>1, <1>2 DEF Contract!Erase, Contract!LetGo

\* A handler step that erases no blob, and lets go of no row that it has
\* been erasing while it is still in the trash.
LEMMA KeepingStep ==
  ASSUME BlobInv, NEW p \in Proc, Alone(p),
         UNCHANGED <<fresh, expired, purge, blobs>>,
         trash' \subseteq trash,
         faults' = 0 => faults = 0,
         h'[p].sel \subseteq h[p].sel \cup trash,
         Fits(h'[p]),
         h'[p].pc \notin Archiving,
         faults' = 0 /\ h'[p].pc = "eraseOne" => h'[p].sel \cap trash' = {},
         faults' = 0 => ErasedBy(h[p]) \cap trash' \subseteq ErasedBy(h'[p]),
         h'[p].sel \subseteq h[p].sel \/ (UNCHANGED trash /\ h[p].pc \notin Archiving)
  PROVE  Sound
<1>1. DanglingOnlyInFlight'
  <2> SUFFICES ASSUME faults' = 0, NEW r \in FileRows(trash'), r.blob \notin DOMAIN blobs'
               PROVE  r \in Erasing'
    BY DEF DanglingOnlyInFlight
  <2>1. r \in FileRows(trash) /\ r \in trash'
    BY DEF FileRows
  <2>2. r \in Erasing
    BY <2>1 DEF BlobInv, DanglingOnlyInFlight
  <2>3. ASSUME NEW q \in Proc, r \in ErasedBy(h[q]) PROVE r \in Erasing'
    <3>1. r \in ErasedBy(h'[q])
      BY <2>1, <2>3 DEF Alone
    <3>2. ErasedBy(h'[q]) \subseteq Erasing'
      BY DEF Erasing, ErasedBy
    <3> QED BY <3>1, <3>2
  <2> QED BY <2>2, <2>3 DEF Erasing
<1>2. BlobInv'
  BY <1>1, HandlerStep
<1>3. StagedBy(h'[p]) = {}
  BY DEF StagedBy
<1>4. CASE h'[p].sel \subseteq h[p].sel
  BY <1>2, <1>3, <1>4, UnlistStep DEF Sound, Contract!Next
<1>5. CASE UNCHANGED trash /\ h[p].pc \notin Archiving
  <2>1. Contract!Choose
    BY <1>3, <1>5, ChooseStep DEF StagedBy
  <2> QED BY <1>2, <2>1 DEF Sound, Contract!Next
<1> QED BY <1>4, <1>5

\* One after which the handler holds no row.
LEMMA PlainStep ==
  ASSUME BlobInv, NEW p \in Proc, Alone(p),
         UNCHANGED <<fresh, expired, purge, blobs>>,
         trash' \subseteq trash,
         faults' = 0 => faults = 0,
         Plain(h'[p]),
         faults' = 0 => h[p].pc # "eraseBlobs"
  PROVE  Sound
<1>1. Fits(h'[p]) /\ h'[p].pc # "eraseOne" /\ h'[p].sel = {} /\ h'[p].pc \notin Archiving
  BY DEF Plain, Fits, Working, Restoring
<1>2. faults' = 0 => ErasedBy(h[p]) = {}
  BY DEF ErasedBy
<1> QED BY <1>1, <1>2, KeepingStep

-----------------------------------------------------------------------------
(* Requests *)

\* Accepting a request selects at most the row to restore.
LEMMA RequestStep ==
  ASSUME TypeInv, BlobInv, NEW p \in Proc, Request(p)
  PROVE  Sound
<1>1. h[p].pc # "eraseBlobs" /\ UNCHANGED <<fresh, expired, purge, blobs, faults, trash>>
  BY DEF Request, Save, Mkdir, Rename, Delete, TrashDelete, Restore, Accept, store
<1>2. h \in [Proc -> Locals] /\ Plain(Idle)
  BY IdlePlain DEF TypeInv, TypeOK
<1>3. ASSUME Alone(p), Plain(h'[p]) PROVE Sound
  BY <1>1, <1>3, PlainStep
<1>4. CASE Save(p)
  <2>1. /\ Alone(p)
        /\ \/ h'[p] = Idle
           \/ \E q : h'[p] = [Idle EXCEPT !.pc = "saveRow", !.path = q]
    BY <1>2, <1>4 DEF Save, Alone, Goto, GotoIf, Fail
  <2>2. \A q : Plain([Idle EXCEPT !.pc = "saveRow", !.path = q])
    BY DEF Plain, Idle, Working, Restoring, Archiving
  <2> QED BY <1>2, <1>3, <2>1, <2>2
<1>5. CASE Mkdir(p)
  <2>1. /\ Alone(p)
        /\ \/ h'[p] = Idle
           \/ \E q : h'[p] = [Idle EXCEPT !.pc = "mkdirDisk", !.path = q]
    BY <1>2, <1>5 DEF Mkdir, Alone, Goto, GotoIf, Fail
  <2>2. \A q : Plain([Idle EXCEPT !.pc = "mkdirDisk", !.path = q])
    BY DEF Plain, Idle, Working, Restoring, Archiving
  <2> QED BY <1>2, <1>3, <2>1, <2>2
<1>6. CASE Rename(p)
  <2> PICK f \in Paths, t \in Paths :
        Fail(p) \/ Goto(p, [Idle EXCEPT !.pc = "renameOwn", !.path = f, !.to = t])
    BY <1>6 DEF Rename
  <2> DEFINE l == [Idle EXCEPT !.pc = "renameOwn", !.path = f, !.to = t]
  <2>1. Plain(l)
    BY DEF Plain, Idle, Working, Restoring, Archiving
  <2> HIDE DEF l
  <2>2. Fail(p) \/ Goto(p, l)
    BY DEF l
  <2>3. Alone(p) /\ (h'[p] = Idle \/ h'[p] = l)
    BY <1>2, <2>2 DEF Alone, Goto, GotoIf, Fail
  <2> QED BY <1>2, <1>3, <2>1, <2>3
<1>7. CASE Delete(p)
  <2>1. /\ Alone(p)
        /\ \/ h'[p] = Idle
           \/ \E q : h'[p] = [Idle EXCEPT !.pc = "archive", !.path = q]
           \/ \E q : h'[p] = [Idle EXCEPT !.pc = "trashDir", !.path = q, !.stack = {q}]
    BY <1>2, <1>7 DEF Delete, Alone, Goto, GotoIf, Fail
  <2>2. \A q : Plain([Idle EXCEPT !.pc = "archive", !.path = q])
    BY DEF Plain, Idle, Working, Restoring, Archiving
  <2>3. \A q : Plain([Idle EXCEPT !.pc = "trashDir", !.path = q, !.stack = {q}])
    BY DEF Plain, Idle, Working, Restoring, Archiving
  <2> QED BY <1>2, <1>3, <2>1, <2>2, <2>3
<1>8. CASE TrashDelete(p)
  <2>1. /\ Alone(p)
        /\ \/ h'[p] = Idle
           \/ \E loc : h'[p] = [Idle EXCEPT !.pc = "collect", !.loc = loc]
    BY <1>2, <1>8 DEF TrashDelete, Alone, Goto, GotoIf, Answer
  <2>2. \A loc : Plain([Idle EXCEPT !.pc = "collect", !.loc = loc])
    BY DEF Plain, Idle, Working, Restoring, Archiving
  <2> QED BY <1>2, <1>3, <2>1, <2>2
<1>9. CASE Restore(p)
  <2> PICK r \in trash, t \in Paths :
        LET locals == [Idle EXCEPT !.loc = [form |-> r.form, path |-> r.path], !.to = t] IN
        IF r.isDir
        THEN Goto(p, [locals EXCEPT !.pc = "restoreDir"])
        ELSE Goto(p, [locals EXCEPT !.pc = "restoreFile", !.sel = {r}, !.blob = r.blob])
    BY <1>9 DEF Restore
  <2> DEFINE locals == [Idle EXCEPT !.loc = [form |-> r.form, path |-> r.path], !.to = t]
             file == [locals EXCEPT !.pc = "restoreFile", !.sel = {r}, !.blob = r.blob]
             dir == [locals EXCEPT !.pc = "restoreDir"]
  <2>1. CASE r.isDir
    <3>1. Plain(dir)
      BY DEF Plain, Idle, Working, Restoring, Archiving
    <3>2. Goto(p, dir)
      BY <2>1
    <3> HIDE DEF dir
    <3>3. h'[p] = dir /\ Alone(p)
      BY <3>2, NewLocals
    <3> QED BY <1>3, <3>1, <3>3
  <2>2. CASE ~r.isDir
    <3>1. /\ file.pc = "restoreFile" /\ file.sel = {r} /\ file.blob = r.blob
          /\ file.loc.form = r.form /\ file.loc.path = r.path
      BY DEF Idle
    <3>2. Goto(p, file)
      BY <2>2
    <3> HIDE DEF file
    <3>3. Fits(file) /\ file.pc \notin Archiving /\ file.pc # "eraseOne"
      BY <2>2, <3>1 DEF Fits, Working, Restoring, Archiving
    <3>4. h'[p] = file /\ Alone(p) /\ ErasedBy(h[p]) = {} /\ h[p].pc \notin Archiving
      BY <1>1, <1>9, <3>2, NewLocals DEF ErasedBy, Restore, Accept, Archiving
    <3> QED BY <1>1, <3>1, <3>3, <3>4, KeepingStep
  <2> QED BY <2>1, <2>2
<1> QED BY <1>4, <1>5, <1>6, <1>7, <1>8, <1>9 DEF Request

-----------------------------------------------------------------------------
(* Steps *)

\* The steps of a handler that holds no row, and files none.
LEMMA PlainSteps ==
  ASSUME TypeInv, BlobInv, NEW p \in Proc,
         \/ SaveRow(p) \/ MkdirDisk(p) \/ RenameOwn(p) \/ RenameKids(p) \/ RenameDeep(p)
         \/ ListDir(p) \/ RemoveDir(p) \/ UnindexTree(p) \/ Unindex(p) \/ DropDirRow(p)
  PROVE  Sound
<1> DEFINE After == {"idle", "renameKids", "renameDeep", "sweep", "unindexTree",
                     "trashDir", "unindex"}
<1>1. h \in [Proc -> Locals] /\ h[p] \in Locals /\ Fits(h[p])
  BY DEF TypeInv, TypeOK, BlobInv, SelectedFits
<1>2. /\ UNCHANGED <<fresh, expired, purge, blobs, faults>>
      /\ trash' \subseteq trash
      /\ h[p].pc \notin Working \cup Restoring
  BY DEF SaveRow, MkdirDisk, RenameOwn, RenameKids, RenameDeep, ListDir, RemoveDir,
     UnindexTree, Unindex, DropDirRow, At, store, Working, Restoring
<1>3. h[p].sel = {}
  BY <1>1, <1>2 DEF Fits
<1>4. ASSUME Answer(p) \/ Fail(p) \/ \E pc \in After : Jump(p, pc)
      PROVE  Alone(p) /\ h'[p].sel = {} /\ h'[p].pc \in After
  BY <1>1, <1>3, <1>4 DEF Answer, Fail, Jump, Goto, GotoIf, Alone, Idle, Locals
<1>5. Alone(p) /\ h'[p].sel = {} /\ h'[p].pc \in After
  <2>1. CASE SaveRow(p) \/ MkdirDisk(p) \/ Unindex(p) \/ DropDirRow(p)
    BY <1>4, <2>1 DEF SaveRow, MkdirDisk, Unindex, DropDirRow
  <2>2. CASE RenameOwn(p) \/ RenameKids(p) \/ RenameDeep(p)
    BY <1>4, <2>2 DEF RenameOwn, RenameKids, RenameDeep, UpdateRows
  <2>3. CASE RemoveDir(p) \/ UnindexTree(p)
    BY <1>4, <2>3 DEF RemoveDir, UnindexTree
  <2>4. CASE ListDir(p)
    BY <1>1, <1>3, <2>4 DEF ListDir, Goto, GotoIf, Alone, Locals
  <2> QED BY <2>1, <2>2, <2>3, <2>4
<1>6. Plain(h'[p])
  BY <1>5 DEF Plain, Working, Restoring, Archiving
<1>7. h[p].pc # "eraseBlobs"
  BY <1>2 DEF Working
<1> QED BY <1>2, <1>5, <1>6, <1>7, PlainStep

\* The steps that select rows, copy them out, or restore one file.
LEMMA SelectingSteps ==
  ASSUME TypeInv, BlobInv, NEW p \in Proc,
         \/ Collect(p) \/ RestoreFile(p) \/ RestoreRow(p) \/ RestoreDir(p)
         \/ CopyDir(p) \/ CopyFile(p) \/ CopyRow(p) \/ CopyDone(p)
  PROVE  Sound
<1>1. h \in [Proc -> Locals] /\ h[p] \in Locals /\ Fits(h[p])
  BY DEF TypeInv, TypeOK, BlobInv, SelectedFits
<1>2. /\ UNCHANGED <<fresh, expired, purge, blobs, faults, trash>>
      /\ h[p].pc # "eraseBlobs" /\ h[p].pc \notin Archiving
  BY DEF Collect, RestoreFile, RestoreRow, RestoreDir, CopyDir, CopyFile, CopyRow, CopyDone,
     At, store, Archiving
<1>3. ErasedBy(h[p]) = {}
  BY <1>2 DEF ErasedBy
<1>4. ASSUME Fail(p) PROVE Sound
  <2>1. h'[p] = Idle /\ Alone(p)
    BY <1>4, NewLocals
  <2> QED BY <1>2, <2>1, IdlePlain, PlainStep
<1>5. ASSUME Alone(p), Fits(h'[p]), h'[p].sel \subseteq h[p].sel \cup trash,
             h'[p].pc \in {"eraseBlobs", "restoreRow", "dropRow", "copy", "copyRow"}
      PROVE  Sound
  BY <1>2, <1>3, <1>5, KeepingStep DEF Archiving
<1>6. \A loc : RowsUnder(loc) \subseteq trash /\ \A r \in RowsUnder(loc) : Below(loc, r)
  BY DEF RowsUnder, Below
<1>7. CASE Collect(p)
  <2> DEFINE found == FileRows(RowsUnder(h[p].loc))
  <2>1. h'[p] = [h[p] EXCEPT !.pc = "eraseBlobs", !.sel = found, !.rows = found] /\ Alone(p)
    BY <1>1, <1>7 DEF Collect, Goto, GotoIf, Alone
  <2>2. \A r \in found : ~r.isDir /\ Below(h[p].loc, r) /\ r \in trash
    BY <1>6 DEF FileRows
  <2> HIDE DEF found
  <2>3. /\ h'[p].pc = "eraseBlobs" /\ h'[p].sel = found /\ h'[p].rows = found
        /\ h'[p].loc = h[p].loc
    BY <1>1, <2>1 DEF Locals
  <2>4. Fits(h'[p])
    BY <2>2, <2>3 DEF Fits, Working, Restoring
  <2> QED BY <1>5, <2>1, <2>2, <2>3, <2>4
<1>8. CASE RestoreFile(p) \/ RestoreRow(p)
  <2>1. CASE Fail(p)
    BY <1>4, <2>1
  <2>2. CASE Jump(p, "restoreRow") \/ Jump(p, "dropRow")
    <3>1. /\ Alone(p) /\ h'[p].pc \in {"restoreRow", "dropRow"}
          /\ h'[p].sel = h[p].sel /\ h'[p].loc = h[p].loc /\ h'[p].blob = h[p].blob
      BY <1>1, <2>2 DEF Jump, Goto, GotoIf, Alone, Locals
    <3>2. h[p].pc \in Restoring
      BY <1>8 DEF RestoreFile, RestoreRow, At, Restoring
    <3>3. Fits(h'[p])
      BY <1>1, <3>1, <3>2 DEF Fits, Working, Restoring
    <3> QED BY <1>5, <3>1, <3>3
  <2> QED BY <1>8, <2>1, <2>2 DEF RestoreFile, RestoreRow
<1>9. CASE RestoreDir(p)
  <2> DEFINE found == RowsUnder(h[p].loc)
  <2>1. h'[p] = [h[p] EXCEPT !.pc = "copy", !.sel = found, !.rows = found] /\ Alone(p)
    BY <1>1, <1>9 DEF RestoreDir, GotoIf, Alone
  <2>2. \A r \in found : Below(h[p].loc, r) /\ r \in trash
    BY <1>6
  <2> HIDE DEF found
  <2>3. h'[p].pc = "copy" /\ h'[p].sel = found /\ h'[p].rows = found /\ h'[p].loc = h[p].loc
    BY <1>1, <2>1 DEF Locals
  <2>4. Fits(h'[p])
    BY <2>2, <2>3 DEF Fits, Working, Restoring
  <2> QED BY <1>5, <2>1, <2>2, <2>3, <2>4
<1>10. CASE CopyDir(p) \/ CopyFile(p) \/ CopyRow(p)
  <2>1. h[p].pc \in {"copy", "copyRow"}
    BY <1>10 DEF CopyDir, CopyFile, CopyRow, At
  <2>2. \/ Fail(p)
        \/ /\ Alone(p) /\ h'[p].pc \in {"copy", "copyRow"} /\ h'[p].loc = h[p].loc
           /\ h'[p].sel = h[p].sel /\ h'[p].rows \subseteq h[p].rows
    <3>1. CASE CopyDir(p)
      <4>1. PICK r, q : h' = [h EXCEPT ![p] = [h[p] EXCEPT !.pc = "copyRow", !.rows = @ \ {r},
                                                          !.cur = q, !.made = "dir"]]
        BY <3>1 DEF CopyDir, GotoIf
      <4> QED BY <1>1, <4>1 DEF Alone, Locals
    <3>2. CASE CopyFile(p)
      <4>1. \/ Fail(p)
            \/ \E r, q : h' = [h EXCEPT ![p] = [h[p] EXCEPT !.pc = "copyRow", !.rows = @ \ {r},
                                                             !.cur = q, !.made = "file"]]
        BY <3>2 DEF CopyFile, Goto, GotoIf
      <4>2. ASSUME NEW r, NEW q,
                   h' = [h EXCEPT ![p] = [h[p] EXCEPT !.pc = "copyRow", !.rows = @ \ {r},
                                                      !.cur = q, !.made = "file"]]
            PROVE  /\ Alone(p) /\ h'[p].pc = "copyRow" /\ h'[p].loc = h[p].loc
                   /\ h'[p].sel = h[p].sel /\ h'[p].rows \subseteq h[p].rows
        BY <1>1, <4>2 DEF Alone, Locals
      <4> QED BY <4>1, <4>2
    <3>3. CASE CopyRow(p)
      BY <1>1, <3>3 DEF CopyRow, Jump, Goto, GotoIf, Alone, Locals
    <3> QED BY <1>10, <3>1, <3>2, <3>3
  <2>3. CASE ~Fail(p)
    <3>1. Fits(h'[p])
      BY <1>1, <2>1, <2>2, <2>3 DEF Fits, Working, Restoring
    <3> QED BY <1>5, <2>2, <2>3, <3>1
  <2> QED BY <1>4, <2>3
<1>11. CASE CopyDone(p)
  <2> DEFINE found == FileRows(h[p].sel)
  <2>1. /\ Alone(p) /\ h'[p].pc = "eraseBlobs" /\ h'[p].loc = h[p].loc
        /\ h'[p].sel = found /\ h'[p].rows = found
    BY <1>1, <1>11 DEF CopyDone, Goto, GotoIf, Alone, Locals
  <2>2. h[p].pc = "copy"
    BY <1>11 DEF CopyDone, At
  <2>3. \A r \in found : r \in h[p].sel /\ ~r.isDir /\ Below(h[p].loc, r)
    BY <1>1, <2>2 DEF FileRows, Fits, Working
  <2> HIDE DEF found
  <2>4. Fits(h'[p])
    BY <2>1, <2>3 DEF Fits, Working, Restoring
  <2> QED BY <1>5, <2>1, <2>3, <2>4
<1> QED BY <1>7, <1>8, <1>9, <1>10, <1>11

\* The steps that erase blobs and drop their rows.
LEMMA ErasingSteps ==
  ASSUME TypeInv, BlobInv, NEW p \in Proc,
         EraseBlob(p) \/ DropRows(p) \/ DropRow(p) \/ EraseOne(p)
  PROVE  Sound
<1>1. h \in [Proc -> Locals] /\ h[p] \in Locals /\ Fits(h[p])
  BY DEF TypeInv, TypeOK, BlobInv, SelectedFits
<1>2. UNCHANGED <<fresh, expired, purge, faults>>
  BY DEF EraseBlob, DropRows, DropRow, EraseOne, At
<1>3. \A r, s \in FileRows(trash \cup Held) : r.blob = s.blob => r = s
  BY DEF BlobInv, OneRowPerBlob
<1>4. h[p].sel \subseteq Held
  BY HeldByHandler
<1>5. CASE EraseBlob(p)
  <2> PICK r \in h[p].rows :
        /\ blobs' = Without(blobs, {r.blob})
        /\ Goto(p, [h[p] EXCEPT !.rows = @ \ {r}])
    BY <1>5 DEF EraseBlob
  <2>1. /\ Alone(p) /\ h'[p].pc = "eraseBlobs" /\ h'[p].sel = h[p].sel
        /\ h'[p].loc = h[p].loc /\ h'[p].rows \subseteq h[p].rows
    BY <1>1, <1>5 DEF EraseBlob, At, Goto, GotoIf, Alone, Locals
  <2>2. h[p].pc = "eraseBlobs" /\ UNCHANGED trash
    BY <1>5 DEF EraseBlob, At
  <2>3. r \in h[p].sel /\ ~r.isDir
    BY <1>1, <2>2 DEF Fits, Working
  <2>4. r.blob \in BlobsOf(h[p].sel) /\ DOMAIN blobs' = DOMAIN blobs \ {r.blob}
    BY <2>3 DEF BlobsOf, FileRows, Without
  <2>5. Fits(h'[p])
    BY <1>1, <2>1, <2>2 DEF Fits, Working, Restoring
  <2>6. DanglingOnlyInFlight'
    <3> SUFFICES ASSUME faults' = 0, NEW s \in FileRows(trash'), s.blob \notin DOMAIN blobs'
                 PROVE  s \in Erasing'
      BY DEF DanglingOnlyInFlight
    <3>1. s \in FileRows(trash)
      BY <2>2
    <3>2. CASE s.blob = r.blob
      <4>1. s = r
        BY <1>3, <1>4, <2>3, <3>1, <3>2 DEF FileRows
      <4>2. r \in ErasedBy(h'[p])
        BY <2>1, <2>3 DEF ErasedBy
      <4> QED BY <4>1, <4>2 DEF Erasing, ErasedBy
    <3>3. CASE s.blob # r.blob
      <4>1. s \in Erasing
        BY <1>2, <2>4, <3>1, <3>3 DEF BlobInv, DanglingOnlyInFlight
      <4>2. \A q \in Proc : ErasedBy(h'[q]) = ErasedBy(h[q])
        BY <2>1, <2>2 DEF ErasedBy, Alone
      <4> QED BY <1>2, <4>1, <4>2 DEF Erasing, ErasedBy
    <3> QED BY <3>2, <3>3
  <2>7. BlobInv'
    BY <1>2, <2>1, <2>2, <2>4, <2>5, <2>6, HandlerStep DEF Archiving
  <2>8. Contract!Erase
    BY <1>2, <2>1, <2>2, <2>4, EraseStep DEF StagedBy, Archiving
  <2> QED BY <2>7, <2>8 DEF Sound, Contract!Next
<1>6. CASE DropRows(p)
  <2>1. h'[p] = [h[p] EXCEPT !.pc = "dropDirRow", !.sel = {}] /\ Alone(p)
    BY <1>1, <1>6 DEF DropRows, Goto, GotoIf, Alone
  <2>2. h'[p].pc = "dropDirRow" /\ h'[p].sel = {} /\ h[p].pc = "eraseBlobs"
    BY <1>1, <1>6, <2>1 DEF Locals, DropRows, At
  <2>3. UNCHANGED blobs /\ trash' = trash \ RowsUnder(h[p].loc)
    BY <1>6 DEF DropRows
  <2>4. Fits(h'[p]) /\ h'[p].pc \notin Archiving
    BY <2>2 DEF Fits, Working, Restoring, Archiving
  <2>5. ErasedBy(h[p]) \cap trash' = {}
    BY <1>1, <2>2, <2>3 DEF ErasedBy, Fits, Working, RowsUnder, Below
  <2> QED BY <1>2, <2>1, <2>2, <2>3, <2>4, <2>5, KeepingStep
<1>7. CASE DropRow(p)
  <2>1. h'[p] = [h[p] EXCEPT !.pc = "eraseOne"] /\ Alone(p)
    BY <1>1, <1>7 DEF DropRow, Jump, Goto, GotoIf, Alone
  <2>2. /\ h[p].pc = "dropRow" /\ h'[p].pc = "eraseOne" /\ h'[p].sel = h[p].sel
        /\ h'[p].loc = h[p].loc /\ h'[p].blob = h[p].blob
    BY <1>1, <1>7, <2>1 DEF Locals, DropRow, At
  <2>3. UNCHANGED blobs /\ trash' = trash \ FileRows(RowsAt(h[p].loc))
    BY <1>7 DEF DropRow
  <2>4. Fits(h'[p]) /\ h'[p].pc \notin Archiving /\ ErasedBy(h[p]) = {}
    BY <1>1, <2>2 DEF Fits, Working, Restoring, Archiving, ErasedBy
  <2>5. h'[p].sel \cap trash' = {}
    BY <1>1, <2>2, <2>3 DEF Fits, Restoring, FileRows, RowsAt
  <2> QED BY <1>2, <2>1, <2>2, <2>3, <2>4, <2>5, KeepingStep
<1>8. CASE EraseOne(p)
  <2>1. h'[p] = Idle /\ Alone(p)
    BY <1>1, <1>8 DEF EraseOne, Answer, Alone
  <2>2. h[p].pc = "eraseOne" /\ UNCHANGED trash /\ blobs' = Without(blobs, {h[p].blob})
    BY <1>8 DEF EraseOne, At
  <2>3. PICK r \in h[p].sel : h[p].sel = {r} /\ ~r.isDir /\ r.blob = h[p].blob
    BY <1>1, <2>2 DEF Fits, Restoring
  <2>4. r.blob \in BlobsOf(h[p].sel) /\ DOMAIN blobs' = DOMAIN blobs \ {r.blob}
    BY <2>2, <2>3 DEF BlobsOf, FileRows, Without
  <2>5. DanglingOnlyInFlight'
    <3> SUFFICES ASSUME faults' = 0, NEW s \in FileRows(trash'), s.blob \notin DOMAIN blobs'
                 PROVE  s \in Erasing'
      BY DEF DanglingOnlyInFlight
    <3>1. s \in FileRows(trash) /\ s \in trash /\ r \notin trash
      BY <1>2, <2>2, <2>3 DEF BlobInv, RestoredUnlisted, FileRows
    <3>2. s.blob # r.blob
      BY <1>3, <1>4, <2>3, <3>1 DEF FileRows
    <3>3. s \in Erasing
      BY <1>2, <2>4, <3>1, <3>2 DEF BlobInv, DanglingOnlyInFlight
    <3>4. \A q \in Proc : ErasedBy(h[q]) \subseteq ErasedBy(h'[q])
      BY <2>1, <2>2 DEF ErasedBy, Alone
    <3> QED BY <1>2, <3>3, <3>4 DEF Erasing, ErasedBy
  <2>6. Fits(Idle) /\ Idle.pc \notin Archiving /\ Idle.pc # "eraseOne" /\ Idle.sel = {}
    BY DEF Fits, Idle, Working, Restoring, Archiving
  <2>7. BlobInv'
    BY <1>2, <2>1, <2>2, <2>4, <2>5, <2>6, HandlerStep
  <2>8. Contract!Erase
    BY <1>2, <2>1, <2>2, <2>4, <2>6, EraseStep DEF StagedBy
  <2> QED BY <2>7, <2>8 DEF Sound, Contract!Next
<1> QED BY <1>5, <1>6, <1>7, <1>8

\* All rows in the trash or held are rows, drawn before the next identifier.
LEMMA RowsDrawn ==
  ASSUME TypeInv, BlobInv
  PROVE  /\ fresh \in Nat /\ fresh # NoBlob
         /\ \A r \in trash \cup Held : /\ r.id \in Nat /\ r.id < fresh
                                       /\ r.blob \in Nat /\ r.blob < fresh
         /\ \A b \in DOMAIN blobs : b \in Nat /\ b < fresh
         /\ \A i \in expired : i \in Nat /\ i < fresh
<1>1. trash \cup Held \subseteq Row
  BY DEF TypeInv, TypeOK, StoreOK, CountersOK, Held, Locals
<1>2. Drawn
  BY DEF BlobInv
<1> QED BY <1>1, <1>2 DEF Drawn, Row, TypeInv, TypeOK, StoreOK

\* A request that moves a file away owns the blob it has drawn.
LEMMA ArchiveStep ==
  ASSUME TypeInv, BlobInv, NEW p \in Proc, NEW l \in Locals, NEW q,
         Archive(p, q, l), l.pc \in Archiving, l.sel = {},
         UNCHANGED <<purge, faults>>,
         h[p].pc \notin Archiving \cup {"eraseBlobs"}, h[p].sel = {}
  PROVE  Sound
<1>1. h \in [Proc -> Locals]
  BY DEF TypeInv, TypeOK
<1>2. CASE Fail(p) /\ UNCHANGED store
  <2>1. h'[p] = Idle /\ Alone(p)
    BY <1>1, <1>2 DEF Fail, Alone
  <2> QED BY <1>2, <2>1, IdlePlain, PlainStep DEF store
<1>3. CASE /\ blobs' = Put(blobs, fresh, disk[q])
           /\ fresh' = fresh + 1
           /\ Goto(p, [l EXCEPT !.cur = q, !.blob = fresh])
           /\ UNCHANGED <<index, trash, expired>>
  <2>1. /\ Alone(p) /\ h'[p].pc = l.pc /\ h'[p].sel = {} /\ h'[p].blob = fresh
    BY <1>1, <1>3 DEF Goto, GotoIf, Alone, Locals
  <2>2. DOMAIN blobs' = DOMAIN blobs \cup {fresh}
    BY <1>3 DEF Put
  <2>3. trash' \cup Held' \subseteq trash \cup Held
    BY <1>3, <2>1 DEF Held, Alone
  <2>4. Drawn'
    BY <1>3, <2>2, <2>3, RowsDrawn DEF Drawn
  <2>5. OneRowPerBlob'
    BY <2>3 DEF BlobInv, OneRowPerBlob, FileRows
  <2>6. StagedApart'
    <3>1. BlobsOf(trash' \cup Held') \subseteq BlobsOf(trash \cup Held)
      BY <2>3 DEF BlobsOf, FileRows
    <3>2. fresh \notin BlobsOf(trash \cup Held) /\ fresh \notin DOMAIN blobs
      BY RowsDrawn DEF BlobsOf, FileRows
    <3>3. ASSUME NEW o \in Proc, h'[o].pc \in Archiving, o # p
          PROVE  /\ h'[o].blob = h[o].blob /\ h[o].blob \in DOMAIN blobs
                 /\ h[o].blob \notin BlobsOf(trash \cup Held)
                 /\ \A x \in Proc \ {o, p} : h'[x].pc \in Archiving => h'[x].blob # h[o].blob
      BY <2>1, <3>3 DEF BlobInv, StagedApart, Alone
    <3> SUFFICES ASSUME NEW o \in Proc, h'[o].pc \in Archiving
                 PROVE  /\ h'[o].blob \in DOMAIN blobs'
                        /\ h'[o].blob \notin BlobsOf(trash' \cup Held')
                        /\ \A x \in Proc \ {o} : h'[x].pc \in Archiving => h'[x].blob # h'[o].blob
      BY DEF StagedApart
    <3>4. CASE o = p
      BY <2>1, <2>2, <3>1, <3>2, <3>3, <3>4
    <3>5. CASE o # p
      BY <2>1, <2>2, <3>1, <3>2, <3>3, <3>5
    <3> QED BY <3>4, <3>5
  <2>7. Fits(h'[p])
    BY <2>1 DEF Fits, Archiving, Working, Restoring
  <2>8. SelectedFits'
    BY <2>1, <2>7 DEF BlobInv, SelectedFits, Alone
  <2>9. PurgesExpired'
    BY <1>3 DEF BlobInv, PurgesExpired
  <2>10. RestoredUnlisted'
    BY <1>3, <2>1 DEF BlobInv, RestoredUnlisted, Alone
  <2>11. DanglingOnlyInFlight'
    <3>1. \A o \in Proc : ErasedBy(h[o]) \subseteq ErasedBy(h'[o])
      BY <2>1 DEF ErasedBy, Alone
    <3>2. Erasing \subseteq Erasing'
      BY <3>1 DEF Erasing, ErasedBy
    <3> QED BY <1>3, <2>2, <3>2 DEF BlobInv, DanglingOnlyInFlight
  <2>12. BlobInv'
    BY <2>4, <2>5, <2>6, <2>8, <2>9, <2>10, <2>11 DEF BlobInv
  <2>13. Contract!Archive
    <3>1. StagedBy(h'[p]) = {fresh} /\ StagedBy(h[p]) = {} /\ BlobsOf(h[p].sel) = {}
      BY <2>1 DEF StagedBy, BlobsOf, FileRows
    <3>2. Staged' = Staged \cup {fresh} /\ Chosen' = Chosen
      BY <2>1, <3>1, OneHandler DEF BlobsOf, FileRows
    <3>3. Aged' = Aged /\ BlobsOf(trash)' = BlobsOf(trash) /\ BlobsOf(purge.rows)' = BlobsOf(purge.rows)
      BY <1>3 DEF Aged, BlobsOf, FileRows
    <3>4. fresh \in DOMAIN blobs' /\ fresh >= fresh /\ fresh < fresh'
      BY <1>3, <2>2, RowsDrawn
    <3> QED BY <2>2, <3>2, <3>3, <3>4 DEF Contract!Archive
  <2> QED BY <2>12, <2>13 DEF Sound, Contract!Next
<1> QED BY <1>2, <1>3 DEF Archive

\* A row is inserted for a directory, or for the blob the request owns.
LEMMA InsertStep ==
  ASSUME TypeInv, BlobInv, NEW p \in Proc, NEW form, NEW q, NEW d \in BOOLEAN, NEW b,
         InsertRow(form, q, d, b),
         d \/ (h[p].pc \in Archiving /\ b = h[p].blob),
         d => b = NoBlob,
         d => h[p].pc \notin Archiving,
         Alone(p), Plain(h'[p]),
         UNCHANGED <<purge, faults>>,
         h[p].pc # "eraseBlobs", h[p].sel = {}
  PROVE  Sound
<1> DEFINE r == [id |-> fresh, form |-> form, path |-> q, isDir |-> d, blob |-> b]
<1>1. /\ trash' = trash \cup {r} /\ fresh' = fresh + 1 /\ UNCHANGED <<blobs, expired>>
      /\ r.id = fresh /\ r.isDir = d /\ r.blob = b
  BY DEF InsertRow
<1> HIDE DEF r
<1>2. Held' \subseteq Held /\ h'[p].sel = {}
  BY DEF Held, Alone, Plain
<1>3. ~d => b \in DOMAIN blobs /\ b \notin BlobsOf(trash \cup Held)
  BY DEF BlobInv, StagedApart
<1>4. fresh \in Nat /\ b \in Nat /\ b < fresh
  BY <1>3, RowsDrawn DEF NoBlob
<1>5. Drawn'
  BY <1>1, <1>2, <1>4, RowsDrawn DEF Drawn
<1>6. OneRowPerBlob'
  <2> SUFFICES ASSUME NEW s \in FileRows(trash' \cup Held'), NEW t \in FileRows(trash' \cup Held'),
                      s.blob = t.blob
               PROVE  s = t
    BY DEF OneRowPerBlob
  <2>1. \A x \in FileRows(trash' \cup Held') :
          x \in FileRows(trash \cup Held) \/ (x = r /\ ~d)
    BY <1>1, <1>2 DEF FileRows
  <2>2. \A x \in FileRows(trash \cup Held) : ~d => x.blob # b
    BY <1>3 DEF BlobsOf
  <2>3. \A x, y \in FileRows(trash \cup Held) : x.blob = y.blob => x = y
    BY DEF BlobInv, OneRowPerBlob
  <2> QED BY <1>1, <2>1, <2>2, <2>3
<1>7. StagedApart'
  <2> SUFFICES ASSUME NEW o \in Proc, h'[o].pc \in Archiving
               PROVE  /\ h'[o].blob \in DOMAIN blobs'
                      /\ h'[o].blob \notin BlobsOf(trash' \cup Held')
                      /\ \A x \in Proc \ {o} : h'[x].pc \in Archiving => h'[x].blob # h'[o].blob
    BY DEF StagedApart
  <2>1. o # p /\ h'[o] = h[o]
    BY DEF Plain, Alone
  <2>2. /\ h[o].blob \in DOMAIN blobs /\ h[o].blob \notin BlobsOf(trash \cup Held)
        /\ \A x \in Proc \ {o} : h[x].pc \in Archiving => h[x].blob # h[o].blob
    BY <2>1 DEF BlobInv, StagedApart
  <2>3. ~d => h[o].blob # b
    BY <2>1, <2>2
  <2>4. BlobsOf(trash' \cup Held') \subseteq BlobsOf(trash \cup Held) \cup (IF d THEN {} ELSE {b})
    BY <1>1, <1>2 DEF BlobsOf, FileRows
  <2>5. \A x \in Proc \ {o} : h'[x].pc \in Archiving => h'[x] = h[x]
    BY DEF Plain, Alone
  <2> QED BY <1>1, <2>1, <2>2, <2>3, <2>4, <2>5
<1>8. SelectedFits'
  <2>1. Fits(h'[p])
    BY DEF Plain, Fits, Working, Restoring
  <2> QED BY <2>1 DEF BlobInv, SelectedFits, Alone
<1>9. PurgesExpired'
  BY <1>1 DEF BlobInv, PurgesExpired
<1>10. RestoredUnlisted'
  <2> SUFFICES ASSUME faults' = 0, NEW o \in Proc, h'[o].pc = "eraseOne"
               PROVE  h'[o].sel \cap trash' = {}
    BY DEF RestoredUnlisted
  <2>1. o # p /\ h'[o] = h[o]
    BY DEF Plain, Restoring, Alone
  <2>2. h[o].sel \cap trash = {}
    BY <2>1 DEF BlobInv, RestoredUnlisted
  <2>3. r \notin Held
    BY <1>1, <1>4, RowsDrawn
  <2> QED BY <1>1, <2>1, <2>2, <2>3, HeldByHandler
<1>11. DanglingOnlyInFlight'
  <2>1. \A o \in Proc : ErasedBy(h[o]) \subseteq ErasedBy(h'[o])
    BY DEF ErasedBy, Alone
  <2>2. Erasing \subseteq Erasing'
    BY <2>1 DEF Erasing, ErasedBy
  <2> SUFFICES ASSUME faults' = 0, NEW s \in FileRows(trash'), s.blob \notin DOMAIN blobs'
               PROVE  s \in Erasing
    BY <2>2 DEF DanglingOnlyInFlight
  <2>3. s \in FileRows(trash) \/ (s = r /\ ~d)
    BY <1>1 DEF FileRows
  <2> QED BY <1>1, <1>3, <2>3 DEF BlobInv, DanglingOnlyInFlight
<1>12. BlobInv'
  BY <1>5, <1>6, <1>7, <1>8, <1>9, <1>10, <1>11 DEF BlobInv
<1>13. StagedBy(h'[p]) = {} /\ BlobsOf(h'[p].sel) = BlobsOf(h[p].sel)
  BY DEF Plain, StagedBy
<1>14. Chosen' = Chosen /\ BlobsOf(purge.rows)' = BlobsOf(purge.rows)
  BY <1>13, OneHandler DEF BlobsOf, FileRows
<1>15. Aged' = Aged
  <2>1. r.id \notin expired
    BY <1>1, RowsDrawn
  <2> QED BY <1>1, <2>1 DEF Aged, BlobsOf, FileRows
<1>16. CASE d
  <2>1. StagedBy(h[p]) = {}
    BY <1>16 DEF StagedBy
  <2>2. Staged' = Staged
    BY <1>13, <2>1, OneHandler
  <2>3. BlobsOf(trash)' = BlobsOf(trash)
    BY <1>1, <1>16 DEF BlobsOf, FileRows
  <2>4. Contract!ListDirectory
    BY <1>1, <1>4, <1>14, <1>15, <2>2, <2>3 DEF Contract!ListDirectory
  <2> QED BY <1>12, <2>4 DEF Sound, Contract!Next
<1>17. CASE ~d
  <2>1. h[p].pc \in Archiving /\ StagedBy(h[p]) = {b} /\ b \in Staged
    BY <1>17 DEF StagedBy, Staged
  <2>2. \A o \in Proc \ {p} : b \notin StagedBy(h[o])
    BY <1>17, <2>1 DEF BlobInv, StagedApart, StagedBy
  <2>3. b \notin Staged'
    BY <1>13, <2>2 DEF Staged, StagedBy, Alone
  <2>4. Staged' = Staged \ {b}
    BY <1>13, <2>1, <2>3, OneHandler
  <2>5. BlobsOf(trash)' = BlobsOf(trash) \cup {b}
    BY <1>1, <1>17 DEF BlobsOf, FileRows
  <2>6. fresh' >= fresh /\ DOMAIN blobs' = DOMAIN blobs
    BY <1>1, <1>4
  <2>7. Contract!List
    BY <1>14, <1>15, <2>1, <2>4, <2>5, <2>6 DEF Contract!List
  <2> QED BY <1>12, <2>7 DEF Sound, Contract!Next
<1> QED BY <1>16, <1>17

\* The steps that archive a file or file a row.
LEMMA FilingSteps ==
  ASSUME TypeInv, BlobInv, NEW p \in Proc,
         ArchiveFile(p) \/ SweepFile(p) \/ TrashRow(p) \/ SweepRow(p) \/ TrashDir(p)
  PROVE  Sound
<1>1. h \in [Proc -> Locals] /\ h[p] \in Locals /\ Fits(h[p])
  BY DEF TypeInv, TypeOK, BlobInv, SelectedFits
<1>2. /\ UNCHANGED <<purge, faults>>
      /\ h[p].pc \notin Working \cup Restoring /\ h[p].pc # "eraseBlobs"
      /\ ArchiveFile(p) \/ SweepFile(p) \/ TrashDir(p) => h[p].pc \notin Archiving
  BY DEF ArchiveFile, SweepFile, TrashRow, SweepRow, TrashDir, At, Working, Restoring, Archiving
<1>3. h[p].sel = {}
  BY <1>1, <1>2 DEF Fits
<1>4. CASE ArchiveFile(p)
  <2> DEFINE l == [h[p] EXCEPT !.pc = "trashRow"]
  <2>1. l \in Locals /\ l.pc \in Archiving /\ l.sel = {}
    BY <1>1, <1>3 DEF Locals, PC, Archiving
  <2>2. Archive(p, h[p].path, l)
    BY <1>4 DEF ArchiveFile
  <2> HIDE DEF l
  <2> QED BY <1>2, <1>3, <1>4, <2>1, <2>2, ArchiveStep
<1>5. CASE SweepFile(p)
  <2> PICK q \in h[p].files :
        Archive(p, q, [h[p] EXCEPT !.pc = "sweepRow", !.files = @ \ {q}])
    BY <1>5 DEF SweepFile
  <2> DEFINE l == [h[p] EXCEPT !.pc = "sweepRow", !.files = @ \ {q}]
  <2>1. l \in Locals /\ l.pc \in Archiving /\ l.sel = {}
    BY <1>1, <1>3 DEF Locals, PC, Archiving
  <2>2. Archive(p, q, l)
    OBVIOUS
  <2> HIDE DEF l
  <2> QED BY <1>2, <1>3, <1>5, <2>1, <2>2, ArchiveStep
<1>6. CASE TrashRow(p) \/ SweepRow(p)
  <2>1. /\ Alone(p) /\ h'[p].pc \in {"unindex", "sweep"} /\ h'[p].sel = {}
        /\ h[p].pc \in Archiving
    BY <1>1, <1>3, <1>6 DEF TrashRow, SweepRow, At, Jump, Goto, GotoIf, Alone, Locals, Archiving
  <2>2. Plain(h'[p])
    BY <2>1 DEF Plain, Working, Restoring, Archiving
  <2>3. \/ InsertRow("user", h[p].path, FALSE, h[p].blob)
        \/ InsertRow("rel", h[p].cur, FALSE, h[p].blob)
    BY <1>6 DEF TrashRow, SweepRow
  <2> QED BY <1>2, <1>3, <2>1, <2>2, <2>3, InsertStep
<1>7. CASE TrashDir(p)
  <2> PICK q \in h[p].stack :
        /\ InsertRow("rel", q, TRUE, NoBlob)
        /\ Goto(p, [h[p] EXCEPT !.pc = "listDir", !.to = q, !.stack = @ \ {q}])
    BY <1>7 DEF TrashDir
  <2>1. Alone(p) /\ h'[p].pc = "listDir" /\ h'[p].sel = {}
    BY <1>1, <1>3 DEF Goto, GotoIf, Alone, Locals
  <2>2. Plain(h'[p])
    BY <2>1 DEF Plain, Working, Restoring, Archiving
  <2> QED BY <1>2, <1>3, <1>7, <2>1, <2>2, InsertStep
<1> QED BY <1>4, <1>5, <1>6, <1>7

-----------------------------------------------------------------------------
(* The purger, time and failures *)

\* The purger and time.
LEMMA PurgerStep ==
  ASSUME TypeInv, BlobInv, Purger \/ Age
  PROVE  Sound
<1>1. UNCHANGED <<h, fresh, faults>> /\ trash' \subseteq trash
  BY DEF Purger, PurgeScan, PurgeBlob, PurgeRow, Age, PurgeStep
<1>2. /\ expired \subseteq expired' /\ \A i \in expired' : i < fresh
      /\ DOMAIN blobs' \subseteq DOMAIN blobs
      /\ purge'.rows \cup purge'.cur \subseteq trash \cup purge.rows \cup purge.cur
  <2>1. purge \in [rows : SUBSET Row, cur : SUBSET Row]
    BY DEF TypeInv, TypeOK, CountersOK
  <2>2. CASE PurgeScan
    BY <2>1, <2>2, RowsDrawn DEF PurgeScan, PurgeStep
  <2>3. CASE PurgeBlob
    BY <2>1, <2>3, RowsDrawn DEF PurgeBlob, PurgeStep, Without
  <2>4. CASE PurgeRow
    BY <2>1, <2>4, RowsDrawn DEF PurgeRow, PurgeStep
  <2>5. CASE Age
    BY <2>1, <2>5, RowsDrawn DEF Age
  <2> QED BY <2>2, <2>3, <2>4, <2>5 DEF Purger
<1>3. trash' \cup Held' \subseteq trash \cup Held
  BY <1>1, <1>2 DEF Held
<1>4. Drawn'
  BY <1>1, <1>2, <1>3, RowsDrawn DEF Drawn
<1>5. OneRowPerBlob'
  BY <1>3 DEF BlobInv, OneRowPerBlob, FileRows
<1>6. \A b \in DOMAIN blobs \ DOMAIN blobs' : b \in BlobsOf(Held)
  BY DEF Purger, PurgeScan, PurgeBlob, PurgeRow, Age, PurgeStep, Without, Held, BlobsOf, FileRows
<1>7. StagedApart'
  <2>1. BlobsOf(trash' \cup Held') \subseteq BlobsOf(trash \cup Held)
    BY <1>3 DEF BlobsOf, FileRows
  <2>2. BlobsOf(Held) \subseteq BlobsOf(trash \cup Held)
    BY DEF BlobsOf, FileRows
  <2> QED BY <1>1, <1>6, <2>1, <2>2 DEF BlobInv, StagedApart
<1>8. SelectedFits'
  BY <1>1 DEF BlobInv, SelectedFits
<1>9. PurgesExpired'
  <2>1. purge \in [rows : SUBSET Row, cur : SUBSET Row]
    BY DEF TypeInv, TypeOK, CountersOK
  <2>2. CASE PurgeScan
    BY <2>1, <2>2 DEF PurgeScan, PurgeStep, BlobInv, PurgesExpired
  <2>3. CASE PurgeBlob
    BY <2>1, <2>3 DEF PurgeBlob, PurgeStep, BlobInv, PurgesExpired
  <2>4. CASE PurgeRow
    BY <2>1, <2>4 DEF PurgeRow, PurgeStep, BlobInv, PurgesExpired
  <2>5. CASE Age
    BY <2>5 DEF Age, BlobInv, PurgesExpired
  <2> QED BY <2>2, <2>3, <2>4, <2>5 DEF Purger
<1>10. RestoredUnlisted'
  BY <1>1 DEF BlobInv, RestoredUnlisted
<1>11. DanglingOnlyInFlight'
  <2> SUFFICES ASSUME faults' = 0, NEW s \in FileRows(trash'), s.blob \notin DOMAIN blobs'
               PROVE  s \in Erasing'
    BY DEF DanglingOnlyInFlight
  <2>1. s \in FileRows(trash) /\ s \in trash'
    BY <1>1 DEF FileRows
  <2>2. s.blob \notin DOMAIN blobs => s \in Erasing
    BY <1>1, <2>1 DEF BlobInv, DanglingOnlyInFlight
  <2>3. purge \in [rows : SUBSET Row, cur : SUBSET Row]
    BY DEF TypeInv, TypeOK, CountersOK
  <2>4. CASE PurgeScan \/ Age
    <3>1. UNCHANGED blobs /\ purge.cur \subseteq purge'.cur
      BY <2>4 DEF PurgeScan, PurgeStep, Age, Asleep
    <3> QED BY <1>1, <2>2, <3>1 DEF Erasing, ErasedBy
  <2>5. CASE PurgeBlob
    <3> PICK r \in purge.rows :
          /\ purge' = [rows |-> purge.rows \ {r}, cur |-> {r}]
          /\ blobs' = IF r.isDir THEN blobs ELSE Without(blobs, {r.blob})
      BY <2>5 DEF PurgeBlob
    <3>1. purge.cur = {} /\ purge'.cur = {r}
      BY <2>5 DEF PurgeBlob
    <3>2. s \in Erasing => s \in Erasing'
      BY <1>1, <3>1 DEF Erasing, ErasedBy
    <3>3. CASE s.blob \notin DOMAIN blobs
      BY <2>2, <3>2, <3>3
    <3>4. CASE s.blob \in DOMAIN blobs
      <4>1. ~r.isDir /\ s.blob = r.blob
        BY <3>4 DEF Without
      <4>2. r \in FileRows(trash \cup Held) /\ s \in FileRows(trash \cup Held)
        BY <2>1, <4>1 DEF FileRows, Held
      <4>3. s = r
        BY <4>1, <4>2 DEF BlobInv, OneRowPerBlob
      <4> QED BY <3>1, <4>3 DEF Erasing
    <3> QED BY <3>3, <3>4
  <2>6. CASE PurgeRow
    <3>1. UNCHANGED blobs /\ s \notin purge.cur
      BY <2>1, <2>6 DEF PurgeRow
    <3> QED BY <1>1, <2>2, <3>1 DEF Erasing, ErasedBy
  <2> QED BY <2>4, <2>5, <2>6 DEF Purger
<1>12. BlobInv'
  BY <1>4, <1>5, <1>7, <1>8, <1>9, <1>10, <1>11 DEF BlobInv
<1>13. Staged' = Staged /\ Chosen' = Chosen
  BY <1>1 DEF Staged, StagedBy, Chosen, BlobsOf, FileRows
<1>14. /\ purge \in [rows : SUBSET Row, cur : SUBSET Row]
       /\ \A r \in purge.rows : r.id \in expired
  BY DEF TypeInv, TypeOK, CountersOK, BlobInv, PurgesExpired
<1>15. CASE PurgeScan
  <2>1. purge.rows = {} /\ purge'.rows = {r \in trash : r.id \in expired}
        /\ UNCHANGED <<trash, blobs, expired>>
    BY <1>15 DEF PurgeScan, PurgeStep, Asleep
  <2>2. Aged' = Aged /\ BlobsOf(purge.rows)' \subseteq Aged /\ BlobsOf(trash)' = BlobsOf(trash)
    BY <2>1 DEF Aged, BlobsOf, FileRows
  <2>3. Contract!FallDue
    BY <1>1, <1>13, <2>1, <2>2 DEF Contract!FallDue
  <2> QED BY <1>12, <2>3 DEF Sound, Contract!Next
<1>16. CASE PurgeBlob
  <2> PICK r \in purge.rows :
        /\ purge' = [rows |-> purge.rows \ {r}, cur |-> {r}]
        /\ blobs' = IF r.isDir THEN blobs ELSE Without(blobs, {r.blob})
    BY <1>16 DEF PurgeBlob
  <2>1. purge'.rows \subseteq purge.rows /\ UNCHANGED <<trash, expired>>
    BY <1>16 DEF PurgeBlob, PurgeStep
  <2>2. /\ Aged' \subseteq Aged /\ BlobsOf(purge.rows)' \subseteq BlobsOf(purge.rows)
        /\ BlobsOf(trash)' = BlobsOf(trash)
    BY <2>1 DEF Aged, BlobsOf, FileRows
  <2>3. CASE r.isDir
    <3>1. Contract!Unlist
      BY <1>1, <1>13, <2>2, <2>3 DEF Contract!Unlist, Contract!LetGo
    <3> QED BY <1>12, <3>1 DEF Sound, Contract!Next
  <2>4. CASE ~r.isDir
    <3>1. r.blob \in BlobsOf(purge.rows) /\ DOMAIN blobs' = DOMAIN blobs \ {r.blob}
      BY <2>4 DEF BlobsOf, FileRows, Without
    <3>2. Contract!Erase
      BY <1>1, <1>13, <2>2, <3>1 DEF Contract!Erase, Contract!LetGo
    <3> QED BY <1>12, <3>2 DEF Sound, Contract!Next
  <2> QED BY <2>3, <2>4
<1>17. CASE PurgeRow
  <2>1. purge'.rows = purge.rows /\ UNCHANGED <<blobs, expired>>
    BY <1>14, <1>17 DEF PurgeRow, PurgeStep
  <2>2. /\ Aged' \subseteq Aged /\ BlobsOf(purge.rows)' = BlobsOf(purge.rows)
        /\ BlobsOf(trash)' \subseteq BlobsOf(trash)
    BY <1>1, <2>1 DEF Aged, BlobsOf, FileRows
  <2>3. Contract!Unlist
    BY <1>1, <1>13, <2>1, <2>2 DEF Contract!Unlist, Contract!LetGo
  <2> QED BY <1>12, <2>3 DEF Sound, Contract!Next
<1>18. CASE Age
  <2>1. UNCHANGED <<trash, blobs, purge>> /\ expired' = expired \cup {r.id : r \in trash}
    BY <1>18 DEF Age
  <2>2. Aged = BlobsOf({r \in trash : r.id \in expired}) \cup BlobsOf(purge.rows)
    BY <1>14 DEF Aged, BlobsOf, FileRows
  <2>3. Aged' = BlobsOf(trash) \cup BlobsOf(purge.rows)
    BY <1>14, <2>1 DEF Aged, BlobsOf, FileRows
  <2>4. BlobsOf({r \in trash : r.id \in expired}) \subseteq BlobsOf(trash)
    BY DEF BlobsOf, FileRows
  <2>5. BlobsOf(trash)' = BlobsOf(trash) /\ BlobsOf(purge.rows)' = BlobsOf(purge.rows)
    BY <2>1 DEF BlobsOf, FileRows
  <2>6. Aged' = Aged \cup BlobsOf(trash)
    BY <2>2, <2>3, <2>4
  <2>7. Contract!Expire
    BY <1>1, <1>13, <2>1, <2>5, <2>6 DEF Contract!Expire
  <2> QED BY <1>12, <2>7 DEF Sound, Contract!Next
<1> QED BY <1>15, <1>16, <1>17, <1>18 DEF Purger

\* A crash, a statement that fails, an error that is dropped.
LEMMA FailureStep ==
  ASSUME TypeInv, BlobInv, Failure
  PROVE  Sound
<1>1. UNCHANGED <<trash, blobs, fresh, expired>> /\ faults' # 0 /\ Fault
  <2>1. Fault /\ UNCHANGED store
    BY DEF Failure, Crash, PurgeErrorDropped, StatementFails, ErrorDropped
  <2>2. faults \in Nat
    BY DEF TypeInv, TypeOK, CountersOK
  <2> QED BY <2>1, <2>2 DEF Fault, store
<1>2. h \in [Proc -> Locals] /\ \A p \in Proc : h[p] \in Locals /\ Fits(h[p])
  BY DEF TypeInv, TypeOK, BlobInv, SelectedFits
<1>3. CASE Crash
  <2>1. \A p \in Proc : h'[p] = Idle
    BY <1>3 DEF Crash
  <2>2. Plain(Idle) /\ Fits(Idle)
    BY IdlePlain DEF Plain, Fits, Working, Restoring
  <2>3. Held' = {}
    BY <1>3, <2>1, <2>2 DEF Held, Crash, Asleep, Plain
  <2>4. Drawn' /\ OneRowPerBlob'
    BY <1>1, <2>3 DEF BlobInv, Drawn, OneRowPerBlob, FileRows
  <2>5. StagedApart' /\ SelectedFits'
    BY <2>1, <2>2 DEF StagedApart, SelectedFits, Plain
  <2>6. PurgesExpired'
    BY <1>3 DEF PurgesExpired, Crash, Asleep
  <2>7. BlobInv'
    BY <1>1, <2>4, <2>5, <2>6 DEF BlobInv, RestoredUnlisted, DanglingOnlyInFlight
  <2>8. Staged' = {} /\ Chosen' = {} /\ purge'.rows = {}
    BY <1>3, <2>1, <2>2 DEF Staged, StagedBy, Chosen, BlobsOf, FileRows, Plain, Crash, Asleep
  <2>9. /\ Aged' \subseteq Aged /\ BlobsOf(trash)' = BlobsOf(trash) /\ BlobsOf(purge.rows)' = {}
    BY <1>1, <2>8 DEF Aged, BlobsOf, FileRows
  <2>10. Contract!Unlist
    BY <1>1, <2>8, <2>9 DEF Contract!Unlist, Contract!LetGo
  <2> QED BY <2>7, <2>10 DEF Sound, Contract!Next
<1>4. CASE PurgeErrorDropped
  <2>1. UNCHANGED h /\ purge'.rows \cup purge'.cur \subseteq purge.rows \cup purge.cur
    <3>1. purge \in [rows : SUBSET Row, cur : SUBSET Row]
      BY DEF TypeInv, TypeOK, CountersOK
    <3> QED BY <1>4, <3>1 DEF PurgeErrorDropped
  <2>2. Held' \subseteq Held
    BY <2>1 DEF Held
  <2>3. Drawn' /\ OneRowPerBlob' /\ PurgesExpired'
    BY <1>1, <2>1, <2>2 DEF BlobInv, Drawn, OneRowPerBlob, FileRows, PurgesExpired
  <2>4. StagedApart' /\ SelectedFits'
    BY <1>1, <2>1, <2>2 DEF BlobInv, StagedApart, SelectedFits, BlobsOf, FileRows
  <2>5. BlobInv'
    BY <1>1, <2>3, <2>4 DEF BlobInv, RestoredUnlisted, DanglingOnlyInFlight
  <2>6. purge'.rows \subseteq purge.rows
    <3>1. purge \in [rows : SUBSET Row, cur : SUBSET Row]
      BY DEF TypeInv, TypeOK, CountersOK
    <3> QED BY <1>4, <3>1 DEF PurgeErrorDropped
  <2>7. /\ Aged' \subseteq Aged /\ BlobsOf(purge.rows)' \subseteq BlobsOf(purge.rows)
        /\ BlobsOf(trash)' = BlobsOf(trash)
    BY <1>1, <2>6 DEF Aged, BlobsOf, FileRows
  <2>8. Staged' = Staged /\ Chosen' = Chosen
    BY <2>1 DEF Staged, StagedBy, Chosen, BlobsOf, FileRows
  <2>9. Contract!Unlist
    BY <1>1, <2>7, <2>8 DEF Contract!Unlist, Contract!LetGo
  <2> QED BY <2>5, <2>9 DEF Sound, Contract!Next
<1>5. ASSUME NEW p \in Proc, StatementFails(p)
      PROVE  Sound
  <2>1. h'[p] = Idle /\ Alone(p) /\ UNCHANGED purge
    BY <1>2, <1>5 DEF StatementFails, Alone
  <2> QED BY <1>1, <2>1, IdlePlain, PlainStep
<1>6. ASSUME NEW p \in Proc, ErrorDropped(p)
      PROVE  Sound
  <2>1. Alone(p) /\ UNCHANGED purge
    BY <1>2, <1>6 DEF ErrorDropped, Alone
  <2>2. ASSUME Plain(h'[p]) PROVE Sound
    BY <1>1, <2>1, <2>2, PlainStep
  <2>3. ASSUME h'[p].sel = h[p].sel, Fits(h'[p]), h'[p].pc \notin Archiving PROVE Sound
    BY <1>1, <2>1, <2>3, KeepingStep
  <2>4. CASE h[p].pc \in DOMAIN Unchecked
    <3>1. h'[p] = IF Unchecked[h[p].pc] = "idle" THEN Idle
                  ELSE [h[p] EXCEPT !.pc = Unchecked[h[p].pc]]
      <4>1. h[p].pc # "eraseBlobs"
        BY <2>4 DEF Unchecked
      <4> QED BY <1>2, <1>6, <4>1 DEF ErrorDropped
    <3>2. CASE h[p].pc \in {"unindex", "eraseOne", "dropDirRow"}
      <4>1. h'[p] = Idle
        BY <3>1, <3>2 DEF Unchecked
      <4> QED BY <2>2, <4>1, IdlePlain
    <3>3. CASE h[p].pc = "unindexTree"
      <4>1. h'[p] = [h[p] EXCEPT !.pc = "unindex"] /\ h[p].sel = {}
        BY <1>2, <3>1, <3>3 DEF Unchecked, Fits, Working, Restoring
      <4>2. h'[p].sel = {} /\ h'[p].pc = "unindex"
        BY <1>2, <4>1 DEF Locals
      <4> QED BY <2>2, <4>2 DEF Plain, Working, Restoring, Archiving
    <3>4. CASE h[p].pc = "dropRow"
      <4>1. h'[p] = [h[p] EXCEPT !.pc = "eraseOne"]
        BY <3>1, <3>4 DEF Unchecked
      <4>2. /\ h'[p].sel = h[p].sel /\ h'[p].pc = "eraseOne"
            /\ h'[p].loc = h[p].loc /\ h'[p].blob = h[p].blob
        BY <1>2, <4>1 DEF Locals
      <4>3. Fits(h'[p])
        BY <1>2, <3>4, <4>2 DEF Fits, Working, Restoring
      <4> QED BY <2>3, <4>2, <4>3 DEF Archiving
    <3>5. CASE h[p].pc = "copyRow"
      <4>1. h'[p] = [h[p] EXCEPT !.pc = "copy"]
        BY <3>1, <3>5 DEF Unchecked
      <4>2. /\ h'[p].sel = h[p].sel /\ h'[p].rows = h[p].rows /\ h'[p].pc = "copy"
            /\ h'[p].loc = h[p].loc
        BY <1>2, <4>1 DEF Locals
      <4>3. Fits(h'[p])
        BY <1>2, <3>5, <4>2 DEF Fits, Working, Restoring
      <4> QED BY <2>3, <4>2, <4>3 DEF Archiving
    <3> QED BY <2>4, <3>2, <3>3, <3>4, <3>5 DEF Unchecked
  <2>5. CASE h[p].pc \notin DOMAIN Unchecked
    <3>1. /\ h[p].pc = "eraseBlobs"
          /\ \/ h'[p] = [h[p] EXCEPT !.pc = "dropDirRow", !.sel = {}]
             \/ \E r \in h[p].rows : h'[p] = [h[p] EXCEPT !.rows = @ \ {r}]
      BY <1>2, <1>6, <2>5 DEF ErrorDropped
    <3>2. CASE h'[p] = [h[p] EXCEPT !.pc = "dropDirRow", !.sel = {}]
      <4>1. h'[p].sel = {} /\ h'[p].pc = "dropDirRow"
        BY <1>2, <3>2 DEF Locals
      <4> QED BY <2>2, <4>1 DEF Plain, Working, Restoring, Archiving
    <3>3. CASE \E r \in h[p].rows : h'[p] = [h[p] EXCEPT !.rows = @ \ {r}]
      <4>1. /\ h'[p].sel = h[p].sel /\ h'[p].rows \subseteq h[p].rows
            /\ h'[p].pc = "eraseBlobs" /\ h'[p].loc = h[p].loc
        BY <1>2, <3>1, <3>3 DEF Locals
      <4>2. Fits(h'[p])
        BY <1>2, <3>1, <4>1 DEF Fits, Working, Restoring
      <4> QED BY <2>3, <4>1, <4>2 DEF Archiving
    <3> QED BY <3>1, <3>2, <3>3
  <2> QED BY <2>4, <2>5
<1> QED BY <1>3, <1>4, <1>5, <1>6 DEF Failure

-----------------------------------------------------------------------------
(* The theorems *)

\* The empty store.
LEMMA InitBlobs == Init => BlobInv
<1> SUFFICES ASSUME Init PROVE BlobInv
  OBVIOUS
<1>1. /\ trash = {} /\ expired = {} /\ DOMAIN blobs = {} /\ purge = Asleep
      /\ \A p \in Proc : h[p] = Idle
  BY DEF Init, Blank
<1>2. Plain(Idle) /\ Fits(Idle)
  BY IdlePlain DEF Plain, Fits, Working, Restoring
<1>3. Held = {}
  BY <1>1, <1>2 DEF Held, Asleep, Plain
<1>4. Drawn /\ OneRowPerBlob
  BY <1>1, <1>3 DEF Drawn, OneRowPerBlob, FileRows
<1>5. StagedApart /\ SelectedFits
  BY <1>1, <1>2 DEF StagedApart, SelectedFits, Plain
<1>6. PurgesExpired /\ RestoredUnlisted /\ DanglingOnlyInFlight
  BY <1>1, <1>2 DEF PurgesExpired, Asleep, RestoredUnlisted, DanglingOnlyInFlight, FileRows, Plain
<1> QED BY <1>4, <1>5, <1>6 DEF BlobInv

\* Every step preserves what the handlers rely on, and is a step of the
\* lifecycle or leaves the blobs and their rows alone.
LEMMA NextBlobs ==
  TypeInv /\ BlobInv /\ [Next]_vars => BlobInv' /\ [Contract!Next]_(Contract!vars)
<1> SUFFICES ASSUME TypeInv, BlobInv, [Next]_vars
             PROVE  BlobInv' /\ [Contract!Next]_(Contract!vars)
  OBVIOUS
<1>1. CASE UNCHANGED vars
  <2>1. /\ UNCHANGED <<trash, blobs, fresh, expired, h, purge, faults>>
    BY <1>1 DEF vars
  <2>2. Held' = Held
    BY <2>1 DEF Held
  <2>3. Drawn' /\ OneRowPerBlob' /\ StagedApart'
    BY <2>1, <2>2 DEF BlobInv, Drawn, OneRowPerBlob, StagedApart, BlobsOf, FileRows
  <2>4. SelectedFits' /\ PurgesExpired' /\ RestoredUnlisted'
    BY <2>1 DEF BlobInv, SelectedFits, PurgesExpired, RestoredUnlisted
  <2>5. DanglingOnlyInFlight'
    BY <2>1 DEF BlobInv, DanglingOnlyInFlight, Erasing, ErasedBy, FileRows
  <2>6. UNCHANGED Contract!vars
    BY <2>1 DEF Contract!vars, Staged, StagedBy, Chosen, Aged, BlobsOf, FileRows
  <2> QED BY <2>3, <2>4, <2>5, <2>6 DEF BlobInv
<1>2. ASSUME NEW p \in Proc, Step(p) PROVE Sound
  BY <1>2, PlainSteps, FilingSteps, SelectingSteps, ErasingSteps DEF Step
<1>3. CASE Next
  <2>1. Sound
    BY <1>2, <1>3, RequestStep, PurgerStep, FailureStep DEF Next
  <2> QED BY <2>1 DEF Sound
<1> QED BY <1>1, <1>3

\* In every reachable state, whatever overlaps and whatever has failed, what
\* the handlers and the purger hold across their awaits is as they rely on.
THEOREM BlobsCorrect == Spec => [](TypeInv /\ BlobInv)
BY InitTyped, NextTyped, InitBlobs, NextBlobs, PTL DEF Spec

\* Two rows of the trash never name the same blob.
THEOREM Unshared == Spec => []BlobsUnshared
<1>1. BlobInv => BlobsUnshared
  BY DEF BlobInv, OneRowPerBlob, BlobsUnshared, FileRows
<1> QED BY <1>1, BlobsCorrect, PTL

\* As long as nothing fails, a row without its bytes is being dropped.
THEOREM NoDanglingRows == Spec => []DanglingOnlyInFlight
<1>1. BlobInv => DanglingOnlyInFlight
  BY DEF BlobInv
<1> QED BY <1>1, BlobsCorrect, PTL

\* The empty store is the empty lifecycle.
LEMMA InitContract == Init => Contract!Init
<1> SUFFICES ASSUME Init PROVE Contract!Init
  OBVIOUS
<1>1. /\ trash = {} /\ DOMAIN blobs = {} /\ purge.rows = {} /\ fresh = 1
      /\ \A p \in Proc : h[p] = Idle
  BY DEF Init, Blank, Asleep
<1>2. Staged = {} /\ Chosen = {}
  BY <1>1, IdlePlain DEF Staged, StagedBy, Chosen, Plain, BlobsOf, FileRows
<1>3. BlobsOf(trash) = {} /\ Aged = {} /\ BlobsOf(purge.rows) = {}
  BY <1>1 DEF Aged, BlobsOf, FileRows
<1> QED BY <1>1, <1>2, <1>3 DEF Contract!Init

\* The store implements the lifecycle of its blobs: bytes are archived under
\* names never used before, listed once, and erased only for a request that
\* selected them or because they had expired.
THEOREM Implements == Spec => ImplementsContract
BY InitTyped, NextTyped, InitBlobs, NextBlobs, InitContract, PTL
   DEF Spec, ImplementsContract, Contract!Spec

-----------------------------------------------------------------------------
(* What stands at the top of the trash *)

\* A step of one handler that inserts no row.
LEMMA ShallowStep ==
  ASSUME TopInv, NEW p \in Proc, Alone(p), trash' \subseteq trash, SweptDeep(h'[p])
  PROVE  TopInv'
<1>2. \A q \in Proc : SweptDeep(h'[q])
  BY DEF TopInv, Alone
<1>3. TopRowsAreDirs'
  BY DEF TopInv, TopRowsAreDirs, AtTop
<1> QED BY <1>2, <1>3 DEF TopInv

\* One that inserts a row.
LEMMA FilingStep ==
  ASSUME TypeInv, TopInv, NEW p \in Proc, Alone(p), NEW form, NEW path, NEW isDir, NEW blob,
         InsertRow(form, path, isDir, blob),
         form = "user" \/ isDir \/ Len(path) > 1,
         SweptDeep(h'[p])
  PROVE  TopInv'
<1>1. \A q \in Proc : SweptDeep(h'[q])
  BY DEF TopInv, Alone
<1>2. TopRowsAreDirs'
  BY DEF TopInv, TopRowsAreDirs, AtTop, InsertRow
<1> QED BY <1>1, <1>2 DEF TopInv

LEMMA TopSteps ==
  ASSUME TypeInv, TopInv, NEW p \in Proc, Step(p)
  PROVE  TopInv'
<1> DEFINE Kept == /\ Alone(p) /\ h'[p].files \subseteq h[p].files
                   /\ h'[p].pc \notin {"listDir", "sweepRow"}
<1>1. h \in [Proc -> Locals] /\ h[p] \in Locals /\ SweptDeep(h[p])
  BY DEF TypeInv, TypeOK, TopInv
<1>2. ASSUME NEW pc \in {"renameKids", "renameDeep", "trashDir", "unindexTree", "unindex",
                         "restoreRow", "dropRow", "eraseOne", "copy", "trashRow", "sweep"},
             Jump(p, pc)
      PROVE  Kept
  <2>1. Alone(p) /\ h'[p] = [h[p] EXCEPT !.pc = pc]
    BY <1>2, NewLocals
  <2>2. h'[p].pc = pc /\ h'[p].files = h[p].files
    BY <1>1, <2>1 DEF Locals
  <2> QED BY <2>1, <2>2
<1>3. ASSUME Answer(p) \/ Fail(p) PROVE Kept
  <2>1. Alone(p) /\ h'[p] = Idle
    BY <1>3, NewLocals
  <2>2. Idle.pc = "idle" /\ Idle.files = {}
    BY DEF Idle
  <2> QED BY <2>1, <2>2
<1>4. ASSUME trash' \subseteq trash, Kept PROVE TopInv'
  BY <1>1, <1>4, ShallowStep DEF SweptDeep
<1>5. CASE \/ SaveRow(p) \/ MkdirDisk(p) \/ RemoveDir(p) \/ UnindexTree(p) \/ Unindex(p)
           \/ DropDirRow(p) \/ RestoreFile(p) \/ RestoreRow(p) \/ DropRow(p) \/ EraseOne(p)
           \/ CopyRow(p) \/ RenameOwn(p) \/ RenameKids(p) \/ RenameDeep(p)
  <2>1. trash' \subseteq trash
    BY <1>5 DEF SaveRow, MkdirDisk, RemoveDir, UnindexTree, Unindex, DropDirRow, RestoreFile,
       RestoreRow, DropRow, EraseOne, CopyRow, RenameOwn, RenameKids, RenameDeep
  <2>2. \/ Answer(p) \/ Fail(p)
        \/ \E pc \in {"renameKids", "renameDeep", "trashDir", "unindexTree", "unindex",
                      "restoreRow", "dropRow", "eraseOne", "copy"} : Jump(p, pc)
    <3> HIDE DEF Kept
    <3>1. CASE \/ SaveRow(p) \/ MkdirDisk(p) \/ UnindexTree(p) \/ Unindex(p) \/ DropDirRow(p)
               \/ RestoreFile(p) \/ RestoreRow(p) \/ DropRow(p) \/ EraseOne(p) \/ CopyRow(p)
      BY <3>1 DEF SaveRow, MkdirDisk, UnindexTree, Unindex, DropDirRow, RestoreFile,
         RestoreRow, DropRow, EraseOne, CopyRow
    <3>2. CASE RemoveDir(p)
      BY <3>2 DEF RemoveDir
    <3>3. CASE RenameOwn(p) \/ RenameKids(p) \/ RenameDeep(p)
      BY <3>3 DEF RenameOwn, RenameKids, RenameDeep, UpdateRows
    <3> QED BY <1>5, <3>1, <3>2, <3>3
  <2> HIDE DEF Kept
  <2>3. Kept
    BY <1>2, <1>3, <2>2
  <2> QED BY <1>4, <2>1, <2>3
<1>6. CASE \/ Collect(p) \/ EraseBlob(p) \/ DropRows(p) \/ RestoreDir(p)
           \/ CopyDir(p) \/ CopyFile(p) \/ CopyDone(p)
  <2>1. trash' \subseteq trash
    BY <1>6 DEF Collect, EraseBlob, DropRows, RestoreDir, CopyDir, CopyFile, CopyDone, store
  <2>2. CASE Fail(p)
    BY <1>3, <1>4, <2>1, <2>2
  <2>3. CASE ~Fail(p)
    <3>1. ASSUME Collect(p) PROVE Kept
      BY <1>1, <3>1 DEF Collect, Goto, GotoIf, Alone, Locals
    <3>2. ASSUME EraseBlob(p) PROVE Kept
      BY <1>1, <3>2 DEF EraseBlob, Goto, GotoIf, At, Alone, Locals
    <3>3. ASSUME DropRows(p) PROVE Kept
      BY <1>1, <3>3 DEF DropRows, Goto, GotoIf, Alone, Locals
    <3>4. ASSUME RestoreDir(p) PROVE Kept
      BY <1>1, <3>4 DEF RestoreDir, GotoIf, Alone, Locals
    <3>5. ASSUME CopyDir(p) PROVE Kept
      <4>1. PICK r, q : h' = [h EXCEPT ![p] = [h[p] EXCEPT !.pc = "copyRow", !.rows = @ \ {r},
                                                          !.cur = q, !.made = "dir"]]
        BY <3>5 DEF CopyDir, GotoIf
      <4> QED BY <1>1, <4>1 DEF Alone, Locals
    <3>6. ASSUME CopyFile(p) PROVE Kept
      <4>1. PICK r, q : h' = [h EXCEPT ![p] = [h[p] EXCEPT !.pc = "copyRow", !.rows = @ \ {r},
                                                          !.cur = q, !.made = "file"]]
        BY <2>3, <3>6 DEF CopyFile, Goto, GotoIf
      <4> QED BY <1>1, <4>1 DEF Alone, Locals
    <3>7. ASSUME CopyDone(p) PROVE Kept
      BY <1>1, <3>7 DEF CopyDone, Goto, GotoIf, Alone, Locals
    <3> HIDE DEF Kept
    <3> QED BY <1>4, <1>6, <2>1, <3>1, <3>2, <3>3, <3>4, <3>5, <3>6, <3>7
  <2> QED BY <2>2, <2>3
<1>7. CASE ArchiveFile(p)
  <2>1. UNCHANGED trash /\ Archive(p, h[p].path, [h[p] EXCEPT !.pc = "trashRow"])
    BY <1>7 DEF ArchiveFile, Archive, store
  <2>2. CASE Fail(p)
    BY <1>3, <1>4, <2>1, <2>2
  <2>3. CASE ~Fail(p)
    <3> DEFINE l == [[h[p] EXCEPT !.pc = "trashRow"] EXCEPT !.cur = h[p].path, !.blob = fresh]
    <3>1. Goto(p, l) /\ l.files = h[p].files /\ l.pc = "trashRow"
      BY <1>1, <2>1, <2>3 DEF Archive, Locals
    <3> HIDE DEF l
    <3>2. Kept
      BY <3>1, NewLocals
    <3> QED BY <1>4, <2>1, <3>2
  <2> QED BY <2>2, <2>3
<1>8. CASE SweepFile(p)
  <2>1. PICK q \in h[p].files :
          Archive(p, q, [h[p] EXCEPT !.pc = "sweepRow", !.files = @ \ {q}])
    BY <1>8 DEF SweepFile
  <2>2. UNCHANGED trash
    BY <2>1 DEF Archive, store
  <2>3. CASE Fail(p)
    BY <1>3, <1>4, <2>2, <2>3
  <2>4. CASE ~Fail(p)
    <3> DEFINE l == [[h[p] EXCEPT !.pc = "sweepRow", !.files = @ \ {q}]
                        EXCEPT !.cur = q, !.blob = fresh]
    <3>1. Goto(p, l) /\ l.files \subseteq h[p].files /\ l.cur = q /\ l.pc = "sweepRow"
      BY <1>1, <2>1, <2>4 DEF Archive, Locals
    <3> HIDE DEF l
    <3>2. Alone(p) /\ h'[p] = l
      BY <3>1, NewLocals
    <3>3. SweptDeep(h'[p])
      BY <1>1, <3>1, <3>2 DEF SweptDeep
    <3> QED BY <2>2, <3>2, <3>3, ShallowStep
  <2> QED BY <2>3, <2>4
<1>9. CASE TrashRow(p)
  <2>1. InsertRow("user", h[p].path, FALSE, h[p].blob) /\ Jump(p, "unindex")
    BY <1>9 DEF TrashRow
  <2>2. Kept
    BY <1>2, <2>1
  <2>3. SweptDeep(h'[p])
    BY <1>1, <2>2 DEF SweptDeep
  <2> QED BY <2>1, <2>2, <2>3, FilingStep
<1>10. CASE TrashDir(p)
  <2>1. PICK q \in h[p].stack :
          /\ InsertRow("rel", q, TRUE, NoBlob)
          /\ Goto(p, [h[p] EXCEPT !.pc = "listDir", !.to = q, !.stack = @ \ {q}])
    BY <1>10 DEF TrashDir
  <2>2. Alone(p) /\ h'[p].files = h[p].files /\ h'[p].to = q /\ h'[p].pc = "listDir"
    BY <1>1, <2>1 DEF Goto, GotoIf, Alone, Locals
  <2>3. q # Root
    BY <1>1 DEF Locals, Spot
  <2>4. SweptDeep(h'[p])
    BY <1>1, <2>2, <2>3 DEF SweptDeep
  <2> QED BY <2>1, <2>2, <2>4, FilingStep
<1>11. CASE SweepRow(p)
  <2>1. InsertRow("rel", h[p].cur, FALSE, h[p].blob) /\ Jump(p, "sweep")
    BY <1>11 DEF SweepRow
  <2>2. Kept
    BY <1>2, <2>1
  <2>3. SweptDeep(h'[p]) /\ Len(h[p].cur) > 1
    BY <1>1, <1>11, <2>2 DEF SweptDeep, SweepRow, At
  <2> QED BY <2>1, <2>2, <2>3, FilingStep
<1>12. CASE ListDir(p)
  <2> DEFINE found == Children(disk, h[p].to)
             files == {q \in found : IsFileAt(disk, q)}
             stack == h[p].stack \cup {q \in found : IsDirAt(disk, q)}
  <2>1. UNCHANGED trash /\ h' = [h EXCEPT ![p] = [h[p] EXCEPT !.pc = "sweep", !.files = files,
                                                              !.stack = stack]]
    BY <1>12 DEF ListDir, store, Goto, GotoIf
  <2>2. h[p].to # Root /\ h[p].to \in Path
    BY <1>1, <1>12 DEF SweptDeep, ListDir, At, Locals
  <2>3. Len(h[p].to) >= 1 /\ Len(h[p].to) \in Nat
    BY <2>2, EmptySeq DEF Path, Root
  <2>4. \A q \in files : Len(q) > 1
    BY <2>3 DEF Children
  <2> HIDE DEF files, stack
  <2>5. Alone(p) /\ h'[p].files = files /\ h'[p].pc = "sweep"
    BY <1>1, <2>1 DEF Alone, Locals
  <2>6. SweptDeep(h'[p])
    BY <2>4, <2>5 DEF SweptDeep
  <2> QED BY <2>1, <2>5, <2>6, ShallowStep
<1> QED BY <1>5, <1>6, <1>7, <1>8, <1>9, <1>10, <1>11, <1>12 DEF Step

\* A request that is accepted has not listed a directory yet.
LEMMA TopRequest ==
  ASSUME TypeInv, TopInv, NEW p \in Proc, Request(p)
  PROVE  TopInv'
<1>1. h \in [Proc -> Locals] /\ UNCHANGED trash
  BY DEF TypeInv, TypeOK, Request, Save, Mkdir, Rename, Delete, TrashDelete, Restore, store
<1> DEFINE Fresh(l) == l.files = {} /\ l.pc \notin {"listDir", "sweepRow"}
<1>2. ASSUME Alone(p), Fresh(h'[p]) PROVE TopInv'
  BY <1>1, <1>2, ShallowStep DEF SweptDeep
<1>3. Fresh(Idle)
  BY DEF Idle
<1>4. CASE Save(p)
  <2>1. /\ Alone(p)
        /\ \/ h'[p] = Idle
           \/ \E q : h'[p] = [Idle EXCEPT !.pc = "saveRow", !.path = q]
    BY <1>1, <1>4 DEF Save, Alone, Goto, GotoIf, Fail, Answer
  <2>2. \A q : Fresh([Idle EXCEPT !.pc = "saveRow", !.path = q])
    BY DEF Idle
  <2> QED BY <1>2, <1>3, <2>1, <2>2
<1>5. CASE Mkdir(p)
  <2>1. /\ Alone(p)
        /\ \/ h'[p] = Idle
           \/ \E q : h'[p] = [Idle EXCEPT !.pc = "mkdirDisk", !.path = q]
    BY <1>1, <1>5 DEF Mkdir, Alone, Goto, GotoIf, Fail, Answer
  <2>2. \A q : Fresh([Idle EXCEPT !.pc = "mkdirDisk", !.path = q])
    BY DEF Idle
  <2> QED BY <1>2, <1>3, <2>1, <2>2
<1>6. CASE Rename(p)
  <2> PICK f \in Paths, t \in Paths :
        Fail(p) \/ Goto(p, [Idle EXCEPT !.pc = "renameOwn", !.path = f, !.to = t])
    BY <1>6 DEF Rename
  <2> DEFINE l == [Idle EXCEPT !.pc = "renameOwn", !.path = f, !.to = t]
  <2>1. Fresh(l)
    BY DEF Idle
  <2> HIDE DEF l
  <2>2. Fail(p) \/ Goto(p, l)
    BY DEF l
  <2>3. Alone(p) /\ (h'[p] = Idle \/ h'[p] = l)
    BY <2>2, NewLocals
  <2> QED BY <1>2, <1>3, <2>1, <2>3
<1>7. CASE Delete(p)
  <2>1. /\ Alone(p)
        /\ \/ h'[p] = Idle
           \/ \E q : h'[p] = [Idle EXCEPT !.pc = "archive", !.path = q]
           \/ \E q : h'[p] = [Idle EXCEPT !.pc = "trashDir", !.path = q, !.stack = {q}]
    BY <1>1, <1>7 DEF Delete, Alone, Goto, GotoIf, Fail, Answer
  <2>2. \A q : Fresh([Idle EXCEPT !.pc = "archive", !.path = q])
    BY DEF Idle
  <2>3. \A q : Fresh([Idle EXCEPT !.pc = "trashDir", !.path = q, !.stack = {q}])
    BY DEF Idle
  <2> QED BY <1>2, <1>3, <2>1, <2>2, <2>3
<1>8. CASE TrashDelete(p)
  <2>1. /\ Alone(p)
        /\ \/ h'[p] = Idle
           \/ \E loc : h'[p] = [Idle EXCEPT !.pc = "collect", !.loc = loc]
    BY <1>1, <1>8 DEF TrashDelete, Alone, Goto, GotoIf, Fail, Answer
  <2>2. \A loc : Fresh([Idle EXCEPT !.pc = "collect", !.loc = loc])
    BY DEF Idle
  <2> QED BY <1>2, <1>3, <2>1, <2>2
<1>9. CASE Restore(p)
  <2> PICK r \in trash, t \in Paths :
        LET locals == [Idle EXCEPT !.loc = [form |-> r.form, path |-> r.path], !.to = t] IN
        IF r.isDir
        THEN Goto(p, [locals EXCEPT !.pc = "restoreDir"])
        ELSE Goto(p, [locals EXCEPT !.pc = "restoreFile", !.sel = {r}, !.blob = r.blob])
    BY <1>9 DEF Restore
  <2> DEFINE locals == [Idle EXCEPT !.loc = [form |-> r.form, path |-> r.path], !.to = t]
             file == [locals EXCEPT !.pc = "restoreFile", !.sel = {r}, !.blob = r.blob]
             dir == [locals EXCEPT !.pc = "restoreDir"]
  <2>1. Fresh(file) /\ Fresh(dir)
    BY DEF Idle
  <2>2. Goto(p, file) \/ Goto(p, dir)
    OBVIOUS
  <2> HIDE DEF file, dir
  <2>3. Alone(p) /\ (h'[p] = file \/ h'[p] = dir)
    BY <2>2, NewLocals
  <2> QED BY <1>2, <2>1, <2>3
<1> QED BY <1>4, <1>5, <1>6, <1>7, <1>8, <1>9 DEF Request

\* Nothing stands at the top of the trash but directories, whatever overlaps and fails.
LEMMA NextTop == TypeInv /\ TopInv /\ [Next]_vars => TopInv'
<1> SUFFICES ASSUME TypeInv, TopInv, [Next]_vars PROVE TopInv'
  OBVIOUS
<1>1. h \in [Proc -> Locals] /\ \A p \in Proc : h[p] \in Locals /\ SweptDeep(h[p])
  BY DEF TypeInv, TypeOK, TopInv
<1>2. SweptDeep(Idle)
  BY DEF SweptDeep, Idle
<1>3. ASSUME trash' \subseteq trash, \A p \in Proc : SweptDeep(h'[p]) PROVE TopInv'
  BY <1>3 DEF TopInv, TopRowsAreDirs
<1>4. CASE UNCHANGED vars \/ Purger \/ Age \/ PurgeErrorDropped
  <2>1. UNCHANGED h /\ trash' \subseteq trash
    BY <1>4 DEF vars, Purger, PurgeScan, PurgeBlob, PurgeRow, PurgeStep, Age,
       PurgeErrorDropped, store
  <2> QED BY <1>1, <1>3, <2>1
<1>5. CASE Crash
  BY <1>2, <1>3, <1>5 DEF Crash, store
<1>6. ASSUME NEW p \in Proc, StatementFails(p) PROVE TopInv'
  <2>1. UNCHANGED trash /\ Alone(p) /\ h'[p] = Idle
    BY <1>1, <1>6 DEF StatementFails, Alone, store
  <2> QED BY <1>2, <2>1, ShallowStep
<1>7. ASSUME NEW p \in Proc, ErrorDropped(p) PROVE TopInv'
  <2>1. UNCHANGED trash /\ Alone(p)
    BY <1>1, <1>7 DEF ErrorDropped, Alone, store
  <2>2. CASE h'[p] = Idle
    BY <1>2, <2>1, <2>2, ShallowStep
  <2>3. CASE h[p].pc \in DOMAIN Unchecked /\ h'[p] # Idle
    <3>1. h'[p] = [h[p] EXCEPT !.pc = Unchecked[h[p].pc]]
      <4>1. h[p].pc # "eraseBlobs"
        BY <2>3 DEF Unchecked
      <4> QED BY <1>1, <1>7, <2>3, <4>1 DEF ErrorDropped
    <3>2. Unchecked[h[p].pc] \notin {"listDir", "sweepRow"}
      BY <2>3 DEF Unchecked
    <3>3. SweptDeep(h'[p])
      BY <1>1, <3>1, <3>2 DEF SweptDeep, Locals
    <3> QED BY <2>1, <3>3, ShallowStep
  <2>4. CASE h[p].pc \notin DOMAIN Unchecked
    <3>1. /\ h[p].pc = "eraseBlobs"
          /\ \/ h'[p] = [h[p] EXCEPT !.pc = "dropDirRow", !.sel = {}]
             \/ \E r \in h[p].rows : h'[p] = [h[p] EXCEPT !.rows = @ \ {r}]
      BY <1>1, <1>7, <2>4 DEF ErrorDropped
    <3>2. h'[p].pc \in {"eraseBlobs", "dropDirRow"} /\ h'[p].files = h[p].files
      BY <1>1, <3>1 DEF Locals
    <3>3. SweptDeep(h'[p])
      BY <1>1, <3>2 DEF SweptDeep
    <3> QED BY <2>1, <3>3, ShallowStep
  <2> QED BY <2>2, <2>3, <2>4
<1> QED BY <1>4, <1>5, <1>6, <1>7, TopSteps, TopRequest DEF Next, Failure

\* A row whose original_dir is "/" is that of a directory, whichever deletes and walks
\* overlap: the branch of delete_trash_item_recursive for a file cannot be reached.
THEOREM TopDirs == Spec => []TopRowsAreDirs
<1>1. Init => TopInv
  <2>1. SweptDeep(Idle)
    BY DEF SweptDeep, Idle
  <2> QED BY <2>1 DEF Init, TopInv, TopRowsAreDirs
<1>2. TopInv => TopRowsAreDirs
  BY DEF TopInv
<1> QED BY <1>1, <1>2, InitTyped, NextTyped, NextTop, PTL DEF Spec
=============================================================================
