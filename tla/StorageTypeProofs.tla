-------------------------- MODULE StorageTypeProofs --------------------------
(***************************************************************************)
(* Facts about paths and trees (DocsPaths) that the proofs about the store *)
(* rest on: every operation on a tree yields a tree of the same kind.      *)
(* Then Spec => []TypeOK, by the inductive invariant TypeInv.              *)
(***************************************************************************)
EXTENDS StorageInvariants, SequenceTheorems, TLAPS

-----------------------------------------------------------------------------
(* Paths *)

\* A path below the root has a parent, and its last name is a name.
LEMMA ParentPath ==
  ASSUME NEW q \in Spot
  PROVE  Parent(q) \in Path /\ Last(q) \in Name
<1>1. Len(q) \in Nat /\ Len(q) >= 1
  BY EmptySeq DEF Spot, Path, Root
<1>2. SubSeq(q, 1, Len(q) - 1) \in Seq(Name)
  BY <1>1, SubSeqProperties DEF Spot, Path
<1>3. q[Len(q)] \in Name
  BY <1>1, ElementOfSeq DEF Spot, Path
<1> QED BY <1>2, <1>3 DEF Parent, Front, Last, Path

\* The directories above a path are paths.
LEMMA AbovePaths ==
  ASSUME NEW q \in Path
  PROVE  Above(q) \subseteq Path
<1> SUFFICES ASSUME NEW i \in 1 .. Len(q) - 1
             PROVE  SubSeq(q, 1, i) \in Path
  BY DEF Above
<1>1. Len(q) \in Nat
  BY LenProperties DEF Path
<1> QED BY <1>1, SubSeqProperties DEF Path

\* Appending a name to a path gives a path below the root.
LEMMA AppendSpot ==
  ASSUME NEW q \in Path, NEW n \in Name
  PROVE  Append(q, n) \in Spot
<1>1. Append(q, n) \in Seq(Name) /\ Append(q, n) # <<>>
  BY AppendProperties DEF Path
<1> QED BY <1>1 DEF Spot, Path, Root

\* What is cut from the front of a path leaves a path.
LEMMA CutPath ==
  ASSUME NEW q \in Path, NEW f \in Path
  PROVE  SubSeq(q, Len(f) + 1, Len(q)) \in Path
<1>1. Len(q) \in Nat /\ Len(f) \in Nat
  BY LenProperties DEF Path
<1>2. CASE Len(f) + 1 <= Len(q)
  BY <1>1, <1>2, SubSeqProperties DEF Path
<1>3. CASE ~(Len(f) + 1 <= Len(q))
  BY <1>1, <1>3, SubSeqEmpty, EmptySeq DEF Path
<1> QED BY <1>2, <1>3

\* A place moved below one that is not the root is not the root either.
LEMMA RebaseSpot ==
  ASSUME NEW q \in Path, NEW f \in Path, NEW t \in Spot
  PROVE  Rebase(q, f, t) \in Spot
<1> DEFINE tail == SubSeq(q, Len(f) + 1, Len(q))
<1>1. tail \in Seq(Name)
  BY CutPath DEF Path
<1>2. t \in Seq(Name) /\ Len(t) \in Nat /\ Len(t) >= 1
  BY EmptySeq DEF Spot, Path, Root
<1>3. t \o tail \in Seq(Name) /\ Len(t \o tail) = Len(t) + Len(tail)
  BY <1>1, <1>2, ConcatProperties
<1>4. t \o tail # <<>>
  BY <1>1, <1>2, <1>3, LenProperties, EmptySeq
<1> QED BY <1>3, <1>4 DEF Rebase, Spot, Path, Root

\* A prefix has the names of the sequence it begins.
LEMMA PrefixNames ==
  ASSUME NEW q \in Path, NEW f \in Path, Within(q, f)
  PROVE  Len(f) <= Len(q) /\ \A i \in 1 .. Len(f) : f[i] = q[i]
<1>1. Len(q) \in Nat /\ Len(f) \in Nat
  BY LenProperties DEF Path
<1>2. SubSeq(f, 1, Len(f)) = SubSeq(q, 1, Len(f)) /\ Len(f) <= Len(q)
  <2>1. Len(f) <= Len(q) /\ SubSeq(f, 1, Len(f)) = SubSeq(q, 1, Len(f))
    BY DEF Within, IsPrefix
  <2> QED BY <2>1
<1>3. \A i \in 1 .. Len(f) : SubSeq(f, 1, Len(f))[i] = f[i]
  BY SubSeqFull DEF Path
<1>4. \A i \in 1 .. Len(f) : SubSeq(q, 1, Len(f))[i] = q[i]
  <2>1. \A i \in 1 .. Len(f) : q[i] \in Name
    BY <1>1, <1>2, ElementOfSeq DEF Path
  <2> QED BY <2>1, <1>1, SubSeqProperties
<1> QED BY <1>2, <1>3, <1>4

\* Moving a path from f to t and back gives the path.
LEMMA RebaseBack ==
  ASSUME NEW q \in Path, NEW f \in Path, NEW t \in Path, Within(q, f)
  PROVE  Rebase(Rebase(q, f, t), t, f) = q
<1> DEFINE tail == SubSeq(q, Len(f) + 1, Len(q))
           r == t \o tail
<1>1. Len(q) \in Nat /\ Len(f) \in Nat /\ Len(t) \in Nat
  BY LenProperties DEF Path
<1>2. Len(f) <= Len(q) /\ \A i \in 1 .. Len(f) : f[i] = q[i]
  BY PrefixNames
<1>3. \A i \in Len(f) + 1 .. Len(q) : q[i] \in Name
  BY <1>1, ElementOfSeq DEF Path
<1>4. /\ tail \in Seq(Name)
      /\ Len(tail) = Len(q) - Len(f)
      /\ \A i \in 1 .. Len(q) - Len(f) : tail[i] = q[Len(f) + i]
  <2>1. Len(q) - (Len(f) + 1) + 1 = Len(q) - Len(f)
    BY <1>1
  <2>2. \A i \in 1 .. Len(q) - Len(f) : Len(f) + 1 + i - 1 = Len(f) + i
    BY <1>1
  <2>3. Len(tail) = IF Len(f) + 1 <= Len(q) THEN Len(q) - Len(f) ELSE 0
    BY <1>1, <1>3, <2>1, SubSeqProperties
  <2>4. tail \in Seq(Name)
    BY <1>1, <1>3, SubSeqProperties
  <2>5. \A i \in 1 .. Len(q) - Len(f) : tail[i] = q[Len(f) + 1 + i - 1]
    BY <1>1, <1>3, <2>1, SubSeqProperties
  <2> QED BY <1>1, <1>2, <2>2, <2>3, <2>4, <2>5
<1> HIDE DEF tail
<1>5. /\ r \in Seq(Name)
      /\ Len(r) = Len(t) + Len(tail)
      /\ \A i \in 1 .. Len(tail) : r[Len(t) + i] = tail[i]
  <2>1. /\ r \in Seq(Name) /\ Len(r) = Len(t) + Len(tail)
        /\ \A i \in 1 .. Len(t) + Len(tail) :
             r[i] = IF i <= Len(t) THEN t[i] ELSE tail[i - Len(t)]
    BY <1>4, ConcatProperties DEF Path
  <2> QED BY <1>1, <1>2, <1>4, <2>1
<1> HIDE DEF r
<1> DEFINE back == SubSeq(r, Len(t) + 1, Len(r))
<1>6. /\ back \in Seq(Name)
      /\ Len(back) = Len(tail)
      /\ \A i \in 1 .. Len(tail) : back[i] = tail[i]
  <2>1. \A i \in Len(t) + 1 .. Len(r) : r[i] \in Name
    BY <1>1, <1>5, ElementOfSeq
  <2>2. Len(tail) \in Nat /\ Len(r) \in Nat
    BY <1>1, <1>2, <1>4, <1>5
  <2>3. Len(back) = IF Len(t) + 1 <= Len(r) THEN Len(r) - (Len(t) + 1) + 1 ELSE 0
    BY <1>1, <2>1, <2>2, SubSeqProperties
  <2>4. back \in Seq(Name)
    BY <1>1, <2>1, <2>2, SubSeqProperties
  <2>5. \A i \in 1 .. Len(r) - (Len(t) + 1) + 1 : back[i] = r[Len(t) + 1 + i - 1]
    BY <1>1, <2>1, <2>2, SubSeqProperties
  <2>6. \A i \in 1 .. Len(tail) : Len(t) + 1 + i - 1 = Len(t) + i
    BY <1>1, <2>2
  <2>7. Len(r) - (Len(t) + 1) + 1 = Len(tail)
    BY <1>1, <1>5, <2>2
  <2> QED BY <1>1, <1>5, <2>2, <2>3, <2>4, <2>5, <2>6, <2>7
<1> HIDE DEF back
<1>7. back = tail
  BY <1>4, <1>6, SeqEqual
<1>8. f \o tail = q
  <2>1. /\ f \o tail \in Seq(Name)
        /\ Len(f \o tail) = Len(f) + Len(tail)
        /\ \A i \in 1 .. Len(f) + Len(tail) :
             (f \o tail)[i] = IF i <= Len(f) THEN f[i] ELSE tail[i - Len(f)]
    BY <1>4, ConcatProperties DEF Path
  <2>2. \A i \in 1 .. Len(q) : (f \o tail)[i] = q[i]
    BY <1>1, <1>2, <1>4, <2>1
  <2>3. Len(f \o tail) = Len(q)
    BY <1>1, <1>4, <2>1
  <2> QED BY <2>1, <2>2, <2>3, SeqEqual DEF Path
<1>9. Rebase(q, f, t) = r
  BY DEF Rebase, r, tail
<1>10. Rebase(r, t, f) = f \o back
  BY DEF Rebase, back
<1> QED BY <1>7, <1>8, <1>9, <1>10

-----------------------------------------------------------------------------
(* Trees *)

\* Adding an entry below the root.
LEMMA PutTree ==
  ASSUME NEW V, NEW tree, IsTree(tree, V), NEW q \in Spot, NEW v \in V
  PROVE  IsTree(Put(tree, q, v), V)
BY DEF IsTree, Put

\* Removing entries.
LEMMA WithoutTree ==
  ASSUME NEW V, NEW tree, IsTree(tree, V), NEW S
  PROVE  IsTree(Without(tree, S), V)
BY DEF IsTree, Without

\* create_dir adds directories at and above a path.
LEMMA CreateDirTree ==
  ASSUME NEW V, NEW tree, IsTree(tree, V), Folder \in V, NEW q \in Path
  PROVE  IsTree(CreateDir(tree, q), V)
<1>1. Above(q) \cup {q} \subseteq Path
  BY AbovePaths
<1> QED BY <1>1 DEF IsTree, CreateDir, Spot

\* create_dir whose failure is ignored.
LEMMA TryCreateDirTree ==
  ASSUME NEW V, NEW tree, IsTree(tree, V), Folder \in V, NEW q \in Path
  PROVE  IsTree(TryCreateDir(tree, q), V)
BY CreateDirTree DEF TryCreateDir

\* write creates the directories above a file, and the file.
LEMMA WriteTree ==
  ASSUME NEW V, NEW tree, IsTree(tree, V), Folder \in V, NEW q \in Spot, NEW v \in V
  PROVE  IsTree(Write(tree, q, v), V)
<1>1. IsTree(CreateDir(tree, Parent(q)), V)
  BY ParentPath, CreateDirTree
<1> QED BY <1>1, PutTree DEF Write

\* rename(2) carries a subtree over: what lands at t is what was at f.
LEMMA MoveTree ==
  ASSUME NEW V, NEW tree, IsTree(tree, V), NEW f \in Spot, NEW t \in Spot
  PROVE  IsTree(Move(tree, f, t), V)
<1> DEFINE from == {y \in DOMAIN tree : Within(y, f)}
           stay == {x \in DOMAIN tree : ~Within(x, f) /\ x # t}
           moved == {Rebase(x, f, t) : x \in from}
<1>1. from \subseteq Spot /\ stay \subseteq Spot
  BY DEF IsTree
<1>2. moved \subseteq Spot
  BY <1>1, RebaseSpot DEF Spot
<1>3. \A x \in moved : tree[Rebase(x, t, f)] \in V
  <2> SUFFICES ASSUME NEW y \in from
               PROVE  tree[Rebase(Rebase(y, f, t), t, f)] \in V
    OBVIOUS
  <2>1. Rebase(Rebase(y, f, t), t, f) = y
    BY <1>1, RebaseBack DEF Spot
  <2> QED BY <2>1 DEF IsTree
<1>4. \A x \in stay : tree[x] \in V
  BY DEF IsTree
<1>5. Move(tree, f, t) = [x \in stay \cup moved |->
                            IF x \in moved THEN tree[Rebase(x, t, f)] ELSE tree[x]]
  BY DEF Move
<1> HIDE DEF from, stay, moved
<1> QED BY <1>1, <1>2, <1>3, <1>4, <1>5 DEF IsTree

\* remove_all drops a subtree.
LEMMA RemoveAllTree ==
  ASSUME NEW V, NEW tree, IsTree(tree, V), NEW q
  PROVE  IsTree(RemoveAll(tree, q), V)
BY WithoutTree DEF RemoveAll
-----------------------------------------------------------------------------
(* Storage *)

HandlersOK == h \in [Proc -> Locals] /\ Rooted /\ clean \in BOOLEAN

\* TypeInv is the conjunction of its parts.
LEMMA TypeParts == TypeInv <=> StoreOK /\ HandlersOK /\ CountersOK
BY DEF TypeInv, TypeOK, HandlersOK

\* The locals of a free slot are well typed.
LEMMA IdleLocals == Idle \in Locals /\ RootedAt(Idle)
<1>1. Root \in Path
  BY EmptySeq DEF Root, Path
<1> QED BY <1>1 DEF Idle, Locals, RootedAt, PC, Place, NoBlob, Spot

\* A step that gives a handler well-typed locals keeps all handlers well typed.
LEMMA GotoKeeps ==
  ASSUME HandlersOK, NEW p \in Proc, NEW l \in Locals, RootedAt(l),
         NEW fine \in BOOLEAN, GotoIf(p, l, fine)
  PROVE  HandlersOK'
<1>1. h' = [h EXCEPT ![p] = l] /\ h \in [Proc -> Locals]
  BY DEF GotoIf, HandlersOK
<1>2. \A q \in Proc : h'[q] = IF q = p THEN l ELSE h[q]
  BY <1>1
<1>3. h' \in [Proc -> Locals]
  BY <1>1
<1>4. \A q \in Proc : RootedAt(h'[q])
  BY <1>2 DEF HandlersOK, Rooted
<1>5. clean' \in BOOLEAN
  BY DEF GotoIf, HandlersOK
<1> QED BY <1>3, <1>4, <1>5 DEF HandlersOK, Rooted

\* Answering a request does.
LEMMA EndKeeps ==
  ASSUME HandlersOK, NEW p \in Proc, Answer(p) \/ Fail(p)
  PROVE  HandlersOK'
<1>1. \E fine \in BOOLEAN : GotoIf(p, Idle, fine)
  BY DEF Answer, Fail, GotoIf, HandlersOK
<1> QED BY <1>1, IdleLocals, GotoKeeps

\* Going on with other locals does.
LEMMA GoOnKeeps ==
  ASSUME HandlersOK, NEW p \in Proc, NEW l \in Locals, RootedAt(l), Goto(p, l)
  PROVE  HandlersOK'
BY GotoKeeps DEF Goto

\* Going on with the same locals does, when they fit the next step.
LEMMA JumpKeeps ==
  ASSUME HandlersOK, NEW p \in Proc, NEW pc \in PC, Jump(p, pc),
         RootedAt([h[p] EXCEPT !.pc = pc])
  PROVE  HandlersOK'
<1>1. [h[p] EXCEPT !.pc = pc] \in Locals
  BY DEF HandlersOK, Locals
<1> QED BY <1>1, GoOnKeeps DEF Jump

\* Accepting and executing leave the counters in bounds.
LEMMA CountersKeep ==
  ASSUME CountersOK, NEW p \in Proc, NEW k, Accept(p, k) \/ At(p, k)
  PROVE  CountersOK'
BY ConstAssumption DEF CountersOK, Accept, At

-----------------------------------------------------------------------------
(* Requests *)

\* Accepting a request keeps the types.
LEMMA RequestKeeps ==
  ASSUME TypeInv, NEW p \in Proc, Request(p)
  PROVE  TypeInv'
<1>1. StoreOK /\ HandlersOK /\ CountersOK
  BY TypeParts
<1>2. CountersOK'
  BY <1>1, CountersKeep DEF Request, Save, Mkdir, Rename, Delete, TrashDelete, Restore
<1>3. Paths \subseteq Spot /\ Spot \subseteq Path /\ Folder \in Data \cup {Folder}
  BY ConstAssumption DEF Spot
<1>4. Idle \in Locals
  BY IdleLocals
<1> SUFFICES StoreOK' /\ HandlersOK'
  BY <1>2 DEF TypeInv, TypeOK, HandlersOK
<1>5. CASE Save(p)
  <2> PICK q \in Paths, d \in Data :
        \/ /\ CanWrite(disk, q)
           /\ disk' = Write(disk, q, d)
           /\ Goto(p, [Idle EXCEPT !.pc = "saveRow", !.path = q])
        \/ /\ ~CanWrite(disk, q)
           /\ Fail(p) /\ UNCHANGED disk
    BY <1>5 DEF Save
  <2>1. IsTree(disk', Data \cup {Folder})
    BY <1>1, <1>3, WriteTree DEF StoreOK
  <2>2. StoreOK'
    BY <1>1, <1>5, <2>1 DEF StoreOK, Save
  <2>3. [Idle EXCEPT !.pc = "saveRow", !.path = q] \in Locals
    BY <1>3, <1>4 DEF Locals, PC
  <2>4. RootedAt([Idle EXCEPT !.pc = "saveRow", !.path = q])
    BY <1>3, <1>4 DEF Idle, RootedAt, Spot
  <2> QED BY <1>1, <2>2, <2>3, <2>4, GoOnKeeps, EndKeeps
<1>6. CASE Mkdir(p)
  <2> PICK q \in Paths :
        \/ /\ q \notin DOMAIN index
           /\ index' = Put(index, q, "dir")
           /\ Goto(p, [Idle EXCEPT !.pc = "mkdirDisk", !.path = q])
        \/ /\ q \in DOMAIN index
           /\ Fail(p) /\ UNCHANGED index
    BY <1>6 DEF Mkdir
  <2>1. IsTree(index', {"dir", "file"})
    BY <1>1, <1>3, PutTree DEF StoreOK
  <2>2. StoreOK'
    BY <1>1, <1>6, <2>1 DEF StoreOK, Mkdir
  <2>3. [Idle EXCEPT !.pc = "mkdirDisk", !.path = q] \in Locals
    BY <1>3, <1>4 DEF Locals, PC
  <2>4. RootedAt([Idle EXCEPT !.pc = "mkdirDisk", !.path = q])
    BY DEF Idle, RootedAt
  <2> QED BY <1>1, <2>2, <2>3, <2>4, GoOnKeeps, EndKeeps
<1>7. CASE Rename(p)
  <2> PICK f \in Paths, t \in Paths :
        LET ready == TryCreateDir(disk, Parent(t)) IN
        \/ /\ CanMove(ready, f, t)
           /\ disk' = Move(ready, f, t)
           /\ Goto(p, [Idle EXCEPT !.pc = "renameOwn", !.path = f, !.to = t])
        \/ /\ ~CanMove(ready, f, t)
           /\ disk' = ready
           /\ Fail(p)
    BY <1>7 DEF Rename
  <2> DEFINE ready == TryCreateDir(disk, Parent(t))
  <2>1. IsTree(ready, Data \cup {Folder})
    BY <1>1, <1>3, ParentPath, TryCreateDirTree DEF StoreOK
  <2>2. IsTree(disk', Data \cup {Folder})
    BY <1>3, <2>1, MoveTree
  <2>3. StoreOK'
    BY <1>1, <1>7, <2>2 DEF StoreOK, Rename
  <2>4. [Idle EXCEPT !.pc = "renameOwn", !.path = f, !.to = t] \in Locals
    BY <1>3, <1>4 DEF Locals, PC
  <2>5. RootedAt([Idle EXCEPT !.pc = "renameOwn", !.path = f, !.to = t])
    BY <1>3, <1>4 DEF Idle, RootedAt, Spot
  <2> QED BY <1>1, <2>3, <2>4, <2>5, GoOnKeeps, EndKeeps
<1>8. CASE Delete(p)
  <2> PICK q \in Paths :
        \/ q \notin DOMAIN disk /\ Fail(p)
        \/ IsFileAt(disk, q) /\ Goto(p, [Idle EXCEPT !.pc = "archive", !.path = q])
        \/ /\ IsDirAt(disk, q)
           /\ Goto(p, [Idle EXCEPT !.pc = "trashDir", !.path = q, !.stack = {q}])
    BY <1>8 DEF Delete
  <2>1. StoreOK'
    BY <1>1, <1>8 DEF StoreOK, Delete, store
  <2>2. /\ [Idle EXCEPT !.pc = "archive", !.path = q] \in Locals
        /\ [Idle EXCEPT !.pc = "trashDir", !.path = q, !.stack = {q}] \in Locals
    BY <1>3, <1>4 DEF Locals, PC
  <2>3. /\ RootedAt([Idle EXCEPT !.pc = "archive", !.path = q])
        /\ RootedAt([Idle EXCEPT !.pc = "trashDir", !.path = q, !.stack = {q}])
    BY <1>3, <1>4 DEF Idle, RootedAt, Spot
  <2> QED BY <1>1, <2>1, <2>2, <2>3, GoOnKeeps, EndKeeps
<1>9. CASE TrashDelete(p)
  <2> PICK loc \in Places :
        IF AtTop(loc)
        THEN Goto(p, [Idle EXCEPT !.pc = "collect", !.loc = loc])
        ELSE Answer(p)
    BY <1>9 DEF TrashDelete
  <2>1. StoreOK'
    BY <1>1, <1>9 DEF StoreOK, TrashDelete, store
  <2>2. loc \in Place
    BY <1>1 DEF Places, Place, StoreOK, Row, Spot
  <2>3. [Idle EXCEPT !.pc = "collect", !.loc = loc] \in Locals
    BY <1>4, <2>2 DEF Locals, PC
  <2>4. RootedAt([Idle EXCEPT !.pc = "collect", !.loc = loc])
    BY DEF Idle, RootedAt
  <2> QED BY <1>1, <2>1, <2>3, <2>4, GoOnKeeps, EndKeeps
<1>10. CASE Restore(p)
  <2> PICK r \in trash, t \in Paths :
        LET locals == [Idle EXCEPT !.loc = [form |-> r.form, path |-> r.path], !.to = t] IN
        IF r.isDir
        THEN Goto(p, [locals EXCEPT !.pc = "restoreDir"])
        ELSE Goto(p, [locals EXCEPT !.pc = "restoreFile", !.sel = {r}, !.blob = r.blob])
    BY <1>10 DEF Restore
  <2> DEFINE locals == [Idle EXCEPT !.loc = [form |-> r.form, path |-> r.path], !.to = t]
  <2>1. StoreOK'
    BY <1>1, <1>10 DEF StoreOK, Restore, store
  <2>2. r \in Row /\ [form |-> r.form, path |-> r.path] \in Place
    BY <1>1 DEF Place, StoreOK, Row, Spot
  <2>3. locals \in Locals /\ locals.to = t
    BY <1>3, <1>4, <2>2 DEF Locals
  <2> HIDE DEF locals
  <2>4. /\ [locals EXCEPT !.pc = "restoreDir"] \in Locals
        /\ [locals EXCEPT !.pc = "restoreFile", !.sel = {r}, !.blob = r.blob] \in Locals
    BY <2>2, <2>3 DEF Locals, PC, Row
  <2>5. /\ RootedAt([locals EXCEPT !.pc = "restoreDir"])
        /\ RootedAt([locals EXCEPT !.pc = "restoreFile", !.sel = {r}, !.blob = r.blob])
    BY <1>3, <2>3 DEF RootedAt, Locals, Spot
  <2>6. \/ Goto(p, [locals EXCEPT !.pc = "restoreDir"])
        \/ Goto(p, [locals EXCEPT !.pc = "restoreFile", !.sel = {r}, !.blob = r.blob])
    BY DEF locals
  <2> QED BY <1>1, <2>1, <2>4, <2>5, <2>6, GoOnKeeps
<1> QED BY <1>5, <1>6, <1>7, <1>8, <1>9, <1>10 DEF Request

-----------------------------------------------------------------------------
(* Steps *)

\* An update of index rows yields index rows, or fails.
LEMMA UpdateRowsKeeps ==
  ASSUME StoreOK, HandlersOK, NEW p \in Proc, NEW S, S \subseteq DOMAIN index,
         NEW to, \A q \in S : to[q] \in Spot,
         NEW next \in PC, UpdateRows(p, S, to, next),
         next # "idle" => RootedAt([h[p] EXCEPT !.pc = next])
  PROVE  IsTree(index', {"dir", "file"}) /\ HandlersOK'
<1> DEFINE new == {to[q] : q \in S}
           moved == [x \in (DOMAIN index \ S) \cup new |->
                       IF x \in new THEN index[CHOOSE q \in S : to[q] = x] ELSE index[x]]
<1>1. IsTree(index, {"dir", "file"})
  BY DEF StoreOK
<1>2. IsTree(moved, {"dir", "file"})
  <2>1. \A x \in new : (CHOOSE q \in S : to[q] = x) \in S
    OBVIOUS
  <2>2. DOMAIN moved \subseteq Spot
    BY <1>1 DEF IsTree
  <2>3. \A x \in DOMAIN moved : moved[x] \in {"dir", "file"}
    BY <1>1, <2>1 DEF IsTree
  <2> QED BY <2>2, <2>3 DEF IsTree
<1>3. \/ Fail(p) /\ UNCHANGED index
      \/ index' = moved /\ (Answer(p) \/ (next # "idle" /\ Jump(p, next)))
  BY DEF UpdateRows
<1> HIDE DEF moved
<1> QED BY <1>1, <1>2, <1>3, EndKeeps, JumpKeeps

\* The steps of save, mkdir and rename.
LEMMA SaveStepsKeep ==
  ASSUME TypeInv, NEW p \in Proc,
         SaveRow(p) \/ MkdirDisk(p) \/ RenameOwn(p) \/ RenameKids(p) \/ RenameDeep(p)
  PROVE  TypeInv'
<1>1. StoreOK /\ HandlersOK /\ CountersOK
  BY TypeParts
<1>2. CountersOK'
  BY <1>1, CountersKeep DEF SaveRow, MkdirDisk, RenameOwn, RenameKids, RenameDeep
<1>3. Spot \subseteq Path
  BY DEF Spot
<1>4. h[p] \in Locals /\ RootedAt(h[p])
  BY <1>1 DEF HandlersOK, Rooted
<1>5. h[p].path \in Path /\ h[p].to \in Path
  BY <1>4 DEF Locals
<1> SUFFICES StoreOK' /\ HandlersOK'
  BY <1>2 DEF TypeInv, TypeOK, HandlersOK
<1>6. CASE SaveRow(p)
  <2>1. h[p].path \in Spot
    BY <1>4, <1>5, <1>6 DEF SaveRow, At, RootedAt, Spot
  <2>2. IsTree(index', {"dir", "file"})
    BY <1>1, <1>6, <2>1, PutTree DEF SaveRow, StoreOK
  <2>3. StoreOK'
    BY <1>1, <1>6, <2>2 DEF SaveRow, StoreOK
  <2> QED BY <1>1, <1>6, <2>3, EndKeeps DEF SaveRow
<1>7. CASE MkdirDisk(p)
  <2>1. IsTree(disk', Data \cup {Folder})
    BY <1>1, <1>5, <1>7, TryCreateDirTree DEF MkdirDisk, StoreOK
  <2>2. StoreOK'
    BY <1>1, <1>7, <2>1 DEF MkdirDisk, StoreOK
  <2> QED BY <1>1, <1>7, <2>2, EndKeeps DEF MkdirDisk
<1>8. CASE RenameOwn(p)
  <2> DEFINE S == {h[p].path} \cap DOMAIN index
             to == [q \in S |-> h[p].to]
  <2>1. h[p].to \in Spot
    BY <1>4, <1>5, <1>8 DEF RenameOwn, At, RootedAt, Spot
  <2>2. RootedAt([h[p] EXCEPT !.pc = "renameKids"])
    BY <1>4, <2>1 DEF Locals, RootedAt, Spot
  <2>3. UpdateRows(p, S, to, "renameKids") /\ \A q \in S : to[q] \in Spot
    BY <1>8, <2>1 DEF RenameOwn
  <2> HIDE DEF S, to
  <2>4. S \subseteq DOMAIN index /\ "renameKids" \in PC
    BY DEF S, PC
  <2>5. IsTree(index', {"dir", "file"}) /\ HandlersOK'
    BY <1>1, <2>2, <2>3, <2>4, UpdateRowsKeeps
  <2> QED BY <1>1, <1>8, <2>5 DEF RenameOwn, StoreOK
<1>9. CASE RenameKids(p)
  <2> DEFINE S == {q \in DOMAIN index : Parent(q) = h[p].path}
             to == [q \in S |-> Append(h[p].to, Last(q))]
  <2>1. h[p].to \in Spot
    BY <1>4, <1>5, <1>9 DEF RenameKids, At, RootedAt, Spot
  <2>2. RootedAt([h[p] EXCEPT !.pc = "renameDeep"])
    BY <1>4, <2>1 DEF Locals, RootedAt, Spot
  <2>3. \A q \in S : to[q] \in Spot
    BY <1>1, <1>5, ParentPath, AppendSpot DEF StoreOK, IsTree
  <2>4. UpdateRows(p, S, to, "renameDeep")
    BY <1>9 DEF RenameKids
  <2>5. S \subseteq DOMAIN index /\ "renameDeep" \in PC
    BY DEF PC
  <2> HIDE DEF S, to
  <2>6. IsTree(index', {"dir", "file"}) /\ HandlersOK'
    BY <1>1, <2>2, <2>3, <2>4, <2>5, UpdateRowsKeeps
  <2> QED BY <1>1, <1>9, <2>6 DEF RenameKids, StoreOK
<1>10. CASE RenameDeep(p)
  <2> DEFINE S == {q \in DOMAIN index : LikeBelow(Parent(q), h[p].path)}
             to == [q \in S |-> Rebase(q, h[p].path, h[p].to)]
  <2>1. h[p].to \in Spot
    BY <1>4, <1>5, <1>10 DEF RenameDeep, At, RootedAt, Spot
  <2>2. \A q \in S : to[q] \in Spot
    <3>1. \A q \in S : q \in Path
      BY <1>1, <1>3 DEF StoreOK, IsTree
    <3> QED BY <1>5, <2>1, <3>1, RebaseSpot
  <2>3. UpdateRows(p, S, to, "idle")
    BY <1>10 DEF RenameDeep
  <2>4. S \subseteq DOMAIN index /\ "idle" \in PC
    BY DEF PC
  <2> HIDE DEF S, to
  <2>5. IsTree(index', {"dir", "file"}) /\ HandlersOK'
    BY <1>1, <2>2, <2>3, <2>4, UpdateRowsKeeps
  <2> QED BY <1>1, <1>10, <2>5 DEF RenameDeep, StoreOK
<1> QED BY <1>6, <1>7, <1>8, <1>9, <1>10

\* Archiving a file into locals that fit the next step.
LEMMA ArchiveKeeps ==
  ASSUME StoreOK, HandlersOK, NEW p \in Proc, NEW q \in Path, NEW l \in Locals,
         RootedAt([l EXCEPT !.cur = q, !.blob = fresh]), Archive(p, q, l)
  PROVE  StoreOK' /\ HandlersOK'
<1>1. CASE /\ IsFileAt(disk, q)
           /\ disk' = Without(disk, {q})
           /\ blobs' = Put(blobs, fresh, disk[q])
           /\ fresh' = fresh + 1
           /\ Goto(p, [l EXCEPT !.cur = q, !.blob = fresh])
           /\ UNCHANGED <<index, trash, expired>>
  <2>1. IsTree(disk', Data \cup {Folder})
    BY <1>1, WithoutTree DEF StoreOK
  <2>2. fresh \in Nat /\ fresh # NoBlob /\ fresh + 1 \in Nat /\ fresh + 1 # NoBlob
    BY DEF StoreOK, NoBlob
  <2>3. disk[q] \in Data
    BY <1>1 DEF StoreOK, IsTree, IsFileAt
  <2>4. /\ DOMAIN blobs' \subseteq Nat \ {NoBlob}
        /\ \A b \in DOMAIN blobs' : blobs'[b] \in Data
    BY <1>1, <2>2, <2>3 DEF StoreOK, Put
  <2>5. StoreOK'
    BY <1>1, <2>1, <2>2, <2>4 DEF StoreOK
  <2>6. [l EXCEPT !.cur = q, !.blob = fresh] \in Locals
    BY <2>2 DEF Locals
  <2> QED BY <1>1, <2>5, <2>6, GoOnKeeps
<1>2. CASE ~IsFileAt(disk, q) /\ Fail(p) /\ UNCHANGED store
  <2>1. StoreOK'
    BY <1>2 DEF StoreOK, store
  <2> QED BY <1>2, <2>1, EndKeeps
<1> QED BY <1>1, <1>2 DEF Archive

\* Inserting a trash row.
LEMMA InsertRowKeeps ==
  ASSUME StoreOK, NEW form \in {"user", "rel"}, NEW q \in Spot, NEW d \in BOOLEAN,
         NEW b \in Nat, InsertRow(form, q, d, b)
  PROVE  StoreOK'
<1>1. fresh \in Nat /\ fresh # NoBlob /\ fresh + 1 \in Nat /\ fresh + 1 # NoBlob
  BY DEF StoreOK, NoBlob
<1>2. [id |-> fresh, form |-> form, path |-> q, isDir |-> d, blob |-> b] \in Row
  BY <1>1 DEF Row
<1> QED BY <1>1, <1>2 DEF InsertRow, StoreOK

\* The steps of delete.
LEMMA DeleteStepsKeep ==
  ASSUME TypeInv, NEW p \in Proc,
         \/ ArchiveFile(p) \/ TrashRow(p)
         \/ TrashDir(p) \/ ListDir(p) \/ SweepFile(p) \/ SweepRow(p) \/ RemoveDir(p)
         \/ UnindexTree(p) \/ Unindex(p)
  PROVE  TypeInv'
<1>1. StoreOK /\ HandlersOK /\ CountersOK
  BY TypeParts
<1>2. CountersOK'
  BY <1>1, CountersKeep DEF ArchiveFile, TrashRow, TrashDir, ListDir, SweepFile, SweepRow,
     RemoveDir, UnindexTree, Unindex
<1>3. Spot \subseteq Path
  BY DEF Spot
<1>4. h[p] \in Locals /\ RootedAt(h[p])
  BY <1>1 DEF HandlersOK, Rooted
<1>5. /\ h[p].path \in Path /\ h[p].to \in Path /\ h[p].cur \in Path
      /\ h[p].blob \in Nat /\ h[p].files \subseteq Spot /\ h[p].stack \subseteq Spot
  BY <1>4 DEF Locals
<1> SUFFICES StoreOK' /\ HandlersOK'
  BY <1>2 DEF TypeInv, TypeOK, HandlersOK
<1>6. CASE ArchiveFile(p)
  <2> DEFINE l == [h[p] EXCEPT !.pc = "trashRow"]
  <2>1. l \in Locals
    BY <1>4 DEF Locals, PC
  <2>2. RootedAt([l EXCEPT !.cur = h[p].path, !.blob = fresh])
    BY <1>4, <1>6 DEF ArchiveFile, At, RootedAt, Locals
  <2>3. Archive(p, h[p].path, l)
    BY <1>6 DEF ArchiveFile
  <2> HIDE DEF l
  <2> QED BY <1>1, <1>5, <2>1, <2>2, <2>3, ArchiveKeeps
<1>7. CASE TrashRow(p)
  <2>1. h[p].path \in Spot
    BY <1>4, <1>5, <1>7 DEF TrashRow, At, RootedAt, Spot
  <2>2. StoreOK'
    BY <1>1, <1>5, <1>7, <2>1, InsertRowKeeps DEF TrashRow
  <2>3. RootedAt([h[p] EXCEPT !.pc = "unindex"])
    BY <1>4 DEF RootedAt, Locals
  <2> QED BY <1>1, <1>7, <2>2, <2>3, JumpKeeps DEF TrashRow, PC
<1>8. CASE TrashDir(p)
  <2> PICK q \in h[p].stack :
        /\ InsertRow("rel", q, TRUE, NoBlob)
        /\ Goto(p, [h[p] EXCEPT !.pc = "listDir", !.to = q, !.stack = @ \ {q}])
    BY <1>8 DEF TrashDir
  <2> DEFINE l == [h[p] EXCEPT !.pc = "listDir", !.to = q, !.stack = @ \ {q}]
  <2>1. StoreOK'
    BY <1>1, <1>5, InsertRowKeeps DEF NoBlob
  <2>2. l \in Locals
    BY <1>3, <1>4, <1>5 DEF Locals, PC
  <2>3. RootedAt(l)
    BY <1>4 DEF RootedAt, Locals
  <2> HIDE DEF l
  <2>4. Goto(p, l)
    BY DEF l
  <2> QED BY <1>1, <2>1, <2>2, <2>3, <2>4, GoOnKeeps
<1>9. CASE ListDir(p)
  <2> DEFINE found == Children(disk, h[p].to)
             l == [h[p] EXCEPT !.pc = "sweep",
                               !.files = {q \in found : IsFileAt(disk, q)},
                               !.stack = @ \cup {q \in found : IsDirAt(disk, q)}]
  <2>1. found \subseteq Spot
    BY <1>1 DEF Children, StoreOK, IsTree
  <2>2. Goto(p, l) /\ StoreOK'
    BY <1>1, <1>9 DEF ListDir, StoreOK, store
  <2> HIDE DEF found
  <2>3. l \in Locals
    BY <1>4, <1>5, <2>1 DEF Locals, PC
  <2>4. RootedAt(l)
    BY <1>4 DEF RootedAt, Locals
  <2> HIDE DEF l
  <2> QED BY <1>1, <2>2, <2>3, <2>4, GoOnKeeps
<1>10. CASE SweepFile(p)
  <2> PICK q \in h[p].files :
        Archive(p, q, [h[p] EXCEPT !.pc = "sweepRow", !.files = @ \ {q}])
    BY <1>10 DEF SweepFile
  <2> DEFINE l == [h[p] EXCEPT !.pc = "sweepRow", !.files = @ \ {q}]
  <2>1. q \in Spot
    BY <1>5
  <2>2. l \in Locals
    BY <1>4, <1>5 DEF Locals, PC
  <2>3. RootedAt([l EXCEPT !.cur = q, !.blob = fresh])
    BY <1>4, <2>1 DEF RootedAt, Locals, Spot
  <2>4. Archive(p, q, l)
    OBVIOUS
  <2> HIDE DEF l
  <2> QED BY <1>1, <1>3, <2>1, <2>2, <2>3, <2>4, ArchiveKeeps
<1>11. CASE SweepRow(p)
  <2>1. h[p].cur \in Spot
    BY <1>4, <1>5, <1>11 DEF SweepRow, At, RootedAt, Spot
  <2>2. StoreOK'
    BY <1>1, <1>5, <1>11, <2>1, InsertRowKeeps DEF SweepRow
  <2>3. RootedAt([h[p] EXCEPT !.pc = "sweep"])
    BY <1>4 DEF RootedAt, Locals
  <2> QED BY <1>1, <1>11, <2>2, <2>3, JumpKeeps DEF SweepRow, PC
<1>12. CASE RemoveDir(p)
  <2>1. IsTree(disk', Data \cup {Folder})
    BY <1>1, <1>12, RemoveAllTree DEF RemoveDir, StoreOK
  <2>2. StoreOK'
    BY <1>1, <1>12, <2>1 DEF RemoveDir, StoreOK
  <2>3. /\ RootedAt([h[p] EXCEPT !.pc = "unindexTree"])
        /\ RootedAt([h[p] EXCEPT !.pc = "trashDir"])
    BY <1>4 DEF RootedAt, Locals
  <2>4. Jump(p, "unindexTree") \/ Jump(p, "trashDir")
    BY <1>12 DEF RemoveDir
  <2> QED BY <1>1, <2>2, <2>3, <2>4, JumpKeeps DEF PC
<1>13. CASE UnindexTree(p)
  <2>1. IsTree(index', {"dir", "file"})
    BY <1>1, <1>13, WithoutTree DEF UnindexTree, StoreOK
  <2>2. StoreOK'
    BY <1>1, <1>13, <2>1 DEF UnindexTree, StoreOK
  <2>3. RootedAt([h[p] EXCEPT !.pc = "unindex"])
    BY <1>4 DEF RootedAt, Locals
  <2> QED BY <1>1, <1>13, <2>2, <2>3, JumpKeeps DEF UnindexTree, PC
<1>14. CASE Unindex(p)
  <2>1. IsTree(index', {"dir", "file"})
    BY <1>1, <1>14, WithoutTree DEF Unindex, StoreOK
  <2>2. StoreOK'
    BY <1>1, <1>14, <2>1 DEF Unindex, StoreOK
  <2> QED BY <1>1, <1>14, <2>2, EndKeeps DEF Unindex
<1> QED BY <1>6, <1>7, <1>8, <1>9, <1>10, <1>11, <1>12, <1>13, <1>14

\* Dropping trash rows and erasing blobs keeps the types of the store.
LEMMA ShrinkKeeps ==
  ASSUME StoreOK, trash' \subseteq trash,
         blobs' = blobs \/ \E S : blobs' = Without(blobs, S),
         UNCHANGED <<disk, index, fresh, expired>>
  PROVE  StoreOK'
BY DEF StoreOK, Without

\* The steps of delete under /Trash, and the end of a restored directory.
LEMMA TrashStepsKeep ==
  ASSUME TypeInv, NEW p \in Proc,
         Collect(p) \/ EraseBlob(p) \/ DropRows(p) \/ DropDirRow(p)
  PROVE  TypeInv'
<1>1. StoreOK /\ HandlersOK /\ CountersOK
  BY TypeParts
<1>2. CountersOK'
  BY <1>1, CountersKeep DEF Collect, EraseBlob, DropRows, DropDirRow
<1>3. h[p] \in Locals /\ RootedAt(h[p])
  BY <1>1 DEF HandlersOK, Rooted
<1>4. h[p].sel \subseteq Row /\ h[p].rows \subseteq Row
  BY <1>3 DEF Locals
<1> SUFFICES StoreOK' /\ HandlersOK'
  BY <1>2 DEF TypeInv, TypeOK, HandlersOK
<1>5. CASE Collect(p)
  <2> DEFINE found == FileRows(RowsUnder(h[p].loc))
             l == [h[p] EXCEPT !.pc = "eraseBlobs", !.sel = found, !.rows = found]
  <2>1. found \subseteq Row
    BY <1>1 DEF FileRows, RowsUnder, StoreOK
  <2>2. Goto(p, l) /\ StoreOK'
    BY <1>1, <1>5 DEF Collect, StoreOK, store
  <2> HIDE DEF found
  <2>3. l \in Locals /\ RootedAt(l)
    BY <1>3, <2>1 DEF Locals, PC, RootedAt
  <2> HIDE DEF l
  <2> QED BY <1>1, <2>2, <2>3, GoOnKeeps
<1>6. CASE EraseBlob(p)
  <2> PICK r \in h[p].rows :
        /\ blobs' = Without(blobs, {r.blob})
        /\ Goto(p, [h[p] EXCEPT !.rows = @ \ {r}])
    BY <1>6 DEF EraseBlob
  <2>1. StoreOK'
    BY <1>1, <1>6, ShrinkKeeps DEF EraseBlob
  <2>2. [h[p] EXCEPT !.rows = @ \ {r}] \in Locals /\ RootedAt([h[p] EXCEPT !.rows = @ \ {r}])
    BY <1>3, <1>4 DEF Locals, RootedAt
  <2> QED BY <1>1, <2>1, <2>2, GoOnKeeps
<1>7. CASE DropRows(p)
  <2>1. StoreOK'
    BY <1>1, <1>7, ShrinkKeeps DEF DropRows
  <2>2. /\ [h[p] EXCEPT !.pc = "dropDirRow", !.sel = {}] \in Locals
        /\ RootedAt([h[p] EXCEPT !.pc = "dropDirRow", !.sel = {}])
    BY <1>3 DEF Locals, PC, RootedAt
  <2> QED BY <1>1, <1>7, <2>1, <2>2, GoOnKeeps DEF DropRows
<1>8. CASE DropDirRow(p)
  <2>1. StoreOK'
    BY <1>1, <1>8, ShrinkKeeps DEF DropDirRow
  <2> QED BY <1>1, <1>8, <2>1, EndKeeps DEF DropDirRow
<1> QED BY <1>5, <1>6, <1>7, <1>8

\* The steps of the restore of a file.
LEMMA RestoreStepsKeep ==
  ASSUME TypeInv, NEW p \in Proc,
         RestoreFile(p) \/ RestoreRow(p) \/ DropRow(p) \/ EraseOne(p)
  PROVE  TypeInv'
<1>1. StoreOK /\ HandlersOK /\ CountersOK
  BY TypeParts
<1>2. CountersOK'
  BY <1>1, CountersKeep DEF RestoreFile, RestoreRow, DropRow, EraseOne
<1>3. h[p] \in Locals /\ RootedAt(h[p])
  BY <1>1 DEF HandlersOK, Rooted
<1>4. h[p].pc \in {"restoreFile", "restoreRow"} => h[p].to \in Spot
  BY <1>3 DEF Locals, RootedAt, Spot
<1> SUFFICES StoreOK' /\ HandlersOK'
  BY <1>2 DEF TypeInv, TypeOK, HandlersOK
<1>5. CASE RestoreFile(p)
  <2>1. CASE /\ h[p].blob \in DOMAIN blobs
             /\ disk' = Write(disk, h[p].to, blobs[h[p].blob])
             /\ Jump(p, "restoreRow")
    <3>1. h[p].to \in Spot /\ h[p].pc = "restoreFile"
      BY <1>4, <1>5 DEF RestoreFile, At
    <3>2. IsTree(disk', Data \cup {Folder})
      BY <1>1, <2>1, <3>1, WriteTree DEF StoreOK
    <3>3. StoreOK'
      BY <1>1, <1>5, <3>2 DEF RestoreFile, StoreOK
    <3>4. RootedAt([h[p] EXCEPT !.pc = "restoreRow"])
      BY <1>3, <3>1 DEF RootedAt, Locals, Spot
    <3> QED BY <1>1, <2>1, <3>3, <3>4, JumpKeeps DEF PC
  <2>2. CASE Fail(p) /\ UNCHANGED disk
    <3>1. StoreOK'
      BY <1>1, <1>5, <2>2 DEF RestoreFile, StoreOK
    <3> QED BY <1>1, <2>2, <3>1, EndKeeps
  <2> QED BY <1>5, <2>1, <2>2 DEF RestoreFile
<1>6. CASE RestoreRow(p)
  <2>1. h[p].to \in Spot
    BY <1>4, <1>6 DEF RestoreRow, At
  <2>2. IsTree(index', {"dir", "file"})
    BY <1>1, <1>6, <2>1, PutTree DEF RestoreRow, StoreOK
  <2>3. StoreOK'
    BY <1>1, <1>6, <2>2 DEF RestoreRow, StoreOK
  <2>4. RootedAt([h[p] EXCEPT !.pc = "dropRow"])
    BY <1>3 DEF RootedAt, Locals
  <2>5. Jump(p, "dropRow") \/ Fail(p)
    BY <1>6 DEF RestoreRow
  <2> QED BY <1>1, <2>3, <2>4, <2>5, JumpKeeps, EndKeeps DEF PC
<1>7. CASE DropRow(p)
  <2>1. StoreOK'
    BY <1>1, <1>7, ShrinkKeeps DEF DropRow
  <2>2. RootedAt([h[p] EXCEPT !.pc = "eraseOne"])
    BY <1>3 DEF RootedAt, Locals
  <2> QED BY <1>1, <1>7, <2>1, <2>2, JumpKeeps DEF DropRow, PC
<1>8. CASE EraseOne(p)
  <2>1. StoreOK'
    BY <1>1, <1>8, ShrinkKeeps DEF EraseOne
  <2> QED BY <1>1, <1>8, <2>1, EndKeeps DEF EraseOne
<1> QED BY <1>5, <1>6, <1>7, <1>8

\* The place of a row of a directory being restored is below the root.
LEMMA CopyTargetSpot ==
  ASSUME NEW p \in Proc, h[p] \in Locals, NEW r \in Row
  PROVE  CopyTarget(p, r) \in Spot
<1>1. h[p].to \in Path /\ h[p].loc.path \in Path /\ r.path \in Spot
  BY DEF Locals, Place, Row
<1>2. Parent(r.path) \in Path /\ Last(r.path) \in Name
  BY <1>1, ParentPath
<1>3. TailBelow(Parent(r.path), h[p].loc.path) \in Path
  BY <1>1, <1>2, CutPath, EmptySeq DEF TailBelow, Path, Root
<1>4. h[p].to \o TailBelow(Parent(r.path), h[p].loc.path) \in Path
  BY <1>1, <1>3, ConcatProperties DEF Path
<1> QED BY <1>2, <1>4, AppendSpot DEF CopyTarget

\* The steps of the restore of a directory, up to the erasing.
LEMMA CopyStepsKeep ==
  ASSUME TypeInv, NEW p \in Proc,
         RestoreDir(p) \/ CopyDir(p) \/ CopyFile(p) \/ CopyRow(p) \/ CopyDone(p)
  PROVE  TypeInv'
<1>1. StoreOK /\ HandlersOK /\ CountersOK
  BY TypeParts
<1>2. CountersOK'
  BY <1>1, CountersKeep DEF RestoreDir, CopyDir, CopyFile, CopyRow, CopyDone
<1>3. h[p] \in Locals /\ RootedAt(h[p])
  BY <1>1 DEF HandlersOK, Rooted
<1>4. h[p].to \in Path /\ h[p].cur \in Path /\ h[p].sel \subseteq Row /\ h[p].rows \subseteq Row
  BY <1>3 DEF Locals
<1>5. Parent(h[p].to) \in Path
  <2>1. CASE h[p].to = Root
    <3>1. SubSeq(Root, 1, Len(Root) - 1) = <<>>
      BY EmptySeq, SubSeqEmpty DEF Root
    <3> QED BY <2>1, <3>1, EmptySeq DEF Parent, Front, Path
  <2>2. CASE h[p].to # Root
    BY <1>4, <2>2, ParentPath DEF Spot
  <2> QED BY <2>1, <2>2
<1>6. IsTree(disk, Data \cup {Folder}) /\ Folder \in Data \cup {Folder}
  BY <1>1 DEF StoreOK
<1> SUFFICES StoreOK' /\ HandlersOK'
  BY <1>2 DEF TypeInv, TypeOK, HandlersOK
<1>7. CASE RestoreDir(p)
  <2> DEFINE l == [h[p] EXCEPT !.pc = "copy", !.sel = RowsUnder(h[p].loc),
                               !.rows = RowsUnder(h[p].loc)]
  <2>1. IsTree(disk', Data \cup {Folder})
    BY <1>5, <1>6, <1>7, TryCreateDirTree DEF RestoreDir
  <2>2. StoreOK'
    BY <1>1, <1>7, <2>1 DEF RestoreDir, StoreOK
  <2>3. RowsUnder(h[p].loc) \subseteq Row
    BY <1>1 DEF RowsUnder, StoreOK
  <2>4. l \in Locals /\ RootedAt(l)
    BY <1>3, <2>3 DEF Locals, PC, RootedAt
  <2>5. GotoIf(p, l, CanCreateDir(disk, Parent(h[p].to)))
    BY <1>7 DEF RestoreDir
  <2>6. CanCreateDir(disk, Parent(h[p].to)) \in BOOLEAN
    BY DEF CanCreateDir
  <2> HIDE DEF l
  <2> QED BY <1>1, <2>2, <2>4, <2>5, <2>6, GotoKeeps
<1>8. CASE CopyDir(p)
  <2> PICK r \in h[p].rows \ FileRows(h[p].rows) :
        /\ disk' = TryCreateDir(disk, CopyTarget(p, r))
        /\ GotoIf(p, [h[p] EXCEPT !.pc = "copyRow", !.rows = @ \ {r},
                                  !.cur = CopyTarget(p, r), !.made = "dir"],
                  CanCreateDir(disk, CopyTarget(p, r)))
    BY <1>8 DEF CopyDir
  <2> DEFINE q == CopyTarget(p, r)
             l == [h[p] EXCEPT !.pc = "copyRow", !.rows = @ \ {r}, !.cur = q, !.made = "dir"]
  <2>1. q \in Spot
    BY <1>3, <1>4, CopyTargetSpot
  <2>2. IsTree(disk', Data \cup {Folder})
    BY <1>6, <2>1, TryCreateDirTree DEF Spot
  <2>3. StoreOK'
    BY <1>1, <1>8, <2>2 DEF CopyDir, StoreOK
  <2>4. GotoIf(p, l, CanCreateDir(disk, q)) /\ CanCreateDir(disk, q) \in BOOLEAN
    BY DEF CanCreateDir
  <2> HIDE DEF q
  <2>5. l \in Locals /\ RootedAt(l)
    BY <1>3, <1>4, <2>1 DEF Locals, PC, RootedAt, Spot
  <2> HIDE DEF l
  <2> QED BY <1>1, <2>3, <2>4, <2>5, GotoKeeps
<1>9. CASE CopyFile(p)
  <2> PICK r \in h[p].rows :
        LET q == CopyTarget(p, r) IN
        \/ /\ r.blob \in DOMAIN blobs /\ CanWrite(disk, q)
           /\ disk' = Write(disk, q, blobs[r.blob])
           /\ Goto(p, [h[p] EXCEPT !.pc = "copyRow", !.rows = @ \ {r}, !.cur = q, !.made = "file"])
        \/ /\ ~(r.blob \in DOMAIN blobs /\ CanWrite(disk, q))
           /\ disk' = TryCreateDir(disk, Parent(q))
           /\ Fail(p)
    BY <1>9 DEF CopyFile
  <2> DEFINE q == CopyTarget(p, r)
             l == [h[p] EXCEPT !.pc = "copyRow", !.rows = @ \ {r}, !.cur = q, !.made = "file"]
  <2>1. q \in Spot
    BY <1>3, <1>4, CopyTargetSpot
  <2>2. \/ disk' = TryCreateDir(disk, Parent(q)) /\ Fail(p)
        \/ /\ r.blob \in DOMAIN blobs /\ disk' = Write(disk, q, blobs[r.blob])
           /\ Goto(p, l)
    OBVIOUS
  <2> HIDE DEF q
  <2>3. l \in Locals /\ RootedAt(l)
    BY <1>3, <1>4, <2>1 DEF Locals, PC, RootedAt, Spot
  <2> HIDE DEF l
  <2>4. IsTree(disk', Data \cup {Folder})
    BY <1>1, <1>6, <2>1, <2>2, ParentPath, TryCreateDirTree, WriteTree DEF StoreOK
  <2>5. StoreOK'
    BY <1>1, <1>9, <2>4 DEF CopyFile, StoreOK
  <2> QED BY <1>1, <2>2, <2>3, <2>5, GoOnKeeps, EndKeeps
<1>10. CASE CopyRow(p)
  <2>1. h[p].cur \in Spot /\ h[p].made \in {"dir", "file"}
    BY <1>3, <1>4, <1>10 DEF CopyRow, At, RootedAt, Spot, Locals
  <2>2. IsTree(index', {"dir", "file"})
    BY <1>1, <1>10, <2>1, PutTree DEF CopyRow, StoreOK
  <2>3. StoreOK'
    BY <1>1, <1>10, <2>2 DEF CopyRow, StoreOK
  <2>4. RootedAt([h[p] EXCEPT !.pc = "copy"])
    BY <1>3 DEF RootedAt, Locals
  <2> QED BY <1>1, <1>10, <2>3, <2>4, JumpKeeps DEF CopyRow, PC
<1>11. CASE CopyDone(p)
  <2> DEFINE l == [h[p] EXCEPT !.pc = "eraseBlobs", !.sel = FileRows(@),
                               !.rows = FileRows(h[p].sel)]
  <2>1. Goto(p, l) /\ StoreOK'
    BY <1>1, <1>11 DEF CopyDone, StoreOK, store
  <2>2. FileRows(h[p].sel) \subseteq Row
    BY <1>4 DEF FileRows
  <2>3. l \in Locals /\ RootedAt(l)
    BY <1>3, <2>2 DEF Locals, PC, RootedAt
  <2> HIDE DEF l
  <2> QED BY <1>1, <2>1, <2>3, GoOnKeeps
<1> QED BY <1>7, <1>8, <1>9, <1>10, <1>11

-----------------------------------------------------------------------------
(* The purger, time and failures *)

\* The purger's steps keep the types.
LEMMA PurgerKeeps ==
  ASSUME TypeInv, Purger \/ Age
  PROVE  TypeInv'
<1>1. StoreOK /\ HandlersOK /\ CountersOK
  BY TypeParts
<1>2. HandlersOK'
  BY <1>1 DEF HandlersOK, Rooted, Purger, PurgeScan, PurgeBlob, PurgeRow, Age, PurgeStep
<1>3. trash \subseteq Row /\ purge \in [rows : SUBSET Row, cur : SUBSET Row]
  BY <1>1 DEF StoreOK, CountersOK
<1> SUFFICES StoreOK' /\ CountersOK'
  BY <1>2 DEF TypeInv, TypeOK, HandlersOK
<1>4. CASE PurgeScan
  BY <1>1, <1>3, <1>4 DEF PurgeScan, PurgeStep, StoreOK, CountersOK
<1>5. CASE PurgeBlob
  <2>1. StoreOK'
    BY <1>1, <1>5, ShrinkKeeps DEF PurgeBlob, PurgeStep
  <2> QED BY <1>1, <1>3, <1>5, <2>1 DEF PurgeBlob, PurgeStep, CountersOK
<1>6. CASE PurgeRow
  <2>1. StoreOK'
    BY <1>1, <1>6, ShrinkKeeps DEF PurgeRow, PurgeStep
  <2> QED BY <1>1, <1>3, <1>6, <2>1 DEF PurgeRow, PurgeStep, CountersOK
<1>7. CASE Age
  BY <1>1, <1>3, <1>7 DEF Age, StoreOK, CountersOK, Row
<1> QED BY <1>4, <1>5, <1>6, <1>7 DEF Purger

\* A failed statement or a crash touches locals only, and leaves them typed.
LEMMA FailureKeeps ==
  ASSUME TypeInv, Failure
  PROVE  TypeInv'
<1>1. StoreOK /\ HandlersOK /\ CountersOK
  BY TypeParts
<1>2. UNCHANGED store /\ Fault /\ UNCHANGED ops
  BY DEF Failure, Crash, PurgeErrorDropped, StatementFails, ErrorDropped
<1>3. StoreOK' /\ clean' \in BOOLEAN /\ faults' \in 0 .. MaxFaults /\ ops' \in 0 .. MaxOps
  <2>1. StoreOK'
    BY <1>1, <1>2 DEF StoreOK, store
  <2>2. faults \in Nat /\ MaxFaults \in Nat
    BY <1>1, ConstAssumption DEF CountersOK
  <2>3. faults' \in 0 .. MaxFaults /\ clean' = FALSE
    BY <1>2, <2>2 DEF Fault
  <2> QED BY <1>1, <1>2, <2>1, <2>3 DEF CountersOK
<1>4. purge \in [rows : SUBSET Row, cur : SUBSET Row]
  BY <1>1 DEF CountersOK
<1> SUFFICES /\ h' \in [Proc -> Locals] /\ Rooted'
             /\ purge' \in [rows : SUBSET Row, cur : SUBSET Row]
  BY <1>3 DEF TypeInv, TypeOK, CountersOK
<1>5. \A p \in Proc : h[p] \in Locals /\ RootedAt(h[p])
  BY <1>1 DEF HandlersOK, Rooted
<1>6. CASE Crash
  BY <1>6, IdleLocals DEF Crash, Rooted, Asleep
<1>7. CASE PurgeErrorDropped
  BY <1>1, <1>4, <1>7 DEF PurgeErrorDropped, HandlersOK, Rooted
<1>8. ASSUME NEW p \in Proc, StatementFails(p)
      PROVE  HandlersOK' /\ UNCHANGED purge
  <2>1. Fail(p) /\ UNCHANGED purge
    BY <1>8 DEF StatementFails, Fault, Fail
  <2> QED BY <1>1, <2>1, EndKeeps
<1>9. ASSUME NEW p \in Proc, ErrorDropped(p)
      PROVE  HandlersOK' /\ UNCHANGED purge
  <2>1. \E l \in Locals : RootedAt(l) /\ h' = [h EXCEPT ![p] = l]
    <3>1. CASE h[p].pc \in DOMAIN Unchecked
      <4>1. DOMAIN Unchecked = {"unindexTree", "unindex", "dropRow", "eraseOne",
                                "copyRow", "dropDirRow"}
        BY DEF Unchecked
      <4>2. /\ Unchecked[h[p].pc] \in {"unindex", "idle", "eraseOne", "copy"}
        BY <3>1, <4>1 DEF Unchecked
      <4>3. PICK k \in {"unindex", "idle", "eraseOne", "copy"} :
              h' = [h EXCEPT ![p] = IF k = "idle" THEN Idle ELSE [h[p] EXCEPT !.pc = k]]
        BY <1>9, <3>1, <4>1, <4>2 DEF ErrorDropped
      <4>4. [h[p] EXCEPT !.pc = k] \in Locals /\ RootedAt([h[p] EXCEPT !.pc = k])
        BY <1>5 DEF Locals, PC, RootedAt
      <4> QED BY <4>3, <4>4, IdleLocals
    <3>2. CASE h[p].pc = "eraseBlobs"
      <4>1. /\ [h[p] EXCEPT !.pc = "dropDirRow", !.sel = {}] \in Locals
            /\ RootedAt([h[p] EXCEPT !.pc = "dropDirRow", !.sel = {}])
        BY <1>5 DEF Locals, PC, RootedAt
      <4>2. \A r \in h[p].rows : /\ [h[p] EXCEPT !.rows = @ \ {r}] \in Locals
                                 /\ RootedAt([h[p] EXCEPT !.rows = @ \ {r}])
        BY <1>5 DEF Locals, RootedAt
      <4>3. \/ h' = [h EXCEPT ![p] = [h[p] EXCEPT !.pc = "dropDirRow", !.sel = {}]]
            \/ \E r \in h[p].rows : h' = [h EXCEPT ![p] = [h[p] EXCEPT !.rows = @ \ {r}]]
        <5>1. h[p].pc \notin DOMAIN Unchecked
          BY <3>2 DEF Unchecked
        <5> QED BY <1>9, <5>1 DEF ErrorDropped
      <4> QED BY <4>1, <4>2, <4>3
    <3> QED BY <1>9, <3>1, <3>2 DEF ErrorDropped
  <2>2. \E l \in Locals : RootedAt(l) /\ GotoIf(p, l, FALSE)
    BY <1>2, <2>1 DEF GotoIf, Fault
  <2> QED BY <1>1, <1>9, <2>2, GotoKeeps DEF ErrorDropped
<1> QED BY <1>4, <1>6, <1>7, <1>8, <1>9 DEF Failure, HandlersOK

-----------------------------------------------------------------------------

\* The store starts out well typed.
LEMMA InitTyped == Init => TypeInv
<1> SUFFICES ASSUME Init PROVE TypeInv
  OBVIOUS
<1>1. StoreOK
  BY DEF Init, StoreOK, IsTree, Blank, NoBlob
<1>2. HandlersOK
  BY IdleLocals DEF Init, HandlersOK, Rooted
<1>3. CountersOK
  BY ConstAssumption DEF Init, CountersOK, Asleep
<1> QED BY <1>1, <1>2, <1>3, TypeParts

\* Every step keeps it well typed.
LEMMA NextTyped == TypeInv /\ [Next]_vars => TypeInv'
<1> SUFFICES ASSUME TypeInv, [Next]_vars PROVE TypeInv'
  OBVIOUS
<1>1. CASE UNCHANGED vars
  BY <1>1 DEF vars, TypeInv, TypeOK, StoreOK, CountersOK, Rooted
<1>2. ASSUME NEW p \in Proc, Step(p) PROVE TypeInv'
  BY <1>2, SaveStepsKeep, DeleteStepsKeep, TrashStepsKeep, RestoreStepsKeep, CopyStepsKeep
     DEF Step
<1> QED BY <1>1, <1>2, RequestKeeps, PurgerKeeps, FailureKeeps DEF Next

\* In every reachable state the store, the locals of each request and the
\* purger have their types, and no step indexes, writes or files the root.
THEOREM TypeCorrect == Spec => []TypeOK
<1>1. TypeInv => TypeOK
  BY DEF TypeInv
<1> QED BY <1>1, InitTyped, NextTyped, PTL DEF Spec
=============================================================================
