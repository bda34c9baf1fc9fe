------------------------------- MODULE DocsTrees -------------------------------
(***************************************************************************)
(* Whose file a path names: the trees of all users in crates/storage.      *)
(*                                                                         *)
(* Each operation of StorageServiceImpl finds out for itself, from the     *)
(* user who asks and the path, where the file is (resolve_opendal_path),   *)
(* whose rows list it and whose trash takes it.  This module has what each *)
(* of them finds, and the operations on files as single steps; how their   *)
(* awaits interleave within one user's tree is in Storage.                 *)
(*                                                                         *)
(* A path is the sequence of its names: /User/al/f is <<"User","al","f">>. *)
(* Paths name files, no file stands where another one's directory is,      *)
(* paths below /User are those of users that exist, and no request names   *)
(* .Trash, the directory the store keeps for itself, or the blobs in it,   *)
(* or repeats /System (the code takes /System/System for /System).         *)
(***************************************************************************)
EXTENDS Naturals, Sequences, SequencesExt, FiniteSets

CONSTANTS
  Name,     \* names in paths
  User,     \* names in sys.users
  Grant,    \* sys.app_permissions: <<app, user>>
  Paths     \* files that requests name

Admin == "admin"
Nobody == "nobody"     \* the owner of a path that belongs to no tree
NoPlace == <<>>        \* the place of a path that is refused

ASSUME TreesAssumption ==
  /\ Admin \in User /\ Nobody \notin User /\ User \subseteq Name
  /\ {"User", "System"} \subseteq Name /\ {".Trash", "blobs"} \cap Name = {}
  /\ Paths \subseteq Seq(Name)
  /\ \A v \in Paths : Len(v) > 1 /\ (v[1] = "User" => Len(v) > 2 /\ v[2] \in User)

VARIABLES
  files,   \* physical files below vol1 and their contents, blobs included
  rows,    \* storage.cloud_files
  trash,   \* storage.trash_items; content is history: what the file held
  fresh,   \* the next random identifier
  torn     \* history: a request failed halfway, or moved a file to or from AppData

trees == <<files, rows, trash, fresh, torn>>

Init ==
  /\ files = [q \in {} |-> <<>>]
  /\ rows = {} /\ trash = {}
  /\ fresh = 1 /\ torn = FALSE

-----------------------------------------------------------------------------
(* Paths *)

Parent(v) == Front(v)
Top(v, name) == v # <<>> /\ v[1] = name
Owned(v) == Top(v, "User") /\ Len(v) > 1

\* The user whose tree, rows and trash a path belongs to.
OwnerOf(v) ==
  IF Top(v, "System") THEN Admin ELSE IF Owned(v) /\ v[2] \in User THEN v[2] ELSE Nobody
May(u, v) == OwnerOf(v) # Nobody /\ u \in {OwnerOf(v), Admin}

\* check_app_access
Access(u, app) == u = Admin \/ <<app, u>> \in Grant

\* Below /Trash a directory stands for the original_dir it goes on with
\* (trim_start_matches: "/Trash" is cut off as often as it repeats).
TrashNames(v) == {k \in 0 .. Len(v) : \A i \in 1 .. k : v[i] = "Trash"}
OriginalDir(v) == SubSeq(v, Cardinality(TrashNames(v)), Len(v))

\* resolve_opendal_path: /System lies in the tree of admin, /Trash in that of the user
\* who asks (nothing makes the directories by date that are looked for in it); a path
\* without a known top is taken to be the user's own.
Resolve(u, v) ==
  IF Top(v, "AppData") THEN IF Len(v) = 1 \/ Access(u, v[2]) THEN v ELSE NoPlace
  ELSE IF Top(v, "System") THEN <<"User", Admin>> \o v
  ELSE IF Top(v, "Trash") THEN <<"User", u, ".Trash">> \o OriginalDir(v)
  ELSE IF Owned(v) THEN v
  ELSE <<"User", u>> \o v

\* What is a directory: the top of a user's tree, /System, which the server makes when
\* it starts, and .Trash.  A file cannot be written or moved there.
IsTop(place) ==
  /\ Top(place, "User")
  /\ Len(place) = 2 \/ place = <<"User", Admin, "System">> \/ (Len(place) = 3 /\ place[3] = ".Trash")

\* get_file_path
ReadPlace(u, v) == IF Owned(v) /\ ~May(u, v) THEN NoPlace ELSE Resolve(u, v)

\* Mutant: the place is looked for as the user who asks, not as the owner.
SavePlaceOfAsker(u, v) ==
  LET dir == Parent(v) IN
  IF (Top(dir, "AppData") \/ May(u, dir)) /\ Resolve(u, dir) # NoPlace
  THEN Append(IF Top(dir, "AppData") THEN Resolve(u, dir) ELSE <<"User", u>> \o dir, Last(v))
  ELSE NoPlace

\* Where save_file writes: found from the directory, not from the file.
SavePlace(u, v) ==
  LET dir == Parent(v)
      place == Resolve(IF Top(dir, "AppData") THEN u ELSE OwnerOf(dir), dir)
  IN  IF /\ Top(dir, "AppData") \/ May(u, dir)
         /\ place # NoPlace /\ ~IsTop(Append(place, Last(v)))
      THEN Append(place, Last(v)) ELSE NoPlace

\* A row of cloud_files, and the one that lists v.
RowOf(u, v) == [user |-> u, dir |-> Parent(v), name |-> Last(v)]

\* Rows of u's trash that a path below /Trash names to list and to rename.
Found(u, v) == {r \in trash : r.user = u /\ r.dir = OriginalDir(Parent(v)) /\ r.name = Last(v)}

\* list: names listed under dir, none where the request is refused.  The trash is
\* one's own, and its root shows the rows whose original_dir is the root.
Listing(u, dir) ==
  IF Top(dir, "Trash") THEN {r.name : r \in {s \in trash : s.user = u /\ s.dir = OriginalDir(dir)}}
  ELSE IF Top(dir, "AppData")
  THEN {q[Len(q)] : q \in {p \in DOMAIN files :
          Resolve(u, dir) # NoPlace /\ Len(dir) > 1 /\ Parent(p) = Resolve(u, dir)}}
  ELSE {r.name : r \in {s \in rows :
          /\ Access(u, "file-manager")
          /\ Top(dir, "System") \/ May(u, dir)
          /\ s.user = OwnerOf(dir) /\ s.dir = dir}}

-----------------------------------------------------------------------------
(* Operations on files, each in one step *)

With(f, q, c) == [x \in DOMAIN f \cup {q} |-> IF x = q THEN c ELSE f[x]]
Lose(f, S) == [x \in DOMAIN f \ S |-> f[x]]
Blob(u, id) == <<"User", u, ".Trash", "blobs", id>>

\* save_file, save_file_from_path: the file, then its row; in AppData the file alone.
SaveFile(u, v, c) ==
  /\ SavePlace(u, v) # NoPlace
  /\ files' = With(files, SavePlace(u, v), c)
  /\ rows' = IF Top(v, "AppData") THEN rows ELSE rows \cup {RowOf(OwnerOf(v), v)}
  /\ UNCHANGED <<trash, fresh, torn>>

\* rename across or within AppData: the file alone.
InApp(f, t) == Top(f, "AppData") \/ Top(t, "AppData")
CanMoveApp(u, f, t) ==
  /\ ~Top(f, "Trash") /\ InApp(f, t) /\ Resolve(u, f) \in DOMAIN files
  /\ Resolve(u, t) # NoPlace /\ ~IsTop(Resolve(u, t))
MoveApp(u, f, t) ==
  /\ CanMoveApp(u, f, t)
  /\ files' = With(Lose(files, {Resolve(u, f)}), Resolve(u, t), files[Resolve(u, f)])
  /\ torn' = TRUE
  /\ UNCHANGED <<rows, trash, fresh>>

CanMoveOwn(u, f, t) ==
  /\ ~InApp(f, t) /\ May(u, f) /\ OwnerOf(t) = OwnerOf(f)
  /\ Resolve(OwnerOf(f), f) \in DOMAIN files /\ ~IsTop(Resolve(OwnerOf(f), t))
Clash(owner, f, t) == RowOf(owner, t) \in rows /\ RowOf(owner, f) \in rows /\ f # t

\* Mutant: the rows that are moved are the asker's.
MoveOwnOfAsker(u, f, t) ==
  /\ CanMoveOwn(u, f, t)
  /\ LET owner == OwnerOf(f)
         from == Resolve(owner, f)
     IN  /\ files' = With(Lose(files, {from}), Resolve(owner, t), files[from])
         /\ rows' = IF RowOf(u, f) \in rows /\ ~Clash(u, f, t)
                    THEN (rows \ {RowOf(u, f)}) \cup {RowOf(u, t)} ELSE rows
         /\ torn' = (torn \/ Clash(u, f, t))
  /\ UNCHANGED <<trash, fresh>>

\* rename within one tree: the file, then its row.  The unique key refuses the
\* second when the target has a row too, the file being moved already.
MoveOwn(u, f, t) ==
  /\ CanMoveOwn(u, f, t)
  /\ LET owner == OwnerOf(f)
         from == Resolve(owner, f)
     IN  /\ files' = With(Lose(files, {from}), Resolve(owner, t), files[from])
         /\ rows' = IF RowOf(owner, f) \in rows /\ ~Clash(owner, f, t)
                    THEN (rows \ {RowOf(owner, f)}) \cup {RowOf(owner, t)} ELSE rows
         /\ torn' = (torn \/ Clash(owner, f, t))
  /\ UNCHANGED <<trash, fresh>>

\* delete in AppData: gone for good.
CanDeleteApp(u, v) == Top(v, "AppData") /\ Resolve(u, v) # NoPlace
DeleteApp(u, v) ==
  /\ CanDeleteApp(u, v)
  /\ files' = Lose(files, {Resolve(u, v)})
  /\ UNCHANGED <<rows, trash, fresh, torn>>

TrashRow(u, v, c) ==
  [id |-> fresh, user |-> u, dir |-> Parent(v), name |-> Last(v), content |-> c]
CanDeleteOwn(u, v) == May(u, v) /\ Resolve(OwnerOf(v), v) \in DOMAIN files

\* Mutant: the trash row is the asker's, though the blob is the owner's.
DeleteOwnToAsker(u, v) ==
  /\ CanDeleteOwn(u, v)
  /\ LET owner == OwnerOf(v)
         place == Resolve(owner, v)
     IN  /\ files' = With(Lose(files, {place}), Blob(owner, fresh), files[place])
         /\ trash' = trash \cup {TrashRow(u, v, files[place])}
         /\ rows' = rows \ {RowOf(owner, v)}
  /\ fresh' = fresh + 1 /\ UNCHANGED torn

\* delete of a file: into the trash of its owner.
DeleteOwn(u, v) ==
  /\ CanDeleteOwn(u, v)
  /\ LET owner == OwnerOf(v)
         place == Resolve(owner, v)
     IN  /\ files' = With(Lose(files, {place}), Blob(owner, fresh), files[place])
         /\ trash' = trash \cup {TrashRow(owner, v, files[place])}
         /\ rows' = rows \ {RowOf(owner, v)}
  /\ fresh' = fresh + 1 /\ UNCHANGED torn

\* rename from /Trash: only one's own trash can be named, but admin may restore
\* into any tree.
Restorable(u, v) == {r \in Found(u, v) : Blob(u, r.id) \in DOMAIN files}
CanRestore(u, v, t) ==
  Top(v, "Trash") /\ May(u, t) /\ Restorable(u, v) # {} /\ ~IsTop(Resolve(OwnerOf(t), t))

\* Mutant: the restored file is listed among the asker's.
RestoreForAsker(u, v, t) ==
  /\ CanRestore(u, v, t)
  /\ \E r \in Restorable(u, v) :
       files' = Lose(With(files, Resolve(OwnerOf(t), t), files[Blob(u, r.id)]), {Blob(u, r.id)})
  /\ rows' = rows \cup {RowOf(u, t)}
  /\ trash' = trash \ Found(u, v)
  /\ UNCHANGED <<fresh, torn>>

\* All rows of that place are dropped, and the blob of one, whichever was selected.
Restore(u, v, t) ==
  /\ CanRestore(u, v, t)
  /\ \E r \in Restorable(u, v) :
       files' = Lose(With(files, Resolve(OwnerOf(t), t), files[Blob(u, r.id)]), {Blob(u, r.id)})
  /\ rows' = rows \cup {RowOf(OwnerOf(t), t)}
  /\ trash' = trash \ Found(u, v)
  /\ UNCHANGED <<fresh, torn>>

\* delete below /Trash looks for an original_dir without its first slash, so that it
\* finds only what was at the root; what it does not find it answers Ok.
CanDeleteTrash(v) == Top(v, "Trash") /\ Len(v) > 1
DeleteTrash(u, v) ==
  /\ CanDeleteTrash(v)
  /\ LET found == IF OriginalDir(Parent(v)) = <<>> THEN Found(u, v) ELSE {}
     IN  /\ files' = Lose(files, {Blob(u, r.id) : r \in found})
         /\ trash' = trash \ found
  /\ UNCHANGED <<rows, fresh, torn>>

\* run_trash_purger: the blob of the row's user, and the row.
Purge(r) ==
  /\ files' = Lose(files, {Blob(r.user, r.id)})
  /\ trash' = trash \ {r}
  /\ UNCHANGED <<rows, fresh, torn>>

-----------------------------------------------------------------------------
(* Properties *)

\* The types of the trees: files, rows, trash.
TreesOK ==
  /\ \A q \in DOMAIN files : q # NoPlace /\ q[1] \in {"User", "AppData"}
  /\ \A r \in rows : r.user \in User /\ r.dir # <<>>
  /\ \A r \in trash : r.user \in User /\ r.id < fresh
  /\ fresh \in Nat \ {0} /\ torn \in BOOLEAN

\* A row belongs to the user among whose rows its directory is looked for, even
\* when admin has saved, moved, deleted or restored in another user's tree:
\* otherwise nobody's listing would ever show it.
RowsAreListed == \A r \in rows : OwnerOf(r.dir) = r.user

\* What is in the trash can be restored: it is listed below /Trash in the directory
\* it was deleted from, and a restore of the path it is listed under selects rows
\* of that place only, each with a blob in the trash of the user who asks, which
\* holds what the file held.
ListedIsRestorable ==
  \A r \in trash :
    LET at == <<"Trash">> \o r.dir IN
    /\ r.name \in Listing(r.user, at)
    /\ r \in Found(r.user, Append(at, r.name))
    /\ \A s \in Found(r.user, Append(at, r.name)) :
         Blob(s.user, s.id) \in DOMAIN files /\ files[Blob(s.user, s.id)] = s.content

\* As long as no request failed halfway and none moved a file to or from AppData,
\* the tree of an ordinary user holds just the files that are listed in it,
\* whoever put them there.  (The part of admin's tree that /System names too has
\* two sets of rows, and is left out.)
ListedIsThere ==
  ~torn => \A u \in User \ {Admin} :
    {Append(r.dir, r.name) : r \in {s \in rows : s.user = u}}
      = {q \in DOMAIN files : q[1] = "User" /\ q[2] = u /\ q[3] # ".Trash"}
=============================================================================
