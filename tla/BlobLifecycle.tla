---------------------------- MODULE BlobLifecycle ----------------------------
(***************************************************************************)
(* What the trash promises of the bytes of a deleted file, however many    *)
(* requests and purges overlap and wherever they fail: they are archived   *)
(* under a name never used before, listed at most once, and erased only    *)
(* because a request chose them or because they were old enough.           *)
(*                                                                         *)
(* It does not promise that archived bytes are listed (the request that    *)
(* archived them may fail before it says so), nor that bytes which are     *)
(* not listed any more are erased.                                         *)
(***************************************************************************)
EXTENDS Naturals

VARIABLES
  kept,    \* names of the blobs that hold bytes
  staged,  \* archived by a request that has not listed them yet
  listed,  \* named by a trash row
  aged,    \* among those listed or due, the ones old enough to be purged
  chosen,  \* selected by a request in progress: to delete, or to restore
  due,     \* selected by the purger
  next     \* names from here on have never been used

vars == <<kept, staged, listed, aged, chosen, due, next>>

Init ==
  /\ kept = {} /\ staged = {} /\ listed = {}
  /\ aged = {} /\ chosen = {} /\ due = {}
  /\ next = 1

\* A request that ends, and a crash, give up what they held.
LetGo == staged' \subseteq staged /\ chosen' \subseteq chosen /\ due' \subseteq due

Archive ==
  /\ \E b \in kept' :
       /\ b >= next /\ b < next'
       /\ kept' = kept \cup {b}
       /\ staged' = staged \cup {b}
  /\ UNCHANGED <<listed, aged, chosen, due>>

List ==
  /\ \E b \in staged :
       /\ listed' = listed \cup {b}
       /\ staged' = staged \ {b}
  /\ next' >= next
  /\ UNCHANGED <<kept, aged, chosen, due>>

\* A row without bytes: the one of a deleted directory.
ListDirectory ==
  /\ next' >= next
  /\ UNCHANGED <<kept, staged, listed, aged, chosen, due>>

Choose ==
  /\ chosen' \subseteq chosen \cup listed
  /\ UNCHANGED <<kept, staged, listed, aged, due, next>>

Expire ==
  /\ aged' = aged \cup listed
  /\ UNCHANGED <<kept, staged, listed, chosen, due, next>>

FallDue ==
  /\ due' \subseteq aged
  /\ UNCHANGED <<kept, staged, listed, aged, chosen, next>>

Erase ==
  /\ \E b \in chosen \cup due : kept' = kept \ {b}
  /\ aged' \subseteq aged
  /\ LetGo
  /\ UNCHANGED <<listed, next>>

Unlist ==
  /\ listed' \subseteq listed
  /\ aged' \subseteq aged
  /\ LetGo
  /\ UNCHANGED <<kept, next>>

Next ==
  \/ Archive \/ List \/ ListDirectory
  \/ Choose \/ Expire \/ FallDue
  \/ Erase \/ Unlist

Spec == Init /\ [][Next]_vars
=============================================================================
