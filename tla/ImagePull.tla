------------------------------- MODULE ImagePull -------------------------------
(***************************************************************************)
(* Image pulls of crates/container: ContainerServiceImpl::pull_image and   *)
(* what list_images says of them.  A pull is a task of its own; what it    *)
(* shares with the others, and with a listing, is the map of images being  *)
(* pulled, which it takes the lock of at each step.  Several pulls of one  *)
(* image may run at the same time, and they share its one entry.           *)
(***************************************************************************)
EXTENDS Naturals, FiniteSets

CONSTANTS
  Image,      \* image names, tag included
  Pull,       \* requests to pull one
  MaxReports  \* bound: progress reports of a pull

NoImage == "none"

ASSUME ImagePullAssumption == MaxReports \in Nat /\ NoImage \notin Image

VARIABLES
  pulling,    \* the map: image -> its PullStatus, "none" where it has no entry
  pull,       \* the tasks: program counter and image
  reported    \* progress reports so far, by pull

vars == <<pulling, pull, reported>>

Status == {"none", "pulling", "error"}

Init ==
  /\ pulling = [i \in Image |-> "none"]
  /\ pull = [p \in Pull |-> [pc |-> "new", image |-> NoImage]]
  /\ reported = [p \in Pull |-> 0]

Is(p, pc) == pull[p].pc = pc
Go(p, pc) == pull' = [pull EXCEPT ![p].pc = pc]
Entry(p) == pulling[pull[p].image]
SetEntry(p, status) == pulling' = [pulling EXCEPT ![pull[p].image] = status]

\* Mutant: a request without a name is let through.
PullUnnamed(p) ==
  /\ Is(p, "new")
  /\ \E i \in Image \cup {NoImage} :
       pull' = [pull EXCEPT ![p] = [pc |-> "insert", image |-> i]]
  /\ UNCHANGED <<pulling, reported>>

\* pull_image refuses an empty name, and answers as soon as the task is spawned.
PullImage(p) ==
  /\ Is(p, "new")
  /\ \E i \in Image : pull' = [pull EXCEPT ![p] = [pc |-> "insert", image |-> i]]
  /\ UNCHANGED <<pulling, reported>>

\* A new status takes the place of what an earlier pull has left.
Insert(p) ==
  /\ Is(p, "insert")
  /\ SetEntry(p, "pulling")
  /\ Go(p, "stream")
  /\ UNCHANGED reported

\* Mutant: the entry is put back when another pull has taken it away.
ProgressInserts(p) ==
  /\ Is(p, "stream") /\ reported[p] < MaxReports
  /\ reported' = [reported EXCEPT ![p] = @ + 1]
  /\ SetEntry(p, "pulling")
  /\ UNCHANGED pull

\* Progress is noted in the entry, if there is one; its error, if it has one, stays.
Progress(p) ==
  /\ Is(p, "stream") /\ reported[p] < MaxReports
  /\ reported' = [reported EXCEPT ![p] = @ + 1]
  /\ UNCHANGED <<pulling, pull>>

\* Mutant: the error is not noted.
FailQuietly(p) ==
  /\ Is(p, "stream")
  /\ Go(p, "done")
  /\ UNCHANGED <<pulling, reported>>

\* The stream ends in an error, which the entry keeps, if there is one.
Fail(p) ==
  /\ Is(p, "stream")
  /\ IF Entry(p) = "none" THEN UNCHANGED pulling ELSE SetEntry(p, "error")
  /\ Go(p, "done")
  /\ UNCHANGED reported

\* Mutant: the entry of a pull that succeeds is left.
FinishAndKeep(p) ==
  /\ Is(p, "stream")
  /\ Go(p, "done")
  /\ UNCHANGED <<pulling, reported>>

\* The stream ends: the image is there.
Finish(p) ==
  /\ Is(p, "stream")
  /\ Go(p, "remove")
  /\ UNCHANGED <<pulling, reported>>

\* A pull that succeeds takes the entry away, its own or not, error or not.
RemoveEntry(p) ==
  /\ Is(p, "remove")
  /\ SetEntry(p, "none")
  /\ Go(p, "done")
  /\ UNCHANGED reported

Stream(p) == Progress(p) \/ Fail(p) \/ Finish(p)
Next == \E p \in Pull : PullImage(p) \/ Insert(p) \/ Stream(p) \/ RemoveEntry(p)

\* Tasks run.  The daemon's stream goes on or ends: the code has no time limit of
\* its own, so that it does not stand still is an assumption about the daemon.
Spec ==
  Init /\ [][Next]_vars /\ \A p \in Pull : WF_vars(Insert(p) \/ Stream(p) \/ RemoveEntry(p))

-----------------------------------------------------------------------------
(* Properties *)

PC == {"new", "insert", "stream", "remove", "done"}

\* The types of the map and of the tasks.
TypeOK ==
  /\ pulling \in [Image -> Status]
  /\ pull \in [Pull -> [pc : PC, image : Image \cup {NoImage}]]
  /\ \A p \in Pull : pull[p].image = NoImage <=> pull[p].pc = "new"
  /\ reported \in [Pull -> 0 .. MaxReports]

\* What list_images says of an image beside those the daemon has.
Listed(i) == pulling[i]
Running(i) == {p \in Pull : pull[p].image = i /\ pull[p].pc \in {"stream", "remove"}}

\* An image is listed as being pulled only while a pull of it runs, whatever the
\* other pulls of it have done to their common entry: none is listed for ever.
PullingMeansRunning == \A i \in Image : Listed(i) = "pulling" => Running(i) # {}

\* The error of a pull stays listed until another pull of that image begins or
\* has succeeded: nothing that is still running wipes it out.
ErrorStays ==
  [][\A i \in Image : Listed(i) = "error" /\ Listed(i)' # "error" =>
       \E p \in Pull : pull[p].image = i /\ pull[p].pc \in {"insert", "remove"}
                       /\ pull'[p].pc # pull[p].pc]_vars

\* Every pull that is asked for ends, and its image is then no longer listed as
\* being pulled, or another pull of it still runs.
PullsEnd ==
  \A p \in Pull : pull[p].pc = "insert" ~>
    /\ pull[p].pc = "done"
    /\ Listed(pull[p].image) # "pulling" \/ Running(pull[p].image) # {}
=============================================================================
