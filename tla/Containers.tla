------------------------------ MODULE Containers -------------------------------
(***************************************************************************)
(* crates/container beside the Docker daemon: the pulls of ImagePull, the   *)
(* list of images, which reads the daemon and the map of pulls one after    *)
(* the other, and the creation of a container, which makes directories for  *)
(* its binds, creates it and starts it, each with a call of its own and     *)
(* nothing undone when a later one fails.  What the daemon itself does is   *)
(* external.                                                               *)
(***************************************************************************)
EXTENDS ImagePull, Sequences, SequencesExt

CONSTANTS
  Creator,     \* requests to create a container
  Template,    \* what they may ask for
  SafeName,    \* names of at most 128 letters, digits, "_", "-" and "."
  NoName,      \* no name is asked for: the daemon makes one up
  StoragePath  \* the names of the path, from the root, that all files are kept below

\* A user's name may be any text, and is joined to a path as one: the names it is
\* made of (a path drops its "."), and whether it starts at the root.  A volume: the
\* names of its host part, whether that is a path, and whether its options are known.
ASSUME TemplateAssumption ==
  /\ StoragePath \in Seq(STRING)
  /\ \A t \in Template :
       /\ t.user = NoName \/ t.user \in [absolute : BOOLEAN, names : Seq(STRING)]
       /\ t.volumes \in Seq([host : Seq(STRING), isPath : BOOLEAN, allowed : BOOLEAN])

VARIABLES
  images,      \* External: the images the daemon has
  containers,  \* External: its containers, by the request that made them
  create,      \* the requests to create one
  listing,     \* the request that lists the images, and what happened meanwhile
  failed       \* history: pulls whose stream has ended in an error

daemon == <<images, containers>>
cvars == <<vars, daemon, create, listing, failed>>

-----------------------------------------------------------------------------
(* Paths of binds *)

\* Mutant: only the names that mean nothing are dropped.
NormalizeDots(parts) == SelectSeq(parts, LAMBDA n : n # ".")

\* normalize_path: no name of a path goes up.
Normalize(parts) ==
  LET kept[k \in 0 .. Len(parts)] ==
        IF k = 0 THEN <<>>
        ELSE IF parts[k] \in {".", ".."} THEN kept[k - 1] ELSE Append(kept[k - 1], parts[k])
  IN  kept[Len(parts)]

\* Without a user the files are those of admin; a name that starts at the root
\* replaces what it is joined to.
Apps == StoragePath \o <<"vol1", "AppData">>
Users == StoragePath \o <<"vol1", "User">>
Home(user) ==
  IF user = NoName THEN Users \o <<"admin">>
  ELSE IF user.absolute THEN user.names ELSE Users \o user.names

\* resolve_physical_path, which refuses a path that does not start as the storage
\* path does, name by name, whatever those after it lead to.
PhysicalPath(user, parts) ==
  LET clean == Normalize(parts)
  IN  IF clean # <<>> /\ Head(clean) = "AppData"
      THEN Apps \o Tail(clean)
      ELSE Home(user) \o clean
Escapes(path) == ~IsPrefix(StoragePath, path)

\* What the file system makes of a path with names that go up.
UpOrDown(path, n) ==
  IF n = "." THEN path
  ELSE IF n # ".." THEN Append(path, n)
  ELSE IF path = <<>> THEN path ELSE Front(path)
Reached(path) ==
  LET at[k \in 0 .. Len(path)] == IF k = 0 THEN <<>> ELSE UpOrDown(at[k - 1], path[k])
  IN  at[Len(path)]

-----------------------------------------------------------------------------

\* A request to create: what it asks for, and the host paths it binds.
Asked(t) == [pc |-> "new", asked |-> t, binds |-> {}]

CInit ==
  /\ Init
  /\ images \in SUBSET Image
  /\ containers = [c \in {} |-> <<>>]
  /\ create \in [Creator -> {Asked(t) : t \in Template}]
  /\ listing = [pc |-> "idle", found |-> {}, held |-> {}]
  /\ failed = {}

\* The listing's history: the images that were there or being pulled all along,
\* and whose entry nobody has taken away.
Present(i) == i \in images \/ pulling[i] # "none"
Watch ==
  listing' = IF listing.pc = "idle" THEN listing
             ELSE [listing EXCEPT
                     !.held = {i \in @ : Present(i)' /\ (pulling[i] # "none" => pulling'[i] # "none")}]

-----------------------------------------------------------------------------
(* Pulls, as in ImagePull; the image is there when the stream ends. *)

PullStep(p) ==
  /\ \/ (PullImage(p) \/ Insert(p) \/ Progress(p) \/ RemoveEntry(p)) /\ UNCHANGED <<images, failed>>
     \/ Fail(p) /\ failed' = failed \cup {p} /\ UNCHANGED images
     \/ Finish(p) /\ images' = images \cup {pull[p].image} /\ UNCHANGED failed
  /\ Watch
  /\ UNCHANGED <<containers, create>>

-----------------------------------------------------------------------------
(* list_images *)

ListDaemon ==
  /\ listing.pc = "idle"
  /\ listing' = [pc |-> "pulls", found |-> images, held |-> {i \in Image : Present(i)}]
  /\ UNCHANGED <<vars, daemon, create, failed>>

\* Mutant: a pull that has failed is not listed.
ListRunning ==
  /\ listing.pc = "pulls"
  /\ listing' = [listing EXCEPT !.pc = "idle", !.found = @ \cup {i \in Image : pulling[i] = "pulling"}]
  /\ UNCHANGED <<vars, daemon, create, failed>>

ListPulling ==
  /\ listing.pc = "pulls"
  /\ listing' = [listing EXCEPT !.pc = "idle", !.found = @ \cup {i \in Image : pulling[i] # "none"}]
  /\ UNCHANGED <<vars, daemon, create, failed>>

-----------------------------------------------------------------------------
(* create_container *)

Goes(c, pc) == create' = [create EXCEPT ![c].pc = pc]
Idle == UNCHANGED <<vars, images, listing, failed>>

\* validate_create_req; exceeds are the ports, limits and variables out of range.
Valid(t) ==
  /\ t.name = NoName \/ t.name \in SafeName
  /\ t.image # NoImage
  /\ t.exceeds = {}

HostPath(t, k) == PhysicalPath(t.user, t.volumes[k].host)
Forbidden(t) == {k \in 1 .. Len(t.volumes) : t.volumes[k].isPath /\ Escapes(HostPath(t, k))}
Misspelt(t) == {k \in 1 .. Len(t.volumes) : ~t.volumes[k].allowed}

\* The volumes up to the first that is refused, and the paths of these that are not.
Taken(t) == {k \in 1 .. Len(t.volumes) : \A j \in Forbidden(t) \cup Misspelt(t) : k <= j}
HostPaths(t) == {HostPath(t, k) : k \in {j \in Taken(t) \ Forbidden(t) : t.volumes[j].isPath}}

\* Volume by volume, a host path is resolved and its directory made, and only then
\* are the options looked at.  A directory that cannot be made is bound all the same.
Prepare(c) ==
  LET t == create[c].asked IN
  /\ create[c].pc = "new"
  /\ create' = [create EXCEPT
       ![c].pc = IF Valid(t) /\ Forbidden(t) \cup Misspelt(t) = {} THEN "prepared" ELSE "refused",
       ![c].binds = IF Valid(t) THEN HostPaths(t) ELSE {}]
  /\ Idle /\ UNCHANGED containers

\* External: the daemon needs the image, and a name no other container has.
NameTaken(n) == n # NoName /\ \E d \in DOMAIN containers : containers[d].name = n
Add(c, t) ==
  containers' = [d \in DOMAIN containers \cup {c} |->
                   IF d = c THEN [name |-> t.name, image |-> t.image, state |-> "created"]
                   ELSE containers[d]]

\* A policy to start it again comes with autoStart only, but it is started now
\* unless the request says not to.
Starts(t) == t.autoStart # "no"

Make(c) ==
  LET t == create[c].asked IN
  /\ create[c].pc = "prepared"
  /\ \/ /\ t.image \in images /\ ~NameTaken(t.name)
        /\ Add(c, t)
        /\ Goes(c, IF Starts(t) THEN "start" ELSE "ok")
     \/ Goes(c, "failed") /\ UNCHANGED containers
  /\ Idle

\* Mutant: the result of the start is dropped.
StartDropped(c) ==
  /\ create[c].pc = "start"
  /\ \/ /\ c \in DOMAIN containers
        /\ containers' = [containers EXCEPT ![c].state = "running"]
     \/ UNCHANGED containers
  /\ Goes(c, "ok")
  /\ Idle

\* The container that cannot be started, or is gone, is an error: nothing is undone.
Start(c) ==
  /\ create[c].pc = "start"
  /\ \/ /\ c \in DOMAIN containers
        /\ containers' = [containers EXCEPT ![c].state = "running"]
        /\ Goes(c, "ok")
     \/ Goes(c, "failed") /\ UNCHANGED containers
  /\ Idle

Creation(c) == Prepare(c) \/ Make(c) \/ Start(c)

-----------------------------------------------------------------------------
(* Calls that are passed on: start (and restart), stop, remove, remove_image *)

StartContainer(c) ==
  /\ containers' = [containers EXCEPT ![c].state = "running"]
  /\ Idle /\ UNCHANGED create

StopContainer(c) ==
  /\ containers[c].state = "running"
  /\ containers' = [containers EXCEPT ![c].state = "exited"]
  /\ Idle /\ UNCHANGED create

\* Without force, only what does not run can be removed.
RemoveContainer(c) ==
  /\ containers[c].state # "running"
  /\ containers' = [d \in DOMAIN containers \ {c} |-> containers[d]]
  /\ Idle /\ UNCHANGED create

\* Nor an image that a container is made of.
RemoveImage(i) ==
  /\ i \in images /\ \A c \in DOMAIN containers : containers[c].image # i
  /\ images' = images \ {i}
  /\ UNCHANGED <<vars, containers, create, failed>>
  /\ Watch

Manage(c) == StartContainer(c) \/ StopContainer(c) \/ RemoveContainer(c)

-----------------------------------------------------------------------------

CNext ==
  \/ \E p \in Pull : PullStep(p)
  \/ ListDaemon \/ ListPulling
  \/ \E c \in Creator : Creation(c)
  \/ \E c \in DOMAIN containers : Manage(c)
  \/ \E i \in Image : RemoveImage(i)

\* As in ImagePull, pulls that have begun go on.
CSpec ==
  /\ CInit /\ [][CNext]_cvars
  /\ \A p \in Pull : WF_vars(Insert(p) \/ Stream(p) \/ RemoveEntry(p))

-----------------------------------------------------------------------------
(* Properties *)

\* However often the path of a volume goes up, the directory of its bind is below
\* the one of the applications or below the one the user's name gives.  A name of a
\* user that goes up is followed; with any other, one that starts at the root too,
\* the directory is below the storage path.
BindsStayInside ==
  \A c \in Creator : \A path \in create[c].binds :
    LET user == create[c].asked.user
        at == Reached(path)
    IN  /\ IsPrefix(Reached(Apps), at) \/ IsPrefix(Reached(Home(user)), at)
        /\ (user = NoName \/ \A k \in 1 .. Len(user.names) : user.names[k] # "..") =>
             IsPrefix(Reached(StoragePath), at)

\* Two calls make a container that runs and the second may fail.  One that was to
\* be started and never was belongs to a request that has not answered Ok: a
\* client that was told Ok does not find its container unstarted, whatever other
\* clients have done to it and to the image meanwhile.
UnstartedIsReported ==
  \A c \in DOMAIN containers :
    (containers[c].state = "created" /\ create[c].asked.autoStart # "no") =>
      create[c].pc \in {"start", "failed"}

\* The list is made of two reads, and a pull may end between them.  That is all
\* that can be missed: an image that was there, being pulled or in error all the
\* while is in the list, unless its entry was taken away meanwhile.
NothingElseIsMissed == listing.pc = "idle" => listing.held \subseteq listing.found

\* A pull that fails notes its error in an entry that other pulls of the image may
\* have taken away or begun anew.  With no other of that image it is never lost.
LoneFailureIsListed ==
  \A p \in failed :
    (\A q \in Pull \ {p} : pull[q].image = pull[p].image => pull[q].pc = "insert") =>
      Listed(pull[p].image) = "error"
=============================================================================
