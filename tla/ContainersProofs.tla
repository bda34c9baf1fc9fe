--------------------------- MODULE ContainersProofs ----------------------------
(***************************************************************************)
(* The safety properties of ImagePull, for any images, pulls and bound.    *)
(* That every image listed as being pulled has a pull that runs is, with   *)
(* the types, already inductive: each step that ends a pull has taken the  *)
(* entry away or noted the error in it.                                    *)
(*                                                                         *)
(* What holds of pulls alone holds beside listings and creations, since    *)
(* every step of Containers is one of ImagePull or leaves it alone; and    *)
(* of Containers itself, four properties, each with what makes it          *)
(* inductive.                                                              *)
(***************************************************************************)
EXTENDS Containers, SequenceTheorems, WellFoundedInduction, TLAPS

-----------------------------------------------------------------------------
(* ImagePull *)

Inv == TypeOK /\ PullingMeansRunning

LEMMA InitInv == Init => Inv
BY ImagePullAssumption DEF Init, Inv, TypeOK, PullingMeansRunning, Listed, Running,
  Status, PC, NoImage

LEMMA NextType == TypeOK /\ [Next]_vars => TypeOK'
<1> SUFFICES ASSUME TypeOK, [Next]_vars PROVE TypeOK'
  OBVIOUS
<1> USE ImagePullAssumption DEF TypeOK, Is, Go, SetEntry, Entry, Status, PC
<1>1. ASSUME NEW p \in Pull, PullImage(p) PROVE TypeOK'
  BY <1>1 DEF PullImage
<1>2. ASSUME NEW p \in Pull, Insert(p) PROVE TypeOK'
  BY <1>2 DEF Insert
<1>3. ASSUME NEW p \in Pull, Progress(p) PROVE TypeOK'
  <2>1. reported[p] + 1 \in 0 .. MaxReports
    BY <1>3 DEF Progress
  <2> QED
    BY <2>1, <1>3 DEF Progress
<1>4. ASSUME NEW p \in Pull, Fail(p) PROVE TypeOK'
  BY <1>4 DEF Fail
<1>5. ASSUME NEW p \in Pull, Finish(p) PROVE TypeOK'
  BY <1>5 DEF Finish
<1>6. ASSUME NEW p \in Pull, RemoveEntry(p) PROVE TypeOK'
  BY <1>6 DEF RemoveEntry
<1>7. CASE UNCHANGED vars
  BY <1>7 DEF vars
<1> QED
  BY <1>1, <1>2, <1>3, <1>4, <1>5, <1>6, <1>7 DEF Next, Stream

LEMMA NextRunning == TypeOK /\ PullingMeansRunning /\ [Next]_vars => PullingMeansRunning'
<1> SUFFICES ASSUME TypeOK, PullingMeansRunning, [Next]_vars,
                    NEW i \in Image, Listed(i)' = "pulling"
             PROVE  \E q \in Pull : pull'[q].image = i /\ pull'[q].pc \in {"stream", "remove"}
  BY DEF PullingMeansRunning, Running
<1> USE DEF TypeOK, Is, Go, SetEntry, Entry, Listed
<1>0. ASSUME pulling[i] = "pulling"
      PROVE  \E q \in Pull : pull[q].image = i /\ pull[q].pc \in {"stream", "remove"}
  BY <1>0 DEF PullingMeansRunning, Running
<1>1. ASSUME NEW p \in Pull, PullImage(p)
      PROVE  \E q \in Pull : pull'[q].image = i /\ pull'[q].pc \in {"stream", "remove"}
  BY <1>0, <1>1 DEF PullImage
<1>2. ASSUME NEW p \in Pull, Insert(p)
      PROVE  \E q \in Pull : pull'[q].image = i /\ pull'[q].pc \in {"stream", "remove"}
  <2>1. CASE pull[p].image = i
    BY <1>2, <2>1 DEF Insert
  <2>2. CASE pull[p].image # i
    BY <1>0, <1>2, <2>2 DEF Insert
  <2> QED
    BY <2>1, <2>2
<1>3. ASSUME NEW p \in Pull, Progress(p)
      PROVE  \E q \in Pull : pull'[q].image = i /\ pull'[q].pc \in {"stream", "remove"}
  BY <1>0, <1>3 DEF Progress
<1>4. ASSUME NEW p \in Pull, Fail(p)
      PROVE  \E q \in Pull : pull'[q].image = i /\ pull'[q].pc \in {"stream", "remove"}
  <2>1. pull[p].image # i
    BY <1>4 DEF Fail
  <2> QED
    BY <1>0, <1>4, <2>1 DEF Fail
<1>5. ASSUME NEW p \in Pull, Finish(p)
      PROVE  \E q \in Pull : pull'[q].image = i /\ pull'[q].pc \in {"stream", "remove"}
  <2>1. CASE pull[p].image = i
    BY <1>5, <2>1 DEF Finish
  <2>2. CASE pull[p].image # i
    BY <1>0, <1>5, <2>2 DEF Finish
  <2> QED
    BY <2>1, <2>2
<1>6. ASSUME NEW p \in Pull, RemoveEntry(p)
      PROVE  \E q \in Pull : pull'[q].image = i /\ pull'[q].pc \in {"stream", "remove"}
  <2>1. pull[p].image # i
    BY <1>6 DEF RemoveEntry
  <2> QED
    BY <1>0, <1>6, <2>1 DEF RemoveEntry
<1>7. ASSUME UNCHANGED vars
      PROVE  \E q \in Pull : pull'[q].image = i /\ pull'[q].pc \in {"stream", "remove"}
  BY <1>0, <1>7 DEF vars
<1> QED
  BY <1>1, <1>2, <1>3, <1>4, <1>5, <1>6, <1>7 DEF Next, Stream

LEMMA InvAlways == Spec => []Inv
<1>1. Inv /\ [Next]_vars => Inv'
  BY NextType, NextRunning DEF Inv
<1> QED
  BY InitInv, <1>1, PTL DEF Spec

\* The map and the tasks keep their types.
THEOREM PullTypes == Spec => []TypeOK
<1>1. Inv => TypeOK
  BY DEF Inv
<1> QED
  BY InvAlways, <1>1, PTL

\* Whatever pulls of one image overlap, none leaves it listed as being pulled.
THEOREM PullsListed == Spec => []PullingMeansRunning
<1>1. Inv => PullingMeansRunning
  BY DEF Inv
<1> QED
  BY InvAlways, <1>1, PTL

\* A step that takes an error off the list is one of a pull of that image.
ErrorStep ==
  \A i \in Image : Listed(i) = "error" /\ Listed(i)' # "error" =>
    \E p \in Pull : pull[p].image = i /\ pull[p].pc \in {"insert", "remove"}
                    /\ pull'[p].pc # pull[p].pc

LEMMA NextError == TypeOK /\ [Next]_vars => [ErrorStep]_vars
<1> SUFFICES ASSUME TypeOK, Next, NEW i \in Image, pulling[i] = "error", pulling'[i] # "error"
             PROVE  \E p \in Pull : pull[p].image = i /\ pull[p].pc \in {"insert", "remove"}
                                    /\ pull'[p].pc # pull[p].pc
  BY DEF Listed, ErrorStep
<1> USE DEF TypeOK, Is, Go, SetEntry, Entry
<1>1. ASSUME NEW p \in Pull, PullImage(p) \/ Progress(p) \/ Finish(p) PROVE FALSE
  BY <1>1 DEF PullImage, Progress, Finish
<1>2. ASSUME NEW p \in Pull, Fail(p) PROVE FALSE
  BY <1>2 DEF Fail
<1>3. ASSUME NEW p \in Pull, Insert(p) \/ RemoveEntry(p)
      PROVE  pull[p].image = i /\ pull[p].pc \in {"insert", "remove"} /\ pull'[p].pc # pull[p].pc
  BY <1>3 DEF Insert, RemoveEntry
<1> QED
  BY <1>1, <1>2, <1>3 DEF Next, Stream

\* Only a pull that begins, or one that has succeeded, takes an error off the list.
THEOREM ErrorsStay == Spec => ErrorStays
BY PullTypes, NextError, PTL DEF Spec, ErrorStays, ErrorStep

-----------------------------------------------------------------------------
(* Containers implements ImagePull *)

LEMMA StepIsPull == [CNext]_cvars => [Next]_vars
<1> SUFFICES ASSUME [CNext]_cvars PROVE [Next]_vars
  OBVIOUS
<1>1. ASSUME NEW p \in Pull, PullStep(p) PROVE Next
  BY <1>1 DEF PullStep, Next, Stream
<1>2. ASSUME ListDaemon \/ ListPulling PROVE UNCHANGED vars
  BY <1>2 DEF ListDaemon, ListPulling
<1>3. ASSUME NEW c \in Creator, Creation(c) PROVE UNCHANGED vars
  BY <1>3 DEF Creation, Prepare, Make, Start, Idle
<1>4. ASSUME NEW c \in DOMAIN containers, Manage(c) PROVE UNCHANGED vars
  BY <1>4 DEF Manage, StartContainer, StopContainer, RemoveContainer, Idle
<1>5. ASSUME NEW i \in Image, RemoveImage(i) PROVE UNCHANGED vars
  BY <1>5 DEF RemoveImage
<1>6. CASE UNCHANGED cvars
  BY <1>6 DEF cvars
<1> QED
  BY <1>1, <1>2, <1>3, <1>4, <1>5, <1>6 DEF CNext

\* Pulls run as in ImagePull, fairness included, whatever else is asked for.
THEOREM ImplementsPulls == CSpec => Spec
<1>1. CInit => Init
  BY DEF CInit
<1> QED
  BY <1>1, StepIsPull, PTL DEF CSpec, Spec

LEMMA PullInv == CSpec => []Inv
BY ImplementsPulls, InvAlways, PTL

\* The map and the tasks keep their types beside listings and creations.
THEOREM TypesBeside == CSpec => []TypeOK
BY ImplementsPulls, PullTypes, PTL

\* Nothing of this lets an image be listed as being pulled that no pull runs for.
THEOREM ListedBeside == CSpec => []PullingMeansRunning
BY ImplementsPulls, PullsListed, PTL

\* Nor does anything else take an error off the list.
THEOREM ErrorsStayBeside == CSpec => ErrorStays
BY ImplementsPulls, ErrorsStay, PTL

-----------------------------------------------------------------------------
(* Containers that were never started *)

CreatePC == {"new", "refused", "prepared", "start", "ok", "failed"}
AllHostPaths == UNION {HostPaths(t) : t \in Template}

\* The types of the requests to create, and of the containers they make.
CreateOK ==
  /\ create \in [Creator -> [pc : CreatePC, asked : Template, binds : SUBSET AllHostPaths]]
  /\ DOMAIN containers \subseteq Creator
  /\ \A c \in DOMAIN containers : "state" \in DOMAIN containers[c]

StartInv == CreateOK /\ UnstartedIsReported

LEMMA InitStart == CInit => StartInv
BY DEF CInit, StartInv, CreateOK, CreatePC, UnstartedIsReported, Asked

\* A container that is passed on to the daemon may change its state, to none that
\* is "created"; no other is touched.
LEMMA ManageStart ==
  ASSUME StartInv, NEW c \in DOMAIN containers, Manage(c)
  PROVE  StartInv'
<1> USE DEF StartInv, CreateOK, UnstartedIsReported, Idle
<1>1. ASSUME StartContainer(c) PROVE StartInv'
  BY <1>1 DEF StartContainer
<1>2. ASSUME StopContainer(c) PROVE StartInv'
  BY <1>2 DEF StopContainer
<1>3. ASSUME RemoveContainer(c) PROVE StartInv'
  BY <1>3 DEF RemoveContainer
<1> QED
  BY <1>1, <1>2, <1>3 DEF Manage

LEMMA CreationStart ==
  ASSUME StartInv, NEW c \in Creator, Creation(c)
  PROVE  StartInv'
<1> USE DEF StartInv, CreateOK, CreatePC, UnstartedIsReported, Idle, Goes
<1>1. ASSUME Prepare(c) PROVE StartInv'
  <2>1. create[c].asked \in Template /\ HostPaths(create[c].asked) \subseteq AllHostPaths
    BY DEF AllHostPaths
  <2>2. PICK pc \in CreatePC, binds \in SUBSET AllHostPaths :
          create' = [create EXCEPT ![c].pc = pc, ![c].binds = binds]
    <3> DEFINE t == create[c].asked
               pc == IF Valid(t) /\ Forbidden(t) \cup Misspelt(t) = {} THEN "prepared" ELSE "refused"
               binds == IF Valid(t) THEN HostPaths(t) ELSE {}
    <3>1. pc \in CreatePC
      OBVIOUS
    <3>2. binds \in SUBSET AllHostPaths
      BY <2>1
    <3>3. create' = [create EXCEPT ![c].pc = pc, ![c].binds = binds]
      BY <1>1 DEF Prepare
    <3> HIDE DEF pc, binds
    <3> QED
      BY <3>1, <3>2, <3>3
  <2>3. CreateOK'
    <3>1. create' \in [Creator -> [pc : CreatePC, asked : Template, binds : SUBSET AllHostPaths]]
      <4> DEFINE new == [create[c] EXCEPT !.pc = pc, !.binds = binds]
      <4>1. create' = [create EXCEPT ![c] = new]
        BY <2>2, Zenon
      <4>2. create \in [Creator -> [pc : CreatePC, asked : Template, binds : SUBSET AllHostPaths]]
        OBVIOUS
      <4> HIDE DEF StartInv, CreateOK, UnstartedIsReported, CreatePC
      <4>3. new \in [pc : CreatePC, asked : Template, binds : SUBSET AllHostPaths]
        BY <4>2
      <4> HIDE DEF new
      <4> QED
        BY <4>1, <4>2, <4>3
    <3> QED
      BY <1>1, <3>1 DEF Prepare
  <2>4. \A d \in Creator : create'[d].asked = create[d].asked /\ (d # c => create'[d].pc = create[d].pc)
    BY <2>2
  <2>5. create[c].pc = "new" /\ containers' = containers
    BY <1>1 DEF Prepare
  <2> QED
    BY <2>3, <2>4, <2>5
<1>2. ASSUME Make(c) PROVE StartInv'
  BY <1>2 DEF Make, Add, Starts
<1>3. ASSUME Start(c) PROVE StartInv'
  <2>1. CASE Goes(c, "failed") /\ UNCHANGED containers
    BY <1>3, <2>1 DEF Start
  <2>2. CASE /\ c \in DOMAIN containers
             /\ containers' = [containers EXCEPT ![c].state = "running"]
             /\ Goes(c, "ok")
    <3>1. CreateOK'
      BY <2>2
    <3>2. containers'[c].state = "running" /\ DOMAIN containers' = DOMAIN containers
      BY <2>2
    <3>3. \A d \in DOMAIN containers : d # c => containers'[d] = containers[d]
      BY <2>2
    <3>4. \A d \in Creator : create'[d].asked = create[d].asked /\ (d # c => create'[d].pc = create[d].pc)
      BY <2>2
    <3> QED
      BY <3>1, <3>2, <3>3, <3>4
  <2> QED
    BY <1>3, <2>1, <2>2 DEF Start
<1> QED
  BY <1>1, <1>2, <1>3 DEF Creation

LEMMA NextStart == StartInv /\ [CNext]_cvars => StartInv'
<1> SUFFICES ASSUME StartInv, [CNext]_cvars PROVE StartInv'
  OBVIOUS
<1>1. ASSUME UNCHANGED <<containers, create>> PROVE StartInv'
  BY <1>1 DEF StartInv, CreateOK, UnstartedIsReported
<1>2. ASSUME NEW p \in Pull, PullStep(p) PROVE UNCHANGED <<containers, create>>
  BY <1>2 DEF PullStep
<1>3. ASSUME ListDaemon \/ ListPulling PROVE UNCHANGED <<containers, create>>
  BY <1>3 DEF ListDaemon, ListPulling, daemon
<1>4. ASSUME NEW i \in Image, RemoveImage(i) PROVE UNCHANGED <<containers, create>>
  BY <1>4 DEF RemoveImage
<1>5. CASE UNCHANGED cvars
  BY <1>1, <1>5 DEF cvars, daemon
<1> QED
  BY <1>1, <1>2, <1>3, <1>4, <1>5, ManageStart, CreationStart DEF CNext

\* For any requests and any mix of others that start, stop and remove: a container
\* that was to be started and never was belongs to a request that was not told Ok.
THEOREM StartedOrReported == CSpec => []UnstartedIsReported
<1>1. StartInv => UnstartedIsReported
  BY DEF StartInv
<1> QED
  BY InitStart, NextStart, <1>1, PTL DEF CSpec

-----------------------------------------------------------------------------
(* What a listing may miss *)

ListingOK ==
  /\ images \subseteq Image
  /\ listing \in [pc : {"idle", "pulls"}, found : SUBSET Image, held : SUBSET Image]

\* An image that was there all along is found by now, or still has an entry for the
\* second half of the listing to find.
StillFound ==
  \A i \in listing.held : i \in listing.found \/ (listing.pc = "pulls" /\ pulling[i] # "none")

ListInv == ListingOK /\ StillFound

LEMMA InitList == CInit => ListInv
BY DEF CInit, ListInv, ListingOK, StillFound

\* What others do between the two halves takes off the history what they take away.
LEMMA WatchList ==
  ASSUME ListInv, Watch, images' \subseteq Image
  PROVE  ListInv'
BY DEF ListInv, ListingOK, StillFound, Watch, Present

LEMMA NextList == TypeOK /\ ListInv /\ [CNext]_cvars => ListInv'
<1> SUFFICES ASSUME TypeOK, ListInv, [CNext]_cvars PROVE ListInv'
  OBVIOUS
<1>1. ASSUME NEW p \in Pull, PullStep(p) PROVE ListInv'
  <2>1. ASSUME Finish(p) PROVE pull[p].image \in Image
    BY <2>1 DEF Finish, Is, TypeOK
  <2> QED
    BY <1>1, <2>1, WatchList DEF PullStep, ListInv, ListingOK
<1>2. ASSUME NEW i \in Image, RemoveImage(i) PROVE ListInv'
  BY <1>2, WatchList DEF RemoveImage, ListInv, ListingOK
<1>3. CASE ListDaemon
  BY <1>3 DEF ListDaemon, ListInv, ListingOK, StillFound, Present, daemon, vars
<1>4. CASE ListPulling
  BY <1>4 DEF ListPulling, ListInv, ListingOK, StillFound, daemon, vars
<1>5. ASSUME UNCHANGED <<vars, images, listing>> PROVE ListInv'
  BY <1>5 DEF ListInv, ListingOK, StillFound, vars
<1>6. ASSUME NEW c \in Creator, Creation(c) PROVE UNCHANGED <<vars, images, listing>>
  BY <1>6 DEF Creation, Prepare, Make, Start, Idle
<1>7. ASSUME NEW c \in DOMAIN containers, Manage(c) PROVE UNCHANGED <<vars, images, listing>>
  BY <1>7 DEF Manage, StartContainer, StopContainer, RemoveContainer, Idle
<1>8. CASE UNCHANGED cvars
  BY <1>5, <1>8 DEF cvars, daemon
<1> QED
  BY <1>1, <1>2, <1>3, <1>4, <1>5, <1>6, <1>7, <1>8 DEF CNext

\* Between the two reads of a listing a pull may end, or its entry be taken away;
\* nothing else that was there all along is missed.
THEOREM ListingComplete == CSpec => []NothingElseIsMissed
<1>1. ListInv => NothingElseIsMissed
  BY DEF ListInv, StillFound, NothingElseIsMissed
<1> QED
  BY TypesBeside, InitList, NextList, <1>1, PTL DEF CSpec

-----------------------------------------------------------------------------
(* The error of a pull that has its image to itself *)

Lone(p) == \A q \in Pull \ {p} : pull[q].image = pull[p].image => pull[q].pc = "insert"

\* A pull that has its image to itself finds its own entry when it ends.
FailInv ==
  /\ failed \subseteq Pull /\ \A p \in failed : pull[p].pc = "done"
  /\ \A p \in Pull : pull[p].pc = "stream" /\ Lone(p) => Entry(p) = "pulling"
  /\ \A p \in failed : Lone(p) => Entry(p) = "error"

LEMMA InitFail == CInit => FailInv
BY DEF CInit, Init, FailInv

\* Another pull that takes a step, and leaves p to itself, is of another image.
LEMMA OthersApart ==
  ASSUME TypeOK, NEW p \in Pull, NEW q \in Pull \ {p}, pull[p].pc \in {"stream", "done"},
         PullImage(q) \/ Insert(q) \/ Progress(q) \/ RemoveEntry(q) \/ Fail(q) \/ Finish(q),
         Lone(p)'
  PROVE  pull'[p] = pull[p] /\ Lone(p) /\ Entry(p)' = Entry(p)
<1> USE DEF TypeOK, PC, Is, Go, SetEntry, Entry, Lone
<1>1. CASE PullImage(q)
  BY <1>1 DEF PullImage
<1>2. CASE Insert(q)
  BY <1>2 DEF Insert
<1>3. CASE Progress(q)
  BY <1>3 DEF Progress
<1>4. CASE RemoveEntry(q)
  BY <1>4 DEF RemoveEntry
<1>5. CASE Fail(q)
  BY <1>5 DEF Fail
<1>6. CASE Finish(q)
  BY <1>6 DEF Finish
<1> QED
  BY <1>1, <1>2, <1>3, <1>4, <1>5, <1>6

LEMMA PullFail ==
  ASSUME TypeOK, FailInv, NEW q \in Pull, PullStep(q)
  PROVE  FailInv'
<1> DEFINE Steps == PullImage(q) \/ Insert(q) \/ Progress(q) \/ RemoveEntry(q) \/ Fail(q) \/ Finish(q)
<1>1. Steps
  BY DEF PullStep
<1>2. failed' \subseteq failed \cup {q} /\ (q \in failed' \ failed => Fail(q))
  BY DEF PullStep
<1>3. \A p \in Pull \ {q} : pull'[p] = pull[p]
  BY <1>1 DEF TypeOK, PullImage, Insert, Progress, RemoveEntry, Fail, Finish, Go
<1>4. q \notin failed
  BY <1>1 DEF FailInv, PullImage, Insert, Progress, RemoveEntry, Fail, Finish, Is
<1>5. failed' \subseteq Pull /\ \A p \in failed' : pull'[p].pc = "done"
  <2>1. ASSUME Fail(q) PROVE pull'[q].pc = "done"
    BY <2>1 DEF Fail, Go, TypeOK
  <2> QED
    BY <1>2, <1>3, <1>4, <2>1 DEF FailInv
<1>6. ASSUME NEW p \in Pull, p # q, pull'[p].pc = "stream" \/ p \in failed', Lone(p)'
      PROVE  pull'[p] = pull[p] /\ Lone(p) /\ Entry(p)' = Entry(p)
  <2>1. pull[p].pc \in {"stream", "done"}
    BY <1>2, <1>3, <1>6 DEF FailInv
  <2> QED
    BY <1>1, <1>6, <2>1, OthersApart
<1>7. ASSUME pull'[q].pc = "stream", Lone(q)' PROVE Entry(q)' = "pulling"
  <2> USE DEF TypeOK, PC, Is, Go, SetEntry, Entry
  <2>1. CASE Insert(q)
    BY <2>1 DEF Insert
  <2>2. CASE Progress(q)
    <3>1. Lone(q)
      BY <1>7, <2>2 DEF Progress, Lone
    <3> QED
      BY <2>2, <3>1 DEF Progress, FailInv
  <2>3. CASE PullImage(q) \/ RemoveEntry(q) \/ Fail(q) \/ Finish(q)
    BY <1>7, <2>3 DEF PullImage, RemoveEntry, Fail, Finish
  <2> QED
    BY <1>1, <2>1, <2>2, <2>3
<1>8. ASSUME Fail(q), Lone(q)' PROVE Entry(q)' = "error"
  <2> USE DEF TypeOK, PC, Is, Go, SetEntry, Entry
  <2>1. Lone(q)
    BY <1>8 DEF Fail, Lone
  <2>2. Entry(q) = "pulling"
    BY <1>8, <2>1 DEF Fail, FailInv
  <2> QED
    BY <1>8, <2>2 DEF Fail
<1> QED
  BY <1>2, <1>3, <1>4, <1>5, <1>6, <1>7, <1>8 DEF FailInv

LEMMA NextFail == TypeOK /\ FailInv /\ [CNext]_cvars => FailInv'
<1> SUFFICES ASSUME TypeOK, FailInv, [CNext]_cvars PROVE FailInv'
  OBVIOUS
<1>1. ASSUME UNCHANGED <<vars, failed>> PROVE FailInv'
  BY <1>1 DEF FailInv, Lone, Entry, vars
<1>2. ASSUME ListDaemon \/ ListPulling PROVE UNCHANGED <<vars, failed>>
  BY <1>2 DEF ListDaemon, ListPulling
<1>3. ASSUME NEW c \in Creator, Creation(c) PROVE UNCHANGED <<vars, failed>>
  BY <1>3 DEF Creation, Prepare, Make, Start, Idle
<1>4. ASSUME NEW c \in DOMAIN containers, Manage(c) PROVE UNCHANGED <<vars, failed>>
  BY <1>4 DEF Manage, StartContainer, StopContainer, RemoveContainer, Idle
<1>5. ASSUME NEW i \in Image, RemoveImage(i) PROVE UNCHANGED <<vars, failed>>
  BY <1>5 DEF RemoveImage
<1>6. CASE UNCHANGED cvars
  BY <1>1, <1>6 DEF cvars
<1> QED
  BY <1>1, <1>2, <1>3, <1>4, <1>5, <1>6, PullFail DEF CNext

\* However many pulls of other images run, and whatever is removed and created
\* meanwhile, a pull that fails with its image to itself is listed with its error.
THEOREM FailuresListed == CSpec => []LoneFailureIsListed
<1>1. FailInv => LoneFailureIsListed
  BY DEF FailInv, LoneFailureIsListed, Lone, Entry, Listed
<1> QED
  BY TypesBeside, InitFail, NextFail, <1>1, PTL DEF CSpec
-----------------------------------------------------------------------------
(* Binds *)

LEMMA Less == IsWellFoundedOn({p \in Nat \X Nat : p[1] < p[2]}, Nat)
BY NatLessThanWellFounded DEF OpToRel

\* Induction, for a set of numbers.
LEMMA NatSet ==
  ASSUME NEW S, 0 \in S, \A n \in Nat : n \in S => n + 1 \in S
  PROVE  Nat \subseteq S
<1> DEFINE R == {p \in Nat \X Nat : p[1] < p[2]}
<1> DEFINE B == Nat \ S
<1> SUFFICES ASSUME B # {} PROVE FALSE
  OBVIOUS
<1>1. IsWellFoundedOn(R, Nat)
  BY Less
<1>2. B \subseteq Nat
  OBVIOUS
<1> HIDE DEF B, R
<1>3. PICK x \in B : \A y \in B : ~(<<y, x>> \in R)
  BY <1>1, <1>2, WFMin
<1>4. x \in Nat /\ x # 0
  BY <1>2 DEF B
<1>5. x - 1 \in Nat /\ <<x - 1, x>> \in R
  BY <1>4 DEF R
<1>6. x - 1 \in S
  BY <1>3, <1>5 DEF B
<1> QED
  BY <1>4, <1>5, <1>6 DEF B

\* There is a function that takes up the items of a sequence, one after the other.
TakesUp(items, States, first, then) ==
  \E g \in [0 .. Len(items) -> States] :
    g[0] = first /\ \A k \in 1 .. Len(items) : g[k] = then[<<g[k - 1], items[k]>>]

LEMMA Folded ==
  ASSUME NEW Items, NEW items \in Seq(Items), NEW States, NEW first \in States,
         NEW then \in [States \X Items -> States]
  PROVE  TakesUp(items, States, first, then)
<1> DEFINE Through(g, n) == /\ g \in [0 .. n -> States] /\ g[0] = first
                            /\ \A k \in 1 .. n : g[k] = then[<<g[k - 1], items[k]>>]
<1> DEFINE S == {n \in Nat : n <= Len(items) => \E g : Through(g, n)}
<1>1. 0 \in S
  <2>1. Through([k \in 0 .. 0 |-> first], 0)
    OBVIOUS
  <2> QED
    BY <2>1
<1>2. ASSUME NEW n \in Nat, n \in S PROVE n + 1 \in S
  <2> SUFFICES ASSUME n + 1 <= Len(items) PROVE \E g : Through(g, n + 1)
    <3> HIDE DEF Through
    <3> QED
      OBVIOUS
  <2>1. n <= Len(items) /\ n + 1 \in 1 .. Len(items) /\ Len(items) \in Nat
    OBVIOUS
  <2>2. PICK f : Through(f, n)
    BY <1>2, <2>1
  <2> DEFINE last == then[<<f[n], items[n + 1]>>]
  <2> DEFINE g == [k \in 0 .. n + 1 |-> IF k = n + 1 THEN last ELSE f[k]]
  <2>3. f[n] \in States /\ items[n + 1] \in Items
    BY <2>1, <2>2, ElementOfSeq
  <2>4. last \in States
    BY <2>3
  <2> HIDE DEF last
  <2>5. g \in [0 .. n + 1 -> States] /\ g[0] = first
    BY <2>2, <2>4
  <2>6. ASSUME NEW k \in 1 .. n + 1 PROVE g[k] = then[<<g[k - 1], items[k]>>]
    <3>1. CASE k = n + 1
      <4>1. g[k] = last /\ g[k - 1] = f[n]
        BY <3>1
      <4> QED
        BY <3>1, <4>1 DEF last
    <3>2. CASE k # n + 1
      <4>1. k \in 1 .. n /\ k \in 0 .. n + 1 /\ k - 1 \in 0 .. n + 1 /\ k - 1 # n + 1
        BY <3>2
      <4>2. g[k] = f[k] /\ g[k - 1] = f[k - 1]
        BY <3>2, <4>1
      <4>3. f[k] = then[<<f[k - 1], items[k]>>]
        BY <2>2, <4>1
      <4> QED
        BY <4>2, <4>3
    <3> QED
      BY <3>1, <3>2
  <2>7. Through(g, n + 1)
    BY <2>5, <2>6
  <2> QED
    BY <2>7
<1> HIDE DEF S
<1>3. Nat \subseteq S
  BY <1>1, <1>2, NatSet
<1>4. PICK g : Through(g, Len(items))
  <2>1. Len(items) \in Nat
    OBVIOUS
  <2>2. Len(items) \in S
    BY <1>3, <2>1
  <2> HIDE DEF Through
  <2> QED
    BY <2>1, <2>2 DEF S
<1> QED
  BY <1>4 DEF TakesUp

\* The names that are left: no more of them than there were, and none that goes up.
Plain(s) == \A k \in 1 .. Len(s) : s[k] \notin {".", ".."}
Keep(s, name) == IF name \in {".", ".."} THEN s ELSE Append(s, name)

LEMMA KeepPlain ==
  ASSUME NEW V, NEW s \in Seq(V), Plain(s), NEW name \in V
  PROVE  Keep(s, name) \in Seq(V) /\ Plain(Keep(s, name))
<1>1. Len(Append(s, name)) = Len(s) + 1 /\ Append(s, name) \in Seq(V) /\ Len(s) \in Nat
  BY AppendProperties
<1>2. \A k \in 1 .. Len(s) + 1 : Append(s, name)[k] = IF k = Len(s) + 1 THEN name ELSE s[k]
  BY AppendProperties
<1> QED
  BY <1>1, <1>2 DEF Keep, Plain

\* The sequences of names that normalizing passes through.
LEMMA KeptNames ==
  ASSUME NEW V, NEW parts \in Seq(V)
  PROVE  \E g : g = [k \in 0 .. Len(parts) |-> IF k = 0 THEN <<>> ELSE Keep(g[k - 1], parts[k])]
<1> DEFINE T == {s \in Seq(V) : Plain(s)}
<1> DEFINE step == [x \in T \X V |-> Keep(x[1], x[2])]
<1>1. <<>> \in T
  BY EmptySeq DEF Plain
<1>2. ASSUME NEW s \in T, NEW name \in V PROVE Keep(s, name) \in T
  BY KeepPlain
<1> HIDE DEF T
<1>3. step \in [T \X V -> T] /\ \A s \in T, name \in V : step[<<s, name>>] = Keep(s, name)
  BY <1>2
<1> HIDE DEF step
<1>4. PICK g \in [0 .. Len(parts) -> T] :
        g[0] = <<>> /\ \A k \in 1 .. Len(parts) : g[k] = step[<<g[k - 1], parts[k]>>]
  <2>1. TakesUp(parts, T, <<>>, step)
    BY <1>1, <1>3, Folded
  <2> QED
    BY <2>1 DEF TakesUp
<1>5. ASSUME NEW k \in 0 .. Len(parts)
      PROVE  g[k] = IF k = 0 THEN <<>> ELSE Keep(g[k - 1], parts[k])
  <2>1. CASE k = 0
    BY <1>4, <2>1
  <2>2. CASE k # 0
    <3>1. k \in 1 .. Len(parts) /\ k - 1 \in 0 .. Len(parts)
      BY <2>2
    <3>2. g[k - 1] \in T /\ parts[k] \in V
      BY <1>4, <3>1, ElementOfSeq
    <3> QED
      BY <1>3, <1>4, <2>2, <3>1, <3>2
  <2> QED
    BY <2>1, <2>2
<1>6. g = [k \in 0 .. Len(parts) |-> g[k]]
  BY <1>4
<1>7. g = [k \in 0 .. Len(parts) |-> IF k = 0 THEN <<>> ELSE Keep(g[k - 1], parts[k])]
  BY <1>5, <1>6
<1> QED
  BY <1>7

LEMMA Normalized ==
  ASSUME NEW V, NEW parts \in Seq(V)
  PROVE  Normalize(parts) \in Seq(V) /\ Plain(Normalize(parts))
<1> DEFINE kept[k \in 0 .. Len(parts)] ==
             IF k = 0 THEN <<>>
             ELSE IF parts[k] \in {".", ".."} THEN kept[k - 1] ELSE Append(kept[k - 1], parts[k])
<1>1. PICK f : f = [k \in 0 .. Len(parts) |-> IF k = 0 THEN <<>> ELSE Keep(f[k - 1], parts[k])]
  BY KeptNames
<1>2. f = [k \in 0 .. Len(parts) |->
             IF k = 0 THEN <<>>
             ELSE IF parts[k] \in {".", ".."} THEN f[k - 1] ELSE Append(f[k - 1], parts[k])]
  BY <1>1, Zenon DEF Keep
<1>3. kept = [k \in 0 .. Len(parts) |->
             IF k = 0 THEN <<>>
             ELSE IF parts[k] \in {".", ".."} THEN kept[k - 1] ELSE Append(kept[k - 1], parts[k])]
  BY <1>2
<1>4. Normalize(parts) = kept[Len(parts)]
  BY DEF Normalize
<1> HIDE DEF kept
<1> DEFINE S == {n \in Nat : n <= Len(parts) => kept[n] \in Seq(V) /\ Plain(kept[n])}
<1>5. Len(parts) \in Nat
  OBVIOUS
<1>6. 0 \in S
  BY <1>3, <1>5, EmptySeq DEF Plain
<1>7. ASSUME NEW n \in Nat, n \in S PROVE n + 1 \in S
  <2> SUFFICES ASSUME n + 1 <= Len(parts) PROVE kept[n + 1] \in Seq(V) /\ Plain(kept[n + 1])
    OBVIOUS
  <2>1. n + 1 \in 0 .. Len(parts) /\ n + 1 # 0 /\ n + 1 \in 1 .. Len(parts) /\ n <= Len(parts) /\ n + 1 - 1 = n
    BY <1>5
  <2>2. kept[n + 1] = Keep(kept[n], parts[n + 1])
    <3>1. \A k \in 0 .. Len(parts) : k # 0 =>
            kept[k] = IF parts[k] \in {".", ".."} THEN kept[k - 1] ELSE Append(kept[k - 1], parts[k])
      BY <1>3, Zenon
    <3>2. \A k \in 0 .. Len(parts) : k # 0 => kept[k] = Keep(kept[k - 1], parts[k])
      BY <3>1, Zenon DEF Keep
    <3> QED
      BY <3>2, <2>1
  <2>3. kept[n] \in Seq(V) /\ Plain(kept[n]) /\ parts[n + 1] \in V
    BY <1>7, <2>1, ElementOfSeq
  <2> QED
    BY <2>2, <2>3, KeepPlain
<1> HIDE DEF S
<1>8. Nat \subseteq S
  BY <1>6, <1>7, NatSet
<1> QED
  BY <1>4, <1>5, <1>8 DEF S

\* Where the file system is after each name of a path.
LEMMA UpOrDownType ==
  ASSUME NEW V, NEW s \in Seq(V), NEW name \in V
  PROVE  UpOrDown(s, name) \in Seq(V)
<1>1. Append(s, name) \in Seq(V)
  BY AppendProperties
<1>2. s # <<>> => Front(s) \in Seq(V)
  <2>1. Len(s) \in Nat /\ \A k \in 1 .. Len(s) : s[k] \in V
    BY ElementOfSeq
  <2> QED
    BY <2>1 DEF Front
<1> QED
  BY <1>1, <1>2 DEF UpOrDown

Walk(g, path) ==
  /\ g[0] = <<>>
  /\ \A k \in 1 .. Len(path) : g[k] = UpOrDown(g[k - 1], path[k])
  /\ Reached(path) = g[Len(path)]

LEMMA Walks ==
  ASSUME NEW V, NEW path \in Seq(V)
  PROVE  \E g : Walk(g, path) /\ \A k \in 0 .. Len(path) : g[k] \in Seq(V)
<1> DEFINE T == Seq(V)
<1> DEFINE step == [x \in T \X V |-> UpOrDown(x[1], x[2])]
<1> DEFINE at[k \in 0 .. Len(path)] == IF k = 0 THEN <<>> ELSE UpOrDown(at[k - 1], path[k])
<1>0. Len(path) \in Nat /\ \A k \in 1 .. Len(path) : path[k] \in V
  BY ElementOfSeq
<1>1. <<>> \in T
  BY EmptySeq
<1>2. \A s \in T, name \in V : UpOrDown(s, name) \in T
  BY UpOrDownType
<1> HIDE DEF T
<1>3. step \in [T \X V -> T] /\ \A s \in T, name \in V : step[<<s, name>>] = UpOrDown(s, name)
  BY <1>2
<1> HIDE DEF step
<1>4. PICK f \in [0 .. Len(path) -> T] :
        f[0] = <<>> /\ \A k \in 1 .. Len(path) : f[k] = step[<<f[k - 1], path[k]>>]
  <2>1. TakesUp(path, T, <<>>, step)
    BY <1>1, <1>3, Folded
  <2> QED
    BY <2>1 DEF TakesUp
<1>5. ASSUME NEW k \in 0 .. Len(path)
      PROVE  f[k] = IF k = 0 THEN <<>> ELSE UpOrDown(f[k - 1], path[k])
  <2>1. CASE k = 0
    BY <1>4, <2>1
  <2>2. CASE k # 0
    <3>1. k \in 1 .. Len(path) /\ k - 1 \in 0 .. Len(path)
      BY <1>0, <2>2
    <3>2. f[k - 1] \in T /\ path[k] \in V
      BY <1>0, <1>4, <3>1
    <3> QED
      BY <1>3, <1>4, <2>2, <3>1, <3>2
  <2> QED
    BY <2>1, <2>2
<1>6. f = [k \in 0 .. Len(path) |-> f[k]]
  BY <1>4
<1>7. f = [k \in 0 .. Len(path) |-> IF k = 0 THEN <<>> ELSE UpOrDown(f[k - 1], path[k])]
  BY <1>5, <1>6
<1>8. at = [k \in 0 .. Len(path) |-> IF k = 0 THEN <<>> ELSE UpOrDown(at[k - 1], path[k])]
  BY <1>7
<1>9. Reached(path) = at[Len(path)]
  BY DEF Reached
<1> HIDE DEF at
<1>10. at[0] = <<>> /\ \A k \in 1 .. Len(path) : at[k] = UpOrDown(at[k - 1], path[k])
  BY <1>0, <1>8
<1> DEFINE S == {n \in Nat : n <= Len(path) => at[n] \in T}
<1>11. 0 \in S
  BY <1>1, <1>10
<1>12. ASSUME NEW n \in Nat, n \in S PROVE n + 1 \in S
  <2> SUFFICES ASSUME n + 1 <= Len(path) PROVE at[n + 1] \in T
    OBVIOUS
  <2>1. n + 1 \in 1 .. Len(path) /\ n <= Len(path) /\ n + 1 - 1 = n
    BY <1>0
  <2>2. at[n] \in T /\ path[n + 1] \in V
    BY <1>0, <1>12, <2>1
  <2> QED
    BY <1>2, <1>10, <2>1, <2>2
<1> HIDE DEF S
<1>13. Nat \subseteq S
  BY <1>11, <1>12, NatSet
<1>14. \A k \in 0 .. Len(path) : at[k] \in T
  BY <1>0, <1>13 DEF S
<1>15. Walk(at, path)
  BY <1>9, <1>10 DEF Walk
<1> QED
  BY <1>14, <1>15 DEF T

\* A name that does not go up leaves the directories above where they are.
LEMMA Deeper ==
  ASSUME NEW V, NEW a \in Seq(V), NEW s \in Seq(V), IsPrefix(a, s), NEW name \in V, name # ".."
  PROVE  IsPrefix(a, UpOrDown(s, name))
<1> DEFINE t == Append(s, name)
<1>1. /\ t \in Seq(V) /\ Len(t) = Len(s) + 1 /\ Len(s) \in Nat /\ Len(a) \in Nat
      /\ \A k \in 1 .. Len(s) : t[k] = s[k]
  BY AppendProperties
<1> HIDE DEF t
<1>2. Len(a) <= Len(s) /\ SubSeq(a, 1, Len(a)) = SubSeq(s, 1, Len(a))
  BY DEF IsPrefix
<1>3. SubSeq(s, 1, Len(a)) \in Seq(V) /\ SubSeq(t, 1, Len(a)) \in Seq(V)
  BY <1>1, <1>2, ElementOfSeq
<1>4. /\ Len(SubSeq(s, 1, Len(a))) = Len(a) /\ Len(SubSeq(t, 1, Len(a))) = Len(a)
      /\ \A k \in 1 .. Len(a) : SubSeq(s, 1, Len(a))[k] = SubSeq(t, 1, Len(a))[k]
  BY <1>1, <1>2
<1>5. SubSeq(s, 1, Len(a)) = SubSeq(t, 1, Len(a))
  BY <1>3, <1>4, SeqEqual
<1>6. IsPrefix(a, t)
  BY <1>1, <1>2, <1>5 DEF IsPrefix
<1> QED
  BY <1>6 DEF UpOrDown, t

NoUp(s) == \A k \in 1 .. Len(s) : s[k] # ".."

\* What is joined to a path without going up leads below where the path leads to.
LEMMA NeverAbove ==
  ASSUME NEW V, NEW base \in Seq(V), NEW rest \in Seq(V), NoUp(rest)
  PROVE  IsPrefix(Reached(base), Reached(base \o rest))
<1> DEFINE path == base \o rest
<1> DEFINE b == Len(base)
<1>1. /\ b \in Nat /\ Len(rest) \in Nat /\ Len(path) = b + Len(rest) /\ path \in Seq(V)
      /\ \A k \in 1 .. Len(path) : path[k] = IF k <= b THEN base[k] ELSE rest[k - b]
  BY ConcatProperties
<1> HIDE DEF path
<1>2. PICK g : Walk(g, base) /\ \A k \in 0 .. b : g[k] \in Seq(V)
  BY Walks
<1>3. PICK f : Walk(f, path) /\ \A k \in 0 .. Len(path) : f[k] \in Seq(V)
  BY <1>1, Walks
<1> HIDE DEF b
<1>4. g[b] = f[b]
  <2> DEFINE S == {n \in Nat : n <= b => g[n] = f[n]}
  <2>1. 0 \in S
    BY <1>2, <1>3 DEF Walk
  <2>2. ASSUME NEW n \in Nat, n \in S PROVE n + 1 \in S
    <3> SUFFICES ASSUME n + 1 <= b PROVE g[n + 1] = f[n + 1]
      OBVIOUS
    <3>1. /\ n + 1 \in 1 .. b /\ n + 1 \in 1 .. Len(path) /\ n + 1 - 1 = n /\ n <= b
          /\ path[n + 1] = base[n + 1]
      BY <1>1
    <3> QED
      BY <1>2, <1>3, <2>2, <3>1 DEF Walk, b
  <2> HIDE DEF S
  <2>3. Nat \subseteq S
    BY <2>1, <2>2, NatSet
  <2> QED
    BY <1>1, <2>3 DEF S
<1>5. IsPrefix(g[b], f[Len(path)])
  <2> DEFINE S == {n \in Nat : n <= Len(rest) => IsPrefix(g[b], f[b + n])}
  <2>0. g[b] \in Seq(V)
    BY <1>1, <1>2 DEF b
  <2>1. 0 \in S
    BY <1>1, <1>4, <2>0 DEF IsPrefix
  <2>2. ASSUME NEW n \in Nat, n \in S PROVE n + 1 \in S
    <3> SUFFICES ASSUME n + 1 <= Len(rest) PROVE IsPrefix(g[b], f[b + (n + 1)])
      OBVIOUS
    <3> DEFINE k == b + (n + 1)
    <3>1. /\ k \in 1 .. Len(path) /\ k - 1 = b + n /\ k - 1 \in 0 .. Len(path)
          /\ path[k] = rest[n + 1] /\ n + 1 \in 1 .. Len(rest) /\ n <= Len(rest)
      BY <1>1
    <3> HIDE DEF k
    <3>2. f[k] = UpOrDown(f[k - 1], path[k]) /\ f[k - 1] \in Seq(V)
      BY <1>3, <3>1 DEF Walk
    <3>3. path[k] \in V /\ path[k] # ".."
      BY <1>1, <3>1, ElementOfSeq DEF NoUp
    <3>4. IsPrefix(g[b], f[k - 1])
      BY <2>2, <3>1
    <3>5. IsPrefix(g[b], f[k])
      BY <2>0, <3>2, <3>3, <3>4, Deeper
    <3> QED
      BY <3>5 DEF k
  <2> HIDE DEF S
  <2>3. Nat \subseteq S
    BY <2>1, <2>2, NatSet
  <2> QED
    BY <1>1, <2>3 DEF S
<1>6. Reached(base) = g[b] /\ Reached(path) = f[Len(path)]
  BY <1>2, <1>3 DEF Walk, b
<1> QED
  BY <1>5, <1>6 DEF path

\* What is joined goes up only if one of its parts does.
LEMMA NoneUp ==
  ASSUME NEW V, NEW a \in Seq(V), NEW b \in Seq(V)
  PROVE  a \o b \in Seq(V) /\ (NoUp(a) /\ NoUp(b) => NoUp(a \o b))
<1> DEFINE c == a \o b
<1>1. /\ Len(a) \in Nat /\ Len(b) \in Nat /\ Len(c) = Len(a) + Len(b) /\ c \in Seq(V)
      /\ \A k \in 1 .. Len(c) : c[k] = IF k <= Len(a) THEN a[k] ELSE b[k - Len(a)]
  BY ConcatProperties
<1> HIDE DEF c
<1>2. ASSUME NoUp(a), NoUp(b), NEW k \in 1 .. Len(c) PROVE c[k] # ".."
  <2>1. CASE k <= Len(a)
    <3>1. k \in 1 .. Len(a) /\ c[k] = a[k]
      BY <1>1, <2>1
    <3> QED
      BY <1>2, <3>1 DEF NoUp
  <2>2. CASE ~(k <= Len(a))
    <3>1. k - Len(a) \in 1 .. Len(b) /\ c[k] = b[k - Len(a)]
      BY <1>1, <2>2
    <3> QED
      BY <1>2, <3>1 DEF NoUp
  <2> QED
    BY <2>1, <2>2
<1> QED
  BY <1>1, <1>2 DEF NoUp, c

LEMMA Associative ==
  ASSUME NEW V, NEW a \in Seq(V), NEW b \in Seq(V), NEW c \in Seq(V)
  PROVE  (a \o b) \o c = a \o (b \o c)
<1>0. \A s, t \in Seq(V) :
        /\ s \o t \in Seq(V) /\ Len(s \o t) = Len(s) + Len(t)
        /\ \A k \in 1 .. Len(s \o t) : (s \o t)[k] = IF k <= Len(s) THEN s[k] ELSE t[k - Len(s)]
  BY ConcatProperties
<1> DEFINE ab == a \o b
<1> DEFINE bc == b \o c
<1> DEFINE l == ab \o c
<1> DEFINE r == a \o bc
<1>1. /\ ab \in Seq(V) /\ Len(ab) = Len(a) + Len(b)
      /\ \A k \in 1 .. Len(ab) : ab[k] = IF k <= Len(a) THEN a[k] ELSE b[k - Len(a)]
  BY ConcatProperties
<1>2. /\ bc \in Seq(V) /\ Len(bc) = Len(b) + Len(c)
      /\ \A k \in 1 .. Len(bc) : bc[k] = IF k <= Len(b) THEN b[k] ELSE c[k - Len(b)]
  BY ConcatProperties
<1> HIDE DEF ab, bc
<1>3. /\ l \in Seq(V) /\ Len(l) = Len(ab) + Len(c)
      /\ \A k \in 1 .. Len(l) : l[k] = IF k <= Len(ab) THEN ab[k] ELSE c[k - Len(ab)]
  BY <1>0, <1>1
<1>4. /\ r \in Seq(V) /\ Len(r) = Len(a) + Len(bc)
      /\ \A k \in 1 .. Len(r) : r[k] = IF k <= Len(a) THEN a[k] ELSE bc[k - Len(a)]
  BY <1>0, <1>2
<1>5. Len(a) \in Nat /\ Len(b) \in Nat /\ Len(c) \in Nat
  OBVIOUS
<1> HIDE DEF l, r
<1>6. Len(l) = Len(r)
  BY <1>1, <1>2, <1>3, <1>4, <1>5
<1>7. ASSUME NEW k \in 1 .. Len(l) PROVE l[k] = r[k]
  <2>1. CASE k <= Len(a)
    <3>1. k \in 1 .. Len(ab) /\ k <= Len(ab) /\ k \in 1 .. Len(r)
      BY <1>1, <1>3, <1>5, <1>6, <2>1
    <3>2. l[k] = ab[k] /\ ab[k] = a[k] /\ r[k] = a[k]
      BY <1>1, <1>3, <1>4, <2>1, <3>1
    <3> QED
      BY <3>2
  <2>2. CASE k > Len(a) /\ k <= Len(a) + Len(b)
    <3>1. l[k] = b[k - Len(a)]
      BY <1>1, <1>3, <1>5, <2>2
    <3>2. r[k] = bc[k - Len(a)] /\ k - Len(a) \in 1 .. Len(bc) /\ k - Len(a) <= Len(b)
      BY <1>2, <1>4, <1>5, <1>6, <2>2
    <3> QED
      BY <1>2, <3>1, <3>2
  <2>3. CASE k > Len(a) + Len(b)
    <3>1. l[k] = c[k - (Len(a) + Len(b))]
      BY <1>1, <1>3, <1>5, <2>3
    <3>2. r[k] = bc[k - Len(a)] /\ k - Len(a) \in 1 .. Len(bc) /\ ~(k - Len(a) <= Len(b))
      BY <1>2, <1>4, <1>5, <1>6, <2>3
    <3>3. k - Len(a) - Len(b) = k - (Len(a) + Len(b))
      BY <1>5
    <3> QED
      BY <1>2, <3>1, <3>2, <3>3
  <2> QED
    BY <1>5, <2>1, <2>2, <2>3
<1>8. l = r
  BY <1>3, <1>4, <1>6, <1>7, SeqEqual
<1> QED
  BY <1>8 DEF l, r, ab, bc

\* A path without names that go up leads below each of its prefixes.
LEMMA PrefixBelow ==
  ASSUME NEW V, NEW a \in Seq(V), NEW path \in Seq(V), IsPrefix(a, path), NoUp(path)
  PROVE  IsPrefix(Reached(a), Reached(path))
<1> DEFINE n == Len(a)
<1> DEFINE rest == SubSeq(path, n + 1, Len(path))
<1>1. /\ n \in Nat /\ Len(path) \in Nat /\ n <= Len(path)
      /\ SubSeq(a, 1, n) = SubSeq(path, 1, n)
      /\ \A k \in 1 .. Len(path) : path[k] \in V
  BY ElementOfSeq DEF IsPrefix
<1>2. /\ rest \in Seq(V) /\ Len(rest) = Len(path) - n
      /\ \A k \in 1 .. Len(rest) : rest[k] = path[n + k]
  BY <1>1
<1>3. \A k \in 1 .. n : a[k] = path[k]
  <2>1. \A k \in 1 .. n : SubSeq(a, 1, n)[k] = a[k] /\ SubSeq(path, 1, n)[k] = path[k]
    BY <1>1
  <2> QED
    BY <1>1, <2>1
<1> HIDE DEF n, rest
<1>4. NoUp(rest)
  BY <1>1, <1>2 DEF NoUp
<1>5. path = a \o rest
  <2> DEFINE c == a \o rest
  <2>1. /\ c \in Seq(V) /\ Len(c) = n + Len(rest)
        /\ \A k \in 1 .. Len(c) : c[k] = IF k <= n THEN a[k] ELSE rest[k - n]
    BY <1>2, ConcatProperties DEF n
  <2> HIDE DEF c
  <2>2. Len(c) = Len(path)
    BY <1>1, <1>2, <2>1
  <2>3. ASSUME NEW k \in 1 .. Len(path) PROVE c[k] = path[k]
    <3>1. CASE k <= n
      BY <1>1, <1>3, <2>1, <2>2, <3>1
    <3>2. CASE ~(k <= n)
      <4>1. k - n \in 1 .. Len(rest) /\ n + (k - n) = k
        BY <1>1, <1>2, <3>2
      <4> QED
        BY <1>2, <2>1, <2>2, <3>2, <4>1
    <3> QED
      BY <3>1, <3>2
  <2>4. c = path
    BY <2>1, <2>2, <2>3, SeqEqual
  <2> QED
    BY <2>4 DEF c
<1> QED
  BY <1>2, <1>4, <1>5, NeverAbove

LEMMA TwoNames ==
  ASSUME NEW V, NEW x \in V, NEW y \in V
  PROVE  <<x, y>> \in Seq(V) /\ <<x>> \in Seq(V)
         /\ (x # ".." /\ y # ".." => NoUp(<<x, y>>) /\ NoUp(<<x>>))
<1>1. <<x, y>> \in Seq(V) /\ Len(<<x, y>>) = 2 /\ <<x>> \in Seq(V) /\ Len(<<x>>) = 1
  OBVIOUS
<1>2. 1 .. 2 = {1, 2} /\ 1 .. 1 = {1}
  OBVIOUS
<1>3. ASSUME x # "..", y # ".."
      PROVE  \A k \in {1, 2} : <<x, y>>[k] # ".."
  BY <1>3
<1>4. ASSUME x # ".." PROVE \A k \in {1} : <<x>>[k] # ".."
  BY <1>4
<1> QED
  BY <1>1, <1>2, <1>3, <1>4 DEF NoUp

LEMMA PlainTail ==
  ASSUME NEW V, NEW s \in Seq(V), s # <<>>, Plain(s)
  PROVE  Tail(s) \in Seq(V) /\ Plain(Tail(s))
<1>1. Tail(s) \in Seq(V) /\ Len(Tail(s)) = Len(s) - 1 /\ \A k \in 1 .. Len(Tail(s)) : Tail(s)[k] = s[k + 1]
  BY HeadTailProperties, EmptySeq
<1> QED
  BY <1>1, EmptySeq DEF Plain

\* Names of paths: those that are asked for, and those of the code.
Names == STRING \cup {"vol1", "AppData", "User", "admin"}

LEMMA OfNames ==
  ASSUME NEW s \in Seq(STRING)
  PROVE  s \in Seq(Names)
<1>1. \A k \in 1 .. Len(s) : s[k] \in Names
  BY ElementOfSeq DEF Names
<1> QED
  BY <1>1

\* Where a path of a bind leads to.
Inside(user, path) ==
  LET at == Reached(path)
  IN  /\ IsPrefix(Reached(Apps), at) \/ IsPrefix(Reached(Home(user)), at)
      /\ (user = NoName \/ \A k \in 1 .. Len(user.names) : user.names[k] # "..") =>
           IsPrefix(Reached(StoragePath), at)

LEMMA PathInside ==
  ASSUME NEW user \in [absolute : BOOLEAN, names : Seq(STRING)] \cup {NoName},
         NEW parts \in Seq(STRING), ~Escapes(PhysicalPath(user, parts))
  PROVE  Inside(user, PhysicalPath(user, parts))
<1> DEFINE clean == Normalize(parts)
<1> DEFINE path == PhysicalPath(user, parts)
<1>1. clean \in Seq(Names) /\ Plain(clean)
  BY Normalized, OfNames
<1>2. StoragePath \in Seq(Names)
  BY TemplateAssumption, OfNames
<1>3. /\ <<"vol1", "AppData">> \in Seq(Names) /\ NoUp(<<"vol1", "AppData">>)
      /\ <<"vol1", "User">> \in Seq(Names) /\ NoUp(<<"vol1", "User">>)
      /\ <<"admin">> \in Seq(Names) /\ NoUp(<<"admin">>)
  <2>1. {"vol1", "AppData", "User", "admin"} \subseteq Names
    BY DEF Names
  <2>2. "vol1" # ".." /\ "AppData" # ".." /\ "User" # ".." /\ "admin" # ".."
    OBVIOUS
  <2> QED
    BY <2>1, <2>2, TwoNames
<1>4. Apps \in Seq(Names) /\ Users \in Seq(Names)
  BY <1>2, <1>3, NoneUp DEF Apps, Users
<1>5. CASE clean # <<>> /\ Head(clean) = "AppData"
  <2> DEFINE rest == Tail(clean)
  <2>1. path = Apps \o rest
    BY <1>5 DEF PhysicalPath
  <2> HIDE DEF clean, path
  <2>2. rest \in Seq(Names) /\ NoUp(rest)
    BY <1>1, <1>5, PlainTail DEF Plain, NoUp
  <2> HIDE DEF rest
  <2>3. IsPrefix(Reached(Apps), Reached(path))
    BY <1>4, <2>1, <2>2, NeverAbove
  <2>4. path = StoragePath \o (<<"vol1", "AppData">> \o rest)
    BY <1>2, <1>3, <2>1, <2>2, Associative DEF Apps
  <2>5. /\ <<"vol1", "AppData">> \o rest \in Seq(Names)
        /\ NoUp(<<"vol1", "AppData">> \o rest)
    BY <1>3, <2>2, NoneUp
  <2>6. IsPrefix(Reached(StoragePath), Reached(path))
    BY <1>2, <2>4, <2>5, NeverAbove
  <2>7. Inside(user, path)
    BY <2>3, <2>6 DEF Inside
  <2> QED
    BY <2>7 DEF path
<1>6. CASE ~(clean # <<>> /\ Head(clean) = "AppData")
  <2>1. path = Home(user) \o clean
    BY <1>6 DEF PhysicalPath
  <2>2. IsPrefix(StoragePath, path)
    BY DEF Escapes
  <2> HIDE DEF clean, path
  <2> DEFINE names == IF user = NoName THEN <<"admin">> ELSE user.names
  <2>3. names \in Seq(Names)
    BY <1>3, OfNames
  <2> DEFINE level == user = NoName \/ \A k \in 1 .. Len(user.names) : user.names[k] # ".."
  <2>4. level => NoUp(names)
    BY <1>3 DEF NoUp
  <2>5. \/ Home(user) = names
        \/ Home(user) = Users \o names
    BY DEF Home
  <2> HIDE DEF names
  <2>6. Home(user) \in Seq(Names) /\ NoUp(clean)
    BY <1>1, <1>4, <2>3, <2>5, NoneUp DEF Plain, NoUp
  <2>7. IsPrefix(Reached(Home(user)), Reached(path))
    BY <1>1, <2>1, <2>6, NeverAbove
  <2>8. names \o clean \in Seq(Names) /\ (level => NoUp(names \o clean))
    BY <1>1, <2>3, <2>4, <2>6, NoneUp
  <2> HIDE DEF level
  <2>9. ASSUME level PROVE IsPrefix(Reached(StoragePath), Reached(path))
    <3>1. CASE Home(user) = names
      BY <1>2, <2>1, <2>2, <2>8, <2>9, <3>1, PrefixBelow
    <3>2. CASE Home(user) = Users \o names
      <4>1. path = Users \o (names \o clean)
        <5>1. path = (Users \o names) \o clean
          BY <2>1, <3>2
        <5> QED
          BY <1>1, <1>4, <2>3, <5>1, Associative
      <4> DEFINE rest == names \o clean
      <4>2. rest \in Seq(Names) /\ NoUp(rest)
        BY <2>8, <2>9
      <4> HIDE DEF rest
      <4>3. path = StoragePath \o (<<"vol1", "User">> \o rest)
        BY <1>2, <1>3, <4>1, <4>2, Associative DEF Users, rest
      <4>4. /\ <<"vol1", "User">> \o rest \in Seq(Names)
            /\ NoUp(<<"vol1", "User">> \o rest)
        BY <1>3, <4>2, NoneUp
      <4> QED
        BY <1>2, <4>3, <4>4, NeverAbove
    <3> QED
      BY <2>5, <3>1, <3>2
  <2>10. Inside(user, path)
    BY <2>7, <2>9 DEF Inside, level
  <2> QED
    BY <2>10 DEF path
<1> QED
  BY <1>5, <1>6

\* What a request binds is what it asks for.
BindInv ==
  CreateOK /\ \A c \in Creator : create[c].binds \subseteq HostPaths(create[c].asked)

LEMMA InitBind == CInit => BindInv
BY DEF CInit, BindInv, CreateOK, CreatePC, Asked

LEMMA NextBind == StartInv /\ BindInv /\ [CNext]_cvars => BindInv'
<1> SUFFICES ASSUME StartInv, BindInv, [CNext]_cvars PROVE BindInv'
  OBVIOUS
<1>0. CreateOK'
  BY NextStart DEF StartInv
<1>1. ASSUME UNCHANGED create PROVE BindInv'
  <2>1. \A d \in Creator : create'[d].binds \subseteq HostPaths(create'[d].asked)
    BY <1>1 DEF BindInv
  <2> QED
    BY <1>0, <2>1 DEF BindInv, HostPaths, HostPath, Taken, Misspelt, Forbidden, Escapes, PhysicalPath,
           Normalize, Home, Apps, Users
<1>2. ASSUME NEW p \in Pull, PullStep(p) PROVE UNCHANGED create
  BY <1>2 DEF PullStep
<1>3. ASSUME ListDaemon \/ ListPulling PROVE UNCHANGED create
  BY <1>3 DEF ListDaemon, ListPulling
<1>4. ASSUME NEW i \in Image, RemoveImage(i) PROVE UNCHANGED create
  BY <1>4 DEF RemoveImage
<1>5. ASSUME NEW c \in DOMAIN containers, Manage(c) PROVE UNCHANGED create
  BY <1>5 DEF Manage, StartContainer, StopContainer, RemoveContainer
<1>6. ASSUME NEW c \in Creator, Creation(c)
      PROVE  \A d \in Creator : /\ create'[d].asked = create[d].asked
                                /\ \/ create'[d].binds = create[d].binds
                                   \/ create'[d].binds = {}
                                   \/ create'[d].binds = HostPaths(create[d].asked)
  <2>1. create \in [Creator -> [pc : CreatePC, asked : Template, binds : SUBSET AllHostPaths]]
    BY DEF BindInv, CreateOK
  <2>2. ASSUME NEW pc, Goes(c, pc) PROVE \A d \in Creator : create'[d].asked = create[d].asked /\ create'[d].binds = create[d].binds
    BY <2>1, <2>2 DEF Goes
  <2>3. CASE Prepare(c)
    <3> DEFINE t == create[c].asked
    <3> DEFINE pc == IF Valid(t) /\ Forbidden(t) \cup Misspelt(t) = {} THEN "prepared" ELSE "refused"
    <3> DEFINE binds == IF Valid(t) THEN HostPaths(t) ELSE {}
    <3>1. create' = [create EXCEPT ![c].pc = pc, ![c].binds = binds]
      BY <2>3 DEF Prepare
    <3>2. binds = {} \/ binds = HostPaths(t)
      OBVIOUS
    <3> HIDE DEF pc, binds
    <3>3. \A d \in Creator : create'[d].asked = create[d].asked /\ create'[d].binds = IF d = c THEN binds ELSE create[d].binds
      BY <2>1, <3>1
    <3> QED
      BY <3>2, <3>3
  <2>4. CASE Make(c)
    BY <2>2, <2>4 DEF Make
  <2>5. CASE Start(c)
    BY <2>2, <2>5 DEF Start
  <2> QED
    BY <1>6, <2>3, <2>4, <2>5 DEF Creation
<1>7. ASSUME NEW c \in Creator, Creation(c) PROVE BindInv'
  <2>1. \A d \in Creator : create'[d].binds \subseteq HostPaths(create[d].asked)
    BY <1>6, <1>7 DEF BindInv
  <2>2. \A d \in Creator : create'[d].asked = create[d].asked
    BY <1>6, <1>7
  <2>3. \A d \in Creator : create'[d].binds \subseteq HostPaths(create'[d].asked)
    BY <2>1, <2>2
  <2> QED
    BY <1>0, <2>3 DEF BindInv, HostPaths, HostPath, Taken, Misspelt, Forbidden, Escapes, PhysicalPath,
           Normalize, Home, Apps, Users
<1>8. CASE UNCHANGED cvars
  BY <1>1, <1>8 DEF cvars
<1> QED
  BY <1>1, <1>2, <1>3, <1>4, <1>5, <1>7, <1>8 DEF CNext

\* Whatever names the paths of its volumes are made of, and however many it has, a
\* request binds nothing above the directory of the applications and the one that its
\* user's name gives; and nothing outside the storage path, unless that name goes up.
THEOREM BindsInside == CSpec => []BindsStayInside
<1>1. ASSUME BindInv PROVE BindsStayInside
  <2> SUFFICES ASSUME NEW c \in Creator, NEW path \in create[c].binds
               PROVE  Inside(create[c].asked.user, path)
    BY Zenon DEF BindsStayInside, Inside
  <2> DEFINE t == create[c].asked
  <2>1. t \in Template /\ path \in HostPaths(t)
    BY <1>1 DEF BindInv, CreateOK
  <2>2. PICK k \in 1 .. Len(t.volumes) :
          k \notin Forbidden(t) /\ t.volumes[k].isPath /\ path = HostPath(t, k)
    BY <2>1 DEF HostPaths, Taken
  <2>3. t.volumes \in Seq([host : Seq(STRING), isPath : BOOLEAN, allowed : BOOLEAN])
    BY <2>1, TemplateAssumption
  <2>4. t.volumes[k] \in [host : Seq(STRING), isPath : BOOLEAN, allowed : BOOLEAN]
    BY <2>3, ElementOfSeq
  <2>5. t.volumes[k].host \in Seq(STRING)
    BY <2>4
  <2>6. t.user \in [absolute : BOOLEAN, names : Seq(STRING)] \cup {NoName}
    BY <2>1, TemplateAssumption
  <2> HIDE DEF t
  <2>7. path = PhysicalPath(t.user, t.volumes[k].host) /\ ~Escapes(path)
    BY <2>2 DEF Forbidden, HostPath
  <2>8. Inside(t.user, path)
    BY <2>5, <2>6, <2>7, PathInside
  <2> QED
    BY <2>8 DEF t
<1> QED
  BY InitStart, NextStart, InitBind, NextBind, <1>1, PTL DEF CSpec
=============================================================================
