--------------------------- MODULE TerminalProofs ----------------------------
(***************************************************************************)
(* Theorems about Terminal: for every set of users, sessions, lines and    *)
(* requests, what the trees of DocsTrees promise holds throughout, however *)
(* the commands of several lines interleave with each other, with the      *)
(* requests of the api and with the purger.                                *)
(*                                                                         *)
(* A physical file is either where a path names it (Place, or Kept below   *)
(* .Trash) or a blob, which no path names: so no request writes over a     *)
(* blob, and every step that changes a tree changes one row along with     *)
(* one place.                                                              *)
(***************************************************************************)
EXTENDS Terminal, SequenceTheorems, FiniteSetTheorems, WellFoundedInduction, TLAPS

\* The places that paths name, and those that paths below /Trash name.
Place ==
  {q \in Seq(Name) :
     /\ q # <<>>
     /\ q[1] = "AppData" \/ (q[1] = "User" /\ Len(q) > 2 /\ q # <<"User", Admin, "System">>)}
Kept ==
  {q \in Seq(Name \cup {".Trash"}) :
     Len(q) > 3 /\ q[1] = "User" /\ q[2] \in User /\ q[3] = ".Trash" /\ q[4] \in Name}
Blobs == {Blob(u, i) : u \in User, i \in Nat}

-----------------------------------------------------------------------------
(* Paths *)

LEMMA Beyond == \A n \in Nat : (n # 0 /\ n # 1 => n > 1) /\ (n > 1 /\ n # 2 <=> n > 2)
OBVIOUS

\* The directory of a path that is no root, and its last name.
LEMMA Ends ==
  ASSUME NEW v \in Seq(Name), v # <<>>
  PROVE  /\ Front(v) \in Seq(Name) /\ Last(v) \in Name
         /\ Len(Front(v)) = Len(v) - 1
         /\ \A i \in 1 .. Len(v) - 1 : Front(v)[i] = v[i]
         /\ Append(Front(v), Last(v)) = v
<1> DEFINE d == Front(v)
<1> DEFINE n == Last(v)
<1>1. Len(v) \in Nat \ {0} /\ n \in Name
  BY EmptySeq DEF Last
<1>2. d \in Seq(Name) /\ Len(d) = Len(v) - 1 /\ \A i \in 1 .. Len(v) - 1 : d[i] = v[i]
  <2>1. \A i \in 1 .. Len(v) - 1 : v[i] \in Name
    BY <1>1
  <2>2. Len(v) - 1 \in Int /\ (1 <= Len(v) - 1 \/ Len(v) - 1 = 0)
    BY <1>1
  <2> QED
    BY <2>1, <2>2, SubSeqProperties DEF Front
<1>3. Append(d, n) \in Seq(Name) /\ Len(Append(d, n)) = Len(v)
  BY <1>1, <1>2
<1>4. \A i \in 1 .. Len(v) : Append(d, n)[i] = v[i]
  BY <1>1, <1>2 DEF Last
<1> HIDE DEF d, n
<1>5. Append(d, n) = v
  BY <1>3, <1>4, SeqEqual
<1> QED
  BY <1>1, <1>2, <1>5 DEF d, n

\* A path is that of its last name in its directory, and of no other.
LEMMA Joined ==
  ASSUME NEW d \in Seq(Name), NEW n \in Name
  PROVE  /\ Append(d, n) \in Seq(Name) /\ Append(d, n) # <<>>
         /\ Front(Append(d, n)) = d /\ Last(Append(d, n)) = n
<1> DEFINE v == Append(d, n)
<1>1. /\ v \in Seq(Name) /\ Len(v) = Len(d) + 1 /\ v # <<>>
      /\ \A i \in 1 .. Len(d) : v[i] = d[i]
  BY AppendProperties
<1>2. Last(v) = n
  BY <1>1 DEF Last
<1> HIDE DEF v
<1>3. Front(v) \in Seq(Name) /\ Len(Front(v)) = Len(d) /\ \A i \in 1 .. Len(d) : Front(v)[i] = d[i]
  BY <1>1, Ends
<1>4. Front(v) = d
  BY <1>3, SeqEqual
<1> QED
  BY <1>1, <1>2, <1>4 DEF v

LEMMA PrefixedBy ==
  ASSUME NEW u \in Name, NEW v \in Seq(Name)
  PROVE  LET q == <<"User", u>> \o v IN
         /\ q \in Seq(Name) /\ Len(q) = Len(v) + 2 /\ q[1] = "User" /\ q[2] = u
         /\ \A i \in 1 .. Len(v) : q[i + 2] = v[i]
BY TreesAssumption

\* Blobs lie where no path leads, each at a place of its own.
LEMMA BlobPlaces ==
  ASSUME NEW u \in User, NEW i \in Nat
  PROVE  /\ Blob(u, i) \notin Seq(Name) /\ Blob(u, i) # NoPlace
         /\ Blob(u, i)[1] = "User" /\ Blob(u, i)[2] = u /\ Blob(u, i)[3] = ".Trash"
         /\ \A w \in User, j \in Nat : Blob(u, i) = Blob(w, j) => u = w /\ i = j
<1>1. Blob(u, i)[3] = ".Trash" /\ Len(Blob(u, i)) = 5
  BY DEF Blob
<1>2. Blob(u, i) \notin Seq(Name)
  <2> SUFFICES ASSUME Blob(u, i) \in Seq(Name) PROVE FALSE
    OBVIOUS
  <2>1. 3 \in 1 .. Len(Blob(u, i))
    BY <1>1
  <2>2. Blob(u, i)[3] \in Name
    BY <2>1, ElementOfSeq
  <2> QED
    BY <1>1, <2>2, TreesAssumption
<1> QED
  BY <1>1, <1>2 DEF Blob, NoPlace

\* Below .Trash lies no place of a path without /Trash, and no blob.
LEMMA KeptPlaces ==
  ASSUME NEW q \in Kept
  PROVE  /\ q \notin Seq(Name) /\ q # NoPlace /\ q[1] = "User" /\ q[3] = ".Trash"
         /\ \A u \in User, i \in Nat : q # Blob(u, i)
<1>3. Len(q) > 3 /\ Len(q) \in Nat /\ q[1] = "User" /\ q[3] = ".Trash" /\ q[4] \in Name
  BY DEF Kept
<1>4. q \notin Seq(Name)
  <2> SUFFICES ASSUME q \in Seq(Name) PROVE FALSE
    OBVIOUS
  <2>1. 3 \in 1 .. Len(q)
    BY <1>3
  <2>2. q[3] \in Name
    BY <2>1, ElementOfSeq
  <2> QED
    BY <1>3, <2>2, TreesAssumption
<1>5. \A x \in User, i \in Nat : Blob(x, i)[4] = "blobs"
  BY DEF Blob
<1> QED
  BY <1>3, <1>4, <1>5, TreesAssumption DEF NoPlace

\* What is left of a path when /Trash is cut off is a path.
LEMMA CutOff ==
  ASSUME NEW v \in Seq(Name)
  PROVE  OriginalDir(v) \in Seq(Name)
<1> DEFINE c == Cardinality(TrashNames(v))
<1>1. 0 \in Int /\ Len(v) \in Int /\ Len(v) \in Nat
  OBVIOUS
<1>2. TrashNames(v) \subseteq 0 .. Len(v) /\ TrashNames(v) # {}
  BY <1>1 DEF TrashNames
<1>3. IsFiniteSet(0 .. Len(v)) /\ Cardinality(0 .. Len(v)) = Len(v) + 1
  BY <1>1, FS_Interval
<1>4. IsFiniteSet(TrashNames(v)) /\ c <= Len(v) + 1
  BY <1>2, <1>3, FS_Subset
<1>5. c \in Nat /\ c # 0
  BY <1>2, <1>4, FS_CardinalityType, FS_EmptySet
<1>6. \A i \in c .. Len(v) : v[i] \in Name
  BY <1>5, ElementOfSeq
<1>7. c \in Int /\ (c <= Len(v) \/ c = Len(v) + 1)
  BY <1>1, <1>4, <1>5
<1> HIDE DEF c
<1>8. SubSeq(v, c, Len(v)) \in Seq(Name)
  BY <1>1, <1>4, <1>5, <1>6, <1>7, SubSeqProperties
<1> QED
  BY <1>8 DEF OriginalDir, c

\* Where a path of an owner leads: into the owner's tree, to the path itself but for
\* /System.  It is no top of a tree, so its directory is that owner's too.
LEMMA OwnPlace ==
  ASSUME NEW v \in Seq(Name), OwnerOf(v) # Nobody, ~IsTop(Resolve(OwnerOf(v), v))
  PROVE  /\ OwnerOf(v) \in User /\ v # <<>> /\ ~Top(v, "AppData")
         /\ Resolve(OwnerOf(v), v) \in Place
         /\ Resolve(OwnerOf(v), v)[1] = "User" /\ Resolve(OwnerOf(v), v)[2] = OwnerOf(v)
         /\ OwnerOf(v) # Admin => Resolve(OwnerOf(v), v) = v
         /\ Front(v) # <<>> /\ Front(v)[1] \in {"User", "System"}
         /\ OwnerOf(Front(v)) = OwnerOf(v)
<1> DEFINE o == OwnerOf(v)
<1> DEFINE q == Resolve(o, v)
<1>1. CASE Top(v, "System")
  <2>1. o = Admin /\ o \in User /\ v # <<>> /\ v[1] = "System" /\ q = <<"User", Admin>> \o v
    BY <1>1, TreesAssumption DEF OwnerOf, Resolve, Top
  <2>2. /\ q \in Seq(Name) /\ Len(q) = Len(v) + 2 /\ q[1] = "User" /\ q[2] = Admin
        /\ \A i \in 1 .. Len(v) : q[i + 2] = v[i]
    BY <2>1, PrefixedBy, TreesAssumption
  <2>3. q # <<"User", Admin, "System">> /\ q # <<>>
    BY <2>2 DEF IsTop, Top
  <2>4. Len(v) > 1
    <3>0. Len(v) \in Nat /\ Len(v) # 0
      BY <2>1, EmptySeq
    <3> SUFFICES ASSUME Len(v) = 1 PROVE FALSE
      BY <3>0, Beyond, Zenon
    <3>1. q[3] = "System" /\ Len(q) = 3
      BY <2>1, <2>2
    <3>2. q = <<"User", Admin, "System">>
      <4> DEFINE e == <<"User", Admin, "System">>
      <4>1. e \in Seq(Name) /\ Len(e) = 3 /\ e[1] = "User" /\ e[2] = Admin /\ e[3] = "System"
        BY TreesAssumption
      <4> HIDE DEF e, q
      <4>2. q = e
        BY <4>1, <3>1, <2>2, SeqEqual
      <4> QED
        BY <4>2 DEF e
    <3> QED
      BY <2>3, <3>2
  <2>5. Front(v) # <<>> /\ Front(v)[1] = "System"
    <3>1. Len(Front(v)) = Len(v) - 1 /\ 1 \in 1 .. Len(v) - 1 /\ Front(v)[1] = v[1]
      BY <2>1, <2>4, Ends
    <3> QED
      BY <3>1, <2>1, <2>4
  <2>6. OwnerOf(Front(v)) = Admin
    BY <2>5 DEF OwnerOf, Top
  <2>7. ~Top(v, "AppData")
    BY <2>1 DEF Top
  <2>8. q \in Place
    BY <2>2, <2>3, <2>4 DEF Place
  <2> QED
    BY <2>1, <2>2, <2>5, <2>6, <2>7, <2>8
<1>2. CASE ~Top(v, "System")
  <2>1. Owned(v) /\ v[2] \in User /\ o = v[2]
    BY <1>2 DEF OwnerOf
  <2>2. v # <<>> /\ v[1] = "User" /\ ~Top(v, "AppData") /\ q = v
    BY <1>2, <2>1 DEF Owned, Top, Resolve
  <2>3. Len(v) > 2 /\ v # <<"User", Admin, "System">>
    <3>1. ~IsTop(v) /\ Top(v, "User") /\ Len(v) \in Nat /\ Len(v) > 1
      BY <2>1, <2>2 DEF Top, Owned
    <3>2. Len(v) # 2 /\ v # <<"User", Admin, "System">>
      BY ONLY <3>1, Zenon DEF IsTop
    <3>3. Len(v) > 2
      BY <3>1, <3>2, Beyond, Zenon
    <3> QED
      BY ONLY <3>2, <3>3, Zenon
  <2>4. Front(v) # <<>> /\ Len(Front(v)) > 1 /\ Front(v)[1] = "User" /\ Front(v)[2] = v[2]
    <3>1. /\ Len(Front(v)) = Len(v) - 1 /\ 1 \in 1 .. Len(v) - 1 /\ 2 \in 1 .. Len(v) - 1
          /\ Front(v)[1] = v[1] /\ Front(v)[2] = v[2]
      BY <2>2, <2>3, Ends
    <3> QED
      BY <3>1, <2>2, <2>3
  <2>5. OwnerOf(Front(v)) = o
    BY <2>4, <2>1 DEF OwnerOf, Owned, Top
  <2>6. q \in Place
    BY <2>2, <2>3 DEF Place
  <2> QED
    BY <2>1, <2>2, <2>4, <2>5, <2>6
<1> QED
  BY <1>1, <1>2

\* Where the user who asks finds a path: not at a top, if it is to be moved there.
LEMMA AskedPlace ==
  ASSUME NEW u \in User, NEW v \in Seq(Name), Resolve(u, v) # NoPlace, ~IsTop(Resolve(u, v))
  PROVE  Resolve(u, v) \in Place \cup Kept
<1> DEFINE q == Resolve(u, v)
<1>1. CASE Top(v, "AppData")
  BY <1>1 DEF Resolve, Top, Place
<1>2. CASE Top(v, "Trash")
  <2> DEFINE w == OriginalDir(v)
  <2>1. q = <<"User", u, ".Trash">> \o w /\ w \in Seq(Name)
    BY <1>2, CutOff DEF Resolve, Top
  <2> HIDE DEF q, w
  <2>2. Len(w) \in Nat /\ \A i \in 1 .. Len(w) : w[i] \in Name
    BY <2>1, ElementOfSeq
  <2>3. w \in Seq(Name \cup {".Trash"}) /\ <<"User", u, ".Trash">> \in Seq(Name \cup {".Trash"})
    BY <2>1, <2>2, TreesAssumption
  <2>4. /\ q \in Seq(Name \cup {".Trash"}) /\ Len(q) = Len(w) + 3
        /\ q[1] = "User" /\ q[2] = u /\ q[3] = ".Trash"
    BY <2>1, <2>3
  <2>5. Len(w) # 0
    <3>1. Len(q) # 3
      BY <2>4, EmptySeq DEF IsTop, Top, q
    <3> QED
      BY <3>1, <2>2, <2>4
  <2>6. q[4] = w[1] /\ w[1] \in Name /\ Len(q) > 3
    BY <2>1, <2>2, <2>3, <2>4, <2>5
  <2>7. q \in Kept
    BY <2>4, <2>6 DEF Kept
  <2> QED
    BY <2>7 DEF q
<1>3. CASE ~Top(v, "AppData") /\ ~Top(v, "Trash")
  <2>1. \/ q = <<"User", Admin>> \o v /\ Top(v, "System")
        \/ q = v /\ Owned(v)
        \/ q = <<"User", u>> \o v
    BY <1>3 DEF Resolve
  <2>2. q \in Seq(Name) /\ Len(q) > 1 /\ q[1] = "User"
    <3>1. /\ (<<"User", Admin>> \o v) \in Seq(Name) /\ Len(<<"User", Admin>> \o v) > 1
          /\ (<<"User", Admin>> \o v)[1] = "User"
      BY PrefixedBy, TreesAssumption
    <3>2. /\ (<<"User", u>> \o v) \in Seq(Name) /\ Len(<<"User", u>> \o v) > 1
          /\ (<<"User", u>> \o v)[1] = "User"
      BY PrefixedBy, TreesAssumption
    <3>3. Owned(v) => Len(v) > 1 /\ v[1] = "User"
      BY DEF Owned, Top
    <3> HIDE DEF q
    <3> QED
      BY <2>1, <3>1, <3>2, <3>3
  <2>3. Len(q) > 2 /\ q # <<"User", Admin, "System">>
    <3>1. Top(q, "User") /\ ~IsTop(q) /\ Len(q) \in Nat
      BY <2>2, EmptySeq DEF Top
    <3> HIDE DEF q
    <3>2. Len(q) # 2 /\ q # <<"User", Admin, "System">>
      BY ONLY <3>1, Zenon DEF IsTop
    <3>3. Len(q) > 2
      BY <3>1, <3>2, <2>2, Beyond, Zenon
    <3> QED
      BY ONLY <3>2, <3>3, Zenon
  <2> QED
    BY <2>2, <2>3 DEF Place
<1> QED
  BY <1>1, <1>2, <1>3

\* Where save_file writes is where every other operation finds the path: found from
\* the directory in the tree of its owner, it is the owner's place for the file.
LEMMA SavedPlace ==
  ASSUME NEW u \in User, NEW v \in Seq(Name), v # <<>>, SavePlace(u, v) # NoPlace
  PROVE  /\ SavePlace(u, v) \in Place
         /\ Top(v, "AppData") => SavePlace(u, v)[1] = "AppData"
         /\ ~Top(v, "AppData") => /\ OwnerOf(v) # Nobody /\ ~IsTop(Resolve(OwnerOf(v), v))
                                  /\ SavePlace(u, v) = Resolve(OwnerOf(v), v)
<1> DEFINE d == Front(v)
<1> DEFINE n == Last(v)
<1>1. /\ d \in Seq(Name) /\ n \in Name /\ Len(d) = Len(v) - 1 /\ Append(d, n) = v
      /\ \A i \in 1 .. Len(v) - 1 : d[i] = v[i]
  BY Ends
<1>2. CASE Top(d, "AppData")
  <2>1. Resolve(u, d) # NoPlace /\ SavePlace(u, v) = Append(Resolve(u, d), n)
    BY <1>2 DEF SavePlace, Parent
  <2>2. Resolve(u, d) = d
    BY <1>2, <2>1 DEF Resolve
  <2>3. v[1] = "AppData"
    BY <1>1, <1>2 DEF Top
  <2> QED
    BY <1>1, <2>1, <2>2, <2>3 DEF Top, Place
<1>3. CASE ~Top(d, "AppData")
  <2> DEFINE o == OwnerOf(d)
  <2>1. /\ o # Nobody /\ Resolve(o, d) # NoPlace /\ ~IsTop(Append(Resolve(o, d), n))
        /\ SavePlace(u, v) = Append(Resolve(o, d), n)
    BY <1>3 DEF SavePlace, Parent, May
  <2>2. d # <<>> /\ v[1] = d[1] /\ v[1] \in {"User", "System"}
    BY <2>1, <1>1 DEF OwnerOf, Owned, Top
  <2>3. OwnerOf(v) = o /\ ~Top(v, "AppData")
    <3>1. \A x : Top(v, x) <=> Top(d, x)
      BY <2>2 DEF Top
    <3>2. CASE Top(d, "System")
      BY <1>3, <3>1, <3>2 DEF OwnerOf
    <3>3. CASE ~Top(d, "System")
      <4>1. Owned(d) /\ d[2] \in User
        BY <2>1, <3>3 DEF OwnerOf
      <4>2. Owned(v) /\ v[2] = d[2]
        BY <1>1, <3>1, <4>1 DEF Owned
      <4> QED
        BY <1>3, <3>1, <3>3, <4>1, <4>2 DEF OwnerOf
    <3> QED
      BY <3>2, <3>3
  <2>4. Resolve(o, v) = Append(Resolve(o, d), n)
    <3>1. CASE Top(d, "System")
      <4>1. Top(v, "System") /\ ~Top(v, "AppData")
        BY <3>1, <2>2 DEF Top
      <4>2. Resolve(o, v) = <<"User", Admin>> \o v /\ Resolve(o, d) = <<"User", Admin>> \o d
        BY <3>1, <4>1, <1>3 DEF Resolve
      <4>3. <<"User", Admin>> \o Append(d, n) = Append(<<"User", Admin>> \o d, n)
        <5> DEFINE a == <<"User", Admin>> \o Append(d, n)
        <5> DEFINE b == Append(<<"User", Admin>> \o d, n)
        <5>1. Admin \in Name /\ "User" \in Name
          BY TreesAssumption
        <5>2. /\ <<"User", Admin>> \o d \in Seq(Name) /\ Len(<<"User", Admin>> \o d) = Len(d) + 2
              /\ b \in Seq(Name) /\ Len(b) = Len(d) + 3
          BY <1>1, <5>1
        <5>3. a \in Seq(Name) /\ Len(a) = Len(d) + 3
          BY <1>1, <5>1
        <5>4. \A i \in 1 .. Len(a) : a[i] = b[i]
          BY <5>2, <5>3, <1>1, <5>1
        <5> HIDE DEF a, b
        <5>5. a = b
          BY <5>2, <5>3, <5>4, SeqEqual
        <5> QED
          BY <5>5 DEF a, b
      <4> QED
        BY <4>2, <4>3, <1>1
    <3>2. CASE ~Top(d, "System")
      <4>1. Owned(d) /\ Owned(v) /\ ~Top(v, "System")
        BY <3>2, <2>1, <2>2, <1>1 DEF OwnerOf, Owned, Top
      <4>2. Resolve(o, v) = v /\ Resolve(o, d) = d
        BY <3>2, <4>1, <1>3, <2>3 DEF Resolve, Owned, Top
      <4> QED
        BY <4>2, <1>1
    <3> QED
      BY <3>1, <3>2
  <2>5. OwnerOf(v) # Nobody /\ ~IsTop(Resolve(OwnerOf(v), v))
    BY <2>1, <2>3, <2>4
  <2>6. SavePlace(u, v) = Resolve(OwnerOf(v), v)
    BY <2>1, <2>3, <2>4
  <2>7. SavePlace(u, v) \in Place
    BY <2>5, <2>6, OwnPlace
  <2> QED
    BY <2>3, <2>5, <2>6, <2>7
<1> QED
  BY <1>2, <1>3

\* What was in a directory other than the root is listed in the trash below that
\* directory: of its names only the /Trash in front is cut off.
LEMMA Untrashed ==
  ASSUME NEW d \in Seq(Name), d # <<>>, d[1] # "Trash"
  PROVE  OriginalDir(<<"Trash">> \o d) = d
<1> DEFINE at == <<"Trash">> \o d
<1>1. Len(at) = Len(d) + 1 /\ at[1] = "Trash" /\ \A i \in 1 .. Len(d) : at[i + 1] = d[i]
  OBVIOUS
<1>2. TrashNames(at) = {0, 1}
  <2>1. Len(d) \in Nat \ {0}
    BY EmptySeq
  <2>2. at[2] # "Trash"
    BY <1>1, <2>1
  <2> HIDE DEF at
  <2>3. \A k \in 0 .. Len(at) : (\A i \in 1 .. k : at[i] = "Trash") <=> k \in {0, 1}
    BY <1>1, <2>1, <2>2
  <2> QED
    BY <2>3, <1>1, <2>1 DEF TrashNames
<1>3. Cardinality({0, 1}) = 2
  <2>1. Cardinality(0 .. 1) = IF 0 > 1 THEN 0 ELSE 1 - 0 + 1
    <3>1. 0 \in Int /\ 1 \in Int
      OBVIOUS
    <3> QED
      BY <3>1, FS_Interval, Zenon
  <2>2. 0 .. 1 = {0, 1}
    OBVIOUS
  <2> QED
    BY <2>1, <2>2
<1>4. OriginalDir(at) = SubSeq(at, 2, Len(at))
  BY <1>2, <1>3 DEF OriginalDir
<1>5. Len(d) \in Nat \ {0} /\ SubSeq(at, 2, Len(at)) \in Seq(Name) /\ Len(SubSeq(at, 2, Len(at))) = Len(d)
  <2>1. Len(d) \in Nat \ {0}
    BY EmptySeq
  <2>2. \A i \in 2 .. Len(at) : at[i] \in Name
    BY <1>1, <2>1
  <2> HIDE DEF at
  <2> QED
    BY <2>1, <2>2, <1>1, SubSeqProperties
<1>6. \A i \in 1 .. Len(d) : SubSeq(at, 2, Len(at))[i] = d[i]
  <2>1. \A i \in 2 .. Len(at) : at[i] \in Name
    BY <1>1, <1>5
  <2> HIDE DEF at
  <2> QED
    BY <2>1, <1>5, <1>1, SubSeqProperties
<1> HIDE DEF at
<1>7. SubSeq(at, 2, Len(at)) = d
  BY <1>5, <1>6, SeqEqual
<1> QED
  BY <1>4, <1>7 DEF at

-----------------------------------------------------------------------------
(* The invariant of the trees *)

\* A physical file is where a path names it, or a blob of a user's trash.
FilesInv ==
  /\ files = [q \in DOMAIN files |-> files[q]]
  /\ DOMAIN files \subseteq Place \cup Kept \cup Blobs

RowsInv ==
  /\ rows \subseteq [user : User, dir : Seq(Name), name : Name]
  /\ \A r \in rows : r.dir # <<>> /\ OwnerOf(r.dir) = r.user

\* Each row of the trash has a blob of its own, which holds what the file held.
TrashInv ==
  /\ \A r \in trash :
       /\ r.user \in User /\ r.id \in Nat /\ r.id < fresh
       /\ r.dir \in Seq(Name) /\ r.name \in Name
       /\ r.dir # <<>> /\ r.dir[1] # "Trash"
       /\ Blob(r.user, r.id) \in DOMAIN files
       /\ files[Blob(r.user, r.id)] = r.content
  /\ \A r, s \in trash : r.id = s.id => r = s

\* In a whole store, an ordinary user's row for a path goes with the file of that path.
Paired ==
  ~torn => \A u \in User \ {Admin}, v \in Seq(Name) \ {<<>>} :
    RowOf(u, v) \in rows <=> v \in DOMAIN files /\ v[1] = "User" /\ v[2] = u

TreesInv ==
  /\ FilesInv /\ RowsInv /\ TrashInv /\ Paired
  /\ fresh \in Nat \ {0} /\ torn \in BOOLEAN

LEMMA FilesStay ==
  ASSUME files' = [q \in DOMAIN files' |-> files'[q]], DOMAIN files' \subseteq Place \cup Kept \cup Blobs
  PROVE  FilesInv'
BY DEF FilesInv, Place, Kept, Blobs, Blob

\* A place is no blob, and its third name, if it is in a user's tree, is not .Trash.
LEMMA PlaceIsNoBlob ==
  ASSUME NEW q \in Place
  PROVE  /\ q \in Seq(Name) /\ q # NoPlace /\ q[1] \in {"User", "AppData"}
         /\ q[1] = "User" => q[3] # ".Trash"
         /\ \A u \in User, i \in Nat : q # Blob(u, i)
<1>1. q \in Seq(Name) /\ q # NoPlace /\ q[1] \in {"User", "AppData"}
  BY DEF Place, NoPlace
<1>2. ASSUME q[1] = "User" PROVE q[3] # ".Trash"
  <2>1. Len(q) > 2
    BY <1>2 DEF Place
  <2>2. 3 \in 1 .. Len(q)
    BY <2>1, <1>1
  <2>3. q[3] \in Name
    BY <2>2, <1>1, ElementOfSeq
  <2> QED
    BY <2>3, TreesAssumption
<1>3. \A u \in User, i \in Nat : q # Blob(u, i)
  BY <1>1, BlobPlaces
<1> QED
  BY <1>1, <1>2, <1>3

\* Rows are the same when they stand for the same path.
LEMMA SameRow ==
  ASSUME NEW r \in [user : User, dir : Seq(Name), name : Name], NEW v \in Seq(Name), v # <<>>
  PROVE  /\ r = RowOf(r.user, Append(r.dir, r.name))
         /\ r.user \in User => RowOf(r.user, v) \in [user : User, dir : Seq(Name), name : Name]
         /\ Append(r.dir, r.name) = v => r = RowOf(r.user, v)
         /\ \A u : RowOf(u, v).user = u /\ RowOf(u, v).dir = Front(v) /\ RowOf(u, v).name = Last(v)
         /\ \A u : Append(RowOf(u, v).dir, RowOf(u, v).name) = v
<1>1. Front(v) \in Seq(Name) /\ Last(v) \in Name /\ Append(Front(v), Last(v)) = v
  BY Ends
<1>2. r.dir \in Seq(Name) /\ r.name \in Name /\ r = [user |-> r.user, dir |-> r.dir, name |-> r.name]
  OBVIOUS
<1>3. Front(Append(r.dir, r.name)) = r.dir /\ Last(Append(r.dir, r.name)) = r.name
  BY <1>2, Joined
<1> QED
  BY <1>1, <1>2, <1>3 DEF RowOf, Parent

LEMMA RowsApart ==
  ASSUME NEW v \in Seq(Name), v # <<>>, NEW x \in Seq(Name), x # <<>>, NEW u, NEW w
  PROVE  RowOf(w, x) = RowOf(u, v) <=> w = u /\ x = v
<1>1. Append(Front(v), Last(v)) = v /\ Append(Front(x), Last(x)) = x
  BY Ends
<1> QED
  BY <1>1 DEF RowOf, Parent

\* What a row of the store becomes: a row of the owner of a path that can be stored.
LEMMA OwnersRow ==
  ASSUME NEW v \in Seq(Name), OwnerOf(v) # Nobody, ~IsTop(Resolve(OwnerOf(v), v))
  PROVE  /\ RowOf(OwnerOf(v), v) \in [user : User, dir : Seq(Name), name : Name]
         /\ RowOf(OwnerOf(v), v).dir # <<>>
         /\ OwnerOf(RowOf(OwnerOf(v), v).dir) = RowOf(OwnerOf(v), v).user
<1>1. /\ OwnerOf(v) \in User /\ v # <<>> /\ Front(v) # <<>>
      /\ OwnerOf(Front(v)) = OwnerOf(v)
  BY OwnPlace
<1>2. Front(v) \in Seq(Name) /\ Last(v) \in Name
  BY <1>1, Ends
<1> QED
  BY <1>1, <1>2 DEF RowOf, Parent

LEMMA PairedIsListed ==
  ASSUME RowsInv, FilesInv, Paired
  PROVE  ListedIsThere
<1> SUFFICES ASSUME ~torn, NEW u \in User \ {Admin}
             PROVE  {Append(r.dir, r.name) : r \in {s \in rows : s.user = u}}
                      = {q \in DOMAIN files : q[1] = "User" /\ q[2] = u /\ q[3] # ".Trash"}
  BY DEF ListedIsThere
<1>1. ASSUME NEW r \in rows, r.user = u
      PROVE  LET q == Append(r.dir, r.name) IN
             q \in DOMAIN files /\ q[1] = "User" /\ q[2] = u /\ q[3] # ".Trash"
  <2> DEFINE q == Append(r.dir, r.name)
  <2>1. r \in [user : User, dir : Seq(Name), name : Name]
    BY DEF RowsInv
  <2>2. q \in Seq(Name) \ {<<>>}
    BY <2>1, Joined
  <2>3. r = RowOf(u, q)
    BY <2>1, <2>2, <1>1, SameRow
  <2>4. q \in DOMAIN files /\ q[1] = "User" /\ q[2] = u
    <3>1. RowOf(u, q) \in rows
      BY <1>1, <2>3
    <3> HIDE DEF q
    <3> QED
      BY <2>2, <3>1 DEF Paired
  <2>5. q \in Place
    <3>1. q \in Place \cup Kept \cup Blobs /\ q \in Seq(Name)
      BY <2>2, <2>4 DEF FilesInv
    <3> HIDE DEF q
    <3> QED
      BY <3>1, BlobPlaces, KeptPlaces DEF Blobs
  <2> QED
    BY <2>4, <2>5, PlaceIsNoBlob
<1>2. ASSUME NEW q \in DOMAIN files, q[1] = "User", q[2] = u, q[3] # ".Trash"
      PROVE  \E r \in rows : r.user = u /\ q = Append(r.dir, r.name)
  <2>1. q \in Place
    BY <1>2, BlobPlaces, KeptPlaces DEF FilesInv, Blobs
  <2>2. q \in Seq(Name) \ {<<>>}
    BY <2>1 DEF Place
  <2>3. RowOf(u, q) \in rows
    BY <1>2, <2>2 DEF Paired
  <2>4. RowOf(u, q) \in [user : User, dir : Seq(Name), name : Name]
    BY <2>3 DEF RowsInv
  <2>5. RowOf(u, q).user = u /\ Append(RowOf(u, q).dir, RowOf(u, q).name) = q
    BY <2>2, <2>4, SameRow
  <2> QED
    BY <2>3, <2>5
<1> QED
  BY <1>1, <1>2

\* The trash stays right when the blobs of the rows that stay in it do.
LEMMA TrashStays ==
  ASSUME TrashInv, fresh \in Nat, fresh' \in Nat, fresh <= fresh', trash' \subseteq trash,
         \A r \in trash' : /\ Blob(r.user, r.id) \in DOMAIN files'
                            /\ files'[Blob(r.user, r.id)] = files[Blob(r.user, r.id)]
  PROVE  TrashInv'
<1>1. ASSUME NEW r \in trash'
      PROVE  /\ r.user \in User /\ r.id \in Nat /\ r.id < fresh'
             /\ r.dir \in Seq(Name) /\ r.name \in Name
             /\ r.dir # <<>> /\ r.dir[1] # "Trash"
             /\ Blob(r.user, r.id) \in DOMAIN files'
             /\ files'[Blob(r.user, r.id)] = r.content
  BY DEF TrashInv
<1>2. \A r, s \in trash' : r.id = s.id => r = s
  BY DEF TrashInv
<1> QED
  BY <1>1, <1>2 DEF TrashInv, Blob

-----------------------------------------------------------------------------
(* The operations on files *)

\* The trash stays when only files at places of paths are written or removed.
LEMMA BlobsStay ==
  ASSUME TrashInv, fresh \in Nat, UNCHANGED <<trash, fresh>>,
         \A u \in User, i \in Nat : Blob(u, i) \in DOMAIN files =>
           Blob(u, i) \in DOMAIN files' /\ files'[Blob(u, i)] = files[Blob(u, i)]
  PROVE  TrashInv'
<1>1. \A r \in trash' : /\ Blob(r.user, r.id) \in DOMAIN files'
                        /\ files'[Blob(r.user, r.id)] = files[Blob(r.user, r.id)]
  BY DEF TrashInv
<1> QED
  BY <1>1, TrashStays

LEMMA SaveKeeps ==
  ASSUME TreesInv, NEW u \in User, NEW v \in Seq(Name), v # <<>>, NEW c, SaveFile(u, v, c)
  PROVE  TreesInv'
<1> DEFINE q == SavePlace(u, v)
<1> DEFINE o == OwnerOf(v)
<1>1. /\ q # NoPlace /\ files' = With(files, q, c)
      /\ rows' = IF Top(v, "AppData") THEN rows ELSE rows \cup {RowOf(o, v)}
      /\ UNCHANGED <<trash, fresh, torn>>
  BY DEF SaveFile
<1>2. /\ q \in Place
      /\ Top(v, "AppData") => q[1] = "AppData"
      /\ ~Top(v, "AppData") => o # Nobody /\ ~IsTop(Resolve(o, v)) /\ q = Resolve(o, v)
  BY <1>1, SavedPlace
<1>3. /\ ~Top(v, "AppData") => q[1] = "User" /\ q[2] = o /\ o \in User /\ (o # Admin => q = v)
  BY <1>2, OwnPlace
<1> HIDE DEF q
<1>4. /\ DOMAIN files' = DOMAIN files \cup {q} /\ files' = [x \in DOMAIN files' |-> files'[x]]
      /\ \A x \in DOMAIN files' : files'[x] = IF x = q THEN c ELSE files[x]
  <2> DEFINE g == With(files, q, c)
  <2>1. /\ DOMAIN g = DOMAIN files \cup {q} /\ g = [x \in DOMAIN g |-> g[x]]
        /\ \A x \in DOMAIN files \cup {q} : g[x] = IF x = q THEN c ELSE files[x]
    BY DEF With
  <2>2. files' = g
    BY <1>1
  <2> HIDE DEF g
  <2> QED
    BY <2>1, <2>2
<1>5. FilesInv'
  BY <1>2, <1>4 DEF TreesInv, FilesInv, Place, Kept, Blobs, Blob
<1>6. RowsInv'
  <2>1. CASE Top(v, "AppData")
    BY <1>1, <2>1 DEF TreesInv, RowsInv, OwnerOf, Owned, Top
  <2>2. CASE ~Top(v, "AppData")
    <3>1. /\ RowOf(o, v) \in [user : User, dir : Seq(Name), name : Name]
          /\ RowOf(o, v).dir # <<>> /\ OwnerOf(RowOf(o, v).dir) = RowOf(o, v).user
      BY <2>2, <1>2, OwnersRow
    <3>2. rows' = rows \cup {RowOf(o, v)}
      BY <1>1, <2>2
    <3> QED
      BY <3>1, <3>2 DEF TreesInv, RowsInv, OwnerOf, Owned, Top
  <2> QED
    BY <2>1, <2>2
<1>7. TrashInv'
  <2>1. \A w \in User, i \in Nat : Blob(w, i) # q
    BY <1>2, PlaceIsNoBlob
  <2> QED
    BY <2>1, <1>1, <1>4, BlobsStay DEF TreesInv
<1>8. Paired'
  <2> SUFFICES ASSUME ~torn, NEW w \in User \ {Admin}, NEW x \in Seq(Name) \ {<<>>}
               PROVE  RowOf(w, x) \in rows' <=> x \in DOMAIN files' /\ x[1] = "User" /\ x[2] = w
    BY <1>1 DEF Paired, RowOf, Parent
  <2>1. RowOf(w, x) \in rows <=> x \in DOMAIN files /\ x[1] = "User" /\ x[2] = w
    BY DEF TreesInv, Paired
  <2>2. CASE Top(v, "AppData")
    BY <1>1, <1>2, <1>4, <2>1, <2>2
  <2>3. CASE ~Top(v, "AppData")
    <3>1. RowOf(w, x) = RowOf(o, v) <=> w = o /\ x = v
      BY RowsApart
    <3> QED
      BY <1>1, <1>3, <1>4, <2>1, <2>3, <3>1
  <2> QED
    BY <2>2, <2>3
<1> QED
  BY <1>1, <1>5, <1>6, <1>7, <1>8 DEF TreesInv

LEMMA MoveAppKeeps ==
  ASSUME TreesInv, NEW u \in User, NEW f \in Seq(Name), NEW t \in Seq(Name), MoveApp(u, f, t)
  PROVE  TreesInv'
<1> DEFINE from == Resolve(u, f)
<1> DEFINE to == Resolve(u, t)
<1>1. /\ ~Top(f, "Trash") /\ from \in DOMAIN files /\ to # NoPlace /\ ~IsTop(to)
      /\ files' = With(Lose(files, {from}), to, files[from])
      /\ torn' = TRUE /\ UNCHANGED <<rows, trash, fresh>>
  BY DEF MoveApp, CanMoveApp
<1>2. to \in Place \cup Kept
  BY <1>1, AskedPlace
<1>3. from \in Place
  <2>1. from \in Seq(Name)
    <3>1. /\ <<"User", Admin>> \o f \in Seq(Name) /\ <<"User", u>> \o f \in Seq(Name)
          /\ NoPlace \in Seq(Name)
      BY PrefixedBy, TreesAssumption DEF NoPlace
    <3>2. ~Top(f, "Trash")
      BY <1>1
    <3> QED
      BY ONLY <3>1, <3>2, f \in Seq(Name) DEF Resolve
  <2> HIDE DEF from
  <2> QED
    BY <1>1, <2>1, BlobPlaces, KeptPlaces DEF TreesInv, FilesInv, Blobs
<1> HIDE DEF from, to
<1>4. /\ DOMAIN files' = (DOMAIN files \ {from}) \cup {to}
      /\ files' = [x \in DOMAIN files' |-> files'[x]]
      /\ \A x \in DOMAIN files' : x # to => files'[x] = files[x]
  <2> DEFINE g == With(Lose(files, {from}), to, files[from])
  <2>1. /\ DOMAIN g = (DOMAIN files \ {from}) \cup {to} /\ g = [x \in DOMAIN g |-> g[x]]
        /\ \A x \in DOMAIN g : x # to => g[x] = files[x]
    BY DEF With, Lose
  <2>2. files' = g
    BY <1>1
  <2> HIDE DEF g
  <2> QED
    BY <2>1, <2>2
<1>5. FilesInv'
  BY <1>2, <1>4 DEF TreesInv, FilesInv, Place, Kept, Blobs, Blob
<1>6. RowsInv'
  BY <1>1 DEF TreesInv, RowsInv, OwnerOf, Owned, Top
<1>7. TrashInv'
  <2>1. \A w \in User, i \in Nat : Blob(w, i) # from /\ Blob(w, i) # to
    BY <1>2, <1>3, PlaceIsNoBlob, KeptPlaces
  <2> QED
    BY <2>1, <1>1, <1>4, BlobsStay DEF TreesInv
<1> QED
  BY <1>1, <1>5, <1>6, <1>7 DEF TreesInv, Paired

\* A file that a tree holds, named by its owner: at no top, and so in the right place.
LEMMA HeldPlace ==
  ASSUME FilesInv, NEW v \in Seq(Name), OwnerOf(v) # Nobody, Resolve(OwnerOf(v), v) \in DOMAIN files
  PROVE  ~IsTop(Resolve(OwnerOf(v), v))
<1> DEFINE q == Resolve(OwnerOf(v), v)
<1>1. q \in Seq(Name)
  BY PrefixedBy, EmptySeq, TreesAssumption DEF Resolve, NoPlace, OwnerOf, Owned, Top
<1>2. q \in DOMAIN files
  OBVIOUS
<1> HIDE DEF q
<1>3. q \in Place
  BY <1>1, <1>2, BlobPlaces, KeptPlaces DEF FilesInv, Blobs
<1>4. ~IsTop(q)
  <2>1. CASE q[1] = "AppData"
    BY <2>1 DEF IsTop, Top
  <2>2. CASE q[1] = "User" /\ Len(q) > 2 /\ q # <<"User", Admin, "System">>
    <3>0. Len(q) \in Nat
      BY <1>1
    <3>1. Len(q) # 2
      BY <3>0, <2>2, Beyond, Zenon
    <3>2. q[3] # ".Trash"
      BY <1>3, <2>2, PlaceIsNoBlob
    <3> QED
      BY <2>2, <3>1, <3>2, Zenon DEF IsTop
  <2> QED
    BY <1>3, <2>1, <2>2 DEF Place
<1> QED
  BY <1>4 DEF q

LEMMA MoveOwnKeeps ==
  ASSUME TreesInv, NEW u \in User, NEW f \in Seq(Name), NEW t \in Seq(Name), MoveOwn(u, f, t)
  PROVE  TreesInv'
<1> DEFINE o == OwnerOf(f)
<1> DEFINE from == Resolve(o, f)
<1> DEFINE to == Resolve(o, t)
<1> DEFINE moves == RowOf(o, f) \in rows /\ ~Clash(o, f, t)
<1>1. /\ o # Nobody /\ OwnerOf(t) = o /\ from \in DOMAIN files /\ ~IsTop(to)
      /\ files' = With(Lose(files, {from}), to, files[from])
      /\ rows' = IF moves THEN (rows \ {RowOf(o, f)}) \cup {RowOf(o, t)} ELSE rows
      /\ torn' = (torn \/ Clash(o, f, t))
      /\ UNCHANGED <<trash, fresh>>
  BY DEF MoveOwn, CanMoveOwn, May
<1>2. ~IsTop(from)
  BY <1>1, HeldPlace DEF TreesInv
<1>3. /\ o \in User /\ f # <<>> /\ t # <<>> /\ from \in Place /\ to \in Place
      /\ from[1] = "User" /\ from[2] = o /\ to[1] = "User" /\ to[2] = o
      /\ o # Admin => from = f /\ to = t
  <2>1. o \in User /\ f # <<>> /\ from \in Place /\ from[1] = "User" /\ from[2] = o /\ (o # Admin => from = f)
    BY <1>1, <1>2, OwnPlace
  <2>2. OwnerOf(t) # Nobody /\ ~IsTop(Resolve(OwnerOf(t), t)) /\ OwnerOf(t) = o
    BY <1>1
  <2>3. t # <<>> /\ to \in Place /\ to[1] = "User" /\ to[2] = o /\ (o # Admin => to = t)
    BY <2>2, OwnPlace
  <2> QED
    BY <2>1, <2>3
<1>4. /\ DOMAIN files' = (DOMAIN files \ {from}) \cup {to}
      /\ files' = [x \in DOMAIN files' |-> files'[x]]
      /\ \A x \in DOMAIN files' : x # to => files'[x] = files[x]
  <2> HIDE DEF from, to
  <2> DEFINE g == With(Lose(files, {from}), to, files[from])
  <2>1. /\ DOMAIN g = (DOMAIN files \ {from}) \cup {to} /\ g = [x \in DOMAIN g |-> g[x]]
        /\ \A x \in DOMAIN g : x # to => g[x] = files[x]
    BY DEF With, Lose
  <2>2. files' = g
    BY <1>1
  <2> HIDE DEF g
  <2> QED
    BY <2>1, <2>2
<1>5. FilesInv'
  <2> HIDE DEF from, to
  <2> QED
    BY <1>3, <1>4 DEF TreesInv, FilesInv, Place, Kept, Blobs, Blob
<1>6. RowsInv'
  <2>1. /\ RowOf(o, t) \in [user : User, dir : Seq(Name), name : Name]
        /\ RowOf(o, t).dir # <<>> /\ OwnerOf(RowOf(o, t).dir) = RowOf(o, t).user
    <3>1. OwnerOf(t) # Nobody /\ ~IsTop(Resolve(OwnerOf(t), t)) /\ OwnerOf(t) = o
      BY <1>1
    <3> QED
      BY <3>1, OwnersRow
  <2>2. rows' \subseteq rows \cup {RowOf(o, t)}
    BY <1>1
  <2> QED
    BY <2>1, <2>2 DEF TreesInv, RowsInv, OwnerOf, Owned, Top
<1>7. TrashInv'
  <2> HIDE DEF from, to
  <2>1. \A w \in User, i \in Nat : Blob(w, i) # from /\ Blob(w, i) # to
    BY <1>3, PlaceIsNoBlob
  <2> QED
    BY <2>1, <1>1, <1>4, BlobsStay DEF TreesInv
<1>8. Paired'
  <2> SUFFICES ASSUME ~torn', NEW w \in User \ {Admin}, NEW x \in Seq(Name) \ {<<>>}
               PROVE  RowOf(w, x) \in rows' <=> x \in DOMAIN files' /\ x[1] = "User" /\ x[2] = w
    BY DEF Paired, RowOf, Parent
  <2>0. ~torn /\ ~Clash(o, f, t)
    BY <1>1
  <2>1. RowOf(w, x) \in rows <=> x \in DOMAIN files /\ x[1] = "User" /\ x[2] = w
    BY <2>0 DEF TreesInv, Paired
  <2>2. /\ RowOf(w, x) = RowOf(o, f) <=> w = o /\ x = f
        /\ RowOf(w, x) = RowOf(o, t) <=> w = o /\ x = t
    BY <1>3, RowsApart
  <2>3. CASE w # o
    <3> HIDE DEF from, to
    <3>1. RowOf(w, x) \in rows' <=> RowOf(w, x) \in rows
      BY <1>1, <2>2, <2>3
    <3>2. x[1] = "User" /\ x[2] = w => (x \in DOMAIN files' <=> x \in DOMAIN files)
      BY <1>3, <1>4, <2>3
    <3> QED
      BY <3>1, <3>2, <2>1
  <2>4. CASE w = o
    <3>1. from = f /\ to = t /\ f \in Seq(Name) \ {<<>>}
      BY <1>3, <2>4
    <3>2. RowOf(o, f) \in rows
      BY <3>1, <1>1, <1>3, <2>0, <2>4 DEF TreesInv, Paired
    <3>3. rows' = (rows \ {RowOf(o, f)}) \cup {RowOf(o, t)}
      BY <3>2, <2>0, <1>1
    <3> HIDE DEF from, to
    <3>4. x = t => x[1] = "User" /\ x[2] = w
      BY <3>1, <1>3, <2>4
    <3> QED
      BY <3>1, <3>3, <3>4, <1>4, <2>1, <2>2, <2>4
  <2> QED
    BY <2>3, <2>4
<1> QED
  BY <1>1, <1>5, <1>6, <1>7, <1>8 DEF TreesInv

LEMMA DeleteAppKeeps ==
  ASSUME TreesInv, NEW u \in User, NEW v \in Seq(Name), DeleteApp(u, v)
  PROVE  TreesInv'
<1>1. Top(v, "AppData") /\ Resolve(u, v) = v /\ v[1] = "AppData"
  BY DEF DeleteApp, CanDeleteApp, Resolve, Top
<1>2. /\ files' = Lose(files, {v})
      /\ UNCHANGED <<rows, trash, fresh, torn>>
  BY <1>1 DEF DeleteApp
<1>3. /\ DOMAIN files' = DOMAIN files \ {v}
      /\ files' = [x \in DOMAIN files' |-> files'[x]]
      /\ \A x \in DOMAIN files' : files'[x] = files[x]
  <2> DEFINE g == Lose(files, {v})
  <2>1. /\ DOMAIN g = DOMAIN files \ {v} /\ g = [x \in DOMAIN g |-> g[x]]
        /\ \A x \in DOMAIN g : g[x] = files[x]
    BY DEF Lose
  <2>2. files' = g
    BY <1>2
  <2> HIDE DEF g
  <2> QED
    BY <2>1, <2>2
<1>4. FilesInv'
  BY <1>3 DEF TreesInv, FilesInv, Place, Kept, Blobs, Blob
<1>5. RowsInv'
  BY <1>2 DEF TreesInv, RowsInv, OwnerOf, Owned, Top
<1>6. TrashInv'
  <2>1. \A w \in User, i \in Nat : Blob(w, i) # v
    BY BlobPlaces
  <2> QED
    BY <2>1, <1>2, <1>3, BlobsStay DEF TreesInv
<1>7. Paired'
  <2> SUFFICES ASSUME ~torn, NEW w \in User \ {Admin}, NEW x \in Seq(Name) \ {<<>>}
               PROVE  RowOf(w, x) \in rows' <=> x \in DOMAIN files' /\ x[1] = "User" /\ x[2] = w
    BY <1>2 DEF Paired, RowOf, Parent
  <2>1. RowOf(w, x) \in rows <=> x \in DOMAIN files /\ x[1] = "User" /\ x[2] = w
    BY DEF TreesInv, Paired
  <2> QED
    BY <2>1, <1>1, <1>2, <1>3
<1> QED
  BY <1>2, <1>4, <1>5, <1>6, <1>7 DEF TreesInv

LEMMA DeleteOwnKeeps ==
  ASSUME TreesInv, NEW u \in User, NEW v \in Seq(Name), DeleteOwn(u, v)
  PROVE  TreesInv'
<1> DEFINE o == OwnerOf(v)
<1> DEFINE q == Resolve(o, v)
<1> DEFINE b == Blob(o, fresh)
<1> DEFINE new == TrashRow(o, v, files[q])
<1>1. /\ o # Nobody /\ q \in DOMAIN files
      /\ files' = With(Lose(files, {q}), b, files[q])
      /\ trash' = trash \cup {new} /\ rows' = rows \ {RowOf(o, v)}
      /\ fresh' = fresh + 1 /\ torn' = torn
  BY DEF DeleteOwn, CanDeleteOwn, May
<1>2. ~IsTop(q)
  BY <1>1, HeldPlace DEF TreesInv
<1>3. /\ o \in User /\ v # <<>> /\ q \in Place /\ q[1] = "User" /\ q[2] = o
      /\ o # Admin => q = v
      /\ Front(v) # <<>> /\ Front(v)[1] \in {"User", "System"}
  BY <1>1, <1>2, OwnPlace
<1>4. Front(v) \in Seq(Name) /\ Last(v) \in Name
  BY <1>3, Ends
<1>5. new = [id |-> fresh, user |-> o, dir |-> Front(v), name |-> Last(v), content |-> files[q]]
  BY DEF TrashRow, Parent
<1>6. fresh \in Nat \ {0}
  BY DEF TreesInv
<1> HIDE DEF q, new, b
<1>7. /\ DOMAIN files' = (DOMAIN files \ {q}) \cup {b}
      /\ files' = [x \in DOMAIN files' |-> files'[x]]
      /\ files'[b] = files[q]
      /\ \A x \in DOMAIN files' : x # b => files'[x] = files[x]
  <2> DEFINE g == With(Lose(files, {q}), b, files[q])
  <2>1. /\ DOMAIN g = (DOMAIN files \ {q}) \cup {b} /\ g = [x \in DOMAIN g |-> g[x]]
        /\ g[b] = files[q]
        /\ \A x \in DOMAIN g : x # b => g[x] = files[x]
    BY DEF With, Lose
  <2>2. files' = g
    BY <1>1
  <2> HIDE DEF g
  <2> QED
    BY <2>1, <2>2
<1>8. /\ b \in Blobs /\ b \notin Seq(Name)
      /\ \A w \in User, i \in Nat : Blob(w, i) # q /\ (Blob(w, i) = b => i = fresh)
  BY <1>3, <1>6, PlaceIsNoBlob, BlobPlaces DEF Blobs, b
<1>9. FilesInv'
  BY <1>7, <1>8 DEF TreesInv, FilesInv, Place, Kept, Blobs, Blob
<1>10. RowsInv'
  BY <1>1 DEF TreesInv, RowsInv, OwnerOf, Owned, Top
<1>11. TrashInv'
  <2>1. \A r \in trash : /\ r.user \in User /\ r.id \in Nat /\ r.id < fresh
                         /\ r.dir \in Seq(Name) /\ r.name \in Name
                         /\ r.dir # <<>> /\ r.dir[1] # "Trash"
                         /\ Blob(r.user, r.id) \in DOMAIN files
                         /\ files[Blob(r.user, r.id)] = r.content
    BY DEF TreesInv, TrashInv
  <2>2. ASSUME NEW r \in trash
        PROVE  /\ r.user \in User /\ r.id \in Nat /\ r.id < fresh'
               /\ r.dir \in Seq(Name) /\ r.name \in Name
               /\ r.dir # <<>> /\ r.dir[1] # "Trash"
               /\ Blob(r.user, r.id) \in DOMAIN files'
               /\ files'[Blob(r.user, r.id)] = r.content
    <3>1. r.id # fresh /\ r.id < fresh'
      BY <2>1, <1>1, <1>6
    <3>2. Blob(r.user, r.id) # q /\ Blob(r.user, r.id) # b
      BY <2>1, <3>1, <1>8
    <3> QED
      BY <2>1, <3>1, <3>2, <1>7
  <2>3. /\ new.user \in User /\ new.id \in Nat /\ new.id < fresh'
        /\ new.dir \in Seq(Name) /\ new.name \in Name
        /\ new.dir # <<>> /\ new.dir[1] # "Trash"
        /\ Blob(new.user, new.id) \in DOMAIN files'
        /\ files'[Blob(new.user, new.id)] = new.content
    <3>1. new.user = o /\ new.id = fresh /\ new.dir = Front(v) /\ new.name = Last(v) /\ new.content = files[q]
      BY <1>5
    <3>2. Blob(new.user, new.id) = b
      BY <3>1 DEF b
    <3> QED
      BY <3>1, <3>2, <1>1, <1>3, <1>4, <1>6, <1>7
  <2>4. \A r, s \in trash : r.id = s.id => r = s
    BY DEF TreesInv, TrashInv
  <2>5. \A r \in trash : r.id # new.id
    BY <2>1, <1>5, <1>6
  <2>6. \A r, s \in trash' : r.id = s.id => r = s
    BY <2>4, <2>5, <1>1
  <2>7. \A r \in trash' :
          /\ r.user \in User /\ r.id \in Nat /\ r.id < fresh'
          /\ r.dir \in Seq(Name) /\ r.name \in Name
          /\ r.dir # <<>> /\ r.dir[1] # "Trash"
          /\ Blob(r.user, r.id) \in DOMAIN files'
          /\ files'[Blob(r.user, r.id)] = r.content
    BY <2>2, <2>3, <1>1
  <2> QED
    BY <2>6, <2>7 DEF TrashInv, Blob
<1>12. Paired'
  <2> SUFFICES ASSUME ~torn, NEW w \in User \ {Admin}, NEW x \in Seq(Name) \ {<<>>}
               PROVE  RowOf(w, x) \in rows' <=> x \in DOMAIN files' /\ x[1] = "User" /\ x[2] = w
    BY <1>1 DEF Paired, RowOf, Parent
  <2>1. RowOf(w, x) \in rows <=> x \in DOMAIN files /\ x[1] = "User" /\ x[2] = w
    BY DEF TreesInv, Paired
  <2>2. RowOf(w, x) = RowOf(o, v) <=> w = o /\ x = v
    BY <1>3, RowsApart
  <2>3. x # b
    BY <1>8
  <2> QED
    BY <2>1, <2>2, <2>3, <1>1, <1>3, <1>7
<1> QED
  BY <1>1, <1>6, <1>9, <1>10, <1>11, <1>12 DEF TreesInv

\* What only drops blobs, and with each the rows that need it, keeps the trees.
LEMMA DropKeeps ==
  ASSUME TreesInv, NEW gone, gone \subseteq trash,
         files' = Lose(files, {Blob(r.user, r.id) : r \in gone}),
         trash' = trash \ gone, UNCHANGED <<rows, fresh, torn>>
  PROVE  TreesInv'
<1> DEFINE B == {Blob(r.user, r.id) : r \in gone}
<1>1. /\ \A r \in trash : r.user \in User /\ r.id \in Nat
      /\ \A r, s \in trash : r.id = s.id => r = s
  BY DEF TreesInv, TrashInv
<1>2. B \subseteq Blobs
  BY <1>1 DEF Blobs
<1>3. \A r \in trash' : Blob(r.user, r.id) \notin B
  BY <1>1, BlobPlaces
<1> HIDE DEF B
<1>4. /\ DOMAIN files' = DOMAIN files \ B
      /\ files' = [x \in DOMAIN files' |-> files'[x]]
      /\ \A x \in DOMAIN files' : files'[x] = files[x]
  <2> DEFINE g == Lose(files, B)
  <2>1. /\ DOMAIN g = DOMAIN files \ B /\ g = [x \in DOMAIN g |-> g[x]]
        /\ \A x \in DOMAIN g : g[x] = files[x]
    BY DEF Lose
  <2>2. files' = g
    BY DEF B
  <2> HIDE DEF g
  <2> QED
    BY <2>1, <2>2
<1>5. FilesInv'
  <2>1. DOMAIN files' \subseteq Place \cup Kept \cup Blobs
    BY <1>4 DEF TreesInv, FilesInv
  <2> QED
    BY ONLY <1>4, <2>1 DEF FilesInv, Place, Kept, Blobs, Blob
<1>6. RowsInv'
  BY DEF TreesInv, RowsInv, OwnerOf, Owned, Top
<1>7. TrashInv'
  <2>1. \A r \in trash' : /\ Blob(r.user, r.id) \in DOMAIN files'
                          /\ files'[Blob(r.user, r.id)] = files[Blob(r.user, r.id)]
    BY <1>3, <1>4 DEF TreesInv, TrashInv
  <2> QED
    BY <2>1, TrashStays DEF TreesInv
<1>8. Paired'
  <2> SUFFICES ASSUME ~torn, NEW w \in User \ {Admin}, NEW x \in Seq(Name) \ {<<>>}
               PROVE  RowOf(w, x) \in rows' <=> x \in DOMAIN files' /\ x[1] = "User" /\ x[2] = w
    BY DEF Paired, RowOf, Parent
  <2>1. RowOf(w, x) \in rows <=> x \in DOMAIN files /\ x[1] = "User" /\ x[2] = w
    BY DEF TreesInv, Paired
  <2>2. x \notin B
    BY <1>2, BlobPlaces DEF Blobs
  <2> QED
    BY <2>1, <2>2, <1>4
<1> QED
  BY <1>5, <1>6, <1>7, <1>8 DEF TreesInv

LEMMA DeleteTrashKeeps ==
  ASSUME TreesInv, NEW u \in User, NEW v, DeleteTrash(u, v)
  PROVE  TreesInv'
<1> DEFINE found == IF OriginalDir(Parent(v)) = <<>> THEN Found(u, v) ELSE {}
<1>1. found \subseteq trash /\ \A r \in found : r.user = u
  BY DEF Found
<1>2. /\ files' = Lose(files, {Blob(u, r.id) : r \in found})
      /\ trash' = trash \ found /\ UNCHANGED <<rows, fresh, torn>>
  BY DEF DeleteTrash
<1> HIDE DEF found
<1>3. {Blob(u, r.id) : r \in found} = {Blob(r.user, r.id) : r \in found}
  BY <1>1
<1> QED
  BY <1>1, <1>2, <1>3, DropKeeps

LEMMA PurgeKeeps ==
  ASSUME TreesInv, NEW r \in trash, Purge(r)
  PROVE  TreesInv'
<1>1. {Blob(s.user, s.id) : s \in {r}} = {Blob(r.user, r.id)}
  OBVIOUS
<1>2. /\ files' = Lose(files, {Blob(s.user, s.id) : s \in {r}})
      /\ trash' = trash \ {r} /\ UNCHANGED <<rows, fresh, torn>>
  BY <1>1 DEF Purge
<1> QED
  BY <1>2, DropKeeps

\* A restore drops all rows of a place and the blob of one of them; the blobs of the
\* others stay, without rows.
LEMMA RestoreKeeps ==
  ASSUME TreesInv, NEW u \in User, NEW v, NEW t \in Seq(Name), Restore(u, v, t)
  PROVE  TreesInv'
<1> DEFINE o == OwnerOf(t)
<1> DEFINE to == Resolve(o, t)
<1>1. /\ o # Nobody /\ ~IsTop(to)
      /\ rows' = rows \cup {RowOf(o, t)}
      /\ trash' = trash \ Found(u, v) /\ UNCHANGED <<fresh, torn>>
  BY DEF Restore, CanRestore, May
<1>2. PICK r \in Restorable(u, v) :
        files' = Lose(With(files, to, files[Blob(u, r.id)]), {Blob(u, r.id)})
  BY DEF Restore
<1> DEFINE b == Blob(u, r.id)
<1>3. r \in Found(u, v) /\ r \in trash /\ r.user = u /\ r.id \in Nat
  BY <1>2 DEF Restorable, Found, TreesInv, TrashInv
<1>4. /\ o \in User /\ t # <<>> /\ to \in Place /\ to[1] = "User" /\ to[2] = o
      /\ o # Admin => to = t
  BY <1>1, OwnPlace
<1> HIDE DEF to, b
<1>5. /\ DOMAIN files' = (DOMAIN files \cup {to}) \ {b}
      /\ files' = [x \in DOMAIN files' |-> files'[x]]
      /\ \A x \in DOMAIN files' : x # to => files'[x] = files[x]
  <2> DEFINE g == Lose(With(files, to, files[b]), {b})
  <2>1. /\ DOMAIN g = (DOMAIN files \cup {to}) \ {b} /\ g = [x \in DOMAIN g |-> g[x]]
        /\ \A x \in DOMAIN g : x # to => g[x] = files[x]
    BY DEF With, Lose
  <2>2. files' = g
    BY <1>2 DEF b
  <2> HIDE DEF g
  <2> QED
    BY <2>1, <2>2
<1>6. /\ b \notin Seq(Name) /\ \A w \in User, i \in Nat : Blob(w, i) # to /\ (Blob(w, i) = b => i = r.id)
  BY <1>3, <1>4, PlaceIsNoBlob, BlobPlaces DEF b
<1>7. FilesInv'
  <2>1. DOMAIN files' \subseteq Place \cup Kept \cup Blobs
    BY <1>4, <1>5 DEF TreesInv, FilesInv
  <2> QED
    BY ONLY <1>5, <2>1 DEF FilesInv, Place, Kept, Blobs, Blob
<1>8. RowsInv'
  <2>1. /\ RowOf(o, t) \in [user : User, dir : Seq(Name), name : Name]
        /\ RowOf(o, t).dir # <<>> /\ OwnerOf(RowOf(o, t).dir) = RowOf(o, t).user
    BY <1>1, OwnersRow DEF to
  <2> QED
    BY <2>1, <1>1 DEF TreesInv, RowsInv, OwnerOf, Owned, Top
<1>9. TrashInv'
  <2>1. ASSUME NEW s \in trash'
        PROVE  /\ Blob(s.user, s.id) \in DOMAIN files'
               /\ files'[Blob(s.user, s.id)] = files[Blob(s.user, s.id)]
    <3>1. /\ s \in trash /\ s \notin Found(u, v) /\ s.user \in User /\ s.id \in Nat
          /\ Blob(s.user, s.id) \in DOMAIN files
      BY <1>1 DEF TreesInv, TrashInv
    <3>2. s.id # r.id
      BY <3>1, <1>3 DEF TreesInv, TrashInv
    <3>3. Blob(s.user, s.id) # to /\ Blob(s.user, s.id) # b
      BY <3>1, <3>2, <1>6
    <3> QED
      BY <3>1, <3>3, <1>5
  <2> QED
    BY <2>1, <1>1, TrashStays DEF TreesInv
<1>10. Paired'
  <2> SUFFICES ASSUME ~torn, NEW w \in User \ {Admin}, NEW x \in Seq(Name) \ {<<>>}
               PROVE  RowOf(w, x) \in rows' <=> x \in DOMAIN files' /\ x[1] = "User" /\ x[2] = w
    BY <1>1 DEF Paired, RowOf, Parent
  <2>1. RowOf(w, x) \in rows <=> x \in DOMAIN files /\ x[1] = "User" /\ x[2] = w
    BY DEF TreesInv, Paired
  <2>2. RowOf(w, x) = RowOf(o, t) <=> w = o /\ x = t
    BY <1>4, RowsApart
  <2>3. x # b
    BY <1>6
  <2> QED
    BY <2>1, <2>2, <2>3, <1>1, <1>4, <1>5
<1> QED
  BY <1>1, <1>7, <1>8, <1>9, <1>10 DEF TreesInv

\* A step that leaves the trees alone.
LEMMA TreesStay ==
  ASSUME TreesInv, UNCHANGED trees
  PROVE  TreesInv'
BY DEF TreesInv, trees, FilesInv, RowsInv, TrashInv, Paired, RowOf, Parent, OwnerOf, Owned, Top,
       Place, Kept, Blobs, Blob

-----------------------------------------------------------------------------
(* What the invariant says of the trash *)

\* What is in the trash is found, and can be restored.
LEMMA TrashIsListed ==
  ASSUME TrashInv
  PROVE  ListedIsRestorable
<1> SUFFICES ASSUME NEW r \in trash
             PROVE  LET at == <<"Trash">> \o r.dir IN
                    /\ r.name \in Listing(r.user, at)
                    /\ r \in Found(r.user, Append(at, r.name))
                    /\ \A s \in Found(r.user, Append(at, r.name)) :
                         Blob(s.user, s.id) \in DOMAIN files /\ files[Blob(s.user, s.id)] = s.content
  BY DEF ListedIsRestorable
<1> DEFINE at == <<"Trash">> \o r.dir
<1>1. r.dir \in Seq(Name) /\ r.dir # <<>> /\ r.dir[1] # "Trash" /\ r.name \in Name
  BY DEF TrashInv
<1>2. OriginalDir(at) = r.dir
  BY <1>1, Untrashed
<1>3. at \in Seq(Name \cup {"Trash"}) /\ Top(at, "Trash")
  <2>1. Len(r.dir) \in Nat /\ r.dir \in Seq(Name \cup {"Trash"}) /\ <<"Trash">> \in Seq(Name \cup {"Trash"})
    BY <1>1
  <2>2. at \in Seq(Name \cup {"Trash"}) /\ Len(at) = Len(r.dir) + 1 /\ at[1] = "Trash"
    BY <2>1
  <2>3. at # <<>>
    BY <2>1, <2>2, EmptySeq
  <2> QED
    BY <2>2, <2>3 DEF Top
<1> HIDE DEF at
<1>4. Front(Append(at, r.name)) = at /\ Last(Append(at, r.name)) = r.name
  <2> DEFINE w == Append(at, r.name)
  <2>1. /\ w \in Seq(Name \cup {"Trash"}) /\ Len(w) = Len(at) + 1 /\ w[Len(at) + 1] = r.name
        /\ \A i \in 1 .. Len(at) : w[i] = at[i]
    BY <1>1, <1>3, AppendProperties
  <2> HIDE DEF w
  <2>2. SubSeq(w, 1, Len(w) - 1) = at
    <3> DEFINE f == SubSeq(w, 1, Len(w) - 1)
    <3>1. Len(at) \in Nat /\ Len(w) - 1 = Len(at)
      BY <2>1, <1>3
    <3>2. \A i \in 1 .. Len(w) - 1 : w[i] \in Name \cup {"Trash"}
      BY <2>1
    <3>3. /\ f \in Seq(Name \cup {"Trash"}) /\ Len(f) = Len(at) /\ \A i \in 1 .. Len(at) : f[i] = w[i]
      BY <3>1, <3>2, SubSeqProperties
    <3> HIDE DEF f
    <3>4. f = at
      BY <3>3, <2>1, <1>3, SeqEqual
    <3> QED
      BY <3>4 DEF f
  <2>3. w[Len(w)] = r.name
    BY <2>1
  <2> QED
    BY <2>2, <2>3 DEF w, Front, Last
<1>5. Found(r.user, Append(at, r.name)) = {s \in trash : s.user = r.user /\ s.dir = r.dir /\ s.name = r.name}
  BY <1>2, <1>4 DEF Found, Parent
<1>6. r \in Found(r.user, Append(at, r.name))
  BY <1>5
<1>7. r.name \in Listing(r.user, at)
  BY <1>2, <1>3 DEF Listing
<1>8. \A s \in trash : Blob(s.user, s.id) \in DOMAIN files /\ files[Blob(s.user, s.id)] = s.content
  BY DEF TrashInv
<1> QED
  BY <1>5, <1>6, <1>7, <1>8 DEF at

LEMMA TreesPromise ==
  ASSUME TreesInv
  PROVE  TreesOK /\ RowsAreListed /\ ListedIsRestorable /\ ListedIsThere
<1>1. \A q \in DOMAIN files : q # NoPlace /\ q[1] \in {"User", "AppData"}
  BY PlaceIsNoBlob, BlobPlaces, KeptPlaces DEF TreesInv, FilesInv, Blobs
<1>2. \A r \in rows : r.user \in User /\ r.dir # <<>>
  BY DEF TreesInv, RowsInv
<1>3. \A r \in trash : r.user \in User /\ r.id < fresh
  BY DEF TreesInv, TrashInv
<1>4. TreesOK
  BY <1>1, <1>2, <1>3 DEF TreesOK, TreesInv
<1>5. RowsAreListed
  BY DEF RowsAreListed, TreesInv, RowsInv
<1> QED
  BY <1>4, <1>5, TrashIsListed, PairedIsListed DEF TreesInv

-----------------------------------------------------------------------------
(* Paths of the shell *)

LEMMA Less == IsWellFoundedOn({p \in Nat \X Nat : p[1] < p[2]}, Nat)
BY NatLessThanWellFounded DEF OpToRel

\* Induction, for a set of numbers.
LEMMA NatSet ==
  ASSUME NEW S, 0 \in S, \A n \in Nat : n \in S => n + 1 \in S
  PROVE  Nat \subseteq S
<1> DEFINE R == {p \in Nat \X Nat : p[1] < p[2]}
<1> DEFINE B == Nat \ S
<1> SUFFICES ASSUME B # {} PROVE FALSE
  OBVIOUS
<1>1. IsWellFoundedOn(R, Nat)
  BY Less
<1>2. B \subseteq Nat
  OBVIOUS
<1> HIDE DEF B, R
<1>3. PICK x \in B : \A y \in B : ~(<<y, x>> \in R)
  BY <1>1, <1>2, WFMin
<1>4. x \in Nat /\ x # 0
  BY <1>2 DEF B
<1>5. x - 1 \in Nat /\ <<x - 1, x>> \in R
  BY <1>4 DEF R
<1>6. x - 1 \in S
  BY <1>3, <1>5 DEF B
<1> QED
  BY <1>4, <1>5, <1>6 DEF B

\* One name further: into a directory, or back.
LEMMA StepPath ==
  ASSUME NEW at \in Seq(Name), NEW name \in Name
  PROVE  Step(at, name) \in Seq(Name)
BY Ends, AppendProperties DEF Step

Base(u, dir) == [root |-> <<>>, home |-> Home(u), cwd |-> dir]
Argument == [from : {"root", "home", "cwd"}, tail : Seq(Name)]

LEMMA NamesOf ==
  ASSUME NEW u \in User, NEW dir \in Seq(Name), NEW arg \in Argument
  PROVE  Base(u, dir)[arg.from] \o arg.tail \in Seq(Name)
<1>1. arg.from \in {"root", "home", "cwd"} /\ arg.tail \in Seq(Name)
  BY DEF Argument
<1>2. <<>> \in Seq(Name) /\ Home(u) \in Seq(Name)
  BY TreesAssumption DEF Home
<1>3. Base(u, dir)["root"] = <<>> /\ Base(u, dir)["home"] = Home(u) /\ Base(u, dir)["cwd"] = dir
  BY DEF Base
<1>4. Base(u, dir)[arg.from] \in Seq(Name)
  BY <1>1, <1>2, <1>3
<1> QED
  BY <1>1, <1>4

\* The paths that resolving passes through: there are such, for every number of names.
LEMMA Passed ==
  ASSUME NEW names \in Seq(Name)
  PROVE  \E g : g = [k \in 0 .. Len(names) |-> IF k = 0 THEN <<>> ELSE Step(g[k - 1], names[k])]
<1> DEFINE Through(g, n) == /\ g \in [0 .. n -> Seq(Name)] /\ g[0] = <<>>
                            /\ \A k \in 1 .. n : g[k] = Step(g[k - 1], names[k])
<1> DEFINE S == {n \in Nat : n <= Len(names) => \E g : Through(g, n)}
<1>1. 0 \in S
  <2>1. Through([k \in 0 .. 0 |-> <<>>], 0)
    OBVIOUS
  <2> QED
    BY <2>1
<1>2. ASSUME NEW n \in Nat, n \in S PROVE n + 1 \in S
  <2> SUFFICES ASSUME n + 1 <= Len(names) PROVE \E g : Through(g, n + 1)
    <3> HIDE DEF Through
    <3> QED
      OBVIOUS
  <2>1. n <= Len(names) /\ n + 1 \in 1 .. Len(names) /\ Len(names) \in Nat
    OBVIOUS
  <2>2. PICK f : Through(f, n)
    BY <1>2, <2>1
  <2> DEFINE g == [k \in 0 .. n + 1 |-> IF k = n + 1 THEN Step(f[n], names[n + 1]) ELSE f[k]]
  <2>3. f[n] \in Seq(Name) /\ names[n + 1] \in Name
    BY <2>1, <2>2
  <2>4. Step(f[n], names[n + 1]) \in Seq(Name)
    BY <2>3, StepPath
  <2>5. g \in [0 .. n + 1 -> Seq(Name)] /\ g[0] = <<>>
    BY <2>2, <2>4
  <2>6. ASSUME NEW k \in 1 .. n + 1 PROVE g[k] = Step(g[k - 1], names[k])
    <3>1. CASE k = n + 1
      <4>1. g[k] = Step(f[n], names[n + 1]) /\ g[k - 1] = f[n]
        BY <3>1
      <4> QED
        BY <3>1, <4>1
    <3>2. CASE k # n + 1
      <4>1. k \in 1 .. n /\ k \in 0 .. n + 1 /\ k - 1 \in 0 .. n + 1 /\ k - 1 # n + 1
        BY <3>2
      <4>2. g[k] = f[k] /\ g[k - 1] = f[k - 1]
        BY <3>2, <4>1
      <4>3. f[k] = Step(f[k - 1], names[k])
        BY <2>2, <4>1
      <4> QED
        BY <4>2, <4>3
    <3> QED
      BY <3>1, <3>2
  <2>7. Through(g, n + 1)
    BY <2>5, <2>6
  <2> QED
    BY <2>7
<1> HIDE DEF S
<1>3. Nat \subseteq S
  BY <1>1, <1>2, NatSet
<1>4. PICK g : Through(g, Len(names))
  <2>1. Len(names) \in Nat
    OBVIOUS
  <2>2. Len(names) \in S
    BY <1>3, <2>1
  <2> HIDE DEF Through
  <2> QED
    BY <2>1, <2>2 DEF S
<1>5. \A k \in 0 .. Len(names) : g[k] = IF k = 0 THEN <<>> ELSE Step(g[k - 1], names[k])
  BY <1>4
<1>6. g = [k \in 0 .. Len(names) |-> g[k]]
  BY <1>4
<1>7. g = [k \in 0 .. Len(names) |-> IF k = 0 THEN <<>> ELSE Step(g[k - 1], names[k])]
  BY <1>5, <1>6
<1> QED
  BY <1>7

\* A path of the shell, with as many ".." as it may have, is a path of the store.
LEMMA ResolvedPath ==
  ASSUME NEW u \in User, NEW dir \in Seq(Name), NEW arg \in Argument
  PROVE  ResolvePath(u, dir, arg) \in Seq(Name)
<1> DEFINE names == Base(u, dir)[arg.from] \o arg.tail
<1> DEFINE at[k \in 0 .. Len(names)] == IF k = 0 THEN <<>> ELSE Step(at[k - 1], names[k])
<1>1. names \in Seq(Name)
  BY NamesOf
<1>2. \E g : g = [k \in 0 .. Len(names) |-> IF k = 0 THEN <<>> ELSE Step(g[k - 1], names[k])]
  <2> HIDE DEF names
  <2> QED
    BY <1>1, Passed
<1>3. ResolvePath(u, dir, arg) = at[Len(names)]
  BY DEF ResolvePath, Base
<1> HIDE DEF names
<1>4. at = [k \in 0 .. Len(names) |-> IF k = 0 THEN <<>> ELSE Step(at[k - 1], names[k])]
  BY <1>2
<1> HIDE DEF at
<1> DEFINE S == {n \in Nat : n <= Len(names) => at[n] \in Seq(Name)}
<1>5. Len(names) \in Nat
  BY <1>1
<1>6. 0 \in S
  <2>1. 0 \in 0 .. Len(names)
    BY <1>5
  <2>2. at[0] = <<>>
    BY <1>4, <2>1
  <2> QED
    BY <2>2, EmptySeq
<1>7. ASSUME NEW n \in Nat, n \in S PROVE n + 1 \in S
  <2> SUFFICES ASSUME n + 1 <= Len(names) PROVE at[n + 1] \in Seq(Name)
    OBVIOUS
  <2>1. n + 1 \in 0 .. Len(names) /\ n + 1 # 0 /\ n + 1 \in 1 .. Len(names) /\ n <= Len(names)
    BY <1>5
  <2>2. at[n + 1] = Step(at[n], names[n + 1])
    BY <1>4, <2>1
  <2>3. at[n] \in Seq(Name) /\ names[n + 1] \in Name
    BY <1>1, <1>7, <2>1
  <2> QED
    BY <2>2, <2>3, StepPath
<1> HIDE DEF S
<1>8. Nat \subseteq S
  BY <1>6, <1>7, NatSet
<1>9. at[Len(names)] \in Seq(Name)
  BY <1>5, <1>8 DEF S
<1> QED
  BY <1>3, <1>9

\* What a redirection stores below one's home is a path too, however often it is cut.
LEMMA StoredPaths ==
  ASSUME NEW u \in User, NEW v \in Seq(Name)
  PROVE  StoredPath(u, v) \in Seq(Name)
<1> DEFINE homes == {k \in 1 .. Len(v) \div 2 : \A i \in 1 .. k : v[2 * i - 1] = "User" /\ v[2 * i] = u}
<1>1. Len(v) \in Nat /\ Len(v) \div 2 \in Int
  OBVIOUS
<1>2. IsFiniteSet(1 .. Len(v) \div 2)
  <2> DEFINE n == Len(v) \div 2
  <2>1. n \in Int /\ 1 \in Int
    BY <1>1
  <2> HIDE DEF n
  <2>2. IsFiniteSet(1 .. n)
    BY <2>1, FS_Interval, Zenon
  <2> QED
    BY <2>2 DEF n
<1>3. homes \in SUBSET (1 .. Len(v) \div 2)
  OBVIOUS
<1>4. HomesCut(u, v) = Cardinality(homes)
  BY DEF HomesCut
<1> HIDE DEF homes
<1>5. HomesCut(u, v) \in Nat
  BY <1>2, <1>3, <1>4, FS_Subset, FS_CardinalityType, Zenon
<1> DEFINE from == 2 * HomesCut(u, v) + 1
<1>6. from \in Nat /\ from > 0
  BY <1>5
<1> HIDE DEF from
<1>7. \A i \in from .. Len(v) : v[i] \in Name
  BY <1>1, <1>6
<1>8. SubSeq(v, from, Len(v)) \in Seq(Name)
  BY <1>1, <1>6, <1>7, SubSeqProperties
<1> QED
  BY <1>8 DEF StoredPath, from

-----------------------------------------------------------------------------
(* The invariant of the command lines *)

\* A line in execution: its user, its session, and the segments still to come.
Running(x) ==
  /\ x = [pc |-> x.pc, user |-> x.user, session |-> x.session, line |-> x.line,
          path |-> x.path, out |-> x.out, old |-> x.old]
  /\ x.pc \in {"run", "target", "write", "output", "save"}
  /\ x.user \in User /\ x.session \in Session
  /\ x.line \in Seq(Parsed) /\ x.line # <<>> /\ x.path \in Seq(Name)

SessionsInv == cwd = [s \in Session |-> cwd[s]] /\ \A s \in Session : cwd[s] \in Seq(Name) \cup {None}

LinesInv ==
  /\ h = [p \in Proc |-> h[p]]
  /\ \A p \in Proc : h[p] = Idle \/ (Running(h[p]) /\ cwd[h[p].session] \in Seq(Name))

IInv == TreesInv /\ SessionsInv /\ LinesInv /\ ops \in 0 .. MaxOps

\* The changes that steps make to such a record.
LEMMA OutputChange ==
  ASSUME NEW x, x = [pc |-> x.pc, user |-> x.user, session |-> x.session, line |-> x.line,
                     path |-> x.path, out |-> x.out, old |-> x.old], NEW pc, NEW out
  PROVE  [x EXCEPT !.pc = pc, !.out = out]
           = [pc |-> pc, user |-> x.user, session |-> x.session, line |-> x.line, path |-> x.path, out |-> out, old |-> x.old]
<1> DEFINE a == x.pc
<1> DEFINE b == x.user
<1> DEFINE c == x.session
<1> DEFINE d == x.line
<1> DEFINE e == x.path
<1> DEFINE f == x.out
<1> DEFINE g == x.old
<1>1. x = [pc |-> a, user |-> b, session |-> c, line |-> d, path |-> e, out |-> f, old |-> g]
  OBVIOUS
<1> DEFINE y0 == [x EXCEPT !.pc = pc]
<1> DEFINE y1 == [y0 EXCEPT !.out = out]
<1>2. [x EXCEPT !.pc = pc, !.out = out] = y1
  OBVIOUS
<1> HIDE DEF a, b, c, d, e, f, g, y0, y1
<1>3. y0 = [pc |-> pc, user |-> b, session |-> c, line |-> d, path |-> e, out |-> f, old |-> g]
  BY <1>1 DEF y0
<1>4. y1 = [pc |-> pc, user |-> b, session |-> c, line |-> d, path |-> e, out |-> out, old |-> g]
  BY <1>3 DEF y1
<1> QED
  BY <1>2, <1>4 DEF a, b, c, d, e, f, g

LEMMA PathChange ==
  ASSUME NEW x, x = [pc |-> x.pc, user |-> x.user, session |-> x.session, line |-> x.line,
                     path |-> x.path, out |-> x.out, old |-> x.old], NEW pc, NEW path
  PROVE  [x EXCEPT !.pc = pc, !.path = path]
           = [pc |-> pc, user |-> x.user, session |-> x.session, line |-> x.line, path |-> path, out |-> x.out, old |-> x.old]
<1> DEFINE a == x.pc
<1> DEFINE b == x.user
<1> DEFINE c == x.session
<1> DEFINE d == x.line
<1> DEFINE e == x.path
<1> DEFINE f == x.out
<1> DEFINE g == x.old
<1>1. x = [pc |-> a, user |-> b, session |-> c, line |-> d, path |-> e, out |-> f, old |-> g]
  OBVIOUS
<1> DEFINE y0 == [x EXCEPT !.pc = pc]
<1> DEFINE y1 == [y0 EXCEPT !.path = path]
<1>2. [x EXCEPT !.pc = pc, !.path = path] = y1
  OBVIOUS
<1> HIDE DEF a, b, c, d, e, f, g, y0, y1
<1>3. y0 = [pc |-> pc, user |-> b, session |-> c, line |-> d, path |-> e, out |-> f, old |-> g]
  BY <1>1 DEF y0
<1>4. y1 = [pc |-> pc, user |-> b, session |-> c, line |-> d, path |-> path, out |-> f, old |-> g]
  BY <1>3 DEF y1
<1> QED
  BY <1>2, <1>4 DEF a, b, c, d, e, f, g

LEMMA LineChange ==
  ASSUME NEW x, x = [pc |-> x.pc, user |-> x.user, session |-> x.session, line |-> x.line,
                     path |-> x.path, out |-> x.out, old |-> x.old], NEW line
  PROVE  [x EXCEPT !.pc = "run", !.line = line, !.out = <<>>, !.path = <<>>, !.old = None]
           = [pc |-> "run", user |-> x.user, session |-> x.session, line |-> line, path |-> <<>>, out |-> <<>>, old |-> None]
<1> DEFINE a == x.pc
<1> DEFINE b == x.user
<1> DEFINE c == x.session
<1> DEFINE d == x.line
<1> DEFINE e == x.path
<1> DEFINE f == x.out
<1> DEFINE g == x.old
<1>1. x = [pc |-> a, user |-> b, session |-> c, line |-> d, path |-> e, out |-> f, old |-> g]
  OBVIOUS
<1> DEFINE y0 == [x EXCEPT !.pc = "run"]
<1> DEFINE y1 == [y0 EXCEPT !.line = line]
<1> DEFINE y2 == [y1 EXCEPT !.out = <<>>]
<1> DEFINE y3 == [y2 EXCEPT !.path = <<>>]
<1> DEFINE y4 == [y3 EXCEPT !.old = None]
<1>2. [x EXCEPT !.pc = "run", !.line = line, !.out = <<>>, !.path = <<>>, !.old = None] = y4
  OBVIOUS
<1> HIDE DEF a, b, c, d, e, f, g, y0, y1, y2, y3, y4
<1>3. y0 = [pc |-> "run", user |-> b, session |-> c, line |-> d, path |-> e, out |-> f, old |-> g]
  BY <1>1 DEF y0
<1>4. y1 = [pc |-> "run", user |-> b, session |-> c, line |-> line, path |-> e, out |-> f, old |-> g]
  BY <1>3 DEF y1
<1>5. y2 = [pc |-> "run", user |-> b, session |-> c, line |-> line, path |-> e, out |-> <<>>, old |-> g]
  BY <1>4 DEF y2
<1>6. y3 = [pc |-> "run", user |-> b, session |-> c, line |-> line, path |-> <<>>, out |-> <<>>, old |-> g]
  BY <1>5 DEF y3
<1>7. y4 = [pc |-> "run", user |-> b, session |-> c, line |-> line, path |-> <<>>, out |-> <<>>, old |-> None]
  BY <1>6 DEF y4
<1> QED
  BY <1>2, <1>7 DEF a, b, c, d, e, f, g

\* A session that has a directory keeps one.
Stay == \A s \in Session : cwd[s] \in Seq(Name) => cwd'[s] \in Seq(Name)

LEMMA LineStep ==
  ASSUME LinesInv, Stay, NEW p \in Proc, NEW y, h' = [h EXCEPT ![p] = y],
         y = Idle \/ (Running(y) /\ cwd'[y.session] \in Seq(Name))
  PROVE  LinesInv'
<1>1. h' = [q \in Proc |-> h'[q]] /\ h'[p] = y /\ \A q \in Proc \ {p} : h'[q] = h[q]
  BY DEF LinesInv
<1>2. ASSUME NEW q \in Proc
      PROVE  h'[q] = Idle \/ (Running(h'[q]) /\ cwd'[h'[q].session] \in Seq(Name))
  <2>1. CASE q = p
    <3>1. h'[q] = y
      BY <1>1, <2>1
    <3> QED
      BY <3>1
  <2>2. CASE q # p
    <3>1. h'[q] = h[q]
      BY <1>1, <2>2
    <3>2. h[q] = Idle \/ (Running(h[q]) /\ cwd[h[q].session] \in Seq(Name))
      BY DEF LinesInv
    <3>3. Running(h[q]) => h[q].session \in Session
      BY DEF Running
    <3>4. h[q] = Idle \/ (Running(h[q]) /\ cwd'[h[q].session] \in Seq(Name))
      BY <3>2, <3>3 DEF Stay
    <3> QED
      BY <3>1, <3>4
  <2> QED
    BY <2>1, <2>2
<1>3. \A q \in Proc : h'[q] = Idle \/ (Running(h'[q]) /\ cwd'[h'[q].session] \in Seq(Name))
  BY <1>2
<1> QED
  BY <1>1, <1>3 DEF LinesInv, Running, Idle, Parsed, Word, Arity

\* The line of p, when it is at work.
LEMMA AtWork ==
  ASSUME LinesInv, NEW p \in Proc, h[p].pc # "idle"
  PROVE  Running(h[p]) /\ cwd[h[p].session] \in Seq(Name)
BY DEF LinesInv, Idle

LEMMA PrintsStep ==
  ASSUME LinesInv, Stay, NEW p \in Proc, h[p].pc # "idle", NEW text, Prints(p, text)
  PROVE  LinesInv'
<1> DEFINE y == [h[p] EXCEPT !.pc = "output", !.out = text]
<1>1. Running(h[p]) /\ cwd[h[p].session] \in Seq(Name)
  BY AtWork
<1>2. h' = [h EXCEPT ![p] = y]
  BY DEF Prints
<1>3. Running(y) /\ y.session = h[p].session
  <2>1. y = [pc |-> "output", user |-> h[p].user, session |-> h[p].session, line |-> h[p].line,
             path |-> h[p].path, out |-> text, old |-> h[p].old]
    BY <1>1, OutputChange DEF Running
  <2> HIDE DEF y
  <2> QED
    BY <1>1, <2>1 DEF Running
<1>4. cwd'[y.session] \in Seq(Name)
  BY <1>1, <1>3 DEF Stay, Running
<1> HIDE DEF y
<1> QED
  BY <1>2, <1>3, <1>4, LineStep

LEMMA AnswerStep ==
  ASSUME LinesInv, Stay, NEW p \in Proc, Answer(p)
  PROVE  LinesInv'
BY LineStep DEF Answer

LEMMA AdvanceStep ==
  ASSUME LinesInv, Stay, NEW p \in Proc, h[p].pc # "idle", Advance(p)
  PROVE  LinesInv'
<1> DEFINE x == h[p]
<1> DEFINE z == [x EXCEPT !.pc = "run", !.line = Tail(x.line), !.out = <<>>, !.path = <<>>, !.old = None]
<1>1. Running(x) /\ cwd[x.session] \in Seq(Name)
  BY AtWork
<1>2. h' = [h EXCEPT ![p] = IF Len(x.line) = 1 THEN Idle ELSE z]
  BY DEF Advance
<1>3. CASE Len(x.line) = 1
  BY <1>2, <1>3, LineStep
<1>4. CASE Len(x.line) # 1
  <2>1. x.line \in Seq(Parsed) /\ x.line # <<>>
    BY <1>1 DEF Running
  <2>2. Tail(x.line) \in Seq(Parsed) /\ Tail(x.line) # <<>>
    <3> DEFINE l == x.line
    <3>1. l \in Seq(Parsed) /\ l # <<>> /\ Len(l) # 1
      BY <2>1, <1>4
    <3> HIDE DEF l
    <3>2. Len(l) \in Nat \ {0} /\ Tail(l) \in Seq(Parsed) /\ Len(Tail(l)) = Len(l) - 1
      BY <3>1, EmptySeq, HeadTailProperties
    <3>3. Len(Tail(l)) # 0
      BY <3>1, <3>2
    <3>4. Tail(l) # <<>>
      BY <3>3, EmptySeq
    <3> QED
      BY <3>2, <3>4 DEF l
  <2>3. Running(z) /\ z.session = x.session
    <3>1. z = [pc |-> "run", user |-> x.user, session |-> x.session, line |-> Tail(x.line),
               path |-> <<>>, out |-> <<>>, old |-> None]
      BY <1>1, LineChange DEF Running
    <3>2. <<>> \in Seq(Name)
      OBVIOUS
    <3> HIDE DEF z
    <3> QED
      BY <1>1, <2>2, <3>1, <3>2 DEF Running
  <2>4. cwd'[z.session] \in Seq(Name)
    BY <1>1, <2>3 DEF Stay, Running
  <2>5. h' = [h EXCEPT ![p] = z]
    BY <1>2, <1>4
  <2> HIDE DEF z
  <2> QED
    BY <2>3, <2>4, <2>5, LineStep
<1> QED
  BY <1>3, <1>4

\* What a word names is a path; a command has as many words as it reads.
LEMMA Named ==
  ASSUME LinesInv, NEW p \in Proc, h[p].pc # "idle", NEW word \in Word
  PROVE  Reach(p, word) \in Seq(Name)
<1>1. h[p].user \in User /\ cwd[h[p].session] \in Seq(Name)
  BY AtWork DEF Running
<1>2. word.path \in Argument
  BY DEF Word, Argument
<1> QED
  BY <1>1, <1>2, ResolvedPath DEF Reach

LEMMA Arguments ==
  ASSUME LinesInv, NEW p \in Proc, h[p].pc # "idle", Seg(p).words # <<>>
  PROVE  /\ Arity(Command(p)) > 0 => Arg1(p) \in Seq(Name)
         /\ Arity(Command(p)) > 1 => Arg2(p) \in Seq(Name)
<1> DEFINE w == Seg(p).words
<1>1. h[p].line \in Seq(Parsed) /\ h[p].line # <<>>
  BY AtWork DEF Running
<1>2. Seg(p) \in Parsed
  BY <1>1, HeadTailProperties DEF Seg
<1>3. w \in Seq(Word) /\ Len(w) > Arity(Command(p)) /\ Arity(Command(p)) \in Nat
  BY <1>2 DEF Parsed, Command, Arity
<1>4. Arg1(p) = Reach(p, w[2]) /\ Arg2(p) = Reach(p, w[3])
  BY DEF Arg1, Arg2
<1> HIDE DEF w
<1>5. Arity(Command(p)) > 0 => w[2] \in Word
  <2>1. Arity(Command(p)) > 0 => 2 \in 1 .. Len(w)
    BY <1>3
  <2> QED
    BY <2>1, <1>3
<1>6. Arity(Command(p)) > 1 => w[3] \in Word
  <2>1. Arity(Command(p)) > 1 => 3 \in 1 .. Len(w)
    BY <1>3
  <2> QED
    BY <2>1, <1>3
<1> QED
  BY <1>4, <1>5, <1>6, Named

LEMMA TargetPath ==
  ASSUME LinesInv, NEW p \in Proc, h[p].pc # "idle", Target(p) # None
  PROVE  Reach(p, Target(p)) \in Seq(Name)
<1>1. h[p].line \in Seq(Parsed) /\ h[p].line # <<>>
  BY AtWork DEF Running
<1>2. Seg(p) \in Parsed
  BY <1>1, HeadTailProperties DEF Seg
<1>3. Target(p) \in Word
  BY <1>2 DEF Parsed, Target
<1> QED
  BY <1>3, Named

-----------------------------------------------------------------------------
(* The steps of a command line *)

\* A step that changes neither the trees nor a directory.
LEMMA OnlyLines ==
  ASSUME IInv, UNCHANGED <<trees, cwd, ops>>, LinesInv'
  PROVE  IInv'
BY TreesStay DEF IInv, SessionsInv

LEMMA SameCwd == ASSUME UNCHANGED cwd PROVE Stay
BY DEF Stay

LEMMA PassStep ==
  ASSUME IInv, NEW p \in Proc, Malformed(p) \/ Bare(p) \/ Unknown(p) \/ Output(p) \/ Refuse(p)
  PROVE  IInv'
<1>1. UNCHANGED <<trees, cwd, ops>>
  BY DEF Malformed, Bare, Unknown, Output, Refuse
<1>2. Answer(p) \/ (h[p].pc # "idle" /\ Advance(p))
  BY DEF Malformed, Bare, Unknown, Output, Refuse, At
<1>3. LinesInv /\ Stay
  BY <1>1, SameCwd DEF IInv
<1>4. LinesInv'
  BY <1>2, <1>3, AnswerStep, AdvanceStep
<1> QED
  BY <1>1, <1>4, OnlyLines

LEMMA EchoStep ==
  ASSUME IInv, NEW p \in Proc, Echo(p) \/ Cat(p)
  PROVE  IInv'
<1>1. UNCHANGED <<trees, cwd, ops>> /\ h[p].pc # "idle" /\ \E text : Prints(p, text)
  BY DEF Echo, Cat, At
<1>2. LinesInv /\ Stay
  BY <1>1, SameCwd DEF IInv
<1>3. LinesInv'
  BY <1>1, <1>2, PrintsStep
<1> QED
  BY <1>1, <1>3, OnlyLines

LEMMA ChangeDirStep ==
  ASSUME IInv, NEW p \in Proc, ChangeDir(p)
  PROVE  IInv'
<1> DEFINE x == h[p]
<1> DEFINE d == IF Command(p) = "cd" THEN Home(x.user) ELSE Arg1(p)
<1>1. /\ x.pc # "idle" /\ Seg(p).words # <<>> /\ Command(p) \in {"cd", "chdir"}
      /\ cwd' = [cwd EXCEPT ![x.session] = d]
      /\ Prints(p, <<"path">>) /\ UNCHANGED <<trees, ops>>
  BY DEF ChangeDir, At
<1>2. LinesInv /\ SessionsInv
  BY DEF IInv
<1>3. Running(x)
  BY <1>1, <1>2, AtWork
<1>4. d \in Seq(Name)
  <2>1. CASE Command(p) = "cd"
    BY <2>1, <1>3, TreesAssumption DEF Running, Home
  <2>2. CASE Command(p) = "chdir"
    BY <2>2, <1>1, <1>2, Arguments DEF Arity
  <2> QED
    BY <1>1, <2>1, <2>2
<1> HIDE DEF d
<1>5. Stay /\ SessionsInv'
  BY <1>1, <1>2, <1>4 DEF Stay, SessionsInv
<1>6. LinesInv'
  BY <1>1, <1>2, <1>5, PrintsStep
<1> QED
  BY <1>1, <1>5, <1>6, TreesStay DEF IInv

\* mv and rm: one operation of the store, or none.
LEMMA MvStep ==
  ASSUME IInv, NEW p \in Proc, Mv(p)
  PROVE  IInv'
<1> DEFINE u == h[p].user
<1> DEFINE f == Arg1(p)
<1> DEFINE t == Arg2(p)
<1>1. /\ h[p].pc # "idle" /\ Seg(p).words # <<>> /\ Command(p) = "mv"
      /\ \/ MoveApp(u, f, t) \/ MoveOwn(u, f, t) \/ Restore(u, f, t) \/ UNCHANGED trees
      /\ \E text : Prints(p, text)
      /\ UNCHANGED <<cwd, ops>>
  BY DEF Mv, At
<1>2. LinesInv /\ TreesInv /\ Stay
  BY <1>1, SameCwd DEF IInv
<1>3. u \in User
  BY <1>1, <1>2, AtWork DEF Running
<1>4. f \in Seq(Name) /\ t \in Seq(Name)
  BY <1>1, <1>2, Arguments DEF Arity
<1>5. LinesInv'
  BY <1>1, <1>2, PrintsStep
<1> HIDE DEF u, f, t
<1>6. TreesInv'
  BY <1>1, <1>2, <1>3, <1>4, MoveAppKeeps, MoveOwnKeeps, RestoreKeeps, TreesStay
<1> QED
  BY <1>1, <1>5, <1>6 DEF IInv, SessionsInv

LEMMA RmStep ==
  ASSUME IInv, NEW p \in Proc, Rm(p)
  PROVE  IInv'
<1> DEFINE u == h[p].user
<1> DEFINE v == Arg1(p)
<1>1. /\ h[p].pc # "idle" /\ Seg(p).words # <<>> /\ Command(p) = "rm"
      /\ \/ DeleteApp(u, v) \/ DeleteOwn(u, v) \/ DeleteTrash(u, v) \/ UNCHANGED trees
      /\ \E text : Prints(p, text)
      /\ UNCHANGED <<cwd, ops>>
  BY DEF Rm, At
<1>2. LinesInv /\ TreesInv /\ Stay
  BY <1>1, SameCwd DEF IInv
<1>3. u \in User
  BY <1>1, <1>2, AtWork DEF Running
<1>4. v \in Seq(Name)
  BY <1>1, <1>2, Arguments DEF Arity
<1>5. LinesInv'
  BY <1>1, <1>2, PrintsStep
<1> HIDE DEF u, v
<1>6. TreesInv'
  BY <1>1, <1>2, <1>3, <1>4, DeleteAppKeeps, DeleteOwnKeeps, DeleteTrashKeeps, TreesStay
<1> QED
  BY <1>1, <1>5, <1>6 DEF IInv, SessionsInv

\* cp and touch read.
LEMMA CopyStep ==
  ASSUME IInv, NEW p \in Proc, CopyRead(p) \/ CopyTarget(p)
  PROVE  IInv'
<1> DEFINE x == h[p]
<1>1. /\ x.pc # "idle" /\ Seg(p).words # <<>> /\ Command(p) = "cp"
      /\ UNCHANGED <<trees, cwd, ops>>
      /\ \/ \E text : h' = [h EXCEPT ![p].pc = "target", ![p].out = text]
         \/ h' = [h EXCEPT ![p].pc = "write", ![p].path = Arg2(p)]
         \/ Prints(p, Error)
  BY DEF CopyRead, CopyTarget, At
<1>2. LinesInv /\ Stay
  BY <1>1, SameCwd DEF IInv
<1>3. Running(x) /\ cwd[x.session] \in Seq(Name)
  BY <1>1, <1>2, AtWork
<1>4. Arg2(p) \in Seq(Name)
  BY <1>1, <1>2, Arguments DEF Arity
<1>5. CASE \E text : h' = [h EXCEPT ![p].pc = "target", ![p].out = text]
  <2>1. PICK text : h' = [h EXCEPT ![p].pc = "target", ![p].out = text]
    BY <1>5
  <2> DEFINE y == [x EXCEPT !.pc = "target", !.out = text]
  <2>2. y = [pc |-> "target", user |-> x.user, session |-> x.session, line |-> x.line,
             path |-> x.path, out |-> text, old |-> x.old]
    BY <1>3, OutputChange DEF Running
  <2>3. h' = [h EXCEPT ![p] = y]
    BY <2>1
  <2> HIDE DEF y
  <2>4. Running(y) /\ y.session = x.session
    BY <1>3, <2>2 DEF Running
  <2>5. cwd'[y.session] \in Seq(Name)
    BY <1>1, <1>3, <2>4
  <2>6. LinesInv'
    BY <1>2, <2>3, <2>4, <2>5, LineStep
  <2> QED
    BY <2>6, <1>1, OnlyLines
<1>6. CASE h' = [h EXCEPT ![p].pc = "write", ![p].path = Arg2(p)]
  <2> DEFINE t == Arg2(p)
  <2> DEFINE y == [x EXCEPT !.pc = "write", !.path = t]
  <2>3. h' = [h EXCEPT ![p] = y]
    BY <1>6
  <2>1. t \in Seq(Name)
    BY <1>4
  <2> HIDE DEF t
  <2>2. y = [pc |-> "write", user |-> x.user, session |-> x.session, line |-> x.line,
             path |-> t, out |-> x.out, old |-> x.old]
    BY <1>3, PathChange DEF Running
  <2> HIDE DEF y
  <2>4. Running(y) /\ y.session = x.session
    BY <1>3, <2>1, <2>2 DEF Running
  <2>5. cwd'[y.session] \in Seq(Name)
    BY <1>1, <1>3, <2>4
  <2>6. LinesInv'
    BY <1>2, <2>3, <2>4, <2>5, LineStep
  <2> QED
    BY <2>6, <1>1, OnlyLines
<1>7. CASE Prints(p, Error)
  BY <1>1, <1>2, <1>7, PrintsStep, OnlyLines
<1> QED
  BY <1>1, <1>5, <1>6, <1>7

\* What is to be saved: the path, the text, and what the file held when it was read.
LEMMA SaveSoon ==
  ASSUME IInv, NEW p \in Proc, h[p].pc # "idle", UNCHANGED <<trees, cwd, ops>>,
         NEW pc \in {"write", "save"}, NEW v \in Seq(Name), NEW out, NEW old,
         h' = [h EXCEPT ![p].pc = pc, ![p].path = v, ![p].out = out, ![p].old = old]
  PROVE  IInv'
<1> DEFINE x == h[p]
<1> DEFINE y == [x EXCEPT !.pc = pc, !.path = v, !.out = out, !.old = old]
<1>1. LinesInv /\ Stay
  BY SameCwd DEF IInv
<1>2. Running(x) /\ cwd[x.session] \in Seq(Name)
  BY <1>1, AtWork
<1>3. h' = [h EXCEPT ![p] = y]
  OBVIOUS
<1>4. y = [pc |-> pc, user |-> x.user, session |-> x.session, line |-> x.line,
           path |-> v, out |-> out, old |-> old]
  <2> DEFINE y1 == [x EXCEPT !.pc = pc, !.path = v]
  <2> DEFINE y2 == [y1 EXCEPT !.out = out]
  <2> DEFINE y3 == [y2 EXCEPT !.old = old]
  <2>1. y = y3
    OBVIOUS
  <2>2. y1 = [pc |-> pc, user |-> x.user, session |-> x.session, line |-> x.line,
              path |-> v, out |-> x.out, old |-> x.old]
    BY <1>2, PathChange DEF Running
  <2> HIDE DEF x, y1, y2, y3
  <2>3. y2 = [pc |-> pc, user |-> x.user, session |-> x.session, line |-> x.line,
              path |-> v, out |-> out, old |-> x.old]
    BY <2>2 DEF y2
  <2>4. y3 = [pc |-> pc, user |-> x.user, session |-> x.session, line |-> x.line,
              path |-> v, out |-> out, old |-> old]
    BY <2>3 DEF y3
  <2> QED
    BY <2>1, <2>4
<1>5. Running(y) /\ y.session = x.session
  BY <1>2, <1>4 DEF Running
<1>6. cwd'[y.session] \in Seq(Name)
  BY <1>2, <1>5
<1>7. LinesInv'
  BY <1>1, <1>3, <1>5, <1>6, LineStep
<1> QED
  BY <1>7, OnlyLines

LEMMA TouchStep ==
  ASSUME IInv, NEW p \in Proc, TouchRead(p)
  PROVE  IInv'
<1>1. /\ h[p].pc # "idle" /\ Seg(p).words # <<>> /\ Command(p) = "touch"
      /\ UNCHANGED <<trees, cwd, ops>>
      /\ \/ \E out, old : h' = [h EXCEPT ![p].pc = "write", ![p].path = Arg1(p), ![p].out = out, ![p].old = old]
         \/ Prints(p, Error)
  <2>1. /\ h[p].pc # "idle" /\ Seg(p).words # <<>> /\ Command(p) \in {"touch"}
        /\ UNCHANGED <<trees, cwd, ops>>
    BY DEF TouchRead, At
  <2>2. CASE Prints(p, Error)
    BY <2>1, <2>2
  <2>3. CASE ~Prints(p, Error)
    <3>1. PICK q : h' = [h EXCEPT ![p].pc = "write", ![p].path = Arg1(p),
                                  ![p].out = IF q = NoPlace THEN <<>> ELSE files[q],
                                  ![p].old = Seen(h[p].user, Arg1(p), q = ReadPlace(h[p].user, Arg1(p)))]
      BY <2>3, Zenon DEF TouchRead
    <3> QED
      BY <2>1, <3>1
  <2> QED
    BY <2>2, <2>3
<1>2. LinesInv /\ Stay
  BY <1>1, SameCwd DEF IInv
<1>3. Arg1(p) \in Seq(Name)
  <2>1. Command(p) = "touch" /\ h[p].pc # "idle" /\ Seg(p).words # <<>> /\ LinesInv
    BY <1>1, <1>2
  <2> QED
    BY ONLY <2>1, p \in Proc, Arguments DEF Arity
<1>4. CASE Prints(p, Error)
  BY <1>1, <1>2, <1>4, PrintsStep, OnlyLines
<1>5. CASE \E out, old : h' = [h EXCEPT ![p].pc = "write", ![p].path = Arg1(p), ![p].out = out, ![p].old = old]
  BY <1>1, <1>3, <1>5, SaveSoon
<1> QED
  BY <1>1, <1>4, <1>5

LEMMA RedirectStep ==
  ASSUME IInv, NEW p \in Proc, Redirect(p)
  PROVE  IInv'
<1> DEFINE v == StoredPath(h[p].user, Reach(p, Target(p)))
<1>1. /\ h[p].pc # "idle" /\ Target(p) # None /\ UNCHANGED <<trees, cwd, ops>>
      /\ \E out, old : h' = [h EXCEPT ![p].pc = "save", ![p].path = v, ![p].out = out, ![p].old = old]
  BY DEF Redirect
<1>2. Reach(p, Target(p)) \in Seq(Name) /\ h[p].user \in User
  BY <1>1, TargetPath, AtWork DEF IInv, Running
<1>3. v \in Seq(Name)
  BY <1>2, StoredPaths
<1> HIDE DEF v
<1> QED
  BY <1>1, <1>3, SaveSoon

LEMMA SaveStep ==
  ASSUME IInv, NEW p \in Proc, WriteFile(p) \/ SaveOutput(p)
  PROVE  IInv'
<1> DEFINE u == h[p].user
<1> DEFINE v == h[p].path
<1>1. /\ h[p].pc # "idle" /\ UNCHANGED <<cwd, ops>>
      /\ (CanSave(p) /\ SaveFile(u, v, h[p].out)) \/ UNCHANGED trees
      /\ Answer(p) \/ Advance(p) \/ \E text : Prints(p, text)
  BY DEF WriteFile, SaveOutput, At
<1>2. LinesInv /\ Stay /\ TreesInv
  BY <1>1, SameCwd DEF IInv
<1>3. u \in User /\ v \in Seq(Name)
  BY <1>1, <1>2, AtWork DEF Running
<1>4. LinesInv'
  BY <1>1, <1>2, PrintsStep, AnswerStep, AdvanceStep
<1>5. CanSave(p) => v # <<>>
  BY DEF CanSave
<1> HIDE DEF u, v
<1>6. TreesInv'
  BY <1>1, <1>2, <1>3, <1>5, SaveKeeps, TreesStay
<1> QED
  BY <1>1, <1>4, <1>6 DEF IInv, SessionsInv

LEMMA CommandStep ==
  ASSUME IInv, NEW p \in Proc, StepOf(p)
  PROVE  IInv'
BY PassStep, EchoStep, ChangeDirStep, MvStep, RmStep, CopyStep, TouchStep, RedirectStep, SaveStep
   DEF StepOf

\* A line begins: the session has a directory from then on.
LEMMA StartStep ==
  ASSUME IInv, NEW p \in Proc, NEW u \in User, NEW s \in Session, NEW line \in Line,
         Start(p, u, s, line)
  PROVE  IInv'
<1> DEFINE l == Segments(line)
<1> DEFINE y == [Idle EXCEPT !.pc = "run", !.user = u, !.session = s, !.line = l]
<1>1. /\ Enter(s, u) /\ ops < MaxOps /\ ops' = ops + 1 /\ UNCHANGED trees
      /\ h' = IF l = <<>> THEN h ELSE [h EXCEPT ![p] = y]
  BY DEF Start
<1>2. LinesInv /\ SessionsInv /\ TreesInv /\ ops \in 0 .. MaxOps
  BY DEF IInv
<1>3. l \in Seq(Parsed)
  BY LineAssumption
<1>4. Home(u) \in Seq(Name) /\ <<>> \in Seq(Name)
  BY TreesAssumption DEF Home
<1>5. Stay /\ SessionsInv' /\ cwd'[s] \in Seq(Name)
  BY <1>1, <1>2, <1>4 DEF Enter, Stay, SessionsInv
<1>6. y = [pc |-> "run", user |-> u, session |-> s, line |-> l,
           path |-> <<>>, out |-> <<>>, old |-> None]
  <2> HIDE DEF l
  <2> DEFINE y1 == [Idle EXCEPT !.pc = "run"]
  <2> DEFINE y2 == [y1 EXCEPT !.user = u]
  <2> DEFINE y3 == [y2 EXCEPT !.session = s]
  <2> DEFINE y4 == [y3 EXCEPT !.line = l]
  <2>1. y = y4
    OBVIOUS
  <2>2. y1 = [pc |-> "run", user |-> None, session |-> None, line |-> <<>>,
              path |-> <<>>, out |-> <<>>, old |-> None]
    BY DEF Idle
  <2> HIDE DEF y1, y2, y3, y4
  <2>3. y2 = [pc |-> "run", user |-> u, session |-> None, line |-> <<>>,
              path |-> <<>>, out |-> <<>>, old |-> None]
    BY <2>2 DEF y2
  <2>4. y3 = [pc |-> "run", user |-> u, session |-> s, line |-> <<>>,
              path |-> <<>>, out |-> <<>>, old |-> None]
    BY <2>3 DEF y3
  <2>5. y4 = [pc |-> "run", user |-> u, session |-> s, line |-> l,
              path |-> <<>>, out |-> <<>>, old |-> None]
    BY <2>4 DEF y4
  <2> QED
    BY <2>1, <2>5
<1> HIDE DEF l, y
<1>7. CASE l = <<>>
  <2>1. \A q \in Proc : h[q] = Idle \/ (Running(h[q]) /\ cwd'[h[q].session] \in Seq(Name))
    BY <1>2, <1>5 DEF LinesInv, Stay, Running
  <2>2. h' = h
    BY <1>1, <1>7
  <2>3. LinesInv'
    BY <2>1, <2>2, <1>2 DEF LinesInv, Running, Idle, Parsed, Word, Arity
  <2> QED
    BY <2>3, <1>1, <1>2, <1>5, TreesStay, TerminalAssumption DEF IInv
<1>8. CASE l # <<>>
  <2>1. Running(y) /\ y.session = s
    BY <1>3, <1>4, <1>6, <1>8 DEF Running
  <2>2. h' = [h EXCEPT ![p] = y] /\ cwd'[y.session] \in Seq(Name)
    BY <1>1, <1>5, <1>8, <2>1
  <2>3. LinesInv'
    BY <1>2, <1>5, <2>1, <2>2, LineStep
  <2> QED
    BY <2>3, <1>1, <1>2, <1>5, TreesStay, TerminalAssumption DEF IInv
<1> QED
  BY <1>7, <1>8

LEMMA CompleteStep ==
  ASSUME IInv, NEW u \in User, NEW s \in Session, Complete(u, s)
  PROVE  IInv'
<1>1. /\ cwd' = [cwd EXCEPT ![s] = Home(u)] /\ UNCHANGED <<trees, h, ops>>
  BY DEF Complete
<1>2. LinesInv /\ SessionsInv /\ TreesInv
  BY DEF IInv
<1>3. Home(u) \in Seq(Name)
  BY TreesAssumption DEF Home
<1>4. Stay /\ SessionsInv'
  BY <1>1, <1>2, <1>3 DEF Stay, SessionsInv
<1>5. \A q \in Proc : h[q] = Idle \/ (Running(h[q]) /\ cwd'[h[q].session] \in Seq(Name))
  BY <1>2, <1>4 DEF LinesInv, Stay, Running
<1>6. LinesInv'
  BY <1>1, <1>2, <1>5 DEF LinesInv, Running, Idle, Parsed, Word, Arity
<1> QED
  BY <1>1, <1>4, <1>6, TreesStay DEF IInv

LEMMA RequestStep ==
  ASSUME IInv, NEW u \in User, Request(u)
  PROVE  IInv'
<1>1. ops < MaxOps /\ ops' = ops + 1 /\ UNCHANGED <<cwd, h>>
  BY DEF Request, Requested
<1>2. TreesInv
  BY DEF IInv
<1>3. \A v \in Paths : v \in Seq(Name) /\ v # <<>>
  BY TreesAssumption, EmptySeq
<1>4. TreesInv'
  <2>1. CASE \E v \in Paths, c \in Upload : SaveFile(u, v, c)
    BY <2>1, <1>2, <1>3, SaveKeeps
  <2>2. CASE \E f, t \in Paths : MoveApp(u, f, t) \/ MoveOwn(u, f, t)
    BY <2>2, <1>2, <1>3, MoveAppKeeps, MoveOwnKeeps
  <2>3. CASE \E v \in Paths : DeleteApp(u, v) \/ DeleteOwn(u, v)
    BY <2>3, <1>2, <1>3, DeleteAppKeeps, DeleteOwnKeeps
  <2>4. CASE \E v \in Trashed, t \in Paths : Restore(u, v, t)
    BY <2>4, <1>2, <1>3, RestoreKeeps
  <2>5. CASE \E v \in Trashed : DeleteTrash(u, v)
    BY <2>5, <1>2, DeleteTrashKeeps
  <2> QED
    BY <2>1, <2>2, <2>3, <2>4, <2>5 DEF Request
<1>5. SessionsInv' /\ LinesInv'
  BY <1>1 DEF IInv, SessionsInv, LinesInv, Running, Idle, Parsed, Word, Arity
<1>6. ops' \in 0 .. MaxOps
  BY <1>1, TerminalAssumption DEF IInv
<1> QED
  BY <1>4, <1>5, <1>6 DEF IInv

LEMMA ExpireStep ==
  ASSUME IInv, Expire
  PROVE  IInv'
<1>1. TreesInv'
  BY PurgeKeeps DEF Expire, IInv
<1>2. SessionsInv' /\ LinesInv' /\ ops' \in 0 .. MaxOps
  BY DEF Expire, IInv, SessionsInv, LinesInv, Running, Idle, Parsed, Word, Arity
<1> QED
  BY <1>1, <1>2 DEF IInv

-----------------------------------------------------------------------------
(* Theorems *)

LEMMA StartsWell == TermInit => IInv
<1> SUFFICES ASSUME TermInit PROVE IInv
  OBVIOUS
<1>1. files = [q \in {} |-> <<>>] /\ rows = {} /\ trash = {} /\ fresh = 1 /\ torn = FALSE
  BY DEF TermInit, Init
<1>2. DOMAIN files = {} /\ files = [q \in DOMAIN files |-> files[q]]
  BY <1>1
<1>3. FilesInv
  BY <1>2 DEF FilesInv
<1>4. RowsInv /\ TrashInv
  BY <1>1 DEF RowsInv, TrashInv
<1>5. Paired
  BY <1>1, <1>2 DEF Paired
<1>6. TreesInv
  <2>1. torn \in BOOLEAN
    BY <1>1, Zenon
  <2>2. fresh \in Nat \ {0}
    BY <1>1
  <2> QED
    BY <2>1, <2>2, <1>3, <1>4, <1>5 DEF TreesInv
<1>7. SessionsInv /\ LinesInv /\ ops \in 0 .. MaxOps
  BY TerminalAssumption DEF TermInit, SessionsInv, LinesInv
<1> QED
  BY <1>6, <1>7 DEF IInv

LEMMA KeepsGoing == IInv /\ [TermNext]_vars => IInv'
<1> SUFFICES ASSUME IInv, [TermNext]_vars PROVE IInv'
  OBVIOUS
<1>1. CASE TermNext
  BY <1>1, StartStep, CompleteStep, CommandStep, RequestStep, ExpireStep DEF TermNext
<1>2. CASE UNCHANGED vars
  <2>1. UNCHANGED <<trees, cwd, ops>> /\ h' = h
    BY <1>2 DEF vars
  <2>2. LinesInv'
    BY <2>1 DEF IInv, LinesInv, Running, Idle, Parsed, Word, Arity
  <2> QED
    BY <2>1, <2>2, OnlyLines
<1> QED
  BY <1>1, <1>2

\* The inductive invariant: trees, sessions, and lines in execution.
THEOREM TerminalInvariant == TermSpec => []IInv
BY StartsWell, KeepsGoing, PTL DEF TermSpec

LEMMA Typed == IInv => TypeOK
<1> SUFFICES ASSUME IInv PROVE TypeOK
  OBVIOUS
<1>1. ASSUME NEW p \in Proc, h[p] # Idle
      PROVE  /\ h[p].pc \in {"run", "target", "write", "output", "save"}
             /\ h[p].user \in User /\ h[p].line # <<>> /\ cwd[h[p].session] # None
  <2>1. Running(h[p]) /\ cwd[h[p].session] \in Seq(Name)
    BY <1>1 DEF IInv, LinesInv
  <2> QED
    BY <2>1, TerminalAssumption DEF Running
<1> QED
  BY <1>1, TreesPromise DEF IInv, TypeOK

\* The types of the trees, the sessions and the lines.
THEOREM TerminalTypes == TermSpec => []TypeOK
BY TerminalInvariant, Typed, PTL

\* Whoever saves, moves, deletes or restores a file, its row is its owner's, so that
\* the listing of its directory shows it.
THEOREM OwnersList == TermSpec => []RowsAreListed
<1>1. IInv => RowsAreListed
  BY TreesPromise DEF IInv
<1> QED
  BY <1>1, TerminalInvariant, PTL

\* Every row of the trash is listed where it was deleted from, and what a restore of
\* that path selects has its blob, with what the file held.
THEOREM TrashRestores == TermSpec => []ListedIsRestorable
<1>1. IInv => ListedIsRestorable
  BY TreesPromise DEF IInv
<1> QED
  BY <1>1, TerminalInvariant, PTL

\* While nothing has failed halfway, an ordinary user's tree holds what is listed in it.
THEOREM TreesAreListed == TermSpec => []ListedIsThere
<1>1. IInv => ListedIsThere
  BY TreesPromise DEF IInv
<1> QED
  BY <1>1, TerminalInvariant, PTL

-----------------------------------------------------------------------------
(* What has been saved can be read, and is listed *)

\* The two searches for a file agree: get_file_path finds what save_file has placed.
LEMMA ReadsWhatItSaves ==
  ASSUME NEW u \in User, NEW v \in Seq(Name), Len(v) > 2, SavePlace(u, v) # NoPlace
  PROVE  ReadPlace(u, v) = SavePlace(u, v)
<1> DEFINE d == Front(v)
<1>0. v # <<>> /\ Len(v) \in Nat
  BY EmptySeq
<1>1. /\ d \in Seq(Name) /\ Last(v) \in Name /\ Len(d) = Len(v) - 1 /\ Append(d, Last(v)) = v
      /\ \A i \in 1 .. Len(v) - 1 : d[i] = v[i]
  BY <1>0, Ends
<1>2. Len(d) > 1 /\ d # <<>> /\ d[1] = v[1] /\ d[2] = v[2]
  <2>1. Len(d) > 1 /\ 1 \in 1 .. Len(v) - 1 /\ 2 \in 1 .. Len(v) - 1
    BY <1>0, <1>1
  <2> QED
    BY <2>1, <1>1
<1>3. CASE Top(v, "AppData")
  <2>1. Top(d, "AppData") /\ ~Owned(v)
    BY <1>2, <1>3 DEF Top, Owned
  <2>2. Resolve(u, d) # NoPlace /\ SavePlace(u, v) = Append(Resolve(u, d), Last(v))
    BY <2>1 DEF SavePlace, Parent
  <2>3. Resolve(u, d) = d /\ Access(u, d[2])
    BY <2>1, <2>2, <1>2 DEF Resolve
  <2>4. Resolve(u, v) = v
    BY <1>2, <1>3, <2>3 DEF Resolve
  <2> QED
    BY <2>1, <2>2, <2>3, <2>4, <1>1 DEF ReadPlace
<1>4. CASE ~Top(v, "AppData")
  <2>1. OwnerOf(v) # Nobody /\ SavePlace(u, v) = Resolve(OwnerOf(v), v)
    BY <1>0, <1>4, SavedPlace
  <2>2. ~Top(d, "AppData") /\ May(u, d)
    BY <1>0, <1>2, <1>4 DEF SavePlace, Parent, Top
  <2>3. OwnerOf(v) = OwnerOf(d)
    BY <1>0, <1>1, <1>2 DEF OwnerOf, Owned, Top
  <2>4. May(u, v)
    BY <2>2, <2>3 DEF May
  <2>5. Resolve(u, v) = Resolve(OwnerOf(v), v)
    BY <2>1, <1>4 DEF Resolve, OwnerOf, Owned, Top
  <2> QED
    BY <2>1, <2>4, <2>5 DEF ReadPlace
<1> QED
  BY <1>3, <1>4

LEMMA SaveIsSeen ==
  ASSUME NEW u \in User, NEW v \in Seq(Name), Len(v) > 2, NEW c, SaveFile(u, v, c)
  PROVE  /\ Held(ReadPlace(u, v))' = c
         /\ Access(u, "file-manager") => Last(v) \in Listing(u, Parent(v))'
<1> DEFINE q == SavePlace(u, v)
<1> DEFINE d == Front(v)
<1>0. v # <<>> /\ Len(v) \in Nat
  BY EmptySeq
<1>1. /\ q # NoPlace /\ files' = With(files, q, c)
      /\ rows' = IF Top(v, "AppData") THEN rows ELSE rows \cup {RowOf(OwnerOf(v), v)}
  BY DEF SaveFile
<1>2. ReadPlace(u, v) = q
  BY <1>1, ReadsWhatItSaves
<1> HIDE DEF q
<1>3. q \in DOMAIN files' /\ files'[q] = c
  BY <1>1 DEF With
<1>4. Held(ReadPlace(u, v))' = c
  <2>1. ReadPlace(u, v)' = ReadPlace(u, v)
    BY DEF ReadPlace, Resolve, Owned, May, OwnerOf, Top, Access
  <2> QED
    BY <2>1, <1>2, <1>3 DEF Held
<1>5. /\ d \in Seq(Name) /\ Last(v) \in Name /\ Len(d) = Len(v) - 1 /\ Append(d, Last(v)) = v
      /\ \A i \in 1 .. Len(v) - 1 : d[i] = v[i]
  BY <1>0, Ends
<1>6. Len(d) > 1 /\ d # <<>> /\ d[1] = v[1]
  <2>1. Len(d) > 1 /\ 1 \in 1 .. Len(v) - 1
    BY <1>0, <1>5
  <2> QED
    BY <2>1, <1>5
<1>7. ASSUME Access(u, "file-manager") PROVE Last(v) \in Listing(u, Parent(v))'
  <2>1. CASE Top(v, "AppData")
    <3>1. Top(d, "AppData") /\ ~Top(d, "Trash")
      BY <1>6, <2>1 DEF Top
    <3>2. Resolve(u, d) # NoPlace /\ q = Append(Resolve(u, d), Last(v))
      BY <1>1, <3>1 DEF SavePlace, Parent, q
    <3>3. Resolve(u, d) = d
      BY <3>1, <3>2 DEF Resolve
    <3>4. q = v
      BY <3>2, <3>3, <1>5
    <3>5. Last(v) \in {x[Len(x)] : x \in {y \in DOMAIN files' :
                          Resolve(u, d) # NoPlace /\ Len(d) > 1 /\ Parent(y) = Resolve(u, d)}}
      BY <3>2, <3>3, <3>4, <1>3, <1>6 DEF Parent, Last
    <3> QED
      BY <3>1, <3>5 DEF Listing, Parent, Resolve, Top, Access, Owned
  <2>2. CASE ~Top(v, "AppData")
    <3>1. ~Top(d, "AppData") /\ May(u, d)
      BY <1>1, <1>6, <2>2 DEF SavePlace, Parent, Top, q
    <3>2. ~Top(d, "Trash")
      BY <3>1, <1>6 DEF May, OwnerOf, Owned, Top
    <3>3. OwnerOf(v) = OwnerOf(d)
      <4>1. d[2] = v[2] /\ Len(v) > 1
        BY <1>0, <1>5
      <4> QED
        BY <4>1, <1>0, <1>6 DEF OwnerOf, Owned, Top
    <3>4. RowOf(OwnerOf(v), v) \in rows'
      BY <1>1, <2>2
    <3>5. Last(v) \in {r.name : r \in {s \in rows' :
            /\ Access(u, "file-manager")
            /\ Top(d, "System") \/ May(u, d)
            /\ s.user = OwnerOf(d) /\ s.dir = d}}
      BY <1>7, <3>1, <3>3, <3>4 DEF RowOf, Parent
    <3> QED
      BY <3>1, <3>2, <3>5 DEF Listing, Parent, Top, Access, May, OwnerOf, Owned
  <2> QED
    BY <2>1, <2>2
<1> QED
  BY <1>4, <1>7

\* What a command has saved without an error is read back under the same path by the
\* user who saved it, and is listed there.
THEOREM SavesAreSeen == TermSpec => WritesAreSeen
<1>1. ASSUME IInv, [TermNext]_vars
      PROVE  \A p \in Proc : \A u \in {h[p].user}, v \in {h[p].path} :
               Saves(p) /\ Len(v) > 2 =>
                 /\ Held(ReadPlace(u, v))' = h[p].out
                 /\ Access(u, "file-manager") => Last(v) \in Listing(u, Parent(v))'
  <2> SUFFICES ASSUME NEW p \in Proc, NEW u, NEW v, u = h[p].user, v = h[p].path,
                      Saves(p), Len(v) > 2
               PROVE  /\ Held(ReadPlace(u, v))' = h[p].out
                      /\ Access(u, "file-manager") => Last(v) \in Listing(u, Parent(v))'
    OBVIOUS
  <2>1. h[p].pc # "idle" /\ SaveFile(u, v, h[p].out)
    BY DEF Saves, WriteFile, SaveOutput, At
  <2>2. u \in User /\ v \in Seq(Name)
    BY <1>1, <2>1, AtWork DEF IInv, Running
  <2> QED
    BY <2>1, <2>2, SaveIsSeen
<1> QED
  BY <1>1, TerminalInvariant, PTL DEF TermSpec, WritesAreSeen

-----------------------------------------------------------------------------
(* What touch and >> have read is not lost *)

Text == Seq(Piece)

\* What a line has read to append to is the start of what it will save, and a touch
\* has read it unless it asked for a grant; before it has read, a line holds nothing.
StartsWith(old, user, path, out) ==
  old # None /\ old.read /\ Len(path) > 2 /\ SavePlace(user, path) # NoPlace => IsPrefix(old.held, out)
MayMiss(pc, old, user, path) ==
  old # None /\ ~old.read => pc = "save" \/ AsksGrant(user, path)
Appends(x) ==
  /\ x.out \in Text
  /\ x.pc \in {"run", "target"} => x.old = None
  /\ x.pc \in {"write", "save"} => StartsWith(x.old, x.user, x.path, x.out) /\ MayMiss(x.pc, x.old, x.user, x.path)

FilesText == \A q \in DOMAIN files : files[q] \in Text
LinesText == \A p \in Proc : Appends(h[p])
AppendInv == FilesText /\ LinesText

LEMMA PrefixOfAppended ==
  ASSUME NEW s \in Text, NEW t \in Text
  PROVE  IsPrefix(s, s) /\ IsPrefix(s, s \o t) /\ s \o t \in Text
<1>1. Len(s) \in Nat /\ Len(t) \in Nat /\ s \o t \in Text /\ Len(s \o t) = Len(s) + Len(t)
  BY DEF Text
<1>2. \A i \in 1 .. Len(s) : (s \o t)[i] = s[i]
  BY DEF Text
<1>3. SubSeq(s \o t, 1, Len(s)) = s
  BY <1>1, <1>2, SubSeqOfConcat1 DEF Text
<1>4. SubSeq(s, 1, Len(s)) = s
  BY SubSeqFull DEF Text
<1> QED
  BY <1>1, <1>3, <1>4 DEF IsPrefix

\* What the files hold after an operation, they or the request held before.
LEMMA WithText ==
  ASSUME NEW f, \A x \in DOMAIN f : f[x] \in Text, NEW q, NEW c \in Text
  PROVE  \A x \in DOMAIN With(f, q, c) : With(f, q, c)[x] \in Text
BY DEF With

LEMMA LoseText ==
  ASSUME NEW f, \A x \in DOMAIN f : f[x] \in Text, NEW S
  PROVE  \A x \in DOMAIN Lose(f, S) : Lose(f, S)[x] \in Text
BY DEF Lose

LEMMA SaveText ==
  ASSUME FilesText, NEW u, NEW v, NEW c \in Text, SaveFile(u, v, c)
  PROVE  FilesText'
<1>1. files' = With(files, SavePlace(u, v), c)
  BY DEF SaveFile
<1> QED
  BY <1>1, WithText DEF FilesText

LEMMA MoveText ==
  ASSUME FilesText, NEW u, NEW f, NEW t, MoveApp(u, f, t) \/ MoveOwn(u, f, t)
  PROVE  FilesText'
<1>1. \E from, to : from \in DOMAIN files /\ files' = With(Lose(files, {from}), to, files[from])
  BY DEF MoveApp, CanMoveApp, MoveOwn, CanMoveOwn
<1>2. PICK from, to : from \in DOMAIN files /\ files' = With(Lose(files, {from}), to, files[from])
  BY <1>1
<1>3. \A x \in DOMAIN Lose(files, {from}) : Lose(files, {from})[x] \in Text
  BY LoseText DEF FilesText
<1>4. files[from] \in Text
  BY <1>2 DEF FilesText
<1> QED
  BY <1>2, <1>3, <1>4, WithText DEF FilesText

LEMMA DeleteText ==
  ASSUME FilesText, NEW u, NEW v, DeleteApp(u, v) \/ DeleteOwn(u, v) \/ DeleteTrash(u, v)
  PROVE  FilesText'
<1>1. CASE DeleteOwn(u, v)
  <2>1. \E from, to : from \in DOMAIN files /\ files' = With(Lose(files, {from}), to, files[from])
    BY <1>1 DEF DeleteOwn, CanDeleteOwn
  <2>2. PICK from, to : from \in DOMAIN files /\ files' = With(Lose(files, {from}), to, files[from])
    BY <2>1
  <2>3. \A x \in DOMAIN Lose(files, {from}) : Lose(files, {from})[x] \in Text
    BY LoseText DEF FilesText
  <2>4. files[from] \in Text
    BY <2>2 DEF FilesText
  <2> QED
    BY <2>2, <2>3, <2>4, WithText DEF FilesText
<1>2. CASE DeleteApp(u, v) \/ DeleteTrash(u, v)
  <2>1. \E S : files' = Lose(files, S)
    BY <1>2 DEF DeleteApp, DeleteTrash
  <2> QED
    BY <2>1, LoseText DEF FilesText
<1> QED
  BY <1>1, <1>2

LEMMA RestoreText ==
  ASSUME FilesText, NEW u, NEW v, NEW t, Restore(u, v, t)
  PROVE  FilesText'
<1>1. \E from, to : from \in DOMAIN files /\ files' = Lose(With(files, to, files[from]), {from})
  BY DEF Restore, Restorable
<1>2. PICK from, to : from \in DOMAIN files /\ files' = Lose(With(files, to, files[from]), {from})
  BY <1>1
<1>3. files[from] \in Text
  BY <1>2 DEF FilesText
<1>4. \A x \in DOMAIN With(files, to, files[from]) : With(files, to, files[from])[x] \in Text
  BY <1>3, WithText DEF FilesText
<1> QED
  BY <1>2, <1>4, LoseText DEF FilesText

LEMMA SameText == ASSUME FilesText, UNCHANGED files PROVE FilesText'
BY DEF FilesText

\* Appends is a property of a line alone.
LEMMA LinesNext ==
  ASSUME \A q \in Proc : Appends(h'[q])
  PROVE  LinesText'
BY DEF LinesText, Appends, SavePlace, Parent, Resolve, OwnerOf, Owned, Top, May, Access, IsTop

\* One line changes.
LEMMA TextStep ==
  ASSUME LinesInv, LinesText, NEW p \in Proc, NEW y, h' = [h EXCEPT ![p] = y], Appends(y)
  PROVE  LinesText'
<1>1. h'[p] = y /\ \A q \in Proc \ {p} : h'[q] = h[q]
  BY DEF LinesInv
<1>2. \A q \in Proc : Appends(h'[q])
  BY <1>1 DEF LinesText
<1> QED
  BY <1>2, LinesNext

LEMMA IdleAppends == Appends(Idle)
<1>1. <<>> \in Text
  BY DEF Text
<1> QED
  BY <1>1 DEF Appends, Idle

LEMMA PrintsText ==
  ASSUME LinesInv, LinesText, NEW p \in Proc, h[p].pc # "idle", NEW text \in Text, Prints(p, text)
  PROVE  LinesText'
<1> DEFINE x == h[p]
<1> DEFINE y == [x EXCEPT !.pc = "output", !.out = text]
<1>1. Running(x)
  BY AtWork
<1>2. h' = [h EXCEPT ![p] = y]
  BY DEF Prints
<1>3. y = [pc |-> "output", user |-> x.user, session |-> x.session, line |-> x.line,
           path |-> x.path, out |-> text, old |-> x.old]
  BY <1>1, OutputChange DEF Running
<1> HIDE DEF y
<1>4. Appends(y)
  BY <1>3 DEF Appends
<1> QED
  BY <1>2, <1>4, TextStep

LEMMA AnswerText ==
  ASSUME LinesInv, LinesText, NEW p \in Proc, Answer(p)
  PROVE  LinesText'
BY TextStep, IdleAppends DEF Answer

LEMMA AdvanceText ==
  ASSUME LinesInv, LinesText, NEW p \in Proc, h[p].pc # "idle", Advance(p)
  PROVE  LinesText'
<1> DEFINE x == h[p]
<1> DEFINE z == [x EXCEPT !.pc = "run", !.line = Tail(x.line), !.out = <<>>, !.path = <<>>, !.old = None]
<1>1. Running(x)
  BY AtWork
<1>2. h' = [h EXCEPT ![p] = IF Len(x.line) = 1 THEN Idle ELSE z]
  BY DEF Advance
<1>3. z = [pc |-> "run", user |-> x.user, session |-> x.session, line |-> Tail(x.line),
           path |-> <<>>, out |-> <<>>, old |-> None]
  BY <1>1, LineChange DEF Running
<1>4. Appends(z)
  <2>1. <<>> \in Text
    BY DEF Text
  <2> HIDE DEF z
  <2> QED
    BY <2>1, <1>3 DEF Appends
<1> HIDE DEF z
<1> QED
  BY <1>2, <1>4, IdleAppends, TextStep

\* Text that commands print.
LEMMA Words == /\ Blank \in Text /\ Error \in Text /\ <<>> \in Text /\ <<"path">> \in Text
               /\ \A s \in Text, t \in Text : s \o t \in Text
<1>1. "newline" \in Piece /\ "error" \in Piece /\ "path" \in Piece
  BY TerminalAssumption
<1>2. \A e \in Piece : <<e>> \in Text
  BY DEF Text
<1>3. <<>> \in Text /\ \A s \in Text, t \in Text : s \o t \in Text
  BY DEF Text
<1> QED
  BY <1>1, <1>2, <1>3 DEF Blank, Error

LEMMA PassText ==
  ASSUME IInv, AppendInv, NEW p \in Proc,
         Malformed(p) \/ Bare(p) \/ Unknown(p) \/ Output(p) \/ Refuse(p)
  PROVE  AppendInv'
<1>1. UNCHANGED files
  BY DEF Malformed, Bare, Unknown, Output, Refuse, trees
<1>2. Answer(p) \/ (h[p].pc # "idle" /\ Advance(p))
  BY DEF Malformed, Bare, Unknown, Output, Refuse, At
<1> QED
  BY <1>1, <1>2, AnswerText, AdvanceText, SameText DEF IInv, AppendInv

LEMMA EchoText ==
  ASSUME IInv, AppendInv, NEW p \in Proc, Echo(p) \/ Cat(p) \/ ChangeDir(p)
  PROVE  AppendInv'
<1>1. UNCHANGED files /\ h[p].pc # "idle"
  BY DEF Echo, Cat, ChangeDir, At, trees
<1>2. \E text \in Text : Prints(p, text)
  <2>1. CASE Echo(p) \/ ChangeDir(p)
    BY <2>1, Words DEF Echo, ChangeDir
  <2>2. CASE Cat(p)
    <3> DEFINE q == ReadPlace(h[p].user, Arg1(p))
    <3>1. (q \in DOMAIN files /\ Prints(p, files[q] \o Blank)) \/ Prints(p, Error)
      BY <2>2 DEF Cat
    <3> HIDE DEF q
    <3>2. Error \in Text /\ (q \in DOMAIN files => files[q] \o Blank \in Text)
      BY Words DEF AppendInv, FilesText
    <3> QED
      BY <3>1, <3>2
  <2> QED
    BY <2>1, <2>2
<1> QED
  BY <1>1, <1>2, PrintsText, SameText DEF IInv, AppendInv

LEMMA MvRmText ==
  ASSUME IInv, AppendInv, NEW p \in Proc, Mv(p) \/ Rm(p)
  PROVE  AppendInv'
<1>1. h[p].pc # "idle" /\ \E text \in Text : Prints(p, text)
  BY Words DEF Mv, Rm, At
<1>2. LinesText'
  BY <1>1, PrintsText DEF IInv, AppendInv
<1>3. FilesText'
  <2>1. CASE Mv(p)
    BY <2>1, MoveText, RestoreText, SameText DEF Mv, trees, AppendInv
  <2>2. CASE Rm(p)
    BY <2>2, DeleteText, SameText DEF Rm, trees, AppendInv
  <2> QED
    BY <2>1, <2>2
<1> QED
  BY <1>2, <1>3 DEF AppendInv

LEMMA CopyText ==
  ASSUME IInv, AppendInv, NEW p \in Proc, CopyRead(p) \/ CopyTarget(p)
  PROVE  AppendInv'
<1> DEFINE x == h[p]
<1>1. /\ x.pc \in {"run", "target"} /\ UNCHANGED files
      /\ \/ \E text \in Text : h' = [h EXCEPT ![p].pc = "target", ![p].out = text]
         \/ \E v : h' = [h EXCEPT ![p].pc = "write", ![p].path = v]
         \/ Prints(p, Error)
  BY DEF CopyRead, CopyTarget, At, trees, AppendInv, FilesText
<1>2. LinesInv /\ LinesText /\ x.pc # "idle"
  BY <1>1 DEF IInv, AppendInv
<1>3. Running(x) /\ x.old = None /\ x.out \in Text
  BY <1>1, <1>2, AtWork DEF LinesText, Appends
<1>4. CASE \E text \in Text : h' = [h EXCEPT ![p].pc = "target", ![p].out = text]
  <2>1. PICK text \in Text : h' = [h EXCEPT ![p].pc = "target", ![p].out = text]
    BY <1>4
  <2> DEFINE y == [x EXCEPT !.pc = "target", !.out = text]
  <2>2. y = [pc |-> "target", user |-> x.user, session |-> x.session, line |-> x.line,
             path |-> x.path, out |-> text, old |-> x.old]
    BY <1>3, OutputChange DEF Running
  <2>3. h' = [h EXCEPT ![p] = y]
    BY <2>1
  <2> HIDE DEF y
  <2>4. Appends(y)
    BY <1>3, <2>2 DEF Appends
  <2> QED
    BY <1>1, <1>2, <2>3, <2>4, TextStep, SameText DEF AppendInv
<1>5. CASE \E v : h' = [h EXCEPT ![p].pc = "write", ![p].path = v]
  <2>1. PICK v : h' = [h EXCEPT ![p].pc = "write", ![p].path = v]
    BY <1>5
  <2> DEFINE y == [x EXCEPT !.pc = "write", !.path = v]
  <2>2. y = [pc |-> "write", user |-> x.user, session |-> x.session, line |-> x.line,
             path |-> v, out |-> x.out, old |-> x.old]
    BY <1>3, PathChange DEF Running
  <2>3. h' = [h EXCEPT ![p] = y]
    BY <2>1
  <2> HIDE DEF y
  <2>4. Appends(y)
    BY <1>3, <2>2 DEF Appends, StartsWith, MayMiss
  <2> QED
    BY <1>1, <1>2, <2>3, <2>4, TextStep, SameText DEF AppendInv
<1>6. CASE Prints(p, Error)
  BY <1>1, <1>2, <1>6, Words, PrintsText, SameText DEF AppendInv
<1> QED
  BY <1>1, <1>4, <1>5, <1>6

\* What is read for appending, where it can be saved, is the text that is appended to.
LEMMA SaveSoonText ==
  ASSUME IInv, AppendInv, NEW p \in Proc, h[p].pc # "idle", UNCHANGED files,
         NEW pc \in {"write", "save"}, NEW v, NEW out \in Text, NEW old,
         StartsWith(old, h[p].user, v, out), MayMiss(pc, old, h[p].user, v),
         h' = [h EXCEPT ![p].pc = pc, ![p].path = v, ![p].out = out, ![p].old = old]
  PROVE  AppendInv'
<1> DEFINE x == h[p]
<1> DEFINE y == [x EXCEPT !.pc = pc, !.path = v, !.out = out, !.old = old]
<1>1. LinesInv /\ LinesText
  BY DEF IInv, AppendInv
<1>2. Running(x)
  BY <1>1, AtWork
<1>3. h' = [h EXCEPT ![p] = y]
  OBVIOUS
<1>4. y = [pc |-> pc, user |-> x.user, session |-> x.session, line |-> x.line,
           path |-> v, out |-> out, old |-> old]
  <2> DEFINE y1 == [x EXCEPT !.pc = pc, !.path = v]
  <2> DEFINE y2 == [y1 EXCEPT !.out = out]
  <2> DEFINE y3 == [y2 EXCEPT !.old = old]
  <2>1. y = y3
    OBVIOUS
  <2>2. y1 = [pc |-> pc, user |-> x.user, session |-> x.session, line |-> x.line,
              path |-> v, out |-> x.out, old |-> x.old]
    BY <1>2, PathChange DEF Running
  <2> HIDE DEF x, y1, y2, y3
  <2>3. y2 = [pc |-> pc, user |-> x.user, session |-> x.session, line |-> x.line,
              path |-> v, out |-> out, old |-> x.old]
    BY <2>2 DEF y2
  <2>4. y3 = [pc |-> pc, user |-> x.user, session |-> x.session, line |-> x.line,
              path |-> v, out |-> out, old |-> old]
    BY <2>3 DEF y3
  <2> QED
    BY <2>1, <2>4
<1> HIDE DEF y
<1>5. Appends(y)
  BY <1>4 DEF Appends
<1>6. LinesText'
  BY <1>1, <1>3, <1>5, TextStep
<1> QED
  BY <1>6, SameText DEF AppendInv

LEMMA TouchText ==
  ASSUME IInv, AppendInv, NEW p \in Proc, TouchRead(p)
  PROVE  AppendInv'
<1> DEFINE u == h[p].user
<1> DEFINE v == Arg1(p)
<1>1. /\ h[p].pc # "idle" /\ Seg(p).words # <<>> /\ Command(p) = "touch" /\ UNCHANGED files
      /\ \/ \E q \in Looked(u, v) :
              /\ q = NoPlace \/ q \in DOMAIN files
              /\ h' = [h EXCEPT ![p].pc = "write", ![p].path = v,
                               ![p].out = IF q = NoPlace THEN <<>> ELSE files[q],
                               ![p].old = Seen(u, v, q = ReadPlace(u, v))]
         \/ Prints(p, Error)
  BY DEF TouchRead, At, trees
<1>2. u \in User
  BY <1>1, AtWork DEF IInv, Running
<1>3. v \in Seq(Name)
  <2>1. Command(p) = "touch" /\ h[p].pc # "idle" /\ Seg(p).words # <<>> /\ LinesInv
    BY <1>1 DEF IInv
  <2> QED
    BY ONLY <2>1, p \in Proc, Arguments DEF Arity
<1>4. CASE Prints(p, Error)
  <2>1. LinesText'
    BY <1>1, <1>4, Words, PrintsText DEF IInv, AppendInv
  <2> QED
    BY <1>1, <2>1, SameText DEF AppendInv
<1>5. ASSUME NEW q \in Looked(u, v), q = NoPlace \/ q \in DOMAIN files,
             h' = [h EXCEPT ![p].pc = "write", ![p].path = v,
                            ![p].out = IF q = NoPlace THEN <<>> ELSE files[q],
                            ![p].old = Seen(u, v, q = ReadPlace(u, v))]
      PROVE  AppendInv'
  <2> DEFINE out == IF q = NoPlace THEN <<>> ELSE files[q]
  <2> DEFINE read == q = ReadPlace(u, v)
  <2> DEFINE old == Seen(u, v, read)
  <2> HIDE DEF v
  <2>0. (read => q = ReadPlace(u, v)) /\ (~read => AsksGrant(u, v))
    BY <1>5 DEF Looked
  <2> HIDE DEF read
  <2>1. out \in Text
    BY <1>5, Words DEF AppendInv, FilesText
  <2>2. ASSUME old # None PROVE old = [held |-> files[SavePlace(u, v)], read |-> read]
                                /\ SavePlace(u, v) \in DOMAIN files
    BY <2>2 DEF Seen
  <2>3. StartsWith(old, u, v, out)
    <3> SUFFICES ASSUME old # None, old.read, Len(v) > 2, SavePlace(u, v) # NoPlace
                 PROVE  IsPrefix(old.held, out)
      BY DEF StartsWith
    <3>0. read /\ SavePlace(u, v) \in DOMAIN files /\ Len(v) > 2 /\ SavePlace(u, v) # NoPlace
      BY <2>2
    <3>1. q = SavePlace(u, v)
      BY <1>2, <1>3, <2>0, <3>0, ReadsWhatItSaves
    <3>2. old.held = files[q] /\ out = files[q]
      BY <3>1, <2>2
    <3> QED
      BY <2>1, <3>2, PrefixOfAppended
  <2>4. MayMiss("write", old, u, v)
    BY <2>0, <2>2 DEF MayMiss
  <2>5. h' = [h EXCEPT ![p].pc = "write", ![p].path = v, ![p].out = out, ![p].old = old]
    BY <1>5, Zenon DEF read
  <2>6. h[p].pc # "idle" /\ UNCHANGED files
    BY <1>1
  <2> HIDE DEF out, old
  <2> QED
    BY <2>1, <2>3, <2>4, <2>5, <2>6, SaveSoonText
<1> HIDE DEF u, v
<1> QED
  BY <1>1, <1>4, <1>5

LEMMA RedirectText ==
  ASSUME IInv, AppendInv, NEW p \in Proc, Redirect(p)
  PROVE  AppendInv'
<1> DEFINE u == h[p].user
<1> DEFINE v == StoredPath(u, Reach(p, Target(p)))
<1> DEFINE q == IF v = <<>> THEN NoPlace ELSE ReadPlace(u, v)
<1> DEFINE had == h[p].out
<1> DEFINE out(read) == IF Seg(p).append /\ read /\ q \in DOMAIN files THEN files[q] \o had ELSE had
<1> DEFINE old(read) == IF Seg(p).append /\ v # <<>> THEN Seen(u, v, read) ELSE None
<1>1. /\ h[p].pc # "idle" /\ Target(p) # None /\ UNCHANGED files
      /\ \E read \in BOOLEAN :
           h' = [h EXCEPT ![p].pc = "save", ![p].path = v, ![p].out = out(read), ![p].old = old(read)]
  BY DEF Redirect, trees
<1>2. u \in User /\ Reach(p, Target(p)) \in Seq(Name)
  BY <1>1, TargetPath, AtWork DEF IInv, Running
<1>3. v \in Seq(Name)
  BY <1>2, StoredPaths
<1>4. had \in Text
  BY DEF AppendInv, LinesText, Appends
<1> HIDE DEF v, had
<1>5. ASSUME NEW read \in BOOLEAN PROVE out(read) \in Text
  BY <1>4, Words DEF AppendInv, FilesText
<1>6. ASSUME NEW read \in BOOLEAN PROVE StartsWith(old(read), u, v, out(read))
  <2> SUFFICES ASSUME old(read) # None, old(read).read, Len(v) > 2, SavePlace(u, v) # NoPlace
               PROVE  IsPrefix(old(read).held, out(read))
    BY DEF StartsWith
  <2>1. Seg(p).append /\ v # <<>> /\ old(read) = Seen(u, v, read)
    OBVIOUS
  <2>2. SavePlace(u, v) \in DOMAIN files /\ old(read) = [held |-> files[SavePlace(u, v)], read |-> read]
    BY <2>1 DEF Seen
  <2>3. q = SavePlace(u, v)
    BY <1>2, <1>3, <2>1, ReadsWhatItSaves
  <2>4. old(read).held = files[q] /\ out(read) = files[q] \o had /\ files[q] \in Text
    BY <2>1, <2>2, <2>3 DEF AppendInv, FilesText
  <2> HIDE DEF out, old, q
  <2> QED
    BY <2>4, <1>4, PrefixOfAppended
<1>7. ASSUME NEW read PROVE MayMiss("save", old(read), u, v)
  BY DEF MayMiss
<1> HIDE DEF out, old, q
<1>8. PICK read \in BOOLEAN :
        h' = [h EXCEPT ![p].pc = "save", ![p].path = v, ![p].out = out(read), ![p].old = old(read)]
  BY <1>1
<1> QED
  BY <1>1, <1>5, <1>6, <1>7, <1>8, SaveSoonText

LEMMA SavedText ==
  ASSUME IInv, AppendInv, NEW p \in Proc, WriteFile(p) \/ SaveOutput(p)
  PROVE  AppendInv'
<1>1. /\ h[p].pc # "idle"
      /\ SaveFile(h[p].user, h[p].path, h[p].out) \/ UNCHANGED files
      /\ Answer(p) \/ Advance(p) \/ \E text \in Text : Prints(p, text)
  BY Words DEF WriteFile, SaveOutput, At, trees
<1>2. h[p].out \in Text
  BY DEF AppendInv, LinesText, Appends
<1>3. FilesText'
  BY <1>1, <1>2, SaveText, SameText DEF AppendInv
<1>4. LinesText'
  BY <1>1, PrintsText, AnswerText, AdvanceText DEF IInv, AppendInv
<1> QED
  BY <1>3, <1>4 DEF AppendInv

LEMMA CommandText ==
  ASSUME IInv, AppendInv, NEW p \in Proc, StepOf(p)
  PROVE  AppendInv'
BY PassText, EchoText, MvRmText, CopyText, TouchText, RedirectText, SavedText DEF StepOf

LEMMA StartText ==
  ASSUME IInv, AppendInv, NEW p \in Proc, NEW u, NEW s, NEW line, Start(p, u, s, line)
  PROVE  AppendInv'
<1> DEFINE l == Segments(line)
<1> DEFINE y == [Idle EXCEPT !.pc = "run", !.user = u, !.session = s, !.line = l]
<1>1. /\ UNCHANGED files
      /\ h' = IF l = <<>> THEN h ELSE [h EXCEPT ![p] = y]
  BY DEF Start, trees
<1>2. y.pc = "run" /\ y.old = None /\ y.out = <<>>
  BY DEF Idle
<1> HIDE DEF l, y
<1>3. Appends(y)
  BY <1>2, Words DEF Appends
<1>4. LinesText'
  <2>1. CASE l = <<>>
    BY <1>1, <2>1, LinesNext DEF AppendInv, LinesText
  <2>2. CASE l # <<>>
    BY <1>1, <1>3, <2>2, TextStep DEF IInv, AppendInv
  <2> QED
    BY <2>1, <2>2
<1> QED
  BY <1>1, <1>4, SameText DEF AppendInv

LEMMA OthersText ==
  ASSUME AppendInv, FilesText', UNCHANGED h
  PROVE  AppendInv'
<1>1. \A q \in Proc : Appends(h'[q])
  BY DEF AppendInv, LinesText
<1> QED
  BY <1>1, LinesNext DEF AppendInv

LEMMA RequestText ==
  ASSUME IInv, AppendInv, NEW u \in User, Request(u)
  PROVE  AppendInv'
<1>1. UNCHANGED h
  BY DEF Request, Requested
<1>2. Upload \subseteq Text
  BY TerminalAssumption DEF Text
<1>3. FilesText'
  BY <1>2, SaveText, MoveText, DeleteText, RestoreText DEF Request, AppendInv
<1> QED
  BY <1>1, <1>3, OthersText

LEMMA StartsEmpty == TermInit => AppendInv
<1> SUFFICES ASSUME TermInit PROVE AppendInv
  OBVIOUS
<1>1. FilesText
  BY DEF TermInit, Init, FilesText
<1>2. LinesText
  BY IdleAppends DEF TermInit, LinesText
<1> QED
  BY <1>1, <1>2 DEF AppendInv

LEMMA KeepsAppending == IInv /\ AppendInv /\ [TermNext]_vars => AppendInv'
<1> SUFFICES ASSUME IInv, AppendInv, [TermNext]_vars PROVE AppendInv'
  OBVIOUS
<1>1. ASSUME NEW u \in User, NEW s \in Session, Complete(u, s) PROVE AppendInv'
  BY <1>1, SameText, OthersText DEF Complete, trees, AppendInv
<1>2. ASSUME Expire PROVE AppendInv'
  <2>1. UNCHANGED h /\ \E S : files' = Lose(files, S)
    BY <1>2 DEF Expire, Purge
  <2>2. FilesText'
    BY <2>1, LoseText DEF AppendInv, FilesText
  <2> QED
    BY <2>1, <2>2, OthersText
<1>3. CASE TermNext
  BY <1>1, <1>2, <1>3, StartText, CommandText, RequestText DEF TermNext
<1>4. CASE UNCHANGED vars
  BY <1>4, SameText, OthersText DEF vars, trees, AppendInv
<1> QED
  BY <1>3, <1>4

\* Whatever of its reads fails, a touch in the tree of a user, and any by admin, finds
\* what the file held at the start of what it saves, and so does every touch and >> that
\* has read the file: nothing is lost of one that is still what it was.
THEOREM AppendsKeep == TermSpec => AppendKeeps
<1>1. IInv /\ AppendInv /\ [TermNext]_vars => (IInv /\ AppendInv)'
  BY KeepsGoing, KeepsAppending
<1>2. TermSpec => [](IInv /\ AppendInv)
  BY <1>1, StartsWell, StartsEmpty, PTL DEF TermSpec
<1>3. ASSUME IInv, AppendInv, [TermNext]_vars
      PROVE  \A p \in Proc : \A q \in {SavePlace(h[p].user, h[p].path)} :
               Saves(p) /\ Len(h[p].path) > 2 /\ h[p].old # None =>
                 (Held(q) = h[p].old.held /\ ~MayLose(p) => IsPrefix(h[p].old.held, Held(q)'))
  <2> SUFFICES ASSUME NEW p \in Proc, NEW q, q = SavePlace(h[p].user, h[p].path),
                      Saves(p), Len(h[p].path) > 2, h[p].old # None, ~MayLose(p)
               PROVE  IsPrefix(h[p].old.held, Held(q)')
    OBVIOUS
  <2>1. /\ h[p].pc \in {"write", "save"} /\ SavePlace(h[p].user, h[p].path) # NoPlace
        /\ SaveFile(h[p].user, h[p].path, h[p].out)
    BY DEF Saves, WriteFile, SaveOutput, At, CanSave
  <2>2. /\ StartsWith(h[p].old, h[p].user, h[p].path, h[p].out)
        /\ MayMiss(h[p].pc, h[p].old, h[p].user, h[p].path)
    BY <1>3, <2>1 DEF AppendInv, LinesText, Appends
  <2>3. IsPrefix(h[p].old.held, h[p].out)
    BY <2>1, <2>2 DEF StartsWith, MayMiss, MayLose
  <2>4. q \in DOMAIN files' /\ files'[q] = h[p].out
    BY <2>1 DEF SaveFile, With
  <2>5. Held(q)' = h[p].out
    BY <2>4 DEF Held
  <2> QED
    BY <2>3, <2>5
<1> QED
  BY <1>2, <1>3, PTL DEF TermSpec, AppendKeeps
=============================================================================
