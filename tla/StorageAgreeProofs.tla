-------------------------- MODULE StorageAgreeProofs --------------------------
(***************************************************************************)
(* Rows and tree agree between the requests of one client (Storage's       *)
(* AgreeWhileClean), by the invariant AgreeInv of StorageInvariants.       *)
(*                                                                         *)
(* First the order of paths: Within, and Rebase as what carries a subtree  *)
(* over.  Then what each operation does to a tree that is whole, then what *)
(* each statement does to how rows and tree agree, then each step of a     *)
(* request.                                                                *)
(***************************************************************************)
EXTENDS StorageTypeProofs, FiniteSetTheorems

-----------------------------------------------------------------------------
(* The order of paths *)

\* A path lies within another if it begins with its names.
LEMMA WithinNames ==
  ASSUME NEW q \in Path, NEW f \in Path
  PROVE  Within(q, f) <=> Len(f) <= Len(q) /\ \A i \in 1 .. Len(f) : q[i] = f[i]
<1>1. Len(q) \in Nat /\ Len(f) \in Nat
  BY LenProperties DEF Path
<1>2. ASSUME Within(q, f) PROVE Len(f) <= Len(q) /\ \A i \in 1 .. Len(f) : q[i] = f[i]
  BY <1>2, PrefixNames
<1>3. ASSUME Len(f) <= Len(q), \A i \in 1 .. Len(f) : q[i] = f[i] PROVE Within(q, f)
  <2>1. \A i \in 1 .. Len(f) : q[i] \in Name /\ f[i] \in Name
    BY <1>1, <1>3, ElementOfSeq DEF Path
  <2>2. /\ SubSeq(f, 1, Len(f)) \in Seq(Name) /\ SubSeq(q, 1, Len(f)) \in Seq(Name)
        /\ Len(SubSeq(f, 1, Len(f))) = Len(f) /\ Len(SubSeq(q, 1, Len(f))) = Len(f)
        /\ \A i \in 1 .. Len(f) : SubSeq(f, 1, Len(f))[i] = f[i] /\ SubSeq(q, 1, Len(f))[i] = q[i]
    BY <1>1, <2>1, SubSeqProperties
  <2>3. SubSeq(f, 1, Len(f)) = SubSeq(q, 1, Len(f))
    BY <1>3, <2>2, SeqEqual
  <2> QED BY <1>3, <2>3 DEF Within, IsPrefix
<1> QED BY <1>2, <1>3

\* Within is a partial order.
LEMMA WithinSelf == \A q \in Path : Within(q, q)
<1>1. \A q \in Path : Len(q) \in Nat
  BY LenProperties DEF Path
<1> QED BY <1>1, WithinNames

\* Every path lies within the root.
LEMMA RootAbove ==
  ASSUME NEW q \in Path
  PROVE  Root \in Path /\ Within(q, Root)
<1>1. Root \in Path /\ Len(Root) = 0
  BY EmptySeq DEF Root, Path
<1>2. Len(q) \in Nat
  BY LenProperties DEF Path
<1>3. Len(Root) <= Len(q) /\ \A i \in 1 .. Len(Root) : q[i] = Root[i]
  BY <1>1, <1>2
<1> QED BY <1>1, <1>3, WithinNames

\* Lying within is transitive.
LEMMA WithinTrans ==
  ASSUME NEW q \in Path, NEW f \in Path, NEW g \in Path, Within(q, f), Within(f, g)
  PROVE  Within(q, g)
<1>1. Len(q) \in Nat /\ Len(f) \in Nat /\ Len(g) \in Nat
  BY LenProperties DEF Path
<1>2. Len(f) <= Len(q) /\ \A i \in 1 .. Len(f) : q[i] = f[i]
  BY WithinNames
<1>3. Len(g) <= Len(f) /\ \A i \in 1 .. Len(g) : f[i] = g[i]
  BY WithinNames
<1> QED BY <1>1, <1>2, <1>3, WithinNames

\* Two paths that lie within each other are one.
LEMMA WithinAnti ==
  ASSUME NEW q \in Path, NEW f \in Path, Within(q, f), Within(f, q)
  PROVE  q = f
<1>1. Len(q) \in Nat /\ Len(f) \in Nat
  BY LenProperties DEF Path
<1>2. Len(f) <= Len(q) /\ Len(q) <= Len(f) /\ \A i \in 1 .. Len(f) : q[i] = f[i]
  BY WithinNames
<1> QED BY <1>1, <1>2, SeqEqual DEF Path

\* Two directories above a path lie within each other.
LEMMA WithinChain ==
  ASSUME NEW q \in Path, NEW f \in Path, NEW g \in Path, Within(q, f), Within(q, g)
  PROVE  Within(f, g) \/ Within(g, f)
<1>1. Len(q) \in Nat /\ Len(f) \in Nat /\ Len(g) \in Nat
  BY LenProperties DEF Path
<1>2. \A i \in 1 .. Len(f) : q[i] = f[i]
  BY WithinNames
<1>3. \A i \in 1 .. Len(g) : q[i] = g[i]
  BY WithinNames
<1>4. CASE Len(f) <= Len(g)
  <2>1. \A i \in 1 .. Len(f) : g[i] = f[i]
    BY <1>1, <1>2, <1>3, <1>4
  <2> QED BY <1>4, <2>1, WithinNames
<1>5. CASE Len(g) <= Len(f)
  <2>1. \A i \in 1 .. Len(g) : f[i] = g[i]
    BY <1>1, <1>2, <1>3, <1>5
  <2> QED BY <1>5, <2>1, WithinNames
<1> QED BY <1>1, <1>4, <1>5

\* A path lies within each of its beginnings.
LEMMA CutWithin ==
  ASSUME NEW q \in Path, NEW i \in 0 .. Len(q)
  PROVE  SubSeq(q, 1, i) \in Path /\ Len(SubSeq(q, 1, i)) = i /\ Within(q, SubSeq(q, 1, i))
<1>1. Len(q) \in Nat
  BY LenProperties DEF Path
<1>2. \A j \in 1 .. i : q[j] \in Name
  BY <1>1, ElementOfSeq DEF Path
<1>3. /\ SubSeq(q, 1, i) \in Seq(Name) /\ Len(SubSeq(q, 1, i)) = i
      /\ \A j \in 1 .. i : SubSeq(q, 1, i)[j] = q[j]
  BY <1>1, <1>2, SubSeqProperties
<1>4. SubSeq(q, 1, i) \in Path /\ i <= Len(q)
  BY <1>1, <1>3 DEF Path
<1> QED BY <1>1, <1>3, <1>4, WithinNames

\* A path above another is its beginning of that length.
LEMMA WithinCut ==
  ASSUME NEW q \in Path, NEW a \in Path, Within(q, a)
  PROVE  a = SubSeq(q, 1, Len(a))
<1>1. Len(q) \in Nat /\ Len(a) \in Nat /\ Len(a) <= Len(q) /\ \A i \in 1 .. Len(a) : q[i] = a[i]
  BY LenProperties, WithinNames DEF Path
<1>2. \A j \in 1 .. Len(a) : q[j] \in Name
  BY <1>1, ElementOfSeq DEF Path
<1>3. /\ SubSeq(q, 1, Len(a)) \in Seq(Name) /\ Len(SubSeq(q, 1, Len(a))) = Len(a)
      /\ \A j \in 1 .. Len(a) : SubSeq(q, 1, Len(a))[j] = q[j]
  BY <1>1, <1>2, SubSeqProperties
<1> QED BY <1>1, <1>3, SeqEqual DEF Path

\* What lies above a path, the root left out.
LEMMA AboveWithin ==
  ASSUME NEW q \in Path
  PROVE  Above(q) = {a \in Spot : Within(q, a) /\ a # q}
<1>1. Len(q) \in Nat
  BY LenProperties DEF Path
<1>2. ASSUME NEW i \in 1 .. Len(q) - 1
      PROVE  SubSeq(q, 1, i) \in Spot /\ Within(q, SubSeq(q, 1, i)) /\ SubSeq(q, 1, i) # q
  <2>1. SubSeq(q, 1, i) \in Path /\ Len(SubSeq(q, 1, i)) = i /\ Within(q, SubSeq(q, 1, i))
    <3>1. i \in 0 .. Len(q)
      BY <1>1
    <3> QED BY <3>1, CutWithin
  <2> QED BY <1>1, <2>1, EmptySeq DEF Spot, Root
<1>3. ASSUME NEW a \in Spot, Within(q, a), a # q PROVE a \in Above(q)
  <2>1. a \in Path /\ Len(a) \in Nat /\ Len(a) # 0
    BY EmptySeq, LenProperties DEF Spot, Path, Root
  <2>2. Len(a) <= Len(q) /\ \A i \in 1 .. Len(a) : q[i] = a[i]
    BY <1>3, <2>1, WithinNames
  <2>3. Len(a) # Len(q)
    BY <1>1, <1>3, <2>1, <2>2, SeqEqual DEF Path
  <2>4. Len(a) \in 1 .. Len(q) - 1
    BY <1>1, <2>1, <2>2, <2>3
  <2>5. a = SubSeq(q, 1, Len(a))
    BY <1>3, <2>1, WithinCut
  <2> QED BY <2>4, <2>5 DEF Above
<1> QED BY <1>2, <1>3 DEF Above

\* The parent is the nearest of what lies above a path.
LEMMA ParentWithin ==
  ASSUME NEW q \in Spot
  PROVE  /\ Parent(q) \in Path /\ Within(q, Parent(q)) /\ Parent(q) # q
         /\ \A a \in Path : Within(q, a) /\ a # q => Within(Parent(q), a)
         /\ Len(q) = Len(Parent(q)) + 1
<1>1. q \in Path /\ Len(q) \in Nat /\ Len(q) # 0
  BY EmptySeq, LenProperties DEF Spot, Path, Root
<1>2. Parent(q) \in Path /\ Len(Parent(q)) = Len(q) - 1 /\ Within(q, Parent(q))
  <2>1. Len(q) - 1 \in 0 .. Len(q)
    BY <1>1
  <2> QED BY <1>1, <2>1, CutWithin DEF Parent, Front
<1>3. ASSUME NEW a \in Path, Within(q, a), a # q PROVE Within(Parent(q), a)
  <2>1. Within(Parent(q), a) \/ Within(a, Parent(q))
    BY <1>1, <1>2, <1>3, WithinChain
  <2>2. ASSUME Within(a, Parent(q)) PROVE a = Parent(q)
    <3>1. Len(a) \in Nat /\ Len(a) <= Len(q) /\ Len(q) - 1 <= Len(a)
      BY <1>1, <1>2, <1>3, <2>2, WithinNames, LenProperties DEF Path
    <3>2. Len(a) # Len(q)
      BY <1>1, <1>3, WithinNames, SeqEqual DEF Path
    <3>3. Len(a) = Len(q) - 1
      BY <1>1, <3>1, <3>2
    <3>4. a = SubSeq(q, 1, Len(q) - 1)
      BY <1>1, <1>3, <3>3, WithinCut
    <3> QED BY <3>4 DEF Parent, Front
  <2> QED BY <1>2, <2>1, <2>2, WithinSelf
<1> QED BY <1>1, <1>2, <1>3

\* Between a path and one that it lies strictly within stands a child of that one.
LEMMA ChildBetween ==
  ASSUME NEW q \in Path, NEW t \in Path, Within(q, t), q # t
  PROVE  \E c \in Spot : Within(q, c) /\ Parent(c) = t /\ Len(c) = Len(t) + 1
<1> DEFINE c == SubSeq(q, 1, Len(t) + 1)
<1>1. Len(q) \in Nat /\ Len(t) \in Nat /\ Len(t) <= Len(q)
  BY LenProperties, WithinNames DEF Path
<1>2. Len(t) # Len(q)
  BY <1>1, WithinNames, SeqEqual DEF Path
<1>3. c \in Path /\ Len(c) = Len(t) + 1 /\ Within(q, c)
  BY <1>1, <1>2, CutWithin
<1> HIDE DEF c
<1>4. c \in Spot
  BY <1>1, <1>3, EmptySeq DEF Spot, Root
<1>5. Within(c, t)
  <2>1. Within(c, t) \/ Within(t, c)
    BY <1>3, WithinChain
  <2> QED BY <1>1, <1>3, <2>1, WithinNames
<1>6. Parent(c) = t
  <2>1. Within(Parent(c), t) /\ Parent(c) \in Path /\ Len(Parent(c)) = Len(t)
    <3>1. c # t
      BY <1>1, <1>3
    <3>2. Len(Parent(c)) \in Nat /\ Len(c) = Len(Parent(c)) + 1 /\ Parent(c) \in Path
      BY <1>4, ParentWithin, LenProperties DEF Path
    <3>3. Within(Parent(c), t)
      BY <1>4, <1>5, <3>1, ParentWithin
    <3> QED BY <1>1, <1>3, <3>2, <3>3
  <2> QED BY <1>1, <2>1, WithinNames, SeqEqual DEF Path
<1> QED BY <1>3, <1>4, <1>6

-----------------------------------------------------------------------------
(* What Rebase does to the order *)

\* A moved path has the names of its new place, and behind them those it had below
\* its old one.
LEMMA RebaseNames ==
  ASSUME NEW q \in Path, NEW f \in Path, NEW t \in Path, Within(q, f)
  PROVE  /\ Rebase(q, f, t) \in Path
         /\ Len(Rebase(q, f, t)) = Len(t) + Len(q) - Len(f)
         /\ \A i \in 1 .. Len(t) : Rebase(q, f, t)[i] = t[i]
         /\ \A i \in 1 .. Len(q) - Len(f) : Rebase(q, f, t)[Len(t) + i] = q[Len(f) + i]
<1> DEFINE tail == SubSeq(q, Len(f) + 1, Len(q))
<1>1. Len(q) \in Nat /\ Len(f) \in Nat /\ Len(t) \in Nat /\ Len(f) <= Len(q)
  BY LenProperties, WithinNames DEF Path
<1>2. \A i \in Len(f) + 1 .. Len(q) : q[i] \in Name
  BY <1>1, ElementOfSeq DEF Path
<1>3. /\ tail \in Seq(Name)
      /\ Len(tail) = Len(q) - Len(f)
      /\ \A i \in 1 .. Len(q) - Len(f) : tail[i] = q[Len(f) + i]
  <2>1. Len(q) - (Len(f) + 1) + 1 = Len(q) - Len(f)
    BY <1>1
  <2>2. \A i \in 1 .. Len(q) - Len(f) : Len(f) + 1 + i - 1 = Len(f) + i
    BY <1>1
  <2>3. Len(tail) = IF Len(f) + 1 <= Len(q) THEN Len(q) - Len(f) ELSE 0
    BY <1>1, <1>2, <2>1, SubSeqProperties
  <2>4. tail \in Seq(Name)
    BY <1>1, <1>2, SubSeqProperties
  <2>5. \A i \in 1 .. Len(q) - Len(f) : tail[i] = q[Len(f) + 1 + i - 1]
    BY <1>1, <1>2, <2>1, SubSeqProperties
  <2> QED BY <1>1, <2>2, <2>3, <2>4, <2>5
<1> HIDE DEF tail
<1>4. /\ t \o tail \in Seq(Name)
      /\ Len(t \o tail) = Len(t) + Len(tail)
      /\ \A i \in 1 .. Len(t) + Len(tail) :
           (t \o tail)[i] = IF i <= Len(t) THEN t[i] ELSE tail[i - Len(t)]
  BY <1>3, ConcatProperties DEF Path
<1>5. Rebase(q, f, t) = t \o tail
  BY DEF Rebase, tail
<1>6. \A i \in 1 .. Len(t) : (t \o tail)[i] = t[i]
  BY <1>1, <1>3, <1>4
<1>7. \A i \in 1 .. Len(q) - Len(f) : (t \o tail)[Len(t) + i] = q[Len(f) + i]
  <2> TAKE i \in 1 .. Len(q) - Len(f)
  <2>1. Len(t) + i \in 1 .. Len(t) + Len(tail) /\ ~(Len(t) + i <= Len(t)) /\ Len(t) + i - Len(t) = i
    BY <1>1, <1>3
  <2> QED BY <1>3, <1>4, <2>1
<1> QED BY <1>1, <1>3, <1>4, <1>5, <1>6, <1>7 DEF Path

\* It lies within its new place, and the top of the subtree is moved to just there.
LEMMA RebaseInto ==
  ASSUME NEW q \in Path, NEW f \in Path, NEW t \in Path, Within(q, f)
  PROVE  Rebase(q, f, t) \in Path /\ Within(Rebase(q, f, t), t)
<1>1. Len(q) \in Nat /\ Len(f) \in Nat /\ Len(t) \in Nat /\ Len(f) <= Len(q)
  BY LenProperties, WithinNames DEF Path
<1>2. Rebase(q, f, t) \in Path /\ Len(t) <= Len(Rebase(q, f, t))
  BY <1>1, RebaseNames
<1> QED BY <1>2, RebaseNames, WithinNames

\* The top of what is moved comes to stand at the new place.
LEMMA RebaseTop ==
  ASSUME NEW f \in Path, NEW t \in Path
  PROVE  Rebase(f, f, t) = t
<1>1. Len(f) \in Nat /\ Len(t) \in Nat /\ Within(f, f)
  BY LenProperties, WithinSelf DEF Path
<1>2. /\ Rebase(f, f, t) \in Path
      /\ Len(Rebase(f, f, t)) = Len(t) + Len(f) - Len(f)
      /\ \A i \in 1 .. Len(t) : Rebase(f, f, t)[i] = t[i]
  BY <1>1, RebaseNames
<1>3. Len(Rebase(f, f, t)) = Len(t)
  BY <1>1, <1>2
<1> QED BY <1>2, <1>3, SeqEqual DEF Path

\* Moving keeps the order, there and back.
LEMMA RebaseWithin ==
  ASSUME NEW q \in Path, NEW r \in Path, NEW f \in Path, NEW t \in Path,
         Within(q, r), Within(r, f)
  PROVE  Within(q, f) /\ Within(Rebase(q, f, t), Rebase(r, f, t))
<1>1. Within(q, f)
  BY WithinTrans
<1>2. /\ Len(q) \in Nat /\ Len(r) \in Nat /\ Len(f) \in Nat /\ Len(t) \in Nat
      /\ Len(f) <= Len(r) /\ Len(r) <= Len(q) /\ \A i \in 1 .. Len(r) : q[i] = r[i]
  BY LenProperties, WithinNames DEF Path
<1> DEFINE x == Rebase(q, f, t)
<1> DEFINE y == Rebase(r, f, t)
<1>3. /\ x \in Path /\ Len(x) = Len(t) + Len(q) - Len(f) /\ \A i \in 1 .. Len(t) : x[i] = t[i]
      /\ \A i \in 1 .. Len(q) - Len(f) : x[Len(t) + i] = q[Len(f) + i]
  BY <1>1, RebaseNames
<1>4. /\ y \in Path /\ Len(y) = Len(t) + Len(r) - Len(f) /\ \A i \in 1 .. Len(t) : y[i] = t[i]
      /\ \A i \in 1 .. Len(r) - Len(f) : y[Len(t) + i] = r[Len(f) + i]
  BY RebaseNames
<1> HIDE DEF x, y
<1>5. Len(y) <= Len(x)
  BY <1>2, <1>3, <1>4
<1>6. \A i \in 1 .. Len(y) : x[i] = y[i]
  <2> TAKE i \in 1 .. Len(y)
  <2>1. CASE i <= Len(t)
    BY <1>2, <1>3, <1>4, <2>1
  <2>2. CASE i > Len(t)
    <3> DEFINE j == i - Len(t)
    <3>1. /\ j \in 1 .. Len(r) - Len(f) /\ j \in 1 .. Len(q) - Len(f) /\ i = Len(t) + j
          /\ Len(f) + j \in 1 .. Len(r)
      BY <1>2, <1>4, <2>2
    <3> HIDE DEF j
    <3>2. x[i] = q[Len(f) + j] /\ y[i] = r[Len(f) + j]
      BY <1>3, <1>4, <3>1
    <3> QED BY <1>2, <3>1, <3>2
  <2> QED BY <1>2, <1>4, <2>1, <2>2
<1>7. Within(x, y)
  BY <1>3, <1>4, <1>5, <1>6, WithinNames
<1> QED BY <1>1, <1>7 DEF x, y

\* What stands above a moved path and within its new place is moved itself.
LEMMA RebaseAbove ==
  ASSUME NEW q \in Path, NEW f \in Path, NEW t \in Path, NEW a \in Path,
         Within(q, f), Within(Rebase(q, f, t), a), Within(a, t)
  PROVE  /\ Rebase(a, t, f) \in Path /\ Within(Rebase(a, t, f), f)
         /\ Within(q, Rebase(a, t, f)) /\ Rebase(Rebase(a, t, f), f, t) = a
<1>1. Rebase(a, t, f) \in Path /\ Within(Rebase(a, t, f), f)
  BY RebaseInto
<1>2. Rebase(q, f, t) \in Path /\ Rebase(Rebase(q, f, t), t, f) = q
  BY RebaseInto, RebaseBack
<1>3. Within(Rebase(Rebase(q, f, t), t, f), Rebase(a, t, f))
  BY <1>2, RebaseWithin
<1> QED BY <1>1, <1>2, <1>3, RebaseBack

\* A child is moved to the same name.
LEMMA RebaseChild ==
  ASSUME NEW q \in Spot, NEW t \in Path
  PROVE  Rebase(q, Parent(q), t) = Append(t, Last(q))
<1> DEFINE f == Parent(q)
<1>1. q \in Path /\ f \in Path /\ Within(q, f) /\ Len(q) = Len(f) + 1 /\ Len(f) \in Nat /\ Len(t) \in Nat
  BY ParentWithin, LenProperties DEF Spot, Path
<1>2. Last(q) \in Name /\ Last(q) = q[Len(f) + 1]
  BY <1>1, ParentPath DEF Last
<1> HIDE DEF f
<1>3. /\ Rebase(q, f, t) \in Path /\ Len(Rebase(q, f, t)) = Len(t) + 1
      /\ \A i \in 1 .. Len(t) : Rebase(q, f, t)[i] = t[i]
      /\ Rebase(q, f, t)[Len(t) + 1] = q[Len(f) + 1]
  <2>1. Len(t) + Len(q) - Len(f) = Len(t) + 1 /\ 1 \in 1 .. Len(q) - Len(f)
    BY <1>1
  <2>2. /\ Rebase(q, f, t) \in Path /\ Len(Rebase(q, f, t)) = Len(t) + Len(q) - Len(f)
        /\ \A i \in 1 .. Len(t) : Rebase(q, f, t)[i] = t[i]
        /\ \A i \in 1 .. Len(q) - Len(f) : Rebase(q, f, t)[Len(t) + i] = q[Len(f) + i]
    BY <1>1, RebaseNames
  <2> QED BY <2>1, <2>2
<1>4. /\ Append(t, Last(q)) \in Seq(Name) /\ Len(Append(t, Last(q))) = Len(t) + 1
      /\ \A i \in 1 .. Len(t) : Append(t, Last(q))[i] = t[i]
      /\ Append(t, Last(q))[Len(t) + 1] = Last(q)
  BY <1>2, AppendProperties DEF Path
<1>5. \A i \in 1 .. Len(t) + 1 : Rebase(q, f, t)[i] = Append(t, Last(q))[i]
  BY <1>1, <1>2, <1>3, <1>4
<1>6. Rebase(q, f, t) = Append(t, Last(q))
  BY <1>3, <1>4, <1>5, SeqEqual DEF Path
<1> QED BY <1>6 DEF f

\* Names that only match themselves: LIKE finds what lies strictly within.
Literal == \A l \in Lookalike : l[1] = l[2]

\* A pattern then matches what lies below its base, and nothing else.
LEMMA LikeLiteral ==
  ASSUME Literal, NEW d \in Path, NEW b \in Path
  PROVE  LikeBelow(d, b) <=> Within(d, b) /\ d # b
<1>1. Len(d) \in Nat /\ Len(b) \in Nat
  BY LenProperties DEF Path
<1>2. \A m, n \in Name : <<m, n>> \in Lookalike <=> m = n
  <2> TAKE m, n \in Name
  <2>1. <<m, n>> \in Lookalike => <<m, n>>[1] = <<m, n>>[2]
    BY DEF Literal
  <2> QED BY <2>1, LookalikeAssumption
<1>3. \A i \in 1 .. Len(b) : b[i] \in Name
  BY <1>1, ElementOfSeq DEF Path
<1>4. \A i \in 1 .. Len(d) : d[i] \in Name
  BY <1>1, ElementOfSeq DEF Path
<1>5. ASSUME LikeBelow(d, b) PROVE Within(d, b) /\ d # b
  <2>1. Len(d) > Len(b) /\ \A i \in 1 .. Len(b) : <<b[i], d[i]>> \in Lookalike
    BY <1>5 DEF LikeBelow
  <2>2. \A i \in 1 .. Len(b) : d[i] = b[i]
    <3> TAKE i \in 1 .. Len(b)
    <3>1. b[i] \in Name /\ d[i] \in Name /\ <<b[i], d[i]>> \in Lookalike
      BY <1>1, <1>3, <1>4, <2>1
    <3> QED BY <1>2, <3>1
  <2>3. Len(b) <= Len(d) /\ d # b
    BY <1>1, <2>1
  <2> QED BY <2>2, <2>3, WithinNames
<1>6. ASSUME Within(d, b), d # b PROVE LikeBelow(d, b)
  <2>1. Len(b) <= Len(d) /\ \A i \in 1 .. Len(b) : d[i] = b[i]
    BY <1>6, WithinNames
  <2>2. Len(b) # Len(d)
    BY <1>1, <1>6, <2>1, SeqEqual DEF Path
  <2>3. \A i \in 1 .. Len(b) : <<b[i], d[i]>> \in Lookalike
    BY <1>1, <1>2, <1>3, <1>4, <2>1
  <2>4. Len(d) > Len(b)
    BY <1>1, <2>1, <2>2
  <2> QED BY <2>3, <2>4 DEF LikeBelow
<1> QED BY <1>5, <1>6

\* A path lies within f if it is f or its directory does.
LEMMA WithinByParent ==
  ASSUME NEW q \in Spot, NEW f \in Path
  PROVE  Within(q, f) <=> q = f \/ Within(Parent(q), f)
<1>1. q \in Path /\ Parent(q) \in Path /\ Within(q, Parent(q))
  BY ParentWithin DEF Spot
<1> QED BY <1>1, ParentWithin, WithinSelf, WithinTrans

\* The rows that deleting a directory drops, its own aside.
LEMMA SubtreeLiteral ==
  ASSUME Literal, NEW q \in Spot, NEW f \in Path
  PROVE  DirInSubtree(Parent(q), f) <=> Within(q, f) /\ q # f
<1>1. q \in Path /\ Parent(q) \in Path /\ Within(q, Parent(q)) /\ Parent(q) # q
  BY ParentWithin DEF Spot
<1>2. DirInSubtree(Parent(q), f) <=> Within(Parent(q), f)
  BY <1>1, LikeLiteral, WithinSelf DEF DirInSubtree
<1>3. Within(Parent(q), f) => q # f
  BY <1>1, WithinAnti
<1> QED BY <1>2, <1>3, WithinByParent
-----------------------------------------------------------------------------
(* Trees that are whole *)

\* Above what is in a whole tree there are directories.
LEMMA WholeAbove ==
  ASSUME NEW tree, Whole(tree), DOMAIN tree \subseteq Spot,
         NEW q \in DOMAIN tree, NEW a \in Path, Within(q, a), a # q
  PROVE  IsDirAt(tree, a)
<1>1. q \in Path
  BY DEF Spot
<1>2. CASE a = Root
  BY <1>2 DEF IsDirAt
<1>3. CASE a # Root
  BY <1>1, <1>3, AboveWithin DEF Whole, Spot
<1> QED BY <1>2, <1>3

\* A tree is whole if that is so.
LEMMA AboveWhole ==
  ASSUME NEW tree, DOMAIN tree \subseteq Spot,
         \A q \in DOMAIN tree, a \in Spot : Within(q, a) /\ a # q => IsDirAt(tree, a)
  PROVE  Whole(tree)
<1>1. \A q \in DOMAIN tree : q \in Path /\ Above(q) = {a \in Spot : Within(q, a) /\ a # q}
  BY AboveWithin DEF Spot
<1> QED BY <1>1 DEF Whole

\* Nothing stands within a file, or within what is not there.
LEMMA NothingWithin ==
  ASSUME NEW tree, Whole(tree), DOMAIN tree \subseteq Spot,
         NEW q \in DOMAIN tree, NEW a \in Path, Within(q, a), ~IsDirAt(tree, a)
  PROVE  q = a
BY WholeAbove

\* Nothing stands within a directory without children.
LEMMA NoChildren ==
  ASSUME NEW tree, Whole(tree), DOMAIN tree \subseteq Spot,
         NEW t \in Path, Children(tree, t) = {}, NEW q \in DOMAIN tree, Within(q, t)
  PROVE  q = t
<1> SUFFICES ASSUME q # t PROVE FALSE
  OBVIOUS
<1>1. q \in Path
  BY DEF Spot
<1>2. PICK c \in Spot : Within(q, c) /\ Parent(c) = t /\ Len(c) = Len(t) + 1
  BY <1>1, ChildBetween
<1>3. c \in DOMAIN tree
  <2>1. CASE c = q
    BY <2>1
  <2>2. CASE c # q
    BY <1>2, <2>2, WholeAbove DEF IsDirAt, Spot
  <2> QED BY <2>1, <2>2
<1> QED BY <1>2, <1>3 DEF Children

\* The empty tree is whole.
LEMMA BlankWhole == Whole(Blank)
BY DEF Whole, Blank

\* create_dir adds directories and changes nothing that was there.
LEMMA CreateDirAt ==
  ASSUME NEW tree, NEW q \in Path, CanCreateDir(tree, q)
  PROVE  /\ IsDirAt(CreateDir(tree, q), q)
         /\ \A x \in Above(q) : IsDirAt(CreateDir(tree, q), x)
         /\ \A x : IsFileAt(CreateDir(tree, q), x) <=> IsFileAt(tree, x)
         /\ \A x : IsDirAt(tree, x) => IsDirAt(CreateDir(tree, q), x)
         /\ DOMAIN CreateDir(tree, q) = DOMAIN tree \cup ((Above(q) \cup {q}) \ {Root})
<1> DEFINE new == (Above(q) \cup {q}) \ (DOMAIN tree \cup {Root})
<1> DEFINE made == CreateDir(tree, q)
<1>1. made = [x \in DOMAIN tree \cup new |-> IF x \in new THEN Folder ELSE tree[x]]
  BY DEF CreateDir
<1>2. \A x \in Above(q) \cup {q} : x \in DOMAIN tree => tree[x] = Folder
  BY DEF CanCreateDir, IsFileAt
<1>3. DOMAIN made = DOMAIN tree \cup ((Above(q) \cup {q}) \ {Root})
  BY <1>1
<1>4. /\ \A x \in new : made[x] = Folder
      /\ \A x \in DOMAIN tree : made[x] = tree[x]
  BY <1>1
<1>5. \A x \in Above(q) \cup {q} : IsDirAt(made, x)
  <2> TAKE x \in Above(q) \cup {q}
  <2>1. x = Root \/ x \in new \/ x \in DOMAIN tree
    OBVIOUS
  <2> QED BY <1>2, <1>3, <1>4, <2>1 DEF IsDirAt
<1>6. \A x : IsFileAt(made, x) <=> IsFileAt(tree, x)
  <2> TAKE x
  <2>1. x \in DOMAIN made <=> x \in DOMAIN tree \/ x \in new
    BY <1>1
  <2>2. ~(x \in DOMAIN tree /\ x \in new)
    OBVIOUS
  <2> HIDE DEF made, new
  <2> QED BY <1>4, <2>1, <2>2 DEF IsFileAt
<1>7. \A x : IsDirAt(tree, x) => IsDirAt(made, x)
  BY <1>3, <1>4 DEF IsDirAt
<1> QED BY <1>3, <1>5, <1>6, <1>7

\* create_dir keeps a tree whole.
LEMMA CreateDirWhole ==
  ASSUME NEW tree, Whole(tree), DOMAIN tree \subseteq Spot, NEW q \in Path, CanCreateDir(tree, q)
  PROVE  Whole(CreateDir(tree, q)) /\ DOMAIN CreateDir(tree, q) \subseteq Spot
<1> DEFINE made == CreateDir(tree, q)
<1>1. /\ DOMAIN made = DOMAIN tree \cup ((Above(q) \cup {q}) \ {Root})
      /\ \A x \in Above(q) \cup {q} : IsDirAt(made, x)
      /\ \A x : IsDirAt(tree, x) => IsDirAt(made, x)
  BY CreateDirAt
<1> HIDE DEF made
<1>2. DOMAIN made \subseteq Spot
  BY <1>1, AbovePaths DEF Spot
<1>3. \A x \in DOMAIN made, a \in Spot : Within(x, a) /\ a # x => IsDirAt(made, a)
  <2> SUFFICES ASSUME NEW x \in DOMAIN made, NEW a \in Spot, Within(x, a), a # x
               PROVE  IsDirAt(made, a)
    OBVIOUS
  <2>1. a \in Path /\ x \in Path
    BY <1>2 DEF Spot
  <2>2. CASE x \in DOMAIN tree
    BY <1>1, <2>1, <2>2, WholeAbove
  <2>3. CASE x \in Above(q) \cup {q}
    <3>1. Within(q, x)
      BY <2>3, AboveWithin, WithinSelf
    <3>2. Within(q, a)
      BY <2>1, <3>1, WithinTrans
    <3>3. a \in Above(q) \cup {q}
      BY <3>2, AboveWithin
    <3> QED BY <1>1, <3>3
  <2> QED BY <1>1, <2>2, <2>3
<1> QED BY <1>2, <1>3, AboveWhole DEF made

\* Whether it succeeds or not, the files stay and no directory goes.
LEMMA TryCreateDirWhole ==
  ASSUME NEW tree, Whole(tree), DOMAIN tree \subseteq Spot, NEW q \in Path
  PROVE  /\ Whole(TryCreateDir(tree, q)) /\ DOMAIN TryCreateDir(tree, q) \subseteq Spot
         /\ \A x : IsFileAt(TryCreateDir(tree, q), x) <=> IsFileAt(tree, x)
         /\ \A x : IsDirAt(tree, x) => IsDirAt(TryCreateDir(tree, q), x)
BY CreateDirWhole, CreateDirAt DEF TryCreateDir

\* write adds a file, and directories above it.
LEMMA WriteWhole ==
  ASSUME NEW tree, Whole(tree), DOMAIN tree \subseteq Spot, NEW q \in Spot, NEW d \in Data,
         CanWrite(tree, q)
  PROVE  /\ Whole(Write(tree, q, d)) /\ DOMAIN Write(tree, q, d) \subseteq Spot
         /\ IsFileAt(Write(tree, q, d), q)
         /\ \A x : x # q => (IsFileAt(Write(tree, q, d), x) <=> IsFileAt(tree, x))
         /\ \A x : IsDirAt(tree, x) => IsDirAt(Write(tree, q, d), x)
<1> DEFINE made == CreateDir(tree, Parent(q))
<1> DEFINE new == Write(tree, q, d)
<1>1. Parent(q) \in Path /\ q \in Path /\ CanCreateDir(tree, Parent(q)) /\ ~IsDirAt(tree, q)
  BY ParentPath DEF CanWrite, Spot
<1>2. /\ Whole(made) /\ DOMAIN made \subseteq Spot
      /\ \A x : IsFileAt(made, x) <=> IsFileAt(tree, x)
      /\ \A x : IsDirAt(tree, x) => IsDirAt(made, x)
      /\ \A x \in Above(Parent(q)) \cup {Parent(q)} : IsDirAt(made, x)
      /\ DOMAIN made = DOMAIN tree \cup ((Above(Parent(q)) \cup {Parent(q)}) \ {Root})
  BY <1>1, CreateDirWhole, CreateDirAt
<1>3. DOMAIN new = DOMAIN made \cup {q} /\ new[q] = d /\ \A x \in DOMAIN made : x # q => new[x] = made[x]
  BY DEF Write, Put
<1> HIDE DEF made, new
<1>4. d # Folder /\ q # Root
  BY FolderAssumption DEF Spot
<1>5. IsFileAt(new, q)
  BY <1>3, <1>4 DEF IsFileAt
<1>6. \A x : x # q => (IsFileAt(new, x) <=> IsFileAt(tree, x))
  BY <1>2, <1>3 DEF IsFileAt
<1>7. \A x : x # q /\ IsDirAt(made, x) => IsDirAt(new, x)
  BY <1>3 DEF IsDirAt
<1>8. \A x : IsDirAt(tree, x) => IsDirAt(new, x)
  BY <1>1, <1>2, <1>7
<1>9. ~Within(Parent(q), q)
  BY <1>1, ParentWithin, WithinAnti
<1>10. \A x \in DOMAIN new, a \in Spot : Within(x, a) /\ a # x => IsDirAt(new, a)
  <2> SUFFICES ASSUME NEW x \in DOMAIN new, NEW a \in Spot, Within(x, a), a # x
               PROVE  IsDirAt(new, a)
    OBVIOUS
  <2>1. a \in Path /\ x \in Path
    BY <1>1, <1>2, <1>3 DEF Spot
  <2>2. CASE x = q
    <3>1. Within(Parent(q), a)
      BY <2>1, <2>2, ParentWithin
    <3>2. a \in Above(Parent(q)) \cup {Parent(q)}
      BY <1>1, <3>1, AboveWithin
    <3> QED BY <1>2, <1>7, <2>2, <3>2
  <2>3. CASE x \in DOMAIN tree
    <3>1. IsDirAt(tree, a)
      BY <2>1, <2>3, WholeAbove
    <3> QED BY <1>8, <3>1
  <2>4. CASE x \in Above(Parent(q)) \cup {Parent(q)}
    <3>1. Within(Parent(q), x)
      BY <1>1, <2>4, AboveWithin, WithinSelf
    <3>2. Within(Parent(q), a)
      BY <1>1, <2>1, <3>1, WithinTrans
    <3>3. a \in Above(Parent(q)) \cup {Parent(q)} /\ a # q
      BY <1>1, <1>9, <3>2, AboveWithin
    <3> QED BY <1>2, <1>7, <3>3
  <2> QED BY <1>2, <1>3, <2>2, <2>3, <2>4
<1>11. DOMAIN new \subseteq Spot
  BY <1>2, <1>3
<1> QED BY <1>5, <1>6, <1>8, <1>10, <1>11, AboveWhole DEF new

\* Taking a file out, or a subtree.
LEMMA WithoutFileWhole ==
  ASSUME NEW tree, Whole(tree), DOMAIN tree \subseteq Spot, NEW q, IsFileAt(tree, q)
  PROVE  /\ Whole(Without(tree, {q})) /\ DOMAIN Without(tree, {q}) = DOMAIN tree \ {q}
         /\ \A x : x # q => /\ IsFileAt(Without(tree, {q}), x) <=> IsFileAt(tree, x)
                            /\ IsDirAt(tree, x) => IsDirAt(Without(tree, {q}), x)
<1> DEFINE new == Without(tree, {q})
<1>1. DOMAIN new = DOMAIN tree \ {q} /\ \A x \in DOMAIN new : new[x] = tree[x]
  BY DEF Without
<1> HIDE DEF new
<1>2. \A x : x # q => (IsFileAt(new, x) <=> IsFileAt(tree, x)) /\ (IsDirAt(tree, x) => IsDirAt(new, x))
  BY <1>1 DEF IsFileAt, IsDirAt
<1>3. q # Root /\ ~IsDirAt(tree, q)
  BY DEF IsFileAt, IsDirAt, Spot
<1>4. \A x \in DOMAIN new, a \in Spot : Within(x, a) /\ a # x => IsDirAt(new, a)
  <2> SUFFICES ASSUME NEW x \in DOMAIN new, NEW a \in Spot, Within(x, a), a # x
               PROVE  IsDirAt(new, a)
    OBVIOUS
  <2>1. IsDirAt(tree, a)
    BY <1>1, WholeAbove DEF Spot
  <2> QED BY <1>2, <1>3, <2>1
<1> QED BY <1>1, <1>2, <1>4, AboveWhole DEF new

\* remove_all takes a subtree, and keeps a tree whole.
LEMMA RemoveAllWhole ==
  ASSUME NEW tree, Whole(tree), DOMAIN tree \subseteq Spot, NEW q \in Path
  PROVE  /\ Whole(RemoveAll(tree, q)) /\ DOMAIN RemoveAll(tree, q) = {x \in DOMAIN tree : ~Within(x, q)}
         /\ \A x : ~Within(x, q) => /\ IsFileAt(RemoveAll(tree, q), x) <=> IsFileAt(tree, x)
                                    /\ IsDirAt(tree, x) => IsDirAt(RemoveAll(tree, q), x)
<1> DEFINE new == RemoveAll(tree, q)
<1>1. DOMAIN new = {x \in DOMAIN tree : ~Within(x, q)} /\ \A x \in DOMAIN new : new[x] = tree[x]
  BY DEF RemoveAll, Without
<1> HIDE DEF new
<1>2. \A x : ~Within(x, q) => (IsFileAt(new, x) <=> IsFileAt(tree, x)) /\ (IsDirAt(tree, x) => IsDirAt(new, x))
  BY <1>1 DEF IsFileAt, IsDirAt
<1>3. \A x \in DOMAIN new, a \in Spot : Within(x, a) /\ a # x => IsDirAt(new, a)
  <2> SUFFICES ASSUME NEW x \in DOMAIN new, NEW a \in Spot, Within(x, a), a # x
               PROVE  IsDirAt(new, a)
    OBVIOUS
  <2>1. IsDirAt(tree, a) /\ x \in Path /\ a \in Path
    BY <1>1, WholeAbove DEF Spot
  <2>2. ~Within(a, q)
    BY <1>1, <2>1, WithinTrans
  <2> QED BY <1>2, <2>1, <2>2
<1> QED BY <1>1, <1>2, <1>3, AboveWhole DEF new

\* Where a subtree can be moved to there is nothing but an empty directory or a file.
LEMMA MoveRoom ==
  ASSUME NEW tree, Whole(tree), DOMAIN tree \subseteq Spot,
         NEW f \in Spot, NEW t \in Spot, CanMove(tree, f, t)
  PROVE  /\ ~Within(t, f) /\ ~Within(f, t)
         /\ \A x \in DOMAIN tree : Within(x, t) => x = t
<1>1. f \in Path /\ t \in Path /\ t # Root
  BY DEF Spot
<1>2. f \in DOMAIN tree /\ ~Within(t, f) /\ (t \in DOMAIN tree => Children(tree, t) = {})
  BY DEF CanMove
<1>3. ASSUME NEW x \in DOMAIN tree, Within(x, t) PROVE x = t
  <2>1. CASE t \in DOMAIN tree
    BY <1>1, <1>2, <1>3, <2>1, NoChildren
  <2>2. CASE t \notin DOMAIN tree
    BY <1>1, <1>3, <2>2, NothingWithin DEF IsDirAt
  <2> QED BY <2>1, <2>2
<1>4. ~Within(f, t)
  BY <1>1, <1>2, <1>3, WithinSelf
<1> QED BY <1>2, <1>3, <1>4

\* What a move makes of the tree.
LEMMA MoveAt ==
  ASSUME NEW tree, Whole(tree), DOMAIN tree \subseteq Spot,
         NEW f \in Spot, NEW t \in Spot, CanMove(tree, f, t)
  PROVE  /\ DOMAIN Move(tree, f, t) =
              {x \in DOMAIN tree : ~Within(x, f) /\ x # t}
                \cup {Rebase(x, f, t) : x \in {y \in DOMAIN tree : Within(y, f)}}
         /\ \A x \in DOMAIN tree : ~Within(x, f) /\ x # t => Move(tree, f, t)[x] = tree[x]
         /\ \A x \in DOMAIN tree : Within(x, f) => Move(tree, f, t)[Rebase(x, f, t)] = tree[x]
<1> DEFINE stay == {x \in DOMAIN tree : ~Within(x, f) /\ x # t}
<1> DEFINE moved == {Rebase(x, f, t) : x \in {y \in DOMAIN tree : Within(y, f)}}
<1> DEFINE new == Move(tree, f, t)
<1>1. new = [x \in stay \cup moved |-> IF x \in moved THEN tree[Rebase(x, t, f)] ELSE tree[x]]
  BY DEF Move
<1>2. f \in Path /\ t \in Path /\ \A x \in DOMAIN tree : x \in Path
  BY DEF Spot
<1>3. \A x \in DOMAIN tree : Within(x, f) =>
        Within(Rebase(x, f, t), t) /\ Rebase(Rebase(x, f, t), t, f) = x
  BY <1>2, RebaseInto, RebaseBack
<1>4. \A x \in stay : x \notin moved
  BY <1>3, MoveRoom
<1>5. \A x \in stay : new[x] = tree[x]
  BY <1>1, <1>4
<1>6. \A x \in DOMAIN tree : Within(x, f) => new[Rebase(x, f, t)] = tree[x]
  BY <1>1, <1>3
<1> QED BY <1>1, <1>5, <1>6

\* rename keeps a tree whole.
LEMMA MoveWhole ==
  ASSUME NEW tree, Whole(tree), DOMAIN tree \subseteq Spot,
         NEW f \in Spot, NEW t \in Spot, CanMove(tree, f, t)
  PROVE  Whole(Move(tree, f, t)) /\ DOMAIN Move(tree, f, t) \subseteq Spot
<1> DEFINE new == Move(tree, f, t)
<1>1. f \in Path /\ t \in Path /\ t # Root /\ \A x \in DOMAIN tree : x \in Path
  BY DEF Spot
<1>2. /\ DOMAIN new = {x \in DOMAIN tree : ~Within(x, f) /\ x # t}
                \cup {Rebase(x, f, t) : x \in {y \in DOMAIN tree : Within(y, f)}}
      /\ \A x \in DOMAIN tree : ~Within(x, f) /\ x # t => new[x] = tree[x]
      /\ \A x \in DOMAIN tree : Within(x, f) => new[Rebase(x, f, t)] = tree[x]
  BY MoveAt
<1> HIDE DEF new
<1>3. ~Within(t, f) /\ ~Within(f, t) /\ \A x \in DOMAIN tree : Within(x, t) => x = t
  BY MoveRoom
<1>4. f \in DOMAIN tree /\ IsDirAt(tree, Parent(t))
  BY DEF CanMove
<1>5. DOMAIN new \subseteq Spot
  BY <1>1, <1>2, RebaseSpot
<1>6. \A x : ~Within(x, f) /\ x # t /\ IsDirAt(tree, x) => IsDirAt(new, x)
  BY <1>2 DEF IsDirAt
<1>7. ASSUME NEW x \in DOMAIN tree, ~Within(x, f), x # t, NEW a \in Spot, Within(x, a), a # x
      PROVE  IsDirAt(new, a)
  <2>1. a \in Path /\ x \in Path
    BY <1>1 DEF Spot
  <2>2. IsDirAt(tree, a)
    BY <1>7, <2>1, WholeAbove
  <2>3. ~Within(a, f)
    BY <1>1, <1>7, <2>1, WithinTrans
  <2>4. a # t
    BY <1>3, <1>7
  <2> QED BY <1>6, <2>2, <2>3, <2>4
<1>8. ASSUME NEW y \in DOMAIN tree, Within(y, f), NEW a \in Spot, Within(Rebase(y, f, t), a), a # Rebase(y, f, t)
      PROVE  IsDirAt(new, a)
  <2>1. /\ a \in Path /\ y \in Path /\ Rebase(y, f, t) \in Path
        /\ Within(Rebase(y, f, t), t)
    BY <1>1, <1>8, RebaseInto DEF Spot
  <2>2. CASE Within(a, t)
    <3> DEFINE b == Rebase(a, t, f)
    <3>1. b \in Path /\ Within(b, f) /\ Within(y, b) /\ Rebase(b, f, t) = a
      BY <1>1, <1>8, <2>1, <2>2, RebaseAbove
    <3> HIDE DEF b
    <3>2. b # y
      BY <1>8, <3>1
    <3>3. b # Root
      <4>1. b = Root => Within(Root, f)
        BY <3>1
      <4>2. Root \in Path /\ Within(f, Root)
        BY <1>1, RootAbove DEF Spot
      <4> QED BY <1>1, <3>1, <4>1, <4>2, WithinAnti DEF Spot
    <3>4. b \in DOMAIN tree /\ tree[b] = Folder
      BY <1>8, <2>1, <3>1, <3>2, <3>3, WholeAbove DEF IsDirAt
    <3>5. new[a] = Folder /\ a \in DOMAIN new
      BY <1>2, <3>1, <3>4
    <3> QED BY <3>5 DEF IsDirAt
  <2>3. CASE ~Within(a, t)
    <3>1. Within(t, a) /\ a # t
      BY <1>1, <1>8, <2>1, <2>3, WithinChain, WithinSelf
    <3>2. Within(Parent(t), a) /\ Parent(t) \in Path
      BY <2>1, <3>1, ParentWithin
    <3>3. IsDirAt(tree, a)
      <4>1. CASE a = Parent(t)
        BY <1>4, <4>1
      <4>2. CASE a # Parent(t)
        <5>1. Parent(t) # Root
          <6>1. Root \in Path /\ Within(a, Root)
            BY <2>1, RootAbove
          <6> QED BY <2>1, <3>2, <4>2, <6>1, WithinAnti
        <5>2. Parent(t) \in DOMAIN tree
          BY <1>4, <5>1 DEF IsDirAt
        <5> QED BY <2>1, <3>2, <4>2, <5>2, WholeAbove
      <4> QED BY <4>1, <4>2
    <3>4. ~Within(a, f)
      BY <1>1, <1>3, <2>1, <3>1, WithinTrans
    <3> QED BY <1>6, <3>1, <3>3, <3>4
  <2> QED BY <2>2, <2>3
<1>9. \A x \in DOMAIN new, a \in Spot : Within(x, a) /\ a # x => IsDirAt(new, a)
  BY <1>2, <1>7, <1>8
<1> QED BY <1>5, <1>9, AboveWhole DEF new

\* What was within f is at its place within t, and the rest where it was; a file or an
\* empty directory that stood at t has been replaced by one of the same kind.
LEMMA MoveKinds ==
  ASSUME NEW tree, Whole(tree), DOMAIN tree \subseteq Spot,
         NEW f \in Spot, NEW t \in Spot, CanMove(tree, f, t)
  PROVE  /\ \A x \in DOMAIN Move(tree, f, t) : ~Within(x, f)
         /\ \A x \in Spot : Within(x, f) =>
              /\ IsFileAt(tree, x) => IsFileAt(Move(tree, f, t), Rebase(x, f, t))
              /\ IsDirAt(tree, x) => IsDirAt(Move(tree, f, t), Rebase(x, f, t))
         /\ \A x \in Spot : ~Within(x, f) =>
              /\ IsFileAt(tree, x) => IsFileAt(Move(tree, f, t), x)
              /\ IsDirAt(tree, x) => IsDirAt(Move(tree, f, t), x)
         /\ \A x : IsFileAt(Move(tree, f, t), x) =>
              \/ IsFileAt(tree, x) /\ ~Within(x, f)
              \/ \E y \in Spot : Within(y, f) /\ IsFileAt(tree, y) /\ x = Rebase(y, f, t)
<1> DEFINE new == Move(tree, f, t)
<1>1. f \in Path /\ t \in Path /\ \A x \in Spot : x \in Path
  BY DEF Spot
<1>2. /\ DOMAIN new = {x \in DOMAIN tree : ~Within(x, f) /\ x # t}
                \cup {Rebase(x, f, t) : x \in {y \in DOMAIN tree : Within(y, f)}}
      /\ \A x \in DOMAIN tree : ~Within(x, f) /\ x # t => new[x] = tree[x]
      /\ \A x \in DOMAIN tree : Within(x, f) => new[Rebase(x, f, t)] = tree[x]
  BY MoveAt
<1> HIDE DEF new
<1>3. ~Within(t, f) /\ ~Within(f, t) /\ \A x \in DOMAIN tree : Within(x, t) => x = t
  BY MoveRoom
<1>4. \A x \in DOMAIN new : ~Within(x, f)
  <2>1. \A y \in DOMAIN tree : Within(y, f) => Rebase(y, f, t) \in Path /\ Within(Rebase(y, f, t), t)
    BY <1>1, RebaseInto
  <2>2. \A y \in DOMAIN tree : Within(y, f) => ~Within(Rebase(y, f, t), f)
    BY <1>1, <1>3, <2>1, WithinChain
  <2> QED BY <1>2, <2>2
<1>5. \A x \in Spot : Within(x, f) =>
        /\ IsFileAt(tree, x) => IsFileAt(new, Rebase(x, f, t))
        /\ IsDirAt(tree, x) => IsDirAt(new, Rebase(x, f, t))
  BY <1>2 DEF IsFileAt, IsDirAt, Spot
<1>6. f \in DOMAIN tree /\ Rebase(f, f, t) = t /\ Within(f, f)
  BY <1>1, RebaseTop, WithinSelf DEF CanMove
<1>7. (IsFileAt(tree, t) => IsFileAt(new, t)) /\ (IsDirAt(tree, t) => IsDirAt(new, t))
  <2>1. t \in DOMAIN new /\ new[t] = tree[f]
    BY <1>2, <1>6
  <2>2. (IsFileAt(tree, f) => ~IsDirAt(tree, t)) /\ (~IsFileAt(tree, f) => ~IsFileAt(tree, t))
    BY DEF CanMove, IsFileAt, IsDirAt, Spot
  <2> QED BY <1>6, <2>1, <2>2 DEF IsFileAt, IsDirAt
<1>8. \A x \in Spot : ~Within(x, f) =>
        /\ IsFileAt(tree, x) => IsFileAt(new, x)
        /\ IsDirAt(tree, x) => IsDirAt(new, x)
  <2>1. \A x \in Spot : ~Within(x, f) /\ x # t =>
          /\ IsFileAt(tree, x) => IsFileAt(new, x)
          /\ IsDirAt(tree, x) => IsDirAt(new, x)
    BY <1>2 DEF IsFileAt, IsDirAt, Spot
  <2> QED BY <1>7, <2>1
<1>9. \A x : IsFileAt(new, x) =>
        \/ IsFileAt(tree, x) /\ ~Within(x, f)
        \/ \E y \in Spot : Within(y, f) /\ IsFileAt(tree, y) /\ x = Rebase(y, f, t)
  BY <1>2 DEF IsFileAt
<1> QED BY <1>4, <1>5, <1>8, <1>9 DEF new
-----------------------------------------------------------------------------
(* Rows and tree: what each statement and each file operation does to how   *)
(* they agree.                                                              *)

\* Leaving out more.
LEMMA AgreeButMore ==
  ASSUME NEW rows, NEW tree, NEW R, NEW F, NEW R2, NEW F2,
         AgreeBut(rows, tree, R, F), R \subseteq R2, F \subseteq F2
  PROVE  AgreeBut(rows, tree, R2, F2)
BY DEF AgreeBut

\* A tree that gains directories only, or loses and gains what is left out anyway.
LEMMA TreeAgrees ==
  ASSUME NEW rows, NEW tree, NEW new, NEW R, NEW F, AgreeBut(rows, tree, R, F),
         \A x \in DOMAIN rows \ R : IsFileAt(tree, x) => IsFileAt(new, x),
         \A x \in DOMAIN rows \ R : IsDirAt(tree, x) => IsDirAt(new, x),
         \A x : IsFileAt(new, x) => IsFileAt(tree, x) \/ x \in F
  PROVE  AgreeBut(rows, new, R, F)
<1>1. \A q \in DOMAIN rows \ R : Matches(new, rows[q], q)
  BY DEF AgreeBut, Matches
<1>2. \A q \in DOMAIN new \ F : IsFileAt(new, q) => q \in DOMAIN rows
  BY DEF AgreeBut, IsFileAt
<1> QED BY <1>1, <1>2 DEF AgreeBut

\* A directory that is made needs no row.
LEMMA TryCreateDirAgrees ==
  ASSUME NEW rows, NEW tree, Whole(tree), DOMAIN tree \subseteq Spot, NEW q \in Path,
         NEW R, NEW F, AgreeBut(rows, tree, R, F)
  PROVE  AgreeBut(rows, TryCreateDir(tree, q), R, F)
BY TryCreateDirWhole, TreeAgrees

\* A file is written: its row may be missing, nothing else is.
LEMMA WriteAgrees ==
  ASSUME NEW rows, NEW tree, Whole(tree), DOMAIN tree \subseteq Spot, NEW q \in Spot, NEW d \in Data,
         CanWrite(tree, q), Agree(rows, tree)
  PROVE  /\ IsFileAt(Write(tree, q, d), q)
         /\ AgreeBut(rows, Write(tree, q, d), {}, {q})
<1> DEFINE new == Write(tree, q, d)
<1>1. /\ IsFileAt(new, q)
      /\ \A x : x # q => (IsFileAt(new, x) <=> IsFileAt(tree, x))
      /\ \A x : IsDirAt(tree, x) => IsDirAt(new, x)
  BY WriteWhole
<1> HIDE DEF new
<1>2. AgreeBut(rows, tree, {}, {q})
  BY AgreeButMore DEF Agree
<1>3. AgreeBut(rows, new, {}, {q})
  BY <1>1, <1>2, TreeAgrees
<1> QED BY <1>1, <1>3 DEF new

\* The row of an entry is written: it agrees again.
LEMMA PutAgrees ==
  ASSUME NEW rows, NEW tree, NEW q, NEW kind, Matches(tree, kind, q), AgreeBut(rows, tree, {q}, {q})
  PROVE  Agree(Put(rows, q, kind), tree)
<1> DEFINE new == Put(rows, q, kind)
<1>1. DOMAIN new = DOMAIN rows \cup {q} /\ new[q] = kind /\ \A x \in DOMAIN rows : x # q => new[x] = rows[x]
  BY DEF Put
<1> HIDE DEF new
<1>2. \A x \in DOMAIN new : Matches(tree, new[x], x)
  BY <1>1 DEF AgreeBut
<1>3. \A x \in DOMAIN tree : IsFileAt(tree, x) => x \in DOMAIN new
  BY <1>1 DEF AgreeBut
<1>4. Agree(new, tree)
  BY <1>2, <1>3 DEF Agree, AgreeBut
<1> QED BY <1>4 DEF new

\* The row of a directory is written before the directory is there.
LEMMA PutDirAgrees ==
  ASSUME NEW rows, NEW tree, NEW q, Agree(rows, tree)
  PROVE  /\ q \in DOMAIN Put(rows, q, "dir") /\ Put(rows, q, "dir")[q] = "dir"
         /\ AgreeBut(Put(rows, q, "dir"), tree, {q}, {})
<1> DEFINE new == Put(rows, q, "dir")
<1>1. DOMAIN new = DOMAIN rows \cup {q} /\ new[q] = "dir" /\ \A x \in DOMAIN rows : x # q => new[x] = rows[x]
  BY DEF Put
<1> HIDE DEF new
<1>2. \A x \in DOMAIN new \ {q} : Matches(tree, new[x], x)
  BY <1>1 DEF Agree, AgreeBut
<1>3. \A x \in DOMAIN tree : IsFileAt(tree, x) => x \in DOMAIN new
  BY <1>1 DEF Agree, AgreeBut
<1>4. AgreeBut(new, tree, {q}, {})
  BY <1>2, <1>3 DEF AgreeBut
<1> QED BY <1>1, <1>4 DEF new

\* A row that has lost its entry goes.
LEMMA DropAgrees ==
  ASSUME NEW rows, NEW tree, NEW S, AgreeBut(rows, tree, S, S),
         \A q \in S : q \notin DOMAIN tree
  PROVE  Agree(Without(rows, S), tree)
<1> DEFINE new == Without(rows, S)
<1>1. DOMAIN new = DOMAIN rows \ S /\ \A q \in DOMAIN new : new[q] = rows[q]
  BY DEF Without
<1> HIDE DEF new
<1>2. \A q \in DOMAIN new : Matches(tree, new[q], q)
  BY <1>1 DEF AgreeBut
<1>3. \A q \in DOMAIN tree : IsFileAt(tree, q) => q \in DOMAIN new
  BY <1>1 DEF AgreeBut
<1>4. Agree(new, tree)
  BY <1>2, <1>3 DEF Agree, AgreeBut
<1> QED BY <1>4 DEF new

\* A file leaves the tree: its row stays behind.
LEMMA WithoutAgrees ==
  ASSUME NEW rows, NEW tree, Whole(tree), DOMAIN tree \subseteq Spot, NEW q, IsFileAt(tree, q),
         NEW R, NEW F, AgreeBut(rows, tree, R, F), q \in R
  PROVE  /\ q \notin DOMAIN Without(tree, {q})
         /\ AgreeBut(rows, Without(tree, {q}), R, F)
<1> DEFINE new == Without(tree, {q})
<1>1. /\ DOMAIN new = DOMAIN tree \ {q}
      /\ \A x : x # q => /\ IsFileAt(new, x) <=> IsFileAt(tree, x)
                         /\ IsDirAt(tree, x) => IsDirAt(new, x)
  BY WithoutFileWhole
<1> HIDE DEF new
<1>2. AgreeBut(rows, new, R, F)
  BY <1>1, TreeAgrees
<1> QED BY <1>1, <1>2 DEF new

\* A subtree leaves the tree, rows of which are left out.
LEMMA RemoveAllAgrees ==
  ASSUME NEW rows, NEW tree, Whole(tree), DOMAIN tree \subseteq Spot, DOMAIN rows \subseteq Spot,
         NEW q \in Path, NEW R, NEW F, AgreeBut(rows, tree, R, F),
         \A x \in Path : Within(x, q) => x \in R
  PROVE  AgreeBut(rows, RemoveAll(tree, q), R, F)
<1> DEFINE new == RemoveAll(tree, q)
<1>1. /\ DOMAIN new = {x \in DOMAIN tree : ~Within(x, q)}
      /\ \A x : ~Within(x, q) => /\ IsFileAt(new, x) <=> IsFileAt(tree, x)
                                 /\ IsDirAt(tree, x) => IsDirAt(new, x)
  BY RemoveAllWhole
<1> HIDE DEF new
<1>2. \A x \in DOMAIN rows \ R : ~Within(x, q)
  BY DEF Spot
<1>3. \A x : IsFileAt(new, x) => IsFileAt(tree, x)
  BY <1>1 DEF IsFileAt
<1>4. AgreeBut(rows, new, R, F)
  BY <1>1, <1>2, <1>3, TreeAgrees
<1> QED BY <1>4 DEF new
\* A subtree is moved: its rows are all still to move.
LEMMA MoveAgrees ==
  ASSUME NEW rows, NEW tree, Whole(tree), DOMAIN tree \subseteq Spot, DOMAIN rows \subseteq Spot,
         NEW f \in Spot, NEW t \in Spot, CanMove(tree, f, t), Agree(rows, tree)
  PROVE  Moving(rows, Move(tree, f, t), {q \in DOMAIN rows : Within(q, f)}, f, t)
<1> DEFINE U == {q \in DOMAIN rows : Within(q, f)}
<1> DEFINE new == Move(tree, f, t)
<1>1. ~Within(t, f) /\ ~Within(f, t)
  BY MoveRoom
<1>2. /\ \A x \in DOMAIN new : ~Within(x, f)
      /\ \A x \in Spot : Within(x, f) =>
           /\ IsFileAt(tree, x) => IsFileAt(new, Rebase(x, f, t))
           /\ IsDirAt(tree, x) => IsDirAt(new, Rebase(x, f, t))
      /\ \A x \in Spot : ~Within(x, f) =>
           /\ IsFileAt(tree, x) => IsFileAt(new, x)
           /\ IsDirAt(tree, x) => IsDirAt(new, x)
      /\ \A x : IsFileAt(new, x) =>
           \/ IsFileAt(tree, x) /\ ~Within(x, f)
           \/ \E y \in Spot : Within(y, f) /\ IsFileAt(tree, y) /\ x = Rebase(y, f, t)
  BY MoveKinds
<1> HIDE DEF new
<1>3. /\ \A q \in DOMAIN rows : Matches(tree, rows[q], q)
      /\ \A x : IsFileAt(tree, x) => x \in DOMAIN rows
  BY DEF Agree, AgreeBut, IsFileAt
<1>4. \A q \in DOMAIN rows \ U : Matches(new, rows[q], q)
  BY <1>2, <1>3 DEF Matches
<1>5. \A q \in U : Matches(new, rows[q], Rebase(q, f, t))
  BY <1>2, <1>3 DEF Matches
<1>6. \A x \in DOMAIN new \ {Rebase(q, f, t) : q \in U} : IsFileAt(new, x) => x \in DOMAIN rows
  BY <1>2, <1>3
<1>7. Gone(new, f)
  BY <1>2 DEF Gone, Subtree
<1>8. Moving(rows, new, U, f, t)
  BY <1>1, <1>4, <1>5, <1>6, <1>7 DEF Moving, AgreeBut
<1> QED BY <1>8 DEF new

\* The rows at S follow: the update keeps them apart, and apart from all others.
LEMMA MovingOn ==
  ASSUME NEW f \in Spot, NEW t \in Spot, NEW rows, NEW tree, DOMAIN rows \subseteq Spot,
         NEW U, U \subseteq {q \in DOMAIN rows : Within(q, f)}, Moving(rows, tree, U, f, t),
         NEW S, S \subseteq U, \A q \in S : Rebase(q, f, t) \notin DOMAIN rows \ {q},
         NEW N, N = {Rebase(q, f, t) : q \in S},
         NEW new, DOMAIN new = (DOMAIN rows \ S) \cup N,
         \A q \in S : new[Rebase(q, f, t)] = rows[q],
         \A q \in DOMAIN rows \ (S \cup N) : new[q] = rows[q]
  PROVE  Moving(new, tree, U \ S, f, t)
<1>1. /\ f \in Path /\ t \in Path /\ \A q \in DOMAIN rows : q \in Path
      /\ ~Within(t, f) /\ ~Within(f, t) /\ Gone(tree, f)
  BY DEF Spot, Moving
<1>2. \A q \in U : ~Within(Rebase(q, f, t), f)
  <2> TAKE q \in U
  <2>1. q \in Path /\ Within(q, f)
    BY <1>1
  <2>2. Rebase(q, f, t) \in Path /\ Within(Rebase(q, f, t), t)
    BY <1>1, <2>1, RebaseInto
  <2> QED BY <1>1, <2>2, WithinChain
<1>3. \A q \in S : Rebase(q, f, t) \notin DOMAIN rows
  BY <1>2
<1>4. \A q \in DOMAIN rows \ S : new[q] = rows[q]
  BY <1>3
<1>5. \A q \in DOMAIN new \ (U \ S) : Matches(tree, new[q], q)
  <2> TAKE q \in DOMAIN new \ (U \ S)
  <2>1. CASE q \in DOMAIN rows \ U
    BY <1>4, <2>1 DEF Moving, AgreeBut
  <2>2. CASE q \in N
    BY <2>2 DEF Moving
  <2> QED BY <2>1, <2>2
<1>6. \A x \in DOMAIN tree \ {Rebase(q, f, t) : q \in U \ S} : IsFileAt(tree, x) => x \in DOMAIN new
  <2> SUFFICES ASSUME NEW x \in DOMAIN tree, x \notin {Rebase(q, f, t) : q \in U \ S}, IsFileAt(tree, x),
                      x \notin N
               PROVE  x \in DOMAIN new
    OBVIOUS
  <2>1. x \in DOMAIN rows
    BY DEF Moving, AgreeBut
  <2>2. x \notin S
    BY <1>1, <2>1 DEF Gone, Subtree
  <2> QED BY <2>1, <2>2
<1>7. \A q \in U \ S : Matches(tree, new[q], Rebase(q, f, t))
  BY <1>4 DEF Moving
<1> QED BY <1>1, <1>5, <1>6, <1>7 DEF Moving, AgreeBut

\* No row is left to follow.
LEMMA MovingDone ==
  ASSUME NEW f, NEW t, NEW rows, NEW tree, Moving(rows, tree, {}, f, t)
  PROVE  Agree(rows, tree)
BY DEF Moving, AgreeBut, Agree

\* What is gone stays gone in a tree that only loses entries.
LEMMA GoneStays ==
  ASSUME NEW tree, NEW new, DOMAIN new \subseteq DOMAIN tree, NEW f, Gone(tree, f)
  PROVE  Gone(new, f)
BY DEF Gone

\* remove_all on the deleted directory itself leaves nothing of it.
LEMMA RemoveAllGone ==
  ASSUME NEW tree, NEW f
  PROVE  Gone(RemoveAll(tree, f), f)
BY DEF Gone, RemoveAll, Without, Subtree

\* The rows below the deleted directory go, its own stays.
LEMMA UnindexAgrees ==
  ASSUME Literal, NEW rows, NEW tree, DOMAIN rows \subseteq Spot, NEW f \in Path,
         AgreeBut(rows, tree, Subtree(f), Subtree(f)), Gone(tree, f)
  PROVE  AgreeBut(Without(rows, {q \in DOMAIN rows : DirInSubtree(Parent(q), f)}), tree, {f}, {})
<1> DEFINE S == {q \in DOMAIN rows : DirInSubtree(Parent(q), f)}
<1> DEFINE new == Without(rows, S)
<1>1. S = {q \in DOMAIN rows : Within(q, f) /\ q # f}
  BY SubtreeLiteral
<1>2. DOMAIN new = DOMAIN rows \ S /\ \A q \in DOMAIN new : new[q] = rows[q]
  BY DEF Without
<1> HIDE DEF S, new
<1>3. \A q \in DOMAIN rows : q \in Path
  BY DEF Spot
<1>4. \A q \in DOMAIN new \ {f} : Matches(tree, new[q], q)
  BY <1>1, <1>2, <1>3 DEF AgreeBut, Subtree
<1>5. \A q \in DOMAIN tree : IsFileAt(tree, q) => q \in DOMAIN new
  <2> SUFFICES ASSUME NEW q \in DOMAIN tree, IsFileAt(tree, q) PROVE q \in DOMAIN new
    OBVIOUS
  <2>1. q \notin Subtree(f)
    BY DEF Gone
  <2>2. q \in DOMAIN rows
    BY <2>1 DEF AgreeBut
  <2> QED BY <1>1, <1>2, <1>3, <2>1, <2>2 DEF Subtree
<1>6. AgreeBut(new, tree, {f}, {})
  BY <1>4, <1>5 DEF AgreeBut
<1> QED BY <1>6 DEF new, S
-----------------------------------------------------------------------------
(* Every step keeps the tree whole, however many handlers there are. *)

\* What the types say of rows, tree and blobs.
LEMMA TreesTyped ==
  ASSUME TypeInv
  PROVE  /\ DOMAIN disk \subseteq Spot /\ DOMAIN index \subseteq Spot
         /\ \A q \in DOMAIN index : index[q] \in {"dir", "file"}
         /\ \A b \in DOMAIN blobs : blobs[b] \in Data
         /\ HandlersOK /\ trash \subseteq Row
BY TypeParts DEF StoreOK, IsTree

\* The parent of a path, that of the root included, is a path.
LEMMA ParentOfAny ==
  ASSUME NEW q \in Path
  PROVE  Parent(q) \in Path
<1>1. CASE q = Root
  <2>1. SubSeq(Root, 1, Len(Root) - 1) = <<>>
    BY EmptySeq, SubSeqEmpty DEF Root
  <2> QED BY <1>1, <2>1, EmptySeq DEF Parent, Front, Path
<1>2. CASE q # Root
  BY <1>2, ParentPath DEF Spot
<1> QED BY <1>1, <1>2

\* What the types say of the locals of a handler.
LEMMA LocalsTyped ==
  ASSUME TypeInv, NEW p \in Proc
  PROVE  /\ h[p] \in Locals /\ RootedAt(h[p])
         /\ h[p].path \in Path /\ h[p].to \in Path /\ h[p].cur \in Path
         /\ h[p].files \subseteq Spot /\ h[p].stack \subseteq Spot /\ h[p].rows \subseteq Row
<1>1. h[p] \in Locals /\ RootedAt(h[p])
  BY TypeParts DEF HandlersOK, Rooted
<1> QED BY <1>1 DEF Locals

\* A request that is accepted writes a file, moves, or leaves the tree alone.
LEMMA RequestWhole ==
  ASSUME TypeInv, Whole(disk), NEW p \in Proc, Request(p)
  PROVE  Whole(disk')
<1>1. DOMAIN disk \subseteq Spot
  BY TreesTyped
<1>2. Paths \subseteq Spot /\ Spot \subseteq Path
  BY ConstAssumption DEF Spot
<1>3. CASE Save(p)
  <2>1. PICK q \in Paths, d \in Data :
          (CanWrite(disk, q) /\ disk' = Write(disk, q, d)) \/ UNCHANGED disk
    BY <1>3 DEF Save
  <2>2. q \in Spot
    BY <1>2
  <2> QED BY <1>1, <2>1, <2>2, WriteWhole
<1>4. CASE Rename(p)
  <2>1. PICK f \in Paths, t \in Paths :
          LET ready == TryCreateDir(disk, Parent(t)) IN
          (CanMove(ready, f, t) /\ disk' = Move(ready, f, t)) \/ disk' = ready
    BY <1>4 DEF Rename
  <2> DEFINE ready == TryCreateDir(disk, Parent(t))
  <2>2. f \in Spot /\ t \in Spot /\ Parent(t) \in Path
    BY <1>2, ParentPath
  <2>3. Whole(ready) /\ DOMAIN ready \subseteq Spot
    BY <1>1, <2>2, TryCreateDirWhole
  <2>4. (CanMove(ready, f, t) /\ disk' = Move(ready, f, t)) \/ disk' = ready
    BY <2>1
  <2> HIDE DEF ready
  <2> QED BY <2>2, <2>3, <2>4, MoveWhole
<1>5. CASE Mkdir(p) \/ Delete(p) \/ TrashDelete(p) \/ Restore(p)
  BY <1>5 DEF Mkdir, Delete, TrashDelete, Restore, store
<1> QED BY <1>3, <1>4, <1>5 DEF Request

\* Archiving takes a file out of the tree.
LEMMA ArchiveWhole ==
  ASSUME TypeInv, Whole(disk), NEW p, NEW q, NEW l, Archive(p, q, l)
  PROVE  Whole(disk')
<1>1. DOMAIN disk \subseteq Spot
  BY TreesTyped
<1>2. (IsFileAt(disk, q) /\ disk' = Without(disk, {q})) \/ UNCHANGED disk
  BY DEF Archive, store
<1> QED BY <1>1, <1>2, WithoutFileWhole

\* No step of a request breaks the tree.
LEMMA StepWhole ==
  ASSUME TypeInv, Whole(disk), NEW p \in Proc, Step(p)
  PROVE  Whole(disk')
<1>1. DOMAIN disk \subseteq Spot /\ \A b \in DOMAIN blobs : blobs[b] \in Data
  BY TreesTyped
<1>2. /\ h[p] \in Locals /\ RootedAt(h[p]) /\ h[p].path \in Path /\ h[p].to \in Path
      /\ h[p].rows \subseteq Row
  BY LocalsTyped
<1>3. CASE MkdirDisk(p)
  BY <1>1, <1>2, <1>3, TryCreateDirWhole DEF MkdirDisk
<1>4. CASE ArchiveFile(p)
  BY <1>4, ArchiveWhole DEF ArchiveFile
<1>5. CASE SweepFile(p)
  BY <1>5, ArchiveWhole DEF SweepFile
<1>6. CASE RemoveDir(p)
  BY <1>1, <1>2, <1>6, RemoveAllWhole DEF RemoveDir
<1>7. CASE RestoreFile(p)
  <2>1. h[p].to \in Spot
    BY <1>2, <1>7 DEF RestoreFile, At, RootedAt, Spot
  <2>2. \/ /\ h[p].blob \in DOMAIN blobs /\ CanWrite(disk, h[p].to)
           /\ disk' = Write(disk, h[p].to, blobs[h[p].blob])
        \/ UNCHANGED disk
    BY <1>7 DEF RestoreFile
  <2> QED BY <1>1, <2>1, <2>2, WriteWhole
<1>8. CASE RestoreDir(p)
  <2>1. Parent(h[p].to) \in Path
    BY <1>2, ParentOfAny
  <2> QED BY <1>1, <1>8, <2>1, TryCreateDirWhole DEF RestoreDir
<1>9. CASE CopyDir(p)
  <2>1. PICK r \in h[p].rows : disk' = TryCreateDir(disk, CopyTarget(p, r))
    BY <1>9 DEF CopyDir
  <2>2. CopyTarget(p, r) \in Path
    BY <1>2, CopyTargetSpot DEF Spot
  <2> QED BY <1>1, <2>1, <2>2, TryCreateDirWhole
<1>10. CASE CopyFile(p)
  <2>1. PICK r \in h[p].rows :
          LET q == CopyTarget(p, r) IN
          \/ r.blob \in DOMAIN blobs /\ CanWrite(disk, q) /\ disk' = Write(disk, q, blobs[r.blob])
          \/ disk' = TryCreateDir(disk, Parent(q))
    BY <1>10 DEF CopyFile
  <2> DEFINE q == CopyTarget(p, r)
  <2>2. q \in Spot
    BY <1>2, CopyTargetSpot
  <2>3. \/ r.blob \in DOMAIN blobs /\ CanWrite(disk, q) /\ disk' = Write(disk, q, blobs[r.blob])
        \/ disk' = TryCreateDir(disk, Parent(q))
    BY <2>1
  <2> HIDE DEF q
  <2>4. Parent(q) \in Path
    BY <2>2, ParentPath
  <2> QED BY <1>1, <2>2, <2>3, <2>4, WriteWhole, TryCreateDirWhole
<1>11. CASE \/ SaveRow(p) \/ RenameOwn(p) \/ RenameKids(p) \/ RenameDeep(p)
            \/ TrashRow(p) \/ TrashDir(p) \/ ListDir(p) \/ SweepRow(p)
            \/ UnindexTree(p) \/ Unindex(p)
            \/ Collect(p) \/ EraseBlob(p) \/ DropRows(p) \/ DropDirRow(p)
            \/ RestoreRow(p) \/ DropRow(p) \/ EraseOne(p) \/ CopyRow(p) \/ CopyDone(p)
  <2>1. UNCHANGED disk
    BY <1>11 DEF SaveRow, RenameOwn, RenameKids, RenameDeep, TrashRow, TrashDir, ListDir,
       SweepRow, InsertRow, UnindexTree, Unindex, Collect, EraseBlob, DropRows, DropDirRow,
       RestoreRow, DropRow, EraseOne, CopyRow, CopyDone, store
  <2> QED BY <2>1
<1> QED BY <1>3, <1>4, <1>5, <1>6, <1>7, <1>8, <1>9, <1>10, <1>11 DEF Step

\* The purger, time, failures and crashes leave rows and tree alone.
LEMMA OthersKeepTrees ==
  ASSUME Purger \/ Age \/ Failure
  PROVE  UNCHANGED <<disk, index>>
BY DEF Purger, PurgeScan, PurgeBlob, PurgeRow, PurgeStep, Age, Failure, Crash,
   PurgeErrorDropped, StatementFails, ErrorDropped, store

\* The tree stays whole.
LEMMA WholeKept ==
  ASSUME TypeInv, Whole(disk), [Next]_vars
  PROVE  Whole(disk')
<1>1. CASE UNCHANGED vars
  BY <1>1 DEF vars
<1>2. CASE Purger \/ Age \/ Failure
  BY <1>2, OthersKeepTrees
<1> QED BY <1>1, <1>2, RequestWhole, StepWhole DEF Next
-----------------------------------------------------------------------------
(* One handler, and no error so far *)

Alone == \A p, q \in Proc : p = q

\* What Apart says at each program counter.
LEMMA ApartAt ==
  ASSUME NEW rows, NEW tree, NEW l
  PROVE  /\ l.pc = "saveRow" =>
              (Apart(rows, tree, l) <=> IsFileAt(tree, l.path) /\ AgreeBut(rows, tree, {}, {l.path}))
         /\ l.pc = "mkdirDisk" =>
              (Apart(rows, tree, l) <=>
                 l.path \in DOMAIN rows /\ rows[l.path] = "dir" /\ AgreeBut(rows, tree, {l.path}, {}))
         /\ l.pc \in {"renameOwn", "renameKids", "renameDeep"} =>
              (Apart(rows, tree, l) <=> Moving(rows, tree, Unmoved(rows, l), l.path, l.to))
         /\ l.pc \in {"trashRow", "unindex"} =>
              (Apart(rows, tree, l) <=> l.path \notin DOMAIN tree /\ AgreeBut(rows, tree, {l.path}, {}))
         /\ l.pc \in {"trashDir", "listDir", "sweep", "sweepRow", "unindexTree"} =>
              (Apart(rows, tree, l) <=> Sweeping(rows, tree, l))
         /\ l.pc = "restoreRow" =>
              (Apart(rows, tree, l) <=> IsFileAt(tree, l.to) /\ AgreeBut(rows, tree, {}, {l.to}))
         /\ l.pc = "copyRow" =>
              (Apart(rows, tree, l) <=> Matches(tree, l.made, l.cur) /\ AgreeBut(rows, tree, {}, {l.cur}))
         /\ l.pc \in {"idle", "archive", "collect", "eraseBlobs", "dropRows", "dropDirRow",
                      "restoreFile", "dropRow", "eraseOne", "restoreDir", "copy"} =>
              (Apart(rows, tree, l) <=> Agree(rows, tree))
BY DEF Apart

\* A handler that is alone goes on, answers Ok or answers an error.
LEMMA GotoSettles ==
  ASSUME Alone, HandlersOK, NEW p \in Proc, NEW l, NEW fine, GotoIf(p, l, fine),
         clean /\ fine => Apart(index', disk', l)
  PROVE  Settled'
<1>1. h'[p] = l /\ clean' = (clean /\ fine)
  BY DEF GotoIf, HandlersOK
<1>2. \A q \in Proc : h'[q] = l
  BY <1>1 DEF Alone
<1> QED BY <1>1, <1>2 DEF Settled

\* Going on with locals that fit.
LEMMA GoOnSettles ==
  ASSUME Alone, HandlersOK, NEW p \in Proc, NEW l, Goto(p, l), clean => Apart(index', disk', l)
  PROVE  Settled'
BY GotoSettles DEF Goto

\* Answering Ok, once rows and tree agree.
LEMMA AnswerSettles ==
  ASSUME Alone, HandlersOK, NEW p \in Proc, Answer(p), clean => Agree(index', disk')
  PROVE  Settled'
<1>1. h'[p] = Idle /\ clean' = clean
  BY DEF Answer, HandlersOK
<1>2. \A q \in Proc : h'[q] = Idle
  BY <1>1 DEF Alone
<1>3. Idle.pc = "idle"
  BY DEF Idle
<1>4. clean => Apart(index', disk', Idle)
  BY <1>3, ApartAt
<1> QED BY <1>1, <1>2, <1>4 DEF Settled

\* After an error nothing is claimed.
LEMMA FailSettles ==
  ASSUME NEW p, Fail(p)
  PROVE  Settled'
BY DEF Fail, Settled

-----------------------------------------------------------------------------
(* Requests *)

\* Each request that is accepted leaves rows and tree as its next step expects them.
LEMMA RequestSettles ==
  ASSUME Alone, TypeInv, Whole(disk), Settled, NEW p \in Proc, Request(p)
  PROVE  Settled'
<1>1. DOMAIN disk \subseteq Spot /\ DOMAIN index \subseteq Spot /\ HandlersOK
  BY TreesTyped
<1>2. Paths \subseteq Spot /\ Spot \subseteq Path
  BY ConstAssumption DEF Spot
<1>3. clean => Agree(index, disk)
  <2>1. h[p].pc = "idle"
    BY DEF Request, Save, Mkdir, Rename, Delete, TrashDelete, Restore, Accept
  <2> QED BY <2>1, ApartAt DEF Settled
<1>4. CASE Save(p)
  <2>1. PICK q \in Paths, d \in Data :
          \/ /\ CanWrite(disk, q)
             /\ disk' = Write(disk, q, d)
             /\ Goto(p, [Idle EXCEPT !.pc = "saveRow", !.path = q])
          \/ Fail(p)
    BY <1>4 DEF Save
  <2> DEFINE l == [Idle EXCEPT !.pc = "saveRow", !.path = q]
  <2>2. l.pc = "saveRow" /\ l.path = q
    BY DEF Idle
  <2>3. q \in Spot /\ index' = index
    BY <1>2, <1>4 DEF Save
  <2>4. CASE CanWrite(disk, q) /\ disk' = Write(disk, q, d) /\ Goto(p, l)
    <3>1. clean => IsFileAt(disk', q) /\ AgreeBut(index', disk', {}, {q})
      BY <1>1, <1>3, <2>3, <2>4, WriteAgrees
    <3> HIDE DEF l
    <3>2. clean => Apart(index', disk', l)
      BY <2>2, <3>1, ApartAt
    <3> QED BY <1>1, <2>4, <3>2, GoOnSettles
  <2> QED BY <2>1, <2>4, FailSettles
<1>5. CASE Mkdir(p)
  <2>1. PICK q \in Paths :
          \/ /\ index' = Put(index, q, "dir")
             /\ Goto(p, [Idle EXCEPT !.pc = "mkdirDisk", !.path = q])
          \/ Fail(p)
    BY <1>5 DEF Mkdir
  <2> DEFINE l == [Idle EXCEPT !.pc = "mkdirDisk", !.path = q]
  <2>2. l.pc = "mkdirDisk" /\ l.path = q
    BY DEF Idle
  <2>3. disk' = disk
    BY <1>5 DEF Mkdir
  <2>4. CASE index' = Put(index, q, "dir") /\ Goto(p, l)
    <3>1. clean => q \in DOMAIN index' /\ index'[q] = "dir" /\ AgreeBut(index', disk', {q}, {})
      BY <1>3, <2>3, <2>4, PutDirAgrees
    <3> HIDE DEF l
    <3>2. clean => Apart(index', disk', l)
      BY <2>2, <3>1, ApartAt
    <3> QED BY <1>1, <2>4, <3>2, GoOnSettles
  <2> QED BY <2>1, <2>4, FailSettles
<1>6. CASE Rename(p)
  <2>1. PICK f \in Paths, t \in Paths :
          LET ready == TryCreateDir(disk, Parent(t)) IN
          \/ /\ CanMove(ready, f, t)
             /\ disk' = Move(ready, f, t)
             /\ Goto(p, [Idle EXCEPT !.pc = "renameOwn", !.path = f, !.to = t])
          \/ Fail(p)
    BY <1>6 DEF Rename
  <2> DEFINE ready == TryCreateDir(disk, Parent(t))
  <2> DEFINE l == [Idle EXCEPT !.pc = "renameOwn", !.path = f, !.to = t]
  <2>2. l.pc = "renameOwn" /\ l.path = f /\ l.to = t
    BY DEF Idle
  <2>3. f \in Spot /\ t \in Spot /\ Parent(t) \in Path /\ index' = index
    BY <1>2, <1>6, ParentPath DEF Rename
  <2>4. Whole(ready) /\ DOMAIN ready \subseteq Spot
    BY <1>1, <2>3, TryCreateDirWhole
  <2>5. clean => Agree(index, ready)
    BY <1>1, <1>3, <2>3, TryCreateDirAgrees DEF Agree
  <2>6. (CanMove(ready, f, t) /\ disk' = Move(ready, f, t) /\ Goto(p, l)) \/ Fail(p)
    BY <2>1
  <2> HIDE DEF ready, l
  <2>7. CASE CanMove(ready, f, t) /\ disk' = Move(ready, f, t) /\ Goto(p, l)
    <3>1. clean => Moving(index', disk', {q \in DOMAIN index' : Within(q, f)}, f, t)
      BY <1>1, <2>3, <2>4, <2>5, <2>7, MoveAgrees
    <3>2. Unmoved(index', l) = {q \in DOMAIN index' : Within(q, f)}
      BY <2>2 DEF Unmoved
    <3>3. clean => Apart(index', disk', l)
      BY <2>2, <3>1, <3>2, ApartAt
    <3> QED BY <1>1, <2>7, <3>3, GoOnSettles
  <2> QED BY <2>6, <2>7, FailSettles
<1>7. CASE Delete(p)
  <2>1. PICK q \in Paths :
          \/ Fail(p)
          \/ Goto(p, [Idle EXCEPT !.pc = "archive", !.path = q])
          \/ Goto(p, [Idle EXCEPT !.pc = "trashDir", !.path = q, !.stack = {q}])
    BY <1>7 DEF Delete
  <2> DEFINE l == [Idle EXCEPT !.pc = "archive", !.path = q]
  <2> DEFINE w == [Idle EXCEPT !.pc = "trashDir", !.path = q, !.stack = {q}]
  <2>2. l.pc = "archive" /\ w.pc = "trashDir" /\ w.path = q /\ w.stack = {q} /\ w.files = {}
    BY DEF Idle
  <2>3. index' = index /\ disk' = disk
    BY <1>7 DEF Delete, store
  <2> HIDE DEF l, w
  <2>4. clean => Apart(index', disk', l)
    BY <1>3, <2>2, <2>3, ApartAt
  <2>5. clean => Apart(index', disk', w)
    <3>1. q \in Subtree(q)
      BY <1>2, WithinSelf DEF Subtree
    <3>2. clean => AgreeBut(index', disk', Subtree(q), Subtree(q))
      BY <1>3, <2>3, AgreeButMore DEF Agree
    <3>3. clean => Sweeping(index', disk', w)
      BY <2>2, <3>1, <3>2 DEF Sweeping
    <3> QED BY <2>2, <3>3, ApartAt
  <2>6. Fail(p) \/ Goto(p, l) \/ Goto(p, w)
    BY <2>1 DEF l, w
  <2> QED BY <1>1, <2>4, <2>5, <2>6, GoOnSettles, FailSettles
<1>8. CASE TrashDelete(p)
  <2>1. PICK loc \in Places :
          Goto(p, [Idle EXCEPT !.pc = "collect", !.loc = loc]) \/ Answer(p)
    BY <1>8 DEF TrashDelete
  <2> DEFINE l == [Idle EXCEPT !.pc = "collect", !.loc = loc]
  <2>2. l.pc = "collect" /\ index' = index /\ disk' = disk
    BY <1>8 DEF Idle, TrashDelete, store
  <2>3. Goto(p, l) \/ Answer(p)
    BY <2>1
  <2> HIDE DEF l
  <2>4. clean => Apart(index', disk', l)
    BY <1>3, <2>2, ApartAt
  <2> QED BY <1>1, <1>3, <2>2, <2>3, <2>4, GoOnSettles, AnswerSettles
<1>9. CASE Restore(p)
  <2>1. PICK r \in trash, t \in Paths :
          LET locals == [Idle EXCEPT !.loc = [form |-> r.form, path |-> r.path], !.to = t] IN
          \/ Goto(p, [locals EXCEPT !.pc = "restoreDir"])
          \/ Goto(p, [locals EXCEPT !.pc = "restoreFile", !.sel = {r}, !.blob = r.blob])
    BY <1>9 DEF Restore
  <2> DEFINE locals == [Idle EXCEPT !.loc = [form |-> r.form, path |-> r.path], !.to = t]
  <2> DEFINE l == [locals EXCEPT !.pc = "restoreDir"]
  <2> DEFINE w == [locals EXCEPT !.pc = "restoreFile", !.sel = {r}, !.blob = r.blob]
  <2>2. l.pc = "restoreDir" /\ w.pc = "restoreFile"
    BY DEF Idle
  <2>3. index' = index /\ disk' = disk
    BY <1>9 DEF Restore, store
  <2>4. Goto(p, l) \/ Goto(p, w)
    BY <2>1
  <2> HIDE DEF l, w, locals
  <2>5. (clean => Apart(index', disk', l)) /\ (clean => Apart(index', disk', w))
    BY <1>3, <2>2, <2>3, ApartAt
  <2> QED BY <1>1, <2>4, <2>5, GoOnSettles
<1> QED BY <1>4, <1>5, <1>6, <1>7, <1>8, <1>9 DEF Request
-----------------------------------------------------------------------------
(* The steps of save, mkdir and rename *)

\* The row of a saved file, and the directory of a new row.
LEMMA SaveStepsSettle ==
  ASSUME Alone, TypeInv, Whole(disk), Settled, NEW p \in Proc, SaveRow(p) \/ MkdirDisk(p)
  PROVE  Settled'
<1>1. DOMAIN disk \subseteq Spot /\ HandlersOK /\ h[p].path \in Path
  BY TreesTyped, LocalsTyped
<1>2. clean => Apart(index, disk, h[p])
  BY DEF Settled
<1>3. CASE SaveRow(p)
  <2>1. h[p].pc = "saveRow" /\ index' = Put(index, h[p].path, "file") /\ disk' = disk /\ Answer(p)
    BY <1>3 DEF SaveRow, At
  <2>2. clean => IsFileAt(disk, h[p].path) /\ AgreeBut(index, disk, {}, {h[p].path})
    BY <1>2, <2>1, ApartAt
  <2>3. clean => AgreeBut(index, disk, {h[p].path}, {h[p].path}) /\ Matches(disk, "file", h[p].path)
    BY <2>2, AgreeButMore DEF Matches
  <2>4. clean => Agree(index', disk')
    BY <2>1, <2>3, PutAgrees
  <2> QED BY <1>1, <2>1, <2>4, AnswerSettles
<1>4. CASE MkdirDisk(p)
  <2>1. /\ h[p].pc = "mkdirDisk" /\ index' = index /\ disk' = TryCreateDir(disk, h[p].path)
        /\ (CanCreateDir(disk, h[p].path) /\ Answer(p)) \/ Fail(p)
    BY <1>4 DEF MkdirDisk, At
  <2>2. clean => /\ h[p].path \in DOMAIN index /\ index[h[p].path] = "dir"
                 /\ AgreeBut(index, disk, {h[p].path}, {})
    BY <1>2, <2>1, ApartAt
  <2>3. clean => AgreeBut(index, disk', {h[p].path}, {})
    BY <1>1, <2>1, <2>2, TryCreateDirAgrees
  <2>4. CASE CanCreateDir(disk, h[p].path) /\ Answer(p)
    <3>1. IsDirAt(disk', h[p].path)
      BY <1>1, <2>1, <2>4, CreateDirAt DEF TryCreateDir
    <3>2. clean => Agree(index', disk')
      BY <2>1, <2>2, <2>3, <3>1 DEF Agree, AgreeBut, Matches
    <3> QED BY <1>1, <2>4, <3>2, AnswerSettles
  <2> QED BY <2>1, <2>4, FailSettles
<1> QED BY <1>3, <1>4

\* An update of rows that are still to move, without an error.
LEMMA UpdateRowsMoves ==
  ASSUME HandlersOK, DOMAIN index \subseteq Spot, disk' = disk, NEW p \in Proc,
         NEW f \in Spot, NEW t \in Spot,
         NEW U, U \subseteq {q \in DOMAIN index : Within(q, f)}, Moving(index, disk, U, f, t),
         NEW S, S \subseteq U, NEW to, \A q \in S : to[q] = Rebase(q, f, t),
         NEW next, UpdateRows(p, S, to, next)
  PROVE  \/ Fail(p)
         \/ /\ IF next = "idle" THEN Answer(p) ELSE Jump(p, next)
            /\ Moving(index', disk', U \ S, f, t)
            /\ \A q \in Path : Within(q, f) => (q \in DOMAIN index' <=> q \in DOMAIN index \ S)
<1> DEFINE new == {to[q] : q \in S}
<1> DEFINE moved == [x \in (DOMAIN index \ S) \cup new |->
                       IF x \in new THEN index[CHOOSE q \in S : to[q] = x] ELSE index[x]]
<1>1. \/ Fail(p)
      \/ /\ IF next = "idle" THEN Answer(p) ELSE Jump(p, next)
         /\ index' = moved /\ \A q \in S : to[q] \notin DOMAIN index \ {q}
         /\ \A q, r \in S : q # r => to[q] # to[r]
  BY DEF UpdateRows
<1> SUFFICES ASSUME index' = moved, \A q \in S : to[q] \notin DOMAIN index \ {q},
                    \A q, r \in S : q # r => to[q] # to[r]
             PROVE  /\ Moving(index', disk', U \ S, f, t)
                    /\ \A q \in Path : Within(q, f) => (q \in DOMAIN index' <=> q \in DOMAIN index \ S)
  BY <1>1
<1>2. new = {Rebase(q, f, t) : q \in S}
  OBVIOUS
<1>3. DOMAIN moved = (DOMAIN index \ S) \cup new
  OBVIOUS
<1>4. \A q \in S : moved[to[q]] = index[q]
  <2> TAKE q \in S
  <2> DEFINE c == CHOOSE r \in S : to[r] = to[q]
  <2>1. c \in S /\ to[c] = to[q]
    OBVIOUS
  <2>2. c = q
    BY <2>1
  <2>3. to[q] \in new
    OBVIOUS
  <2> QED BY <2>2, <2>3
<1>5. \A q \in DOMAIN index \ (S \cup new) : moved[q] = index[q]
  OBVIOUS
<1> HIDE DEF moved, new
<1>6. Moving(moved, disk, U \ S, f, t)
  <2>1. /\ \A q \in S : Rebase(q, f, t) \notin DOMAIN index \ {q}
        /\ \A q \in S : moved[Rebase(q, f, t)] = index[q]
    BY <1>4
  <2> QED BY <1>2, <1>3, <1>5, <2>1, MovingOn
<1>7. \A q \in new : ~Within(q, f)
  <2> SUFFICES ASSUME NEW q \in S PROVE ~Within(Rebase(q, f, t), f)
    BY <1>2
  <2>1. q \in Path /\ f \in Path /\ t \in Path /\ Within(q, f) /\ ~Within(t, f) /\ ~Within(f, t)
    BY DEF Spot, Moving
  <2>2. Rebase(q, f, t) \in Path /\ Within(Rebase(q, f, t), t)
    BY <2>1, RebaseInto
  <2> QED BY <2>1, <2>2, WithinChain
<1> QED BY <1>3, <1>6, <1>7

\* After an error nothing is claimed.
LEMMA RenameUnclean ==
  ASSUME ~clean, NEW p, RenameOwn(p) \/ RenameKids(p) \/ RenameDeep(p)
  PROVE  Settled'
<1>1. ~clean'
  BY DEF RenameOwn, RenameKids, RenameDeep, UpdateRows, Fail, Answer, Jump, Goto, GotoIf
<1> QED BY <1>1 DEF Settled

\* The three updates of a rename each move their rows, and leave none behind.
LEMMA RenameStepsSettle ==
  ASSUME Alone, Literal, TypeInv, TypeInv', Settled, NEW p \in Proc,
         RenameOwn(p) \/ RenameKids(p) \/ RenameDeep(p)
  PROVE  Settled'
<1> SUFFICES ASSUME clean PROVE Settled'
  BY RenameUnclean
<1> DEFINE f == h[p].path
<1> DEFINE t == h[p].to
<1> DEFINE U == Unmoved(index, h[p])
<1>1. /\ DOMAIN index \subseteq Spot /\ HandlersOK /\ h[p] \in Locals
      /\ \A q \in DOMAIN index : q \in Path
      /\ \A q \in DOMAIN index' : q \in Path
  <2>1. DOMAIN index \subseteq Spot /\ HandlersOK /\ h[p] \in Locals
    BY TreesTyped, LocalsTyped
  <2>2. DOMAIN index' \subseteq Spot
    BY DEF TypeInv, TypeOK, StoreOK, IsTree
  <2> QED BY <2>1, <2>2 DEF Spot
<1>2. Moving(index, disk, U, f, t)
  <2>1. h[p].pc \in {"renameOwn", "renameKids", "renameDeep"}
    BY DEF RenameOwn, RenameKids, RenameDeep, At
  <2> QED BY <2>1, ApartAt DEF Settled
<1>3. f \in Spot /\ t \in Spot /\ f \in Path /\ t \in Path
  <2>1. f \in Path /\ t \in Spot
    BY LocalsTyped DEF RenameOwn, RenameKids, RenameDeep, At, RootedAt, Spot
  <2>2. f # Root
    BY <1>2, <2>1, RootAbove DEF Moving, Spot
  <2> QED BY <2>1, <2>2 DEF Spot
<1>4. U \subseteq {q \in DOMAIN index : Within(q, f)}
  BY DEF Unmoved
<1>5. CASE RenameOwn(p)
  <2> DEFINE S == {f} \cap DOMAIN index
  <2> DEFINE to == [q \in S |-> t]
  <2> DEFINE l == [h[p] EXCEPT !.pc = "renameKids"]
  <2>1. disk' = disk /\ UpdateRows(p, S, to, "renameKids")
    BY <1>5 DEF RenameOwn
  <2>2. U = {q \in DOMAIN index : Within(q, f)}
    BY <1>5 DEF Unmoved, RenameOwn, At
  <2>3. S \subseteq U /\ \A q \in S : to[q] = Rebase(q, f, t)
    BY <1>3, <2>2, RebaseTop, WithinSelf
  <2>4. l.pc = "renameKids" /\ l.path = f /\ l.to = t
    BY <1>1 DEF Locals
  <2>5. \A q : q \in S <=> q = f /\ q \in DOMAIN index
    OBVIOUS
  <2>6. Jump(p, "renameKids") => Goto(p, l)
    BY DEF Jump
  <2> HIDE DEF to, S, U, f, t, l
  <2>7. \/ Fail(p)
        \/ /\ Jump(p, "renameKids")
           /\ Moving(index', disk', U \ S, f, t)
           /\ \A q \in Path : Within(q, f) => (q \in DOMAIN index' <=> q \in DOMAIN index \ S)
    BY <1>1, <1>2, <1>3, <1>4, <2>1, <2>3, UpdateRowsMoves
  <2>8. CASE /\ Jump(p, "renameKids")
             /\ Moving(index', disk', U \ S, f, t)
             /\ \A q \in Path : Within(q, f) => (q \in DOMAIN index' <=> q \in DOMAIN index \ S)
    <3>1. Unmoved(index', l) = U \ S
      BY <1>1, <2>2, <2>4, <2>5, <2>8 DEF Unmoved
    <3>2. Moving(index', disk', Unmoved(index', l), l.path, l.to)
      BY <2>4, <2>8, <3>1
    <3>3. Apart(index', disk', l)
      BY <2>4, <3>2, ApartAt
    <3> QED BY <1>1, <2>6, <2>8, <3>3, GoOnSettles
  <2> QED BY <2>7, <2>8, FailSettles
<1>6. CASE RenameKids(p)
  <2> DEFINE S == {q \in DOMAIN index : Parent(q) = f}
  <2> DEFINE to == [q \in S |-> Append(t, Last(q))]
  <2> DEFINE l == [h[p] EXCEPT !.pc = "renameDeep"]
  <2>1. disk' = disk /\ UpdateRows(p, S, to, "renameDeep")
    BY <1>6 DEF RenameKids
  <2>2. U = {q \in DOMAIN index : Within(q, f) /\ q # f}
    BY <1>6 DEF Unmoved, RenameKids, At
  <2>3. S \subseteq U /\ \A q \in S : to[q] = Rebase(q, f, t)
    BY <1>1, <1>3, <2>2, RebaseChild, ParentWithin
  <2>4. l.pc = "renameDeep" /\ l.path = f /\ l.to = t
    BY <1>1 DEF Locals
  <2>5. \A q : q \in S <=> Parent(q) = f /\ q \in DOMAIN index
    OBVIOUS
  <2>6. Jump(p, "renameDeep") => Goto(p, l)
    BY DEF Jump
  <2> HIDE DEF to, S, U, f, t, l
  <2>7. \/ Fail(p)
        \/ /\ Jump(p, "renameDeep")
           /\ Moving(index', disk', U \ S, f, t)
           /\ \A q \in Path : Within(q, f) => (q \in DOMAIN index' <=> q \in DOMAIN index \ S)
    BY <1>1, <1>2, <1>3, <1>4, <2>1, <2>3, UpdateRowsMoves
  <2>8. CASE /\ Jump(p, "renameDeep")
             /\ Moving(index', disk', U \ S, f, t)
             /\ \A q \in Path : Within(q, f) => (q \in DOMAIN index' <=> q \in DOMAIN index \ S)
    <3>1. Unmoved(index', l) = U \ S
      BY <1>1, <2>2, <2>4, <2>5, <2>8 DEF Unmoved
    <3>2. Moving(index', disk', Unmoved(index', l), l.path, l.to)
      BY <2>4, <2>8, <3>1
    <3>3. Apart(index', disk', l)
      BY <2>4, <3>2, ApartAt
    <3> QED BY <1>1, <2>6, <2>8, <3>3, GoOnSettles
  <2> QED BY <2>7, <2>8, FailSettles
<1>7. CASE RenameDeep(p)
  <2> DEFINE S == {q \in DOMAIN index : LikeBelow(Parent(q), f)}
  <2> DEFINE to == [q \in S |-> Rebase(q, f, t)]
  <2>1. disk' = disk /\ UpdateRows(p, S, to, "idle")
    BY <1>7 DEF RenameDeep
  <2>2. U = {q \in DOMAIN index : Within(q, f) /\ q # f /\ Parent(q) # f}
    BY <1>7 DEF Unmoved, RenameDeep, At
  <2>3. S = U
    <3>1. \A q \in DOMAIN index : LikeBelow(Parent(q), f) <=> Within(Parent(q), f) /\ Parent(q) # f
      BY <1>1, <1>3, LikeLiteral, ParentPath
    <3>2. \A q \in DOMAIN index : Within(q, f) /\ q # f <=> Within(Parent(q), f)
      <4> TAKE q \in DOMAIN index
      <4>1. q \in Spot /\ q \in Path /\ Parent(q) \in Path /\ Within(q, Parent(q)) /\ Parent(q) # q
        BY <1>1, ParentWithin
      <4>2. Within(Parent(q), f) => q # f
        BY <4>1, WithinAnti
      <4> QED BY <1>3, <4>1, <4>2, WithinByParent
    <3> QED BY <2>2, <3>1, <3>2
  <2>4. \A q \in S : to[q] = Rebase(q, f, t)
    OBVIOUS
  <2> HIDE DEF to, S, U, f, t
  <2>5. \/ Fail(p)
        \/ Answer(p) /\ Moving(index', disk', U \ S, f, t)
    BY <1>1, <1>2, <1>3, <1>4, <2>1, <2>3, <2>4, UpdateRowsMoves
  <2>6. Moving(index', disk', U \ S, f, t) => Agree(index', disk')
    <3>1. U \ S = {}
      BY <2>3
    <3> QED BY <3>1, MovingDone
  <2> QED BY <1>1, <2>5, <2>6, FailSettles, AnswerSettles
<1> QED BY <1>5, <1>6, <1>7
-----------------------------------------------------------------------------
(* The steps of delete *)

\* A file is archived, filed and unindexed.
LEMMA DeleteFileSettles ==
  ASSUME Alone, TypeInv, Whole(disk), Settled, NEW p \in Proc,
         ArchiveFile(p) \/ TrashRow(p) \/ Unindex(p)
  PROVE  Settled'
<1>1. DOMAIN disk \subseteq Spot /\ HandlersOK /\ h[p] \in Locals
  BY TreesTyped, LocalsTyped
<1>2. clean => Apart(index, disk, h[p])
  BY DEF Settled
<1> DEFINE q == h[p].path
<1>3. CASE ArchiveFile(p)
  <2> DEFINE l == [[h[p] EXCEPT !.pc = "trashRow"] EXCEPT !.cur = q, !.blob = fresh]
  <2>1. /\ h[p].pc = "archive" /\ index' = index
        /\ \/ IsFileAt(disk, q) /\ disk' = Without(disk, {q}) /\ Goto(p, l)
           \/ Fail(p)
    BY <1>3 DEF ArchiveFile, Archive, At, store
  <2>2. l.pc = "trashRow" /\ l.path = q
    BY <1>1 DEF Locals
  <2> HIDE DEF l, q
  <2>3. clean => AgreeBut(index, disk, {q}, {})
    <3>1. clean => AgreeBut(index, disk, {}, {})
      BY <1>2, <2>1, ApartAt DEF Agree
    <3> QED BY <3>1, AgreeButMore
  <2>4. CASE IsFileAt(disk, q) /\ disk' = Without(disk, {q}) /\ Goto(p, l)
    <3>1. clean => q \notin DOMAIN disk' /\ AgreeBut(index', disk', {q}, {})
      BY <1>1, <2>1, <2>3, <2>4, WithoutAgrees
    <3>2. clean => Apart(index', disk', l)
      BY <2>2, <3>1, ApartAt
    <3> QED BY <1>1, <2>4, <3>2, GoOnSettles
  <2> QED BY <2>1, <2>4, FailSettles
<1>4. CASE TrashRow(p)
  <2> DEFINE l == [h[p] EXCEPT !.pc = "unindex"]
  <2>1. h[p].pc = "trashRow" /\ index' = index /\ disk' = disk /\ Goto(p, l)
    BY <1>4 DEF TrashRow, InsertRow, At, Jump
  <2>2. l.pc = "unindex" /\ l.path = q
    BY <1>1 DEF Locals
  <2> HIDE DEF l, q
  <2>3. clean => h[p].path \notin DOMAIN disk /\ AgreeBut(index, disk, {h[p].path}, {})
    BY <1>2, <2>1, ApartAt
  <2>4. clean => Apart(index', disk', l)
    BY <2>1, <2>2, <2>3, ApartAt DEF q
  <2> QED BY <1>1, <2>1, <2>4, GoOnSettles
<1>5. CASE Unindex(p)
  <2>1. h[p].pc = "unindex" /\ index' = Without(index, {q}) /\ disk' = disk /\ Answer(p)
    BY <1>5 DEF Unindex, At
  <2>2. clean => q \notin DOMAIN disk /\ AgreeBut(index, disk, {q}, {})
    BY <1>2, <2>1, ApartAt
  <2>3. clean => AgreeBut(index, disk, {q}, {q})
    BY <2>2, AgreeButMore
  <2>4. clean => Agree(index', disk')
    BY <2>1, <2>2, <2>3, DropAgrees
  <2> QED BY <1>1, <2>1, <2>4, AnswerSettles
<1> QED BY <1>3, <1>4, <1>5

\* A directory is walked, removed and unindexed.
LEMMA SweepSettles ==
  ASSUME Alone, Literal, TypeInv, Whole(disk), Settled, NEW p \in Proc,
         \/ TrashDir(p) \/ ListDir(p) \/ SweepFile(p) \/ SweepRow(p) \/ RemoveDir(p)
         \/ UnindexTree(p)
  PROVE  Settled'
<1> DEFINE q == h[p].path
<1>1. /\ DOMAIN disk \subseteq Spot /\ DOMAIN index \subseteq Spot /\ HandlersOK
      /\ h[p] \in Locals /\ q \in Path /\ h[p].to \in Path
  BY TreesTyped, LocalsTyped
<1>2. clean => Sweeping(index, disk, h[p])
  <2>1. h[p].pc \in {"trashDir", "listDir", "sweep", "sweepRow", "unindexTree"}
    BY DEF TrashDir, ListDir, SweepFile, SweepRow, RemoveDir, UnindexTree, At
  <2> QED BY <2>1, ApartAt DEF Settled
<1>3. clean => /\ AgreeBut(index, disk, Subtree(q), Subtree(q))
               /\ h[p].stack \subseteq Subtree(q) /\ h[p].files \subseteq Subtree(q)
               /\ h[p].pc = "trashDir" => h[p].stack = {q} \/ Gone(disk, q)
               /\ h[p].pc \in {"listDir", "sweep", "sweepRow"} =>
                    h[p].to \in Subtree(q) /\ (h[p].to = q \/ Gone(disk, q))
               /\ h[p].pc = "unindexTree" => Gone(disk, q)
  BY <1>2 DEF Sweeping
<1> HIDE DEF q
<1>4. CASE TrashDir(p)
  <2>1. PICK x \in h[p].stack :
          Goto(p, [h[p] EXCEPT !.pc = "listDir", !.to = x, !.stack = @ \ {x}])
    BY <1>4 DEF TrashDir
  <2> DEFINE l == [h[p] EXCEPT !.pc = "listDir", !.to = x, !.stack = @ \ {x}]
  <2>2. h[p].pc = "trashDir" /\ index' = index /\ disk' = disk
    BY <1>4 DEF TrashDir, InsertRow, At
  <2>3. /\ l.pc = "listDir" /\ l.path = q /\ l.to = x /\ l.stack \subseteq h[p].stack
        /\ l.files = h[p].files
    BY <1>1 DEF Locals, q
  <2> HIDE DEF l
  <2>4. clean => Sweeping(index', disk', l)
    BY <1>3, <2>2, <2>3 DEF Sweeping
  <2>5. clean => Apart(index', disk', l)
    BY <2>3, <2>4, ApartAt
  <2>6. Goto(p, l)
    BY <2>1 DEF l
  <2> QED BY <1>1, <2>5, <2>6, GoOnSettles
<1>5. CASE ListDir(p)
  <2> DEFINE found == Children(disk, h[p].to)
  <2> DEFINE l == [h[p] EXCEPT !.pc = "sweep",
                               !.files = {x \in found : IsFileAt(disk, x)},
                               !.stack = @ \cup {x \in found : IsDirAt(disk, x)}]
  <2>1. h[p].pc = "listDir" /\ index' = index /\ disk' = disk /\ Goto(p, l)
    BY <1>5 DEF ListDir, At, store
  <2>2. /\ l.pc = "sweep" /\ l.path = q /\ l.to = h[p].to
        /\ l.files \subseteq found /\ l.stack \subseteq h[p].stack \cup found
    BY <1>1 DEF Locals, q
  <2>3. clean => found \subseteq Subtree(q)
    <3> SUFFICES ASSUME clean, NEW x \in found PROVE x \in Subtree(q)
      OBVIOUS
    <3>1. x \in Spot /\ Parent(x) = h[p].to
      BY <1>1 DEF Children
    <3>2. x \in Path /\ Within(x, h[p].to)
      BY <3>1, ParentWithin DEF Spot
    <3>3. h[p].to \in Path /\ Within(h[p].to, q)
      BY <1>3, <2>1 DEF Subtree
    <3>4. x \in Path /\ Within(x, q)
      BY <1>1, <3>2, <3>3, WithinTrans
    <3> QED BY <3>4 DEF Subtree
  <2> HIDE DEF l, found
  <2>4. clean => Sweeping(index', disk', l)
    BY <1>3, <2>1, <2>2, <2>3 DEF Sweeping
  <2>5. clean => Apart(index', disk', l)
    BY <2>2, <2>4, ApartAt
  <2> QED BY <1>1, <2>1, <2>5, GoOnSettles
<1>6. CASE SweepFile(p)
  <2>1. PICK x \in h[p].files :
          Archive(p, x, [h[p] EXCEPT !.pc = "sweepRow", !.files = @ \ {x}])
    BY <1>6 DEF SweepFile
  <2> DEFINE l == [[h[p] EXCEPT !.pc = "sweepRow", !.files = @ \ {x}] EXCEPT !.cur = x, !.blob = fresh]
  <2>2. /\ index' = index
        /\ \/ IsFileAt(disk, x) /\ disk' = Without(disk, {x}) /\ Goto(p, l)
           \/ Fail(p)
    BY <2>1 DEF Archive, store
  <2>3. h[p].pc = "sweep"
    BY <1>6 DEF SweepFile, At
  <2>4. /\ l.pc = "sweepRow" /\ l.path = q /\ l.to = h[p].to
        /\ l.files \subseteq h[p].files /\ l.stack = h[p].stack
    BY <1>1 DEF Locals, q
  <2> HIDE DEF l
  <2>5. CASE IsFileAt(disk, x) /\ disk' = Without(disk, {x}) /\ Goto(p, l)
    <3>1. clean => AgreeBut(index', disk', Subtree(q), Subtree(q))
      BY <1>1, <1>3, <2>2, <2>5, WithoutAgrees
    <3>2. Gone(disk, q) => Gone(disk', q)
      BY <2>5, GoneStays DEF Without
    <3>3. clean => Sweeping(index', disk', l)
      BY <1>3, <2>3, <2>4, <3>1, <3>2 DEF Sweeping
    <3>4. clean => Apart(index', disk', l)
      BY <2>4, <3>3, ApartAt
    <3> QED BY <1>1, <2>5, <3>4, GoOnSettles
  <2> QED BY <2>2, <2>5, FailSettles
<1>7. CASE SweepRow(p)
  <2> DEFINE l == [h[p] EXCEPT !.pc = "sweep"]
  <2>1. h[p].pc = "sweepRow" /\ index' = index /\ disk' = disk /\ Goto(p, l)
    BY <1>7 DEF SweepRow, InsertRow, At, Jump
  <2>2. /\ l.pc = "sweep" /\ l.path = q /\ l.to = h[p].to
        /\ l.files = h[p].files /\ l.stack = h[p].stack
    BY <1>1 DEF Locals, q
  <2> HIDE DEF l
  <2>3. clean => Sweeping(index', disk', l)
    BY <1>3, <2>1, <2>2 DEF Sweeping
  <2>4. clean => Apart(index', disk', l)
    BY <2>2, <2>3, ApartAt
  <2> QED BY <1>1, <2>1, <2>4, GoOnSettles
<1>8. CASE RemoveDir(p)
  <2> DEFINE pc == IF h[p].stack = {} THEN "unindexTree" ELSE "trashDir"
  <2> DEFINE l == [h[p] EXCEPT !.pc = pc]
  <2>1. h[p].pc = "sweep" /\ index' = index /\ disk' = RemoveAll(disk, h[p].to) /\ Goto(p, l)
    BY <1>8 DEF RemoveDir, At, Jump
  <2>2. /\ l.pc \in {"unindexTree", "trashDir"} /\ l.path = q
        /\ l.files = h[p].files /\ l.stack = h[p].stack
    BY <1>1 DEF Locals, q
  <2>3. clean => AgreeBut(index', disk', Subtree(q), Subtree(q))
    <3> SUFFICES ASSUME clean PROVE AgreeBut(index', disk', Subtree(q), Subtree(q))
      OBVIOUS
    <3>1. h[p].to \in Path /\ Within(h[p].to, q)
      BY <1>3, <2>1 DEF Subtree
    <3>2. \A x \in Path : Within(x, h[p].to) => x \in Subtree(q)
      BY <1>1, <3>1, WithinTrans DEF Subtree
    <3> QED BY <1>1, <1>3, <2>1, <3>1, <3>2, RemoveAllAgrees
  <2>4. clean => Gone(disk', q)
    <3>1. CASE h[p].to = q
      BY <2>1, <3>1, RemoveAllGone
    <3>2. CASE Gone(disk, q)
      BY <2>1, <3>2, GoneStays DEF RemoveAll, Without
    <3> QED BY <1>3, <2>1, <3>1, <3>2
  <2> HIDE DEF l
  <2>5. clean => Sweeping(index', disk', l)
    BY <1>3, <2>2, <2>3, <2>4 DEF Sweeping
  <2>6. clean => Apart(index', disk', l)
    BY <2>2, <2>5, ApartAt
  <2> QED BY <1>1, <2>1, <2>6, GoOnSettles
<1>9. CASE UnindexTree(p)
  <2> DEFINE l == [h[p] EXCEPT !.pc = "unindex"]
  <2>1. /\ h[p].pc = "unindexTree" /\ disk' = disk /\ Goto(p, l)
        /\ index' = Without(index, {x \in DOMAIN index : DirInSubtree(Parent(x), q)})
    BY <1>9 DEF UnindexTree, At, Jump, q
  <2>2. l.pc = "unindex" /\ l.path = q
    BY <1>1 DEF Locals, q
  <2> HIDE DEF l
  <2>3. clean => AgreeBut(index', disk', {q}, {})
    BY <1>1, <1>3, <2>1, UnindexAgrees
  <2>4. clean => q \notin DOMAIN disk'
    <3>1. q \in Subtree(q)
      BY <1>1, WithinSelf DEF Subtree
    <3> QED BY <1>3, <2>1, <3>1 DEF Gone
  <2>5. clean => Apart(index', disk', l)
    BY <2>2, <2>3, <2>4, ApartAt
  <2> QED BY <1>1, <2>1, <2>5, GoOnSettles
<1> QED BY <1>4, <1>5, <1>6, <1>7, <1>8, <1>9
-----------------------------------------------------------------------------
(* The steps on the trash, and of a restore *)

\* Where rows and tree agree in the middle of a request.
Calm == {"idle", "archive", "collect", "eraseBlobs", "dropRows", "dropDirRow",
         "restoreFile", "dropRow", "eraseOne", "restoreDir", "copy"}

\* There, rows and tree agree.
LEMMA CalmAgrees ==
  ASSUME Settled, NEW p \in Proc, h[p].pc \in Calm
  PROVE  clean => Agree(index, disk)
<1>1. clean => Apart(index, disk, h[p])
  BY DEF Settled
<1> QED BY <1>1, ApartAt DEF Calm

\* Going on to such a step, once they agree.
LEMMA CalmSettles ==
  ASSUME Alone, HandlersOK, NEW p \in Proc, clean => Agree(index', disk'),
         NEW l, l.pc \in Calm, NEW fine, GotoIf(p, l, fine)
  PROVE  Settled'
<1>1. clean => Apart(index', disk', l)
  BY ApartAt DEF Calm
<1> QED BY <1>1, GotoSettles

\* The steps on trash and blobs touch neither rows nor tree.
LEMMA TrashStepsSettle ==
  ASSUME Alone, TypeInv, Settled, NEW p \in Proc,
         \/ Collect(p) \/ EraseBlob(p) \/ DropRows(p) \/ DropDirRow(p)
         \/ DropRow(p) \/ EraseOne(p) \/ CopyDone(p)
  PROVE  Settled'
<1>1. HandlersOK /\ h[p] \in Locals
  BY TreesTyped, LocalsTyped
<1>2. index' = index /\ disk' = disk /\ h[p].pc \in Calm
  BY DEF Collect, EraseBlob, DropRows, DropDirRow, DropRow, EraseOne, CopyDone, At, store, Calm
<1>3. clean => Agree(index', disk')
  BY <1>2, CalmAgrees
<1>4. \/ Answer(p)
      \/ \E l : l.pc \in Calm /\ GotoIf(p, l, TRUE)
  <2>1. CASE DropDirRow(p) \/ EraseOne(p)
    BY <2>1 DEF DropDirRow, EraseOne
  <2>2. CASE Collect(p)
    <3> DEFINE found == FileRows(RowsUnder(h[p].loc))
    <3> DEFINE l == [h[p] EXCEPT !.pc = "eraseBlobs", !.sel = found, !.rows = found]
    <3>1. l.pc \in Calm /\ GotoIf(p, l, TRUE)
      BY <1>1, <2>2 DEF Collect, Goto, Locals, Calm
    <3> QED BY <3>1
  <2>3. CASE EraseBlob(p)
    <3>1. PICK r \in h[p].rows : Goto(p, [h[p] EXCEPT !.rows = @ \ {r}])
      BY <2>3 DEF EraseBlob
    <3> DEFINE l == [h[p] EXCEPT !.rows = @ \ {r}]
    <3>2. l.pc \in Calm /\ GotoIf(p, l, TRUE)
      BY <1>1, <1>2, <3>1 DEF Goto, Locals
    <3> QED BY <3>2
  <2>4. CASE DropRows(p)
    <3> DEFINE l == [h[p] EXCEPT !.pc = "dropDirRow", !.sel = {}]
    <3>1. l.pc \in Calm /\ GotoIf(p, l, TRUE)
      BY <1>1, <2>4 DEF DropRows, Goto, Locals, Calm
    <3> QED BY <3>1
  <2>5. CASE DropRow(p)
    <3> DEFINE l == [h[p] EXCEPT !.pc = "eraseOne"]
    <3>1. l.pc \in Calm /\ GotoIf(p, l, TRUE)
      BY <1>1, <2>5 DEF DropRow, Jump, Goto, Locals, Calm
    <3> QED BY <3>1
  <2>6. CASE CopyDone(p)
    <3> DEFINE l == [h[p] EXCEPT !.pc = "eraseBlobs", !.sel = FileRows(@), !.rows = FileRows(h[p].sel)]
    <3>1. l.pc \in Calm /\ GotoIf(p, l, TRUE)
      BY <1>1, <2>6 DEF CopyDone, Goto, Locals, Calm
    <3> QED BY <3>1
  <2> QED BY <2>1, <2>2, <2>3, <2>4, <2>5, <2>6
<1> QED BY <1>1, <1>3, <1>4, AnswerSettles, CalmSettles

\* A file is restored, and its row written.
LEMMA RestoreSettles ==
  ASSUME Alone, TypeInv, Whole(disk), Settled, NEW p \in Proc, RestoreFile(p) \/ RestoreRow(p)
  PROVE  Settled'
<1> DEFINE t == h[p].to
<1>1. /\ DOMAIN disk \subseteq Spot /\ HandlersOK /\ h[p] \in Locals
      /\ \A b \in DOMAIN blobs : blobs[b] \in Data
  BY TreesTyped, LocalsTyped
<1>2. CASE RestoreFile(p)
  <2> DEFINE l == [h[p] EXCEPT !.pc = "restoreRow"]
  <2>1. /\ h[p].pc = "restoreFile" /\ index' = index
        /\ \/ /\ h[p].blob \in DOMAIN blobs /\ CanWrite(disk, t)
              /\ disk' = Write(disk, t, blobs[h[p].blob])
              /\ Goto(p, l)
           \/ Fail(p)
    BY <1>2 DEF RestoreFile, At, Jump
  <2>2. t \in Spot
    BY <2>1, LocalsTyped DEF RootedAt, Spot
  <2>3. l.pc = "restoreRow" /\ l.to = t
    BY <1>1 DEF Locals
  <2>4. clean => Agree(index, disk)
    BY <2>1, CalmAgrees DEF Calm
  <2> HIDE DEF l, t
  <2>5. CASE /\ h[p].blob \in DOMAIN blobs /\ CanWrite(disk, t)
             /\ disk' = Write(disk, t, blobs[h[p].blob])
             /\ Goto(p, l)
    <3>1. clean => IsFileAt(disk', t) /\ AgreeBut(index', disk', {}, {t})
      BY <1>1, <2>1, <2>2, <2>4, <2>5, WriteAgrees
    <3>2. clean => Apart(index', disk', l)
      BY <2>3, <3>1, ApartAt
    <3> QED BY <1>1, <2>5, <3>2, GoOnSettles
  <2> QED BY <2>1, <2>5, FailSettles
<1>3. CASE RestoreRow(p)
  <2> DEFINE l == [h[p] EXCEPT !.pc = "dropRow"]
  <2>1. /\ h[p].pc = "restoreRow" /\ disk' = disk
        /\ (index' = Put(index, t, "file") /\ Goto(p, l)) \/ Fail(p)
    BY <1>3 DEF RestoreRow, At, Jump
  <2>2. l.pc \in Calm
    BY <1>1 DEF Locals, Calm
  <2>3. clean => IsFileAt(disk, t) /\ AgreeBut(index, disk, {}, {t})
    BY <2>1, ApartAt DEF Settled
  <2> HIDE DEF l, t
  <2>4. CASE index' = Put(index, t, "file") /\ Goto(p, l)
    <3>1. clean => AgreeBut(index, disk, {t}, {t}) /\ Matches(disk, "file", t)
      BY <2>3, AgreeButMore DEF Matches
    <3>2. clean => Agree(index', disk')
      BY <2>1, <2>4, <3>1, PutAgrees
    <3> QED BY <1>1, <2>2, <2>4, <3>2, CalmSettles DEF Goto
  <2> QED BY <2>1, <2>4, FailSettles
<1> QED BY <1>2, <1>3

\* A directory is restored: entry by entry, and the row of each.
LEMMA CopySettles ==
  ASSUME Alone, TypeInv, Whole(disk), Settled, NEW p \in Proc,
         RestoreDir(p) \/ CopyDir(p) \/ CopyFile(p) \/ CopyRow(p)
  PROVE  Settled'
<1>1. /\ DOMAIN disk \subseteq Spot /\ HandlersOK /\ h[p] \in Locals /\ RootedAt(h[p])
      /\ h[p].rows \subseteq Row /\ h[p].to \in Path /\ h[p].cur \in Path
      /\ \A b \in DOMAIN blobs : blobs[b] \in Data
  BY TreesTyped, LocalsTyped
<1>2. CASE RestoreDir(p)
  <2> DEFINE l == [h[p] EXCEPT !.pc = "copy", !.sel = RowsUnder(h[p].loc), !.rows = RowsUnder(h[p].loc)]
  <2> DEFINE fine == CanCreateDir(disk, Parent(h[p].to))
  <2>1. /\ h[p].pc = "restoreDir" /\ index' = index
        /\ disk' = TryCreateDir(disk, Parent(h[p].to)) /\ GotoIf(p, l, fine)
    BY <1>2 DEF RestoreDir, At
  <2>2. l.pc \in Calm
    BY <1>1 DEF Locals, Calm
  <2>3. clean => Agree(index, disk)
    BY <2>1, CalmAgrees DEF Calm
  <2> HIDE DEF l, fine
  <2>4. Parent(h[p].to) \in Path
    BY <1>1, ParentOfAny
  <2>5. clean => Agree(index', disk')
    BY <1>1, <2>1, <2>3, <2>4, TryCreateDirAgrees DEF Agree
  <2> QED BY <1>1, <2>1, <2>2, <2>5, CalmSettles
<1>3. CASE CopyDir(p)
  <2>1. PICK r \in h[p].rows :
          /\ disk' = TryCreateDir(disk, CopyTarget(p, r))
          /\ GotoIf(p, [h[p] EXCEPT !.pc = "copyRow", !.rows = @ \ {r},
                                    !.cur = CopyTarget(p, r), !.made = "dir"],
                    CanCreateDir(disk, CopyTarget(p, r)))
    BY <1>3 DEF CopyDir
  <2> DEFINE q == CopyTarget(p, r)
  <2> DEFINE l == [h[p] EXCEPT !.pc = "copyRow", !.rows = @ \ {r}, !.cur = q, !.made = "dir"]
  <2> DEFINE fine == CanCreateDir(disk, q)
  <2>2. h[p].pc = "copy" /\ index' = index
    BY <1>3 DEF CopyDir, At
  <2>3. l.pc = "copyRow" /\ l.cur = q /\ l.made = "dir"
    BY <1>1 DEF Locals
  <2>4. q \in Path
    BY <1>1, CopyTargetSpot DEF Spot
  <2>5. disk' = TryCreateDir(disk, q) /\ GotoIf(p, l, fine)
    BY <2>1
  <2>6. fine => IsDirAt(disk', q)
    BY <2>4, <2>5, CreateDirAt DEF TryCreateDir
  <2>7. clean => Agree(index, disk)
    BY <2>2, CalmAgrees DEF Calm
  <2> HIDE DEF l, q, fine
  <2>8. clean => AgreeBut(index', disk', {}, {q})
    <3>1. clean => AgreeBut(index, disk, {}, {q})
      BY <2>7, AgreeButMore DEF Agree
    <3> QED BY <1>1, <2>2, <2>4, <2>5, <3>1, TryCreateDirAgrees
  <2>9. clean /\ fine => Apart(index', disk', l)
    <3>1. fine => Matches(disk', l.made, l.cur)
      BY <2>3, <2>6 DEF Matches
    <3> QED BY <2>3, <2>8, <3>1, ApartAt
  <2> QED BY <1>1, <2>5, <2>9, GotoSettles
<1>4. CASE CopyFile(p)
  <2>1. PICK r \in h[p].rows :
          LET q == CopyTarget(p, r) IN
          \/ /\ r.blob \in DOMAIN blobs /\ CanWrite(disk, q)
             /\ disk' = Write(disk, q, blobs[r.blob])
             /\ Goto(p, [h[p] EXCEPT !.pc = "copyRow", !.rows = @ \ {r}, !.cur = q, !.made = "file"])
          \/ Fail(p)
    BY <1>4 DEF CopyFile
  <2> DEFINE q == CopyTarget(p, r)
  <2> DEFINE l == [h[p] EXCEPT !.pc = "copyRow", !.rows = @ \ {r}, !.cur = q, !.made = "file"]
  <2>2. h[p].pc = "copy" /\ index' = index
    BY <1>4 DEF CopyFile, At
  <2>3. l.pc = "copyRow" /\ l.cur = q /\ l.made = "file"
    BY <1>1 DEF Locals
  <2>4. q \in Spot
    BY <1>1, CopyTargetSpot
  <2>5. \/ /\ r.blob \in DOMAIN blobs /\ CanWrite(disk, q)
           /\ disk' = Write(disk, q, blobs[r.blob]) /\ Goto(p, l)
        \/ Fail(p)
    BY <2>1
  <2>6. clean => Agree(index, disk)
    BY <2>2, CalmAgrees DEF Calm
  <2> HIDE DEF l, q
  <2>7. CASE /\ r.blob \in DOMAIN blobs /\ CanWrite(disk, q)
             /\ disk' = Write(disk, q, blobs[r.blob]) /\ Goto(p, l)
    <3>1. clean => IsFileAt(disk', q) /\ AgreeBut(index', disk', {}, {q})
      BY <1>1, <2>2, <2>4, <2>6, <2>7, WriteAgrees
    <3>2. clean => Matches(disk', l.made, l.cur)
      BY <2>3, <3>1 DEF Matches
    <3>3. clean => Apart(index', disk', l)
      BY <2>3, <3>1, <3>2, ApartAt
    <3> QED BY <1>1, <2>7, <3>3, GoOnSettles
  <2> QED BY <2>5, <2>7, FailSettles
<1>5. CASE CopyRow(p)
  <2> DEFINE q == h[p].cur
  <2> DEFINE l == [h[p] EXCEPT !.pc = "copy"]
  <2>1. /\ h[p].pc = "copyRow" /\ disk' = disk /\ Goto(p, l)
        /\ index' = IF h[p].made = "dir" /\ q \in DOMAIN index THEN index ELSE Put(index, q, h[p].made)
    BY <1>5 DEF CopyRow, At, Jump
  <2>2. l.pc \in Calm
    BY <1>1 DEF Locals, Calm
  <2>3. q # Root
    BY <1>1, <2>1 DEF RootedAt
  <2>4. clean => Matches(disk, h[p].made, q) /\ AgreeBut(index, disk, {}, {q})
    BY <2>1, ApartAt DEF Settled
  <2> HIDE DEF l, q
  <2>5. clean => Agree(index', disk')
    <3>1. CASE h[p].made = "dir" /\ q \in DOMAIN index
      <4>1. clean => ~IsFileAt(disk, q)
        BY <2>3, <2>4, <3>1 DEF Matches, IsDirAt, IsFileAt
      <4> QED BY <2>1, <2>4, <3>1, <4>1 DEF Agree, AgreeBut
    <3>2. CASE ~(h[p].made = "dir" /\ q \in DOMAIN index)
      <4>1. clean => AgreeBut(index, disk, {q}, {q})
        BY <2>4, AgreeButMore
      <4>2. index' = Put(index, q, h[p].made)
        BY <2>1, <3>2
      <4> QED BY <2>1, <2>4, <4>1, <4>2, PutAgrees
    <3> QED BY <3>1, <3>2
  <2> QED BY <1>1, <2>1, <2>2, <2>5, CalmSettles DEF Goto
<1> QED BY <1>2, <1>3, <1>4, <1>5
-----------------------------------------------------------------------------
(* The invariant *)

\* The purger and time leave rows, tree and handlers alone; an error ends the claim.
LEMMA OthersSettle ==
  ASSUME Settled, Purger \/ Age \/ Failure
  PROVE  Settled'
<1>1. UNCHANGED <<disk, index>>
  BY OthersKeepTrees
<1>2. CASE Purger \/ Age
  <2>1. UNCHANGED <<h, clean>>
    BY <1>2 DEF Purger, PurgeScan, PurgeBlob, PurgeRow, PurgeStep, Age
  <2> QED BY <1>1, <2>1 DEF Settled
<1>3. CASE Failure
  <2>1. ~clean'
    BY <1>3 DEF Failure, Crash, PurgeErrorDropped, StatementFails, ErrorDropped, Fault
  <2> QED BY <2>1 DEF Settled
<1> QED BY <1>2, <1>3

\* Every step leaves rows and tree as the next one expects them.
LEMMA SettledKept ==
  ASSUME Alone, Literal, TypeInv, Whole(disk), Settled, [Next]_vars
  PROVE  Settled'
<1>1. TypeInv'
  BY NextTyped
<1>2. CASE UNCHANGED vars
  BY <1>2 DEF vars, Settled
<1>3. ASSUME NEW p \in Proc, Step(p) PROVE Settled'
  BY <1>1, <1>3, SaveStepsSettle, RenameStepsSettle, DeleteFileSettles, SweepSettles,
     TrashStepsSettle, RestoreSettles, CopySettles DEF Step
<1> QED BY <1>2, <1>3, RequestSettles, OthersSettle DEF Next

\* In the first state there is nothing above nothing.
LEMMA InitWhole == Init => Whole(disk)
BY BlankWhole DEF Init

\* In the first state nothing is listed and nothing is there.
LEMMA InitSettled == Init => Settled
<1> SUFFICES ASSUME Init PROVE Settled
  OBVIOUS
<1>1. Agree(index, disk)
  BY DEF Init, Blank, Agree, AgreeBut
<1>2. \A p \in Proc : h[p] = Idle /\ Idle.pc = "idle"
  BY DEF Init, Idle
<1>3. \A p \in Proc : Apart(index, disk, h[p])
  <2> TAKE p \in Proc
  <2>1. h[p].pc = "idle"
    BY <1>2
  <2> QED BY <1>1, <2>1, ApartAt
<1> QED BY <1>3 DEF Settled

\* Whatever requests overlap, fail or are cut off, the tree of an owner stays a tree:
\* above every file and every directory of it stand directories (the calls of save,
\* mkdir, rename, delete and restore on the blob store, each as one step).
THEOREM TreeWhole == Spec => []Whole(disk)
<1>1. TypeInv /\ Whole(disk) /\ [Next]_vars => TypeInv' /\ Whole(disk)'
  BY NextTyped, WholeKept
<1> QED BY <1>1, InitTyped, InitWhole, PTL DEF Spec

\* One handler: all its slots are the same.
LEMMA OneHandler ==
  ASSUME IsFiniteSet(Proc), Cardinality(Proc) = 1
  PROVE  Alone
<1>1. PICK p : Proc = {p}
  BY FS_Singleton
<1> QED BY <1>1 DEF Alone

\* One client that issues its requests in turn, all answered Ok: between any two of
\* them storage.cloud_files and the tree agree, for any names, any paths and any
\* number of requests.  The names match only themselves: with _ in a name the deletion
\* of a directory drops rows of another one.
THEOREM RowsAgree ==
  ASSUME IsFiniteSet(Proc), Literal
  PROVE  Spec => []AgreeWhileClean
<1>1. Init => TypeInv /\ AgreeInv
  BY InitTyped, InitWhole, InitSettled DEF AgreeInv
<1>2. TypeInv /\ AgreeInv /\ [Next]_vars => TypeInv' /\ AgreeInv'
  BY OneHandler, NextTyped, WholeKept, SettledKept DEF AgreeInv
<1>3. AgreeInv => AgreeWhileClean
  <2> SUFFICES ASSUME Cardinality(Proc) = 1, Settled, clean, Quiet PROVE Agree(index, disk)
    BY DEF AgreeInv, AgreeWhileClean, Agree, AgreeBut, Matches
  <2>1. PICK p : p \in Proc
    BY FS_EmptySet
  <2>2. h[p].pc = "idle"
    BY <2>1 DEF Quiet
  <2> QED BY <2>1, <2>2, CalmAgrees DEF Calm
<1> QED BY <1>1, <1>2, <1>3, PTL DEF Spec
=============================================================================
