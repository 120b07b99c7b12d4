------------------------- MODULE EnvironmentsProofs -------------------------
(***************************************************************************)
(* Proofs about Environments, for any number of objects, living ones and   *)
(* destructed ones, and any depth of moves inside moves.                   *)
(***************************************************************************)
EXTENDS Environments, WellFoundedInduction, TLAPS

-----------------------------------------------------------------------------
(* Sequences *)

\* A set of numbers has a least.
LEMMA LeastIsMember == ASSUME NEW I \in SUBSET Nat, I # {} PROVE Min(I) \in I
<1> DEFINE R == {ss \in Nat \X Nat : ss[1] < ss[2]}
<1>1. IsWellFoundedOn(R, Nat)
  BY NatLessThanWellFounded DEF OpToRel
<1>0. \A x, y \in Nat : y < x => <<y, x>> \in R
  OBVIOUS
<1> HIDE DEF R
<1>2. PICK x \in I : \A y \in I : ~ (<<y, x>> \in R)
  BY <1>1, WFMin
<1>3. ASSUME NEW y \in I PROVE x <= y
  <2>1. x \in Nat /\ y \in Nat
    OBVIOUS
  <2>2. ~(y < x)
    BY <1>0, <1>2, <2>1, Zenon
  <2> QED
    BY <2>1, <2>2
<1> QED
  BY <1>3 DEF Min

\* What RemoveAt leaves.
LEMMA RemovedAt ==
  ASSUME NEW S, NEW s \in Seq(S), NEW p \in 1 .. Len(s)
  PROVE  /\ RemoveAt(s, p) \in Seq(S)
         /\ Len(RemoveAt(s, p)) = Len(s) - 1
         /\ \A k \in 1 .. Len(s) - 1 : RemoveAt(s, p)[k] = IF k < p THEN s[k] ELSE s[k + 1]
<1>1. Len(s) \in Nat
  OBVIOUS
<1>2. /\ SubSeq(s, 1, p - 1) \in Seq(S)
      /\ Len(SubSeq(s, 1, p - 1)) = p - 1
      /\ \A k \in 1 .. p - 1 : SubSeq(s, 1, p - 1)[k] = s[k]
  BY <1>1
<1>3. /\ SubSeq(s, p + 1, Len(s)) \in Seq(S)
      /\ Len(SubSeq(s, p + 1, Len(s))) = Len(s) - p
      /\ \A k \in 1 .. Len(s) - p : SubSeq(s, p + 1, Len(s))[k] = s[p + k]
  BY <1>1
<1> DEFINE a == SubSeq(s, 1, p - 1)
           b == SubSeq(s, p + 1, Len(s))
<1>4. RemoveAt(s, p) = a \o b
  BY DEF RemoveAt
<1> HIDE DEF a, b
<1>5. a \in Seq(S) /\ b \in Seq(S) /\ Len(a) = p - 1 /\ Len(b) = Len(s) - p
  BY <1>2, <1>3 DEF a, b
<1>6. /\ a \o b \in Seq(S)
      /\ Len(a \o b) = Len(s) - 1
      /\ \A k \in 1 .. Len(s) - 1 : (a \o b)[k] = IF k < p THEN a[k] ELSE b[k - (p - 1)]
  BY <1>1, <1>5
<1>7. ASSUME NEW k \in 1 .. Len(s) - 1
      PROVE  (a \o b)[k] = IF k < p THEN s[k] ELSE s[k + 1]
  <2>1. CASE k < p
    BY <1>1, <1>2, <1>6, <2>1 DEF a
  <2>2. CASE ~(k < p)
    <3>1. k - (p - 1) \in 1 .. Len(s) - p /\ p + (k - (p - 1)) = k + 1
      BY <1>1, <2>2
    <3> QED
      BY <1>3, <1>6, <2>2, <3>1 DEF b
  <2> QED
    BY <2>1, <2>2
<1> QED
  BY <1>4, <1>6, <1>7

\* RemoveFirst takes one occurrence away, if there is any.
LEMMA RemovedFirst ==
  ASSUME NEW S, NEW s \in Seq(S), NEW e
  PROVE  \/ e \notin ToSet(s) /\ RemoveFirst(s, e) = s
         \/ \E p \in 1 .. Len(s) : s[p] = e /\ RemoveFirst(s, e) = RemoveAt(s, p)
<1>1. CASE \A i \in 1 .. Len(s) : s[i] # e
  <2>1. RemoveFirst(s, e) = s
    BY <1>1 DEF RemoveFirst
  <2>2. DOMAIN s = 1 .. Len(s)
    OBVIOUS
  <2> QED
    BY <1>1, <2>1, <2>2 DEF ToSet
<1>2. CASE \E i \in 1 .. Len(s) : s[i] = e
  <2> DEFINE I == {i \in 1 .. Len(s) : s[i] = e}
  <2>1. RemoveFirst(s, e) = RemoveAt(s, Min(I))
    BY <1>2 DEF RemoveFirst, SelectInSeq
  <2>2. I \in SUBSET Nat /\ I # {}
    BY <1>2
  <2> HIDE DEF I
  <2>3. Min(I) \in I
    BY <2>2, LeastIsMember
  <2> QED
    BY <2>1, <2>3 DEF I
<1> QED
  BY <1>1, <1>2

\* RemoveFirst takes its element away, if it occurs once, and no other.
LEMMA RemovedOnce ==
  ASSUME NEW S, NEW s \in Seq(S), NEW e
  PROVE  /\ RemoveFirst(s, e) \in Seq(S)
         /\ \A o : o # e => (o \in ToSet(RemoveFirst(s, e)) <=> o \in ToSet(s))
         /\ \A o : OccursOnce(o, s) => OccursOnce(o, RemoveFirst(s, e))
         /\ OccursOnce(e, s) => e \notin ToSet(RemoveFirst(s, e))
<1>1. CASE e \notin ToSet(s) /\ RemoveFirst(s, e) = s
  BY <1>1
<1>2. ASSUME NEW p \in 1 .. Len(s), s[p] = e, RemoveFirst(s, e) = RemoveAt(s, p)
      PROVE  /\ RemoveFirst(s, e) \in Seq(S)
             /\ \A o : o # e => (o \in ToSet(RemoveFirst(s, e)) <=> o \in ToSet(s))
             /\ \A o : OccursOnce(o, s) => OccursOnce(o, RemoveFirst(s, e))
             /\ OccursOnce(e, s) => e \notin ToSet(RemoveFirst(s, e))
  <2> DEFINE t == RemoveAt(s, p)
  <2>1. /\ t \in Seq(S)
        /\ Len(t) = Len(s) - 1
        /\ \A k \in 1 .. Len(s) - 1 : t[k] = IF k < p THEN s[k] ELSE s[k + 1]
    BY RemovedAt
  <2> HIDE DEF t
  <2>2. DOMAIN s = 1 .. Len(s) /\ Len(s) \in Nat /\ DOMAIN t = 1 .. Len(s) - 1
    BY <2>1
  <2>3. ASSUME NEW o, o # e PROVE o \in ToSet(t) <=> o \in ToSet(s)
    <3>1. ASSUME NEW k \in DOMAIN t, t[k] = o PROVE \E i \in DOMAIN s : s[i] = o
      BY <2>1, <2>2, <3>1
    <3>2. ASSUME NEW i \in DOMAIN s, s[i] = o PROVE \E k \in DOMAIN t : t[k] = o
      <4>1. i # p
        BY <1>2, <2>3, <3>2
      <4>2. CASE i < p
        <5>1. i \in DOMAIN t /\ t[i] = s[i]
          BY <2>1, <2>2, <4>2
        <5> QED
          BY <3>2, <5>1
      <4>3. CASE i > p
        <5>1. i - 1 \in DOMAIN t /\ t[i - 1] = s[i]
          BY <2>1, <2>2, <4>3
        <5> QED
          BY <3>2, <5>1
      <4> QED
        BY <2>2, <4>1, <4>2, <4>3
    <3> QED
      BY <3>1, <3>2 DEF ToSet
  <2>4. ASSUME NEW o, OccursOnce(o, s) PROVE OccursOnce(o, t)
    <3> SUFFICES ASSUME NEW j \in DOMAIN t, NEW k \in DOMAIN t, t[j] = o, t[k] = o PROVE j = k
      BY DEF OccursOnce
    <3> DEFINE At(i) == IF i < p THEN i ELSE i + 1
    <3>1. At(j) \in DOMAIN s /\ At(k) \in DOMAIN s /\ s[At(j)] = o /\ s[At(k)] = o
      BY <2>1, <2>2
    <3>2. At(j) = At(k)
      BY <2>4, <3>1 DEF OccursOnce
    <3> QED
      BY <2>2, <3>2
  <2>5. ASSUME OccursOnce(e, s) PROVE e \notin ToSet(t)
    <3> SUFFICES ASSUME NEW k \in DOMAIN t, t[k] = e PROVE FALSE
      BY DEF ToSet
    <3> DEFINE i == IF k < p THEN k ELSE k + 1
    <3>1. i \in DOMAIN s /\ s[i] = e /\ i # p
      BY <2>1, <2>2
    <3> QED
      BY <1>2, <2>2, <2>5, <3>1 DEF OccursOnce
  <2> QED
    BY <1>2, <2>1, <2>3, <2>4, <2>5 DEF t
<1> QED
  BY <1>1, <1>2, RemovedFirst

\* Append adds its element.
LEMMA AppendedOnce ==
  ASSUME NEW S, NEW s \in Seq(S), NEW e \in S
  PROVE  /\ Append(s, e) \in Seq(S)
         /\ ToSet(Append(s, e)) = ToSet(s) \cup {e}
         /\ \A o : OccursOnce(o, s) /\ (o # e \/ o \notin ToSet(s)) => OccursOnce(o, Append(s, e))
<1> DEFINE t == Append(s, e)
<1>1. /\ t \in Seq(S) /\ Len(s) \in Nat /\ DOMAIN s = 1 .. Len(s)
      /\ DOMAIN t = 1 .. Len(s) + 1 /\ t[Len(s) + 1] = e
      /\ \A k \in 1 .. Len(s) : t[k] = s[k]
  OBVIOUS
<1> HIDE DEF t
<1>2. ToSet(t) = ToSet(s) \cup {e}
  <2>1. \A k \in DOMAIN t : k \in DOMAIN s \/ k = Len(s) + 1
    BY <1>1
  <2>2. DOMAIN s \subseteq DOMAIN t /\ Len(s) + 1 \in DOMAIN t
    BY <1>1
  <2> QED
    BY <1>1, <2>1, <2>2 DEF ToSet
<1>3. ASSUME NEW o, OccursOnce(o, s), o # e \/ o \notin ToSet(s) PROVE OccursOnce(o, t)
  <2> SUFFICES ASSUME NEW j \in DOMAIN t, NEW k \in DOMAIN t, t[j] = o, t[k] = o PROVE j = k
    BY DEF OccursOnce
  <2>1. CASE o = e
    BY <1>1, <1>3, <2>1 DEF ToSet
  <2>2. CASE o # e
    BY <1>1, <1>3, <2>2 DEF OccursOnce
  <2> QED
    BY <2>1, <2>2
<1> QED
  BY <1>1, <1>2, <1>3 DEF t

-----------------------------------------------------------------------------
(* Inventories *)

PlacesOK ==
  /\ environment \in [Objects -> Objects \cup {None}]
  /\ contents \in [Lists -> Seq(Objects)]
  /\ destructed \subseteq Objects

\* InventoriesAgree says nothing of the list that an object will have once it is
\* destructed, which is the object's inventory then and so must be empty, nor of the
\* list that it had before, which walks may still be in.
PlaceInv ==
  /\ PlacesOK
  /\ InventoriesAgree
  /\ \A o \in Objects \ destructed : contents[<<o, TRUE>>] = <<>>
  /\ \A o \in Objects \ destructed, l \in Lists : OccursOnce(o, contents[l])

LEMMA ListOfType == ASSUME NEW d \in Objects PROVE ListOf(d) \in Lists
<1>1. (d \in destructed) \in BOOLEAN
  OBVIOUS
<1> QED
  BY <1>1 DEF ListOf, Lists

\* What InventoriesAgree says of object o and the inventory of d.
Agree(o, d, env, list) ==
  /\ env = d /\ d \notin destructed => o \in ToSet(list)
  /\ o \in ToSet(list) => env = d
  /\ OccursOnce(o, list)

\* Environment.move keeps them in agreement, whatever object moves and wherever it was.
LEMMA MoveKeeps ==
  ASSUME PlaceInv, NEW x \in Objects, NEW dest \in Objects,
         contents' = Arrived(x, dest),
         environment' = [environment EXCEPT ![x] = dest],
         destructed' = destructed
  PROVE  PlaceInv'
<1> USE EnvironmentsAssumption
<1>1. \A d \in Objects : ListOf(d) \in Lists /\ (ListOf(d))' = ListOf(d)
  BY ListOfType DEF ListOf
<1>2. \A c, d \in Objects : c # d => ListOf(c) # ListOf(d)
  BY DEF ListOf
<1>3. \A d \in Objects : contents[ListOf(d)] \in Seq(Objects)
  BY <1>1 DEF PlaceInv, PlacesOK
<1> DEFINE Gone(d) == IF d = environment[x] THEN RemoveFirst(contents[ListOf(d)], x)
                      ELSE contents[ListOf(d)]
<1>4. \A d \in Objects :
        /\ Gone(d) \in Seq(Objects)
        /\ \A o : o # x => (o \in ToSet(Gone(d)) <=> o \in ToSet(contents[ListOf(d)]))
        /\ \A o : OccursOnce(o, contents[ListOf(d)]) => OccursOnce(o, Gone(d))
  BY <1>3, RemovedOnce
<1>5. \A d \in Objects : x \notin destructed => x \notin ToSet(Gone(d))
  <2> SUFFICES ASSUME NEW d \in Objects, x \notin destructed PROVE x \notin ToSet(Gone(d))
    OBVIOUS
  <2>1. /\ x \in ToSet(contents[ListOf(d)]) => environment[x] = d
        /\ OccursOnce(x, contents[ListOf(d)])
    BY DEF PlaceInv, InventoriesAgree
  <2> QED
    BY <1>3, <2>1, RemovedOnce
<1>6. /\ Left(x) \in [Lists -> Seq(Objects)]
      /\ \A d \in Objects : Left(x)[ListOf(d)] = Gone(d)
      /\ \A l \in Lists : (\A d \in Objects : l # ListOf(d)) => Left(x)[l] = contents[l]
  <2>1. CASE environment[x] = None
    BY <1>1, <2>1 DEF Left, PlaceInv, PlacesOK
  <2>2. CASE environment[x] # None
    <3>1. PICK e \in Objects : e = environment[x]
      BY <2>2 DEF PlaceInv, PlacesOK
    <3>2. Left(x) = [contents EXCEPT ![ListOf(e)] = RemoveFirst(contents[ListOf(e)], x)]
      BY <2>2, <3>1 DEF Left
    <3>3. RemoveFirst(contents[ListOf(e)], x) \in Seq(Objects)
      BY <1>4, <3>1
    <3>4. contents \in [Lists -> Seq(Objects)]
      BY DEF PlaceInv, PlacesOK
    <3> QED
      BY <1>1, <1>2, <3>1, <3>2, <3>3, <3>4
  <2> QED
    BY <2>1, <2>2
<1> HIDE DEF Gone
<1>7. /\ contents' \in [Lists -> Seq(Objects)]
      /\ contents'[ListOf(dest)] = Append(Gone(dest), x)
      /\ \A d \in Objects : d # dest => contents'[ListOf(d)] = Gone(d)
      /\ \A l \in Lists : (\A d \in Objects : l # ListOf(d)) => contents'[l] = contents[l]
  <2>1. contents' = [Left(x) EXCEPT ![ListOf(dest)] = Append(Left(x)[ListOf(dest)], x)]
    BY DEF Arrived
  <2>2. Append(Gone(dest), x) \in Seq(Objects)
    BY <1>4
  <2> QED
    BY <1>1, <1>2, <1>6, <2>1, <2>2
<1>8. PlacesOK'
  BY <1>7 DEF PlaceInv, PlacesOK
<1>9. ASSUME NEW o \in Objects \ destructed, NEW d \in Objects
      PROVE  Agree(o, d, environment'[o], contents'[ListOf(d)])
  <2>1. Agree(o, d, environment[o], contents[ListOf(d)])
    BY DEF Agree, PlaceInv, InventoriesAgree
  <2>2. environment'[o] = IF o = x THEN dest ELSE environment[o]
    BY DEF PlaceInv, PlacesOK
  <2>3. /\ o # x => Agree(o, d, environment'[o], Gone(d))
        /\ OccursOnce(o, Gone(d))
    BY <1>4, <2>1, <2>2 DEF Agree
  <2>4. CASE d # dest
    BY <1>5, <1>7, <2>2, <2>3, <2>4 DEF Agree
  <2>5. CASE d = dest
    <3>1. /\ ToSet(Append(Gone(d), x)) = ToSet(Gone(d)) \cup {x}
          /\ OccursOnce(o, Gone(d)) /\ (o # x \/ o \notin ToSet(Gone(d)))
               => OccursOnce(o, Append(Gone(d), x))
      <4>1. Gone(d) \in Seq(Objects)
        BY <1>4
      <4> QED
        BY <4>1, AppendedOnce
    <3>2. contents'[ListOf(d)] = Append(Gone(d), x)
      BY <1>7, <2>5
    <3> QED
      BY <1>5, <2>2, <2>3, <2>5, <3>1, <3>2 DEF Agree
  <2> QED
    BY <2>4, <2>5
<1>10. InventoriesAgree'
  BY <1>1, <1>9 DEF InventoriesAgree, Agree
<1>11. \A o \in Objects \ destructed : contents'[<<o, TRUE>>] = <<>>
  <2> SUFFICES ASSUME NEW o \in Objects \ destructed PROVE contents'[<<o, TRUE>>] = <<>>
    OBVIOUS
  <2>1. <<o, TRUE>> \in Lists /\ \A d \in Objects : <<o, TRUE>> # ListOf(d)
    BY DEF Lists, ListOf
  <2> QED
    BY <1>7, <2>1 DEF PlaceInv
<1>12. \A o \in Objects \ destructed, l \in Lists : OccursOnce(o, contents'[l])
  BY <1>7, <1>9 DEF PlaceInv, Agree
<1> QED
  BY <1>8, <1>10, <1>11, <1>12 DEF PlaceInv

\* So does destruct, which gives the object a new inventory and leaves the others be.
LEMMA DestructKeeps ==
  ASSUME PlaceInv, NEW x \in Objects, x \notin destructed,
         destructed' = destructed \cup {x},
         environment' = [environment EXCEPT ![x] = None],
         contents' = contents
  PROVE  PlaceInv'
<1> USE EnvironmentsAssumption
<1>1. PlacesOK'
  BY DEF PlaceInv, PlacesOK
<1>2. ASSUME NEW o \in Objects \ destructed', NEW d \in Objects
      PROVE  /\ environment'[o] = d /\ d \notin destructed' => o \in ToSet(contents'[ListOf(d)'])
             /\ o \in ToSet(contents'[ListOf(d)']) => environment'[o] = d
             /\ OccursOnce(o, contents'[ListOf(d)'])
  <2>1. o # x /\ o \notin destructed /\ environment'[o] = environment[o]
    BY <1>2 DEF PlaceInv, PlacesOK
  <2>2. CASE d = x
    <3>1. contents'[ListOf(d)'] = <<>>
      BY <2>2 DEF ListOf, PlaceInv
    <3> QED
      BY <2>2, <3>1 DEF ToSet, OccursOnce
  <2>3. CASE d # x
    <3>1. contents'[ListOf(d)'] = contents[ListOf(d)] /\ (d \in destructed' <=> d \in destructed)
      BY <2>3 DEF ListOf
    <3> QED
      BY <2>1, <3>1 DEF PlaceInv, InventoriesAgree
  <2> QED
    BY <2>2, <2>3
<1> QED
  BY <1>1, <1>2 DEF PlaceInv, InventoriesAgree

-----------------------------------------------------------------------------
(* The stack *)

\* What is left of the stack when frames from below are thrown to.
LEMMA Prefix ==
  ASSUME NEW S, NEW s \in Seq(S), NEW n \in 0 .. Len(s)
  PROVE  /\ SubSeq(s, 1, n) \in Seq(S)
         /\ Len(SubSeq(s, 1, n)) = n
         /\ \A k \in 1 .. n : SubSeq(s, 1, n)[k] = s[k]
<1>1. Len(s) \in Nat /\ n \in Nat /\ \A k \in 1 .. n : s[k] \in S
  OBVIOUS
<1> QED
  BY <1>1

LEMMA Pushed ==
  ASSUME NEW S, NEW s \in Seq(S), NEW f \in S
  PROVE  /\ Append(s, f) \in Seq(S)
         /\ Len(Append(s, f)) = Len(s) + 1
         /\ Append(s, f)[Len(s) + 1] = f
         /\ \A k \in 1 .. Len(s) : Append(s, f)[k] = s[k]
OBVIOUS

LEMMA FrontIsPrefix ==
  ASSUME NEW S, NEW s \in Seq(S), s # <<>>
  PROVE  Len(s) - 1 \in 0 .. Len(s) /\ Front(s) = SubSeq(s, 1, Len(s) - 1)
<1>1. Len(s) \in Nat /\ Len(s) # 0
  OBVIOUS
<1>2. Len(s) - 1 \in 0 .. Len(s)
  BY <1>1
<1>3. Front(s) = SubSeq(s, 1, Len(s) - 1)
  BY Zenon DEF Front
<1> QED
  BY <1>2, <1>3

\* A walk over a list with contents c: its cursor is in it, and what it has met is what
\* comes before the cursor, unless the list was modified.
WalkAt(f, c) ==
  /\ f.cursor <= Len(c) \/ f.stale
  /\ f.cursor = 0 => f.met = {}
  /\ f.cursor # 0 /\ ~f.stale => f.met = {c[i] : i \in 1 .. f.cursor}

LpcFrame(o) == [op |-> "lpc", obj |-> o]

StackOK(s, cs) ==
  /\ s \in Seq(Frames)
  /\ \A k \in 1 .. Len(s) : s[k].op = "move" =>
       /\ k > 1 /\ s[k - 1] = LpcFrame(s[k].obj)
       /\ WalkAt(s[k], cs[s[k].list])

StackInv == StackOK(stack, contents)

\* Frames of the one kind and of the other.
LEMMA FrameKinds ==
  ASSUME NEW f \in Frames
  PROVE  /\ f.op = "move" => f \in Walks
         /\ f.op # "move" => f.op = "lpc" /\ f = LpcFrame(f.obj)
         /\ f.obj \in Objects
<1>1. CASE f \in Walks
  BY <1>1 DEF Walks
<1>2. CASE f \in [op : {"lpc"}, obj : Objects]
  BY <1>2 DEF LpcFrame
<1> QED
  BY <1>1, <1>2 DEF Frames

LEMMA LpcFrames == ASSUME NEW o \in Objects PROVE LpcFrame(o) \in Frames
BY DEF LpcFrame, Frames

\* Frames are pushed on LPC code, and thrown away, without harm to those below.
LEMMA PushKeeps ==
  ASSUME NEW s, NEW cs, StackOK(s, cs), NEW o \in Objects
  PROVE  StackOK(Append(s, LpcFrame(o)), cs)
<1> DEFINE n == Len(s)
           t == Append(s, LpcFrame(o))
<1>1. /\ n \in Nat /\ t \in Seq(Frames) /\ Len(t) = n + 1
      /\ t[n + 1] = LpcFrame(o)
      /\ \A k \in 1 .. n : t[k] = s[k]
  BY LpcFrames, Pushed DEF StackOK
<1>2. LpcFrame(o).op # "move"
  BY DEF LpcFrame
<1> HIDE DEF n, t
<1>3. \A k \in 1 .. n + 1 : t[k].op = "move" => k \in 1 .. n
  BY <1>1, <1>2
<1>4. \A k \in 1 .. n : k > 1 => t[k - 1] = s[k - 1]
  BY <1>1
<1> QED
  BY <1>1, <1>3, <1>4 DEF StackOK, n, t

LEMMA ThrowKeeps ==
  ASSUME NEW s, NEW cs, StackOK(s, cs), NEW n \in 0 .. Len(s)
  PROVE  StackOK(SubSeq(s, 1, n), cs)
<1> DEFINE t == SubSeq(s, 1, n)
<1>1. /\ n \in Nat /\ t \in Seq(Frames) /\ Len(t) = n
      /\ \A k \in 1 .. n : t[k] = s[k]
  BY Prefix DEF StackOK
<1> HIDE DEF t
<1>2. \A k \in 1 .. n : k \in 1 .. Len(s) /\ (k > 1 => t[k - 1] = s[k - 1])
  BY <1>1 DEF StackOK
<1> QED
  BY <1>1, <1>2 DEF StackOK, t

\* The innermost walk goes on.
LEMMA WalkKeeps ==
  ASSUME StackInv, Running("move"), NEW f \in Walks, f.obj = Top.obj,
         WalkAt(f, contents[f.list])
  PROVE  StackOK(Append(Front(stack), f), contents)
<1> DEFINE n == Len(stack) - 1
           t == Append(Front(stack), f)
<1>1. n \in 0 .. Len(stack) /\ Front(stack) = SubSeq(stack, 1, n) /\ n \in Nat
  BY FrontIsPrefix DEF StackInv, StackOK, Running
<1> HIDE DEF n
<1>2. /\ Front(stack) \in Seq(Frames) /\ Len(Front(stack)) = n
      /\ \A k \in 1 .. n : Front(stack)[k] = stack[k]
  BY <1>1, Prefix DEF StackInv, StackOK
<1>3. f \in Frames
  BY DEF Frames
<1>4. /\ t \in Seq(Frames) /\ Len(t) = n + 1
      /\ t[n + 1] = f
      /\ \A k \in 1 .. n : t[k] = stack[k]
  BY <1>2, <1>3, Pushed
<1> HIDE DEF t
<1>5. n + 1 = Len(stack)
  BY DEF n, StackInv, StackOK
<1>6. n + 1 > 1 /\ stack[n] = LpcFrame(f.obj)
  BY <1>1, <1>5 DEF StackInv, StackOK, Running, Top
<1>7. ASSUME NEW k \in 1 .. Len(t), t[k].op = "move"
      PROVE  /\ k > 1 /\ t[k - 1] = LpcFrame(t[k].obj)
             /\ WalkAt(t[k], contents[t[k].list])
  <2>1. CASE k = n + 1
    BY <1>1, <1>4, <1>6, <2>1
  <2>2. CASE k # n + 1
    <3>1. k \in 1 .. n /\ k \in 1 .. Len(stack)
      BY <1>1, <1>4, <1>5, <2>2
    <3>2. k > 1 => k - 1 \in 1 .. n
      BY <1>1, <3>1
    <3> QED
      BY <1>4, <1>7, <3>1, <3>2 DEF StackInv, StackOK
  <2> QED
    BY <2>1, <2>2
<1> QED
  BY <1>4, <1>7 DEF StackOK, t

\* An iterator whose list changes is stale afterwards; no frame changes otherwise.
LEMMA DisturbedFrame ==
  ASSUME NEW frame \in Frames, NEW dest \in Objects
  PROVE  /\ Disturbed(frame, dest) \in Frames
         /\ Disturbed(frame, dest).op = frame.op
         /\ Disturbed(frame, dest).obj = frame.obj
         /\ frame.op # "move" => Disturbed(frame, dest) = frame
         /\ frame.op = "move" =>
              /\ Disturbed(frame, dest).list = frame.list
              /\ Disturbed(frame, dest).cursor = frame.cursor
              /\ Disturbed(frame, dest).met = frame.met
              /\ \/ Disturbed(frame, dest) = frame /\ contents'[frame.list] = contents[frame.list]
                 \/ Disturbed(frame, dest).stale
<1>1. CASE frame.op = "move" /\ (frame.list = ListOf(dest) \/ contents'[frame.list] # contents[frame.list])
  <2>1. frame \in Walks
    BY <1>1, FrameKinds
  <2>2. Disturbed(frame, dest) = [frame EXCEPT !.stale = TRUE]
    BY <1>1 DEF Disturbed
  <2>3. [frame EXCEPT !.stale = TRUE] \in Walks
    BY <2>1 DEF Walks
  <2>4. LET f == [frame EXCEPT !.stale = TRUE] IN
        f.op = frame.op /\ f.obj = frame.obj /\ f.list = frame.list /\ f.cursor = frame.cursor
          /\ f.met = frame.met /\ f.stale
    BY <2>1 DEF Walks
  <2> QED
    BY <1>1, <2>2, <2>3, <2>4 DEF Frames
<1>2. CASE ~(frame.op = "move" /\ (frame.list = ListOf(dest) \/ contents'[frame.list] # contents[frame.list]))
  <2>1. Disturbed(frame, dest) = frame
    BY <1>2 DEF Disturbed
  <2> QED
    BY <1>2, <2>1
<1> QED
  BY <1>1, <1>2

\* A move disturbs the walks over the lists that it changes, and begins one.
LEMMA MoveStackKeeps ==
  ASSUME StackInv, PlacesOK', NEW dest \in Objects, Move(dest)
  PROVE  StackInv'
<1> DEFINE n == Len(stack)
           t == [k \in DOMAIN stack |-> Disturbed(stack[k], dest)]
           w == [op |-> "move", obj |-> Top.obj, list |-> ListOf(dest),
                 part |-> IF Top.obj \in Living THEN "here" ELSE "living",
                 cursor |-> 0, stale |-> FALSE, met |-> {}]
<1>1. n \in Nat /\ DOMAIN stack = 1 .. n /\ \A k \in 1 .. n : stack[k] \in Frames
  BY DEF StackInv, StackOK
<1>2. n \in 1 .. n /\ Top = stack[n] /\ Top = LpcFrame(Top.obj) /\ Top.obj \in Objects
  <2>1. stack # <<>> /\ Top.op = "lpc"
    BY DEF Move, Running
  <2>2. n \in 1 .. n
    BY <1>1, <2>1 DEF StackInv, StackOK
  <2> QED
    BY <1>1, <2>1, <2>2, FrameKinds DEF Top
<1>3. t \in Seq(Frames) /\ Len(t) = n /\ \A k \in 1 .. n : t[k] = Disturbed(stack[k], dest)
  <2>1. \A k \in 1 .. n : Disturbed(stack[k], dest) \in Frames
    BY <1>1, DisturbedFrame
  <2> QED
    BY <1>1, <2>1
<1>4. w \in Frames
  BY <1>2, ListOfType DEF Frames, Walks
<1>5. stack' = Append(t, w)
  BY DEF Move
<1> HIDE DEF t, w
<1>6. /\ stack' \in Seq(Frames) /\ Len(stack') = n + 1 /\ stack'[n + 1] = w
      /\ \A k \in 1 .. n : stack'[k] = Disturbed(stack[k], dest)
  BY <1>3, <1>4, <1>5, Pushed
<1> HIDE DEF n
<1>7. ASSUME NEW k \in 1 .. n, stack'[k].op = "move"
      PROVE  /\ k > 1 /\ stack'[k - 1] = LpcFrame(stack'[k].obj)
             /\ WalkAt(stack'[k], contents'[stack'[k].list])
  <2>1. stack[k] \in Frames /\ stack[k].op = "move" /\ stack'[k].obj = stack[k].obj
    BY <1>1, <1>6, <1>7, DisturbedFrame
  <2>2. /\ k > 1 /\ stack[k - 1] = LpcFrame(stack[k].obj)
        /\ WalkAt(stack[k], contents[stack[k].list])
    BY <2>1 DEF StackInv, StackOK, n
  <2>3. k - 1 \in 1 .. n /\ stack[k - 1].op # "move"
    BY <1>1, <2>2 DEF LpcFrame
  <2>4. stack'[k - 1] = LpcFrame(stack'[k].obj)
    BY <1>1, <1>6, <2>1, <2>2, <2>3, DisturbedFrame
  <2>5. WalkAt(stack'[k], contents'[stack'[k].list])
    <3> DEFINE f == stack[k]
               g == stack'[k]
    <3>1. g = Disturbed(f, dest)
      BY <1>6
    <3>2. /\ g.list = f.list /\ g.cursor = f.cursor /\ g.met = f.met
          /\ (g = f /\ contents'[f.list] = contents[f.list]) \/ g.stale
      BY <2>1, <3>1, DisturbedFrame
    <3> QED
      BY <2>2, <3>2 DEF WalkAt
  <2> QED
    BY <2>2, <2>4, <2>5
<1>8. /\ n + 1 > 1 /\ stack'[n] = LpcFrame(w.obj)
      /\ WalkAt(w, contents'[w.list])
  <2>1. stack[n] = LpcFrame(w.obj) /\ stack[n].op # "move"
    BY <1>2 DEF w, LpcFrame
  <2>2. stack'[n] = stack[n]
    BY <1>1, <1>2, <1>6, <2>1, DisturbedFrame
  <2>3. w.cursor = 0 /\ w.met = {} /\ ~w.stale
    BY DEF w
  <2>4. w.list \in Lists
    BY <1>4 DEF w, Frames, Walks
  <2>5. Len(contents'[w.list]) \in Nat
    BY <2>4 DEF PlacesOK
  <2> QED
    BY <1>1, <1>2, <2>1, <2>2, <2>3, <2>5 DEF WalkAt
<1> QED
  BY <1>1, <1>6, <1>7, <1>8 DEF StackInv, StackOK

-----------------------------------------------------------------------------
(* Steps of a walk *)

LEMMA TopOfStack ==
  ASSUME StackInv, PlacesOK, stack # <<>>
  PROVE  /\ Len(stack) \in 1 .. Len(stack) /\ Top \in Frames
         /\ Top.op = "move" =>
              /\ Top \in Walks /\ Top.list \in Lists /\ Top.cursor \in Nat
              /\ contents[Top.list] \in Seq(Objects)
              /\ Len(contents[Top.list]) \in Nat
              /\ WalkAt(Top, contents[Top.list])
<1>1. Len(stack) \in 1 .. Len(stack) /\ Top \in Frames
  BY DEF StackInv, StackOK, Top
<1>2. ASSUME Top.op = "move"
      PROVE  /\ Top \in Walks /\ Top.list \in Lists /\ Top.cursor \in Nat
             /\ WalkAt(Top, contents[Top.list])
  <2>1. Top \in Walks
    BY <1>1, <1>2, FrameKinds
  <2>2. WalkAt(Top, contents[Top.list])
    BY <1>1, <1>2 DEF StackInv, StackOK, Top
  <2> QED
    BY <2>1, <2>2 DEF Walks
<1>3. Top.op = "move" => contents[Top.list] \in Seq(Objects)
  BY <1>2 DEF PlacesOK
<1> QED
  BY <1>1, <1>2, <1>3

\* next() returns an object, and moves the cursor over it.
LEMMA AdvancedWalk ==
  ASSUME StackInv, PlacesOK, Running("move"), HasNext
  PROVE  /\ Element \in Objects
         /\ Advanced \in Walks /\ Advanced.obj = Top.obj
         /\ WalkAt(Advanced, contents[Advanced.list])
<1> DEFINE c == contents[Top.list]
<1>1. /\ Top \in Walks /\ Top.list \in Lists /\ Top.cursor \in Nat
      /\ c \in Seq(Objects) /\ Len(c) \in Nat
      /\ WalkAt(Top, c)
  BY TopOfStack DEF Running
<1>2. Top.cursor < Len(c) /\ (Top.cursor = 0 \/ ~Top.stale)
  BY <1>1 DEF HasNext, Modified
<1>3. Element = c[Top.cursor + 1]
  BY DEF Element
<1> HIDE DEF c
<1>4. Element \in Objects
  BY <1>1, <1>2, <1>3
<1>5. /\ Advanced \in Walks /\ Advanced.obj = Top.obj /\ Advanced.list = Top.list
      /\ Advanced.cursor = Top.cursor + 1 /\ Advanced.met = Top.met \cup {Element}
      /\ ~Advanced.stale
  <2>1. Top.cursor + 1 \in Nat /\ Top.met \cup {Element} \in SUBSET Objects
    BY <1>1, <1>4 DEF Walks
  <2> HIDE DEF Element
  <2> QED
    BY <1>1, <2>1 DEF Advanced, Walks
<1>6. Top.met = {c[i] : i \in 1 .. Top.cursor}
  <2>1. CASE Top.cursor = 0
    BY <1>1, <2>1 DEF WalkAt
  <2>2. CASE Top.cursor # 0
    BY <1>1, <1>2, <2>2 DEF WalkAt
  <2> QED
    BY <2>1, <2>2
<1>7. {c[i] : i \in 1 .. Top.cursor} \cup {c[Top.cursor + 1]} = {c[i] : i \in 1 .. Top.cursor + 1}
  <2>1. 1 .. Top.cursor + 1 = (1 .. Top.cursor) \cup {Top.cursor + 1}
    BY <1>1
  <2> QED
    BY <2>1
<1>8. WalkAt(Advanced, c)
  BY <1>1, <1>2, <1>3, <1>5, <1>6, <1>7 DEF WalkAt
<1> QED
  BY <1>4, <1>5, <1>8 DEF c

\* A walk calls init(), or finds that there is none.
LEMMA CallInitKeeps ==
  ASSUME StackInv, Running("move"), NEW f \in Walks, f.obj = Top.obj,
         WalkAt(f, contents[f.list]), NEW o \in Objects, CallInit(f, o)
  PROVE  StackInv'
<1> DEFINE t == Append(Front(stack), f)
<1>1. StackOK(t, contents)
  BY WalkKeeps
<1>2. (stack' = t \/ stack' = Append(t, LpcFrame(o))) /\ contents' = contents
  BY DEF CallInit, LpcFrame, places
<1> HIDE DEF t
<1>3. StackOK(Append(t, LpcFrame(o)), contents)
  BY <1>1, PushKeeps
<1> QED
  BY <1>1, <1>2, <1>3 DEF StackInv

-----------------------------------------------------------------------------
(* The invariant *)

IInv == PlaceInv /\ StackInv

LEMMA InitHolds == Init => IInv
<1> SUFFICES ASSUME Init PROVE IInv
  OBVIOUS
<1>1. /\ environment = [o \in Objects |-> None] /\ contents = [l \in Lists |-> <<>>]
      /\ destructed = {} /\ stack = <<>>
  BY DEF Init
<1>2. PlacesOK
  BY <1>1 DEF PlacesOK
<1>3. \A l \in Lists : contents[l] = <<>>
  BY <1>1
<1>4. \A d \in Objects : ListOf(d) \in Lists /\ <<d, TRUE>> \in Lists
  BY ListOfType DEF Lists
<1>5. ToSet(<<>>) = {} /\ \A o : OccursOnce(o, <<>>)
  BY DEF ToSet, OccursOnce
<1>6. PlaceInv
  BY <1>1, <1>2, <1>3, <1>4, <1>5, EnvironmentsAssumption DEF PlaceInv, InventoriesAgree
<1>7. StackInv
  BY <1>1 DEF StackInv, StackOK
<1> QED
  BY <1>6, <1>7 DEF IInv

LEMMA ThrowStep == ASSUME StackInv, Throw, contents' = contents PROVE StackInv'
<1>1. PICK n \in Handlers : stack' = SubSeq(stack, 1, n)
  BY DEF Throw
<1>2. n \in 0 .. Len(stack)
  BY DEF Handlers, StackInv, StackOK
<1> QED
  BY <1>1, <1>2, ThrowKeeps DEF StackInv

\* Nothing but move_object and destruct changes where objects are.
LEMMA PlacesStay == ASSUME PlaceInv, UNCHANGED places PROVE PlaceInv'
BY DEF places, PlaceInv, PlacesOK, InventoriesAgree, ListOf

LEMMA NextHolds == IInv /\ [Next]_vars => IInv'
<1> SUFFICES ASSUME IInv, [Next]_vars PROVE IInv'
  OBVIOUS
<1> USE EnvironmentsAssumption
<1>0. PlaceInv /\ PlacesOK /\ StackInv
  BY DEF IInv, PlaceInv
<1>1. ASSUME NEW o \in Objects, Call(o) PROVE IInv'
  <2>1. stack' = Append(stack, LpcFrame(o)) /\ UNCHANGED places
    BY <1>1 DEF Call, LpcFrame
  <2> QED
    BY <1>0, <2>1, PushKeeps, PlacesStay DEF IInv, StackInv, places
<1>2. ASSUME NEW o \in Objects, CallOther(o) PROVE IInv'
  <2>1. stack' = Append(stack, LpcFrame(o)) /\ UNCHANGED places
    BY <1>2 DEF CallOther, LpcFrame
  <2> QED
    BY <1>0, <2>1, PushKeeps, PlacesStay DEF IInv, StackInv, places
<1>3. ASSUME NEW o \in Objects, Destruct(o) PROVE IInv'
  <2>1. PlaceInv'
    BY <1>0, <1>3, DestructKeeps DEF Destruct
  <2>2. StackInv'
    BY <1>0, <1>3 DEF Destruct, StackInv
  <2> QED
    BY <2>1, <2>2 DEF IInv
<1>4. ASSUME NEW d \in Objects, Move(d) PROVE IInv'
  <2>1. Top.obj \in Objects
    BY <1>0, <1>4, TopOfStack, FrameKinds DEF Move, Running
  <2>2. PlaceInv'
    BY <1>0, <1>4, <2>1, MoveKeeps DEF Move
  <2>3. PlacesOK'
    BY <2>2 DEF PlaceInv
  <2> QED
    BY <1>0, <1>4, <2>2, <2>3, MoveStackKeeps DEF IInv
<1>5. CASE Return
  <2>1. Len(stack) - 1 \in 0 .. Len(stack) /\ stack' = SubSeq(stack, 1, Len(stack) - 1)
    BY <1>0, <1>5, FrontIsPrefix DEF Return, Running, StackInv, StackOK
  <2>2. UNCHANGED places
    BY <1>5 DEF Return
  <2> QED
    BY <1>0, <2>1, <2>2, ThrowKeeps, PlacesStay DEF IInv, StackInv, places
<1>6. CASE Fail \/ IteratorFails \/ CallFails
  <2>1. Throw /\ UNCHANGED places
    BY <1>6 DEF Fail, IteratorFails, CallFails
  <2> QED
    BY <1>0, <2>1, ThrowStep, PlacesStay DEF IInv, places
<1>7. ASSUME Running("move") PROVE /\ Top \in Walks /\ Top.list \in Lists /\ Top.obj \in Objects
                                   /\ Top.list[1] \in Objects
                                   /\ Top.cursor \in Nat
                                   /\ Len(contents[Top.list]) \in Nat
                                   /\ WalkAt(Top, contents[Top.list])
  <2>1. /\ Top \in Walks /\ Top.list \in Lists /\ Top.cursor \in Nat
        /\ Len(contents[Top.list]) \in Nat
        /\ WalkAt(Top, contents[Top.list])
    BY <1>0, <1>7, TopOfStack DEF Running
  <2>2. Top.list[1] \in Objects
    BY <2>1 DEF Lists
  <2> QED
    BY <2>1, <2>2 DEF Walks
<1>8. CASE InitHere
  <2> DEFINE f == [Top EXCEPT !.part = "others"]
  <2>1. Running("move") /\ CallInit(f, Top.list[1])
    BY <1>8 DEF InitHere
  <2>2. /\ f \in Walks /\ f.obj = Top.obj /\ f.list = Top.list /\ f.cursor = Top.cursor
        /\ f.stale = Top.stale /\ f.met = Top.met
    BY <1>7, <2>1 DEF Walks
  <2> HIDE DEF f
  <2>3. WalkAt(f, contents[f.list])
    BY <1>7, <2>1, <2>2 DEF WalkAt
  <2>4. StackInv'
    BY <1>0, <1>7, <2>1, <2>2, <2>3, CallInitKeeps
  <2> QED
    BY <1>0, <2>1, <2>4, PlacesStay DEF IInv, CallInit
<1>9. CASE InitOther \/ InitByLiving
  <2>1. Running("move") /\ HasNext /\ (CallInit(Advanced, Element) \/ CallInit(Advanced, Top.obj))
    BY <1>9 DEF InitOther, InitByLiving, InLoop
  <2>2. StackInv'
    BY <1>0, <1>7, <2>1, AdvancedWalk, CallInitKeeps
  <2> QED
    BY <1>0, <2>1, <2>2, PlacesStay DEF IInv, CallInit
<1>10. CASE SkipLifeless
  <2>1. Running("move") /\ HasNext /\ stack' = Append(Front(stack), Advanced) /\ UNCHANGED places
    BY <1>10 DEF SkipLifeless, InLoop
  <2>2. StackOK(Append(Front(stack), Advanced), contents)
    BY <1>0, <2>1, AdvancedWalk, WalkKeeps
  <2> QED
    BY <1>0, <2>1, <2>2, PlacesStay DEF IInv, StackInv, places
<1>11. CASE OthersEnd
  <2> DEFINE f == [Top EXCEPT !.part = "living", !.cursor = 0, !.met = {}]
  <2>1. Running("move") /\ stack' = Append(Front(stack), f) /\ UNCHANGED places
    BY <1>11 DEF OthersEnd, InLoop
  <2>2. f \in Walks /\ f.obj = Top.obj /\ f.list = Top.list /\ f.cursor = 0 /\ f.met = {}
    BY <1>7, <2>1 DEF Walks
  <2> HIDE DEF f
  <2>3. WalkAt(f, contents[f.list])
    BY <1>7, <2>1, <2>2 DEF WalkAt
  <2>4. StackOK(Append(Front(stack), f), contents)
    BY <1>0, <2>1, <2>2, <2>3, WalkKeeps
  <2> QED
    BY <1>0, <2>1, <2>4, PlacesStay DEF IInv, StackInv, places
<1>12. CASE MoveEnds
  <2>1. Len(stack) - 1 \in 0 .. Len(stack) /\ stack' = SubSeq(stack, 1, Len(stack) - 1)
    BY <1>0, <1>12, FrontIsPrefix DEF MoveEnds, InLoop, Running, StackInv, StackOK
  <2>2. UNCHANGED places
    BY <1>12 DEF MoveEnds
  <2> QED
    BY <1>0, <2>1, <2>2, ThrowKeeps, PlacesStay DEF IInv, StackInv, places
<1>13. CASE UNCHANGED vars
  BY <1>0, <1>13, PlacesStay DEF IInv, StackInv, vars, places
<1> QED
  BY <1>1, <1>2, <1>3, <1>4, <1>5, <1>6, <1>8, <1>9, <1>10, <1>11, <1>12, <1>13 DEF Next

\* What the three theorems below follow from.
THEOREM Inductive == Spec => []IInv
BY InitHolds, NextHolds, PTL DEF Spec

\* TypeOK, cursors and the frames under walks included.
THEOREM TypeCorrect == Spec => []TypeOK
<1>1. IInv => TypeOK
  <2> SUFFICES ASSUME IInv PROVE TypeOK
    OBVIOUS
  <2>1. ASSUME NEW k \in DOMAIN stack, stack[k].op = "move" PROVE WalkOK(k)
    <3>1. k \in 1 .. Len(stack)
      BY <2>1 DEF IInv, StackInv, StackOK
    <3> QED
      BY <2>1, <3>1 DEF IInv, StackInv, StackOK, WalkOK, WalkAt, LpcFrame
  <2> QED
    BY <2>1 DEF IInv, PlaceInv, PlacesOK, StackInv, StackOK, TypeOK
<1> QED
  BY <1>1, Inductive, PTL

\* Environment and inventory agree on every object that exists.
THEOREM AlwaysAgree == Spec => []InventoriesAgree
<1>1. IInv => InventoriesAgree
  BY DEF IInv, PlaceInv
<1> QED
  BY <1>1, Inductive, PTL

\* However init() moves objects about, a walk comes to an object once.
THEOREM NeverTwice == Spec => MeetsOnce
<1>1. IInv => [InitOther \/ InitByLiving \/ SkipLifeless
                 => Element \notin Top.met \/ Element \in destructed]_vars
  <2> SUFFICES ASSUME IInv, InitOther \/ InitByLiving \/ SkipLifeless, Element \notin destructed
               PROVE  Element \notin Top.met
    OBVIOUS
  <2> DEFINE c == contents[Top.list]
  <2>1. Running("move") /\ HasNext /\ PlacesOK /\ StackInv
    BY DEF InitOther, InitByLiving, SkipLifeless, InLoop, IInv, PlaceInv
  <2>2. /\ Top \in Walks /\ Top.list \in Lists /\ Top.cursor \in Nat
        /\ c \in Seq(Objects) /\ Len(c) \in Nat
        /\ WalkAt(Top, c)
    BY <2>1, TopOfStack DEF Running
  <2>3. Element \in Objects /\ OccursOnce(Element, c)
    BY <2>1, <2>2, AdvancedWalk DEF IInv, PlaceInv
  <2>4. Element = c[Top.cursor + 1] /\ Top.cursor < Len(c) /\ (Top.cursor = 0 \/ ~Top.stale)
    BY <2>1, <2>2 DEF Element, HasNext, Modified
  <2> HIDE DEF c, Element
  <2>5. CASE Top.cursor = 0
    BY <2>2, <2>5 DEF WalkAt
  <2>6. CASE Top.cursor # 0
    <3>1. Top.met = {c[i] : i \in 1 .. Top.cursor}
      BY <2>2, <2>4, <2>6 DEF WalkAt
    <3>2. DOMAIN c = 1 .. Len(c)
      BY <2>2
    <3>3. \A i \in 1 .. Top.cursor : i \in DOMAIN c /\ Top.cursor + 1 \in DOMAIN c /\ i # Top.cursor + 1
      BY <2>2, <2>4, <3>2
    <3> QED
      BY <2>3, <2>4, <3>1, <3>3 DEF OccursOnce
  <2> QED
    BY <2>5, <2>6
<1> QED
  BY <1>1, Inductive, PTL DEF MeetsOnce
=============================================================================
