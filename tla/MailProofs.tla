----------------------------- MODULE MailProofs -----------------------------
(***************************************************************************)
(* Proofs about Mail and PostOffice, for any users, folders, mailers and   *)
(* numbers of letters.                                                     *)
(***************************************************************************)
EXTENDS Mail, FiniteSetTheorems, SequenceTheorems, WellFoundedInduction, TLAPS

-----------------------------------------------------------------------------
(* Induction over the turns of a loop.  What a turn keeps is a set: sets,  *)
(* unlike operators, can be instantiated by the provers.                   *)

LEMMA LessIsWellFounded == IsWellFoundedOn({ss \in Nat \X Nat : ss[1] < ss[2]}, Nat)
BY NatLessThanWellFounded DEF OpToRel

LEMMA SmallestIn ==
  ASSUME NEW S \in SUBSET Nat, S # {}
  PROVE  \E n \in S : \A k \in S : n <= k
<1> DEFINE R == {ss \in Nat \X Nat : ss[1] < ss[2]}
<1>1. IsWellFoundedOn(R, Nat)
  BY LessIsWellFounded
<1> HIDE DEF R
<1>2. PICK x \in S : \A y \in S : ~ (<<y, x>> \in R)
  BY <1>1, WFMin
<1>3. ASSUME NEW k \in S PROVE x <= k
  <2>1. ~ (<<k, x>> \in R) /\ k \in Nat /\ x \in Nat
    BY <1>2
  <2> QED
    BY <2>1 DEF R
<1> QED
  BY <1>3

LEMMA MinIs ==
  ASSUME NEW S \in SUBSET Nat, S # {}
  PROVE  Min(S) \in S /\ \A k \in S : Min(S) <= k
BY SmallestIn DEF Min

LEMMA MaxIs ==
  ASSUME NEW n \in Nat, NEW S \in SUBSET (1 .. n), S # {}
  PROVE  Max(S) \in S
<1> DEFINE T == {n - k : k \in S}
<1>1. ASSUME NEW k \in S PROVE n - k \in Nat
  <2>1. k \in 1 .. n
    OBVIOUS
  <2> QED
    BY <2>1
<1>2. T \in SUBSET Nat /\ T # {}
  BY <1>1
<1> HIDE DEF T
<1>3. PICK x \in T : \A k \in T : x <= k
  BY <1>2, SmallestIn
<1>4. PICK y \in S : x = n - y
  BY <1>3 DEF T
<1>5. ASSUME NEW k \in S PROVE y >= k
  <2>1. n - k \in T /\ k \in 1 .. n /\ y \in 1 .. n
    BY DEF T
  <2> QED
    BY <1>3, <1>4, <2>1
<1> QED
  BY <1>5 DEF Max

LEMMA Induction ==
  ASSUME NEW N \in Nat, NEW S, 0 \in S, \A n \in 0 .. N - 1 : n \in S => n + 1 \in S
  PROVE  \A n \in 0 .. N : n \in S
<1> DEFINE Out == {n \in 0 .. N : n \notin S}
<1>1. SUFFICES ASSUME Out # {} PROVE FALSE
  OBVIOUS
<1>2. Out \in SUBSET Nat
  OBVIOUS
<1> HIDE DEF Out
<1>3. PICK n \in Out : \A k \in Out : n <= k
  BY <1>1, <1>2, SmallestIn
<1> USE DEF Out
<1>4. n # 0 /\ n - 1 \in 0 .. N - 1 /\ n - 1 \notin Out
  BY <1>3
<1> QED
  BY <1>3, <1>4

\* f[n] is what n turns of a loop make of `a', where Step[n] is turn n.
Turns(f, N, S, a, Step) ==
  f \in [0 .. N -> S] /\ f[0] = a /\ \A n \in 1 .. N : f[n] = Step[n][f[n - 1]]

\* There is such a function for any loop.
LEMMA Recursion ==
  ASSUME NEW N \in Nat, NEW S, NEW a \in S, NEW Step \in [1 .. N -> [S -> S]]
  PROVE  \E f : Turns(f, N, S, a, Step)
<1> DEFINE T == {k \in 0 .. N : \E f : Turns(f, k, S, a, Step)}
<1>1. 0 \in T
  <2> DEFINE g == [n \in 0 .. 0 |-> a]
  <2>1. g \in [0 .. 0 -> S] /\ g[0] = a
    OBVIOUS
  <2> HIDE DEF g
  <2>2. Turns(g, 0, S, a, Step)
    BY <2>1 DEF Turns
  <2> QED
    BY <2>2
<1>2. ASSUME NEW k \in 0 .. N - 1, k \in T PROVE k + 1 \in T
  <2>1. PICK f : Turns(f, k, S, a, Step)
    BY <1>2
  <2>2. f \in [0 .. k -> S] /\ f[0] = a /\ \A n \in 1 .. k : f[n] = Step[n][f[n - 1]]
    BY <2>1 DEF Turns
  <2> DEFINE g == [n \in 0 .. k + 1 |-> IF n \in 0 .. k THEN f[n] ELSE Step[k + 1][f[k]]]
  <2>3. k + 1 \in 1 .. N /\ k \in 0 .. k /\ Step[k + 1][f[k]] \in S
    BY <2>2
  <2>4. g \in [0 .. k + 1 -> S] /\ g[0] = a
    BY <2>2, <2>3
  <2>5. ASSUME NEW n \in 1 .. k PROVE g[n] = Step[n][g[n - 1]]
    <3>1. g[n] = f[n] /\ g[n - 1] = f[n - 1]
      OBVIOUS
    <3> QED
      BY <2>2, <3>1
  <2>6. g[k + 1] = Step[k + 1][g[k]] /\ (k + 1) - 1 = k
    OBVIOUS
  <2> HIDE DEF g
  <2>7. ASSUME NEW n \in 1 .. k + 1 PROVE g[n] = Step[n][g[n - 1]]
    <3>1. CASE n \in 1 .. k
      BY <2>5, <3>1
    <3>2. CASE n = k + 1
      BY <2>6, <3>2
    <3> QED
      BY <3>1, <3>2
  <2>8. Turns(g, k + 1, S, a, Step)
    BY <2>4, <2>7 DEF Turns
  <2> QED
    BY <2>3, <2>8
<1> HIDE DEF T
<1>3. \A k \in 0 .. N : k \in T
  BY <1>1, <1>2, Induction
<1>4. N \in T
  BY <1>3
<1> QED
  BY <1>4 DEF T

\* A set that has at least as many elements as another.
LEMMA Injected ==
  ASSUME NEW S, NEW T, IsFiniteSet(T), NEW f \in [S -> T], \A x, y \in S : f[x] = f[y] => x = y
  PROVE  IsFiniteSet(S) /\ Cardinality(S) <= Cardinality(T)
<1>1. f \in Injection(S, T)
  BY DEF Injection, IsInjective
<1> QED
  BY <1>1, FS_Injection

LEMMA TwoIn ==
  ASSUME NEW S, IsFiniteSet(S), NEW x \in S, NEW y \in S, x # y
  PROVE  Cardinality(S) > 1
<1>1. IsFiniteSet({x}) /\ Cardinality({x}) = 1
  BY FS_Singleton
<1>2. IsFiniteSet({x} \cup {y}) /\ Cardinality({x} \cup {y}) = Cardinality({x}) + 1
  BY <1>1, FS_AddElement, y \notin {x}
<1>3. ({x} \cup {y}) \in SUBSET S
  OBVIOUS
<1>4. Cardinality({x} \cup {y}) <= Cardinality(S) /\ Cardinality(S) \in Nat
  BY <1>3, FS_Subset, FS_CardinalityType
<1> QED
  BY <1>1, <1>2, <1>4

-----------------------------------------------------------------------------
(* What is true of the mail between any two lines.                         *)

\* CacheIsSaved of any mail, with a folder that has no name empty.
Agrees(p) ==
  LET c == p.cache
      saved == p.file[<<c.who, c.folder>>] IN
  IF c.who # None /\ c.folder # None
  THEN /\ Ids(c.box) = Ids(saved)
       /\ \A i \in DOMAIN saved : saved[i].read => c.box[i].read
  ELSE c.box = <<>>

\* RecordsAreListed of any mail.
Recorded(p) == \A l \in Letters : \A b \in p.refs[l] : l \in p.kept /\ l \in Listed(p, b)

GoodPosts == {p \in Posts : Agrees(p) /\ Recorded(p)}

\* Nothing is taken from a folder or from a record.
Grows(p, q) ==
  /\ \A b \in Boxes :
       /\ Len(p.file[b]) <= Len(q.file[b])
       /\ Len(p.file[b]) = Len(q.file[b]) => Ids(p.file[b]) = Ids(q.file[b])
       /\ \A l \in Letters : Cardinality(Copies(p, b, l)) <= Cardinality(Copies(q, b, l))
  /\ \A l \in Letters : p.refs[l] \subseteq q.refs[l]

\* The letters and records are the same.
Same(p, q) ==
  /\ \A b \in Boxes : Ids(p.file[b]) = Ids(q.file[b])
  /\ p.refs = q.refs

LEMMA IdsAre ==
  ASSUME NEW s, NEW t, Ids(s) = Ids(t)
  PROVE  DOMAIN s = DOMAIN t /\ \A i \in DOMAIN s : s[i].id = t[i].id
<1>1. DOMAIN Ids(s) = DOMAIN s /\ DOMAIN Ids(t) = DOMAIN t
  BY DEF Ids
<1>2. DOMAIN s = DOMAIN t
  BY <1>1
<1>3. ASSUME NEW i \in DOMAIN s PROVE s[i].id = t[i].id
  <2>1. Ids(s)[i] = s[i].id /\ Ids(t)[i] = t[i].id
    BY <1>2, <1>3 DEF Ids
  <2> QED
    BY <2>1
<1> QED
  BY <1>2, <1>3

LEMMA IdsFrom ==
  ASSUME NEW s, NEW t, DOMAIN s = DOMAIN t, \A i \in DOMAIN s : s[i].id = t[i].id
  PROVE  Ids(s) = Ids(t)
BY DEF Ids

LEMMA PostsAre ==
  ASSUME NEW p \in Posts
  PROVE  /\ \A b \in Boxes : p.file[b] \in Seq(Entries)
         /\ p.cache.who \in Users \cup {None} /\ p.cache.folder \in Folders \cup {None}
         /\ p.cache.box \in Seq(Entries)
         /\ \A l \in Letters : p.refs[l] \subseteq Boxes
         /\ p.kept \subseteq Letters /\ p.held \in Letters \cup {None}
BY DEF Posts

LEMMA CopiesFinite ==
  ASSUME NEW p \in Posts, NEW b \in Boxes, NEW l
  PROVE  IsFiniteSet(Copies(p, b, l)) /\ Cardinality(Copies(p, b, l)) \in Nat
<1>1. p.file[b] \in Seq(Entries)
  BY PostsAre
<1>2. DOMAIN p.file[b] = 1 .. Len(p.file[b]) /\ Len(p.file[b]) \in Nat
  BY <1>1
<1>3. IsFiniteSet(1 .. Len(p.file[b]))
  <2>1. \A n \in Nat : IsFiniteSet(1 .. n)
    BY FS_Interval
  <2> QED
    BY <1>2, <2>1
<1>4. Copies(p, b, l) \in SUBSET (1 .. Len(p.file[b]))
  BY <1>2 DEF Copies
<1> QED
  BY <1>3, <1>4, FS_Subset, FS_CardinalityType

LEMMA SameGrows ==
  ASSUME NEW p \in Posts, NEW q \in Posts, Same(p, q)
  PROVE  /\ Grows(p, q)
         /\ \A b \in Boxes : Listed(p, b) = Listed(q, b)
         /\ \A b \in Boxes, l \in Letters : Copies(p, b, l) = Copies(q, b, l)
<1>1. ASSUME NEW b \in Boxes
      PROVE  /\ Ids(p.file[b]) = Ids(q.file[b]) /\ Len(p.file[b]) = Len(q.file[b])
             /\ Len(p.file[b]) \in Nat
             /\ Listed(p, b) = Listed(q, b)
             /\ \A l \in Letters : Copies(p, b, l) = Copies(q, b, l)
  <2>1. Ids(p.file[b]) = Ids(q.file[b])
    BY DEF Same
  <2>2. /\ DOMAIN p.file[b] = DOMAIN q.file[b]
        /\ \A i \in DOMAIN p.file[b] : p.file[b][i].id = q.file[b][i].id
    BY <2>1, IdsAre
  <2>3. p.file[b] \in Seq(Entries) /\ q.file[b] \in Seq(Entries)
    BY PostsAre
  <2>4. Len(p.file[b]) = Len(q.file[b]) /\ Len(p.file[b]) \in Nat
    BY <2>2, <2>3
  <2> QED
    BY <2>1, <2>2, <2>4 DEF Listed, Copies
<1>2. \A b \in Boxes, l \in Letters : Cardinality(Copies(p, b, l)) <= Cardinality(Copies(q, b, l))
  BY <1>1, CopiesFinite
<1>3. \A l \in Letters : p.refs[l] \subseteq q.refs[l]
  BY DEF Same
<1> QED
  BY <1>1, <1>2, <1>3 DEF Grows

LEMMA GrowsIsTransitive ==
  ASSUME NEW p \in Posts, NEW q \in Posts, NEW r \in Posts, Grows(p, q), Grows(q, r)
  PROVE  Grows(p, r)
<1>1. ASSUME NEW b \in Boxes
      PROVE  /\ Len(p.file[b]) <= Len(r.file[b])
             /\ Len(p.file[b]) = Len(r.file[b]) => Ids(p.file[b]) = Ids(r.file[b])
  <2>1. /\ Len(p.file[b]) <= Len(q.file[b]) /\ Len(q.file[b]) <= Len(r.file[b])
        /\ Len(p.file[b]) = Len(q.file[b]) => Ids(p.file[b]) = Ids(q.file[b])
        /\ Len(q.file[b]) = Len(r.file[b]) => Ids(q.file[b]) = Ids(r.file[b])
    BY DEF Grows
  <2>2. Len(p.file[b]) \in Nat /\ Len(q.file[b]) \in Nat /\ Len(r.file[b]) \in Nat
    BY PostsAre
  <2> QED
    BY <2>1, <2>2
<1>2. ASSUME NEW b \in Boxes, NEW l \in Letters
      PROVE  Cardinality(Copies(p, b, l)) <= Cardinality(Copies(r, b, l))
  <2>1. /\ Cardinality(Copies(p, b, l)) <= Cardinality(Copies(q, b, l))
        /\ Cardinality(Copies(q, b, l)) <= Cardinality(Copies(r, b, l))
    BY DEF Grows
  <2>2. /\ Cardinality(Copies(p, b, l)) \in Nat /\ Cardinality(Copies(q, b, l)) \in Nat
        /\ Cardinality(Copies(r, b, l)) \in Nat
    BY CopiesFinite
  <2> QED
    BY <2>1, <2>2
<1>3. \A l \in Letters : p.refs[l] \subseteq r.refs[l]
  BY DEF Grows
<1> QED
  BY <1>1, <1>2, <1>3 DEF Grows

-----------------------------------------------------------------------------
(* load_folder and mark_read.                                              *)

LEMMA LoadKeeps ==
  ASSUME NEW p \in GoodPosts, NEW who \in Users, NEW folder \in Folders \cup {None}
  PROVE  LET q == Load(p, who, folder) IN
         /\ q \in GoodPosts /\ Same(p, q)
         /\ q.file = p.file /\ q.refs = p.refs /\ q.kept = p.kept /\ q.held = p.held
         /\ q.cache.who = who /\ q.cache.folder = folder
         /\ folder # None => Ids(q.cache.box) = Ids(p.file[<<who, folder>>])
         /\ folder = None => q.cache.box = <<>>
<1> DEFINE q == Load(p, who, folder)
<1>0. p \in Posts /\ Agrees(p) /\ Recorded(p) /\ who # None
  BY PostOfficeAssumption DEF GoodPosts
<1>1. CASE p.cache.who = who /\ p.cache.folder = folder
  <2>1. q = p
    BY <1>1 DEF Load
  <2>2. /\ folder # None => Ids(p.cache.box) = Ids(p.file[<<who, folder>>])
        /\ folder = None => p.cache.box = <<>>
    BY <1>0, <1>1 DEF Agrees
  <2> QED
    BY <1>1, <2>1, <2>2 DEF Same
<1>2. CASE ~(p.cache.who = who /\ p.cache.folder = folder)
  <2> DEFINE new == IF folder = None THEN <<>> ELSE p.file[<<who, folder>>]
             c == [who |-> who, folder |-> folder, box |-> new]
  <2>1. q = [p EXCEPT !.cache = c]
    BY <1>2 DEF Load
  <2>2. folder # None => <<who, folder>> \in Boxes
    BY DEF Boxes
  <2>3. new \in Seq(Entries)
    BY <1>0, <2>2, PostsAre
  <2>4. c \in [who : Users \cup {None}, folder : Folders \cup {None}, box : Seq(Entries)]
    BY <2>3
  <2>5. /\ q \in Posts /\ q.cache = c
        /\ q.file = p.file /\ q.refs = p.refs /\ q.kept = p.kept /\ q.held = p.held
    <3> HIDE DEF c
    <3> QED
      BY <1>0, <2>1, <2>4 DEF Posts
  <2>6. Agrees(q)
    BY <1>0, <2>5 DEF Agrees
  <2>7. Recorded(q)
    BY <1>0, <2>5 DEF Recorded, Listed
  <2>8. q \in GoodPosts /\ Same(p, q)
    BY <2>5, <2>6, <2>7 DEF GoodPosts, Same
  <2>9. /\ q.cache.who = who /\ q.cache.folder = folder
        /\ folder # None => q.cache.box = p.file[<<who, folder>>]
        /\ folder = None => q.cache.box = <<>>
    BY <2>5
  <2> HIDE DEF c
  <2> QED
    BY <2>5, <2>8, <2>9
<1> QED
  BY <1>1, <1>2

\* The folder in memory has another box.
LEMMA WithBox ==
  ASSUME NEW p \in Posts, NEW new \in Seq(Entries)
  PROVE  LET q == [p EXCEPT !.cache.box = new] IN
         /\ q \in Posts /\ q.file = p.file /\ q.refs = p.refs /\ q.kept = p.kept /\ q.held = p.held
         /\ q.cache.who = p.cache.who /\ q.cache.folder = p.cache.folder /\ q.cache.box = new
<1> DEFINE n == [who |-> p.cache.who, folder |-> p.cache.folder, box |-> new]
<1>1. n \in [who : Users \cup {None}, folder : Folders \cup {None}, box : Seq(Entries)]
  BY PostsAre
<1>2. [p EXCEPT !.cache.box = new] = [p EXCEPT !.cache = n]
  BY DEF Posts
<1>3. n.who = p.cache.who /\ n.folder = p.cache.folder /\ n.box = new
  OBVIOUS
<1> HIDE DEF n
<1> QED
  BY <1>1, <1>2, <1>3 DEF Posts

\* save_folder of a folder with a name.
LEMMA SaveIs ==
  ASSUME NEW q \in Posts, NEW b \in Boxes, <<q.cache.who, q.cache.folder>> = b
  PROVE  LET r == Save(q) IN
         /\ r \in Posts /\ r.refs = q.refs /\ r.kept = q.kept /\ r.held = q.held
         /\ r.cache = q.cache /\ r.file[b] = q.cache.box
         /\ \A c \in Boxes : c # b => r.file[c] = q.file[c]
         /\ Agrees(r)
<1> DEFINE r == Save(q)
           f == [q.file EXCEPT ![b] = q.cache.box]
<1>1. q.cache.who \in Users /\ q.cache.folder \in Folders
  BY DEF Boxes
<1>2. q.cache.who # None /\ q.cache.folder # None
  BY <1>1, PostOfficeAssumption DEF Folders
<1>3. f \in [Boxes -> Seq(Entries)] /\ f[b] = q.cache.box /\ \A c \in Boxes : c # b => f[c] = q.file[c]
  BY PostsAre DEF Posts
<1>4. r = [q EXCEPT !.file = f]
  BY <1>2 DEF Save
<1> HIDE DEF r, f
<1>5. /\ r \in Posts /\ r.refs = q.refs /\ r.kept = q.kept /\ r.held = q.held
      /\ r.cache = q.cache /\ r.file = f
  BY <1>3, <1>4 DEF Posts
<1>6. Agrees(r)
  BY <1>2, <1>3, <1>5 DEF Agrees
<1> QED
  BY <1>3, <1>5, <1>6 DEF r

\* Letters of the folder in memory are marked as read, and it is saved or not.
LEMMA ReadMore ==
  ASSUME NEW p \in GoodPosts, NEW new \in Seq(Entries), Ids(new) = Ids(p.cache.box),
         \A i \in DOMAIN new : p.cache.box[i].read => new[i].read
  PROVE  LET q == [p EXCEPT !.cache.box = new] IN
         /\ q \in GoodPosts /\ Same(p, q)
         /\ Save(q) \in GoodPosts /\ Same(p, Save(q))
<1> DEFINE q == [p EXCEPT !.cache.box = new]
           b == <<p.cache.who, p.cache.folder>>
<1>0. p \in Posts /\ Agrees(p) /\ Recorded(p)
  BY DEF GoodPosts
<1>1. /\ q \in Posts /\ q.file = p.file /\ q.refs = p.refs /\ q.kept = p.kept
      /\ q.cache.who = p.cache.who /\ q.cache.folder = p.cache.folder /\ q.cache.box = new
  BY <1>0, WithBox
<1> HIDE DEF q
<1>2. /\ DOMAIN new = DOMAIN p.cache.box
      /\ \A i \in DOMAIN new : new[i].id = p.cache.box[i].id
  BY IdsAre
<1>3. CASE ~(p.cache.who # None /\ p.cache.folder # None)
  <2>1. p.cache.box = <<>>
    BY <1>0, <1>3 DEF Agrees
  <2>2. new = <<>>
    <3>1. DOMAIN new = {} /\ DOMAIN new = 1 .. Len(new) /\ Len(new) \in Nat
      BY <2>1, <1>2
    <3> QED
      BY <3>1
  <2>3. Agrees(q)
    BY <1>1, <1>3, <2>2 DEF Agrees
  <2>4. q \in GoodPosts /\ Same(p, q)
    BY <1>0, <1>1, <2>3 DEF GoodPosts, Recorded, Listed, Same
  <2>5. Save(q) = q
    BY <1>1, <1>3 DEF Save
  <2> QED
    BY <2>4, <2>5 DEF q
<1>4. CASE p.cache.who # None /\ p.cache.folder # None
  <2>1. /\ Ids(p.cache.box) = Ids(p.file[b])
        /\ \A i \in DOMAIN p.file[b] : p.file[b][i].read => p.cache.box[i].read
    BY <1>0, <1>4 DEF Agrees
  <2>2. DOMAIN p.file[b] = DOMAIN new
    BY <2>1, <1>2, IdsAre
  <2>3. Agrees(q)
    BY <1>1, <1>4, <2>1, <2>2 DEF Agrees
  <2>4. q \in GoodPosts /\ Same(p, q)
    BY <1>0, <1>1, <2>3 DEF GoodPosts, Recorded, Listed, Same
  <2>5. b \in Boxes /\ <<q.cache.who, q.cache.folder>> = b
    BY <1>0, <1>1, <1>4, PostsAre DEF Boxes
  <2> DEFINE r == Save(q)
  <2>6. /\ r \in Posts /\ r.refs = p.refs /\ r.kept = p.kept
        /\ r.file[b] = new /\ \A c \in Boxes : c # b => r.file[c] = p.file[c]
        /\ Agrees(r)
    <3> HIDE DEF b
    <3> QED
      BY <1>1, <2>5, SaveIs
  <2> HIDE DEF r, b
  <2>7. Same(p, r)
    BY <2>1, <2>6 DEF Same
  <2>8. Recorded(r)
    BY <1>0, <2>6, <2>7, SameGrows, PostsAre DEF Recorded
  <2> QED
    BY <2>4, <2>6, <2>7, <2>8 DEF GoodPosts, r, q
<1> QED
  BY <1>3, <1>4

LEMMA EntryRead ==
  ASSUME NEW e \in Entries, NEW i, NEW S
  PROVE  /\ [e EXCEPT !.read = @ \/ i \in S] \in Entries
         /\ [e EXCEPT !.read = @ \/ i \in S].id = e.id
         /\ e.read => [e EXCEPT !.read = @ \/ i \in S].read
<1> DEFINE d == e.read \/ i \in S
<1>1. d \in BOOLEAN /\ (e.read => d)
  OBVIOUS
<1> HIDE DEF d
<1>2. /\ [e EXCEPT !.read = d] \in Entries
      /\ [e EXCEPT !.read = d].id = e.id /\ [e EXCEPT !.read = d].read = d
  BY <1>1 DEF Entries
<1> QED
  BY <1>1, <1>2 DEF d

LEMMA AsReadIs ==
  ASSUME NEW s \in Seq(Entries), NEW S
  PROVE  /\ AsRead(s, S) \in Seq(Entries) /\ Ids(AsRead(s, S)) = Ids(s)
         /\ \A i \in DOMAIN AsRead(s, S) : s[i].read => AsRead(s, S)[i].read
<1> DEFINE t == AsRead(s, S)
<1>1. ASSUME NEW i \in DOMAIN s
      PROVE  t[i] \in Entries /\ t[i].id = s[i].id /\ (s[i].read => t[i].read)
  <2>1. t[i] = [s[i] EXCEPT !.read = @ \/ i \in S]
    BY DEF AsRead
  <2>2. s[i] \in Entries /\ (i \in S) \in BOOLEAN
    OBVIOUS
  <2> HIDE DEF t
  <2> QED
    BY <2>1, <2>2, EntryRead
<1>2. DOMAIN t = DOMAIN s /\ DOMAIN s = 1 .. Len(s) /\ Len(s) \in Nat
  BY DEF AsRead
<1>3. t \in Seq(Entries)
  <2>1. t = [i \in 1 .. Len(s) |-> t[i]]
    BY <1>2 DEF AsRead
  <2> HIDE DEF t
  <2> QED
    BY <1>1, <1>2, <2>1
<1> HIDE DEF t
<1> QED
  BY <1>1, <1>2, <1>3, IdsFrom DEF t

LEMMA MarkReadKeeps ==
  ASSUME NEW p \in GoodPosts, NEW who \in Users, NEW folder \in Folders \cup {None}, NEW x,
         NEW r \in MarkRead(p, who, folder, x)
  PROVE  r \in GoodPosts /\ Same(p, r)
<1> DEFINE q == Load(p, who, folder)
           twins == {i \in DOMAIN q.cache.box : q.cache.box[i].id = q.cache.box[x].id}
<1>1. q \in GoodPosts /\ Same(p, q)
  BY LoadKeeps
<1>2. q.cache.box \in Seq(Entries)
  BY <1>1, PostsAre DEF GoodPosts
<1>3. r = q \/ \E S \in {{x}, twins} : r = Save([q EXCEPT !.cache.box = AsRead(q.cache.box, S)])
  BY DEF MarkRead
<1> HIDE DEF q
<1>4. ASSUME NEW S, r = Save([q EXCEPT !.cache.box = AsRead(q.cache.box, S)])
      PROVE  r \in GoodPosts /\ Same(q, r)
  BY <1>1, <1>2, <1>4, AsReadIs, ReadMore
<1>5. r \in GoodPosts /\ Same(q, r)
  BY <1>1, <1>3, <1>4 DEF Same
<1> QED
  BY <1>1, <1>5 DEF Same

-----------------------------------------------------------------------------
(* add_post and send_post.                                                 *)

\* The element goes in at one place, and what comes after it moves by one.
LEMMA InsertIs ==
  ASSUME NEW s \in Seq(Entries), NEW e \in Entries
  PROVE  LET t == Insert(s, e) IN
         /\ t \in Seq(Entries) /\ Len(t) = Len(s) + 1
         /\ \E k \in 1 .. Len(s) + 1 :
              t[k] = e /\ \A i \in 1 .. Len(s) : t[IF i < k THEN i ELSE i + 1] = s[i]
<1> DEFINE newer == {i \in DOMAIN s : s[i].id >= e.id}
           c == Cardinality(newer)
<1>1. c \in Nat /\ c <= Len(s)
  <2>1. IsFiniteSet(1 .. Len(s)) /\ Cardinality(1 .. Len(s)) = Len(s)
    <3>1. \A n \in Nat : IsFiniteSet(1 .. n) /\ Cardinality(1 .. n) = n
      BY FS_Interval
    <3> QED
      BY <3>1
  <2>2. newer \in SUBSET (1 .. Len(s))
    OBVIOUS
  <2> HIDE DEF newer
  <2>3. IsFiniteSet(newer) /\ Cardinality(newer) <= Cardinality(1 .. Len(s))
    BY <2>1, <2>2, FS_Subset
  <2> QED
    BY <2>1, <2>3, FS_CardinalityType
<1>2. Insert(s, e) = SubSeq(s, 1, c) \o <<e>> \o SubSeq(s, c + 1, Len(s))
  <2>1. Insert(s, e) = InsertAt(s, c + 1, e)
    BY DEF Insert
  <2>2. (c + 1) - 1 = c
    BY <1>1
  <2> HIDE DEF c
  <2> QED
    BY <2>1, <2>2 DEF InsertAt
<1> HIDE DEF c
<1> DEFINE t == SubSeq(s, 1, c) \o <<e>> \o SubSeq(s, c + 1, Len(s))
<1> DEFINE first == SubSeq(s, 1, c)
           rest == SubSeq(s, c + 1, Len(s))
<1>3. /\ first \in Seq(Entries) /\ Len(first) = c
      /\ rest \in Seq(Entries) /\ Len(rest) = Len(s) - c
  BY <1>1
<1>4. /\ \A i \in 1 .. c : first[i] = s[i]
      /\ \A i \in 1 .. Len(s) - c : rest[i] = s[c + i]
  BY <1>1
<1> HIDE DEF first, rest
<1>5. /\ first \o <<e>> \in Seq(Entries) /\ Len(first \o <<e>>) = c + 1
      /\ (first \o <<e>>)[c + 1] = e
      /\ \A i \in 1 .. c : (first \o <<e>>)[i] = s[i]
  BY <1>1, <1>3, <1>4
<1> DEFINE head == first \o <<e>>
<1> HIDE DEF head
<1>6. t = head \o rest
  BY DEF head, first, rest
<1> HIDE DEF t
<1>7. /\ head \in Seq(Entries) /\ Len(head) = c + 1 /\ head[c + 1] = e
      /\ \A i \in 1 .. c : head[i] = s[i]
  BY <1>5 DEF head
<1>0. /\ t \in Seq(Entries) /\ Len(t) = Len(head) + Len(rest)
      /\ \A i \in 1 .. Len(head) + Len(rest) :
           t[i] = IF i <= Len(head) THEN head[i] ELSE rest[i - Len(head)]
  BY <1>3, <1>6, <1>7, ConcatProperties
<1>8. t \in Seq(Entries) /\ Len(t) = Len(s) + 1 /\ t[c + 1] = e
  <2>1. c + 1 \in 1 .. Len(head) + Len(rest) /\ c + 1 <= Len(head)
    BY <1>1, <1>3, <1>7
  <2>2. Len(head) + Len(rest) = Len(s) + 1
    BY <1>1, <1>3, <1>7
  <2> QED
    BY <1>0, <1>7, <2>1, <2>2
<1>9. ASSUME NEW i \in 1 .. Len(s) PROVE t[IF i < c + 1 THEN i ELSE i + 1] = s[i]
  <2>1. CASE i < c + 1
    <3>1. i \in 1 .. c /\ i \in 1 .. Len(head)
      BY <1>1, <1>7, <2>1
    <3>2. t[i] = head[i]
      BY <1>3, <1>6, <1>7, <3>1
    <3> QED
      BY <2>1, <1>7, <3>1, <3>2
  <2>2. CASE ~(i < c + 1)
    <3>1. i - c \in 1 .. Len(s) - c /\ c + (i - c) = i /\ (i + 1) - (c + 1) = i - c
      BY <1>1, <2>2
    <3>2. i + 1 \in 1 .. (c + 1) + (Len(s) - c) /\ ~(i + 1 <= c + 1)
      BY <1>1, <2>2
    <3>3. t[i + 1] = rest[i - c]
      BY <1>0, <1>3, <1>7, <3>1, <3>2
    <3> QED
      BY <2>2, <1>4, <3>1, <3>3
  <2> QED
    BY <2>1, <2>2
<1>10. c + 1 \in 1 .. Len(s) + 1
  BY <1>1
<1> QED
  BY <1>2, <1>8, <1>9, <1>10 DEF t, first, rest

\* A box with one element more keeps every letter that it lists.
LEMMA InsertKeepsCopies ==
  ASSUME NEW p \in Posts, NEW r \in Posts, NEW b \in Boxes, NEW s \in Seq(Entries), NEW e \in Entries,
         Ids(s) = Ids(p.file[b]), r.file[b] = Insert(s, e)
  PROVE  /\ Len(r.file[b]) = Len(p.file[b]) + 1
         /\ Listed(r, b) = Listed(p, b) \cup {e.id}
         /\ \A l : Cardinality(Copies(p, b, l)) <= Cardinality(Copies(r, b, l))
<1> DEFINE t == r.file[b]
           o == p.file[b]
<1>1. /\ t \in Seq(Entries) /\ Len(t) = Len(s) + 1
      /\ \E k \in 1 .. Len(s) + 1 :
           t[k] = e /\ \A i \in 1 .. Len(s) : t[IF i < k THEN i ELSE i + 1] = s[i]
  BY InsertIs
<1>2. o \in Seq(Entries) /\ Len(s) = Len(o) /\ \A i \in 1 .. Len(s) : s[i].id = o[i].id
  <2>1. DOMAIN s = DOMAIN o /\ \A i \in DOMAIN s : s[i].id = o[i].id
    BY IdsAre
  <2>2. o \in Seq(Entries)
    BY PostsAre
  <2> HIDE DEF o
  <2> QED
    BY <2>1, <2>2
<1> HIDE DEF t, o
<1>3. PICK k \in 1 .. Len(s) + 1 :
           t[k] = e /\ \A i \in 1 .. Len(s) : t[IF i < k THEN i ELSE i + 1] = s[i]
  BY <1>1
<1>4. ASSUME NEW i \in 1 .. Len(o)
      PROVE  LET j == IF i < k THEN i ELSE i + 1 IN j \in 1 .. Len(t) /\ t[j].id = o[i].id
  BY <1>1, <1>2, <1>3
<1>5. ASSUME NEW j \in 1 .. Len(t)
      PROVE  t[j].id = e.id \/ \E i \in 1 .. Len(o) : t[j].id = o[i].id
  <2>1. CASE j < k
    <3>1. j \in 1 .. Len(s)
      BY <2>1, <1>1, <1>3
    <3> QED
      BY <2>1, <3>1, <1>3, <1>2
  <2>2. CASE j = k
    BY <2>2, <1>3
  <2>3. CASE j > k
    <3>1. j - 1 \in 1 .. Len(s) /\ ~(j - 1 < k) /\ (j - 1) + 1 = j
      BY <2>3, <1>1, <1>3
    <3> QED
      BY <3>1, <1>3, <1>2
  <2> QED
    BY <2>1, <2>2, <2>3
<1>6. Listed(r, b) = Listed(p, b) \cup {e.id}
  <2>1. Listed(r, b) = {t[j].id : j \in 1 .. Len(t)} /\ Listed(p, b) = {o[i].id : i \in 1 .. Len(o)}
    BY <1>1, <1>2 DEF Listed, t, o
  <2>2. k \in 1 .. Len(t)
    BY <1>1, <1>3
  <2>3. ASSUME NEW i \in 1 .. Len(o) PROVE \E j \in 1 .. Len(t) : t[j].id = o[i].id
    BY <1>4
  <2>4. Listed(p, b) \cup {e.id} \subseteq Listed(r, b)
    BY <2>1, <2>2, <2>3, <1>3
  <2>5. Listed(r, b) \subseteq Listed(p, b) \cup {e.id}
    BY <2>1, <1>5
  <2> QED
    BY <2>4, <2>5
<1>7. ASSUME NEW l PROVE Cardinality(Copies(p, b, l)) <= Cardinality(Copies(r, b, l))
  <2> DEFINE f == [i \in Copies(p, b, l) |-> IF i < k THEN i ELSE i + 1]
  <2>1. /\ Copies(p, b, l) = {i \in 1 .. Len(o) : o[i].id = l}
        /\ Copies(r, b, l) = {i \in 1 .. Len(t) : t[i].id = l}
    BY <1>1, <1>2 DEF Copies, t, o
  <2>2. f \in [Copies(p, b, l) -> Copies(r, b, l)]
    BY <2>1, <1>4
  <2>3. ASSUME NEW x \in Copies(p, b, l), NEW y \in Copies(p, b, l), f[x] = f[y] PROVE x = y
    <3>1. x \in Int /\ y \in Int
      BY <2>1
    <3> QED
      BY <2>3, <3>1, <1>3
  <2> HIDE DEF f
  <2> QED
    BY <2>2, <2>3, CopiesFinite, Injected
<1> QED
  BY <1>1, <1>2, <1>6, <1>7 DEF t, o

LEMMA AddFolderIs ==
  ASSUME NEW p \in Posts, NEW b \in Boxes, NEW l \in Letters
  PROVE  LET q == AddFolder(p, b, l) IN
         /\ q \in Posts /\ q.file = p.file /\ q.cache = p.cache /\ p.kept \subseteq q.kept
         /\ \A k \in Letters : k # l => q.refs[k] = p.refs[k]
         /\ p.refs[l] \subseteq q.refs[l] /\ q.refs[l] \subseteq p.refs[l] \cup {b}
         /\ q.refs[l] # p.refs[l] => l \in q.kept
<1> DEFINE q == AddFolder(p, b, l)
           refs == [p.refs EXCEPT ![l] = @ \cup {b}]
<1>1. CASE ~Restorable(p, l)
  BY <1>1 DEF AddFolder
<1>2. CASE Restorable(p, l)
  <2>1. q = [p EXCEPT !.refs = refs, !.kept = @ \cup {l}, !.held = l]
    BY <1>2 DEF AddFolder
  <2>2. /\ refs \in [Letters -> SUBSET Boxes] /\ refs[l] = p.refs[l] \cup {b}
        /\ \A k \in Letters : k # l => refs[k] = p.refs[k]
    BY DEF Posts
  <2> HIDE DEF refs, q
  <2>3. /\ q \in Posts /\ q.refs = refs /\ q.kept = p.kept \cup {l}
        /\ q.file = p.file /\ q.cache = p.cache
    BY <2>1, <2>2 DEF Posts
  <2> QED
    BY <2>2, <2>3 DEF q
<1> QED
  BY <1>1, <1>2

LEMMA AddPostKeeps ==
  ASSUME NEW p \in GoodPosts, NEW who \in Users, NEW folder \in Folders, NEW l \in Letters
  PROVE  LET r == AddPost(p, who, folder, l) IN
         /\ r \in GoodPosts /\ Grows(p, r)
         /\ \A c \in Boxes : c # <<who, folder>> => r.file[c] = p.file[c]
         /\ Listed(r, <<who, folder>>) = Listed(p, <<who, folder>>) \cup {l}
<1> DEFINE b == <<who, folder>>
           q == Load(p, who, folder)
           e == [id |-> l, read |-> folder # "new"]
           new == Insert(q.cache.box, e)
           s == [q EXCEPT !.cache.box = new]
           t == AddFolder(s, b, l)
           r == Save(t)
<1>0. p \in Posts /\ Recorded(p) /\ folder # None /\ b \in Boxes /\ e \in Entries /\ e.id = l
  <2>1. p \in Posts /\ Recorded(p) /\ b \in Boxes /\ e \in Entries /\ e.id = l
    BY DEF GoodPosts, Boxes, Entries
  <2> QED
    BY <2>1, PostOfficeAssumption DEF Folders
<1>1. AddPost(p, who, folder, l) = r
  BY DEF AddPost
<1>2. /\ q \in Posts /\ q.file = p.file /\ q.refs = p.refs /\ q.kept = p.kept
      /\ q.cache.who = who /\ q.cache.folder = folder /\ Ids(q.cache.box) = Ids(p.file[b])
  BY <1>0, LoadKeeps DEF GoodPosts
<1> HIDE DEF q, e
<1>3. q.cache.box \in Seq(Entries) /\ new \in Seq(Entries)
  BY <1>0, <1>2, PostsAre, InsertIs
<1> HIDE DEF new
<1>4. /\ s \in Posts /\ s.file = p.file /\ s.refs = p.refs /\ s.kept = p.kept
      /\ s.cache.who = who /\ s.cache.folder = folder /\ s.cache.box = new
  BY <1>2, <1>3, WithBox
<1> HIDE DEF s
<1>5. /\ t \in Posts /\ t.file = p.file /\ t.cache = s.cache /\ p.kept \subseteq t.kept
      /\ \A k \in Letters : k # l => t.refs[k] = p.refs[k]
      /\ p.refs[l] \subseteq t.refs[l] /\ t.refs[l] \subseteq p.refs[l] \cup {b}
      /\ t.refs[l] # p.refs[l] => l \in t.kept
  BY <1>0, <1>4, AddFolderIs
<1> HIDE DEF t
<1>6. /\ r \in Posts /\ r.refs = t.refs /\ r.kept = t.kept /\ r.file[b] = new
      /\ \A c \in Boxes : c # b => r.file[c] = p.file[c]
      /\ Agrees(r)
  <2>1. <<t.cache.who, t.cache.folder>> = b
    BY <1>4, <1>5
  <2> QED
    BY <1>0, <1>4, <1>5, <2>1, SaveIs
<1> HIDE DEF r, b
<1>7. /\ Len(r.file[b]) = Len(p.file[b]) + 1
      /\ Listed(r, b) = Listed(p, b) \cup {l}
      /\ \A k : Cardinality(Copies(p, b, k)) <= Cardinality(Copies(r, b, k))
  BY <1>0, <1>2, <1>3, <1>6, InsertKeepsCopies DEF new
<1>8. Grows(p, r)
  <2>1. ASSUME NEW c \in Boxes
        PROVE  /\ Len(p.file[c]) <= Len(r.file[c])
               /\ Len(p.file[c]) = Len(r.file[c]) => Ids(p.file[c]) = Ids(r.file[c])
               /\ \A k \in Letters : Cardinality(Copies(p, c, k)) <= Cardinality(Copies(r, c, k))
    <3>1. Len(p.file[c]) \in Nat
      BY <1>0, PostsAre
    <3>2. \A k \in Letters : Cardinality(Copies(p, c, k)) \in Nat
      BY <1>0, CopiesFinite
    <3>3. CASE c = b
      BY <1>7, <3>1, <3>3
    <3>4. CASE c # b
      <4>1. r.file[c] = p.file[c]
        BY <1>6, <3>4
      <4> QED
        BY <3>1, <3>2, <4>1 DEF Copies
    <3> QED
      BY <3>3, <3>4
  <2>2. \A k \in Letters : p.refs[k] \subseteq r.refs[k]
    BY <1>5, <1>6
  <2> QED
    BY <2>1, <2>2 DEF Grows
<1>9. Recorded(r)
  <2>1. ASSUME NEW k \in Letters, NEW c \in r.refs[k]
        PROVE  k \in r.kept /\ k \in Listed(r, c)
    <3>1. c \in Boxes
      BY <1>6, PostsAre
    <3>2. Listed(p, c) \subseteq Listed(r, c)
      <4>1. CASE c = b
        BY <1>7, <4>1
      <4>2. CASE c # b
        <5>1. r.file[c] = p.file[c]
          BY <1>6, <3>1, <4>2
        <5> QED
          BY <5>1 DEF Listed
      <4> QED
        BY <4>1, <4>2
    <3>3. CASE c \in p.refs[k]
      BY <1>0, <1>5, <1>6, <3>2, <3>3 DEF Recorded
    <3>4. CASE c \notin p.refs[k]
      <4>1. k = l /\ c = b /\ l \in r.kept
        BY <1>5, <1>6, <2>1, <3>4
      <4> QED
        BY <1>7, <4>1
    <3> QED
      BY <3>3, <3>4
  <2> QED
    BY <2>1 DEF Recorded
<1> QED
  BY <1>1, <1>6, <1>7, <1>8, <1>9 DEF GoodPosts, r, b

LEMMA ServedType ==
  ASSUME NEW to \in Seq(Users), NEW found
  PROVE  Served(to, found) \in Seq(Users)
<1> DEFINE all == Delivered(to)
           lost == {i \in DOMAIN all : all[i] \notin found}
           first == CHOOSE i \in lost : \A j \in lost : i <= j
<1>1. all \in Seq(Users)
  BY PostOfficeAssumption DEF Delivered
<1>2. CASE lost = {}
  BY <1>1, <1>2 DEF Served
<1>3. CASE lost # {}
  <2>1. lost \in SUBSET (1 .. Len(all))
    BY <1>1
  <2>2. lost \in SUBSET Nat
    BY <2>1
  <2>3. first \in lost
    <3> HIDE DEF lost
    <3> QED
      BY <1>3, <2>2, SmallestIn
  <2>4. SubSeq(all, 1, first) \in Seq(Users)
    <3>1. first \in 1 .. Len(all)
      BY <2>1, <2>3
    <3> HIDE DEF all, first
    <3>2. first \in Int /\ 1 \in Int /\ \A i \in 1 .. first : all[i] \in Users
      BY <1>1, <3>1
    <3> QED
      BY <3>2, SubSeqProperties
  <2> QED
    BY <1>3, <2>4 DEF Served
<1> QED
  BY <1>2, <1>3

LEMMA CreateLetterKeeps ==
  ASSUME NEW p \in GoodPosts, NEW l \in Letters, p.refs[l] = {}
  PROVE  LET q == CreateLetter(p, l) IN
         q \in GoodPosts /\ q.file = p.file /\ q.refs = p.refs
<1> DEFINE q == CreateLetter(p, l)
<1>0. p \in Posts /\ Agrees(p) /\ Recorded(p)
  BY DEF GoodPosts
<1>1. [p.refs EXCEPT ![l] = {}] = p.refs
  BY <1>0 DEF Posts
<1>2. /\ q \in Posts /\ q.file = p.file /\ q.cache = p.cache /\ q.refs = p.refs
      /\ q.kept = p.kept \cup {l}
  BY <1>0, <1>1 DEF CreateLetter, Posts
<1> HIDE DEF q
<1>3. Agrees(q) /\ Recorded(q)
  BY <1>0, <1>2 DEF Agrees, Recorded, Listed
<1> QED
  BY <1>2, <1>3 DEF GoodPosts, q

LEMMA SendPostKeeps ==
  ASSUME NEW p \in GoodPosts, NEW l \in Letters, p.refs[l] = {}, NEW to \in Seq(Users), NEW found
  PROVE  LET r == SendPost(p, l, to, found)
             served == Served(to, found) IN
         /\ r \in GoodPosts /\ Grows(p, r)
         /\ \A c \in Boxes : Listed(r, c) \subseteq Listed(p, c) \cup {l}
         /\ \A c \in Boxes : (\A i \in DOMAIN served : c # <<served[i], "new">>)
                               => r.file[c] = p.file[c]
<1> DEFINE served == Served(to, found)
           N == Len(served)
           first == CreateLetter(p, l)
           give[n \in 0 .. N] ==
             IF n = 0 THEN first ELSE AddPost(give[n - 1], served[n], "new", l)
           Step == [n \in 1 .. N |-> [q \in GoodPosts |-> AddPost(q, served[n], "new", l)]]
           Reached == {r \in GoodPosts :
             /\ Grows(p, r)
             /\ \A c \in Boxes : Listed(r, c) \subseteq Listed(p, c) \cup {l}
             /\ \A c \in Boxes : (\A i \in DOMAIN served : c # <<served[i], "new">>)
                                   => r.file[c] = p.file[c]}
<1>0. SendPost(p, l, to, found) = give[N]
  BY DEF SendPost
<1>1. served \in Seq(Users) /\ N \in Nat /\ DOMAIN served = 1 .. N
      /\ \A i \in 1 .. N : served[i] \in Users
  BY ServedType
<1>2. p \in Posts /\ first \in GoodPosts /\ first.file = p.file /\ first.refs = p.refs
  BY CreateLetterKeeps DEF GoodPosts
<1> HIDE DEF served, N, first
<1>3. Step \in [1 .. N -> [GoodPosts -> GoodPosts]]
  BY <1>1, AddPostKeeps DEF Folders
<1>4. PICK f : Turns(f, N, GoodPosts, first, Step)
  <2> HIDE DEF Step
  <2> QED
    BY <1>1, <1>2, <1>3, Recursion
<1>5. f = [n \in 0 .. N |-> IF n = 0 THEN first ELSE AddPost(f[n - 1], served[n], "new", l)]
  <2>1. /\ f \in [0 .. N -> GoodPosts] /\ f[0] = first
        /\ \A n \in 1 .. N : f[n] = Step[n][f[n - 1]]
    BY <1>4 DEF Turns
  <2>2. ASSUME NEW n \in 1 .. N PROVE f[n] = AddPost(f[n - 1], served[n], "new", l)
    <3>1. n - 1 \in 0 .. N
      BY <1>1
    <3> QED
      BY <2>1, <3>1
  <2> HIDE DEF Step
  <2> QED
    BY <1>1, <2>1, <2>2
<1>6. give = [n \in 0 .. N |-> IF n = 0 THEN first ELSE AddPost(give[n - 1], served[n], "new", l)]
  BY <1>5
<1> HIDE DEF give
<1>7. give[0] = first /\ \A n \in 1 .. N : give[n] = AddPost(give[n - 1], served[n], "new", l)
  BY <1>1, <1>6
<1>8. first \in Reached
  <2>1. Same(p, first)
    BY <1>2 DEF Same
  <2>2. Grows(p, first) /\ \A b \in Boxes : Listed(p, b) = Listed(first, b)
    BY <1>2, <2>1, SameGrows DEF GoodPosts
  <2> QED
    BY <1>2, <2>2
<1>9. ASSUME NEW n \in 1 .. N, give[n - 1] \in Reached PROVE give[n] \in Reached
  <2> DEFINE q == give[n - 1]
             b == <<served[n], "new">>
             r == AddPost(q, served[n], "new", l)
  <2>1. /\ q \in GoodPosts /\ Grows(p, q) /\ served[n] \in Users /\ give[n] = r
        /\ "new" \in Folders
    BY <1>1, <1>7, <1>9 DEF Folders
  <2>2. /\ r \in GoodPosts /\ Grows(q, r)
        /\ \A c \in Boxes : c # b => r.file[c] = q.file[c]
        /\ Listed(r, b) = Listed(q, b) \cup {l}
    BY <2>1, AddPostKeeps
  <2>3. Grows(p, r)
    BY <1>2, <2>1, <2>2, GrowsIsTransitive DEF GoodPosts
  <2> HIDE DEF r
  <2>4. \A c \in Boxes : Listed(r, c) \subseteq Listed(q, c) \cup {l}
    <3>1. ASSUME NEW c \in Boxes PROVE Listed(r, c) \subseteq Listed(q, c) \cup {l}
      <4>1. CASE c = b
        BY <2>2, <4>1
      <4>2. CASE c # b
        <5>1. r.file[c] = q.file[c]
          BY <2>2, <4>2
        <5>2. Listed(r, c) = Listed(q, c)
          BY <5>1 DEF Listed
        <5> QED
          BY <5>2
      <4> QED
        BY <4>1, <4>2
    <3> QED
      BY <3>1
  <2>5. \A c \in Boxes : Listed(r, c) \subseteq Listed(p, c) \cup {l}
    BY <1>9, <2>4
  <2>6. \A c \in Boxes : (\A i \in DOMAIN served : c # <<served[i], "new">>)
                           => r.file[c] = p.file[c]
    BY <1>1, <1>9, <2>2
  <2> QED
    BY <2>1, <2>2, <2>3, <2>5, <2>6
<1>10. \A n \in 0 .. N : give[n] \in Reached
  <2> DEFINE T == {n \in 0 .. N : give[n] \in Reached}
  <2>1. 0 \in T
    BY <1>1, <1>7, <1>8, SMTT(30)
  <2>2. ASSUME NEW n \in 0 .. N - 1, n \in T PROVE n + 1 \in T
    <3>1. n + 1 \in 1 .. N /\ n + 1 \in 0 .. N /\ (n + 1) - 1 = n
      BY <1>1
    <3> HIDE DEF Reached
    <3> QED
      BY <1>9, <2>2, <3>1
  <2> HIDE DEF T
  <2>3. \A n \in 0 .. N : n \in T
    BY <1>1, <2>1, <2>2, Induction
  <2> QED
    BY <2>3 DEF T
<1>11. give[N] \in Reached
  <2> HIDE DEF Reached
  <2> QED
    BY <1>1, <1>10
<1> QED
  BY <1>0, <1>11 DEF served
-----------------------------------------------------------------------------
(* delete_posts.                                                           *)

LEMMA DeleteFolderIs ==
  ASSUME NEW p \in Posts, NEW b \in Boxes, NEW l \in Letters
  PROVE  LET q == DeleteFolder(p, b, l) IN
         /\ q \in Posts /\ q.file = p.file /\ q.cache = p.cache
         /\ \A k \in Letters : k # l => q.refs[k] = p.refs[k] /\ (k \in q.kept <=> k \in p.kept)
         /\ q.refs[l] \subseteq p.refs[l] /\ p.refs[l] \ {b} \subseteq q.refs[l]
         /\ (p.refs[l] # {} => l \in p.kept) =>
              b \notin q.refs[l] /\ (q.refs[l] # {} => l \in q.kept)
<1> DEFINE q == DeleteFolder(p, b, l)
           rest == p.refs[l] \ {b}
           refs == [p.refs EXCEPT ![l] = rest]
           kept == IF rest = {} THEN p.kept \ {l} ELSE p.kept
<1>1. CASE ~Restorable(p, l)
  <2>1. q = p /\ l \notin p.kept
    BY <1>1 DEF DeleteFolder, Restorable
  <2> HIDE DEF q
  <2> QED
    BY <2>1 DEF q
<1>2. CASE Restorable(p, l) /\ \A f \in Folders : <<b[1], f>> \notin p.refs[l]
  <2>1. q = [p EXCEPT !.held = l]
    BY <1>2 DEF DeleteFolder
  <2>2. b \notin p.refs[l]
    BY <1>2 DEF Boxes
  <2> HIDE DEF q
  <2>3. q \in Posts /\ q.file = p.file /\ q.cache = p.cache /\ q.refs = p.refs /\ q.kept = p.kept
    BY <2>1 DEF Posts
  <2> QED
    BY <2>2, <2>3 DEF q
<1>3. CASE Restorable(p, l) /\ ~(\A f \in Folders : <<b[1], f>> \notin p.refs[l])
  <2>1. q = [p EXCEPT !.held = l, !.refs = refs, !.kept = kept]
    BY <1>3 DEF DeleteFolder
  <2>2. /\ refs \in [Letters -> SUBSET Boxes] /\ refs[l] = rest
        /\ \A k \in Letters : k # l => refs[k] = p.refs[k]
    BY DEF Posts
  <2>3. /\ kept \subseteq Letters
        /\ \A k \in Letters : k # l => (k \in kept <=> k \in p.kept)
        /\ (p.refs[l] # {} => l \in p.kept) /\ rest # {} => l \in kept
    BY PostsAre
  <2> HIDE DEF q, refs, kept
  <2>4. q \in Posts /\ q.file = p.file /\ q.cache = p.cache /\ q.refs = refs /\ q.kept = kept
    BY <2>1, <2>2, <2>3 DEF Posts
  <2> QED
    BY <2>2, <2>3, <2>4 DEF q
<1> QED
  BY <1>1, <1>2, <1>3

\* What the loop has made of mail q once it has been through the indexes from m on: the
\* box has what was not marked, in its place or not,
BoxFrom(q, t, del, m) ==
  LET old == q.cache.box
      left == {i \in m .. Len(old) : i \notin del} IN
  /\ \E f \in [left -> DOMAIN t.cache.box] :
       /\ \A i, j \in left : f[i] = f[j] => i = j
       /\ \A i \in left : t.cache.box[f[i]].id = old[i].id
  /\ \A k \in DOMAIN t.cache.box : \E i \in left : t.cache.box[k].id = old[i].id

\* and the folder is off the records of what was.
RefsFrom(q, t, b, del, m) ==
  LET old == q.cache.box
      marked == {i \in m .. Len(old) : i \in del} IN
  /\ \A l \in Letters :
       /\ t.refs[l] \subseteq q.refs[l]
       /\ t.refs[l] # {} => l \in t.kept
       /\ \A c \in q.refs[l] : c \in t.refs[l] \/ (c = b /\ \E i \in marked : old[i].id = l)
  /\ \A i \in marked : b \notin t.refs[old[i].id]

Dropped(q, t, b, del, m) ==
  /\ t \in Posts /\ t.file = q.file
  /\ t.cache.who = q.cache.who /\ t.cache.folder = q.cache.folder
  /\ BoxFrom(q, t, del, m) /\ RefsFrom(q, t, b, del, m)

LEMMA DropTurn ==
  ASSUME NEW q \in Posts, NEW t, NEW b \in Boxes, NEW del, NEW m \in 1 .. Len(q.cache.box),
         m \in del, Dropped(q, t, b, del, m + 1)
  PROVE  Dropped(q, DeleteFolder(t, b, q.cache.box[m].id), b, del, m)
<1> DEFINE old == q.cache.box
           l == old[m].id
           r == DeleteFolder(t, b, l)
           N == Len(old)
<1>0. old \in Seq(Entries) /\ N \in Nat /\ l \in Letters /\ \A i \in 1 .. N : old[i].id \in Letters
  <2>1. old \in Seq(Entries)
    BY PostsAre
  <2>2. \A i \in 1 .. N : old[i] \in Entries
    BY <2>1
  <2>3. m \in 1 .. N /\ N \in Nat
    BY <2>1
  <2> HIDE DEF old, N
  <2> QED
    BY <2>1, <2>2, <2>3 DEF Entries
<1>1. t \in Posts /\ RefsFrom(q, t, b, del, m + 1)
  BY DEF Dropped
<1>2. t.refs[l] # {} => l \in t.kept
  BY <1>0, <1>1 DEF RefsFrom
<1>3. /\ r \in Posts /\ r.file = t.file /\ r.cache = t.cache
      /\ \A k \in Letters : k # l => r.refs[k] = t.refs[k] /\ (k \in r.kept <=> k \in t.kept)
      /\ r.refs[l] \subseteq t.refs[l] /\ t.refs[l] \ {b} \subseteq r.refs[l]
      /\ b \notin r.refs[l] /\ (r.refs[l] # {} => l \in r.kept)
  <2> HIDE DEF l
  <2> QED
    BY <1>0, <1>1, <1>2, DeleteFolderIs
<1> HIDE DEF r
<1>5. BoxFrom(q, r, del, m)
  <2> DEFINE left == {i \in m .. N : i \notin del}
             before == {i \in m + 1 .. N : i \notin del}
  <2>1. left = before
    BY <1>0
  <2>2. /\ \E f \in [before -> DOMAIN t.cache.box] :
             /\ \A i, j \in before : f[i] = f[j] => i = j
             /\ \A i \in before : t.cache.box[f[i]].id = old[i].id
        /\ \A k \in DOMAIN t.cache.box : \E i \in before : t.cache.box[k].id = old[i].id
    BY DEF Dropped, BoxFrom
  <2>3. PICK f \in [before -> DOMAIN t.cache.box] :
             /\ \A i, j \in before : f[i] = f[j] => i = j
             /\ \A i \in before : t.cache.box[f[i]].id = old[i].id
    BY <2>2
  <2> HIDE DEF left, before, old
  <2>4. /\ f \in [left -> DOMAIN r.cache.box]
        /\ \A i, j \in left : f[i] = f[j] => i = j
        /\ \A i \in left : r.cache.box[f[i]].id = old[i].id
        /\ \A k \in DOMAIN r.cache.box : \E i \in left : r.cache.box[k].id = old[i].id
    BY <1>3, <2>1, <2>2, <2>3
  <2> QED
    BY <2>4 DEF BoxFrom, left, old
<1>6. RefsFrom(q, r, b, del, m)
  <2> DEFINE marked == {i \in m .. N : i \in del}
             before == {i \in m + 1 .. N : i \in del}
  <2>1. m \in marked /\ \A i \in before : i \in marked
    BY <1>0
  <2>2. \A i \in marked : (i \in before \/ i = m) /\ i \in 1 .. N
    BY <1>0
  <2>3. /\ \A k \in Letters :
             /\ t.refs[k] \subseteq q.refs[k]
             /\ t.refs[k] # {} => k \in t.kept
             /\ \A c \in q.refs[k] : c \in t.refs[k] \/ (c = b /\ \E i \in before : old[i].id = k)
        /\ \A i \in before : b \notin t.refs[old[i].id]
    BY <1>1 DEF RefsFrom
  <2> HIDE DEF marked, before, N
  <2>4. ASSUME NEW k \in Letters
        PROVE  /\ r.refs[k] \subseteq q.refs[k]
               /\ r.refs[k] # {} => k \in r.kept
               /\ \A c \in q.refs[k] : c \in r.refs[k] \/ (c = b /\ \E i \in marked : old[i].id = k)
    <3>1. CASE k = l
      BY <1>3, <2>1, <2>3, <3>1, ZenonT(60)
    <3>2. CASE k # l
      BY <1>3, <2>1, <2>3, <3>2
    <3> QED
      BY <3>1, <3>2
  <2>5. ASSUME NEW i \in marked PROVE b \notin r.refs[old[i].id]
    BY <1>0, <1>3, <2>2, <2>3
  <2> QED
    BY <2>4, <2>5 DEF RefsFrom, marked, N
<1>7. /\ t.file = q.file /\ t.cache.who = q.cache.who
      /\ t.cache.folder = q.cache.folder
  BY DEF Dropped
<1>8. Dropped(q, r, b, del, m)
  BY <1>3, <1>5, <1>6, <1>7 DEF Dropped
<1> QED
  BY <1>8 DEF r

LEMMA PrependIs ==
  ASSUME NEW t \in Posts, NEW e \in Entries
  PROVE  LET s == t.cache.box
             r == [t EXCEPT !.cache.box = <<e>> \o @] IN
         /\ r \in Posts /\ r.file = t.file /\ r.refs = t.refs /\ r.kept = t.kept
         /\ r.cache.who = t.cache.who /\ r.cache.folder = t.cache.folder
         /\ DOMAIN r.cache.box = 1 .. Len(s) + 1
         /\ r.cache.box[1] = e /\ \A k \in 1 .. Len(s) : r.cache.box[k + 1] = s[k]
<1> DEFINE s == t.cache.box
           one == <<e>>
           new == one \o s
           r == [t EXCEPT !.cache.box = new]
<1>1. s \in Seq(Entries) /\ Len(s) \in Nat
  BY PostsAre
<1>2. one \in Seq(Entries) /\ Len(one) = 1 /\ one[1] = e
  OBVIOUS
<1> HIDE DEF one, s
<1>3. /\ new \in Seq(Entries) /\ Len(new) = Len(one) + Len(s)
      /\ \A i \in 1 .. Len(one) + Len(s) :
           new[i] = IF i <= Len(one) THEN one[i] ELSE s[i - Len(one)]
  BY <1>1, <1>2, ConcatProperties
<1> HIDE DEF new
<1>4. ASSUME NEW k \in 1 .. Len(s) PROVE new[k + 1] = s[k]
  <2>1. k + 1 \in 1 .. 1 + Len(s) /\ ~(k + 1 <= 1) /\ (k + 1) - 1 = k
    BY <1>1
  <2> QED
    BY <1>2, <1>3, <2>1
<1>5. DOMAIN new = 1 .. Len(s) + 1 /\ new[1] = e
  BY <1>1, <1>2, <1>3
<1>6. /\ r \in Posts /\ r.file = t.file /\ r.refs = t.refs /\ r.kept = t.kept
      /\ r.cache.who = t.cache.who /\ r.cache.folder = t.cache.folder /\ r.cache.box = new
  BY <1>3, WithBox
<1>7. r = [t EXCEPT !.cache.box = <<e>> \o @]
  BY DEF new, one, s
<1> HIDE DEF r
<1>8. /\ DOMAIN r.cache.box = 1 .. Len(s) + 1
      /\ r.cache.box[1] = e /\ \A k \in 1 .. Len(s) : r.cache.box[k + 1] = s[k]
  BY <1>4, <1>5, <1>6
<1> QED
  BY <1>6, <1>7, <1>8 DEF s

LEMMA KeepTurn ==
  ASSUME NEW q \in Posts, NEW t, NEW b \in Boxes, NEW del, NEW m \in 1 .. Len(q.cache.box),
         m \notin del, Dropped(q, t, b, del, m + 1)
  PROVE  Dropped(q, [t EXCEPT !.cache.box = <<q.cache.box[m]>> \o @], b, del, m)
<1> DEFINE old == q.cache.box
           s == t.cache.box
           r == [t EXCEPT !.cache.box = <<old[m]>> \o @]
           new == r.cache.box
           N == Len(old)
<1>0. old \in Seq(Entries) /\ N \in Nat /\ old[m] \in Entries
  BY PostsAre
<1>1. t \in Posts /\ s \in Seq(Entries)
  BY PostsAre DEF Dropped
<1>2. /\ r \in Posts /\ r.file = t.file /\ r.refs = t.refs /\ r.kept = t.kept
      /\ r.cache.who = t.cache.who /\ r.cache.folder = t.cache.folder
      /\ DOMAIN new = 1 .. Len(s) + 1
      /\ new[1] = old[m] /\ \A k \in 1 .. Len(s) : new[k + 1] = s[k]
  <2> HIDE DEF old
  <2> QED
    BY <1>0, <1>1, PrependIs, ZenonT(60)
<1> HIDE DEF r
<1>3. DOMAIN s = 1 .. Len(s) /\ Len(s) \in Nat
  BY <1>1
<1>4. BoxFrom(q, r, del, m)
  <2> DEFINE left == {i \in m .. N : i \notin del}
             before == {i \in m + 1 .. N : i \notin del}
  <2>1. left = before \cup {m} /\ m \notin before
    BY <1>0
  <2>2. /\ \E f \in [before -> DOMAIN s] :
             /\ \A i, j \in before : f[i] = f[j] => i = j
             /\ \A i \in before : s[f[i]].id = old[i].id
        /\ \A k \in DOMAIN s : \E i \in before : s[k].id = old[i].id
    BY DEF Dropped, BoxFrom
  <2>3. PICK f \in [before -> DOMAIN s] :
             /\ \A i, j \in before : f[i] = f[j] => i = j
             /\ \A i \in before : s[f[i]].id = old[i].id
    BY <2>2
  <2>4. /\ DOMAIN s = 1 .. Len(s) /\ Len(s) \in Nat
        /\ DOMAIN new = 1 .. Len(s) + 1
    BY <1>2, <1>3
  <2> HIDE DEF new, left, before, s, old
  <2> DEFINE g == [i \in left |-> IF i = m THEN 1 ELSE f[i] + 1]
  <2>5. \A i \in before : f[i] \in 1 .. Len(s)
    BY <2>3, <2>4
  <2>6. g \in [left -> DOMAIN new]
    BY <2>1, <2>4, <2>5
  <2>7. ASSUME NEW i \in left, NEW j \in left, g[i] = g[j] PROVE i = j
    BY <2>1, <2>3, <2>4, <2>5, <2>7
  <2>8. ASSUME NEW i \in left PROVE new[g[i]].id = old[i].id
    <3>1. CASE i = m
      BY <1>2, <3>1
    <3>2. CASE i # m
      BY <1>2, <2>1, <2>3, <2>5, <3>2
    <3> QED
      BY <3>1, <3>2
  <2>9. ASSUME NEW k \in DOMAIN new PROVE \E i \in left : new[k].id = old[i].id
    <3>1. CASE k = 1
      BY <1>2, <2>1, <3>1
    <3>2. CASE k # 1
      <4>1. k - 1 \in 1 .. Len(s) /\ (k - 1) + 1 = k
        BY <2>4, <3>2
      <4>2. new[k] = s[k - 1]
        BY <1>2, <4>1
      <4>3. PICK i \in before : s[k - 1].id = old[i].id
        BY <2>2, <2>4, <4>1
      <4> QED
        BY <2>1, <4>2, <4>3
    <3> QED
      BY <3>1, <3>2
  <2> HIDE DEF g
  <2> QED
    BY <2>6, <2>7, <2>8, <2>9 DEF BoxFrom, left, old, new
<1>5. RefsFrom(q, r, b, del, m)
  <2>1. {i \in m .. N : i \in del} = {i \in m + 1 .. N : i \in del}
    BY <1>0
  <2>2. RefsFrom(q, t, b, del, m + 1)
    BY DEF Dropped
  <2> QED
    BY <1>2, <2>1, <2>2 DEF RefsFrom
<1>6. /\ t.file = q.file /\ t.cache.who = q.cache.who
      /\ t.cache.folder = q.cache.folder
  BY DEF Dropped
<1>7. Dropped(q, r, b, del, m)
  BY <1>2, <1>4, <1>5, <1>6 DEF Dropped
<1> QED
  BY <1>7 DEF r

\* The loop and save_folder: a letter stays in the folder, and as often as before if none
\* of its elements was marked, and a record goes with a marked element only.
LEMMA DropPostsKeeps ==
  ASSUME NEW q \in GoodPosts, NEW b \in Boxes, <<q.cache.who, q.cache.folder>> = b, NEW del
  PROVE  LET old == q.cache.box
             r == DropPosts(q, b, del) IN
         /\ r \in GoodPosts
         /\ \A c \in Boxes : c # b => r.file[c] = q.file[c]
         /\ \A l \in Letters : l \in Listed(r, b) => \E i \in DOMAIN old : i \notin del /\ old[i].id = l
         /\ \A l \in Letters : (\A i \in DOMAIN old : i \in del => old[i].id # l) =>
              Cardinality(Copies(q, b, l)) <= Cardinality(Copies(r, b, l))
         /\ \A l \in Letters : \A c \in q.refs[l] :
              c \in r.refs[l] \/ (c = b /\ \E i \in DOMAIN old : i \in del /\ old[i].id = l)
<1> DEFINE old == q.cache.box
           N == Len(old)
           first == [q EXCEPT !.cache.box = <<>>]
           Turn(t, i) ==
             IF i \in del THEN DeleteFolder(t, b, old[i].id)
             ELSE [t EXCEPT !.cache.box = <<old[i]>> \o @]
           turn[n \in 0 .. N] ==
             LET i == N + 1 - n IN
             IF n = 0 THEN first
             ELSE IF i \in del THEN DeleteFolder(turn[n - 1], b, old[i].id)
             ELSE [turn[n - 1] EXCEPT !.cache.box = <<old[i]>> \o @]
           Step == [n \in 1 .. N |-> [t \in Posts |-> Turn(t, N + 1 - n)]]
           r == Save(turn[N])
<1>0. DropPosts(q, b, del) = r
  BY DEF DropPosts
<1>1. /\ q \in Posts /\ Agrees(q) /\ Recorded(q)
      /\ old \in Seq(Entries) /\ N \in Nat /\ DOMAIN old = 1 .. N
      /\ \A i \in 1 .. N : old[i] \in Entries /\ old[i].id \in Letters
  <2>1. q \in Posts /\ Agrees(q) /\ Recorded(q)
    BY DEF GoodPosts
  <2>2. old \in Seq(Entries)
    BY <2>1, PostsAre
  <2>3. \A i \in 1 .. N : old[i] \in Entries
    BY <2>2
  <2> HIDE DEF old, r
  <2> QED
    BY <2>1, <2>2, <2>3 DEF Entries
<1>2. /\ first \in Posts /\ first.file = q.file /\ first.refs = q.refs /\ first.kept = q.kept
      /\ first.cache.who = q.cache.who /\ first.cache.folder = q.cache.folder
      /\ first.cache.box = <<>>
  <2>1. <<>> \in Seq(Entries)
    OBVIOUS
  <2> QED
    BY <1>1, <2>1, WithBox
<1> HIDE DEF first
<1>3. Step \in [1 .. N -> [Posts -> Posts]]
  <2>1. ASSUME NEW t \in Posts, NEW i \in 1 .. N PROVE Turn(t, i) \in Posts
    <3>1. CASE i \in del
      BY <1>1, <3>1, DeleteFolderIs
    <3>2. CASE i \notin del
      BY <1>1, <3>2, PrependIs
    <3> QED
      BY <3>1, <3>2
  <2>2. \A n \in 1 .. N : N + 1 - n \in 1 .. N
    BY <1>1
  <2> HIDE DEF Turn, N
  <2> QED
    BY <2>1, <2>2
<1>4. PICK f : Turns(f, N, Posts, first, Step)
  <2> HIDE DEF Step, N
  <2> QED
    BY <1>1, <1>2, <1>3, Recursion
<1>5. f = [n \in 0 .. N |-> IF n = 0 THEN first ELSE Turn(f[n - 1], N + 1 - n)]
  <2>1. /\ f \in [0 .. N -> Posts] /\ f[0] = first
        /\ \A n \in 1 .. N : f[n] = Step[n][f[n - 1]]
    BY <1>4 DEF Turns
  <2>2. ASSUME NEW n \in 1 .. N PROVE f[n] = Turn(f[n - 1], N + 1 - n)
    <3>1. n - 1 \in 0 .. N
      BY <1>1
    <3> HIDE DEF Turn
    <3> QED
      BY <2>1, <3>1
  <2> HIDE DEF Step, Turn
  <2> QED
    BY <1>1, <2>1, <2>2
<1>6. turn = [n \in 0 .. N |-> IF n = 0 THEN first ELSE Turn(turn[n - 1], N + 1 - n)]
  BY <1>5
<1> HIDE DEF turn
<1>7. turn[0] = first /\ \A n \in 1 .. N : turn[n] = Turn(turn[n - 1], N + 1 - n)
  <2>1. N \in Nat
    BY <1>1
  <2> HIDE DEF Turn, N
  <2> QED
    BY <1>6, <2>1
<1>8. Dropped(q, first, b, del, N + 1)
  <2>1. BoxFrom(q, first, del, N + 1)
    <3>1. {i \in N + 1 .. Len(q.cache.box) : i \notin del} = {}
      BY <1>1
    <3> DEFINE e == [i \in {} |-> 0]
    <3>2. e \in [{} -> DOMAIN first.cache.box] /\ DOMAIN first.cache.box = {}
      BY <1>2
    <3> HIDE DEF e
    <3> QED
      BY <3>1, <3>2 DEF BoxFrom
  <2>2. RefsFrom(q, first, b, del, N + 1)
    <3>1. {i \in N + 1 .. Len(q.cache.box) : i \in del} = {}
      BY <1>1
    <3>2. \A l \in Letters : q.refs[l] # {} => l \in q.kept
      BY <1>1 DEF Recorded
    <3> DEFINE none == {i \in N + 1 .. Len(q.cache.box) : i \in del}
    <3>3. none = {}
      BY <3>1
    <3> HIDE DEF none, old, N
    <3>4. /\ \A l \in Letters :
               /\ first.refs[l] \subseteq q.refs[l]
               /\ first.refs[l] # {} => l \in first.kept
               /\ \A c \in q.refs[l] :
                    c \in first.refs[l] \/ (c = b /\ \E i \in none : old[i].id = l)
          /\ \A i \in none : b \notin first.refs[old[i].id]
      BY <1>2, <3>2, <3>3
    <3> QED
      BY <3>4 DEF RefsFrom, none, old, N
  <2> QED
    BY <1>2, <2>1, <2>2 DEF Dropped
<1>9. ASSUME NEW n \in 1 .. N, NEW t, Dropped(q, t, b, del, (N + 1 - n) + 1)
      PROVE  Dropped(q, Turn(t, N + 1 - n), b, del, N + 1 - n)
  <2> DEFINE i == N + 1 - n
  <2>1. i \in 1 .. Len(q.cache.box)
    BY <1>1
  <2> HIDE DEF i
  <2>2. Dropped(q, t, b, del, i + 1)
    BY <1>9 DEF i
  <2>3. CASE i \in del
    BY <1>1, <2>1, <2>2, <2>3, DropTurn DEF i
  <2>4. CASE i \notin del
    BY <1>1, <2>1, <2>2, <2>4, KeepTurn DEF i
  <2> QED
    BY <2>3, <2>4
<1> HIDE DEF Turn
<1>10. \A n \in 0 .. N : Dropped(q, turn[n], b, del, N + 1 - n)
  <2> DEFINE T == {n \in 0 .. N : Dropped(q, turn[n], b, del, N + 1 - n)}
  <2>1. 0 \in T
    BY <1>1, <1>7, <1>8
  <2>2. ASSUME NEW n \in 0 .. N - 1, n \in T PROVE n + 1 \in T
    <3>1. /\ n + 1 \in 1 .. N /\ n + 1 \in 0 .. N /\ (n + 1) - 1 = n /\ n \in 0 .. N
          /\ (N + 1 - (n + 1)) + 1 = N + 1 - n
      <4>1. N \in Nat
        BY <1>1
      <4> HIDE DEF N
      <4> QED
        BY <4>1
    <3> DEFINE t == turn[n]
               k == n + 1
    <3>2. Dropped(q, t, b, del, (N + 1 - k) + 1) /\ turn[k] = Turn(t, N + 1 - k)
      BY <1>7, <2>2, <3>1
    <3> HIDE DEF t, k
    <3>3. k \in 1 .. N
      BY <3>1 DEF k
    <3>4. Dropped(q, Turn(t, N + 1 - k), b, del, N + 1 - k)
      BY <1>9, <3>2, <3>3
    <3> QED
      BY <3>1, <3>2, <3>4 DEF k
  <2> HIDE DEF T
  <2>3. \A n \in 0 .. N : n \in T
    BY <1>1, <2>1, <2>2, Induction
  <2> QED
    BY <2>3 DEF T
<1>11. Dropped(q, turn[N], b, del, 1)
  <2>1. N \in 0 .. N /\ N + 1 - N = 1
    BY <1>1
  <2> QED
    BY <1>10, <2>1
<1> DEFINE t == turn[N]
<1> HIDE DEF t
<1>12. /\ t \in Posts /\ t.file = q.file /\ <<t.cache.who, t.cache.folder>> = b
       /\ BoxFrom(q, t, del, 1) /\ RefsFrom(q, t, b, del, 1)
  BY <1>11 DEF Dropped, t
<1>13. /\ r \in Posts /\ r.refs = t.refs /\ r.kept = t.kept /\ r.file[b] = t.cache.box
       /\ \A c \in Boxes : c # b => r.file[c] = q.file[c]
       /\ Agrees(r)
  BY <1>12, SaveIs DEF t
<1> HIDE DEF r
<1>14. Ids(q.file[b]) = Ids(old)
  <2>1. q.cache.who # None /\ q.cache.folder # None
    BY PostOfficeAssumption DEF Boxes, Folders
  <2> QED
    BY <1>1, <2>1 DEF Agrees
<1>15. DOMAIN q.file[b] = 1 .. N /\ \A i \in 1 .. N : q.file[b][i].id = old[i].id
  <2> HIDE DEF old
  <2> QED
    BY <1>1, <1>14, IdsAre
<1> DEFINE left == {i \in 1 .. N : i \notin del}
<1>16. /\ \E g \in [left -> DOMAIN r.file[b]] :
            /\ \A i, j \in left : g[i] = g[j] => i = j
            /\ \A i \in left : r.file[b][g[i]].id = old[i].id
       /\ \A k \in DOMAIN r.file[b] : \E i \in left : r.file[b][k].id = old[i].id
  <2> DEFINE s == t.cache.box
  <2>1. /\ \E g \in [left -> DOMAIN s] :
             /\ \A i, j \in left : g[i] = g[j] => i = j
             /\ \A i \in left : s[g[i]].id = old[i].id
        /\ \A k \in DOMAIN s : \E i \in left : s[k].id = old[i].id
    BY <1>12 DEF BoxFrom
  <2>2. r.file[b] = s
    BY <1>13
  <2> HIDE DEF s, left, old
  <2> QED
    BY <2>1, <2>2
<1> HIDE DEF left
<1>17. ASSUME NEW l \in Letters, l \in Listed(r, b)
       PROVE  \E i \in DOMAIN old : i \notin del /\ old[i].id = l
  <2>1. PICK k \in DOMAIN r.file[b] : r.file[b][k].id = l
    BY <1>17 DEF Listed
  <2> QED
    BY <1>1, <1>16, <2>1 DEF left
<1>18. ASSUME NEW l \in Letters, \A i \in DOMAIN old : i \in del => old[i].id # l
       PROVE  Cardinality(Copies(q, b, l)) <= Cardinality(Copies(r, b, l))
  <2>1. PICK g \in [left -> DOMAIN r.file[b]] :
            /\ \A i, j \in left : g[i] = g[j] => i = j
            /\ \A i \in left : r.file[b][g[i]].id = old[i].id
    BY <1>16
  <2> DEFINE h == [i \in Copies(q, b, l) |-> g[i]]
  <2>2. ASSUME NEW i \in Copies(q, b, l) PROVE i \in left /\ g[i] \in Copies(r, b, l)
    <3>1. i \in 1 .. N /\ old[i].id = l
      BY <1>15 DEF Copies
    <3>2. i \in left
      BY <1>1, <1>18, <3>1 DEF left
    <3> QED
      BY <2>1, <3>1, <3>2 DEF Copies
  <2>3. h \in [Copies(q, b, l) -> Copies(r, b, l)]
    BY <2>2
  <2>4. ASSUME NEW x \in Copies(q, b, l), NEW y \in Copies(q, b, l), h[x] = h[y] PROVE x = y
    BY <2>1, <2>2, <2>4
  <2> HIDE DEF h
  <2> QED
    BY <1>13, <2>3, <2>4, CopiesFinite, Injected
<1>19. ASSUME NEW l \in Letters, NEW c \in q.refs[l]
       PROVE  c \in r.refs[l] \/ (c = b /\ \E i \in DOMAIN old : i \in del /\ old[i].id = l)
  BY <1>1, <1>12, <1>13 DEF RefsFrom
<1>20. Recorded(r)
  <2>1. ASSUME NEW l \in Letters, NEW c \in r.refs[l] PROVE l \in r.kept /\ l \in Listed(r, c)
    <3>1. l \in r.kept /\ c \in q.refs[l]
      BY <1>12, <1>13 DEF RefsFrom
    <3>2. l \in Listed(q, c) /\ c \in Boxes
      BY <1>1, <3>1, PostsAre DEF Recorded
    <3>3. CASE c # b
      BY <1>13, <3>1, <3>2, <3>3 DEF Listed
    <3>4. CASE c = b
      <4>1. PICK i \in 1 .. N : old[i].id = l
        BY <1>15, <3>2, <3>4 DEF Listed
      <4>2. i \notin del
        BY <1>12, <1>13, <3>4, <4>1 DEF RefsFrom
      <4>3. i \in left
        BY <4>2 DEF left
      <4> QED
        BY <1>16, <3>1, <3>4, <4>1, <4>3 DEF Listed
    <3> QED
      BY <3>3, <3>4
  <2> QED
    BY <2>1 DEF Recorded
<1>21. r \in GoodPosts
  BY <1>13, <1>20 DEF GoodPosts
<1> QED
  BY <1>0, <1>13, <1>17, <1>18, <1>19, <1>21 DEF r

-----------------------------------------------------------------------------
(* The inductive invariant.                                                *)

\* A handler of mailer m waits for user u, and m is his.
Asks == [u \in Users |-> {m \in Mailers : \E i \in DOMAIN prompts[u] : prompts[u][i].m = m}]
Active == [u \in Users |-> {m \in Asks[u] : Owner(m) = u}]

\* What a mailer shows of a folder: it may be behind, and when it is not it has the same
\* letters at the same indexes.
Fits(s, t) == Len(s) <= Len(t) /\ (Len(s) = Len(t) => Ids(s) = Ids(t))

\* All handlers that wait for a user are those of one mailer.
OneMailer == \A u \in Users : \A i, j \in DOMAIN prompts[u] : prompts[u][i].m = prompts[u][j].m

\* The handler that takes a letter's last command gets the next line or none, and there
\* is a letter.
Writes ==
  \A u \in Users : \A i \in DOMAIN prompts[u] : prompts[u][i].fn = "write" =>
    i = 1 /\ (Owner(prompts[u][1].m) = u => draft[prompts[u][1].m] # None)

\* save_box deletes what was marked: a mailer that can still get there has not lost track
\* of its folder.
Track ==
  \A u \in Users, m \in Mailers : m \in Active[u] /\ where[m].folder # None =>
    Fits(box[m], post.file[<<u, where[m].folder>>])

\* The letters that anybody can get at were begun, and those being written are not among
\* them.
Known ==
  {l \in Letters : \/ \E m \in Mailers : \E i \in DOMAIN box[m] : box[m][i].id = l
                  \/ \E b \in Boxes : l \in Listed(post, b)}

Drafts ==
  /\ \A l \in Known : l <= begun
  /\ \A m \in Mailers : draft[m] # None =>
       /\ draft[m] <= begun /\ draft[m] \notin Known
       /\ \A n \in Mailers : draft[n] = draft[m] => n = m

IInv ==
  /\ TypeOK /\ post \in GoodPosts
  /\ OneMailer /\ Writes /\ Track /\ Drafts /\ ShowsNewMail

\* Only save_box takes anything away.
Cleans == \E u \in Users, m \in Mailers : m \in Active[u] /\ Same(SaveBox(m), post')
PostStep == Grows(post, post') \/ Cleans

-----------------------------------------------------------------------------
(* Types.                                                                  *)

LEMMA Types ==
  ASSUME TypeOK
  PROVE  /\ post \in Posts
         /\ \A m \in Mailers :
              /\ box[m] \in Seq(Lines)
              /\ DOMAIN box[m] = 1 .. Len(box[m]) /\ Len(box[m]) \in Nat
              /\ \A i \in DOMAIN box[m] : box[m][i] \in Lines /\ box[m][i].id \in Letters
              /\ where[m] \in [who : Users \cup {None}, folder : Folders \cup {None},
                               commandLine : BOOLEAN]
              /\ where[m].folder \in Folders \cup {None}
              /\ draft[m] \in Letters \cup {None}
         /\ \A u \in Users :
              /\ prompts[u] \in Seq(Prompts)
              /\ DOMAIN prompts[u] = 1 .. Len(prompts[u]) /\ Len(prompts[u]) \in Nat
              /\ \A i \in DOMAIN prompts[u] : prompts[u][i] \in Prompts
         /\ begun \in Nat /\ MaxLetters \in Nat
<1>1. ASSUME NEW m \in Mailers, NEW i \in DOMAIN box[m]
      PROVE  box[m][i] \in Lines /\ box[m][i].id \in Letters
  <2>1. box[m] \in Seq(Lines)
    BY DEF TypeOK
  <2>2. box[m][i] \in Lines
    BY <2>1
  <2> QED
    BY <2>2 DEF Lines
<1>2. ASSUME NEW u \in Users, NEW i \in DOMAIN prompts[u] PROVE prompts[u][i] \in Prompts
  <2>1. prompts[u] \in Seq(Prompts)
    BY DEF TypeOK
  <2> QED
    BY <2>1
<1>3. \A u \in Users : /\ prompts[u] \in Seq(Prompts)
                       /\ DOMAIN prompts[u] = 1 .. Len(prompts[u]) /\ Len(prompts[u]) \in Nat
  BY DEF TypeOK
<1>4. \A m \in Mailers :
         /\ box[m] \in Seq(Lines)
         /\ DOMAIN box[m] = 1 .. Len(box[m]) /\ Len(box[m]) \in Nat
  BY DEF TypeOK
<1>5. \A m \in Mailers :
              /\ where[m] \in [who : Users \cup {None}, folder : Folders \cup {None},
                               commandLine : BOOLEAN]
              /\ where[m].folder \in Folders \cup {None}
              /\ draft[m] \in Letters \cup {None}
  BY DEF TypeOK
<1>6. post \in Posts /\ begun \in Nat /\ MaxLetters \in Nat
  BY PostOfficeAssumption DEF TypeOK
<1> QED
  BY <1>1, <1>2, <1>3, <1>4, <1>5, <1>6

\* A line goes to the handler that was installed last; those that are installed then are
\* the same mailer's.
LEMMA AnswerKeeps ==
  ASSUME TypeOK, OneMailer, Writes, NEW u \in Users, NEW m \in Mailers,
         prompts[u] # <<>>, Head(prompts[u]).m = m,
         NEW more \in Seq(Prompts), \A i \in DOMAIN more : more[i].m = m, Answer(u, more)
  PROVE  /\ prompts' \in [Users -> Seq(Prompts)] /\ OneMailer'
         /\ \A v \in Users : v # u => prompts'[v] = prompts[v]
         /\ \A i \in DOMAIN prompts'[u] : prompts'[u][i].m = m
         /\ \A i \in DOMAIN prompts'[u] : prompts'[u][i].fn = "write" =>
              i \in DOMAIN more /\ more[i].fn = "write"
         /\ m \in Asks[u]
         /\ \A v \in Users, n \in Mailers : n \in Asks'[v] => n \in Asks[v] /\ (v = u => n = m)
<1> DEFINE old == prompts[u]
           new == more \o Tail(old)
<1>1. old \in Seq(Prompts) /\ Len(old) \in Nat /\ DOMAIN old = 1 .. Len(old) /\ 1 \in DOMAIN old
      /\ old[1] = Head(old) /\ old[1].m = m
  BY Types
<1>2. \A i \in DOMAIN old : old[i].m = m
  BY <1>1 DEF OneMailer
<1>3. \A i \in DOMAIN old : old[i].fn = "write" => i = 1
  BY DEF Writes
<1>4. prompts' = [prompts EXCEPT ![u] = new] /\ prompts \in [Users -> Seq(Prompts)]
  BY DEF Answer, TypeOK
<1> HIDE DEF old
<1>5. /\ Tail(old) \in Seq(Prompts) /\ Len(Tail(old)) = Len(old) - 1
      /\ \A i \in 1 .. Len(old) - 1 : Tail(old)[i] = old[i + 1]
  BY <1>1
<1> DEFINE rest == Tail(old)
<1> HIDE DEF rest
<1>6. /\ more \o rest \in Seq(Prompts) /\ Len(more \o rest) = Len(more) + Len(rest)
      /\ \A i \in 1 .. Len(more) + Len(rest) :
           (more \o rest)[i] = IF i <= Len(more) THEN more[i] ELSE rest[i - Len(more)]
  BY <1>5, ConcatProperties DEF rest
<1>7. new = more \o rest
  BY DEF rest
<1> HIDE DEF new
<1>8. new \in Seq(Prompts) /\ DOMAIN new = 1 .. Len(more) + Len(rest) /\ Len(more) \in Nat
  BY <1>6, <1>7
<1>9. ASSUME NEW i \in DOMAIN new
      PROVE  new[i].m = m /\ (new[i].fn = "write" => i \in DOMAIN more /\ more[i].fn = "write")
  <2>1. CASE i <= Len(more)
    <3>1. i \in DOMAIN more /\ new[i] = more[i]
      BY <1>6, <1>7, <1>8, <2>1
    <3> QED
      BY <3>1
  <2>2. CASE ~(i <= Len(more))
    <3>1. /\ new[i] = rest[i - Len(more)] /\ i - Len(more) \in 1 .. Len(old) - 1
          /\ (i - Len(more)) + 1 \in DOMAIN old /\ (i - Len(more)) + 1 # 1
      BY <1>1, <1>5, <1>6, <1>7, <1>8, <2>2 DEF rest
    <3>2. new[i] = old[(i - Len(more)) + 1]
      BY <1>5, <3>1 DEF rest
    <3> QED
      BY <1>2, <1>3, <3>1, <3>2
  <2> QED
    BY <2>1, <2>2
<1>10. prompts' \in [Users -> Seq(Prompts)] /\ prompts'[u] = new
       /\ \A v \in Users : v # u => prompts'[v] = prompts[v]
  BY <1>4, <1>8
<1>11. OneMailer'
  BY <1>9, <1>10 DEF OneMailer
<1>12. m \in Asks[u]
  BY <1>1 DEF Asks, old
<1>13. \A v \in Users, n \in Mailers : n \in Asks'[v] => n \in Asks[v] /\ (v = u => n = m)
  BY <1>9, <1>10, <1>12 DEF Asks
<1> QED
  BY <1>9, <1>10, <1>11, <1>12, <1>13

-----------------------------------------------------------------------------
(* save_box                                                                *)

LEMMA FitsStill ==
  ASSUME NEW s, NEW s2, NEW t, NEW t2, Fits(s, t), Ids(s2) = Ids(s), Len(s2) = Len(s),
         Len(s) \in Nat, Len(t) \in Nat, Len(t2) \in Nat,
         Len(t) <= Len(t2), Len(t) = Len(t2) => Ids(t) = Ids(t2)
  PROVE  Fits(s2, t2)
BY DEF Fits

\* The loop has nothing to do for a mailer without a folder.
LEMMA DropNone ==
  ASSUME NEW q \in Posts, NEW b, NEW del, q.cache.folder = None, q.cache.box = <<>>
  PROVE  DropPosts(q, b, del) = q
<1> DEFINE old == q.cache.box
           first == [q EXCEPT !.cache.box = <<>>]
           turn[n \in 0 .. Len(old)] ==
             LET i == Len(old) + 1 - n IN
             IF n = 0 THEN first
             ELSE IF i \in del THEN DeleteFolder(turn[n - 1], b, old[i].id)
             ELSE [turn[n - 1] EXCEPT !.cache.box = <<old[i]>> \o @]
           f == [n \in 0 .. Len(old) |-> first]
<1>1. DropPosts(q, b, del) = Save(turn[Len(old)])
  BY DEF DropPosts
<1>2. first = q
  BY DEF Posts
<1>3. Len(old) = 0 /\ \A n \in 0 .. Len(old) : n = 0
  OBVIOUS
<1> DEFINE Turn(t, i) ==
             IF i \in del THEN DeleteFolder(t, b, old[i].id)
             ELSE [t EXCEPT !.cache.box = <<old[i]>> \o @]
<1>4. f = [n \in 0 .. Len(old) |-> IF n = 0 THEN first ELSE Turn(f[n - 1], Len(old) + 1 - n)]
  <2> HIDE DEF Turn, first, old
  <2> QED
    BY <1>3
<1>5. turn = [n \in 0 .. Len(old) |-> IF n = 0 THEN first ELSE Turn(turn[n - 1], Len(old) + 1 - n)]
  <2> HIDE DEF f
  <2> QED
    BY <1>4
<1>6. turn[Len(old)] = q
  <2> HIDE DEF turn, first, Turn
  <2> QED
    BY <1>2, <1>3, <1>5
<1> QED
  BY <1>1, <1>6 DEF Save

LEMMA SaveBoxKeeps ==
  ASSUME TypeOK, post \in GoodPosts, Track, NEW u \in Users, NEW m \in Mailers, m \in Active[u]
  PROVE  LET p == SaveBox(m)
             b == <<u, where[m].folder>> IN
         /\ p \in GoodPosts
         /\ \A c \in Boxes : c # b => p.file[c] = post.file[c]
         /\ \A c \in Boxes : \A l \in Letters : l \in Listed(p, c) => l \in Listed(post, c)
         /\ \A c \in Boxes, l \in Letters :
              \/ Cardinality(Copies(post, c, l)) <= Cardinality(Copies(p, c, l))
              \/ c = b /\ \E i \in Marked(m) : box[m][i].id = l
         /\ \A l \in Letters : \A c \in post.refs[l] :
              l \in Listed(p, c) => c \in p.refs[l] \/ Cardinality(Copies(post, c, l)) > 1
<1> DEFINE folder == where[m].folder
           b == <<u, folder>>
           q == Load(post, u, folder)
           old == q.cache.box
           del == Marked(m)
           p == SaveBox(m)
<1>1. Owner(m) = u /\ post \in Posts /\ folder \in Folders \cup {None}
  BY Types DEF Active
<1>2. /\ q \in GoodPosts /\ q \in Posts /\ Same(post, q) /\ q.file = post.file /\ q.refs = post.refs
      /\ q.cache.who = u /\ q.cache.folder = folder
      /\ folder # None => Ids(old) = Ids(post.file[b])
      /\ folder = None => old = <<>>
  BY <1>1, LoadKeeps DEF GoodPosts
<1>3. p = IF Len(box[m]) # Len(old) THEN q ELSE DropPosts(q, b, del)
  BY <1>1 DEF SaveBox, DeletePosts
<1> HIDE DEF q, p
<1>4. ASSUME p = q
      PROVE  /\ p \in GoodPosts /\ p.file = post.file /\ p.refs = post.refs
             /\ \A c \in Boxes, l \in Letters : Copies(post, c, l) = Copies(p, c, l)
             /\ \A c \in Boxes : Listed(p, c) = Listed(post, c)
  BY <1>2, <1>4 DEF Copies, Listed
<1>5. CASE p = q
  <2>1. ASSUME NEW c \in Boxes, NEW l \in Letters
        PROVE  Cardinality(Copies(post, c, l)) <= Cardinality(Copies(p, c, l))
    <3>1. Cardinality(Copies(post, c, l)) \in Nat
      BY <1>1, CopiesFinite
    <3> QED
      BY <1>4, <1>5, <3>1
  <2> QED
    BY <1>4, <1>5, <2>1 DEF p
<1>6. CASE folder = None
  BY <1>2, <1>3, <1>5, <1>6, DropNone
<1>7. CASE p # q /\ folder # None
  <2>1. p = DropPosts(q, b, del) /\ Len(box[m]) = Len(old) /\ b \in Boxes /\ folder # None
    BY <1>1, <1>3, <1>7 DEF Boxes
  <2>2. post.file[b] \in Seq(Entries) /\ old \in Seq(Entries) /\ box[m] \in Seq(Lines)
    BY <1>1, <1>2, <2>1, PostsAre, Types
  <2>3. Len(old) = Len(post.file[b])
    <3>1. DOMAIN old = DOMAIN post.file[b]
      BY <1>2, <2>1, IdsAre
    <3> QED
      BY <2>2, <3>1
  <2>4. Ids(box[m]) = Ids(old)
    BY <1>1, <1>2, <2>1, <2>3 DEF Track, Fits
  <2>5. DOMAIN box[m] = DOMAIN old /\ \A i \in DOMAIN old : box[m][i].id = old[i].id
    BY <2>4, IdsAre
  <2>6. DOMAIN old = DOMAIN post.file[b] /\ \A i \in DOMAIN old : old[i].id = post.file[b][i].id
    BY <1>2, <2>1, IdsAre
  <2>7. \A i \in DOMAIN old : i \in del => i \in Marked(m)
    OBVIOUS
  <2> HIDE DEF b, del
  <2>8. /\ p \in GoodPosts
        /\ \A c \in Boxes : c # b => p.file[c] = q.file[c]
        /\ \A l \in Letters : l \in Listed(p, b) => \E i \in DOMAIN old : i \notin del /\ old[i].id = l
        /\ \A l \in Letters : (\A i \in DOMAIN old : i \in del => old[i].id # l) =>
             Cardinality(Copies(q, b, l)) <= Cardinality(Copies(p, b, l))
        /\ \A l \in Letters : \A c \in q.refs[l] :
             c \in p.refs[l] \/ (c = b /\ \E i \in DOMAIN old : i \in del /\ old[i].id = l)
    BY <1>2, <2>1, DropPostsKeeps DEF b
  <2>9. \A c \in Boxes : c # b => p.file[c] = post.file[c]
    BY <1>2, <2>8
  <2>10. ASSUME NEW c \in Boxes, NEW l \in Letters, l \in Listed(p, c) PROVE l \in Listed(post, c)
    <3>1. CASE c = b
      BY <2>6, <2>8, <2>10, <3>1 DEF Listed
    <3>2. CASE c # b
      BY <2>9, <2>10, <3>2 DEF Listed
    <3> QED
      BY <3>1, <3>2
  <2>11. ASSUME NEW c \in Boxes, NEW l \in Letters
         PROVE  \/ Cardinality(Copies(post, c, l)) <= Cardinality(Copies(p, c, l))
                \/ c = b /\ \E i \in Marked(m) : box[m][i].id = l
    <3>1. CASE c # b
      <4>1. Copies(post, c, l) = Copies(p, c, l) /\ Cardinality(Copies(post, c, l)) \in Nat
        BY <1>1, <2>9, <3>1, CopiesFinite DEF Copies
      <4> QED
        BY <4>1
    <3>2. CASE c = b /\ \E i \in DOMAIN old : i \in del /\ old[i].id = l
      BY <2>5, <2>7, <3>2
    <3>3. CASE c = b /\ \A i \in DOMAIN old : i \in del => old[i].id # l
      <4>1. Copies(q, b, l) = Copies(post, b, l)
        BY <1>2 DEF Copies
      <4> QED
        BY <2>8, <3>3, <4>1
    <3> QED
      BY <3>1, <3>2, <3>3
  <2>12. ASSUME NEW l \in Letters, NEW c \in post.refs[l], l \in Listed(p, c), c \notin p.refs[l]
         PROVE  Cardinality(Copies(post, c, l)) > 1
    <3>1. c = b /\ \E i \in DOMAIN old : i \in del /\ old[i].id = l
      BY <1>2, <2>8, <2>12
    <3>2. PICK i \in DOMAIN old : i \in del /\ old[i].id = l
      BY <3>1
    <3>3. PICK j \in DOMAIN old : j \notin del /\ old[j].id = l
      BY <2>8, <2>12, <3>1
    <3>4. i \in Copies(post, c, l) /\ j \in Copies(post, c, l) /\ i # j
      BY <2>6, <3>1, <3>2, <3>3 DEF Copies
    <3>5. IsFiniteSet(Copies(post, c, l))
      BY <1>1, <2>1, <3>1, CopiesFinite
    <3> QED
      BY <3>4, <3>5, TwoIn
  <2> QED
    BY <2>8, <2>9, <2>10, <2>11, <2>12 DEF p, b
<1> QED
  BY <1>5, <1>6, <1>7

-----------------------------------------------------------------------------
(* What the steps have in common.                                          *)

\* What a mailer shows after a step is the folder as it is, or what it showed before of
\* a folder that has lost nothing.
Seen(v, n) ==
  where'[n].folder # None => Ids(box'[n]) = Ids(post'.file[<<v, where'[n].folder>>])

Kept(v, n) ==
  LET b == <<v, where[n].folder>> IN
  /\ n \in Active[v] /\ where'[n] = where[n] /\ Ids(box'[n]) = Ids(box[n])
  /\ where[n].folder # None =>
       /\ Len(post.file[b]) <= Len(post'.file[b])
       /\ Len(post.file[b]) = Len(post'.file[b]) => Ids(post.file[b]) = Ids(post'.file[b])
  /\ contract /\ where[n].folder = "new" /\ Of(v)' = {n} =>
       Of(v) = {n} /\ Ids(post.file[b]) = Ids(post'.file[b])

LEMMA ViewsKeep ==
  ASSUME IInv, TypeOK', contract' = contract,
         \A v \in Users, n \in Mailers : n \in Active'[v] => Seen(v, n) \/ Kept(v, n)
  PROVE  Track' /\ ShowsNewMail'
<1> USE DEF IInv
<1>1. ASSUME NEW v \in Users, NEW n \in Mailers, n \in Active'[v], where'[n].folder # None
      PROVE  Fits(box'[n], post'.file[<<v, where'[n].folder>>])
  <2> DEFINE b == <<v, where'[n].folder>>
  <2>1. b \in Boxes
    BY <1>1 DEF Boxes, TypeOK
  <2>2. /\ post.file[b] \in Seq(Entries) /\ post'.file[b] \in Seq(Entries)
        /\ box[n] \in Seq(Lines) /\ box'[n] \in Seq(Lines)
    BY <2>1, PostsAre DEF TypeOK
  <2> HIDE DEF b
  <2>3. /\ Len(post.file[b]) \in Nat /\ Len(post'.file[b]) \in Nat
        /\ Len(box[n]) \in Nat /\ DOMAIN box[n] = 1 .. Len(box[n])
        /\ Len(box'[n]) \in Nat /\ DOMAIN box'[n] = 1 .. Len(box'[n])
        /\ DOMAIN post'.file[b] = 1 .. Len(post'.file[b])
    BY <2>2
  <2>4. CASE Seen(v, n)
    <3>1. Ids(box'[n]) = Ids(post'.file[b])
      BY <1>1, <2>4 DEF Seen, b
    <3>2. DOMAIN box'[n] = DOMAIN post'.file[b]
      BY <3>1, IdsAre
    <3>3. Len(box'[n]) = Len(post'.file[b])
      BY <2>3, <3>2
    <3> QED
      BY <2>3, <3>1, <3>3 DEF Fits, b
  <2>5. CASE Kept(v, n)
    <3>1. /\ n \in Active[v] /\ where'[n] = where[n] /\ Ids(box'[n]) = Ids(box[n])
          /\ Len(post.file[b]) <= Len(post'.file[b])
          /\ Len(post.file[b]) = Len(post'.file[b]) => Ids(post.file[b]) = Ids(post'.file[b])
      BY <1>1, <2>5 DEF Kept, b
    <3>2. Fits(box[n], post.file[b])
      BY <1>1, <3>1 DEF Track, b
    <3>3. DOMAIN box'[n] = DOMAIN box[n]
      BY <3>1, IdsAre
    <3>4. Len(box'[n]) = Len(box[n])
      BY <2>3, <3>3
    <3> QED
      BY <2>3, <3>1, <3>2, <3>4, FitsStill DEF b
  <2> QED
    BY <1>1, <2>4, <2>5
<1>2. ASSUME contract', NEW u \in Users, NEW m \in Mailers,
             Of(u)' = {m}, where'[m].folder = "new", m \in Asks'[u]
      PROVE  Ids(box'[m]) = Ids(post'.file[<<u, "new">>])
  <2>1. m \in Active'[u]
    BY <1>2 DEF Active, Of
  <2>2. "new" # None
    BY PostOfficeAssumption
  <2>3. CASE Seen(u, m)
    BY <1>2, <2>2, <2>3 DEF Seen
  <2>4. CASE Kept(u, m)
    <3>1. /\ m \in Asks[u] /\ where[m].folder = "new" /\ contract /\ Of(u) = {m}
          /\ Ids(box'[m]) = Ids(box[m])
          /\ Ids(post.file[<<u, "new">>]) = Ids(post'.file[<<u, "new">>])
      BY <1>2, <2>4 DEF Kept, Active
    <3>2. Ids(box[m]) = Ids(post.file[<<u, "new">>])
      BY <3>1 DEF ShowsNewMail, Asks
    <3> QED
      BY <3>1, <3>2
  <2> QED
    BY <2>1, <2>3, <2>4
<1> QED
  BY <1>1, <1>2 DEF Track, ShowsNewMail, Asks

\* One letter at most is begun, or sent.
LEMMA DraftsKeep ==
  ASSUME TypeOK, Drafts, NEW m \in Mailers, begun' \in {begun, begun + 1},
         \A l \in Known' :
           l \in Known \/ (l = draft[m] /\ draft[m] # None /\ draft'[m] = None),
         \A n \in Mailers : \/ draft'[n] = draft[n] \/ draft'[n] = None
                            \/ n = m /\ draft'[n] = begun + 1 /\ begun' = begun + 1
                                     /\ begun < MaxLetters
  PROVE  Drafts'
<1>1. begun \in Nat /\ begun <= begun' /\ begun' \in Nat /\ Letters \subseteq Nat
      /\ \A n \in Mailers : draft[n] \in Letters \cup {None}
  BY Types DEF Letters
<1>2. ASSUME NEW l \in Known' PROVE l <= begun
  <2>1. CASE l \in Known
    BY <2>1 DEF Drafts
  <2>2. CASE l = draft[m] /\ draft[m] # None
    BY <2>2 DEF Drafts
  <2> QED
    BY <1>2, <2>1, <2>2
<1>3. ASSUME NEW n \in Mailers, draft'[n] # None
      PROVE  /\ draft'[n] <= begun' /\ draft'[n] \notin Known'
             /\ \A k \in Mailers : draft'[k] = draft'[n] => k = n
  <2>1. CASE draft'[n] = draft[n]
    <3>1. /\ draft[n] \in Letters /\ draft[n] <= begun /\ draft[n] \notin Known
          /\ \A k \in Mailers : draft[k] = draft[n] => k = n
      BY <1>1, <1>3, <2>1 DEF Drafts
    <3>2. draft[n] \in Nat
      BY <1>1, <3>1
    <3>3. ASSUME draft[n] \in Known' PROVE FALSE
      <4>1. draft[n] = draft[m] /\ draft'[m] = None
        BY <3>1, <3>3
      <4> QED
        BY <1>3, <3>1, <4>1
    <3>4. ASSUME NEW k \in Mailers, draft'[k] = draft'[n] PROVE k = n
      <4>1. CASE draft'[k] = draft[k]
        BY <2>1, <3>1, <3>4, <4>1
      <4>2. CASE draft'[k] = begun + 1
        BY <1>1, <2>1, <3>1, <3>2, <3>4, <4>2
      <4> QED
        BY <1>3, <3>4, <4>1, <4>2
    <3> QED
      BY <1>1, <2>1, <3>1, <3>2, <3>3, <3>4
  <2>2. CASE draft'[n] # draft[n]
    <3>1. n = m /\ draft'[n] = begun + 1 /\ begun' = begun + 1 /\ begun < MaxLetters
      BY <1>3, <2>2
    <3>2. draft'[n] \in Letters
      BY <1>1, <3>1, Types DEF Letters
    <3>3. draft'[n] \notin Known'
      BY <1>1, <1>2, <3>1, <3>2
    <3>4. ASSUME NEW k \in Mailers, draft'[k] = draft'[n] PROVE k = n
      <4>1. CASE draft'[k] = draft[k]
        <5>1. draft[k] <= begun
          BY <1>3, <3>4, <4>1 DEF Drafts
        <5> QED
          BY <1>1, <3>1, <3>4, <4>1, <5>1
      <4>2. CASE k = m
        BY <3>1, <4>2
      <4> QED
        BY <1>3, <3>4, <4>1, <4>2
    <3> QED
      BY <1>1, <3>1, <3>3, <3>4
  <2> QED
    BY <2>1, <2>2
<1>4. \A l \in Known' : l <= begun'
  BY <1>1, <1>2 DEF Known
<1> QED
  BY <1>3, <1>4 DEF Drafts

\* What is known of a letter that no step hides.
LEMMA KnownFrom ==
  ASSUME TypeOK, TypeOK', NEW l \in Letters, NEW k,
         \A n \in Mailers : box'[n] = <<>> \/ Ids(box'[n]) = Ids(box[n])
                              \/ \E b \in Boxes : Ids(box'[n]) = Ids(post'.file[b]),
         \A b \in Boxes : l \in Listed(post', b) => l \in Listed(post, b) \/ l = k,
         l \in Known'
  PROVE  l \in Known \/ l = k
<1>1. ASSUME NEW b \in Boxes, l \in Listed(post', b) PROVE l \in Known \/ l = k
  BY <1>1 DEF Known
<1>2. ASSUME NEW n \in Mailers, NEW i \in DOMAIN box'[n], box'[n][i].id = l PROVE l \in Known \/ l = k
  <2>1. CASE box'[n] = <<>>
    BY <1>2, <2>1
  <2>2. CASE Ids(box'[n]) = Ids(box[n])
    <3>1. i \in DOMAIN box[n] /\ box[n][i].id = l
      BY <1>2, <2>2, IdsAre
    <3> QED
      BY <3>1 DEF Known
  <2>3. ASSUME NEW b \in Boxes, Ids(box'[n]) = Ids(post'.file[b]) PROVE l \in Known \/ l = k
    <3>1. i \in DOMAIN post'.file[b] /\ post'.file[b][i].id = l
      BY <1>2, <2>3, IdsAre
    <3>2. l \in Listed(post', b)
      BY <3>1 DEF Listed
    <3> QED
      BY <1>1, <3>2
  <2> QED
    BY <2>1, <2>2, <2>3
<1> QED
  BY <1>1, <1>2 DEF Known

\* A step that leaves the mail and what the mailers show of it as they are.
LEMMA LinesKeep ==
  ASSUME IInv, TypeOK', OneMailer', Writes', Drafts',
         \A v \in Users, n \in Mailers : n \in Asks'[v] => n \in Asks[v],
         post' \in GoodPosts, Same(post, post'), \A n \in Mailers : Ids(box'[n]) = Ids(box[n]),
         where' = where, contract' = contract
  PROVE  IInv' /\ PostStep
<1>1. post \in Posts /\ post' \in Posts /\ TypeOK
  BY DEF IInv, GoodPosts
<1>2. Grows(post, post')
  BY <1>1, SameGrows
<1>3. ASSUME NEW v \in Users, NEW n \in Mailers, n \in Active'[v] PROVE Kept(v, n)
  <2> DEFINE b == <<v, where[n].folder>>
  <2>1. n \in Active[v] /\ Of(v)' = Of(v)
    BY <1>3 DEF Active, Of, Owner
  <2>2. ASSUME where[n].folder # None
        PROVE  /\ Ids(post.file[b]) = Ids(post'.file[b])
               /\ Len(post.file[b]) <= Len(post'.file[b])
    <3>1. b \in Boxes
      BY <1>1, <2>2, Types DEF Boxes
    <3> QED
      BY <1>2, <3>1 DEF Same, Grows
  <2>3. "new" # None
    BY PostOfficeAssumption
  <2> QED
    BY <2>1, <2>2, <2>3 DEF Kept
<1>4. Track' /\ ShowsNewMail'
  BY <1>3, ViewsKeep
<1> QED
  BY <1>2, <1>4 DEF IInv, PostStep

\* The handlers of mailer m other than the one for a letter's last command.
Theirs(m) == {x \in Prompts : x.m = m /\ x.fn # "write"}

\* A line after which the mailer does not wait for a letter's last command.
LEMMA TheirsKeep ==
  ASSUME IInv, NEW u \in Users, NEW m \in Mailers, prompts[u] # <<>>, Head(prompts[u]).m = m,
         NEW more \in Seq(Theirs(m)), Answer(u, more)
  PROVE  /\ prompts' \in [Users -> Seq(Prompts)] /\ OneMailer'
         /\ \A v \in Users : v # u => prompts'[v] = prompts[v]
         /\ \A i \in DOMAIN prompts'[u] : prompts'[u][i].fn # "write"
         /\ m \in Asks[u]
         /\ \A v \in Users, n \in Mailers : n \in Asks'[v] => n \in Asks[v] /\ (v = u => n = m)
<1> USE DEF IInv
<1>1. more \in Seq(Prompts) /\ \A i \in DOMAIN more : more[i].m = m /\ more[i].fn # "write"
  <2>1. \A i \in DOMAIN more : more[i] \in Theirs(m)
    OBVIOUS
  <2>2. Theirs(m) \subseteq Prompts
    BY DEF Theirs
  <2> QED
    BY <2>1, <2>2, SeqMonotonic DEF Theirs
<1>2. /\ prompts' \in [Users -> Seq(Prompts)] /\ OneMailer'
      /\ \A v \in Users : v # u => prompts'[v] = prompts[v]
      /\ \A i \in DOMAIN prompts'[u] : prompts'[u][i].fn # "write"
      /\ m \in Asks[u]
      /\ \A v \in Users, n \in Mailers : n \in Asks'[v] => n \in Asks[v] /\ (v = u => n = m)
  <2>1. TypeOK /\ OneMailer /\ Writes
    OBVIOUS
  <2>2. \A i \in DOMAIN more : more[i].m = m
    BY <1>1
  <2> HIDE DEF IInv
  <2>3. /\ prompts' \in [Users -> Seq(Prompts)] /\ OneMailer'
        /\ \A v \in Users : v # u => prompts'[v] = prompts[v]
    BY <1>1, <2>1, <2>2, AnswerKeeps
  <2>4. \A i \in DOMAIN prompts'[u] : prompts'[u][i].fn = "write" =>
             i \in DOMAIN more /\ more[i].fn = "write"
    BY <1>1, <2>1, <2>2, AnswerKeeps
  <2>5. /\ m \in Asks[u]
        /\ \A v \in Users, n \in Mailers : n \in Asks'[v] => n \in Asks[v] /\ (v = u => n = m)
    BY <1>1, <2>1, <2>2, AnswerKeeps
  <2> QED
    BY <1>1, <2>3, <2>4, <2>5
<1> QED
  BY <1>2

\* A line that leaves them so.
LEMMA QuietKeeps ==
  ASSUME IInv, NEW u \in Users, NEW m \in Mailers, prompts[u] # <<>>, Head(prompts[u]).m = m,
         NEW more \in Seq(Theirs(m)), Answer(u, more),
         post' \in GoodPosts, Same(post, post'), box' \in [Mailers -> Seq(Lines)],
         \A n \in Mailers : Ids(box'[n]) = Ids(box[n]), shares' \subseteq Mailers, told' \subseteq Mailers,
         where' = where, contract' = contract, draft' = draft, begun' = begun
  PROVE  IInv' /\ PostStep
<1> USE DEF IInv
<1>2. /\ prompts' \in [Users -> Seq(Prompts)] /\ OneMailer'
      /\ \A v \in Users : v # u => prompts'[v] = prompts[v]
      /\ \A i \in DOMAIN prompts'[u] : prompts'[u][i].fn # "write"
      /\ \A v \in Users, n \in Mailers : n \in Asks'[v] => n \in Asks[v]
  <2> HIDE DEF IInv
  <2> QED
    BY TheirsKeep
<1>3. TypeOK'
  BY <1>2 DEF TypeOK, GoodPosts
<1>4. Writes'
  BY <1>2 DEF Writes, Owner
<1>5. Drafts'
  <2>1. ASSUME NEW l \in Known' PROVE l \in Known
    <3>1. l \in Letters
      BY DEF Known
    <3>2. \A b \in Boxes : Listed(post', b) = Listed(post, b)
      BY SameGrows DEF GoodPosts
    <3>3. l \in Known \/ l = 0
      BY <1>3, <2>1, <3>1, <3>2, KnownFrom
    <3> QED
      BY <3>1, <3>3 DEF Letters
  <2> QED
    BY <2>1, DraftsKeep
<1> QED
  BY <1>2, <1>3, <1>4, <1>5, LinesKeep

-----------------------------------------------------------------------------
(* Lines and handlers.                                                     *)

LEMMA MarkIs ==
  ASSUME NEW s \in Seq(Lines), NEW S, NEW d \in BOOLEAN
  PROVE  Mark(s, S, d) \in Seq(Lines) /\ Ids(Mark(s, S, d)) = Ids(s)
<1> DEFINE t == Mark(s, S, d)
<1>1. ASSUME NEW i \in DOMAIN s PROVE t[i] \in Lines /\ t[i].id = s[i].id
  <2>1. s[i] \in Lines
    OBVIOUS
  <2>2. t[i] = IF i \in S THEN [s[i] EXCEPT !.del = d] ELSE s[i]
    BY DEF Mark
  <2> HIDE DEF t
  <2> QED
    BY <2>1, <2>2 DEF Lines
<1>2. DOMAIN t = DOMAIN s /\ DOMAIN s = 1 .. Len(s) /\ Len(s) \in Nat
  BY DEF Mark
<1>3. t \in Seq(Lines)
  <2>1. t = [i \in 1 .. Len(s) |-> t[i]]
    BY <1>2 DEF Mark
  <2> HIDE DEF t
  <2> QED
    BY <1>1, <1>2, <2>1
<1> HIDE DEF t
<1> QED
  BY <1>1, <1>2, <1>3, IdsFrom DEF t

LEMMA ReadIs ==
  ASSUME NEW s \in Seq(Lines), NEW x \in DOMAIN s
  PROVE  [s EXCEPT ![x].read = TRUE] \in Seq(Lines) /\ Ids([s EXCEPT ![x].read = TRUE]) = Ids(s)
<1> DEFINE e == [s[x] EXCEPT !.read = TRUE]
           t == [s EXCEPT ![x] = e]
<1>1. s[x] \in Lines
  OBVIOUS
<1>2. e \in Lines /\ e.id = s[x].id
  BY <1>1 DEF Lines
<1>3. t = [s EXCEPT ![x].read = TRUE]
  OBVIOUS
<1> HIDE DEF e
<1>4. t \in Seq(Lines) /\ DOMAIN t = DOMAIN s /\ \A i \in DOMAIN t : t[i].id = s[i].id
  BY <1>2
<1> HIDE DEF t
<1> QED
  BY <1>3, <1>4, IdsFrom

\* One mailer's lines are replaced.
LEMMA BoxWith ==
  ASSUME TypeOK, NEW m \in Mailers, NEW s \in Seq(Lines), Ids(s) = Ids(box[m]),
         box' = [box EXCEPT ![m] = s]
  PROVE  box' \in [Mailers -> Seq(Lines)] /\ \A n \in Mailers : Ids(box'[n]) = Ids(box[n])
BY DEF TypeOK

LEMMA AskIs ==
  ASSUME NEW m \in Mailers
  PROVE  /\ <<>> \in Seq(Theirs(m))
         /\ <<Ask(m, "index")>> \in Seq(Theirs(m))
         /\ <<Ask(m, "confirm_delete")>> \in Seq(Theirs(m))
         /\ <<Prompt(m, "next_folder", None, <<0, 0>>)>> \in Seq(Theirs(m))
         /\ \A f \in Folders \cup {None} : AskWith(m, "next_folder", f, <<0, 0>>) \in Seq(Theirs(m))
         /\ \A c \in {"q", "Q"} : AskWith(m, "confirm_quit", c, <<0, 0>>) \in Seq(Theirs(m))
         /\ \A i, j \in Nat : AskWith(m, "unread_delete", None, <<i, j>>) \in Seq(Theirs(m))
         /\ \A n \in Nat : [i \in 1 .. n |-> Ask(m, "index")] \in Seq(Theirs(m))
<1>1. /\ Ask(m, "index") \in Theirs(m) /\ Ask(m, "confirm_delete") \in Theirs(m)
      /\ Prompt(m, "next_folder", None, <<0, 0>>) \in Theirs(m)
  BY DEF Theirs, Prompts, Ask, Prompt
<1>2. \A f \in Folders \cup {None} : Prompt(m, "next_folder", f, <<0, 0>>) \in Theirs(m)
  BY DEF Theirs, Prompts, Prompt
<1>3. \A c \in {"q", "Q"} : Prompt(m, "confirm_quit", c, <<0, 0>>) \in Theirs(m)
  BY DEF Theirs, Prompts, Prompt
<1>4. \A i, j \in Nat : Prompt(m, "unread_delete", None, <<i, j>>) \in Theirs(m)
  BY DEF Theirs, Prompts, Prompt
<1>5. \A n \in Nat : [i \in 1 .. n |-> Ask(m, "index")] \in Seq(Theirs(m))
  BY <1>1
<1> QED
  BY <1>1, <1>2, <1>3, <1>4, <1>5 DEF AskWith

LEMMA AgainIs ==
  ASSUME NEW m \in Mailers, NEW S, IsFiniteSet(S)
  PROVE  Again(S, m) \in Seq(Theirs(m))
<1>1. Cardinality(S) \in Nat
  BY FS_CardinalityType
<1> QED
  BY <1>1, AskIs DEF Again

LEMMA BothIn ==
  ASSUME NEW m, NEW s \in Seq(Theirs(m)), NEW t \in Seq(Theirs(m))
  PROVE  s \o t \in Seq(Theirs(m))
OBVIOUS

\* What a handler's line starts from.
LEMMA AwaitsIs ==
  ASSUME TypeOK, NEW u \in Users, NEW m, m \in Asking(u), NEW fn, Awaits(u, m, fn)
  PROVE  /\ m \in Mailers /\ prompts[u] # <<>> /\ Head(prompts[u]) \in Prompts
         /\ Head(prompts[u]).m = m /\ Head(prompts[u]).fn = fn /\ m \in Active[u]
<1>1. /\ prompts[u] \in Seq(Prompts) /\ prompts[u] # <<>> /\ Head(prompts[u]).m = m
      /\ Head(prompts[u]).fn = fn /\ Owner(m) = u
  BY Types DEF Awaits
<1>2. /\ Head(prompts[u]) \in Prompts /\ 1 \in DOMAIN prompts[u]
      /\ prompts[u][1] = Head(prompts[u])
  BY <1>1
<1>3. m \in Mailers
  BY <1>1, <1>2 DEF Prompts
<1> QED
  BY <1>1, <1>2, <1>3 DEF Active, Asks


-----------------------------------------------------------------------------
(* Lines that leave the mail and the mailers' letters as they are.         *)

LEMMA OnlyAsksKeeps ==
  ASSUME IInv, NEW u \in Users, NEW m \in Mailers, prompts[u] # <<>>, Head(prompts[u]).m = m,
         NEW more \in Seq(Theirs(m)), OnlyAsks(u, more)
  PROVE  IInv' /\ PostStep
<1>1. /\ Answer(u, more) /\ post' = post /\ box' = box /\ shares' = shares /\ told' = told
      /\ where' = where /\ contract' = contract /\ draft' = draft /\ begun' = begun
  BY DEF OnlyAsks
<1>2. post \in GoodPosts /\ box \in [Mailers -> Seq(Lines)] /\ shares \subseteq Mailers
      /\ told \subseteq Mailers
  BY DEF IInv, TypeOK
<1>3. Same(post, post)
  BY DEF Same
<1> QED
  BY <1>1, <1>2, <1>3, QuietKeeps

\* A line that only marks letters, or takes the marks off.
LEMMA MarksKeep ==
  ASSUME IInv, NEW u \in Users, NEW m \in Mailers, prompts[u] # <<>>, Head(prompts[u]).m = m,
         NEW more \in Seq(Theirs(m)), Answer(u, more),
         NEW s \in Seq(Lines), Ids(s) = Ids(box[m]), box' = [box EXCEPT ![m] = s],
         UNCHANGED <<contract, post, where, shares, told, draft, begun>>
  PROVE  IInv' /\ PostStep
<1>1. /\ post' = post /\ shares' = shares /\ told' = told
      /\ where' = where /\ contract' = contract /\ draft' = draft /\ begun' = begun
  OBVIOUS
<1>2. post \in GoodPosts /\ shares \subseteq Mailers /\ told \subseteq Mailers /\ TypeOK
  BY DEF IInv, TypeOK
<1>3. Same(post, post)
  BY DEF Same
<1>4. box' \in [Mailers -> Seq(Lines)] /\ \A n \in Mailers : Ids(box'[n]) = Ids(box[n])
  BY <1>2, BoxWith
<1> QED
  BY <1>1, <1>2, <1>3, <1>4, QuietKeeps

LEMMA RefuseKeeps ==
  ASSUME IInv, NEW u \in Users, NEW m \in Asking(u), Refuse(u, m)
  PROVE  IInv' /\ PostStep
<1>1. TypeOK /\ post \in GoodPosts
  BY DEF IInv
<1>2. /\ Answer(u, <<Ask(m, "index")>>) /\ told' = told \ {m} /\ Awaits(u, m, "index")
      /\ UNCHANGED <<contract, post, box, where, shares, draft, begun>>
  BY DEF Refuse
<1>3. m \in Mailers /\ prompts[u] # <<>> /\ Head(prompts[u]).m = m
  BY <1>1, <1>2, AwaitsIs
<1>4. <<Ask(m, "index")>> \in Seq(Theirs(m))
  BY <1>3, AskIs
<1>5. box' \in [Mailers -> Seq(Lines)] /\ shares' \subseteq Mailers /\ told' \subseteq Mailers
  BY <1>1, <1>2 DEF TypeOK
<1>6. Same(post, post') /\ post' \in GoodPosts
  BY <1>1, <1>2 DEF Same
<1>7. \A n \in Mailers : Ids(box'[n]) = Ids(box[n])
  BY <1>2
<1>8. where' = where /\ contract' = contract /\ draft' = draft /\ begun' = begun
  BY <1>2
<1> QED
  BY <1>2, <1>3, <1>4, <1>5, <1>6, <1>7, <1>8, QuietKeeps

LEMMA ReadLetterKeeps ==
  ASSUME IInv, NEW u \in Users, NEW m \in Mailers, prompts[u] # <<>>, Head(prompts[u]).m = m,
         NEW lines \in Seq(Lines), Ids(lines) = Ids(box[m]), NEW x \in DOMAIN lines,
         NEW before \in Seq(Theirs(m)), ReadLetter(u, m, x, lines, before)
  PROVE  IInv' /\ PostStep
<1>1. TypeOK /\ post \in GoodPosts /\ where[m].folder \in Folders \cup {None}
  BY Types DEF IInv
<1> DEFINE S == IF lines[x].read THEN {post} ELSE MarkRead(post, u, where[m].folder, x)
<1>2. PICK p \in S :
        /\ post' = IF m \in Sharing(p)
                   THEN [p EXCEPT !.cache.box =
                          AsRead(@, {i \in DOMAIN @ : @[i].id = lines[x].id})]
                   ELSE p
        /\ shares' = Sharing(p)
        /\ Answer(u, IF ~lines[x].read /\ x \notin DOMAIN p.cache.box THEN before
                     ELSE <<Ask(m, "index")>> \o before)
  BY DEF ReadLetter
<1>3. box' = [box EXCEPT ![m] = [lines EXCEPT ![x].read = TRUE]]
      /\ UNCHANGED <<contract, where, told, draft, begun>>
  BY DEF ReadLetter
<1>4. p \in GoodPosts /\ Same(post, p)
  <2>1. CASE p = post
    BY <1>1, <2>1 DEF Same
  <2>2. CASE p \in MarkRead(post, u, where[m].folder, x)
    BY <1>1, <2>2, MarkReadKeeps
  <2> QED
    BY <2>1, <2>2
<1> DEFINE T == {i \in DOMAIN p.cache.box : p.cache.box[i].id = lines[x].id}
           q == [p EXCEPT !.cache.box = AsRead(p.cache.box, T)]
<1>5. post' = IF m \in Sharing(p) THEN q ELSE p
  BY <1>2
<1> HIDE DEF T
<1>6. p \in Posts /\ p.cache.box \in Seq(Entries)
  BY <1>4, PostsAre DEF GoodPosts
<1>7. q \in GoodPosts /\ Same(p, q)
  BY <1>4, <1>6, AsReadIs, ReadMore
<1> HIDE DEF q
<1>8. post' \in GoodPosts /\ Same(post, post')
  BY <1>4, <1>5, <1>7 DEF Same
<1>9. \E more \in Seq(Theirs(m)) : Answer(u, more)
  <2>1. <<Ask(m, "index")>> \o before \in Seq(Theirs(m))
    BY AskIs, BothIn
  <2> QED
    BY <1>2, <2>1
<1>10. PICK more \in Seq(Theirs(m)) : Answer(u, more)
  BY <1>9
<1>11. box' \in [Mailers -> Seq(Lines)] /\ \A n \in Mailers : Ids(box'[n]) = Ids(box[n])
  <2> DEFINE s == [lines EXCEPT ![x].read = TRUE]
  <2>1. s \in Seq(Lines) /\ Ids(s) = Ids(box[m])
    BY ReadIs
  <2>2. box' = [box EXCEPT ![m] = s]
    BY <1>3
  <2> HIDE DEF s
  <2> QED
    BY <1>1, <2>1, <2>2, BoxWith
<1>12. shares' \subseteq Mailers /\ told' \subseteq Mailers
  BY <1>1, <1>2, <1>3 DEF Sharing, TypeOK
<1>13. where' = where /\ contract' = contract /\ draft' = draft /\ begun' = begun
  BY <1>3
<1> QED
  BY <1>8, <1>10, <1>11, <1>12, <1>13, QuietKeeps

\* A command of the index comes from the mailer that asked for it.
LEMMA CommandIs ==
  ASSUME IInv, NEW u \in Users, NEW m \in Asking(u), Command(u, m)
  PROVE  /\ TypeOK /\ m \in Mailers /\ prompts[u] # <<>> /\ Head(prompts[u]).m = m /\ m \in Active[u]
         /\ box[m] \in Seq(Lines) /\ Len(box[m]) \in Nat /\ DOMAIN box[m] = 1 .. Len(box[m])
<1>1. TypeOK /\ Awaits(u, m, "index")
  BY DEF IInv, Command
<1>2. m \in Mailers /\ prompts[u] # <<>> /\ Head(prompts[u]).m = m /\ m \in Active[u]
  BY <1>1, AwaitsIs
<1> QED
  BY <1>1, <1>2, Types

LEMMA ReadKeeps ==
  ASSUME IInv, NEW u \in Users, NEW m \in Asking(u), NEW x \in DOMAIN box[m], Read(u, m, x)
  PROVE  IInv' /\ PostStep
<1>1. Command(u, m) /\ ReadLetter(u, m, x, box[m], <<>>)
  BY DEF Read
<1>2. /\ m \in Mailers /\ prompts[u] # <<>> /\ Head(prompts[u]).m = m /\ box[m] \in Seq(Lines)
      /\ <<>> \in Seq(Theirs(m))
  BY <1>1, CommandIs, AskIs
<1> QED
  BY <1>1, <1>2, ReadLetterKeeps

LEMMA DeleteAndReadKeeps ==
  ASSUME IInv, NEW u \in Users, NEW m \in Asking(u), NEW x \in DOMAIN box[m], DeleteAndRead(u, m, x)
  PROVE  IInv' /\ PostStep
<1> DEFINE lines == Mark(box[m], {x}, TRUE)
           left == {i \in DOMAIN lines : i > x /\ ~lines[i].del}
           before == Again({i \in {x} : box[m][i].del}, m)
<1>1. Command(u, m) /\ left # {} /\ ReadLetter(u, m, Min(left), lines, before)
  BY DEF DeleteAndRead
<1>2. /\ m \in Mailers /\ prompts[u] # <<>> /\ Head(prompts[u]).m = m /\ box[m] \in Seq(Lines)
  BY <1>1, CommandIs
<1>3. lines \in Seq(Lines) /\ Ids(lines) = Ids(box[m])
  BY <1>2, MarkIs
<1> HIDE DEF lines
<1>4. DOMAIN lines \subseteq Nat
  BY <1>3
<1>5. Min(left) \in left
  BY <1>1, <1>4, MinIs
<1>6. before \in Seq(Theirs(m))
  <2>1. IsFiniteSet({x}) /\ {i \in {x} : box[m][i].del} \subseteq {x}
    BY FS_Singleton
  <2>2. IsFiniteSet({i \in {x} : box[m][i].del})
    BY <2>1, FS_Subset
  <2> QED
    BY <1>2, <2>2, AgainIs
<1> HIDE DEF before
<1>7. Min(left) \in DOMAIN lines
  BY <1>5
<1> HIDE DEF left
<1> QED
  BY <1>1, <1>2, <1>3, <1>6, <1>7, ReadLetterKeeps

LEMMA SaveToFileKeeps ==
  ASSUME IInv, NEW u \in Users, NEW m \in Asking(u), NEW x \in DOMAIN box[m], SaveToFile(u, m, x)
  PROVE  IInv' /\ PostStep
<1> DEFINE lines == Mark(box[m], {x}, TRUE)
<1>1. Command(u, m)
  BY DEF SaveToFile
<1>2. /\ m \in Mailers /\ prompts[u] # <<>> /\ Head(prompts[u]).m = m /\ box[m] \in Seq(Lines)
      /\ <<>> \in Seq(Theirs(m)) /\ <<Ask(m, "index")>> \in Seq(Theirs(m))
  BY <1>1, CommandIs, AskIs
<1>3. lines \in Seq(Lines) /\ Ids(lines) = Ids(box[m])
  BY <1>2, MarkIs
<1>4. DOMAIN lines = DOMAIN box[m]
  BY <1>3, IdsAre
<1>5. CASE ReadLetter(u, m, x, lines, <<>>)
  <2> HIDE DEF lines
  <2> QED
    BY <1>2, <1>3, <1>4, <1>5, ReadLetterKeeps
<1>6. CASE /\ box' = [box EXCEPT ![m] = lines] /\ Answer(u, <<Ask(m, "index")>>)
           /\ UNCHANGED <<contract, post, where, shares, told, draft, begun>>
  <2> HIDE DEF lines
  <2> QED
    BY <1>2, <1>3, <1>6, MarksKeep
<1> QED
  BY <1>5, <1>6 DEF SaveToFile

LEMMA ScanKeeps ==
  ASSUME IInv, NEW u \in Users, NEW m \in Mailers, prompts[u] # <<>>, Head(prompts[u]).m = m,
         NEW lines \in Seq(Lines), Ids(lines) = Ids(box[m]), NEW from \in Nat, NEW to \in Nat,
         Scan(u, m, lines, from, to)
  PROVE  IInv' /\ PostStep
<1> DEFINE asked == {i \in from .. to : ~lines[i].del /\ ~lines[i].read}
           last == IF asked = {} THEN to ELSE Min(asked) - 1
           first == IF asked = {} THEN <<Ask(m, "index")>>
                    ELSE AskWith(m, "unread_delete", None, <<last + 1, to>>)
           S == {i \in from .. last : lines[i].del}
           new == Mark(lines, from .. last, TRUE)
<1>1. /\ box' = [box EXCEPT ![m] = new] /\ Answer(u, first \o Again(S, m))
      /\ UNCHANGED <<contract, post, where, shares, told, draft, begun>>
  BY DEF Scan
<1>2. new \in Seq(Lines) /\ Ids(new) = Ids(box[m])
  <2> HIDE DEF last
  <2> QED
    BY MarkIs
<1> HIDE DEF new
<1>3. asked # {} => Min(asked) \in asked /\ Min(asked) \in Nat
  <2>1. asked \subseteq Nat
    OBVIOUS
  <2> HIDE DEF asked
  <2> QED
    BY <2>1, MinIs
<1> HIDE DEF asked
<1>4. last \in Int /\ (asked # {} => last + 1 \in Nat)
  BY <1>3
<1> HIDE DEF last
<1>5. first \in Seq(Theirs(m))
  BY <1>4, AskIs
<1> HIDE DEF first
<1>6. IsFiniteSet(S)
  <2>1. IsFiniteSet(from .. last) /\ S \subseteq from .. last
    BY <1>4, FS_Interval
  <2> QED
    BY <2>1, FS_Subset
<1> HIDE DEF S
<1>7. first \o Again(S, m) \in Seq(Theirs(m))
  BY <1>5, <1>6, AgainIs, BothIn
<1> QED
  BY <1>1, <1>2, <1>7, MarksKeep

LEMMA DeleteKeeps ==
  ASSUME IInv, NEW u \in Users, NEW m \in Asking(u), NEW x \in DOMAIN box[m], NEW y \in DOMAIN box[m],
         Delete(u, m, x, y)
  PROVE  IInv' /\ PostStep
<1>1. Command(u, m) /\ Scan(u, m, box[m], x, y)
  BY DEF Delete
<1>2. /\ m \in Mailers /\ prompts[u] # <<>> /\ Head(prompts[u]).m = m /\ box[m] \in Seq(Lines)
      /\ x \in Nat /\ y \in Nat
  BY <1>1, CommandIs
<1> QED
  BY <1>1, <1>2, ScanKeeps

LEMMA UndeleteKeeps ==
  ASSUME IInv, NEW u \in Users, NEW m \in Asking(u), NEW x \in DOMAIN box[m], NEW y \in DOMAIN box[m],
         Undelete(u, m, x, y)
  PROVE  IInv' /\ PostStep
<1> DEFINE S == {i \in x .. y : ~box[m][i].del}
           new == Mark(box[m], x .. y, FALSE)
<1>1. /\ Command(u, m) /\ box' = [box EXCEPT ![m] = new]
      /\ Answer(u, <<Ask(m, "index")>> \o Again(S, m))
      /\ UNCHANGED <<contract, post, where, shares, told, draft, begun>>
  BY DEF Undelete
<1>2. /\ m \in Mailers /\ prompts[u] # <<>> /\ Head(prompts[u]).m = m /\ box[m] \in Seq(Lines)
      /\ x \in Nat /\ y \in Nat
  BY <1>1, CommandIs
<1>3. new \in Seq(Lines) /\ Ids(new) = Ids(box[m])
  BY <1>2, MarkIs
<1>4. IsFiniteSet(S)
  <2>1. IsFiniteSet(x .. y) /\ S \subseteq x .. y
    BY <1>2, FS_Interval
  <2> QED
    BY <2>1, FS_Subset
<1> HIDE DEF S, new
<1>5. <<Ask(m, "index")>> \o Again(S, m) \in Seq(Theirs(m))
  BY <1>2, <1>4, AskIs, AgainIs, BothIn
<1> QED
  BY <1>1, <1>2, <1>3, <1>5, MarksKeep

LEMMA UnreadDeleteKeeps ==
  ASSUME IInv, NEW u \in Users, NEW m \in Asking(u), UnreadDelete(u, m)
  PROVE  IInv' /\ PostStep
<1> DEFINE from == Head(prompts[u]).range[1]
           to == Head(prompts[u]).range[2]
<1>1. TypeOK /\ Awaits(u, m, "unread_delete")
  BY DEF IInv, UnreadDelete
<1>2. /\ m \in Mailers /\ prompts[u] # <<>> /\ Head(prompts[u]).m = m /\ box[m] \in Seq(Lines)
      /\ Head(prompts[u]) \in Prompts
  BY <1>1, AwaitsIs, Types
<1>3. from \in Nat /\ to \in Nat
  BY <1>2 DEF Prompts
<1>4. PICK S \in {{}, {from}} :
        LET lines == Mark(box[m], S, TRUE) IN
        IF from < to THEN Scan(u, m, lines, from, to)
        ELSE /\ box' = [box EXCEPT ![m] = lines]
             /\ Answer(u, <<Ask(m, "index")>>)
             /\ UNCHANGED <<contract, post, where, shares, told, draft, begun>>
  BY DEF UnreadDelete
<1> DEFINE lines == Mark(box[m], S, TRUE)
<1>5. lines \in Seq(Lines) /\ Ids(lines) = Ids(box[m])
  BY <1>2, MarkIs
<1> HIDE DEF lines, from, to
<1>6. CASE Scan(u, m, lines, from, to)
  BY <1>2, <1>3, <1>5, <1>6, ScanKeeps
<1>7. CASE /\ box' = [box EXCEPT ![m] = lines] /\ Answer(u, <<Ask(m, "index")>>)
           /\ UNCHANGED <<contract, post, where, shares, told, draft, begun>>
  BY <1>2, <1>5, <1>7, AskIs, MarksKeep
<1> QED
  BY <1>4, <1>6, <1>7 DEF lines, from, to

LEMMA SwallowKeeps ==
  ASSUME IInv, NEW u \in Users, Swallow(u)
  PROVE  IInv' /\ PostStep
<1> DEFINE m == Head(prompts[u]).m
<1>1. prompts[u] # <<>> /\ OnlyAsks(u, <<>>) /\ prompts[u] \in Seq(Prompts)
  BY Types DEF Swallow, IInv
<1>2. Head(prompts[u]) \in Prompts
  BY <1>1
<1>3. m \in Mailers
  BY <1>2 DEF Prompts
<1> QED
  BY <1>1, <1>3, AskIs, OnlyAsksKeeps

-----------------------------------------------------------------------------
(* Lines that write, show or remove a letter.                              *)

LEMMA WritesKeep ==
  ASSUME TypeOK, TypeOK', Writes, NEW u \in Users,
         \A v \in Users : v # u => prompts'[v] = prompts[v],
         \A i \in DOMAIN prompts'[u] : prompts'[u][i].fn = "write" =>
           i = 1 /\ draft'[prompts'[u][1].m] # None,
         \A v \in Users, n \in Mailers : v # u /\ where'[n].who = v =>
           where[n].who = v /\ (draft[n] # None => draft'[n] # None)
  PROVE  Writes'
<1>1. ASSUME NEW v \in Users, NEW i \in DOMAIN prompts'[v], prompts'[v][i].fn = "write"
      PROVE  i = 1 /\ (where'[prompts'[v][1].m].who = v => draft'[prompts'[v][1].m] # None)
  <2>1. CASE v = u
    BY <1>1, <2>1
  <2>2. CASE v # u
    <3>1. /\ prompts'[v] = prompts[v] /\ i = 1
          /\ where[prompts[v][1].m].who = v => draft[prompts[v][1].m] # None
      BY <1>1, <2>2 DEF Writes, Owner
    <3>2. prompts[v][1] \in Prompts
      BY <1>1, <3>1, Types
    <3>3. prompts[v][1].m \in Mailers
      BY <3>2 DEF Prompts
    <3> QED
      BY <2>2, <3>1, <3>3
  <2> QED
    BY <2>1, <2>2
<1> QED
  BY <1>1 DEF Writes, Owner

\* No letter gets known, begun or sent.
LEMMA DraftsStay ==
  ASSUME TypeOK, TypeOK', Drafts, begun' = begun, NEW k,
         \A n \in Mailers : box'[n] = <<>> \/ Ids(box'[n]) = Ids(box[n])
                              \/ \E b \in Boxes : Ids(box'[n]) = Ids(post'.file[b]),
         \A b \in Boxes : \A l \in Letters : l \in Listed(post', b) => l \in Listed(post, b) \/ l = k,
         k \in Letters => k \in Known,
         \A n \in Mailers : draft'[n] \in {draft[n], None}
  PROVE  Drafts'
<1>1. ASSUME NEW l \in Known' PROVE l \in Known
  <2>1. l \in Letters
    BY DEF Known
  <2>2. l \in Known \/ l = k
    BY <1>1, <2>1, KnownFrom
  <2> QED
    BY <2>1, <2>2
<1> QED
  BY <1>1 DEF Drafts

LEMMA MailStatusKeeps ==
  ASSUME IInv, NEW u \in Users, MailStatus(u)
  PROVE  IInv' /\ PostStep
<1> USE DEF IInv
<1>1. /\ post' = Load(post, u, "new") /\ shares' = Sharing(post')
      /\ UNCHANGED <<contract, box, where, told, draft, begun, prompts>>
  BY DEF MailStatus
<1>2. post' \in GoodPosts /\ Same(post, post') /\ post'.file = post.file
  <2>1. "new" \in Folders \cup {None} /\ post \in GoodPosts
    BY DEF Folders
  <2> HIDE DEF IInv
  <2> QED
    BY <1>1, <2>1, LoadKeeps
<1>3. TypeOK'
  BY <1>1, <1>2 DEF TypeOK, GoodPosts, Sharing
<1>4. OneMailer' /\ Writes'
  BY <1>1 DEF OneMailer, Writes, Owner
<1>5. Drafts'
  <2>1. \A b \in Boxes : Listed(post', b) = Listed(post, b)
    BY <1>2 DEF Listed
  <2>2. Known' = Known
    BY <1>1, <2>1 DEF Known
  <2> QED
    BY <1>1, <2>2 DEF Drafts
<1>6. \A v \in Users, n \in Mailers : n \in Asks'[v] => n \in Asks[v]
  BY <1>1 DEF Asks
<1>7. \A n \in Mailers : Ids(box'[n]) = Ids(box[n])
  BY <1>1
<1> QED
  BY <1>1, <1>2, <1>3, <1>4, <1>5, <1>6, <1>7, LinesKeep

LEMMA WriteKeeps ==
  ASSUME IInv, NEW u \in Users, NEW m \in Asking(u), Write(u, m)
  PROVE  IInv' /\ PostStep
<1> DEFINE more == <<Ask(m, "write")>>
<1>1. /\ TypeOK /\ m \in Mailers /\ prompts[u] # <<>> /\ Head(prompts[u]).m = m
      /\ Owner(m) = u /\ OneMailer /\ Writes /\ Drafts
  BY CommandIs DEF Write, IInv, Active
<1>2. /\ begun < MaxLetters /\ begun' = begun + 1 /\ draft' = [draft EXCEPT ![m] = begun + 1]
      /\ Answer(u, more) /\ UNCHANGED <<contract, post, box, where, shares, told>>
  BY DEF Write
<1>3. /\ more \in Seq(Prompts) /\ \A i \in DOMAIN more : more[i].m = m
      /\ \A i \in DOMAIN more : i = 1
  <2>1. Ask(m, "write") \in Prompts /\ Ask(m, "write").m = m
    BY <1>1 DEF Ask, Prompt, Prompts
  <2> QED
    BY <2>1
<1> HIDE DEF more
<1>4. /\ prompts' \in [Users -> Seq(Prompts)] /\ OneMailer'
      /\ \A v \in Users : v # u => prompts'[v] = prompts[v]
  BY <1>1, <1>2, <1>3, AnswerKeeps
<1>5. \A i \in DOMAIN prompts'[u] : prompts'[u][i].m = m
  BY <1>1, <1>2, <1>3, AnswerKeeps
<1>6. \A i \in DOMAIN prompts'[u] : prompts'[u][i].fn = "write" =>
         i \in DOMAIN more /\ more[i].fn = "write"
  BY <1>1, <1>2, <1>3, AnswerKeeps
<1>7. \A v \in Users, n \in Mailers : n \in Asks'[v] => n \in Asks[v]
  BY <1>1, <1>2, <1>3, AnswerKeeps
<1>8. begun \in Nat /\ begun + 1 \in Letters /\ begun + 1 # None
  BY <1>1, <1>2, Types, PostOfficeAssumption DEF Letters
<1>9. TypeOK'
  BY <1>1, <1>2, <1>4, <1>8, Types DEF TypeOK, Letters
<1>10. Writes'
  <2>1. \A i \in DOMAIN prompts'[u] : prompts'[u][i].fn = "write" =>
           i = 1 /\ draft'[prompts'[u][1].m] # None
    BY <1>1, <1>2, <1>3, <1>5, <1>6, <1>8 DEF TypeOK
  <2>2. \A v \in Users, n \in Mailers : v # u /\ where'[n].who = v =>
           where[n].who = v /\ (draft[n] # None => draft'[n] # None)
    BY <1>1, <1>2, <1>8 DEF Owner, TypeOK
  <2> QED
    BY <1>1, <1>4, <1>9, <2>1, <2>2, WritesKeep
<1>11. Drafts'
  <2>1. Known' = Known
    BY <1>2 DEF Known
  <2>2. \A n \in Mailers : \/ draft'[n] = draft[n]
                           \/ n = m /\ draft'[n] = begun + 1
    BY <1>1, <1>2 DEF TypeOK
  <2> QED
    BY <1>1, <1>2, <2>1, <2>2, DraftsKeep
<1>12. post' \in GoodPosts /\ Same(post, post')
  BY <1>2 DEF IInv, Same
<1>13. \A n \in Mailers : Ids(box'[n]) = Ids(box[n])
  BY <1>2
<1> QED
  BY <1>2, <1>4, <1>7, <1>9, <1>10, <1>11, <1>12, <1>13, LinesKeep

LEMMA ForgetKeeps ==
  ASSUME IInv, NEW u \in Users, NEW m \in Asking(u), Forget(u, m)
  PROVE  IInv' /\ PostStep
<1>1. /\ TypeOK /\ m \in Mailers /\ prompts[u] # <<>> /\ Head(prompts[u]).m = m
      /\ Owner(m) = u /\ Writes /\ Drafts
  BY AwaitsIs DEF Forget, IInv, Active
<1>2. /\ draft' = [draft EXCEPT ![m] = None] /\ Answer(u, <<Ask(m, "index")>>)
      /\ UNCHANGED <<contract, post, box, where, shares, told, begun>>
  BY DEF Forget
<1>3. /\ prompts' \in [Users -> Seq(Prompts)] /\ OneMailer'
      /\ \A v \in Users : v # u => prompts'[v] = prompts[v]
      /\ \A i \in DOMAIN prompts'[u] : prompts'[u][i].fn # "write"
      /\ \A v \in Users, n \in Mailers : n \in Asks'[v] => n \in Asks[v]
  BY <1>1, <1>2, AskIs, TheirsKeep
<1>4. TypeOK'
  BY <1>1, <1>2, <1>3 DEF TypeOK
<1>5. Writes'
  <2>1. \A v \in Users, n \in Mailers : v # u /\ where'[n].who = v =>
           where[n].who = v /\ (draft[n] # None => draft'[n] # None)
    BY <1>1, <1>2 DEF Owner, TypeOK
  <2> QED
    BY <1>1, <1>3, <1>4, <2>1, WritesKeep
<1>6. Drafts'
  <2>1. Known' = Known
    BY <1>2 DEF Known
  <2>2. \A n \in Mailers : draft'[n] \in {draft[n], None}
    BY <1>1, <1>2 DEF TypeOK
  <2> QED
    BY <1>1, <1>2, <2>1, <2>2 DEF Drafts
<1>7. post' \in GoodPosts /\ Same(post, post')
  BY <1>2 DEF IInv, Same
<1>8. \A n \in Mailers : Ids(box'[n]) = Ids(box[n])
  BY <1>2
<1> QED
  BY <1>2, <1>3, <1>4, <1>5, <1>6, <1>7, <1>8, LinesKeep

-----------------------------------------------------------------------------
(* Lines that show another folder, save the marks or a letter.             *)

LEMMA ShowIs ==
  ASSUME TypeOK, NEW p \in GoodPosts, NEW m \in Mailers, NEW u \in Users,
         NEW folder \in Folders \cup {None}, Show(p, m, u, folder)
  PROVE  /\ post' \in GoodPosts /\ Same(p, post') /\ post'.file = p.file
         /\ box' \in [Mailers -> Seq(Lines)] /\ \A n \in Mailers : n # m => box'[n] = box[n]
         /\ folder # None => Ids(box'[m]) = Ids(post'.file[<<u, folder>>])
         /\ folder = None => box'[m] = <<>>
         /\ where' \in [Mailers -> [who : Users \cup {None}, folder : Folders \cup {None},
                                    commandLine : BOOLEAN]]
         /\ \A n \in Mailers : n # m => where'[n] = where[n]
         /\ where'[m].who = u /\ where'[m].folder = folder
         /\ shares' \subseteq Mailers
<1> DEFINE q == Load(p, u, folder)
           lines == [i \in DOMAIN q.cache.box |->
                      [id |-> q.cache.box[i].id, read |-> q.cache.box[i].read, del |-> FALSE]]
<1>1. /\ post' = q /\ box' = [box EXCEPT ![m] = lines]
      /\ where' = [where EXCEPT ![m] = [@ EXCEPT !.who = u, !.folder = folder]]
      /\ shares' = Sharing(q) \cup {m}
  BY DEF Show
<1>2. /\ q \in GoodPosts /\ Same(p, q) /\ q.file = p.file
      /\ folder # None => Ids(q.cache.box) = Ids(p.file[<<u, folder>>])
      /\ folder = None => q.cache.box = <<>>
  BY LoadKeeps
<1>3. q.cache.box \in Seq(Entries)
  BY <1>2, PostsAre DEF GoodPosts
<1> HIDE DEF q
<1>4. ASSUME NEW i \in DOMAIN q.cache.box
      PROVE  lines[i] \in Lines /\ lines[i].id = q.cache.box[i].id
  <2>1. q.cache.box[i] \in Entries
    BY <1>3
  <2> QED
    BY <2>1 DEF Entries, Lines
<1>5. DOMAIN lines = DOMAIN q.cache.box /\ DOMAIN lines = 1 .. Len(q.cache.box)
      /\ Len(q.cache.box) \in Nat
  BY <1>3
<1>6. lines \in Seq(Lines)
  <2>1. lines = [i \in 1 .. Len(q.cache.box) |-> lines[i]]
    BY <1>5
  <2> HIDE DEF lines
  <2> QED
    BY <1>4, <1>5, <2>1
<1> HIDE DEF lines
<1>7. Ids(lines) = Ids(q.cache.box)
  BY <1>4, <1>5, IdsFrom
<1>8. folder = None => lines = <<>>
  BY <1>2, <1>5, <1>6
<1>9. /\ box' \in [Mailers -> Seq(Lines)] /\ box'[m] = lines
      /\ \A n \in Mailers : n # m => box'[n] = box[n]
  BY <1>1, <1>6 DEF TypeOK
<1>10. /\ where' \in [Mailers -> [who : Users \cup {None}, folder : Folders \cup {None},
                                  commandLine : BOOLEAN]]
       /\ \A n \in Mailers : n # m => where'[n] = where[n]
       /\ where'[m].who = u /\ where'[m].folder = folder
  BY <1>1 DEF TypeOK
<1>11. shares' \subseteq Mailers
  BY <1>1 DEF Sharing, TypeOK
<1> QED
  BY <1>1, <1>2, <1>7, <1>8, <1>9, <1>10, <1>11

\* What the mailers of other users show is as current as it was.
LEMMA OthersKept ==
  ASSUME IInv, TypeOK', NEW u \in Users, NEW m \in Mailers, Owner(m) \in {u, None},
         where'[m].who \in {u, None}, contract' = contract,
         \A n \in Mailers : n # m => where'[n] = where[n] /\ Ids(box'[n]) = Ids(box[n]),
         NEW q \in GoodPosts, Same(q, post'), post' \in GoodPosts,
         \A c \in Boxes : c[1] # u => q.file[c] = post.file[c],
         NEW v \in Users, v # u, NEW n \in Mailers, n # m, n \in Asks[v], where'[n].who = v
  PROVE  Kept(v, n)
<1> DEFINE b == <<v, where[n].folder>>
<1>1. TypeOK /\ post \in Posts /\ q \in Posts /\ post' \in Posts
  BY DEF IInv, GoodPosts
<1>2. n \in Active[v] /\ where'[n] = where[n] /\ Ids(box'[n]) = Ids(box[n])
  BY DEF Active, Owner
<1>3. ASSUME where[n].folder # None
      PROVE  /\ Ids(post.file[b]) = Ids(post'.file[b])
             /\ Len(post.file[b]) <= Len(post'.file[b])
  <2>1. b \in Boxes /\ b[1] # u
    BY <1>1, <1>3, Types DEF Boxes
  <2>2. q.file[b] = post.file[b]
    BY <2>1
  <2>3. Grows(q, post')
    BY <1>1, SameGrows
  <2> HIDE DEF b
  <2> QED
    BY <2>1, <2>2, <2>3 DEF Same, Grows
<1>4. Of(v)' = Of(v)
  <2>1. v # None
    BY PostOfficeAssumption
  <2>2. \A k \in Mailers : where'[k].who = v <=> where[k].who = v
    BY <2>1 DEF Owner
  <2> QED
    BY <2>2 DEF Of, Owner
<1>5. "new" # None
  BY PostOfficeAssumption
<1> QED
  BY <1>2, <1>3, <1>4, <1>5 DEF Kept

\* save_box, or nothing: of the user's own folders, and no letter is new to anybody.
LEMMA SavedOrNot ==
  ASSUME IInv, NEW u \in Users, NEW m \in Mailers, m \in Active[u], NEW p \in {SaveBox(m), post}
  PROVE  /\ p \in GoodPosts
         /\ \A c \in Boxes : c[1] # u => p.file[c] = post.file[c]
         /\ \A c \in Boxes : \A l \in Letters : l \in Listed(p, c) => l \in Listed(post, c)
<1>1. TypeOK /\ post \in GoodPosts /\ Track
  BY DEF IInv
<1>2. CASE p = post
  BY <1>1, <1>2
<1>3. CASE p = SaveBox(m)
  <2> DEFINE b == <<u, where[m].folder>>
  <2>1. /\ p \in GoodPosts
        /\ \A c \in Boxes : c # b => p.file[c] = post.file[c]
        /\ \A c \in Boxes : \A l \in Letters : l \in Listed(p, c) => l \in Listed(post, c)
    BY <1>1, <1>3, SaveBoxKeeps
  <2> QED
    BY <2>1
<1> QED
  BY <1>2, <1>3

LEMMA SavedStep ==
  ASSUME IInv, post' \in GoodPosts, NEW u \in Users, NEW m \in Mailers, m \in Active[u],
         NEW p \in {SaveBox(m), post}, Same(p, post')
  PROVE  PostStep
<1>1. CASE p = post
  <2>1. post \in Posts /\ post' \in Posts
    BY DEF IInv, GoodPosts
  <2> QED
    BY <1>1, <2>1, SameGrows DEF PostStep
<1>2. CASE p = SaveBox(m)
  BY <1>2 DEF PostStep, Cleans
<1> QED
  BY <1>1, <1>2

LEMMA NextFolderKeeps ==
  ASSUME IInv, NEW u \in Users, NEW m \in Mailers, prompts[u] # <<>>, Head(prompts[u]).m = m,
         m \in Active[u], NEW folder \in Folders \cup {None}, NEW answer,
         NextFolder(u, m, folder, answer)
  PROVE  IInv' /\ PostStep
<1> DEFINE p == IF answer = "y" THEN SaveBox(m) ELSE post
           more == <<Ask(m, "index")>>
                     \o (IF answer = "?" THEN <<Prompt(m, "next_folder", None, <<0, 0>>)>> ELSE <<>>)
<1>1. TypeOK /\ Writes /\ Drafts /\ Owner(m) = u
  BY DEF IInv, Active
<1>2. /\ Show(p, m, u, folder) /\ Answer(u, more)
      /\ contract' = contract /\ told' = told /\ draft' = draft /\ begun' = begun
  BY DEF NextFolder
<1>3. more \in Seq(Theirs(m))
  BY AskIs, BothIn
<1> HIDE DEF more
<1>4. p \in {SaveBox(m), post}
  OBVIOUS
<1> HIDE DEF p
<1>5. /\ p \in GoodPosts
      /\ \A c \in Boxes : c[1] # u => p.file[c] = post.file[c]
      /\ \A c \in Boxes : \A l \in Letters : l \in Listed(p, c) => l \in Listed(post, c)
  BY <1>4, SavedOrNot
<1>6. /\ prompts' \in [Users -> Seq(Prompts)] /\ OneMailer'
      /\ \A v \in Users : v # u => prompts'[v] = prompts[v]
      /\ \A i \in DOMAIN prompts'[u] : prompts'[u][i].fn # "write"
      /\ \A v \in Users, n \in Mailers : n \in Asks'[v] => n \in Asks[v] /\ (v = u => n = m)
  BY <1>2, <1>3, TheirsKeep
<1>7. /\ post' \in GoodPosts /\ Same(p, post') /\ post'.file = p.file
      /\ box' \in [Mailers -> Seq(Lines)] /\ \A n \in Mailers : n # m => box'[n] = box[n]
      /\ folder # None => Ids(box'[m]) = Ids(post'.file[<<u, folder>>])
      /\ folder = None => box'[m] = <<>>
      /\ where' \in [Mailers -> [who : Users \cup {None}, folder : Folders \cup {None},
                                 commandLine : BOOLEAN]]
      /\ \A n \in Mailers : n # m => where'[n] = where[n]
      /\ where'[m].who = u /\ where'[m].folder = folder
      /\ shares' \subseteq Mailers
  BY <1>1, <1>2, <1>5, ShowIs
<1>8. TypeOK'
  BY <1>1, <1>2, <1>6, <1>7 DEF TypeOK, GoodPosts
<1>9. Writes'
  <2>1. \A v \in Users, n \in Mailers : v # u /\ where'[n].who = v =>
           where[n].who = v /\ (draft[n] # None => draft'[n] # None)
    BY <1>1, <1>2, <1>7 DEF Owner
  <2> QED
    BY <1>1, <1>6, <1>8, <2>1, WritesKeep
<1>10. Drafts'
  <2>1. ASSUME NEW n \in Mailers
        PROVE  box'[n] = <<>> \/ Ids(box'[n]) = Ids(box[n])
                              \/ \E b \in Boxes : Ids(box'[n]) = Ids(post'.file[b])
    <3>1. CASE n # m
      BY <1>7, <3>1
    <3>2. CASE n = m /\ folder = None
      BY <1>7, <3>2
    <3>3. CASE n = m /\ folder # None
      <4>1. <<u, folder>> \in Boxes
        BY <3>3 DEF Boxes
      <4> QED
        BY <1>7, <3>3, <4>1
    <3> QED
      BY <3>1, <3>2, <3>3
  <2>2. \A b \in Boxes : \A l \in Letters : l \in Listed(post', b) => l \in Listed(post, b) \/ l = 0
    <3>1. \A b \in Boxes : Listed(post', b) = Listed(p, b)
      BY <1>7 DEF Listed
    <3> QED
      BY <1>5, <3>1
  <2>3. 0 \notin Letters
    BY DEF Letters
  <2> QED
    BY <1>1, <1>2, <1>8, <2>1, <2>2, <2>3, DraftsStay
<1>11. ASSUME NEW v \in Users, NEW n \in Mailers, n \in Active'[v] PROVE Seen(v, n) \/ Kept(v, n)
  <2>1. n \in Asks[v] /\ (v = u => n = m) /\ where'[n].who = v
    BY <1>6, <1>11 DEF Active, Owner
  <2>2. CASE n = m
    BY <1>7, <2>1, <2>2 DEF Seen
  <2>3. CASE n # m
    <3>1. v # u /\ Owner(m) \in {u, None} /\ where'[m].who \in {u, None} /\ contract' = contract
      BY <1>1, <1>2, <1>7, <2>1, <2>3
    <3>2. \A k \in Mailers : k # m => where'[k] = where[k] /\ Ids(box'[k]) = Ids(box[k])
      BY <1>7
    <3> QED
      BY <1>5, <1>7, <1>8, <2>1, <2>3, <3>1, <3>2, OthersKept
  <2> QED
    BY <2>2, <2>3
<1>12. Track' /\ ShowsNewMail'
  BY <1>2, <1>8, <1>11, ViewsKeep
<1>13. PostStep
  BY <1>4, <1>7, SavedStep
<1> QED
  BY <1>6, <1>7, <1>8, <1>9, <1>10, <1>12, <1>13 DEF IInv

LEMMA ChangeFolderKeeps ==
  ASSUME IInv, NEW u \in Users, NEW m \in Asking(u), NEW folder \in Folders, ChangeFolder(u, m, folder)
  PROVE  IInv' /\ PostStep
<1>1. Command(u, m)
  BY DEF ChangeFolder
<1>2. /\ m \in Mailers /\ prompts[u] # <<>> /\ Head(prompts[u]).m = m /\ m \in Active[u]
      /\ folder \in Folders \cup {None}
  BY <1>1, CommandIs
<1>3. CASE NextFolder(u, m, folder, "y")
  BY <1>2, <1>3, NextFolderKeeps
<1>4. CASE OnlyAsks(u, AskWith(m, "next_folder", folder, <<0, 0>>))
  BY <1>2, <1>4, AskIs, OnlyAsksKeeps
<1> QED
  BY <1>3, <1>4 DEF ChangeFolder

LEMMA AnswerFolderKeeps ==
  ASSUME IInv, NEW u \in Users, NEW m \in Asking(u), AnswerFolder(u, m)
  PROVE  IInv' /\ PostStep
<1>1. /\ m \in Mailers /\ prompts[u] # <<>> /\ Head(prompts[u]).m = m /\ m \in Active[u]
      /\ Head(prompts[u]) \in Prompts /\ Head(prompts[u]).fn = "next_folder"
  BY AwaitsIs DEF IInv, AnswerFolder
<1>2. Head(prompts[u]).arg \in Folders \cup {None}
  BY <1>1 DEF Prompts
<1>3. PICK answer \in {"y", "n", "?"} : NextFolder(u, m, Head(prompts[u]).arg, answer)
  BY DEF AnswerFolder
<1> QED
  BY <1>1, <1>2, <1>3, NextFolderKeeps

LEMMA SaveLetterKeeps ==
  ASSUME IInv, NEW u \in Users, NEW m \in Asking(u), NEW x \in DOMAIN box[m], NEW folder \in Saved,
         SaveLetter(u, m, x, folder)
  PROVE  IInv' /\ PostStep
<1> DEFINE l == box[m][x].id
           p == AddPost(post, u, folder, l)
           b == <<u, folder>>
           s == [box[m] EXCEPT ![x] = [@ EXCEPT !.read = TRUE, !.del = TRUE]]
<1>1. Command(u, m) /\ post' = p /\ shares' = Sharing(p) /\ Answer(u, <<Ask(m, "index")>>)
      /\ box' = [box EXCEPT ![m][x].read = TRUE, ![m][x].del = TRUE]
      /\ UNCHANGED <<contract, where, told, draft, begun>>
  BY DEF SaveLetter
<1>2. /\ TypeOK /\ m \in Mailers /\ prompts[u] # <<>> /\ Head(prompts[u]).m = m
      /\ m \in Active[u] /\ Owner(m) = u
      /\ box[m] \in Seq(Lines) /\ post \in GoodPosts /\ post \in Posts /\ Writes /\ Drafts
  BY <1>1, CommandIs DEF Active, IInv, GoodPosts
<1>3. box[m][x] \in Lines /\ l \in Letters /\ l \in Known
  <2>1. box[m][x] \in Lines
    BY <1>2
  <2>2. l \in Letters
    BY <2>1 DEF Lines
  <2> QED
    BY <1>2, <2>1, <2>2 DEF Known
<1>4. folder \in Folders /\ folder # "new"
  BY PostOfficeAssumption DEF Folders
<1>5. /\ p \in GoodPosts /\ Grows(post, p)
      /\ \A c \in Boxes : c # b => p.file[c] = post.file[c]
      /\ Listed(p, b) = Listed(post, b) \cup {l}
  BY <1>2, <1>3, <1>4, AddPostKeeps
<1>6. box' = [box EXCEPT ![m] = s]
  BY <1>1, <1>2 DEF TypeOK
<1>7. s \in Seq(Lines) /\ Ids(s) = Ids(box[m])
  <2> DEFINE e == [box[m][x] EXCEPT !.read = TRUE, !.del = TRUE]
             t == [box[m] EXCEPT ![x] = e]
  <2>1. e \in Lines /\ e.id = l
    BY <1>3 DEF Lines
  <2>2. t = s
    OBVIOUS
  <2> HIDE DEF e
  <2>3. t \in Seq(Lines) /\ DOMAIN t = DOMAIN box[m] /\ \A i \in DOMAIN t : t[i].id = box[m][i].id
    BY <1>2, <2>1
  <2> HIDE DEF t, s
  <2> QED
    BY <2>2, <2>3, IdsFrom
<1> HIDE DEF s, p, l
<1>8. box' \in [Mailers -> Seq(Lines)] /\ \A n \in Mailers : Ids(box'[n]) = Ids(box[n])
  BY <1>2, <1>6, <1>7, BoxWith
<1>9. /\ prompts' \in [Users -> Seq(Prompts)] /\ OneMailer'
      /\ \A v \in Users : v # u => prompts'[v] = prompts[v]
      /\ \A i \in DOMAIN prompts'[u] : prompts'[u][i].fn # "write"
      /\ \A v \in Users, n \in Mailers : n \in Asks'[v] => n \in Asks[v] /\ (v = u => n = m)
  BY <1>1, <1>2, AskIs, TheirsKeep
<1>10. TypeOK'
  BY <1>1, <1>2, <1>5, <1>8, <1>9 DEF TypeOK, GoodPosts, Sharing
<1>11. Writes'
  <2>1. \A v \in Users, n \in Mailers : v # u /\ where'[n].who = v =>
           where[n].who = v /\ (draft[n] # None => draft'[n] # None)
    BY <1>1
  <2> QED
    BY <1>2, <1>9, <1>10, <2>1, WritesKeep
<1>12. Drafts'
  <2>1. ASSUME NEW c \in Boxes, NEW k \in Letters, k \in Listed(post', c)
        PROVE  k \in Listed(post, c) \/ k = l
    <3>1. CASE c = b
      BY <1>1, <1>5, <2>1, <3>1
    <3>2. CASE c # b
      BY <1>1, <1>5, <2>1, <3>2 DEF Listed
    <3> QED
      BY <3>1, <3>2
  <2>2. begun' = begun /\ \A n \in Mailers : draft'[n] \in {draft[n], None}
    BY <1>1
  <2> QED
    BY <1>2, <1>3, <1>8, <1>10, <2>1, <2>2, DraftsStay
<1>13. ASSUME NEW v \in Users, NEW n \in Mailers, n \in Active'[v] PROVE Kept(v, n)
  <2> DEFINE c == <<v, where[n].folder>>
  <2>1. n \in Active[v] /\ where'[n] = where[n] /\ Ids(box'[n]) = Ids(box[n]) /\ Of(v)' = Of(v)
    BY <1>1, <1>8, <1>9, <1>13 DEF Active, Of, Owner
  <2>2. ASSUME where[n].folder # None
        PROVE  /\ Len(post.file[c]) <= Len(post'.file[c])
               /\ Len(post.file[c]) = Len(post'.file[c]) => Ids(post.file[c]) = Ids(post'.file[c])
    <3>1. c \in Boxes
      BY <1>2, <2>2, Types DEF Boxes
    <3> QED
      BY <1>1, <1>5, <3>1 DEF Grows
  <2>3. ASSUME where[n].folder = "new" PROVE Ids(post.file[c]) = Ids(post'.file[c])
    <3>1. c # b /\ c \in Boxes
      BY <1>4, <2>3 DEF Boxes, Folders
    <3> QED
      BY <1>1, <1>5, <3>1
  <2> QED
    BY <2>1, <2>2, <2>3 DEF Kept
<1>14. Track' /\ ShowsNewMail'
  BY <1>1, <1>10, <1>13, ViewsKeep
<1>15. post' \in GoodPosts /\ PostStep
  BY <1>1, <1>5 DEF PostStep
<1> QED
  BY <1>9, <1>10, <1>11, <1>12, <1>14, <1>15 DEF IInv

-----------------------------------------------------------------------------
(* The way out.                                                            *)

LEMMA ExitKeeps ==
  ASSUME IInv, NEW u \in Users, NEW m \in Mailers, prompts[u] # <<>>, Head(prompts[u]).m = m,
         m \in Active[u], NEW p \in {SaveBox(m), post}, Exit(u, m, p)
  PROVE  IInv' /\ PostStep
<1>1. TypeOK /\ Writes /\ Drafts /\ Owner(m) = u
  BY DEF IInv, Active
<1>2. /\ where' = [where EXCEPT ![m] = Unused] /\ box' = [box EXCEPT ![m] = <<>>]
      /\ told' = told \ {m} /\ draft' = [draft EXCEPT ![m] = None]
      /\ post' = p /\ shares' = Sharing(p) \ {m} /\ Answer(u, <<>>)
      /\ contract' = contract /\ begun' = begun
  BY DEF Exit, Destruct
<1>3. /\ p \in GoodPosts
      /\ \A c \in Boxes : c[1] # u => p.file[c] = post.file[c]
      /\ \A c \in Boxes : \A l \in Letters : l \in Listed(p, c) => l \in Listed(post, c)
  BY SavedOrNot
<1>4. /\ prompts' \in [Users -> Seq(Prompts)] /\ OneMailer'
      /\ \A v \in Users : v # u => prompts'[v] = prompts[v]
      /\ \A i \in DOMAIN prompts'[u] : prompts'[u][i].fn # "write"
      /\ \A v \in Users, n \in Mailers : n \in Asks'[v] => n \in Asks[v] /\ (v = u => n = m)
  BY <1>2, AskIs, TheirsKeep
<1>5. /\ where' \in [Mailers -> [who : Users \cup {None}, folder : Folders \cup {None},
                                 commandLine : BOOLEAN]]
      /\ where'[m].who = None /\ \A n \in Mailers : n # m => where'[n] = where[n]
  BY <1>1, <1>2 DEF TypeOK, Unused
<1>6. /\ box' \in [Mailers -> Seq(Lines)] /\ box'[m] = <<>>
      /\ \A n \in Mailers : n # m => box'[n] = box[n]
      /\ \A n \in Mailers : draft'[n] \in {draft[n], None} /\ (n # m => draft'[n] = draft[n])
      /\ draft' \in [Mailers -> Letters \cup {None}]
  BY <1>1, <1>2 DEF TypeOK
<1>7. TypeOK'
  BY <1>1, <1>2, <1>3, <1>4, <1>5, <1>6 DEF TypeOK, GoodPosts, Sharing
<1>8. None \notin Users
  BY PostOfficeAssumption
<1>9. Writes'
  <2>1. \A v \in Users, n \in Mailers : v # u /\ where'[n].who = v =>
           where[n].who = v /\ (draft[n] # None => draft'[n] # None)
    BY <1>5, <1>6, <1>8
  <2> QED
    BY <1>1, <1>4, <1>7, <2>1, WritesKeep
<1>10. Drafts'
  <2>1. \A n \in Mailers : box'[n] = <<>> \/ Ids(box'[n]) = Ids(box[n])
    BY <1>6
  <2>2. \A b \in Boxes : \A l \in Letters : l \in Listed(post', b) => l \in Listed(post, b) \/ l = 0
    BY <1>2, <1>3
  <2>3. 0 \notin Letters
    BY DEF Letters
  <2> QED
    BY <1>1, <1>2, <1>6, <1>7, <2>1, <2>2, <2>3, DraftsStay
<1>11. post' \in GoodPosts /\ Same(p, post')
  BY <1>2, <1>3 DEF Same
<1>12. ASSUME NEW v \in Users, NEW n \in Mailers, n \in Active'[v] PROVE Kept(v, n)
  <2>1. n \in Asks[v] /\ (v = u => n = m) /\ where'[n].who = v
    BY <1>4, <1>12 DEF Active, Owner
  <2>2. n # m
    BY <1>5, <1>8, <2>1
  <2>3. v # u /\ Owner(m) \in {u, None} /\ where'[m].who \in {u, None} /\ contract' = contract
    BY <1>1, <1>2, <1>5, <2>1, <2>2
  <2>4. \A k \in Mailers : k # m => where'[k] = where[k] /\ Ids(box'[k]) = Ids(box[k])
    BY <1>5, <1>6
  <2> QED
    BY <1>3, <1>7, <1>11, <2>1, <2>2, <2>3, <2>4, OthersKept
<1>13. Track' /\ ShowsNewMail'
  BY <1>2, <1>7, <1>12, ViewsKeep
<1>14. PostStep
  BY <1>11, SavedStep
<1> QED
  BY <1>4, <1>7, <1>9, <1>10, <1>11, <1>13, <1>14 DEF IInv

LEMMA ReallyQuitKeeps ==
  ASSUME IInv, NEW u \in Users, NEW m \in Mailers, prompts[u] # <<>>, Head(prompts[u]).m = m,
         m \in Active[u], NEW cmd, ReallyQuit(u, m, cmd)
  PROVE  IInv' /\ PostStep
<1>1. CASE Exit(u, m, SaveBox(m))
  BY <1>1, ExitKeeps
<1>2. CASE Exit(u, m, post)
  BY <1>2, ExitKeeps
<1>3. CASE OnlyAsks(u, <<Ask(m, "confirm_delete")>>)
  BY <1>3, AskIs, OnlyAsksKeeps
<1> QED
  BY <1>1, <1>2, <1>3 DEF ReallyQuit

LEMMA QuitKeeps ==
  ASSUME IInv, NEW u \in Users, NEW m \in Asking(u), NEW cmd \in {"q", "Q"}, Quit(u, m, cmd)
  PROVE  IInv' /\ PostStep
<1>1. m \in Mailers /\ prompts[u] # <<>> /\ Head(prompts[u]).m = m /\ m \in Active[u]
  BY AwaitsIs DEF IInv, Quit
<1>2. CASE ReallyQuit(u, m, cmd)
  BY <1>1, <1>2, ReallyQuitKeeps
<1>3. CASE OnlyAsks(u, AskWith(m, "confirm_quit", cmd, <<0, 0>>))
  BY <1>1, <1>3, AskIs, OnlyAsksKeeps
<1> QED
  BY <1>2, <1>3 DEF Quit

LEMMA ConfirmQuitKeeps ==
  ASSUME IInv, NEW u \in Users, NEW m \in Asking(u), ConfirmQuit(u, m)
  PROVE  IInv' /\ PostStep
<1> DEFINE cmd == Head(prompts[u]).arg
<1>1. /\ m \in Mailers /\ prompts[u] # <<>> /\ Head(prompts[u]).m = m /\ m \in Active[u]
      /\ Head(prompts[u]) \in Prompts /\ Head(prompts[u]).fn = "confirm_quit"
  BY AwaitsIs DEF IInv, ConfirmQuit
<1>2. cmd \in {"q", "Q"}
  BY <1>1 DEF Prompts
<1>3. CASE ReallyQuit(u, m, cmd)
  BY <1>1, <1>3, ReallyQuitKeeps
<1>4. CASE OnlyAsks(u, <<Ask(m, "index")>>)
  BY <1>1, <1>4, AskIs, OnlyAsksKeeps
<1>5. CASE OnlyAsks(u, AskWith(m, "confirm_quit", cmd, <<0, 0>>))
  <2> HIDE DEF cmd
  <2> QED
    BY <1>1, <1>2, <1>5, AskIs, OnlyAsksKeeps
<1> QED
  BY <1>3, <1>4, <1>5 DEF ConfirmQuit

LEMMA ConfirmDeleteKeeps ==
  ASSUME IInv, NEW u \in Users, NEW m \in Asking(u), ConfirmDelete(u, m)
  PROVE  IInv' /\ PostStep
<1>1. m \in Mailers /\ prompts[u] # <<>> /\ Head(prompts[u]).m = m /\ m \in Active[u]
  BY AwaitsIs DEF IInv, ConfirmDelete
<1>2. CASE \E p \in {SaveBox(m), post} : Exit(u, m, p)
  BY <1>1, <1>2, ExitKeeps
<1>3. CASE OnlyAsks(u, <<Ask(m, "confirm_delete")>>)
  BY <1>1, <1>3, AskIs, OnlyAsksKeeps
<1> QED
  BY <1>2, <1>3 DEF ConfirmDelete

LEMMA LeaveKeeps ==
  ASSUME IInv, NEW u \in Users, Leave(u)
  PROVE  IInv' /\ PostStep
<1>1. TypeOK /\ OneMailer /\ Writes /\ Drafts /\ post \in GoodPosts
  BY DEF IInv
<1>2. /\ where' = [m \in Mailers |-> IF m \in Of(u) THEN Unused ELSE where[m]]
      /\ box' = [m \in Mailers |-> IF m \in Of(u) THEN <<>> ELSE box[m]]
      /\ draft' = [m \in Mailers |-> IF m \in Of(u) THEN None ELSE draft[m]]
      /\ shares' = shares \ Of(u) /\ told' = told \ Of(u)
      /\ prompts' = [prompts EXCEPT ![u] = <<>>]
      /\ UNCHANGED <<contract, post, begun>>
  BY DEF Leave
<1>3. prompts' \in [Users -> Seq(Prompts)] /\ prompts'[u] = <<>>
      /\ \A v \in Users : v # u => prompts'[v] = prompts[v]
  BY <1>1, <1>2 DEF TypeOK
<1>4. /\ where' \in [Mailers -> [who : Users \cup {None}, folder : Folders \cup {None},
                                 commandLine : BOOLEAN]]
      /\ \A m \in Mailers : m \in Of(u) => where'[m].who = None
      /\ \A m \in Mailers : m \notin Of(u) => where'[m] = where[m]
  BY <1>1, <1>2 DEF TypeOK, Unused
<1>5. /\ box' \in [Mailers -> Seq(Lines)]
      /\ \A m \in Mailers : box'[m] = <<>> \/ (m \notin Of(u) /\ box'[m] = box[m])
      /\ draft' \in [Mailers -> Letters \cup {None}]
      /\ \A m \in Mailers : draft'[m] \in {draft[m], None} /\ (m \notin Of(u) => draft'[m] = draft[m])
      /\ \A m \in Mailers : m \notin Of(u) => box'[m] = box[m]
  BY <1>1, <1>2 DEF TypeOK
<1>6. TypeOK'
  BY <1>1, <1>2, <1>3, <1>4, <1>5 DEF TypeOK
<1>7. OneMailer'
  BY <1>1, <1>3 DEF OneMailer
<1>8. u # None /\ None \notin Users /\ "new" # None
  BY PostOfficeAssumption
<1>9. \A v \in Users, m \in Mailers : v # u /\ where'[m].who = v => m \notin Of(u) /\ where[m].who = v
  BY <1>4, <1>8
<1>10. Writes'
  BY <1>1, <1>3, <1>5, <1>6, <1>9, WritesKeep
<1>11. Drafts'
  <2>1. \A b \in Boxes : \A l \in Letters : l \in Listed(post', b) => l \in Listed(post, b) \/ l = 0
    BY <1>2
  <2>2. 0 \notin Letters
    BY DEF Letters
  <2>3. begun' = begun
    BY <1>2
  <2>4. \A m \in Mailers : box'[m] = <<>> \/ Ids(box'[m]) = Ids(box[m])
    BY <1>5
  <2> QED
    BY <1>1, <1>5, <1>6, <2>1, <2>2, <2>3, <2>4, DraftsStay
<1>12. ASSUME NEW v \in Users, NEW n \in Mailers, n \in Active'[v] PROVE Kept(v, n)
  <2>1. n \in Asks'[v] /\ where'[n].who = v
    BY <1>12 DEF Active, Owner
  <2>2. v # u
    BY <1>3, <2>1 DEF Asks
  <2>3. n \in Asks[v] /\ n \notin Of(u) /\ where[n].who = v
    BY <1>3, <1>9, <2>1, <2>2 DEF Asks
  <2>4. n \in Active[v] /\ where'[n] = where[n] /\ box'[n] = box[n] /\ post' = post
    BY <1>2, <1>4, <1>5, <2>3 DEF Active, Owner
  <2>5. Of(v)' = Of(v)
    <3>1. \A k \in Mailers : where'[k].who = v <=> where[k].who = v
      BY <1>4, <1>9, <2>2 DEF Of, Owner
    <3> QED
      BY <3>1 DEF Of, Owner
  <2>6. ASSUME where[n].folder # None PROVE Len(post.file[<<v, where[n].folder>>]) \in Nat
    <3>1. <<v, where[n].folder>> \in Boxes
      BY <1>1, <2>6, Types DEF Boxes
    <3> QED
      BY <1>1, <3>1, PostsAre DEF GoodPosts
  <2> QED
    BY <2>4, <2>5, <2>6 DEF Kept
<1>13. Track' /\ ShowsNewMail'
  <2>1. contract' = contract
    BY <1>2
  <2> QED
    BY <1>6, <1>12, <2>1, ViewsKeep
<1>14. post' \in GoodPosts /\ PostStep
  <2>1. post \in Posts /\ post' = post /\ Same(post, post)
    BY <1>1, <1>2 DEF GoodPosts, Same
  <2>2. Grows(post, post)
    BY <2>1, SameGrows
  <2> QED
    BY <1>1, <2>1, <2>2 DEF PostStep
<1> QED
  BY <1>6, <1>7, <1>10, <1>11, <1>13, <1>14 DEF IInv

-----------------------------------------------------------------------------
(* A new mailer.                                                           *)

\* The first handler of a user who had none is the new mailer's.
LEMMA FirstPrompt ==
  ASSUME IInv, NEW u \in Users, NEW m \in Mailers,
         \A v \in Users : v # u => prompts'[v] = prompts[v],
         \A i \in DOMAIN prompts'[u] : prompts'[u][i].m = m, where'[m].who = u
  PROVE  /\ OneMailer'
         /\ \A v \in Users, n \in Mailers : n \in Active'[v] =>
              \/ v = u /\ n = m
              \/ v # u /\ n # m /\ n \in Asks[v] /\ where'[n].who = v
<1>1. TypeOK /\ OneMailer
  BY DEF IInv
<1>5. OneMailer'
  BY <1>1 DEF OneMailer
<1>6. ASSUME NEW v \in Users, NEW n \in Mailers, n \in Active'[v]
      PROVE  \/ v = u /\ n = m
             \/ v # u /\ n # m /\ n \in Asks[v] /\ where'[n].who = v
  <2>1. n \in Asks'[v] /\ where'[n].who = v
    BY <1>6 DEF Active, Owner
  <2>2. CASE v = u
    BY <2>1, <2>2 DEF Asks
  <2>3. CASE v # u
    BY <2>1, <2>3 DEF Asks
  <2> QED
    BY <2>2, <2>3
<1> QED
  BY <1>5, <1>6

LEMMA AskOne ==
  ASSUME NEW m \in Mailers
  PROVE  \A fn \in {"index", "write"} :
           /\ <<Ask(m, fn)>> \in Seq(Prompts)
           /\ \A i \in DOMAIN <<Ask(m, fn)>> :
                i = 1 /\ <<Ask(m, fn)>>[i].m = m /\ <<Ask(m, fn)>>[i].fn = fn
<1>1. ASSUME NEW fn \in {"index", "write"}
      PROVE  Ask(m, fn) \in Prompts /\ Ask(m, fn).m = m /\ Ask(m, fn).fn = fn
  BY DEF Ask, Prompt, Prompts
<1> QED
  BY <1>1

LEMMA StartMailKeeps ==
  ASSUME IInv, NEW u \in Users, NEW m \in Mailers, StartMail(u, m)
  PROVE  IInv' /\ PostStep
<1>1. TypeOK /\ Writes /\ Drafts /\ post \in GoodPosts /\ post \in Posts
  BY DEF IInv, GoodPosts
<1>2. /\ prompts[u] = <<>> /\ Owner(m) = None /\ Show(post, m, u, "new")
      /\ prompts' = [prompts EXCEPT ![u] = <<Ask(m, "index")>>]
      /\ UNCHANGED <<contract, told, draft, begun>>
  BY DEF StartMail
<1>3. "new" \in Folders \cup {None} /\ "new" # None /\ <<u, "new">> \in Boxes
  BY PostOfficeAssumption DEF Folders, Boxes
<1>4. /\ post' \in GoodPosts /\ Same(post, post') /\ post'.file = post.file
      /\ box' \in [Mailers -> Seq(Lines)] /\ \A n \in Mailers : n # m => box'[n] = box[n]
      /\ Ids(box'[m]) = Ids(post'.file[<<u, "new">>])
      /\ where' \in [Mailers -> [who : Users \cup {None}, folder : Folders \cup {None},
                                 commandLine : BOOLEAN]]
      /\ \A n \in Mailers : n # m => where'[n] = where[n]
      /\ where'[m].who = u /\ where'[m].folder = "new"
      /\ shares' \subseteq Mailers
  BY <1>1, <1>2, <1>3, ShowIs
<1> DEFINE s == <<Ask(m, "index")>>
<1>5. /\ s \in Seq(Prompts) /\ \A i \in DOMAIN s : i = 1 /\ s[i].m = m /\ s[i].fn = "index"
      /\ prompts' = [prompts EXCEPT ![u] = s]
  BY <1>2, AskOne
<1> HIDE DEF s
<1>6. /\ prompts' \in [Users -> Seq(Prompts)] /\ OneMailer' /\ prompts'[u] = s
      /\ \A v \in Users : v # u => prompts'[v] = prompts[v]
      /\ \A v \in Users, n \in Mailers : n \in Active'[v] =>
           \/ v = u /\ n = m
           \/ v # u /\ n # m /\ n \in Asks[v] /\ where'[n].who = v
  <2>1. /\ prompts' \in [Users -> Seq(Prompts)] /\ prompts'[u] = s
        /\ \A v \in Users : v # u => prompts'[v] = prompts[v]
    BY <1>1, <1>5 DEF TypeOK
  <2>2. where'[m].who = u /\ \A i \in DOMAIN prompts'[u] : prompts'[u][i].m = m
    BY <1>4, <1>5, <2>1
  <2> QED
    BY <2>1, <2>2, FirstPrompt
<1>7. TypeOK'
  BY <1>1, <1>2, <1>4, <1>6 DEF TypeOK, GoodPosts
<1>8. Writes'
  <2>1. \A v \in Users, n \in Mailers : v # u /\ where'[n].who = v =>
           where[n].who = v /\ (draft[n] # None => draft'[n] # None)
    BY <1>2, <1>4
  <2>2. \A i \in DOMAIN prompts'[u] : prompts'[u][i].fn # "write"
    BY <1>5, <1>6
  <2> QED
    BY <1>1, <1>6, <1>7, <2>1, <2>2, WritesKeep
<1>9. Drafts'
  <2>1. \A b \in Boxes : \A l \in Letters : l \in Listed(post', b) => l \in Listed(post, b) \/ l = 0
    BY <1>4 DEF Listed
  <2>2. 0 \notin Letters
    BY DEF Letters
  <2>3. \A n \in Mailers : Ids(box'[n]) = Ids(box[n]) \/ \E b \in Boxes : Ids(box'[n]) = Ids(post'.file[b])
    BY <1>3, <1>4
  <2>4. begun' = begun /\ \A n \in Mailers : draft'[n] \in {draft[n], None}
    BY <1>2
  <2> QED
    BY <1>1, <1>7, <2>1, <2>2, <2>3, <2>4, DraftsStay
<1>10. ASSUME NEW v \in Users, NEW n \in Mailers, n \in Active'[v] PROVE Seen(v, n) \/ Kept(v, n)
  <2>1. CASE v = u /\ n = m
    BY <1>4, <2>1 DEF Seen
  <2>2. CASE v # u /\ n # m /\ n \in Asks[v] /\ where'[n].who = v
    <3>1. Owner(m) \in {u, None} /\ where'[m].who \in {u, None} /\ contract' = contract
      BY <1>2, <1>4
    <3>2. \A k \in Mailers : k # m => where'[k] = where[k] /\ Ids(box'[k]) = Ids(box[k])
      BY <1>4
    <3> QED
      BY <1>1, <1>4, <1>7, <2>2, <3>1, <3>2, OthersKept
  <2> QED
    BY <1>6, <1>10, <2>1, <2>2
<1>11. Track' /\ ShowsNewMail'
  <2>1. contract' = contract
    BY <1>2
  <2> QED
    BY <1>7, <1>10, <2>1, ViewsKeep
<1>12. PostStep
  BY <1>1, <1>4, SameGrows DEF PostStep, GoodPosts
<1> QED
  BY <1>4, <1>6, <1>7, <1>8, <1>9, <1>11, <1>12 DEF IInv

LEMMA StartPostKeeps ==
  ASSUME IInv, NEW u \in Users, NEW m \in Mailers, StartPost(u, m)
  PROVE  IInv' /\ PostStep
<1>1. TypeOK /\ Writes /\ Drafts /\ post \in GoodPosts /\ post \in Posts
  BY DEF IInv, GoodPosts
<1>2. /\ prompts[u] = <<>> /\ Owner(m) = None /\ begun < MaxLetters
      /\ where' = [where EXCEPT ![m] = [who |-> u, folder |-> None, commandLine |-> TRUE]]
      /\ begun' = begun + 1 /\ draft' = [draft EXCEPT ![m] = begun + 1]
      /\ prompts' = [prompts EXCEPT ![u] = <<Ask(m, "write")>>]
      /\ UNCHANGED <<contract, post, box, shares, told>>
  BY DEF StartPost
<1>3. /\ where' \in [Mailers -> [who : Users \cup {None}, folder : Folders \cup {None},
                                 commandLine : BOOLEAN]]
      /\ \A n \in Mailers : n # m => where'[n] = where[n]
      /\ where'[m].who = u /\ where'[m].folder = None
  BY <1>1, <1>2 DEF TypeOK
<1>4. begun \in Nat /\ begun + 1 \in Letters /\ begun + 1 # None
  BY <1>1, <1>2, Types, PostOfficeAssumption DEF Letters
<1> DEFINE s == <<Ask(m, "write")>>
<1>5. /\ s \in Seq(Prompts) /\ \A i \in DOMAIN s : i = 1 /\ s[i].m = m /\ s[i].fn = "write"
      /\ prompts' = [prompts EXCEPT ![u] = s]
  BY <1>2, AskOne
<1> HIDE DEF s
<1>6. /\ prompts' \in [Users -> Seq(Prompts)] /\ OneMailer' /\ prompts'[u] = s
      /\ \A v \in Users : v # u => prompts'[v] = prompts[v]
      /\ \A v \in Users, n \in Mailers : n \in Active'[v] =>
           \/ v = u /\ n = m
           \/ v # u /\ n # m /\ n \in Asks[v] /\ where'[n].who = v
  <2>1. /\ prompts' \in [Users -> Seq(Prompts)] /\ prompts'[u] = s
        /\ \A v \in Users : v # u => prompts'[v] = prompts[v]
    BY <1>1, <1>5 DEF TypeOK
  <2>2. where'[m].who = u /\ \A i \in DOMAIN prompts'[u] : prompts'[u][i].m = m
    BY <1>3, <1>5, <2>1
  <2> QED
    BY <2>1, <2>2, FirstPrompt
<1>7. draft'[m] = begun + 1 /\ \A n \in Mailers : n # m => draft'[n] = draft[n]
  BY <1>1, <1>2 DEF TypeOK
<1>8. TypeOK'
  BY <1>1, <1>2, <1>3, <1>4, <1>6, Types DEF TypeOK, Letters
<1>9. Writes'
  <2>1. \A v \in Users, n \in Mailers : v # u /\ where'[n].who = v =>
           where[n].who = v /\ (draft[n] # None => draft'[n] # None)
    BY <1>3, <1>7
  <2>2. \A i \in DOMAIN prompts'[u] : i = 1 /\ draft'[prompts'[u][1].m] # None
    BY <1>4, <1>5, <1>6, <1>7
  <2> QED
    BY <1>1, <1>6, <1>8, <2>1, <2>2, WritesKeep
<1>10. Drafts'
  <2>1. Known' = Known
    BY <1>2 DEF Known
  <2>2. \A n \in Mailers : \/ draft'[n] = draft[n]
                           \/ n = m /\ draft'[n] = begun + 1
    BY <1>7
  <2> QED
    BY <1>1, <1>2, <2>1, <2>2, DraftsKeep
<1>11. Same(post, post') /\ post' \in GoodPosts
  BY <1>1, <1>2 DEF Same
<1>12. ASSUME NEW v \in Users, NEW n \in Mailers, n \in Active'[v] PROVE Seen(v, n) \/ Kept(v, n)
  <2>1. CASE v = u /\ n = m
    BY <1>3, <2>1 DEF Seen
  <2>2. CASE v # u /\ n # m /\ n \in Asks[v] /\ where'[n].who = v
    <3>1. Owner(m) \in {u, None} /\ where'[m].who \in {u, None} /\ contract' = contract
      BY <1>2, <1>3
    <3>2. \A k \in Mailers : k # m => where'[k] = where[k] /\ Ids(box'[k]) = Ids(box[k])
      BY <1>2, <1>3
    <3>3. \A c \in Boxes : c[1] # u => post.file[c] = post.file[c]
      OBVIOUS
    <3> QED
      BY <1>1, <1>8, <1>11, <2>2, <3>1, <3>2, <3>3, OthersKept
  <2> QED
    BY <1>6, <1>12, <2>1, <2>2
<1>13. Track' /\ ShowsNewMail'
  <2>1. contract' = contract
    BY <1>2
  <2> QED
    BY <1>8, <1>12, <2>1, ViewsKeep
<1>14. PostStep
  BY <1>1, <1>11, SameGrows DEF PostStep, GoodPosts
<1> QED
  BY <1>6, <1>8, <1>9, <1>10, <1>11, <1>13, <1>14 DEF IInv

-----------------------------------------------------------------------------
(* Sending                                                                 *)

LEMMA IncomingIs ==
  ASSUME NEW p \in Posts, NEW n \in Mailers, Owner(n) \in Users
  PROVE  /\ Incoming(p, n) \in Seq(Lines)
         /\ Ids(Incoming(p, n)) = Ids(p.file[<<Owner(n), "new">>])
<1> DEFINE cached == p.file[<<Owner(n), "new">>]
           marked(i) == LET old == {j \in DOMAIN box[n] : box[n][j].id = cached[i].id}
                        IN  old # {} /\ box[n][Max(old)].del
           lines == [i \in DOMAIN cached |->
                      [id |-> cached[i].id, read |-> cached[i].read, del |-> marked(i)]]
<1>1. Incoming(p, n) = lines
  BY DEF Incoming
<1>2. <<Owner(n), "new">> \in Boxes
  BY DEF Boxes, Folders
<1>3. cached \in Seq(Entries)
  BY <1>2, PostsAre
<1> HIDE DEF cached
<1>4. ASSUME NEW i \in DOMAIN cached PROVE lines[i] \in Lines /\ lines[i].id = cached[i].id
  <2>1. marked(i) \in BOOLEAN
    OBVIOUS
  <2>2. cached[i] \in Entries
    BY <1>3
  <2> HIDE DEF marked
  <2> QED
    BY <2>1, <2>2 DEF Entries, Lines
<1>5. DOMAIN lines = DOMAIN cached /\ DOMAIN lines = 1 .. Len(cached) /\ Len(cached) \in Nat
  BY <1>3
<1>6. lines \in Seq(Lines)
  <2>1. lines = [i \in 1 .. Len(cached) |-> lines[i]]
    <3> HIDE DEF marked
    <3> QED
      BY <1>5
  <2> HIDE DEF lines
  <2> QED
    BY <1>4, <1>5, <2>1
<1> HIDE DEF lines
<1>7. Ids(lines) = Ids(cached)
  BY <1>4, <1>5, IdsFrom
<1> QED
  BY <1>1, <1>6, <1>7 DEF cached

LEMMA SendKeeps ==
  ASSUME IInv, NEW u \in Users, NEW m \in Asking(u), NEW to \in Addressees, NEW found \in SUBSET Users,
         Send(u, m, to, found)
  PROVE  IInv' /\ PostStep
<1> DEFINE l == draft[m]
           p == SendPost(post, l, to, found)
           served == Served(to, found)
           ok == served = <<>> \/ ToSet(served) \subseteq found
           exits == ok /\ where[m].commandLine
           more == IF ok /\ ~exits THEN <<Ask(m, "index")>> ELSE <<>>
<1>1. /\ TypeOK /\ Writes /\ Drafts /\ post \in GoodPosts /\ post \in Posts
      /\ m \in Mailers /\ prompts[u] # <<>> /\ Head(prompts[u]).m = m
      /\ Head(prompts[u]).fn = "write" /\ Owner(m) = u
  BY AwaitsIs DEF Send, IInv, GoodPosts, Active
<1>2. PICK one \in [Users -> Mailers \cup {None}] :
        /\ \A v \in Users : IF Of(v) = {} THEN one[v] = None ELSE one[v] \in Of(v)
        /\ LET informed == Informed(served, found, one) IN
           /\ box' = [n \in Mailers |-> IF n = m /\ exits THEN <<>>
                                        ELSE IF n \in informed THEN Incoming(p, n) ELSE box[n]]
           /\ told' = (told \cup informed) \ (IF exits THEN {m} ELSE {})
           /\ shares' = Sharing(p) \ informed
  BY DEF Send
<1>3. /\ post' = p /\ where' = IF exits THEN [where EXCEPT ![m] = Unused] ELSE where
      /\ draft' = [draft EXCEPT ![m] = None] /\ Answer(u, more)
      /\ contract' = contract /\ begun' = begun
      /\ contract => \A n \in Mailers : Owner(n) # None => Owner(n) \in found
  BY DEF Send
<1> DEFINE informed == Informed(served, found, one)
<1>4. to \in Seq(Users)
  <2>1. PICK n \in 0 .. MaxTo : to \in [1 .. n -> Users]
    BY DEF Addressees
  <2>2. n \in Nat
    BY MailAssumption
  <2> QED
    BY <2>1, <2>2
<1>5. served \in Seq(Users)
  BY <1>4, ServedType
<1>6. l \in Letters /\ l # None /\ l \notin Known /\ post.refs[l] = {}
  <2>1. prompts[u] \in Seq(Prompts)
    BY <1>1, Types
  <2>2. 1 \in DOMAIN prompts[u] /\ prompts[u][1] = Head(prompts[u])
    BY <1>1, <2>1
  <2>3. l # None
    BY <1>1, <2>2 DEF Writes
  <2>4. l \in Letters
    BY <1>1, <2>3, Types
  <2>5. l \notin Known
    BY <1>1, <2>3 DEF Drafts
  <2>6. ASSUME NEW b \in post.refs[l] PROVE FALSE
    <3>1. b \in Boxes
      BY <1>1, <2>4, <2>6, PostsAre
    <3>2. l \in Listed(post, b)
      BY <1>1, <2>4, <2>6 DEF GoodPosts, Recorded
    <3> QED
      BY <2>4, <2>5, <3>1, <3>2 DEF Known
  <2> QED
    BY <2>3, <2>4, <2>5, <2>6
<1>7. /\ p \in GoodPosts /\ Grows(post, p) /\ p \in Posts
      /\ \A c \in Boxes : Listed(p, c) \subseteq Listed(post, c) \cup {l}
      /\ \A c \in Boxes : (\A i \in DOMAIN served : c # <<served[i], "new">>)
                            => p.file[c] = post.file[c]
  BY <1>1, <1>4, <1>6, SendPostKeeps DEF GoodPosts
<1>8. \A n \in informed : n \in Mailers /\ Owner(n) \in Users /\ where[n].folder = "new"
  BY DEF Informed
<1>9. more \in Seq(Theirs(m))
  BY <1>1, AskIs
<1> HIDE DEF l, p, more, ok
<1>10. /\ prompts' \in [Users -> Seq(Prompts)] /\ OneMailer'
       /\ \A v \in Users : v # u => prompts'[v] = prompts[v]
       /\ \A i \in DOMAIN prompts'[u] : prompts'[u][i].fn # "write"
       /\ \A v \in Users, n \in Mailers : n \in Asks'[v] => n \in Asks[v] /\ (v = u => n = m)
  BY <1>1, <1>3, <1>9, TheirsKeep
<1>11. box' = [n \in Mailers |-> IF n = m /\ exits THEN <<>>
                                 ELSE IF n \in informed THEN Incoming(p, n) ELSE box[n]]
       /\ told' = (told \cup informed) \ (IF exits THEN {m} ELSE {})
       /\ shares' = Sharing(p) \ informed
  BY <1>2
<1>12. informed \subseteq Mailers
  BY <1>8
<1> HIDE DEF served, exits, informed
<1>13. ASSUME NEW n \in Mailers
       PROVE  /\ box'[n] \in Seq(Lines)
              /\ \/ exits /\ n = m /\ box'[n] = <<>>
                 \/ n \in informed /\ Ids(box'[n]) = Ids(post'.file[<<Owner(n), "new">>])
                 \/ n \notin informed /\ box'[n] = box[n]
  <2>1. CASE n = m /\ exits
    BY <1>11, <2>1
  <2>2. CASE ~(n = m /\ exits) /\ n \in informed
    <3>1. box'[n] = Incoming(p, n)
      BY <1>11, <2>2
    <3> QED
      BY <1>3, <1>7, <1>8, <2>2, <3>1, IncomingIs
  <2>3. CASE ~(n = m /\ exits) /\ n \notin informed
    <3>1. box'[n] = box[n] /\ box[n] \in Seq(Lines)
      BY <1>1, <1>11, <2>3, Types
    <3> QED
      BY <2>3, <3>1
  <2> QED
    BY <2>1, <2>2, <2>3
<1>14. box' \in [Mailers -> Seq(Lines)]
  <2>1. box' = [n \in Mailers |-> box'[n]]
    BY <1>11
  <2> QED
    BY <1>13, <2>1
<1>15. /\ where' \in [Mailers -> [who : Users \cup {None}, folder : Folders \cup {None},
                                  commandLine : BOOLEAN]]
       /\ exits => where'[m].who = None
       /\ ~exits => where' = where
       /\ \A n \in Mailers : n # m => where'[n] = where[n]
  BY <1>1, <1>3 DEF TypeOK, Unused
<1>16. /\ draft' \in [Mailers -> Letters \cup {None}] /\ draft'[m] = None
       /\ \A n \in Mailers : n # m => draft'[n] = draft[n]
  BY <1>1, <1>3 DEF TypeOK
<1>17. TypeOK'
  <2>1. shares' \subseteq Mailers /\ told' \subseteq Mailers
    BY <1>1, <1>11, <1>12 DEF TypeOK, Sharing
  <2> QED
    BY <1>1, <1>3, <1>7, <1>10, <1>14, <1>15, <1>16, <2>1 DEF TypeOK
<1>18. None \notin Users /\ "new" # None
  BY PostOfficeAssumption
<1>19. Writes'
  <2>1. \A v \in Users, n \in Mailers : v # u /\ where'[n].who = v =>
           where[n].who = v /\ (draft[n] # None => draft'[n] # None)
    BY <1>1, <1>15, <1>16, <1>18 DEF Owner
  <2> QED
    BY <1>1, <1>10, <1>17, <2>1, WritesKeep
<1>20. Drafts'
  <2>1. ASSUME NEW n \in Mailers
        PROVE  box'[n] = <<>> \/ Ids(box'[n]) = Ids(box[n])
                  \/ \E b \in Boxes : Ids(box'[n]) = Ids(post'.file[b])
    <3>1. CASE n \in informed /\ Ids(box'[n]) = Ids(post'.file[<<Owner(n), "new">>])
      <4>1. <<Owner(n), "new">> \in Boxes
        BY <1>8, <3>1 DEF Boxes, Folders
      <4> QED
        BY <3>1, <4>1
    <3> QED
      BY <1>13, <3>1
  <2>2. ASSUME NEW k \in Known' PROVE k \in Known \/ k = l
    <3>1. k \in Letters
      BY DEF Known
    <3>2. \A b \in Boxes : k \in Listed(post', b) => k \in Listed(post, b) \/ k = l
      BY <1>3, <1>7
    <3> QED
      BY <1>1, <1>17, <2>1, <2>2, <3>1, <3>2, KnownFrom
  <2>3. \A n \in Mailers : draft'[n] = draft[n] \/ draft'[n] = None
    BY <1>16
  <2> QED
    BY <1>1, <1>3, <1>6, <1>16, <2>2, <2>3, DraftsKeep DEF l
<1>21. ASSUME NEW v \in Users, NEW n \in Mailers, n \in Active'[v] PROVE Seen(v, n) \/ Kept(v, n)
  <2> DEFINE b == <<v, where[n].folder>>
  <2>1. n \in Asks[v] /\ (v = u => n = m) /\ where'[n].who = v
    BY <1>10, <1>21 DEF Active, Owner
  <2>2. where'[n] = where[n] /\ ~(exits /\ n = m)
    BY <1>15, <1>18, <2>1
  <2>3. n \in Active[v] /\ Owner(n) = v
    BY <2>1, <2>2 DEF Active, Owner
  <2>4. Of(v)' = Of(v)
    <3>1. CASE ~exits
      BY <1>15, <3>1 DEF Of, Owner
    <3>2. CASE exits
      <4>1. v # u
        BY <2>1, <2>2, <3>2
      <4>2. \A k \in Mailers : where'[k].who = v <=> where[k].who = v
        BY <1>1, <1>15, <1>18, <3>2, <4>1 DEF Owner
      <4> QED
        BY <4>2 DEF Of, Owner
    <3> QED
      BY <3>1, <3>2
  <2>5. CASE n \in informed
    <3>1. where'[n].folder = "new" /\ Ids(box'[n]) = Ids(post'.file[<<v, "new">>])
      BY <1>8, <1>13, <2>2, <2>3, <2>5
    <3> QED
      BY <3>1 DEF Seen
  <2>6. CASE n \notin informed
    <3>1. Ids(box'[n]) = Ids(box[n])
      BY <1>13, <2>2, <2>6
    <3>2. ASSUME where[n].folder # None
          PROVE  /\ Len(post.file[b]) <= Len(post'.file[b])
                 /\ Len(post.file[b]) = Len(post'.file[b]) => Ids(post.file[b]) = Ids(post'.file[b])
      <4>1. b \in Boxes
        BY <1>1, <3>2, Types DEF Boxes
      <4> QED
        BY <1>3, <1>7, <4>1 DEF Grows
    <3>3. ASSUME contract, where[n].folder = "new", Of(v) = {n}
          PROVE  Ids(post.file[b]) = Ids(post'.file[b])
      <4>1. one[v] = n
        BY <1>2, <3>3
      <4>2. Owner(n) \in found
        BY <1>3, <1>18, <2>3, <3>3
      <4>3. v \notin ToSet(served)
        BY <2>3, <2>6, <3>3, <4>1, <4>2 DEF informed, Informed
      <4>4. \A i \in DOMAIN served : served[i] # v
        BY <4>3 DEF ToSet
      <4>5. b \in Boxes /\ \A i \in DOMAIN served : b # <<served[i], "new">>
        BY <3>3, <4>4 DEF Boxes, Folders
      <4> QED
        BY <1>3, <1>7, <4>5
    <3> QED
      BY <2>2, <2>3, <2>4, <3>1, <3>2, <3>3 DEF Kept
  <2> QED
    BY <2>5, <2>6
<1>22. Track' /\ ShowsNewMail'
  BY <1>3, <1>17, <1>21, ViewsKeep
<1>23. post' \in GoodPosts /\ PostStep
  BY <1>3, <1>7 DEF PostStep
<1> QED
  BY <1>10, <1>17, <1>19, <1>20, <1>22, <1>23 DEF IInv

-----------------------------------------------------------------------------
(* Every step.                                                             *)

LEMMA InitIs == Init => IInv
<1> SUFFICES ASSUME Init PROVE IInv
  OBVIOUS
<1>1. /\ contract \in BOOLEAN /\ post = NoPost /\ box = [m \in Mailers |-> <<>>]
      /\ where = [m \in Mailers |-> Unused] /\ shares = {} /\ told = {}
      /\ draft = [m \in Mailers |-> None] /\ begun = 0 /\ prompts = [u \in Users |-> <<>>]
  BY DEF Init
<1>2. post \in Posts
  BY <1>1 DEF NoPost, Posts, Folders
<1>3. /\ \A b \in Boxes : post.file[b] = <<>>
      /\ post.cache.who = None /\ post.cache.box = <<>> /\ \A l \in Letters : post.refs[l] = {}
  BY <1>1 DEF NoPost
<1>4. post \in GoodPosts
  BY <1>2, <1>3 DEF GoodPosts, Agrees, Recorded
<1>5. TypeOK
  <2>1. where \in [Mailers -> [who : Users \cup {None}, folder : Folders \cup {None},
                               commandLine : BOOLEAN]]
    BY <1>1 DEF Unused
  <2>2. MaxLetters \in Nat
    BY PostOfficeAssumption
  <2> QED
    BY <1>1, <1>2, <2>1, <2>2 DEF TypeOK
<1>6. \A u \in Users : prompts[u] = <<>>
  BY <1>1
<1>7. \A u \in Users, m \in Mailers : m \notin Asks[u]
  BY <1>6 DEF Asks
<1>8. OneMailer /\ Writes /\ Track /\ ShowsNewMail
  BY <1>6, <1>7 DEF OneMailer, Writes, Track, ShowsNewMail, Active
<1>9. Drafts
  <2>1. \A m \in Mailers : draft[m] = None /\ box[m] = <<>>
    BY <1>1
  <2>2. \A l : l \notin Known
    BY <1>3, <2>1 DEF Known, Listed
  <2> QED
    BY <2>1, <2>2 DEF Drafts
<1> QED
  BY <1>4, <1>5, <1>8, <1>9 DEF IInv

LEMMA LineKeeps ==
  ASSUME IInv, NEW u \in Users, NEW m \in Asking(u), Line(u, m)
  PROVE  IInv' /\ PostStep
<1>1. CASE Refuse(u, m)
  BY <1>1, RefuseKeeps
<1>2. CASE \E x \in DOMAIN box[m] : Read(u, m, x) \/ DeleteAndRead(u, m, x) \/ SaveToFile(u, m, x)
  BY <1>2, ReadKeeps, DeleteAndReadKeeps, SaveToFileKeeps
<1>3. CASE \E x, y \in DOMAIN box[m] : Delete(u, m, x, y) \/ Undelete(u, m, x, y)
  BY <1>3, DeleteKeeps, UndeleteKeeps
<1>4. CASE UnreadDelete(u, m)
  BY <1>4, UnreadDeleteKeeps
<1>5. CASE \E x \in DOMAIN box[m], f \in Saved : SaveLetter(u, m, x, f)
  BY <1>5, SaveLetterKeeps
<1>6. CASE \E f \in Folders : ChangeFolder(u, m, f)
  BY <1>6, ChangeFolderKeeps
<1>7. CASE AnswerFolder(u, m)
  BY <1>7, AnswerFolderKeeps
<1>8. CASE \E cmd \in {"q", "Q"} : Quit(u, m, cmd)
  BY <1>8, QuitKeeps
<1>9. CASE ConfirmQuit(u, m)
  BY <1>9, ConfirmQuitKeeps
<1>10. CASE ConfirmDelete(u, m)
  BY <1>10, ConfirmDeleteKeeps
<1>11. CASE Write(u, m)
  BY <1>11, WriteKeeps
<1>12. CASE Forget(u, m)
  BY <1>12, ForgetKeeps
<1>13. CASE \E to \in Addressees, found \in SUBSET Users : Send(u, m, to, found)
  BY <1>13, SendKeeps
<1> QED
  BY <1>1, <1>2, <1>3, <1>4, <1>5, <1>6, <1>7, <1>8, <1>9, <1>10, <1>11, <1>12, <1>13 DEF Line

LEMMA NextKeeps ==
  ASSUME IInv, [Next]_vars
  PROVE  IInv' /\ PostStep
<1>1. ASSUME NEW u \in Users, Leave(u) PROVE IInv' /\ PostStep
  BY <1>1, LeaveKeeps
<1>2. ASSUME NEW u \in Users, MailStatus(u) PROVE IInv' /\ PostStep
  BY <1>2, MailStatusKeeps
<1>3. ASSUME NEW u \in Users, Swallow(u) PROVE IInv' /\ PostStep
  BY <1>3, SwallowKeeps
<1>4. ASSUME NEW u \in Users, NEW m \in Mailers, StartMail(u, m) PROVE IInv' /\ PostStep
  BY <1>4, StartMailKeeps
<1>5. ASSUME NEW u \in Users, NEW m \in Mailers, StartPost(u, m) PROVE IInv' /\ PostStep
  BY <1>5, StartPostKeeps
<1>6. ASSUME NEW u \in Users, NEW m \in Asking(u), Line(u, m) PROVE IInv' /\ PostStep
  BY <1>6, LineKeeps
<1>7. CASE UNCHANGED vars
  <2>1. /\ contract' = contract /\ post' = post /\ box' = box /\ where' = where /\ shares' = shares
        /\ told' = told /\ draft' = draft /\ begun' = begun /\ prompts' = prompts
    BY <1>7 DEF vars
  <2>2. Known' = Known /\ Asks' = Asks
    BY <2>1 DEF Known, Asks
  <2>3. Active' = Active
    BY <2>1, <2>2 DEF Active, Owner
  <2>4. TypeOK' /\ OneMailer' /\ Writes'
    BY <2>1 DEF IInv, TypeOK, OneMailer, Writes, Owner
  <2>5. Track' /\ Drafts' /\ ShowsNewMail'
    BY <2>1, <2>2, <2>3 DEF IInv, Track, Drafts, ShowsNewMail, Of, Owner
  <2>6. post \in Posts /\ post \in GoodPosts /\ Same(post, post)
    BY DEF IInv, GoodPosts, Same
  <2> QED
    BY <2>1, <2>4, <2>5, <2>6, SameGrows DEF IInv, PostStep
<1> QED
  BY <1>1, <1>2, <1>3, <1>4, <1>5, <1>6, <1>7 DEF Next

\* IInv holds in every state.
THEOREM Inductive == Spec => []IInv
<1>1. Init => IInv
  BY InitIs
<1>2. IInv /\ [Next]_vars => IInv'
  BY NextKeeps
<1> QED
  BY <1>1, <1>2, PTL DEF Spec

\* A folder of a mailer, of a file and of FOLDERS_D is a sequence of letters that were
\* begun, whatever lines the users type in whatever order, and the index after a question
\* that delete_letter asks is a number.
THEOREM TypeCorrect == Spec => []TypeOK
<1>1. IInv => TypeOK
  BY DEF IInv
<1> QED
  BY <1>1, Inductive, PTL

\* mark_read and delete_posts, which take an index, work on the letters that are saved:
\* no line leaves FOLDERS_D with another folder in memory than the file of the same owner
\* and name.
THEOREM CacheCorrect == Spec => []CacheIsSaved
<1>1. IInv => CacheIsSaved
  <2> SUFFICES ASSUME IInv PROVE CacheIsSaved
    OBVIOUS
  <2>1. Agrees(post)
    BY DEF IInv, GoodPosts
  <2> QED
    BY <2>1 DEF Agrees, CacheIsSaved
<1> QED
  BY <1>1, Inductive, PTL

\* The file of a letter names only folders that list the letter, after any number of
\* letters sent, forwarded, saved to folders and deleted.
THEOREM RecordsCorrect == Spec => []RecordsAreListed
<1>1. IInv => RecordsAreListed
  BY DEF IInv, GoodPosts, Recorded, RecordsAreListed
<1> QED
  BY <1>1, Inductive, PTL

\* Under the contract that the mudlib is written for a user's only mailer shows all of
\* his new mail, however many letters came in behind its back.
THEOREM NewMailShown == Spec => []ShowsNewMail
<1>1. IInv => ShowsNewMail
  BY DEF IInv
<1> QED
  BY <1>1, Inductive, PTL

LEMMA RecordStays ==
  ASSUME IInv, PostStep, NEW l \in Letters, NEW b \in post.refs[l], l \in Listed(post', b)
  PROVE  b \in post'.refs[l] \/ Cardinality(Copies(post, b, l)) > 1
<1>1. CASE Grows(post, post')
  BY <1>1 DEF Grows
<1>2. CASE Cleans
  <2>1. PICK u \in Users, m \in Mailers : m \in Active[u] /\ Same(SaveBox(m), post')
    BY <1>2 DEF Cleans
  <2> DEFINE p == SaveBox(m)
  <2>2. TypeOK /\ post \in GoodPosts /\ Track
    BY DEF IInv
  <2>3. \A k \in Letters : \A c \in post.refs[k] :
          k \in Listed(p, c) => c \in p.refs[k] \/ Cardinality(Copies(post, c, k)) > 1
    BY <2>1, <2>2, SaveBoxKeeps
  <2>4. b \in Boxes
    BY <2>2, PostsAre DEF GoodPosts
  <2> HIDE DEF p
  <2>5. Ids(p.file[b]) = Ids(post'.file[b]) /\ p.refs = post'.refs
    BY <2>1, <2>4 DEF Same, p
  <2>6. l \in Listed(p, b)
    <3>1. PICK i \in DOMAIN post'.file[b] : post'.file[b][i].id = l
      BY DEF Listed
    <3>2. i \in DOMAIN p.file[b] /\ p.file[b][i].id = l
      BY <2>5, <3>1, IdsAre
    <3> QED
      BY <3>2 DEF Listed
  <2> QED
    BY <2>3, <2>5, <2>6
<1> QED
  BY <1>1, <1>2 DEF PostStep

LEMMA OnlyMarkedLeave ==
  ASSUME IInv, PostStep, NEW b \in Boxes, NEW l \in Letters, post' \in GoodPosts,
         Cardinality(Copies(post', b, l)) < Cardinality(Copies(post, b, l))
  PROVE  \E m \in Of(b[1]) : where[m].folder = b[2] /\ \E i \in Marked(m) : box[m][i].id = l
<1>1. post \in GoodPosts /\ post \in Posts /\ post' \in Posts /\ TypeOK /\ Track
  BY DEF IInv, GoodPosts
<1>2. /\ Cardinality(Copies(post, b, l)) \in Nat /\ Cardinality(Copies(post', b, l)) \in Nat
  BY <1>1, CopiesFinite
<1>3. CASE Grows(post, post')
  BY <1>2, <1>3 DEF Grows
<1>4. CASE Cleans
  <2>1. PICK u \in Users, m \in Mailers : m \in Active[u] /\ Same(SaveBox(m), post')
    BY <1>4 DEF Cleans
  <2> DEFINE p == SaveBox(m)
             c == <<u, where[m].folder>>
  <2>2. /\ p \in GoodPosts
        /\ \/ Cardinality(Copies(post, b, l)) <= Cardinality(Copies(p, b, l))
           \/ b = c /\ \E i \in Marked(m) : box[m][i].id = l
    BY <1>1, <2>1, SaveBoxKeeps
  <2> HIDE DEF p
  <2>3. Copies(p, b, l) = Copies(post', b, l)
    BY <1>1, <2>1, <2>2, SameGrows DEF GoodPosts, p
  <2>4. b = c /\ \E i \in Marked(m) : box[m][i].id = l
    BY <1>2, <2>2, <2>3
  <2>5. m \in Of(b[1]) /\ where[m].folder = b[2]
    BY <2>1, <2>4 DEF Active, Of
  <2> QED
    BY <2>4, <2>5
<1> QED
  BY <1>3, <1>4 DEF PostStep

\* A letter that stays in a folder stays on record for it, whatever other users and other
\* folders do with the letter: no line takes a folder from the letter's file that lists
\* the letter, unless it listed it twice and one of the two is deleted.
THEOREM RecordsStay == Spec => StaysOnRecord
<1>1. ASSUME IInv, [Next]_vars
      PROVE  [\A l \in Letters : \A b \in post.refs[l] :
               l \in Listed(post', b) => b \in post'.refs[l] \/ Cardinality(Copies(post, b, l)) > 1]_post
  BY <1>1, NextKeeps, RecordStays
<1> QED
  BY <1>1, Inductive, PTL DEF Spec, StaysOnRecord

\* No letter leaves a folder unless a mailer of the owner's shows it there as marked:
\* marks are indexes, and the mailer's are the folder's whenever save_box deletes.
THEOREM OnlyMarkedLeft == Spec => LeavesIfMarked
<1>1. ASSUME IInv, [Next]_vars
      PROVE  [\A b \in Boxes, l \in Letters :
               Cardinality(Copies(post', b, l)) < Cardinality(Copies(post, b, l)) =>
                 \E m \in Of(b[1]) : /\ where[m].folder = b[2]
                                     /\ \E i \in Marked(m) : box[m][i].id = l]_post
  <2>1. PostStep /\ post' \in GoodPosts
    BY <1>1, NextKeeps DEF IInv
  <2> QED
    BY <1>1, <2>1, OnlyMarkedLeave
<1> QED
  BY <1>1, Inductive, PTL DEF Spec, LeavesIfMarked
=============================================================================
