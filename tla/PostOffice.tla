----------------------------- MODULE PostOffice -----------------------------
(***************************************************************************)
(* The daemons of the mudlib's mail: FOLDERS_D, which saves a file for each *)
(* folder of each user and keeps one folder in memory, and LETTERS_D, which *)
(* saves a file for each letter with the folders that list it.  A letter is *)
(* named by its date: a higher one is newer.                                *)
(*                                                                         *)
(* Code:  secure/daemon/folders.c, letters.c, localpost.c of lib.ds.       *)
(***************************************************************************)
EXTENDS Integers, Sequences, FiniteSets, SequencesExt

CONSTANTS
  Users,
  Saved,     \* the folders that a user has beside "new"
  Forward,   \* the option "forward" of each user: a user or None
  None,      \* 0
  MaxLetters \* bound: the letters that are begun

ASSUME PostOfficeAssumption ==
  /\ "new" \notin Saved
  /\ None \notin Users /\ None \notin Saved \cup {"new"} /\ None \notin 1 .. MaxLetters
  /\ Forward \in [Users -> Users \cup {None}]
  /\ MaxLetters \in Nat

Folders == Saved \cup {"new"}
Letters == 1 .. MaxLetters
Boxes == Users \X Folders

\* An element of a __BoxInfo, with what the daemons use of it.
Entries == [id : Letters, read : BOOLEAN]

\* The mail as it is saved and as the daemons have it in memory:
\*   file    the folder files
\*   cache   FOLDERS_D's __Owner, __Folder and __BoxInfo
\*   refs    the __Folders of each letter, in its file (a letter with no file has none)
\*   kept    the letters that have a file
\*   held    LETTERS_D's __LetterId
Posts ==
  [file  : [Boxes -> Seq(Entries)],
   cache : [who : Users \cup {None}, folder : Folders \cup {None}, box : Seq(Entries)],
   refs  : [Letters -> SUBSET Boxes],
   kept  : SUBSET Letters,
   held  : Letters \cup {None}]

NoPost ==
  [file  |-> [b \in Boxes |-> <<>>],
   cache |-> [who |-> None, folder |-> "new", box |-> <<>>],
   refs  |-> [l \in Letters |-> {}],
   kept  |-> {},
   held  |-> None]

-----------------------------------------------------------------------------
\* LETTERS_D

\* restore_letter succeeds: the letter has a file or is the one in memory.
Restorable(p, l) == l \in p.kept \/ p.held = l

CreateLetter(p, l) ==
  [p EXCEPT !.refs[l] = {}, !.kept = @ \cup {l}, !.held = l]

\* Mutants of AddFolder and DeleteFolder, which follow.
AddOnlyFolder(p, b, l) ==
  IF Restorable(p, l)
  THEN [p EXCEPT !.refs[l] = {c \in @ : c[1] # b[1]} \cup {b}, !.kept = @ \cup {l}, !.held = l]
  ELSE p
KeepFolder(p, b, l) ==
  IF Restorable(p, l) /\ p.refs[l] = {b} THEN [p EXCEPT !.held = l, !.kept = @ \ {l}] ELSE p

AddFolder(p, b, l) ==
  IF Restorable(p, l)
  THEN [p EXCEPT !.refs[l] = @ \cup {b}, !.kept = @ \cup {l}, !.held = l]
  ELSE p

\* Every mention of the folder goes: the array subtraction knows no count.
DeleteFolder(p, b, l) ==
  LET rest == p.refs[l] \ {b}
      q == [p EXCEPT !.held = l] IN
  CASE ~Restorable(p, l) -> p
    [] Restorable(p, l) /\ \A f \in Folders : <<b[1], f>> \notin p.refs[l] -> q
    [] OTHER -> [q EXCEPT !.refs[l] = rest, !.kept = IF rest = {} THEN @ \ {l} ELSE @]

-----------------------------------------------------------------------------
\* FOLDERS_D

\* A mutant of Load, which follows.
LoadIfSaved(p, who, folder) ==
  IF p.cache.who = who /\ p.cache.folder = folder THEN p
  ELSE [p EXCEPT !.cache =
         [who |-> who, folder |-> folder,
          box |-> IF folder = None \/ p.file[<<who, folder>>] = <<>>
                  THEN @.box ELSE p.file[<<who, folder>>]]]

\* load_folder
Load(p, who, folder) ==
  IF p.cache.who = who /\ p.cache.folder = folder THEN p
  ELSE [p EXCEPT !.cache =
         [who |-> who, folder |-> folder,
          box |-> IF folder = None THEN <<>> ELSE p.file[<<who, folder>>]]]

\* save_folder
Save(p) ==
  IF p.cache.who = None \/ p.cache.folder = None THEN p
  ELSE [p EXCEPT !.file[<<p.cache.who, p.cache.folder>>] = p.cache.box]

\* sort_folder, of a box that is sorted and an element at its end: by date, newest
\* first; the sort is stable.
Insert(box, e) == InsertAt(box, Cardinality({i \in DOMAIN box : box[i].id >= e.id}) + 1, e)

\* add_post, from load_folder to save_folder
AddPost(p, who, folder, l) ==
  LET q == Load(p, who, folder)
      r == [q EXCEPT !.cache.box = Insert(@, [id |-> l, read |-> folder # "new"])]
  IN  Save(AddFolder(r, <<who, folder>>, l))

\* The loop of delete_posts over the letters of folder b, from the last to the first, and
\* save_folder.  del is the set of marked indexes.
DropPosts(q, b, del) ==
  LET old == q.cache.box
      turn[n \in 0 .. Len(old)] ==  \* n turns, the last one for index i
        LET i == Len(old) + 1 - n IN
        IF n = 0 THEN [q EXCEPT !.cache.box = <<>>]
        ELSE IF i \in del THEN DeleteFolder(turn[n - 1], b, old[i].id)
        ELSE [turn[n - 1] EXCEPT !.cache.box = <<old[i]>> \o @]
  IN  Save(turn[Len(old)])

\* A mutant of DeletePosts, which follows.
DeleteWithoutCount(p, who, folder, del, size) ==
  DropPosts(Load(p, who, folder), <<who, folder>>, del)

\* delete_posts, of a caller who knows of `size' letters
DeletePosts(p, who, folder, del, size) ==
  LET q == Load(p, who, folder) IN
  IF size # Len(q.cache.box) THEN q ELSE DropPosts(q, <<who, folder>>, del)

\* The letters at the indexes S are read.
AsRead(box, S) == [i \in DOMAIN box |-> [box[i] EXCEPT !.read = @ \/ i \in S]]

\* mark_read, of a caller to whom index x is a letter; two entries of one letter may be
\* one mapping, and then both are marked.
MarkRead(p, who, folder, x) ==
  LET q == Load(p, who, folder)
      MarkedIn(S) == Save([q EXCEPT !.cache.box = AsRead(@, S)])
      twins == {i \in DOMAIN q.cache.box : q.cache.box[i].id = q.cache.box[x].id}
  IN  IF x \notin DOMAIN q.cache.box THEN {q} ELSE {MarkedIn({x}), MarkedIn(twins)}

-----------------------------------------------------------------------------
\* LOCALPOST_D

\* Where add_post to "new" puts each of the letters that send_post hands out: the first
\* that is forwarded has "[FORWARD]" added to the subject, which they all share.
Delivered(to) ==
  [i \in DOMAIN to |->
     IF Forward[to[i]] # None /\ \A j \in 1 .. i - 1 : Forward[to[j]] = None
     THEN Forward[to[i]] ELSE to[i]]

\* add_post to "new" asks present() for the mailer of a player who was not found, which
\* is an error: those after the first such are not served.
Served(to, found) ==
  LET all == Delivered(to)
      lost == {i \in DOMAIN all : all[i] \notin found}
  IN  IF lost = {} THEN all ELSE SubSeq(all, 1, CHOOSE i \in lost : \A j \in lost : i <= j)

SendPost(p, l, to, found) ==
  LET served == Served(to, found)
      give[n \in 0 .. Len(served)] ==
        IF n = 0 THEN CreateLetter(p, l) ELSE AddPost(give[n - 1], served[n], "new", l)
  IN  give[Len(served)]
=============================================================================
