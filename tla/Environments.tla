--------------------------- MODULE Environments ---------------------------
(***************************************************************************)
(* Objects in objects.  move_object moves the object whose code runs and   *)
(* then walks over the inventory that it has come to, calling init(),      *)
(* which is LPC code and may move and destruct what is in that inventory.  *)
(*                                                                         *)
(* Code:  Environment, MoveObjectEfun, CallOtherEfun, CompiledObject.      *)
(***************************************************************************)
EXTENDS Integers, Sequences, FiniteSets, SequencesExt

CONSTANTS
  Objects,
  Living,   \* those that inherit a file called "living"
  None,     \* no environment
  MaxDead,  \* bound: the destructed objects
  MaxDepth  \* bound: the length of the call stack when LPC code makes a call

ASSUME EnvironmentsAssumption ==
  /\ Living \subseteq Objects
  /\ None \notin Objects
  /\ MaxDead \in Nat
  /\ MaxDepth \in Nat

VARIABLES
  environment, \* ENVIRONMENT: the object that an object is in
  contents,    \* INVENTORY: the objects in it, by object and by whether the list was
               \* made after the object was destructed, which drops the first one
  destructed,  \* CompiledObject._destructed
  stack        \* LPC code, and the walks of move_object that wait for it

vars == <<environment, contents, destructed, stack>>
places == <<environment, contents, destructed>>

Lists == Objects \X BOOLEAN

\* A walk has a list, read when the move was done, and an iterator: its cursor and
\* whether the list was modified since (modCount).  It has called `met'.
Walks == [op : {"move"}, obj : Objects, list : Lists, part : {"here", "others", "living"},
          cursor : Nat, stale : BOOLEAN, met : SUBSET Objects]
Frames == [op : {"lpc"}, obj : Objects] \cup Walks

\* The efun runs in the object that it moves; only a walk whose list was modified has
\* its cursor past the end.
WalkOK(k) ==
  /\ k > 1 /\ stack[k - 1] = [op |-> "lpc", obj |-> stack[k].obj]
  /\ stack[k].cursor <= Len(contents[stack[k].list]) \/ stack[k].stale

TypeOK ==
  /\ environment \in [Objects -> Objects \cup {None}]
  /\ contents \in [Lists -> Seq(Objects)]
  /\ destructed \subseteq Objects
  /\ stack \in Seq(Frames)
  /\ \A k \in DOMAIN stack : stack[k].op = "move" => WalkOK(k)

Init ==
  /\ environment = [o \in Objects |-> None]
  /\ contents = [l \in Lists |-> <<>>]
  /\ destructed = {}
  /\ stack = <<>>

-----------------------------------------------------------------------------
(* LPC code *)

Top == stack[Len(stack)]
Running(op) == stack # <<>> /\ Top.op = op

\* An exception ends everything down to a catch in LPC code, or to the outside.
Handlers == {0} \cup {k \in DOMAIN stack : stack[k].op = "lpc"}
Throw == \E k \in Handlers : stack' = SubSeq(stack, 1, k)

\* From outside: input, a call-out, create(), ...
Call(o) ==
  /\ stack = <<>>
  /\ o \notin destructed
  /\ stack' = <<[op |-> "lpc", obj |-> o]>>
  /\ UNCHANGED places

\* A destructed object has no code.
CallOther(o) ==
  /\ Running("lpc")
  /\ Len(stack) < MaxDepth
  /\ o \notin destructed
  /\ stack' = Append(stack, [op |-> "lpc", obj |-> o])
  /\ UNCHANGED places

Return ==
  /\ Running("lpc")
  /\ stack' = Front(stack)
  /\ UNCHANGED places

Fail ==
  /\ Running("lpc")
  /\ Throw
  /\ UNCHANGED places

\* destruct clears the object's own attributes: its environment still lists it, and
\* what is in it still names it.
Destruct(o) ==
  /\ Running("lpc")
  /\ o \notin destructed
  /\ Cardinality(destructed) < MaxDead
  /\ destructed' = destructed \cup {o}
  /\ environment' = [environment EXCEPT ![o] = None]
  /\ UNCHANGED <<contents, stack>>

-----------------------------------------------------------------------------
(* move_object *)

ListOf(o) == <<o, o \in destructed>>

\* Mutant of Left: the object stays listed where it was.
LeftBehind(o) == contents

\* Environment.move
Left(o) ==
  IF environment[o] = None THEN contents
  ELSE [contents EXCEPT ![ListOf(environment[o])] = RemoveFirst(@, o)]

Arrived(o, dest) == [Left(o) EXCEPT ![ListOf(dest)] = Append(@, o)]

\* Mutant of Disturbed: the walk goes by index and does not notice.
NotDisturbed(frame, dest) == frame

\* The iterators of the lists that change: add always changes one, remove may.
Disturbed(frame, dest) ==
  IF frame.op = "move" /\ (frame.list = ListOf(dest) \/ contents'[frame.list] # contents[frame.list])
    THEN [frame EXCEPT !.stale = TRUE] ELSE frame

Move(dest) ==
  /\ Running("lpc")
  /\ Len(stack) < MaxDepth
  /\ contents' = Arrived(Top.obj, dest)
  /\ environment' = [environment EXCEPT ![Top.obj] = dest]
  /\ stack' = Append([k \in DOMAIN stack |-> Disturbed(stack[k], dest)],
                     [op |-> "move", obj |-> Top.obj, list |-> ListOf(dest),
                      part |-> IF Top.obj \in Living THEN "here" ELSE "living",
                      cursor |-> 0, stale |-> FALSE, met |-> {}])
  /\ UNCHANGED destructed

\* The walk becomes frame and calls init() in o, if o has one.
CallInit(frame, o) ==
  /\ LET walk == Append(Front(stack), frame) IN
     \/ stack' = walk
     \/ o \notin destructed /\ stack' = Append(walk, [op |-> "lpc", obj |-> o])
  /\ UNCHANGED places

\* "1. if A is living, causes A to call the init() in B"
InitHere ==
  /\ Running("move")
  /\ Top.part = "here"
  /\ CallInit([Top EXCEPT !.part = "others"], Top.list[1])

InLoop(part) == Running("move") /\ Top.part = part

\* hasNext compares the cursor with the size; next compares modCount.
Ended == Top.cursor = Len(contents[Top.list])
Modified == Top.cursor > 0 /\ Top.stale
HasNext == Top.cursor < Len(contents[Top.list]) /\ ~Modified

Element == contents[Top.list][Top.cursor + 1]
Advanced == [Top EXCEPT !.cursor = @ + 1, !.stale = FALSE, !.met = @ \cup {Element}]

\* "3. if A is living, causes A to call the init() in each object in the inventory of B"
InitOther ==
  /\ InLoop("others")
  /\ HasNext
  /\ CallInit(Advanced, Element)

OthersEnd ==
  /\ InLoop("others")
  /\ Ended
  /\ stack' = Append(Front(stack), [Top EXCEPT !.part = "living", !.cursor = 0, !.met = {}])
  /\ UNCHANGED places

\* "2. causes each living object in the inventory of B to call init() in A"
InitByLiving ==
  /\ InLoop("living")
  /\ HasNext
  /\ Element \in Living
  /\ CallInit(Advanced, Top.obj)

SkipLifeless ==
  /\ InLoop("living")
  /\ HasNext
  /\ Element \notin Living
  /\ stack' = Append(Front(stack), Advanced)
  /\ UNCHANGED places

MoveEnds ==
  /\ InLoop("living")
  /\ Ended
  /\ stack' = Front(stack)
  /\ UNCHANGED places

\* ConcurrentModificationException
IteratorFails ==
  /\ InLoop("others") \/ InLoop("living")
  /\ ~Ended /\ ~HasNext
  /\ Throw
  /\ UNCHANGED places

\* init() is called in a destructed object.
CallFails ==
  /\ \/ InLoop("here") /\ Top.list[1] \in destructed
     \/ InLoop("others") /\ HasNext /\ Element \in destructed
     \/ InLoop("living") /\ HasNext /\ Element \in Living /\ Top.obj \in destructed
  /\ Throw
  /\ UNCHANGED places

-----------------------------------------------------------------------------
Next ==
  \/ \E o \in Objects : Call(o) \/ CallOther(o) \/ Destruct(o) \/ Move(o)
  \/ Return \/ Fail
  \/ InitHere \/ InitOther \/ OthersEnd \/ InitByLiving \/ SkipLifeless \/ MoveEnds
  \/ IteratorFails \/ CallFails

Spec == Init /\ [][Next]_vars

-----------------------------------------------------------------------------
(* Properties *)

OccursOnce(o, s) == \A j, k \in DOMAIN s : s[j] = o /\ s[k] = o => j = k

\* environment() and all_inventory() agree about every object that has not been
\* destructed: it is in the inventory of its environment, once, and in no other.
InventoriesAgree ==
  \A o \in Objects \ destructed, d \in Objects :
    LET list == contents[ListOf(d)] IN
    /\ environment[o] = d /\ d \notin destructed => o \in ToSet(list)
    /\ o \in ToSet(list) => environment[o] = d
    /\ OccursOnce(o, list)

\* However init() moves objects about, no walk comes twice to the same object.
MeetsOnce ==
  [][InitOther \/ InitByLiving \/ SkipLifeless
       => Element \notin Top.met \/ Element \in destructed]_vars

\* "causes each living object in the inventory of "B" to call init() in "A"", says the
\* comment: when the walk is over, and A is still in B, none is left that has not.
EachLivingMeets ==
  InLoop("living") /\ (Ended \/ Modified) /\ environment[Top.obj] = Top.list[1]
    => (ToSet(contents[Top.list]) \cap Living) \ {Top.obj, Top.list[1]} \subseteq Top.met
===========================================================================
