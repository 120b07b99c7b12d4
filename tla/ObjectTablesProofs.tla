------------------------ MODULE ObjectTablesProofs ------------------------
(***************************************************************************)
(* Proofs about ObjectManager's tables: who is found, who is a master, and *)
(* that a file has one definition.                                         *)
(***************************************************************************)
EXTENDS ObjectManagerProofs

\* Every file is named in one way only.
OneSpelling == \A s, t \in Spellings : s = t

\* What a destructed instance is excused by.
Excused(i) == IsVirtual(i) \/ i \in young

\* What a frame says of the tables: what it has found is defined, the instance that it
\* loads is the one that is registered, and what it compiles has no definition yet.
FrameOK(x) ==
  /\ x.op \in Requests \cup {"register"} => x.def <= Len(defs)
  /\ x.op = "master" /\ x.inst \in dead => Excused(x.inst)
  /\ OneSpelling /\ x.op = "master" =>
       objects[<<defs[x.def].file, 0>>] = x.inst \/ x.inst \in young
  /\ OneSpelling /\ x.op \in {"compile", "virtual"} => definitions[Normalise(x.name)] = 0

FramesOK == \A k \in 1..Len(stack) : FrameOK(stack[k])

\* An instance has a definition and is the master of no other; a definition is found
\* under its own name.
InstsDefined == \A i \in 1..Len(insts) : insts[i].def <= Len(defs)

MastersOwn == \A d \in DefIds : master[d] # 0 => insts[master[d]].def = d

DefinitionsOwn == \A f \in Files : definitions[f] # 0 => defs[definitions[f]].file = f

\* A definition is the one that is found.
DefsFound == \A d \in 1..Len(defs) : definitions[defs[d].file] = d

TInv ==
  /\ InstsDefined
  /\ MastersOwn
  /\ DefinitionsOwn
  /\ FramesOK
  /\ FoundAreAlive
  /\ MastersAreAlive
  /\ OneSpelling => DefsFound /\ FindAgreesWithLoad

-----------------------------------------------------------------------------
(* Facts about types and frames *)

LEMMA ElementIn ==
  ASSUME NEW S, NEW s \in Seq(S), NEW i \in 1..Len(s)
  PROVE  s[i] \in S
OBVIOUS

\* What the variables hold.
LEMMA Types ==
  ASSUME IInv
  PROVE  /\ Len(defs) \in Nat /\ Len(insts) \in Nat /\ Len(stack) \in Nat
         /\ Len(defs) <= MaxDefs /\ MaxDefs \in Nat /\ MaxInsts \in Nat
         /\ \A d \in 1..Len(defs) : defs[d].file \in Files /\ d \in DefIds
         /\ \A i \in 1..Len(insts) : insts[i].def \in DefIds
         /\ \A f \in Files : definitions[f] \in 0..Len(defs)
         /\ DOMAIN definitions = Files
         /\ DOMAIN objects = Files \X (0..MaxInsts)
         /\ \A k \in DOMAIN objects : objects[k] \in 0..Len(insts)
         /\ \A f \in Files : <<f, 0>> \in DOMAIN objects
         /\ DOMAIN master = DefIds
         /\ \A d \in DefIds : master[d] \in 0..Len(insts)
         /\ dead \subseteq 1..Len(insts) /\ young \subseteq dead
         /\ \A k \in 1..Len(stack) : stack[k] \in Frames
<1>1. MaxDefs \in Nat /\ MaxInsts \in Nat
  BY ObjectManagerAssumption
<1>2. /\ defs \in Seq([file : Files, virtual : BOOLEAN])
      /\ insts \in Seq([def : DefIds, id : 0..MaxInsts])
      /\ stack \in Seq(Frames)
      /\ definitions \in [Files -> 0..Len(defs)]
      /\ objects \in [Files \X (0..MaxInsts) -> 0..Len(insts)]
      /\ master \in [DefIds -> 0..Len(insts)]
      /\ dead \subseteq 1..Len(insts) /\ young \subseteq dead
      /\ Len(defs) <= MaxDefs
  BY DEF IInv, TypeOK, Bounds
<1>3. Len(defs) \in Nat /\ Len(insts) \in Nat /\ Len(stack) \in Nat
  BY <1>2
<1>4. ASSUME NEW d \in 1..Len(defs) PROVE defs[d].file \in Files /\ d \in DefIds
  <2>1. defs[d] \in [file : Files, virtual : BOOLEAN]
    BY <1>2, ElementIn
  <2> QED
    BY <1>1, <1>2, <1>3, <2>1 DEF DefIds
<1>5. /\ \A i \in 1..Len(insts) : insts[i].def \in DefIds
      /\ \A k \in 1..Len(stack) : stack[k] \in Frames
  <2>1. ASSUME NEW i \in 1..Len(insts) PROVE insts[i] \in [def : DefIds, id : 0..MaxInsts]
    BY <1>2, ElementIn
  <2>2. ASSUME NEW k \in 1..Len(stack) PROVE stack[k] \in Frames
    BY <1>2, ElementIn
  <2> QED
    BY <2>1, <2>2
<1>6. /\ \A f \in Files : definitions[f] \in 0..Len(defs)
      /\ DOMAIN definitions = Files
      /\ DOMAIN objects = Files \X (0..MaxInsts)
      /\ \A k \in DOMAIN objects : objects[k] \in 0..Len(insts)
      /\ DOMAIN master = DefIds
      /\ \A d \in DefIds : master[d] \in 0..Len(insts)
  BY <1>2
<1>7. \A f \in Files : <<f, 0>> \in DOMAIN objects
  BY <1>1, <1>6
<1> QED
  BY <1>1, <1>2, <1>3, <1>4, <1>5, <1>6, <1>7

\* A frame that loads a master, with the instance.
LEMMA MasterFrame ==
  ASSUME IInv, TInv, NEW k \in 1..Len(stack), stack[k].op = "master"
  PROVE  /\ stack[k].inst \in 1..Len(insts)
         /\ insts[stack[k].inst].def = stack[k].def
         /\ stack[k].def \in 1..Len(defs) /\ stack[k].def \in DefIds
         /\ loading[stack[k].def]
<1>1. k \in Nat /\ IsMaster(stack, k)
  BY Types DEF IsMaster
<1>2. stack[k].inst \in 1..Len(insts) /\ insts[stack[k].inst].def = stack[k].def
  BY <1>1 DEF IInv, Marks
<1>3. stack[k].def \in DefIds /\ stack[k].def <= Len(defs)
  BY <1>2, Types DEF TInv, InstsDefined
<1>4. loading[stack[k].def]
  BY <1>1, <1>3 DEF IInv, Marks
<1> QED
  BY <1>2, <1>3, <1>4, Types DEF DefIds

\* FrameOK(x) after a step.
StillOK(x) ==
  /\ x.op \in Requests \cup {"register"} => x.def <= Len(defs')
  /\ x.op = "master" /\ x.inst \in dead' =>
       defs'[insts'[x.inst].def].virtual \/ x.inst \in young'
  /\ OneSpelling /\ x.op = "master" =>
       objects'[<<defs'[x.def].file, 0>>] = x.inst \/ x.inst \in young'
  /\ OneSpelling /\ x.op \in {"compile", "virtual"} => definitions'[Normalise(x.name)] = 0

LEMMA FramesStill ==
  ASSUME \A k \in 1..Len(stack') : StillOK(stack'[k])
  PROVE  FramesOK'
BY DEF StillOK, FramesOK, FrameOK, Excused, IsVirtual, OneSpelling, Normalise

-----------------------------------------------------------------------------
(* Steps of the stack *)

tables == <<made, definitions, objects, master, dead, young>>

\* Each frame was there or says what is so.
Moved ==
  \A k \in 1..Len(stack') : FrameOK(stack'[k]) \/ \E j \in 1..Len(stack) : stack'[k] = stack[j]

\* A step that leaves the tables alone.
LEMMA StackMoves ==
  ASSUME TInv, UNCHANGED tables, Moved
  PROVE  TInv'
<1>1. FramesOK'
  <2>1. ASSUME NEW k \in 1..Len(stack') PROVE StillOK(stack'[k])
    <3>1. FrameOK(stack'[k])
      BY DEF Moved, TInv, FramesOK
    <3> QED
      BY <3>1 DEF FrameOK, StillOK, Excused, IsVirtual, tables, made
  <2> QED
    BY <2>1, FramesStill
<1> QED
  BY <1>1 DEF TInv, tables, made, InstsDefined, MastersOwn, DefinitionsOwn, FoundAreAlive,
              MastersAreAlive, IsVirtual, OneSpelling, DefsFound, FindAgreesWithLoad

\* The ways in which the stack moves.
LEMMA Pushes ==
  ASSUME IInv, NEW f \in Frames, FrameOK(f), Push(f)
  PROVE  Moved
<1>1. stack \in Seq(Frames) /\ Len(stack) \in Nat
  BY DEF IInv, TypeOK
<1>2. /\ Len(stack') = Len(stack) + 1
      /\ stack'[Len(stack) + 1] = f
      /\ \A k \in 1..Len(stack) : stack'[k] = stack[k]
  BY <1>1, Pushed DEF Push
<1>3. ASSUME NEW k \in 1..Len(stack') PROVE stack'[k] = f \/ k \in 1..Len(stack)
  BY <1>1, <1>2
<1> QED
  BY <1>2, <1>3 DEF Moved

LEMMA Pops ==
  ASSUME IInv, stack # <<>>, Pop
  PROVE  Moved
<1>1. stack \in Seq(Frames) /\ Len(stack) \in Nat
  BY DEF IInv, TypeOK
<1>2. /\ Len(stack') = Len(stack) - 1
      /\ \A k \in 1..(Len(stack) - 1) : stack'[k] = stack[k]
  BY <1>1, Popped DEF Pop
<1>3. ASSUME NEW k \in 1..Len(stack') PROVE k \in 1..Len(stack) /\ stack'[k] = stack[k]
  BY <1>1, <1>2
<1> QED
  BY <1>3 DEF Moved

LEMMA Replaces ==
  ASSUME IInv, stack # <<>>, NEW f \in Frames, FrameOK(f), Replace(f)
  PROVE  Moved
<1>1. stack \in Seq(Frames) /\ Len(stack) \in Nat
  BY DEF IInv, TypeOK
<1>2. /\ Len(stack') = Len(stack)
      /\ stack'[Len(stack)] = f
      /\ \A k \in 1..(Len(stack) - 1) : stack'[k] = stack[k]
  BY <1>1, Replaced DEF Replace
<1>3. ASSUME NEW k \in 1..Len(stack')
      PROVE  stack'[k] = f \/ (k \in 1..Len(stack) /\ stack'[k] = stack[k])
  <2>1. CASE k = Len(stack)
    BY <1>1, <1>2, <2>1
  <2>2. CASE k # Len(stack)
    <3>1. k \in 1..(Len(stack) - 1) /\ k \in 1..Len(stack)
      BY <1>1, <1>2, <2>2
    <3> QED
      BY <1>2, <3>1
  <2> QED
    BY <2>1, <2>2
<1> QED
  BY <1>3 DEF Moved

LEMMA ReplacesAndPushes ==
  ASSUME IInv, stack # <<>>, NEW f \in Frames, FrameOK(f), NEW g \in Frames, FrameOK(g),
         ReplaceAndPush(f, g)
  PROVE  Moved
<1>1. stack \in Seq(Frames) /\ Len(stack) \in Nat
  BY DEF IInv, TypeOK
<1>2. /\ Len(stack') = Len(stack) + 1
      /\ stack'[Len(stack)] = f
      /\ stack'[Len(stack) + 1] = g
      /\ \A k \in 1..(Len(stack) - 1) : stack'[k] = stack[k]
  <2> DEFINE t == Append(Append(Front(stack), f), g)
  <2>1. /\ Len(t) = Len(stack) + 1
        /\ t[Len(stack)] = f
        /\ t[Len(stack) + 1] = g
        /\ \A k \in 1..(Len(stack) - 1) : t[k] = stack[k]
    <3>1. stack \in Seq(Frames)
      BY <1>1
    <3> QED
      BY <3>1, ReplacedAndPushed
  <2>2. stack' = t
    BY DEF ReplaceAndPush
  <2> HIDE DEF t
  <2> QED
    BY <2>1, <2>2
<1>3. ASSUME NEW k \in 1..Len(stack')
      PROVE  stack'[k] = f \/ stack'[k] = g \/ (k \in 1..Len(stack) /\ stack'[k] = stack[k])
  <2>1. CASE k = Len(stack)
    BY <1>1, <1>2, <2>1
  <2>2. CASE k = Len(stack) + 1
    BY <1>1, <1>2, <2>2
  <2>3. CASE k \notin {Len(stack), Len(stack) + 1}
    <3>1. k \in 1..(Len(stack) - 1) /\ k \in 1..Len(stack)
      BY <1>1, <1>2, <2>3
    <3> QED
      BY <1>2, <3>1
  <2> QED
    BY <2>1, <2>2, <2>3
<1> QED
  BY <1>3 DEF Moved

\* The innermost frame, and what it says.
LEMMA TopOK ==
  ASSUME IInv, TInv, NEW ops, Running(ops)
  PROVE  FrameOK(Top)
<1>1. Len(stack) \in 1..Len(stack) /\ Top = stack[Len(stack)]
  BY RunningIs
<1> QED
  BY <1>1 DEF TInv, FramesOK

\* Actions that push, pop or replace frames, or throw.
LEMMA RequestTables ==
  ASSUME IInv, TInv, NEW op \in {"load", "clone"}, NEW name \in Names, Request(op, name)
  PROVE  TInv'
<1> DEFINE f == [op |-> op, name |-> name, def |-> 0]
<1>1. f \in Frames
  BY NewFrames, ObjectManagerAssumption DEF Requests
<1>2. FrameOK(f)
  BY Types DEF FrameOK
<1>3. Push(f) /\ UNCHANGED tables
  BY DEF Request, tables
<1> HIDE DEF f
<1> QED
  BY <1>1, <1>2, <1>3, Pushes, StackMoves

LEMMA CallTables == ASSUME IInv, TInv, Call PROVE TInv'
<1> DEFINE f == [op |-> "call"]
<1>1. f \in Frames
  BY NewFrames
<1>2. FrameOK(f)
  BY DEF FrameOK, Requests
<1>3. Push(f) /\ UNCHANGED tables
  BY DEF Call, tables
<1> HIDE DEF f
<1> QED
  BY <1>1, <1>2, <1>3, Pushes, StackMoves

LEMMA PopTables ==
  ASSUME IInv, TInv, stack # <<>>, Pop, UNCHANGED tables
  PROVE  TInv'
BY Pops, StackMoves

LEMMA ThrowTables ==
  ASSUME IInv, TInv, UNCHANGED <<stack, tables>>
  PROVE  TInv'
<1>1. Moved
  BY DEF Moved
<1> QED
  BY <1>1, StackMoves

LEMMA FoundTables == ASSUME IInv, TInv, Found PROVE TInv'
<1> DEFINE f == [Top EXCEPT !.def = definitions[Normalise(Top.name)]]
<1>1. /\ Running(Requests) /\ Replace(f) /\ UNCHANGED tables
  BY DEF Found, Finding, tables
<1>2. Top \in [op : Requests, name : Names, def : 0..MaxDefs]
  BY <1>1, RunningIs, FrameFields
<1>3. definitions[Normalise(Top.name)] \in 0..Len(defs)
  <2>1. Top.name \in Files \X Spellings
    BY <1>2 DEF Names
  <2>2. Normalise(Top.name) \in Files
    BY <2>1 DEF Normalise
  <2> QED
    BY <2>2, Types
<1>4. f \in [op : Requests, name : Names, def : 0..MaxDefs] /\ f.def <= Len(defs)
  <2>1. definitions[Normalise(Top.name)] \in 0..MaxDefs
    BY <1>3, Types
  <2>2. f \in [op : Requests, name : Names, def : 0..MaxDefs]
          /\ f.def = definitions[Normalise(Top.name)]
    BY <1>2, <2>1
  <2>3. definitions[Normalise(Top.name)] <= Len(defs)
    BY <1>3, Types
  <2> QED
    BY <2>2, <2>3
<1>5. f \in Frames
  BY <1>4 DEF Frames, Requests
<1>6. FrameOK(f)
  BY <1>4 DEF FrameOK, Requests
<1> HIDE DEF f
<1> QED
  BY <1>1, <1>5, <1>6, RunningIs, Replaces, StackMoves

LEMMA CompileTables == ASSUME IInv, TInv, Compile PROVE TInv'
<1> DEFINE f == [op |-> "compile", name |-> Top.name, todo |-> Inherits[Normalise(Top.name)]]
<1>1. /\ Running(Requests) /\ Push(f) /\ UNCHANGED tables
      /\ definitions[Normalise(Top.name)] = 0
  BY DEF Compile, Finding, tables
<1>2. Top \in [op : Requests, name : Names, def : 0..MaxDefs]
  BY <1>1, RunningIs, FrameFields
<1>3. f \in Frames
  <2>1. Top.name \in Files \X Spellings
    BY <1>2 DEF Names
  <2>2. Normalise(Top.name) \in Files
    BY <2>1 DEF Normalise
  <2>3. Inherits[Normalise(Top.name)] \in SUBSET Names
    BY <2>2, ObjectManagerAssumption
  <2> QED
    BY <1>2, <2>3, NewFrames
<1>4. FrameOK(f)
  BY <1>1 DEF FrameOK, Requests
<1> HIDE DEF f
<1> QED
  BY <1>1, <1>3, <1>4, Pushes, StackMoves

LEMMA InheritTables == ASSUME IInv, TInv, NEW name \in Names, Inherit(name) PROVE TInv'
<1> DEFINE f == [Top EXCEPT !.todo = @ \ {name}]
           g == [op |-> "inherit", name |-> name, def |-> 0]
<1>1. /\ Running({"compile"}) /\ ReplaceAndPush(f, g) /\ UNCHANGED tables
  BY DEF Inherit, tables
<1>2. Top \in [op : {"compile"}, name : Names, todo : SUBSET Names]
  BY <1>1, RunningIs, FrameFields
<1>3. f \in [op : {"compile"}, name : Names, todo : SUBSET Names] /\ f.name = Top.name
  BY <1>2
<1>4. f \in Frames
  BY <1>3 DEF Frames
<1>5. g \in Frames
  BY NewFrames, ObjectManagerAssumption DEF Requests
<1>6. FrameOK(f)
  <2>1. FrameOK(Top)
    BY <1>1, TopOK
  <2> QED
    BY <1>2, <1>3, <2>1 DEF FrameOK, Requests
<1>7. FrameOK(g)
  BY Types DEF FrameOK
<1> HIDE DEF f, g
<1> QED
  BY <1>1, <1>4, <1>5, <1>6, <1>7, RunningIs, ReplacesAndPushes, StackMoves

LEMMA AskMasterTables == ASSUME IInv, TInv, AskMaster PROVE TInv'
<1> DEFINE f == [op |-> "virtual", name |-> Top.name]
           g == [op |-> "ask", name |-> Master, def |-> 0]
<1>1. /\ Running({"compile"}) /\ ReplaceAndPush(f, g) /\ UNCHANGED tables
  BY DEF AskMaster, tables
<1>2. Top \in [op : {"compile"}, name : Names, todo : SUBSET Names]
  BY <1>1, RunningIs, FrameFields
<1>3. f \in Frames /\ g \in Frames
  BY <1>2, NewFrames, ObjectManagerAssumption DEF Requests
<1>4. FrameOK(f)
  <2>1. FrameOK(Top)
    BY <1>1, TopOK
  <2> QED
    BY <1>2, <2>1 DEF FrameOK, Requests
<1>5. FrameOK(g)
  BY Types DEF FrameOK
<1> HIDE DEF f, g
<1> QED
  BY <1>1, <1>3, <1>4, <1>5, RunningIs, ReplacesAndPushes, StackMoves

LEMMA CompileObjectTables == ASSUME IInv, TInv, CompileObject PROVE TInv'
<1> DEFINE f == [op |-> "compile_object"]
<1>1. /\ Running({"ask"}) /\ Replace(f) /\ UNCHANGED tables
  BY DEF CompileObject, tables
<1>2. f \in Frames
  BY NewFrames
<1>3. FrameOK(f)
  BY DEF FrameOK, Requests
<1> HIDE DEF f
<1> QED
  BY <1>1, <1>2, <1>3, RunningIs, Replaces, StackMoves

LEMMA CompiledTables == ASSUME IInv, TInv, Compiled PROVE TInv'
<1> DEFINE n == Len(stack)
           x == stack[Len(stack) - 1]
           f == [x EXCEPT !.def = Top.def]
<1>1. Running({"register"}) /\ UNCHANGED tables
  BY DEF Compiled, tables
<1>2. /\ Top \in [op : {"register"}, name : Names, def : DefIds]
      /\ n \in Nat /\ n > 1 /\ Under(x, Top)
      /\ stack \in Seq(Frames)
  BY <1>1, RunningIs, FrameFields
<1>3. x \in Frames /\ x.op \in Requests
  BY <1>2 DEF Under, Markers
<1>4. x \in [op : Requests, name : Names, def : 0..MaxDefs]
  BY <1>3, FrameFields
<1>5. f \in [op : Requests, name : Names, def : 0..MaxDefs] /\ f.def = Top.def
  BY <1>2, <1>4, ObjectManagerAssumption DEF DefIds
<1>6. f \in Frames
  BY <1>5 DEF Frames, Requests
<1>7. FrameOK(f)
  <2>1. Top.def <= Len(defs)
    BY <1>1, <1>2, TopOK DEF FrameOK
  <2> QED
    BY <1>5, <2>1 DEF FrameOK, Requests
<1> HIDE DEF f
<1>8. /\ Len(stack') = n - 1
      /\ stack'[n - 1] = f
      /\ \A k \in 1..(n - 2) : stack'[k] = stack[k]
  <2>1. stack' = Append(Front(Front(stack)), f)
    BY DEF Compiled, f
  <2> QED
    BY <1>2, <1>6, <2>1, ReturnedTo
<1>9. ASSUME NEW k \in 1..Len(stack')
      PROVE  stack'[k] = f \/ (k \in 1..Len(stack) /\ stack'[k] = stack[k])
  <2>1. CASE k = n - 1
    BY <1>2, <1>8, <2>1
  <2>2. CASE k # n - 1
    <3>1. k \in 1..(n - 2) /\ k \in 1..Len(stack)
      BY <1>2, <1>8, <2>2
    <3> QED
      BY <1>8, <3>1
  <2> QED
    BY <2>1, <2>2
<1>10. Moved
  BY <1>7, <1>9 DEF Moved
<1> QED
  BY <1>1, <1>10, StackMoves

-----------------------------------------------------------------------------
(* Masters and instances *)

\* A master's create() is over: FrameOK says that it is still the one that is found.
LEMMA MasterLoadedTables == ASSUME IInv, TInv, MasterLoaded PROVE TInv'
<1> DEFINE n == Len(stack)
<1>1. /\ Running({"master"}) /\ Pop
      /\ master' = [master EXCEPT ![Top.def] = Top.inst]
      /\ UNCHANGED <<made, definitions, objects, dead, young>>
  BY DEF MasterLoaded
<1>2. n \in 1..Len(stack) /\ Top = stack[n] /\ Top.op = "master" /\ stack # <<>>
  BY <1>1, RunningIs
<1>3. /\ Top.inst \in 1..Len(insts)
      /\ insts[Top.inst].def = Top.def
      /\ Top.def \in 1..Len(defs) /\ Top.def \in DefIds
  BY <1>2, MasterFrame
<1>4. FrameOK(Top)
  BY <1>1, TopOK
<1> HIDE DEF n
<1>5. \A d \in DefIds : master'[d] = IF d = Top.def THEN Top.inst ELSE master[d]
  BY <1>1, Types
<1>6. FramesOK'
  <2>1. Moved
    BY <1>1, <1>2, Pops
  <2>2. ASSUME NEW k \in 1..Len(stack') PROVE StillOK(stack'[k])
    <3>1. FrameOK(stack'[k])
      BY <2>1 DEF Moved, TInv, FramesOK
    <3> QED
      BY <1>1, <3>1 DEF FrameOK, StillOK, Excused, IsVirtual, made
  <2> QED
    BY <2>2, FramesStill
<1>7. MastersOwn'
  BY <1>1, <1>3, <1>5 DEF TInv, MastersOwn, made
<1>8. MastersAreAlive'
  <2>1. Top.inst \in dead => Excused(Top.inst)
    BY <1>2, <1>4 DEF FrameOK
  <2> QED
    BY <1>1, <1>5, <2>1 DEF TInv, MastersAreAlive, Excused, IsVirtual, made
<1>9. ASSUME OneSpelling PROVE FindAgreesWithLoad'
  <2>1. ASSUME NEW f \in Files, definitions[f] # 0, master'[definitions[f]] # 0
        PROVE  objects[<<f, 0>>] = master'[definitions[f]] \/ master'[definitions[f]] \in young
    <3>1. defs[definitions[f]].file = f /\ definitions[f] \in 1..Len(defs)
      BY <2>1, Types DEF TInv, DefinitionsOwn
    <3>2. definitions[f] \in DefIds
      BY <3>1, Types
    <3>3. CASE definitions[f] = Top.def
      <4>1. objects[<<defs[Top.def].file, 0>>] = Top.inst \/ Top.inst \in young
        BY <1>2, <1>4, <1>9 DEF FrameOK
      <4> QED
        BY <1>5, <3>1, <3>2, <3>3, <4>1
    <3>4. CASE definitions[f] # Top.def
      <4>1. master'[definitions[f]] = master[definitions[f]]
        BY <1>5, <3>2, <3>4
      <4> QED
        BY <1>9, <2>1, <4>1 DEF TInv, FindAgreesWithLoad
    <3> QED
      BY <3>3, <3>4
  <2> QED
    BY <1>1, <2>1 DEF FindAgreesWithLoad, made
<1> QED
  BY <1>1, <1>6, <1>7, <1>8, <1>9
     DEF TInv, InstsDefined, DefinitionsOwn, FoundAreAlive, DefsFound, OneSpelling, IsVirtual, made

\* destruct: what is loaded at the moment is excused from now on.
LEMMA DestructTables == ASSUME IInv, TInv, NEW i \in InstIds, Destruct(i) PROVE TInv'
<1>1. /\ i \in 1..Len(insts) /\ i \notin dead
      /\ dead' = dead \cup {i}
      /\ young' = IF loading[insts[i].def] THEN young \cup {i} ELSE young
      /\ objects' = IF IsVirtual(i) THEN objects ELSE Unregistered(i)
      /\ master' = IF IsVirtual(i) THEN master ELSE WithoutMaster(i)
      /\ UNCHANGED <<made, definitions, stack>>
  BY DEF Destruct
<1>2. /\ DOMAIN objects' = DOMAIN objects
      /\ \A k \in DOMAIN objects :
           /\ objects'[k] = objects[k] \/ (objects'[k] = 0 /\ objects[k] = i)
           /\ objects'[k] = i => IsVirtual(i)
  <2>1. i # 0
    BY <1>1, Types
  <2> QED
    BY <1>1, <2>1 DEF Unregistered
<1>3. \A d \in DefIds : /\ master'[d] = master[d] \/ master'[d] = 0
                        /\ master'[d] = i => IsVirtual(i)
  <2>1. i # 0
    BY <1>1, Types
  <2> QED
    BY <1>1, <2>1, Types DEF WithoutMaster
<1>4. 0 \notin dead'
  BY <1>1, Types
<1>5. young \subseteq young' /\ \A j : IsVirtual(j)' = IsVirtual(j)
  BY <1>1 DEF IsVirtual, made
<1>6. FramesOK'
  <2>1. ASSUME NEW k \in 1..Len(stack') PROVE StillOK(stack'[k])
    <3> DEFINE x == stack[k]
    <3>1. k \in 1..Len(stack) /\ stack'[k] = x
      BY <1>1
    <3>2. FrameOK(x)
      BY <3>1 DEF TInv, FramesOK
    <3>3. CASE x.op # "master"
      BY <1>1, <3>1, <3>2, <3>3 DEF FrameOK, StillOK, made
    <3>4. CASE x.op = "master"
      <4>1. /\ insts[x.inst].def = x.def /\ loading[x.def]
            /\ x.def \in 1..Len(defs)
        BY <3>1, <3>4, MasterFrame
      <4>2. x.inst = i => x.inst \in young'
        BY <1>1, <4>1
      <4>3. x.inst \in dead' => IsVirtual(x.inst) \/ x.inst \in young'
        BY <1>1, <1>5, <3>2, <3>4, <4>2 DEF FrameOK, Excused
      <4>4. ASSUME OneSpelling
            PROVE  objects'[<<defs[x.def].file, 0>>] = x.inst \/ x.inst \in young'
        <5>1. <<defs[x.def].file, 0>> \in DOMAIN objects
          BY <4>1, Types
        <5>2. objects[<<defs[x.def].file, 0>>] = x.inst \/ x.inst \in young
          BY <3>2, <3>4, <4>4 DEF FrameOK
        <5> QED
          BY <1>2, <1>5, <4>2, <5>1, <5>2
      <4> QED
        BY <1>1, <3>1, <3>4, <4>3, <4>4 DEF StillOK, IsVirtual, Requests, made
    <3> QED
      BY <3>3, <3>4
  <2> QED
    BY <2>1, FramesStill
<1>7. MastersOwn'
  BY <1>1, <1>3 DEF TInv, MastersOwn, made
<1>8. FoundAreAlive'
  <2>1. ASSUME NEW k \in DOMAIN objects, objects'[k] \in dead' PROVE IsVirtual(objects'[k])
    <3>1. objects'[k] = objects[k]
      BY <1>2, <1>4, <2>1
    <3> QED
      BY <1>1, <1>2, <2>1, <3>1 DEF TInv, FoundAreAlive
  <2> QED
    BY <1>2, <1>5, <2>1 DEF FoundAreAlive
<1>9. MastersAreAlive'
  <2>1. ASSUME NEW d \in DefIds, master'[d] \in dead'
        PROVE  IsVirtual(master'[d]) \/ master'[d] \in young'
    <3>1. master'[d] = master[d]
      BY <1>3, <1>4, <2>1
    <3> QED
      BY <1>1, <1>3, <1>5, <2>1, <3>1 DEF TInv, MastersAreAlive
  <2> QED
    BY <1>5, <2>1 DEF MastersAreAlive
<1>10. ASSUME OneSpelling PROVE FindAgreesWithLoad'
  <2>1. ASSUME NEW f \in Files, definitions[f] # 0, master'[definitions[f]] # 0
        PROVE  objects'[<<f, 0>>] = master'[definitions[f]] \/ master'[definitions[f]] \in young'
    <3>1. definitions[f] \in DefIds
      BY <2>1, Types DEF DefIds
    <3>2. master'[definitions[f]] = master[definitions[f]]
      BY <1>3, <2>1, <3>1
    <3>3. objects[<<f, 0>>] = master[definitions[f]] \/ master[definitions[f]] \in young
      BY <1>10, <2>1, <3>2 DEF TInv, FindAgreesWithLoad
    <3>4. <<f, 0>> \in DOMAIN objects
      BY Types
    <3>5. CASE IsVirtual(i)
      BY <1>1, <1>5, <3>2, <3>3, <3>5
    <3>6. CASE ~IsVirtual(i)
      <4>1. master[definitions[f]] # i
        BY <1>3, <3>1, <3>2, <3>6
      <4> QED
        BY <1>2, <1>5, <3>2, <3>3, <3>4, <4>1
    <3> QED
      BY <3>5, <3>6
  <2> QED
    BY <1>1, <2>1 DEF FindAgreesWithLoad, made
<1> QED
  BY <1>1, <1>6, <1>7, <1>8, <1>9, <1>10
     DEF TInv, InstsDefined, DefinitionsOwn, DefsFound, OneSpelling, made

\* An instance is made, a clone or the first master of its definition.
LEMMA NewInstanceTables ==
  ASSUME IInv, TInv, NEW d \in DefIds, d <= Len(defs), NEW id \in 0..MaxInsts,
         NewInstance(d, id),
         id # 0 \/ (master[d] = 0 /\ ~loading[d]),
         UNCHANGED <<defs, definitions, master, dead, young>>
  PROVE  /\ InstsDefined' /\ MastersOwn' /\ DefinitionsOwn' /\ FoundAreAlive' /\ MastersAreAlive'
         /\ OneSpelling => DefsFound' /\ FindAgreesWithLoad'
         /\ \A k \in 1..Len(stack) : StillOK(stack[k])
<1> DEFINE n == Len(insts) + 1
           key == <<defs[d].file, id>>
<1>1. /\ insts' \in Seq([def : DefIds, id : 0..MaxInsts])
      /\ Len(insts') = n
      /\ insts'[n] = [def |-> d, id |-> id]
      /\ \A i \in 1..Len(insts) : i \in 1..Len(insts') /\ insts'[i] = insts[i]
  BY InstanceMade
<1>2. n \in Nat /\ n \notin 1..Len(insts) /\ n # 0 /\ n \notin dead
  BY Types
<1>3. key \in DOMAIN objects /\ d \in 1..Len(defs)
  <2>1. d \in 1..Len(defs)
    BY Types DEF DefIds
  <2> QED
    BY <2>1, Types
<1>4. /\ DOMAIN objects' = DOMAIN objects
      /\ \A k \in DOMAIN objects : objects'[k] = IF k = key THEN n ELSE objects[k]
  <2>1. objects' = [objects EXCEPT ![key] = n]
    BY DEF NewInstance
  <2> HIDE DEF key, n
  <2> QED
    BY <1>3, <2>1
<1>5. \A i \in 1..Len(insts) : IsVirtual(i)' = IsVirtual(i)
  BY <1>1 DEF IsVirtual
<1>6. InstsDefined'
  <2>1. ASSUME NEW i \in 1..Len(insts') PROVE insts'[i].def <= Len(defs)
    <3>1. CASE i = n
      BY <1>1, <3>1
    <3>2. CASE i # n
      <4>1. i \in 1..Len(insts)
        BY <1>1, <1>2, <3>2, Types
      <4> QED
        BY <1>1, <4>1 DEF TInv, InstsDefined
    <3> QED
      BY <3>1, <3>2
  <2> QED
    BY <2>1 DEF InstsDefined
<1>7. MastersOwn'
  <2>1. ASSUME NEW e \in DefIds, master[e] # 0 PROVE insts'[master[e]].def = e
    <3>1. master[e] \in 1..Len(insts)
      BY <2>1, Types
    <3> QED
      BY <1>1, <2>1, <3>1 DEF TInv, MastersOwn
  <2> QED
    BY <2>1 DEF MastersOwn
<1>8. FoundAreAlive'
  <2>1. ASSUME NEW k \in DOMAIN objects, objects'[k] \in dead
        PROVE  defs[insts'[objects'[k]].def].virtual
    <3>1. objects'[k] = objects[k]
      BY <1>2, <1>4, <2>1
    <3>2. objects[k] \in 1..Len(insts) /\ IsVirtual(objects[k])
      BY <2>1, <3>1, Types DEF TInv, FoundAreAlive
    <3> QED
      BY <1>1, <3>1, <3>2 DEF IsVirtual
  <2> QED
    BY <1>4, <2>1 DEF FoundAreAlive, IsVirtual
<1>9. MastersAreAlive'
  <2>1. ASSUME NEW e \in DefIds, master[e] \in dead
        PROVE  defs[insts'[master[e]].def].virtual \/ master[e] \in young
    <3>1. master[e] \in 1..Len(insts)
      BY <2>1, Types
    <3> QED
      BY <1>1, <2>1, <3>1 DEF TInv, MastersAreAlive, IsVirtual
  <2> QED
    BY <2>1 DEF MastersAreAlive, IsVirtual
<1>10. ASSUME OneSpelling PROVE FindAgreesWithLoad'
  <2>1. ASSUME NEW f \in Files, definitions[f] # 0, master[definitions[f]] # 0
        PROVE  objects'[<<f, 0>>] = master[definitions[f]] \/ master[definitions[f]] \in young
    <3>1. objects[<<f, 0>>] = master[definitions[f]] \/ master[definitions[f]] \in young
      BY <1>10, <2>1 DEF TInv, FindAgreesWithLoad
    <3>2. <<f, 0>> # key
      <4>1. CASE id # 0
        BY <4>1
      <4>2. CASE id = 0
        <5>1. master[d] = 0
          BY <4>2
        <5>2. definitions[f] # d
          BY <2>1, <5>1
        <5>3. definitions[defs[d].file] = d
          BY <1>3, <1>10 DEF TInv, DefsFound
        <5> QED
          BY <5>2, <5>3
      <4> QED
        BY <4>1, <4>2
    <3> QED
      BY <1>4, <3>1, <3>2, Types
  <2> QED
    BY <2>1 DEF FindAgreesWithLoad
<1>11. ASSUME NEW k \in 1..Len(stack) PROVE StillOK(stack[k])
  <2> DEFINE x == stack[k]
  <2>1. FrameOK(x)
    BY DEF TInv, FramesOK
  <2>2. CASE x.op # "master"
    BY <2>1, <2>2 DEF FrameOK, StillOK
  <2>3. CASE x.op = "master"
    <3>1. /\ x.inst \in 1..Len(insts) /\ insts[x.inst].def = x.def
          /\ loading[x.def] /\ x.def \in 1..Len(defs)
      BY <2>3, MasterFrame
    <3>2. ASSUME OneSpelling
          PROVE  objects'[<<defs[x.def].file, 0>>] = x.inst \/ x.inst \in young
      <4>1. objects[<<defs[x.def].file, 0>>] = x.inst \/ x.inst \in young
        BY <2>1, <2>3, <3>2 DEF FrameOK
      <4>2. <<defs[x.def].file, 0>> # key
        <5>1. CASE id # 0
          BY <5>1
        <5>2. CASE id = 0
          <6>1. x.def # d
            BY <3>1, <5>2
          <6>2. definitions[defs[d].file] = d /\ definitions[defs[x.def].file] = x.def
            BY <1>3, <3>1, <3>2 DEF TInv, DefsFound
          <6> QED
            BY <6>1, <6>2
        <5> QED
          BY <5>1, <5>2
      <4>3. <<defs[x.def].file, 0>> \in DOMAIN objects
        BY <3>1, Types
      <4> QED
        BY <1>4, <4>1, <4>2, <4>3
    <3>3. x.inst \in dead => defs[insts'[x.inst].def].virtual \/ x.inst \in young
      BY <1>1, <2>1, <2>3, <3>1 DEF FrameOK, Excused, IsVirtual
    <3> QED
      BY <2>3, <3>2, <3>3 DEF StillOK, Requests
  <2> QED
    BY <2>2, <2>3
<1> HIDE DEF n, key
<1> QED
  BY <1>6, <1>7, <1>8, <1>9, <1>10, <1>11 DEF TInv, DefinitionsOwn, DefsFound, OneSpelling

LEMMA CloneTables == ASSUME IInv, TInv, Clone PROVE TInv'
<1> DEFINE f == [op |-> "create", inst |-> Len(insts) + 1]
<1>1. /\ Running({"clone"}) /\ Replace(f)
      /\ Wanted # 0 /\ NewInstance(Wanted, lastId + 1)
      /\ UNCHANGED <<defs, definitions, master, dead, young>>
  BY DEF Clone, ReadyToClone
<1>2. Top \in [op : Requests, name : Names, def : 0..MaxDefs] /\ Top.op = "clone"
  BY <1>1, RunningIs, FrameFields DEF Requests
<1>3. Wanted \in DefIds /\ Wanted = Top.def
  BY <1>1, <1>2, ObjectManagerAssumption DEF Wanted, Requests, DefIds
<1>4. Wanted <= Len(defs)
  BY <1>1, <1>2, <1>3, TopOK DEF FrameOK, Requests
<1>5. lastId + 1 \in 0..MaxInsts /\ lastId + 1 # 0
  BY <1>1, ObjectManagerAssumption DEF NewInstance, IInv, TypeOK, Bounds
<1>6. /\ InstsDefined' /\ MastersOwn' /\ DefinitionsOwn' /\ FoundAreAlive' /\ MastersAreAlive'
      /\ OneSpelling => DefsFound' /\ FindAgreesWithLoad'
      /\ \A k \in 1..Len(stack) : StillOK(stack[k])
  <2>1. NewInstance(Wanted, lastId + 1)
    BY <1>1
  <2> HIDE DEF f
  <2> QED
    BY <1>1, <1>3, <1>4, <1>5, <2>1, NewInstanceTables
<1>7. StillOK(f)
  BY DEF StillOK, Requests
<1>8. FrameOK(f)
  BY DEF FrameOK, Requests
<1>9. f \in Frames
  BY <1>1, <1>3, <1>5, InstanceMade, NewFrames
<1> HIDE DEF f
<1>10. stack \in Seq(Frames) /\ stack # <<>> /\ Len(stack) \in Nat
  BY <1>1, RunningIs
<1>11. FramesOK'
  <2>1. /\ Len(stack') = Len(stack)
        /\ stack'[Len(stack)] = f
        /\ \A k \in 1..(Len(stack) - 1) : stack'[k] = stack[k]
    BY <1>1, <1>9, <1>10, Replaced DEF Replace
  <2>2. ASSUME NEW k \in 1..Len(stack') PROVE StillOK(stack'[k])
    <3>1. CASE k = Len(stack)
      BY <1>7, <1>10, <2>1, <3>1
    <3>2. CASE k # Len(stack)
      <4>1. k \in 1..(Len(stack) - 1) /\ k \in 1..Len(stack)
        BY <1>10, <2>1, <3>2
      <4> QED
        BY <1>6, <2>1, <4>1
    <3> QED
      BY <3>1, <3>2
  <2> QED
    BY <2>2, FramesStill
<1> QED
  BY <1>6, <1>11 DEF TInv, OneSpelling

LEMMA LoadMasterTables == ASSUME IInv, TInv, LoadMaster PROVE TInv'
<1> DEFINE f == [op |-> "master", def |-> Wanted, inst |-> Len(insts) + 1]
<1>1. /\ Running({"register", "load", "ask", "clone"}) /\ Push(f)
      /\ Wanted # 0 /\ NewInstance(Wanted, 0)
      /\ master[Wanted] = 0 /\ ~loading[Wanted]
      /\ UNCHANGED <<defs, definitions, master, dead, young>>
  BY DEF LoadMaster, NeedsMaster
<1>2. Wanted = Top.def /\ Top.op \in Requests \cup {"register"}
  BY <1>1, RunningIs DEF Wanted, Requests
<1>3. Wanted \in DefIds
  <2>1. Top.op \in Requests => Top \in [op : Requests, name : Names, def : 0..MaxDefs]
    BY <1>1, RunningIs, FrameFields
  <2>2. Top.op = "register" => Top \in [op : {"register"}, name : Names, def : DefIds]
    BY <1>1, RunningIs, FrameFields
  <2> QED
    BY <1>1, <1>2, <2>1, <2>2, ObjectManagerAssumption DEF DefIds
<1>4. Wanted <= Len(defs)
  BY <1>1, <1>2, TopOK DEF FrameOK
<1>5. /\ InstsDefined' /\ MastersOwn' /\ DefinitionsOwn' /\ FoundAreAlive' /\ MastersAreAlive'
      /\ OneSpelling => DefsFound' /\ FindAgreesWithLoad'
      /\ \A k \in 1..Len(stack) : StillOK(stack[k])
  <2>1. 0 \in 0..MaxInsts
    BY ObjectManagerAssumption
  <2>2. NewInstance(Wanted, 0)
    BY <1>1
  <2> HIDE DEF f
  <2> QED
    BY <1>1, <1>3, <1>4, <2>1, <2>2, NewInstanceTables
<1>6. /\ Len(insts) + 1 \in InstIds
      /\ Len(insts) + 1 \notin dead
  <2>1. 0 \in 0..MaxInsts /\ NewInstance(Wanted, 0)
    BY <1>1, ObjectManagerAssumption
  <2>2. Len(insts) + 1 \notin dead
    BY Types
  <2> HIDE DEF f
  <2>3. Len(insts) + 1 \in InstIds
    BY <1>3, <2>1, InstanceMade
  <2> QED
    BY <2>2, <2>3
<1>7. StillOK(f)
  <2>1. objects'[<<defs[Wanted].file, 0>>] = Len(insts) + 1
    <3>1. Wanted \in 1..Len(defs)
      BY <1>3, <1>4, Types DEF DefIds
    <3>2. <<defs[Wanted].file, 0>> \in DOMAIN objects
      BY <3>1, Types
    <3>3. objects' = [objects EXCEPT ![<<defs[Wanted].file, 0>>] = Len(insts) + 1]
      BY <1>1 DEF NewInstance
    <3> QED
      BY <3>2, <3>3
  <2> QED
    BY <1>1, <1>6, <2>1 DEF StillOK, Requests
<1>8. f \in Frames
  BY <1>3, <1>6, NewFrames
<1> HIDE DEF f
<1>9. stack \in Seq(Frames) /\ Len(stack) \in Nat
  BY <1>1, RunningIs
<1>10. FramesOK'
  <2>1. /\ Len(stack') = Len(stack) + 1
        /\ stack'[Len(stack) + 1] = f
        /\ \A k \in 1..Len(stack) : stack'[k] = stack[k]
    BY <1>1, <1>8, <1>9, Pushed DEF Push
  <2>2. ASSUME NEW k \in 1..Len(stack') PROVE StillOK(stack'[k])
    <3>1. CASE k = Len(stack) + 1
      BY <1>7, <1>9, <2>1, <3>1
    <3>2. CASE k # Len(stack) + 1
      <4>1. k \in 1..Len(stack)
        BY <1>9, <2>1, <3>2
      <4> QED
        BY <1>5, <2>1, <4>1
    <3> QED
      BY <3>1, <3>2
  <2> QED
    BY <2>2, FramesStill
<1> QED
  BY <1>5, <1>10 DEF TInv, OneSpelling

-----------------------------------------------------------------------------
(* Definitions *)

\* A definition is registered in the place of the p-th frame, which compiled it.
LEMMA RegisterTables ==
  ASSUME IInv, TInv, NEW name \in Names, NEW virtual \in BOOLEAN, NEW below,
         Register(name, virtual, below),
         NEW p \in 1..Len(stack), stack[p].op \in {"compile", "virtual"}, stack[p].name = name,
         \A k \in 1..Len(stack') :
           \/ stack'[k].op = "register" /\ stack'[k].def = Len(defs) + 1
           \/ \E j \in 1..Len(stack) : j # p /\ stack'[k] = stack[j]
  PROVE  TInv'
<1> DEFINE d == Len(defs) + 1
           file == Normalise(name)
           x == [file |-> file, virtual |-> virtual]
<1>1. file \in Files
  <2>1. name \in Files \X Spellings
    BY DEF Names
  <2> QED
    BY <2>1 DEF Normalise
<1>2. /\ defs' = Append(defs, x)
      /\ definitions' = [definitions EXCEPT ![file] = d]
      /\ UNCHANGED <<insts, objects, master, loading, dead, young>>
  BY DEF Register
<1>3. /\ Len(defs') = d
      /\ defs'[d] = x
      /\ \A e \in 1..Len(defs) : defs'[e] = defs[e]
  <2>1. defs \in Seq([file : Files, virtual : BOOLEAN]) /\ x \in [file : Files, virtual : BOOLEAN]
    BY <1>1 DEF IInv, TypeOK
  <2> HIDE DEF x
  <2> QED
    BY <1>2, <2>1, Pushed
<1>4. \A f \in Files : definitions'[f] = IF f = file THEN d ELSE definitions[f]
  BY <1>1, <1>2, Types
<1>5. d \in Nat /\ d \notin 1..Len(defs) /\ d # 0
  BY Types
<1>6. \A i \in 1..Len(insts) : insts[i].def \in 1..Len(defs)
  BY Types DEF TInv, InstsDefined, DefIds
<1>7. ASSUME OneSpelling PROVE definitions[file] = 0
  <2>1. FrameOK(stack[p])
    BY DEF TInv, FramesOK
  <2> QED
    BY <1>7, <2>1 DEF FrameOK
<1> HIDE DEF d
<1>8. InstsDefined'
  BY <1>2, <1>3, <1>6, Types DEF InstsDefined, d
<1>9. MastersOwn'
  BY <1>2 DEF TInv, MastersOwn
<1>10. DefinitionsOwn'
  <2>1. ASSUME NEW f \in Files, definitions'[f] # 0 PROVE defs'[definitions'[f]].file = f
    <3>1. CASE f = file
      BY <1>3, <1>4, <3>1
    <3>2. CASE f # file
      <4>1. definitions'[f] = definitions[f] /\ definitions[f] \in 1..Len(defs)
        BY <1>4, <2>1, <3>2, Types
      <4> QED
        BY <1>3, <2>1, <4>1 DEF TInv, DefinitionsOwn
    <3> QED
      BY <3>1, <3>2
  <2> QED
    BY <2>1 DEF DefinitionsOwn
<1>11. \A i \in 1..Len(insts) : defs'[insts[i].def] = defs[insts[i].def]
  BY <1>3, <1>6
<1>12. FoundAreAlive'
  <2>1. ASSUME NEW k \in DOMAIN objects, objects[k] \in dead
        PROVE  defs'[insts[objects[k]].def].virtual
    <3>1. objects[k] \in 1..Len(insts)
      BY <2>1, Types
    <3> QED
      BY <1>11, <2>1, <3>1 DEF TInv, FoundAreAlive, IsVirtual
  <2> QED
    BY <1>2, <2>1 DEF FoundAreAlive, IsVirtual
<1>13. MastersAreAlive'
  <2>1. ASSUME NEW e \in DefIds, master[e] \in dead
        PROVE  defs'[insts[master[e]].def].virtual \/ master[e] \in young
    <3>1. master[e] \in 1..Len(insts)
      BY <2>1, Types
    <3> QED
      BY <1>11, <2>1, <3>1 DEF TInv, MastersAreAlive, IsVirtual
  <2> QED
    BY <1>2, <2>1 DEF MastersAreAlive, IsVirtual
<1>14. ASSUME OneSpelling PROVE DefsFound'
  <2>1. ASSUME NEW e \in 1..Len(defs') PROVE definitions'[defs'[e].file] = e
    <3>1. CASE e = d
      BY <1>1, <1>3, <1>4, <3>1
    <3>2. CASE e # d
      <4>1. e \in 1..Len(defs) /\ e # 0
        BY <1>3, <3>2, Types DEF d
      <4>2. defs'[e].file = defs[e].file /\ defs[e].file \in Files /\ definitions[defs[e].file] = e
        BY <1>3, <1>14, <4>1, Types DEF TInv, DefsFound
      <4>3. defs[e].file # file
        BY <1>7, <1>14, <4>1, <4>2
      <4> QED
        BY <1>4, <4>2, <4>3
    <3> QED
      BY <3>1, <3>2
  <2> QED
    BY <2>1 DEF DefsFound
<1>15. ASSUME OneSpelling PROVE FindAgreesWithLoad'
  <2>1. d \in DefIds
    BY DEF Register, d
  <2>2. master[d] = 0
    <3>1. ASSUME master[d] # 0 PROVE FALSE
      <4>1. master[d] \in 1..Len(insts) /\ insts[master[d]].def = d
        BY <2>1, <3>1, Types DEF TInv, MastersOwn
      <4> QED
        BY <1>5, <1>6, <4>1
    <3> QED
      BY <3>1
  <2>3. ASSUME NEW f \in Files, definitions'[f] # 0, master[definitions'[f]] # 0
        PROVE  objects[<<f, 0>>] = master[definitions'[f]] \/ master[definitions'[f]] \in young
    <3>1. definitions'[f] = definitions[f]
      BY <1>4, <2>2, <2>3
    <3> QED
      BY <1>15, <2>3, <3>1 DEF TInv, FindAgreesWithLoad
  <2> QED
    BY <1>2, <2>3 DEF FindAgreesWithLoad
<1>16. FramesOK'
  <2>1. ASSUME NEW k \in 1..Len(stack') PROVE StillOK(stack'[k])
    <3>1. CASE stack'[k].op = "register" /\ stack'[k].def = Len(defs) + 1
      BY <1>3, <1>5, <3>1 DEF StillOK, Requests, d
    <3>2. ASSUME NEW j \in 1..Len(stack), j # p, stack'[k] = stack[j] PROVE StillOK(stack[j])
      <4> DEFINE y == stack[j]
      <4>1. FrameOK(y) /\ y \in Frames
        BY Types DEF TInv, FramesOK
      <4>2. CASE y.op = "master"
        <5>1. /\ y.inst \in 1..Len(insts) /\ insts[y.inst].def = y.def
              /\ y.def \in 1..Len(defs)
          BY <4>2, MasterFrame
        <5>2. defs'[y.def] = defs[y.def] /\ defs'[insts[y.inst].def] = defs[insts[y.inst].def]
          BY <1>3, <5>1
        <5> QED
          BY <1>2, <4>1, <4>2, <5>2 DEF StillOK, FrameOK, Excused, IsVirtual, Requests
      <4>3. CASE y.op \in {"compile", "virtual"}
        <5>1. ASSUME OneSpelling PROVE definitions'[Normalise(y.name)] = 0
          <6>1. y.name \in Names
            BY <4>1, <4>3, FrameFields
          <6>2. y.name # name
            <7>1. p \in Nat /\ j \in Nat /\ IsMarked(stack, p) /\ IsMarked(stack, j)
              BY <4>3 DEF IsMarked, Markers
            <7> QED
              BY <3>2, <7>1 DEF IInv, Marks
          <6>3. Normalise(y.name) # file /\ Normalise(y.name) \in Files
            <7>1. y.name \in Files \X Spellings /\ name \in Files \X Spellings
              BY <6>1 DEF Names
            <7>2. y.name[2] = name[2]
              BY <5>1, <7>1 DEF OneSpelling
            <7> QED
              BY <6>2, <7>1, <7>2 DEF Normalise
          <6>4. definitions[Normalise(y.name)] = 0
            BY <4>1, <4>3, <5>1 DEF FrameOK
          <6> QED
            BY <1>4, <6>3, <6>4
        <5> QED
          BY <4>3, <5>1 DEF StillOK, Requests
      <4>4. CASE y.op \in Requests \cup {"register"}
        <5>1. y.def <= Len(defs) /\ y.def \in 0..MaxDefs
          <6>1. y.op \in Requests => y \in [op : Requests, name : Names, def : 0..MaxDefs]
            BY <4>1, FrameFields
          <6>2. y.op = "register" => y \in [op : {"register"}, name : Names, def : DefIds]
            BY <4>1, FrameFields
          <6> QED
            BY <4>1, <4>4, <6>1, <6>2, ObjectManagerAssumption DEF FrameOK, DefIds
        <5>2. y.def <= Len(defs')
          BY <1>3, <5>1, Types DEF d
        <5> QED
          BY <4>4, <5>2 DEF StillOK, Requests
      <4>5. CASE y.op \notin Requests \cup {"register", "master", "compile", "virtual"}
        BY <4>5 DEF StillOK
      <4> QED
        BY <4>2, <4>3, <4>4, <4>5
    <3> QED
      BY <3>1, <3>2
  <2> QED
    BY <2>1, FramesStill
<1> QED
  BY <1>8, <1>9, <1>10, <1>12, <1>13, <1>14, <1>15, <1>16 DEF TInv, OneSpelling

LEMMA DefineTables == ASSUME IInv, TInv, Define PROVE TInv'
<1> DEFINE n == Len(stack)
           f == [op |-> "register", name |-> Top.name, def |-> Len(defs) + 1]
<1>1. /\ Running({"compile"}) /\ Register(Top.name, FALSE, Front(stack))
  BY DEF Define
<1>2. Top \in [op : {"compile"}, name : Names, todo : SUBSET Names]
  BY <1>1, RunningIs, FrameFields
<1>3. Len(defs) + 1 \in DefIds /\ stack' = Append(Front(stack), f)
  BY <1>1 DEF Register
<1>4. f \in Frames
  BY <1>2, <1>3, NewFrames
<1>5. stack \in Seq(Frames) /\ stack # <<>> /\ n \in Nat /\ n \in 1..Len(stack) /\ Top = stack[n]
  BY <1>1, RunningIs
<1>6. f.op = "register" /\ f.def = Len(defs) + 1
  OBVIOUS
<1> HIDE DEF f
<1>7. /\ Len(stack') = n
      /\ stack'[n] = f
      /\ \A k \in 1..(n - 1) : stack'[k] = stack[k]
  BY <1>3, <1>4, <1>5, Replaced
<1>8. ASSUME NEW k \in 1..Len(stack')
      PROVE  \/ stack'[k].op = "register" /\ stack'[k].def = Len(defs) + 1
             \/ \E j \in 1..Len(stack) : j # n /\ stack'[k] = stack[j]
  <2>1. CASE k = n
    BY <1>6, <1>7, <2>1
  <2>2. CASE k # n
    <3>1. k \in 1..(n - 1) /\ k \in 1..Len(stack)
      BY <1>5, <1>7, <2>2
    <3> QED
      BY <1>7, <2>2, <3>1
  <2> QED
    BY <2>1, <2>2
<1>9. Top.name \in Names /\ stack[n].op \in {"compile", "virtual"} /\ stack[n].name = Top.name
  BY <1>2, <1>5
<1> HIDE DEF n
<1> QED
  BY <1>1, <1>5, <1>8, <1>9, RegisterTables

LEMMA DefineVirtualTables == ASSUME IInv, TInv, DefineVirtual PROVE TInv'
<1> DEFINE n == Len(stack)
           x == stack[Len(stack) - 1]
           f == [op |-> "register", name |-> x.name, def |-> Len(defs) + 1]
<1>1. Running({"compile_object"}) /\ Register(x.name, TRUE, Front(Front(stack)))
  BY DEF DefineVirtual
<1>2. /\ Top.op = "compile_object"
      /\ n \in Nat /\ n > 1 /\ Under(x, Top)
      /\ stack \in Seq(Frames)
  BY <1>1, RunningIs
<1>3. x \in Frames /\ x.op = "virtual"
  BY <1>2 DEF Under
<1>4. x \in [op : {"virtual"}, name : Names]
  BY <1>3, FrameFields
<1>5. Len(defs) + 1 \in DefIds /\ stack' = Append(Front(Front(stack)), f)
  BY <1>1 DEF Register
<1>6. f \in Frames /\ f.op = "register" /\ f.def = Len(defs) + 1
  BY <1>4, <1>5, NewFrames
<1> HIDE DEF f
<1>7. /\ Len(stack') = n - 1
      /\ stack'[n - 1] = f
      /\ \A k \in 1..(n - 2) : stack'[k] = stack[k]
  <2>1. Len(stack) > 1 /\ stack \in Seq(Frames) /\ f \in Frames
    BY <1>2, <1>6
  <2> QED
    BY <1>5, <2>1, ReturnedTo
<1>8. ASSUME NEW k \in 1..Len(stack')
      PROVE  \/ stack'[k].op = "register" /\ stack'[k].def = Len(defs) + 1
             \/ \E j \in 1..Len(stack) : j # n - 1 /\ stack'[k] = stack[j]
  <2>1. CASE k = n - 1
    BY <1>2, <1>6, <1>7, <2>1
  <2>2. CASE k # n - 1
    <3>1. k \in 1..(n - 2) /\ k \in 1..Len(stack)
      BY <1>2, <1>7, <2>2
    <3> QED
      BY <1>7, <2>2, <3>1
  <2> QED
    BY <2>1, <2>2
<1>9. n - 1 \in 1..Len(stack) /\ x.name \in Names
  BY <1>2, <1>4
<1>10. stack[n - 1].op \in {"compile", "virtual"} /\ stack[n - 1].name = x.name
  BY <1>3
<1> HIDE DEF n, x
<1> QED
  BY <1>1, <1>8, <1>9, <1>10, RegisterTables

-----------------------------------------------------------------------------
(* The theorems *)

\* The tables are empty at first.
LEMMA InitTables == Init => TInv
<1> SUFFICES ASSUME Init PROVE TInv
  OBVIOUS
<1>1. Len(stack) = 0 /\ Len(defs) = 0 /\ Len(insts) = 0
  BY DEF Init
<1>2. InstsDefined /\ MastersOwn /\ DefinitionsOwn /\ FramesOK /\ DefsFound
  BY <1>1 DEF Init, InstsDefined, MastersOwn, DefinitionsOwn, FramesOK, DefsFound
<1>3. FoundAreAlive /\ MastersAreAlive /\ FindAgreesWithLoad
  BY DEF Init, FoundAreAlive, MastersAreAlive, FindAgreesWithLoad
<1> QED
  BY <1>2, <1>3 DEF TInv

\* Each step keeps what is said of the tables.
LEMMA NextTables == IInv /\ TInv /\ [Next]_vars => TInv'
<1> SUFFICES ASSUME IInv, TInv, [Next]_vars PROVE TInv'
  OBVIOUS
<1>1. CASE Call
  BY <1>1, CallTables
<1>2. CASE Return \/ Inherited \/ LoadDone \/ NotFound \/ Unwind
  <2>1. stack # <<>> /\ Pop /\ UNCHANGED tables
    BY <1>2 DEF Return, Inherited, LoadDone, NotFound, Unwind, Running, tables, IInv, TypeOK
  <2> QED
    BY <2>1, PopTables
<1>3. CASE Fail \/ Catch \/ CompileCycle \/ CompileFails \/ InitFails \/ NoMaster
  <2>1. UNCHANGED <<stack, tables>>
    BY <1>3 DEF Fail, Catch, CompileCycle, CompileFails, InitFails, NoMaster, Throw, tables
  <2> QED
    BY <2>1, ThrowTables
<1>4. ASSUME NEW op \in {"load", "clone"}, NEW name \in Names, Request(op, name) PROVE TInv'
  BY <1>4, RequestTables
<1>5. CASE Found
  BY <1>5, FoundTables
<1>6. CASE Compile
  BY <1>6, CompileTables
<1>7. ASSUME NEW name \in Names, Inherit(name) PROVE TInv'
  BY <1>7, InheritTables
<1>8. CASE AskMaster
  BY <1>8, AskMasterTables
<1>9. CASE Define
  BY <1>9, DefineTables
<1>10. CASE DefineVirtual
  BY <1>10, DefineVirtualTables
<1>11. CASE Compiled
  BY <1>11, CompiledTables
<1>12. CASE LoadMaster
  BY <1>12, LoadMasterTables
<1>13. CASE MasterLoaded
  BY <1>13, MasterLoadedTables
<1>14. CASE CompileObject
  BY <1>14, CompileObjectTables
<1>15. CASE Clone
  BY <1>15, CloneTables
<1>16. ASSUME NEW i \in InstIds, Destruct(i) PROVE TInv'
  BY <1>16, DestructTables
<1>17. CASE UNCHANGED vars
  <2>1. UNCHANGED <<stack, tables>>
    BY <1>17 DEF vars, tables
  <2> QED
    BY <2>1, ThrowTables
<1> QED
  BY <1>1, <1>2, <1>3, <1>4, <1>5, <1>6, <1>7, <1>8, <1>9, <1>10, <1>11, <1>12, <1>13,
     <1>14, <1>15, <1>16, <1>17 DEF Next

\* The tables agree with each other and with the calls in progress, for any files,
\* virtual objects and order of loads, clones, destructs and failures.
THEOREM TablesInvariant == Spec => []TInv
<1>1. IInv /\ TInv /\ [Next]_vars => (IInv /\ TInv)'
  BY NextHolds, NextTables
<1>2. Init => IInv /\ TInv
  BY InitHolds, InitTables
<1> QED
  BY <1>1, <1>2, PTL DEF Spec

\* _objects finds no destructed object but a virtual one, whatever calls destruct and when.
THEOREM FoundAlive == Spec => []FoundAreAlive
<1>1. TInv => FoundAreAlive
  BY DEF TInv
<1> QED
  BY <1>1, TablesInvariant, PTL

\* A definition's _master is no destructed object, if it is neither virtual nor was
\* destructed in its own create().
THEOREM MastersAlive == Spec => []MastersAreAlive
<1>1. TInv => MastersAreAlive
  BY DEF TInv
<1> QED
  BY <1>1, TablesInvariant, PTL

\* If files are named in one way, compile makes one definition of a file only.
THEOREM DefinedOnce == ASSUME OneSpelling PROVE Spec => []OneDefinition
<1>1. TInv => OneDefinition
  BY DEF TInv, OneSpelling, DefsFound, OneDefinition
<1> QED
  BY <1>1, TablesInvariant, PTL

\* If files are named in one way, find_object finds the master that load_object returns.
THEOREM FindIsLoad == ASSUME OneSpelling PROVE Spec => []FindAgreesWithLoad
<1>1. TInv => FindAgreesWithLoad
  BY DEF TInv
<1> QED
  BY <1>1, TablesInvariant, PTL
=============================================================================
