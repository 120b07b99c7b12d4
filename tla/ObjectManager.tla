--------------------------- MODULE ObjectManager ---------------------------
(***************************************************************************)
(* Loading, cloning and destructing objects.  Everything here runs in the  *)
(* thread that owns the game lock; what makes it hard is that create() and *)
(* compile_object() are LPC code, called half way, which may load, clone,  *)
(* destruct and fail in turn.                                              *)
(*                                                                         *)
(* Code:  LpcCompilerObjectManager, AbstractObjectDefinition,              *)
(* CompiledDefinition, VirtualObjectDefinition, CompiledObject,            *)
(* VirtualInstance, load_object, clone_object and destruct.                *)
(*                                                                         *)
(* The Java stack is the variable stack.  The master object's name has     *)
(* been set, which Engine does before it runs any other LPC code.          *)
(***************************************************************************)
EXTENDS Integers, Sequences, SequencesExt

CONSTANTS
  Files,     \* normalised names of objects
  Spellings, \* ways to write a name: with or without ".c", "//", ...
  Inherits,  \* the names that a file's inherit statements give
  Virtuals,  \* files with no source: compile_object() makes them
  Master,    \* the name of the master object
  MaxDefs,   \* bound: definitions
  MaxInsts   \* bound: instances

Names == Files \X Spellings

\* ObjectId.normalise
Normalise(name) == name[1]

ASSUME ObjectManagerAssumption ==
  /\ Inherits \in [Files -> SUBSET Names]
  /\ Virtuals \subseteq Files
  /\ Master \in Names
  /\ MaxDefs \in Nat
  /\ MaxInsts \in Nat

VARIABLES
  defs,        \* all definitions ever made: [file, virtual]
  insts,       \* all instances ever made: [def, id]
  definitions, \* _definitions: by file, a number in defs or 0
  objects,     \* _objects: by file and id, a number in insts or 0
  compiling,   \* _compiling
  lastId,      \* _id
  master,      \* each definition's _master, or 0
  loading,     \* each definition's _loadingMaster
  dead,        \* the instances that have been destructed
  young,       \* history: those that were, while they were created as a master
  stack,       \* the calls in progress, the innermost last
  thrown       \* the exception on its way up the stack, if any

made == <<defs, insts, lastId>>
vars == <<made, definitions, objects, compiling, master, loading, dead, young, stack, thrown>>

DefIds == 1..MaxDefs
InstIds == 1..MaxInsts

\* LPC code runs in the first three; a request is findObject and what follows it.
Frames ==
  [op : {"call", "compile_object"}]
    \cup [op : {"master"}, def : DefIds, inst : InstIds]
    \cup [op : {"create"}, inst : InstIds]
    \cup [op : {"load", "clone", "inherit", "ask"}, name : Names, def : 0..MaxDefs]
    \cup [op : {"compile"}, name : Names, todo : SUBSET Names]
    \cup [op : {"virtual"}, name : Names]
    \cup [op : {"register"}, name : Names, def : DefIds]

TypeOK ==
  /\ defs \in Seq([file : Files, virtual : BOOLEAN])
  /\ insts \in Seq([def : DefIds, id : 0..MaxInsts])
  /\ definitions \in [Files -> 0..Len(defs)]
  /\ objects \in [Files \X (0..MaxInsts) -> 0..Len(insts)]
  /\ compiling \subseteq Names
  /\ lastId \in 0..MaxInsts
  /\ master \in [DefIds -> 0..Len(insts)]
  /\ loading \in [DefIds -> BOOLEAN]
  /\ dead \subseteq 1..Len(insts)
  /\ young \subseteq dead
  /\ stack \in Seq(Frames)
  /\ thrown \in {"none", "error"}
  /\ thrown = "error" => stack # <<>>

Init ==
  /\ defs = <<>>
  /\ insts = <<>>
  /\ definitions = [f \in Files |-> 0]
  /\ objects = [k \in Files \X (0..MaxInsts) |-> 0]
  /\ compiling = {}
  /\ lastId = 0
  /\ master = [d \in DefIds |-> 0]
  /\ loading = [d \in DefIds |-> FALSE]
  /\ dead = {}
  /\ young = {}
  /\ stack = <<>>
  /\ thrown = "none"

-----------------------------------------------------------------------------
(* The stack *)

Top == stack[Len(stack)]
Running(ops) == stack # <<>> /\ thrown = "none" /\ Top.op \in ops
Lpc == {"call", "compile_object", "master", "create"}

Push(frame) == stack' = Append(stack, frame)
Pop == stack' = Front(stack)
Replace(frame) == stack' = Append(Front(stack), frame)
ReplaceAndPush(frame, next) == stack' = Append(Append(Front(stack), frame), next)

Throw == thrown' = "error" /\ UNCHANGED stack

\* A call into LPC from outside: input, a call-out, logon.
Call ==
  /\ stack = <<>>
  /\ Push([op |-> "call"])
  /\ UNCHANGED <<made, definitions, objects, compiling, master, loading, dead, young, thrown>>

\* An LPC call ends, as does a clone's create.
Return ==
  /\ Running({"call", "create"})
  /\ Pop
  /\ UNCHANGED <<made, definitions, objects, compiling, master, loading, dead, young, thrown>>

\* An error in LPC code, or in the driver's.
Fail ==
  /\ Running(Lpc)
  /\ Throw
  /\ UNCHANGED <<made, definitions, objects, compiling, master, loading, dead, young>>

\* catch() in LPC code, which sees Java's own exceptions too when they have left a
\* function that was called by call_other or an apply; or load_object, which returns
\* nil for a file not found.
Catch ==
  /\ thrown = "error"
  /\ Top.op \in Lpc
  /\ thrown' = "none"
  /\ UNCHANGED <<made, definitions, objects, compiling, master, loading, dead, young, stack>>

\* Mutant of Unwind: getMasterInstance without its finally.
UnwindStillLoading ==
  /\ thrown = "error"
  /\ Pop
  /\ thrown' = IF Len(stack) > 1 THEN "error" ELSE "none"
  /\ compiling' = IF Top.op \in {"compile", "virtual", "register"}
                    THEN compiling \ {Top.name} ELSE compiling
  /\ UNCHANGED <<made, definitions, objects, master, loading, dead, young>>

\* Mutant of Unwind: nobody catches what leaves the outermost call.
UnwindOut ==
  /\ thrown = "error"
  /\ stack' = IF stack = <<>> THEN stack ELSE Front(stack)
  /\ UNCHANGED <<made, definitions, objects, compiling, master, loading, dead, young, thrown>>

\* The exception leaves a frame, the outermost one to be logged; two kinds of frame have a finally.
Unwind ==
  /\ thrown = "error"
  /\ Pop
  /\ thrown' = IF Len(stack) > 1 THEN "error" ELSE "none"
  /\ compiling' = IF Top.op \in {"compile", "virtual", "register"}
                    THEN compiling \ {Top.name} ELSE compiling
  /\ loading' = IF Top.op = "master" THEN [loading EXCEPT ![Top.def] = FALSE] ELSE loading
  /\ UNCHANGED <<made, definitions, objects, master, dead, young>>

-----------------------------------------------------------------------------
(* findObject(name, true) *)

\* load_object and clone_object, in LPC.
Request(op, name) ==
  /\ Running(Lpc)
  /\ Push([op |-> op, name |-> name, def |-> 0])
  /\ UNCHANGED <<made, definitions, objects, compiling, master, loading, dead, young, thrown>>

Requests == {"load", "clone", "inherit", "ask"}

Finding == Running(Requests) /\ Top.def = 0

Found ==
  /\ Finding
  /\ definitions[Normalise(Top.name)] # 0
  /\ Replace([Top EXCEPT !.def = definitions[Normalise(Top.name)]])
  /\ UNCHANGED <<made, definitions, objects, compiling, master, loading, dead, young, thrown>>

\* Mutant of Compile: cycles are not detected.
CompileAgain ==
  /\ Finding
  /\ definitions[Normalise(Top.name)] = 0
  /\ Push([op |-> "compile", name |-> Top.name, todo |-> Inherits[Normalise(Top.name)]])
  /\ compiling' = compiling \cup {Top.name}
  /\ UNCHANGED <<made, definitions, objects, master, loading, dead, young, thrown>>

\* compile(name): the names being compiled are compared as they were written.
Compile ==
  /\ Finding
  /\ definitions[Normalise(Top.name)] = 0
  /\ Top.name \notin compiling
  /\ Push([op |-> "compile", name |-> Top.name, todo |-> Inherits[Normalise(Top.name)]])
  /\ compiling' = compiling \cup {Top.name}
  /\ UNCHANGED <<made, definitions, objects, master, loading, dead, young, thrown>>

\* "Compile cycle detected"
CompileCycle ==
  /\ Finding
  /\ definitions[Normalise(Top.name)] = 0
  /\ Top.name \in compiling
  /\ Throw
  /\ UNCHANGED <<made, definitions, objects, compiling, master, loading, dead, young>>

HasSource == Normalise(Top.name) \notin Virtuals

\* An inherit statement loads the object that it names.
Inherit(name) ==
  /\ Running({"compile"}) /\ HasSource
  /\ name \in Top.todo
  /\ ReplaceAndPush([Top EXCEPT !.todo = @ \ {name}],
                    [op |-> "inherit", name |-> name, def |-> 0])
  /\ UNCHANGED <<made, definitions, objects, compiling, master, loading, dead, young, thrown>>

Inherited ==
  /\ Running({"inherit"}) /\ Top.def # 0
  /\ Pop
  /\ UNCHANGED <<made, definitions, objects, compiling, master, loading, dead, young, thrown>>

\* The source has an error.
CompileFails ==
  /\ Running({"compile"}) /\ HasSource
  /\ Throw
  /\ UNCHANGED <<made, definitions, objects, compiling, master, loading, dead, young>>

\* A file without source: compile_object() in the master object...
AskMaster ==
  /\ Running({"compile"}) /\ ~HasSource
  /\ ReplaceAndPush([op |-> "virtual", name |-> Top.name],
                    [op |-> "ask", name |-> Master, def |-> 0])
  /\ UNCHANGED <<made, definitions, objects, compiling, master, loading, dead, young, thrown>>

\* ...may return no object.
NotFound ==
  /\ Running({"compile_object"})
  /\ Pop
  /\ thrown' = "error"
  /\ UNCHANGED <<made, definitions, objects, compiling, master, loading, dead, young>>

\* registerObject(definition); frame is what compile's frame becomes.
Register(name, virtual, below) ==
  LET d == Len(defs) + 1 IN
  /\ d \in DefIds
  /\ defs' = Append(defs, [file |-> Normalise(name), virtual |-> virtual])
  /\ definitions' = [definitions EXCEPT ![Normalise(name)] = d]
  /\ stack' = Append(below, [op |-> "register", name |-> name, def |-> d])
  /\ UNCHANGED <<insts, lastId, objects, compiling, master, loading, dead, young, thrown>>

Define ==
  /\ Running({"compile"}) /\ HasSource
  /\ Top.todo = {}
  /\ Register(Top.name, FALSE, Front(stack))

DefineVirtual ==
  /\ Running({"compile_object"})
  /\ Register(stack[Len(stack) - 1].name, TRUE, Front(Front(stack)))

\* compile returns the definition, its master loaded, to whoever asked for it.
Compiled ==
  /\ Running({"register"})
  /\ master[Top.def] # 0
  /\ compiling' = compiling \ {Top.name}
  /\ stack' = Append(Front(Front(stack)), [stack[Len(stack) - 1] EXCEPT !.def = Top.def])
  /\ UNCHANGED <<made, definitions, objects, master, loading, dead, young, thrown>>

-----------------------------------------------------------------------------
(* getMasterInstance and newInstance *)

Wanted == IF Top.op \in Requests \cup {"register"} THEN Top.def ELSE 0

\* A virtual object is cloned without its definition's master.
NeedsMaster ==
  /\ Running({"register", "load", "ask", "clone"})
  /\ Wanted # 0
  /\ ~(Top.op = "clone" /\ defs[Wanted].virtual)

\* newInstance and registerObject(instance)
NewInstance(d, id) ==
  /\ Len(insts) < MaxInsts
  /\ insts' = Append(insts, [def |-> d, id |-> id])
  /\ objects' = [objects EXCEPT ![<<defs[d].file, id>>] = Len(insts) + 1]

\* Mutant of LoadMaster: what is being loaded is loaded again.
LoadMasterAgain ==
  /\ NeedsMaster
  /\ master[Wanted] = 0
  /\ NewInstance(Wanted, 0)
  /\ loading' = [loading EXCEPT ![Wanted] = TRUE]
  /\ Push([op |-> "master", def |-> Wanted, inst |-> Len(insts) + 1])
  /\ UNCHANGED <<defs, lastId, definitions, compiling, master, dead, young, thrown>>

\* getMasterInstance makes the master, registers it and runs its create().
LoadMaster ==
  /\ NeedsMaster
  /\ master[Wanted] = 0
  /\ ~loading[Wanted]
  /\ NewInstance(Wanted, 0)
  /\ loading' = [loading EXCEPT ![Wanted] = TRUE]
  /\ Push([op |-> "master", def |-> Wanted, inst |-> Len(insts) + 1])
  /\ UNCHANGED <<defs, lastId, definitions, compiling, master, dead, young, thrown>>

\* clone_object does not use its result: it goes on while the master is loaded.
ReadyToClone ==
  /\ Running({"clone"})
  /\ Wanted # 0
  /\ defs[Wanted].virtual \/ loading[Wanted] \/ master[Wanted] # 0

\* The constructor or a field's initialiser has an error.
InitFails ==
  /\ \/ NeedsMaster /\ master[Wanted] = 0 /\ ~loading[Wanted]
     \/ ReadyToClone
  /\ Throw
  /\ UNCHANGED <<made, definitions, objects, compiling, master, loading, dead, young>>

MasterLoaded ==
  /\ Running({"master"})
  /\ master' = [master EXCEPT ![Top.def] = Top.inst]
  /\ loading' = [loading EXCEPT ![Top.def] = FALSE]
  /\ Pop
  /\ UNCHANGED <<made, definitions, objects, compiling, dead, young, thrown>>

\* getMasterInstance returns null while the master is loaded: load_object and
\* compile use the result.  Nor can anything be called in a destructed object.
NoMaster ==
  /\ Running({"load", "ask"})
  /\ Wanted # 0
  /\ \/ loading[Wanted]
     \/ Top.op = "ask" /\ master[Wanted] \in dead
  /\ Throw
  /\ UNCHANGED <<made, definitions, objects, compiling, master, loading, dead, young>>

LoadDone ==
  /\ Running({"load"})
  /\ Wanted # 0
  /\ ~loading[Wanted] /\ master[Wanted] # 0
  /\ Pop
  /\ UNCHANGED <<made, definitions, objects, compiling, master, loading, dead, young, thrown>>

CompileObject ==
  /\ Running({"ask"})
  /\ Wanted # 0
  /\ ~loading[Wanted] /\ master[Wanted] \notin dead \cup {0}
  /\ Replace([op |-> "compile_object"])
  /\ UNCHANGED <<made, definitions, objects, compiling, master, loading, dead, young, thrown>>

\* The id was taken before the master was made, which no property tells apart.
Clone ==
  /\ ReadyToClone
  /\ lastId' = lastId + 1
  /\ NewInstance(Wanted, lastId + 1)
  /\ Replace([op |-> "create", inst |-> Len(insts) + 1])
  /\ UNCHANGED <<defs, definitions, compiling, master, loading, dead, young, thrown>>

-----------------------------------------------------------------------------
(* destruct *)

IsVirtual(i) == defs[insts[i].def].virtual

\* Mutants of the next two: the object stays.
StillRegistered(i) == objects
StillMaster(i) == master

\* instanceDestructed of the manager, and of the definition.
Unregistered(i) == [k \in DOMAIN objects |-> IF objects[k] = i THEN 0 ELSE objects[k]]

WithoutMaster(i) == [d \in DOMAIN master |-> IF master[d] = i THEN 0 ELSE master[d]]

\* A virtual object passes destruct on to an instance of the prototype's
\* definition, which is neither a master nor registered.
Destruct(i) ==
  /\ Running(Lpc)
  /\ i \in 1..Len(insts)
  /\ i \notin dead
  /\ dead' = dead \cup {i}
  /\ young' = IF loading[insts[i].def] THEN young \cup {i} ELSE young
  /\ objects' = IF IsVirtual(i) THEN objects ELSE Unregistered(i)
  /\ master' = IF IsVirtual(i) THEN master ELSE WithoutMaster(i)
  /\ UNCHANGED <<made, definitions, compiling, loading, stack, thrown>>

-----------------------------------------------------------------------------
Next ==
  \/ Call \/ Return \/ Fail \/ Catch \/ Unwind
  \/ \E op \in {"load", "clone"}, name \in Names : Request(op, name)
  \/ Found \/ Compile \/ CompileCycle \/ CompileFails
  \/ \E name \in Names : Inherit(name)
  \/ Inherited \/ AskMaster \/ NotFound \/ Define \/ DefineVirtual \/ Compiled
  \/ LoadMaster \/ InitFails \/ MasterLoaded \/ NoMaster \/ LoadDone \/ CompileObject
  \/ Clone
  \/ \E i \in InstIds : Destruct(i)

Spec == Init /\ [][Next]_vars

-----------------------------------------------------------------------------
(* Properties *)

Depths == 1..Len(stack)

\* What is marked as being loaded is being loaded, once, and what is marked as
\* being compiled is being compiled, once, whatever has failed in between.
MarksMatchStack ==
  /\ \A d \in DefIds : loading[d] <=> \E k \in Depths : stack[k].op = "master" /\ stack[k].def = d
  /\ \A j, k \in Depths : stack[j].op = "master" /\ stack[k].op = "master"
       /\ stack[j].def = stack[k].def => j = k
  /\ compiling = {stack[k].name : k \in {k \in Depths : stack[k].op \in {"compile", "virtual", "register"}}}
  /\ \A j, k \in Depths :
       /\ {stack[j].op, stack[k].op} \subseteq {"compile", "virtual", "register"}
       /\ stack[j].name = stack[k].name
       => j = k

\* find_object and load_object agree: the master of a file's definition is the
\* instance that is registered under its name, unless it was destructed in its own
\* create().
FindAgreesWithLoad ==
  \A f \in Files :
    LET d == definitions[f] IN
    d # 0 /\ master[d] # 0 => objects[<<f, 0>>] = master[d] \/ master[d] \in young

\* No destructed object is found, virtual ones excepted.
FoundAreAlive == \A k \in DOMAIN objects : objects[k] \in dead => IsVirtual(objects[k])

\* Nor is one a master, if it was not destructed in its own create().
MastersAreAlive ==
  \A d \in DefIds : master[d] \in dead => IsVirtual(master[d]) \/ master[d] \in young

\* A file that is always named the same way has one definition, however often it is
\* asked for and in the middle of what.  (With two ways it may have two: what is being
\* compiled is remembered as it was written.)
OneDefinition == \A d, e \in 1..Len(defs) : defs[d].file = defs[e].file => d = e
=============================================================================
