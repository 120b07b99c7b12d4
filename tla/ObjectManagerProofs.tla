------------------------ MODULE ObjectManagerProofs ------------------------
(***************************************************************************)
(* Proofs about ObjectManager, for any files, inherit statements, virtual  *)
(* objects and depth of calls.                                             *)
(***************************************************************************)
EXTENDS ObjectManager, TLAPS

-----------------------------------------------------------------------------
(* The stack *)

\* A frame is pushed.
LEMMA Pushed ==
  ASSUME NEW S, NEW s \in Seq(S), NEW f \in S
  PROVE  /\ Append(s, f) \in Seq(S)
         /\ Len(Append(s, f)) = Len(s) + 1
         /\ Append(s, f)[Len(s) + 1] = f
         /\ \A k \in 1..Len(s) : Append(s, f)[k] = s[k]
OBVIOUS

\* The innermost frame is left.
LEMMA Popped ==
  ASSUME NEW S, NEW s \in Seq(S), s # <<>>
  PROVE  /\ Front(s) \in Seq(S)
         /\ Len(s) \in Nat \ {0}
         /\ Len(Front(s)) = Len(s) - 1
         /\ \A k \in 1..(Len(s) - 1) : Front(s)[k] = s[k]
<1>1. Len(s) \in Nat \ {0}
  OBVIOUS
<1>2. PICK n \in Nat : n = Len(s) - 1
  BY <1>1
<1>3. \A i \in 1..n : s[i] \in S
  BY <1>1, <1>2
<1>4. /\ SubSeq(s, 1, n) \in Seq(S)
      /\ Len(SubSeq(s, 1, n)) = n
      /\ \A i \in 1..n : SubSeq(s, 1, n)[i] = s[i]
  BY <1>1, <1>2, <1>3, SMTT(20)
<1>5. Front(s) = SubSeq(s, 1, n)
  BY <1>2, Zenon DEF Front
<1> HIDE DEF Front
<1> QED
  BY <1>1, <1>2, <1>4, <1>5

\* The innermost frame becomes another.
LEMMA Replaced ==
  ASSUME NEW S, NEW s \in Seq(S), s # <<>>, NEW f \in S
  PROVE  /\ Append(Front(s), f) \in Seq(S)
         /\ Len(Append(Front(s), f)) = Len(s)
         /\ Append(Front(s), f)[Len(s)] = f
         /\ \A k \in 1..(Len(s) - 1) : Append(Front(s), f)[k] = s[k]
<1> DEFINE t == Front(s)
<1>1. /\ t \in Seq(S)
      /\ Len(s) \in Nat \ {0}
      /\ Len(t) = Len(s) - 1
      /\ \A k \in 1..(Len(s) - 1) : t[k] = s[k]
  BY Popped
<1> HIDE DEF t
<1>2. /\ Append(t, f) \in Seq(S)
      /\ Len(Append(t, f)) = Len(t) + 1
      /\ Append(t, f)[Len(t) + 1] = f
      /\ \A k \in 1..Len(t) : Append(t, f)[k] = t[k]
  BY <1>1, Pushed
<1>3. /\ Append(t, f) \in Seq(S)
      /\ Len(Append(t, f)) = Len(s)
      /\ Append(t, f)[Len(s)] = f
      /\ \A k \in 1..(Len(s) - 1) : Append(t, f)[k] = s[k]
  BY <1>1, <1>2
<1> QED
  BY <1>3 DEF t

\* The innermost frame becomes another, and calls a third.
LEMMA ReplacedAndPushed ==
  ASSUME NEW S, NEW s \in Seq(S), s # <<>>, NEW f \in S, NEW g \in S
  PROVE  /\ Append(Append(Front(s), f), g) \in Seq(S)
         /\ Len(Append(Append(Front(s), f), g)) = Len(s) + 1
         /\ Append(Append(Front(s), f), g)[Len(s)] = f
         /\ Append(Append(Front(s), f), g)[Len(s) + 1] = g
         /\ \A k \in 1..(Len(s) - 1) : Append(Append(Front(s), f), g)[k] = s[k]
<1> DEFINE r == Append(Front(s), f)
<1>1. /\ r \in Seq(S)
      /\ Len(r) = Len(s)
      /\ r[Len(s)] = f
      /\ \A k \in 1..(Len(s) - 1) : r[k] = s[k]
  BY Replaced
<1>2. Len(s) \in Nat \ {0}
  OBVIOUS
<1> HIDE DEF r
<1>3. /\ Append(r, g) \in Seq(S)
      /\ Len(Append(r, g)) = Len(r) + 1
      /\ Append(r, g)[Len(r) + 1] = g
      /\ \A k \in 1..Len(r) : Append(r, g)[k] = r[k]
  BY <1>1, Pushed
<1>4. /\ Append(r, g) \in Seq(S)
      /\ Len(Append(r, g)) = Len(s) + 1
      /\ Append(r, g)[Len(s)] = f
      /\ Append(r, g)[Len(s) + 1] = g
      /\ \A k \in 1..(Len(s) - 1) : Append(r, g)[k] = s[k]
  BY <1>1, <1>2, <1>3
<1> QED
  BY <1>4 DEF r

\* The innermost frame is left, and its caller's becomes another.
LEMMA ReturnedTo ==
  ASSUME NEW S, NEW s \in Seq(S), Len(s) > 1, NEW f \in S
  PROVE  /\ Append(Front(Front(s)), f) \in Seq(S)
         /\ Len(Append(Front(Front(s)), f)) = Len(s) - 1
         /\ Append(Front(Front(s)), f)[Len(s) - 1] = f
         /\ \A k \in 1..(Len(s) - 2) : Append(Front(Front(s)), f)[k] = s[k]
<1> DEFINE r == Front(s)
<1>1. /\ r \in Seq(S)
      /\ Len(s) \in Nat \ {0}
      /\ Len(r) = Len(s) - 1
      /\ \A k \in 1..(Len(s) - 1) : r[k] = s[k]
  BY Popped
<1> HIDE DEF r
<1>2. r # <<>>
  BY <1>1
<1>3. /\ Append(Front(r), f) \in Seq(S)
      /\ Len(Append(Front(r), f)) = Len(r)
      /\ Append(Front(r), f)[Len(r)] = f
      /\ \A k \in 1..(Len(r) - 1) : Append(Front(r), f)[k] = r[k]
  BY <1>1, <1>2, Replaced
<1>4. /\ Append(Front(r), f) \in Seq(S)
      /\ Len(Append(Front(r), f)) = Len(s) - 1
      /\ Append(Front(r), f)[Len(s) - 1] = f
      /\ \A k \in 1..(Len(s) - 2) : Append(Front(r), f)[k] = s[k]
  BY <1>1, <1>3
<1> QED
  BY <1>4 DEF r

-----------------------------------------------------------------------------
(* The invariant *)

Markers == {"compile", "virtual", "register"}

\* What may call what, as far as the returns rely on it.
Under(x, y) ==
  /\ y.op \in Markers => x.op \in Requests
  /\ y.op \in {"ask", "compile_object"} => x.op = "virtual"

Shape ==
  /\ stack # <<>> => stack[1].op = "call"
  /\ \A k \in 1..(Len(stack) - 1) : Under(stack[k], stack[k + 1])

\* Ids are taken for instances only; and the bounds.
Bounds ==
  /\ lastId <= Len(insts)
  /\ Len(defs) <= MaxDefs
  /\ Len(insts) <= MaxInsts

IsMaster(s, k) == k \in 1..Len(s) /\ s[k].op = "master"
IsMarked(s, k) == k \in 1..Len(s) /\ s[k].op \in Markers

\* MarksMatchStack, depth by depth, and what is being loaded has been made.
Marks ==
  /\ \A k \in Nat : IsMaster(stack, k) =>
       stack[k].inst \in 1..Len(insts) /\ insts[stack[k].inst].def = stack[k].def
  /\ \A d \in DefIds : loading[d] <=> \E k \in Nat : IsMaster(stack, k) /\ stack[k].def = d
  /\ \A j, k \in Nat :
       IsMaster(stack, j) /\ IsMaster(stack, k) /\ stack[j].def = stack[k].def => j = k
  /\ \A k \in Nat : IsMarked(stack, k) => stack[k].name \in compiling
  /\ \A n \in compiling : \E k \in Nat : IsMarked(stack, k) /\ stack[k].name = n
  /\ \A j, k \in Nat :
       IsMarked(stack, j) /\ IsMarked(stack, k) /\ stack[j].name = stack[k].name => j = k

IInv == TypeOK /\ Shape /\ Bounds /\ Marks

\* Depth by depth is enough.
LEMMA MarksMatch ==
  ASSUME TypeOK, Marks
  PROVE  MarksMatchStack
<1>1. \A k : k \in Depths <=> k \in Nat /\ k \in 1..Len(stack)
  BY DEF TypeOK, Depths
<1>2. \A d \in DefIds : loading[d] <=> \E k \in Depths : stack[k].op = "master" /\ stack[k].def = d
  BY <1>1 DEF Marks, IsMaster
<1>3. \A j, k \in Depths : stack[j].op = "master" /\ stack[k].op = "master"
        /\ stack[j].def = stack[k].def => j = k
  BY <1>1 DEF Marks, IsMaster
<1>4. compiling = {stack[k].name : k \in {k \in Depths : stack[k].op \in {"compile", "virtual", "register"}}}
  <2>1. \A n \in compiling : \E k \in {k \in Depths : stack[k].op \in {"compile", "virtual", "register"}} :
          stack[k].name = n
    BY <1>1 DEF Marks, IsMarked, Markers
  <2>2. \A k \in {k \in Depths : stack[k].op \in {"compile", "virtual", "register"}} :
          stack[k].name \in compiling
    BY <1>1 DEF Marks, IsMarked, Markers
  <2> QED
    BY <2>1, <2>2
<1>5. \A j, k \in Depths :
        /\ {stack[j].op, stack[k].op} \subseteq {"compile", "virtual", "register"}
        /\ stack[j].name = stack[k].name
        => j = k
  BY <1>1 DEF Marks, IsMarked, Markers
<1> QED
  BY <1>2, <1>3, <1>4, <1>5 DEF MarksMatchStack

\* Marks stay, and so do the instances there are.
MarksKept ==
  /\ UNCHANGED <<loading, compiling>>
  /\ \A i \in 1..Len(insts) : i \in 1..Len(insts') /\ insts'[i] = insts[i]

\* A step that leaves the marked frames where they are and the marks alone.
LEMMA SameMarks ==
  ASSUME Marks,
         MarksKept,
         \A k \in Nat : /\ IsMaster(stack', k) <=> IsMaster(stack, k)
                        /\ IsMaster(stack, k) => stack'[k] = stack[k]
                        /\ IsMarked(stack', k) <=> IsMarked(stack, k)
                        /\ IsMarked(stack, k) => stack'[k].name = stack[k].name
  PROVE  Marks'
BY SMTT(30) DEF Marks, MarksKept, IsMaster, IsMarked

-----------------------------------------------------------------------------
(* Frames *)

\* The innermost frame of a running thread.
LEMMA TopIs ==
  ASSUME TypeOK, stack # <<>>
  PROVE  /\ Len(stack) \in Nat \ {0}
         /\ Top = stack[Len(stack)]
         /\ Top \in Frames
BY DEF TypeOK, Top

\* What a frame holds follows from its operation.
LEMMA FrameFields ==
  ASSUME NEW x \in Frames
  PROVE  /\ x.op \in Requests => x \in [op : Requests, name : Names, def : 0..MaxDefs]
         /\ x.op = "compile" => x \in [op : {"compile"}, name : Names, todo : SUBSET Names]
         /\ x.op = "virtual" => x \in [op : {"virtual"}, name : Names]
         /\ x.op = "register" => x \in [op : {"register"}, name : Names, def : DefIds]
         /\ x.op = "master" => x \in [op : {"master"}, def : DefIds, inst : InstIds]
BY DEF Frames, Requests

\* The frames that the actions make.
LEMMA NewFrames ==
  /\ \A op \in Requests, n \in Names, d \in 0..MaxDefs : [op |-> op, name |-> n, def |-> d] \in Frames
  /\ \A n \in Names, t \in SUBSET Names : [op |-> "compile", name |-> n, todo |-> t] \in Frames
  /\ \A n \in Names : [op |-> "virtual", name |-> n] \in Frames
  /\ \A n \in Names, d \in DefIds : [op |-> "register", name |-> n, def |-> d] \in Frames
  /\ \A d \in DefIds, i \in InstIds : [op |-> "master", def |-> d, inst |-> i] \in Frames
  /\ \A i \in InstIds : [op |-> "create", inst |-> i] \in Frames
  /\ [op |-> "call"] \in Frames
  /\ [op |-> "compile_object"] \in Frames
BY DEF Frames, Requests

-----------------------------------------------------------------------------
(* Steps of the stack that leave the marks alone *)

Plain(x) == x.op \notin Markers \cup {"master"}

\* A frame that marks nothing is pushed.
LEMMA PushPlain ==
  ASSUME IInv, NEW f \in Frames, Plain(f),
         Push(f),
         IF stack = <<>> THEN f.op = "call" ELSE Under(Top, f),
         MarksKept
  PROVE  stack' \in Seq(Frames) /\ Shape' /\ Marks'
<1>1. stack \in Seq(Frames) /\ Len(stack) \in Nat
  BY DEF IInv, TypeOK
<1>2. /\ stack' \in Seq(Frames)
      /\ Len(stack') = Len(stack) + 1
      /\ stack'[Len(stack) + 1] = f
      /\ \A k \in 1..Len(stack) : stack'[k] = stack[k]
  BY <1>1, Pushed DEF Push
<1>3. Shape'
  <2>1. stack'[1].op = "call"
    BY <1>1, <1>2 DEF IInv, Shape
  <2>2. ASSUME NEW k \in 1..(Len(stack') - 1) PROVE Under(stack'[k], stack'[k + 1])
    <3>1. CASE k = Len(stack)
      BY <1>1, <1>2, <3>1 DEF Top
    <3>2. CASE k # Len(stack)
      BY <1>1, <1>2, <3>2 DEF IInv, Shape
    <3> QED BY <3>1, <3>2
  <2> QED
    BY <2>1, <2>2 DEF Shape, Under
<1>4. Marks'
  <2>1. \A k \in Nat : /\ IsMaster(stack', k) <=> IsMaster(stack, k)
                       /\ IsMaster(stack, k) => stack'[k] = stack[k]
                       /\ IsMarked(stack', k) <=> IsMarked(stack, k)
                       /\ IsMarked(stack, k) => stack'[k].name = stack[k].name
    BY <1>1, <1>2 DEF IsMaster, IsMarked, Plain
  <2> QED
    BY <2>1, SameMarks DEF IInv
<1> QED
  BY <1>2, <1>3, <1>4

\* A frame that marks nothing is popped.
LEMMA PopPlain ==
  ASSUME IInv, stack # <<>>, Plain(Top),
         Pop,
         MarksKept
  PROVE  stack' \in Seq(Frames) /\ Shape' /\ Marks'
<1>1. stack \in Seq(Frames) /\ Len(stack) \in Nat \ {0} /\ Top = stack[Len(stack)]
  BY TopIs DEF IInv, TypeOK
<1>2. /\ stack' \in Seq(Frames)
      /\ Len(stack') = Len(stack) - 1
      /\ \A k \in 1..(Len(stack) - 1) : stack'[k] = stack[k]
  BY <1>1, Popped DEF Pop
<1>3. Shape'
  BY <1>1, <1>2 DEF IInv, Shape, Under
<1>4. Marks'
  <2>1. \A k \in Nat : /\ IsMaster(stack', k) <=> IsMaster(stack, k)
                       /\ IsMaster(stack, k) => stack'[k] = stack[k]
                       /\ IsMarked(stack', k) <=> IsMarked(stack, k)
                       /\ IsMarked(stack, k) => stack'[k].name = stack[k].name
    BY <1>1, <1>2 DEF IsMaster, IsMarked, Plain
  <2> QED
    BY <2>1, SameMarks DEF IInv
<1> QED
  BY <1>2, <1>3, <1>4

\* x may become f where it lies, with the same mark.
Becomes(x, f) ==
  /\ "master" \notin {x.op, f.op}
  /\ x.op \in Markers <=> f.op \in Markers
  /\ x.op \in Markers => f.name = x.name
  /\ f.op \in {"ask", "compile_object"} => x.op \in {"ask", "compile_object"}

\* Neither a frame nor the one that takes its place marks anything.
LEMMA ReplacePlain ==
  ASSUME IInv, stack # <<>>, Top.op # "call", NEW f \in Frames, Becomes(Top, f),
         Replace(f),
         MarksKept
  PROVE  stack' \in Seq(Frames) /\ Shape' /\ Marks'
<1>1. stack \in Seq(Frames) /\ Len(stack) \in Nat \ {0} /\ Top = stack[Len(stack)]
  BY TopIs DEF IInv, TypeOK
<1>2. /\ stack' \in Seq(Frames)
      /\ Len(stack') = Len(stack)
      /\ stack'[Len(stack)] = f
      /\ \A k \in 1..(Len(stack) - 1) : stack'[k] = stack[k]
  BY <1>1, Replaced DEF Replace
<1>3. Shape'
  <2>1. stack[1].op = "call" /\ Len(stack) > 1
    BY <1>1 DEF IInv, Shape
  <2>2. stack'[1].op = "call"
    BY <1>1, <1>2, <2>1
  <2>3. ASSUME NEW k \in 1..(Len(stack') - 1) PROVE Under(stack'[k], stack'[k + 1])
    <3>1. CASE k = Len(stack) - 1
      <4>1. Under(stack[k], Top)
        BY <1>1, <2>1, <3>1 DEF IInv, Shape
      <4>2. stack'[k] = stack[k] /\ stack'[k + 1] = f
        BY <1>1, <1>2, <2>1, <3>1
      <4> QED
        BY <4>1, <4>2 DEF Under, Becomes
    <3>2. CASE k # Len(stack) - 1
      BY <1>1, <1>2, <3>2 DEF IInv, Shape
    <3> QED BY <3>1, <3>2
  <2> QED
    BY <2>2, <2>3 DEF Shape, Under
<1>4. Marks'
  <2>1. \A k \in Nat : /\ IsMaster(stack', k) <=> IsMaster(stack, k)
                       /\ IsMaster(stack, k) => stack'[k] = stack[k]
                       /\ IsMarked(stack', k) <=> IsMarked(stack, k)
                       /\ IsMarked(stack, k) => stack'[k].name = stack[k].name
    BY <1>1, <1>2 DEF IsMaster, IsMarked, Becomes
  <2> QED
    BY <2>1, SameMarks DEF IInv
<1> QED
  BY <1>2, <1>3, <1>4

\* As before, with one that marks nothing above it.
LEMMA ReplaceAndPushPlain ==
  ASSUME IInv, stack # <<>>, Top.op # "call",
         NEW f \in Frames, Becomes(Top, f),
         NEW g \in Frames, Plain(g), Under(f, g),
         ReplaceAndPush(f, g),
         MarksKept
  PROVE  stack' \in Seq(Frames) /\ Shape' /\ Marks'
<1>1. stack \in Seq(Frames) /\ Len(stack) \in Nat \ {0} /\ Top = stack[Len(stack)]
  BY TopIs DEF IInv, TypeOK
<1>2. /\ stack' \in Seq(Frames)
      /\ Len(stack') = Len(stack) + 1
      /\ stack'[Len(stack)] = f
      /\ stack'[Len(stack) + 1] = g
      /\ \A k \in 1..(Len(stack) - 1) : stack'[k] = stack[k]
  <2> DEFINE t == Append(Append(Front(stack), f), g)
  <2>1. /\ t \in Seq(Frames)
        /\ Len(t) = Len(stack) + 1
        /\ t[Len(stack)] = f
        /\ t[Len(stack) + 1] = g
        /\ \A k \in 1..(Len(stack) - 1) : t[k] = stack[k]
    <3>1. stack \in Seq(Frames)
      BY <1>1
    <3> QED
      BY <3>1, ReplacedAndPushed
  <2>2. stack' = t
    BY DEF ReplaceAndPush
  <2> HIDE DEF t
  <2> QED
    BY <2>1, <2>2
<1>3. Shape'
  <2>1. stack[1].op = "call" /\ Len(stack) > 1
    BY <1>1 DEF IInv, Shape
  <2>2. stack'[1].op = "call"
    BY <1>1, <1>2, <2>1
  <2>3. ASSUME NEW k \in 1..(Len(stack') - 1) PROVE Under(stack'[k], stack'[k + 1])
    <3>1. CASE k = Len(stack) - 1
      <4>1. Under(stack[k], Top)
        BY <1>1, <2>1, <3>1 DEF IInv, Shape
      <4>2. stack'[k] = stack[k] /\ stack'[k + 1] = f
        BY <1>1, <1>2, <2>1, <3>1
      <4> QED
        BY <4>1, <4>2 DEF Under, Becomes
    <3>2. CASE k = Len(stack)
      BY <1>1, <1>2, <3>2
    <3>3. CASE k < Len(stack) - 1
      BY <1>1, <1>2, <3>3 DEF IInv, Shape
    <3> QED BY <1>1, <1>2, <3>1, <3>2, <3>3
  <2> QED
    BY <2>2, <2>3 DEF Shape, Under
<1>4. Marks'
  <2>1. \A k \in Nat : /\ IsMaster(stack', k) <=> IsMaster(stack, k)
                       /\ IsMaster(stack, k) => stack'[k] = stack[k]
                       /\ IsMarked(stack', k) <=> IsMarked(stack, k)
                       /\ IsMarked(stack, k) => stack'[k].name = stack[k].name
    BY <1>1, <1>2 DEF IsMaster, IsMarked, Becomes, Plain
  <2> QED
    BY <2>1, SameMarks DEF IInv
<1> QED
  BY <1>2, <1>3, <1>4

\* Nothing moves but an exception.
LEMMA NoMove ==
  ASSUME IInv, UNCHANGED stack, MarksKept
  PROVE  stack' \in Seq(Frames) /\ Shape' /\ Marks'
<1>1. stack' \in Seq(Frames) /\ Shape'
  BY DEF IInv, TypeOK, Shape, Under
<1>2. Marks'
  <2>1. \A k \in Nat : /\ IsMaster(stack', k) <=> IsMaster(stack, k)
                       /\ IsMaster(stack, k) => stack'[k] = stack[k]
                       /\ IsMarked(stack', k) <=> IsMarked(stack, k)
                       /\ IsMarked(stack, k) => stack'[k].name = stack[k].name
    BY DEF IsMaster, IsMarked
  <2> QED
    BY <2>1, SameMarks DEF IInv
<1> QED
  BY <1>1, <1>2

-----------------------------------------------------------------------------
(* Steps that change the stack only *)

others == <<made, definitions, objects, compiling, master, loading, dead, young>>

\* A step that changes the stack and the exception only.
LEMMA StackOnly ==
  ASSUME IInv, UNCHANGED others,
         stack' \in Seq(Frames) /\ Shape' /\ Marks',
         thrown' \in {"none", "error"},
         thrown' = "error" => stack' # <<>>
  PROVE  IInv'
BY DEF IInv, TypeOK, Bounds, others, made

\* Such a step leaves the marks alone.
LEMMA OthersKeepMarks ==
  ASSUME UNCHANGED others
  PROVE  MarksKept
BY DEF MarksKept, others, made

\* A running thread's stack.
LEMMA RunningIs ==
  ASSUME IInv, NEW ops, Running(ops)
  PROVE  /\ stack # <<>> /\ thrown = "none" /\ Top.op \in ops
         /\ stack \in Seq(Frames)
         /\ Len(stack) \in Nat \ {0}
         /\ Top = stack[Len(stack)] /\ Top \in Frames
         /\ Top.op # "call" => Len(stack) > 1 /\ Under(stack[Len(stack) - 1], Top)
<1>1. /\ stack # <<>> /\ thrown = "none" /\ Top.op \in ops
      /\ stack \in Seq(Frames)
      /\ Len(stack) \in Nat \ {0}
      /\ Top = stack[Len(stack)] /\ Top \in Frames
  BY TopIs DEF IInv, TypeOK, Running
<1>2. ASSUME Top.op # "call" PROVE Len(stack) > 1 /\ Under(stack[Len(stack) - 1], Top)
  <2>1. stack[1].op = "call"
    BY <1>1 DEF IInv, Shape
  <2>2. Len(stack) > 1
    BY <1>1, <1>2, <2>1
  <2> QED
    BY <1>1, <2>2 DEF IInv, Shape
<1> QED
  BY <1>1, <1>2

\* A call from outside starts the stack.
LEMMA CallKeeps == ASSUME IInv, Call PROVE IInv'
<1>1. stack' \in Seq(Frames) /\ Shape' /\ Marks'
  <2>1. Plain([op |-> "call"])
    BY DEF Plain, Markers
  <2> QED
    BY <2>1, PushPlain, NewFrames, OthersKeepMarks DEF Call, others
<1>2. stack' # <<>>
  BY DEF Call, Push, IInv, TypeOK
<1> QED
  BY <1>1, <1>2, StackOnly DEF Call, others, IInv, TypeOK

\* LPC code returns, a load or an inherit statement is done.
LEMMA PopKeeps ==
  ASSUME IInv, NEW ops, Running(ops), ops \cap (Markers \cup {"master"}) = {},
         Pop, UNCHANGED <<others, thrown>>
  PROVE  IInv'
<1>1. stack' \in Seq(Frames) /\ Shape' /\ Marks'
  <2>1. Plain(Top)
    BY RunningIs DEF Plain
  <2> QED
    BY <2>1, PopPlain, RunningIs, OthersKeepMarks
<1> QED
  BY <1>1, RunningIs, StackOnly DEF others

\* An exception is thrown or caught where it is.
LEMMA ThrowKeeps ==
  ASSUME IInv, stack # <<>>, thrown' \in {"none", "error"}, UNCHANGED stack, UNCHANGED others
  PROVE  IInv'
<1>1. stack' \in Seq(Frames) /\ Shape' /\ Marks'
  BY NoMove, OthersKeepMarks
<1> QED
  BY <1>1, StackOnly

\* load_object and clone_object start a search.
LEMMA RequestKeeps ==
  ASSUME IInv, NEW op \in {"load", "clone"}, NEW name \in Names, Request(op, name)
  PROVE  IInv'
<1> DEFINE f == [op |-> op, name |-> name, def |-> 0]
<1>1. f \in Frames
  BY NewFrames, ObjectManagerAssumption DEF Requests
<1>2. Plain(f) /\ Under(Top, f)
  BY DEF Plain, Under, Markers
<1>3. /\ Running(Lpc) /\ Push(f) /\ UNCHANGED others /\ UNCHANGED thrown
  BY DEF Request, others
<1> HIDE DEF f
<1>4. stack' \in Seq(Frames) /\ Shape' /\ Marks'
  BY <1>1, <1>2, <1>3, PushPlain, RunningIs, OthersKeepMarks
<1> QED
  BY <1>3, <1>4, RunningIs, StackOnly

\* The search finds a definition.
LEMMA FoundKeeps == ASSUME IInv, Found PROVE IInv'
<1> DEFINE f == [Top EXCEPT !.def = definitions[Normalise(Top.name)]]
<1>1. /\ Running(Requests) /\ Replace(f) /\ UNCHANGED others /\ UNCHANGED thrown
  BY DEF Found, Finding, others
<1>2. Top \in [op : Requests, name : Names, def : 0..MaxDefs]
  BY <1>1, RunningIs, FrameFields
<1>3. definitions[Normalise(Top.name)] \in 0..MaxDefs
  <2>1. Top.name \in Files \X Spellings
    BY <1>2 DEF Names
  <2>2. Normalise(Top.name) \in Files
    BY <2>1 DEF Normalise
  <2> QED
    BY <2>2, ObjectManagerAssumption DEF IInv, TypeOK, Bounds
<1>4. f \in [op : Requests, name : Names, def : 0..MaxDefs] /\ f.op = Top.op
  BY <1>2, <1>3
<1>5. f \in Frames
  BY <1>4 DEF Frames, Requests
<1>6. Becomes(Top, f) /\ Top.op # "call"
  BY <1>2, <1>4 DEF Becomes, Requests, Markers
<1> HIDE DEF f
<1>7. stack' \in Seq(Frames) /\ Shape' /\ Marks'
  BY <1>1, <1>5, <1>6, RunningIs, ReplacePlain, OthersKeepMarks
<1> QED
  BY <1>1, <1>7, RunningIs, StackOnly

\* compile meets an inherit statement.
LEMMA InheritKeeps == ASSUME IInv, NEW name \in Names, Inherit(name) PROVE IInv'
<1> DEFINE f == [Top EXCEPT !.todo = @ \ {name}]
           g == [op |-> "inherit", name |-> name, def |-> 0]
<1>1. /\ Running({"compile"}) /\ ReplaceAndPush(f, g) /\ UNCHANGED others /\ UNCHANGED thrown
  BY DEF Inherit, others
<1>2. Top \in [op : {"compile"}, name : Names, todo : SUBSET Names]
  BY <1>1, RunningIs, FrameFields
<1>3. f \in [op : {"compile"}, name : Names, todo : SUBSET Names] /\ f.name = Top.name
  BY <1>2
<1>4. f \in Frames
  BY <1>3 DEF Frames
<1>5. g \in Frames
  BY NewFrames, ObjectManagerAssumption DEF Requests
<1>6. Becomes(Top, f) /\ Top.op # "call" /\ Plain(g) /\ Under(f, g)
  BY <1>2, <1>3 DEF Becomes, Plain, Under, Markers
<1> HIDE DEF f, g
<1>7. stack' \in Seq(Frames) /\ Shape' /\ Marks'
  BY <1>1, <1>4, <1>5, <1>6, RunningIs, ReplaceAndPushPlain, OthersKeepMarks
<1> QED
  BY <1>1, <1>7, RunningIs, StackOnly

\* compile turns to the master object.
LEMMA AskMasterKeeps == ASSUME IInv, AskMaster PROVE IInv'
<1> DEFINE f == [op |-> "virtual", name |-> Top.name]
           g == [op |-> "ask", name |-> Master, def |-> 0]
<1>1. /\ Running({"compile"}) /\ ReplaceAndPush(f, g) /\ UNCHANGED others /\ UNCHANGED thrown
  BY DEF AskMaster, others
<1>2. Top \in [op : {"compile"}, name : Names, todo : SUBSET Names]
  BY <1>1, RunningIs, FrameFields
<1>3. f \in Frames /\ g \in Frames
  BY <1>2, NewFrames, ObjectManagerAssumption DEF Requests
<1>4. Becomes(Top, f) /\ Top.op # "call" /\ Plain(g) /\ Under(f, g)
  BY <1>2 DEF Becomes, Plain, Under, Markers
<1> HIDE DEF f, g
<1>5. stack' \in Seq(Frames) /\ Shape' /\ Marks'
  BY <1>1, <1>3, <1>4, RunningIs, ReplaceAndPushPlain, OthersKeepMarks
<1> QED
  BY <1>1, <1>5, RunningIs, StackOnly

\* compile_object returns nothing.
LEMMA NotFoundKeeps == ASSUME IInv, NotFound PROVE IInv'
<1>1. /\ Running({"compile_object"}) /\ Pop /\ UNCHANGED others /\ thrown' = "error"
  BY DEF NotFound, others
<1>2. Plain(Top)
  BY <1>1, RunningIs DEF Plain, Markers
<1>3. stack' \in Seq(Frames) /\ Shape' /\ Marks'
  BY <1>1, <1>2, PopPlain, RunningIs, OthersKeepMarks
<1>4. stack' # <<>>
  <2>1. stack \in Seq(Frames) /\ Len(stack) > 1
    BY <1>1, RunningIs
  <2>2. Len(stack') = Len(stack) - 1
    BY <1>1, <2>1, Popped DEF Pop
  <2> QED
    BY <1>3, <2>1, <2>2
<1> QED
  BY <1>1, <1>3, <1>4, StackOnly

\* The master object's compile_object() begins.
LEMMA CompileObjectKeeps == ASSUME IInv, CompileObject PROVE IInv'
<1> DEFINE f == [op |-> "compile_object"]
<1>1. /\ Running({"ask"}) /\ Replace(f) /\ UNCHANGED others /\ UNCHANGED thrown
  BY DEF CompileObject, others
<1>2. f \in Frames
  BY NewFrames
<1>3. Becomes(Top, f) /\ Top.op # "call"
  BY <1>1, RunningIs DEF Becomes, Markers
<1> HIDE DEF f
<1>4. stack' \in Seq(Frames) /\ Shape' /\ Marks'
  BY <1>1, <1>2, <1>3, RunningIs, ReplacePlain, OthersKeepMarks
<1> QED
  BY <1>1, <1>4, RunningIs, StackOnly

-----------------------------------------------------------------------------
(* Steps that make or destruct instances *)

\* What newInstance makes, with its place in the map of objects.
LEMMA InstanceMade ==
  ASSUME IInv, NEW d \in DefIds, NEW id \in 0..MaxInsts, NewInstance(d, id)
  PROVE  /\ Len(insts) + 1 \in InstIds
         /\ insts' \in Seq([def : DefIds, id : 0..MaxInsts])
         /\ Len(insts') = Len(insts) + 1
         /\ insts'[Len(insts) + 1] = [def |-> d, id |-> id]
         /\ \A i \in 1..Len(insts) : i \in 1..Len(insts') /\ insts'[i] = insts[i]
         /\ objects' \in [Files \X (0..MaxInsts) -> 0..Len(insts')]
<1> DEFINE x == [def |-> d, id |-> id]
<1>1. x \in [def : DefIds, id : 0..MaxInsts]
  OBVIOUS
<1>2. insts \in Seq([def : DefIds, id : 0..MaxInsts]) /\ Len(insts) \in Nat
  BY DEF IInv, TypeOK
<1>3. insts' = Append(insts, x) /\ Len(insts) < MaxInsts
  BY DEF NewInstance
<1> HIDE DEF x
<1>4. /\ insts' \in Seq([def : DefIds, id : 0..MaxInsts])
      /\ Len(insts') = Len(insts) + 1
      /\ insts'[Len(insts) + 1] = x
      /\ \A i \in 1..Len(insts) : insts'[i] = insts[i]
  BY <1>1, <1>2, <1>3, Pushed
<1>5. objects' \in [Files \X (0..MaxInsts) -> 0..Len(insts')]
  <2>1. objects \in [Files \X (0..MaxInsts) -> 0..Len(insts')]
    BY <1>2, <1>4 DEF IInv, TypeOK
  <2>2. PICK key : objects' = [objects EXCEPT ![key] = Len(insts) + 1]
    BY DEF NewInstance
  <2>3. Len(insts) + 1 \in 0..Len(insts')
    BY <1>2, <1>4
  <2> QED
    BY <2>1, <2>2, <2>3
<1>6. Len(insts) + 1 \in InstIds
  BY <1>2, <1>3, ObjectManagerAssumption DEF InstIds
<1> QED
  BY <1>2, <1>4, <1>5, <1>6 DEF x

\* A clone is made and its create() begins.
LEMMA CloneKeeps == ASSUME IInv, Clone PROVE IInv'
<1> DEFINE f == [op |-> "create", inst |-> Len(insts) + 1]
<1>1. /\ Running({"clone"}) /\ Replace(f)
      /\ Wanted # 0 /\ NewInstance(Wanted, lastId + 1)
      /\ lastId' = lastId + 1
      /\ UNCHANGED <<defs, definitions, compiling, master, loading, dead, young, thrown>>
  BY DEF Clone, ReadyToClone
<1>2. Top \in [op : Requests, name : Names, def : 0..MaxDefs] /\ Top.op = "clone"
  BY <1>1, RunningIs, FrameFields DEF Requests
<1>3. Wanted \in DefIds
  BY <1>1, <1>2, ObjectManagerAssumption DEF Wanted, Requests, DefIds
<1>4. lastId + 1 \in 0..MaxInsts
  BY <1>1, ObjectManagerAssumption DEF NewInstance, IInv, TypeOK, Bounds
<1>5. /\ Len(insts) + 1 \in InstIds
      /\ insts' \in Seq([def : DefIds, id : 0..MaxInsts])
      /\ Len(insts') = Len(insts) + 1
      /\ \A i \in 1..Len(insts) : i \in 1..Len(insts') /\ insts'[i] = insts[i]
      /\ objects' \in [Files \X (0..MaxInsts) -> 0..Len(insts')]
  BY <1>1, <1>3, <1>4, InstanceMade
<1>6. f \in Frames
  BY <1>5, NewFrames
<1>7. Becomes(Top, f) /\ Top.op # "call"
  BY <1>2 DEF Becomes, Markers
<1> HIDE DEF f
<1>8. stack' \in Seq(Frames) /\ Shape' /\ Marks'
  <2>1. MarksKept
    BY <1>1, <1>5 DEF MarksKept
  <2> QED
    BY <1>1, <1>6, <1>7, <2>1, RunningIs, ReplacePlain
<1>9. Bounds'
  BY <1>1, <1>5, ObjectManagerAssumption DEF IInv, TypeOK, Bounds, InstIds
<1>10. TypeOK'
  <2>1. Len(insts) \in Nat /\ 0..Len(insts) \subseteq 0..Len(insts') /\ 1..Len(insts) \subseteq 1..Len(insts')
    BY <1>5 DEF IInv, TypeOK
  <2>2. thrown' = "none"
    BY <1>1, RunningIs
  <2>3. master' \in [DefIds -> 0..Len(insts')]
    BY <1>1, <2>1 DEF IInv, TypeOK
  <2>4. lastId' \in 0..MaxInsts
    BY <1>1, <1>4
  <2> QED
    BY <1>1, <1>5, <1>8, <2>1, <2>2, <2>3, <2>4 DEF IInv, TypeOK
<1> QED
  BY <1>8, <1>9, <1>10 DEF IInv

\* destruct moves no frame.
LEMMA DestructKeeps == ASSUME IInv, NEW i \in InstIds, Destruct(i) PROVE IInv'
<1>1. stack' \in Seq(Frames) /\ Shape' /\ Marks'
  BY NoMove DEF Destruct, MarksKept, made
<1>2. objects' \in [Files \X (0..MaxInsts) -> 0..Len(insts)]
  BY DEF Destruct, Unregistered, IInv, TypeOK
<1>3. master' \in [DefIds -> 0..Len(insts)]
  BY DEF Destruct, WithoutMaster, IInv, TypeOK
<1>4. dead' \subseteq 1..Len(insts) /\ young' \subseteq dead'
  BY DEF Destruct, IInv, TypeOK
<1> QED
  BY <1>1, <1>2, <1>3, <1>4 DEF Destruct, made, IInv, TypeOK, Bounds

-----------------------------------------------------------------------------
(* Steps that change the marks *)

\* The innermost frame takes its mark with it.
LEMMA MarkLeft ==
  ASSUME IInv, stack # <<>>,
         compiling' = IF Top.op \in Markers THEN compiling \ {Top.name} ELSE compiling,
         loading' = IF Top.op = "master" THEN [loading EXCEPT ![Top.def] = FALSE] ELSE loading,
         UNCHANGED insts,
         \A k \in Nat : /\ IsMaster(stack', k) <=> IsMaster(stack, k) /\ k # Len(stack)
                        /\ IsMaster(stack', k) => stack'[k] = stack[k]
                        /\ IsMarked(stack', k) <=> IsMarked(stack, k) /\ k # Len(stack)
                        /\ IsMarked(stack', k) => stack'[k].name = stack[k].name
  PROVE  Marks'
<1>1. Len(stack) \in Nat \ {0} /\ Top = stack[Len(stack)] /\ Top \in Frames
  BY TopIs DEF IInv
<1>2. \A k \in Nat : IsMaster(stack', k) =>
        stack'[k].inst \in 1..Len(insts') /\ insts'[stack'[k].inst].def = stack'[k].def
  BY DEF IInv, Marks
<1>3. \A j, k \in Nat :
        IsMaster(stack', j) /\ IsMaster(stack', k) /\ stack'[j].def = stack'[k].def => j = k
  BY DEF IInv, Marks
<1>4. \A j, k \in Nat :
        IsMarked(stack', j) /\ IsMarked(stack', k) /\ stack'[j].name = stack'[k].name => j = k
  BY DEF IInv, Marks
<1>5. \A d \in DefIds : loading'[d] <=> \E k \in Nat : IsMaster(stack', k) /\ stack'[k].def = d
  <2>1. CASE Top.op = "master"
    <3>1. IsMaster(stack, Len(stack)) /\ Top.def \in DefIds
      BY <1>1, <2>1, FrameFields DEF IsMaster
    <3>2. loading' = [loading EXCEPT ![Top.def] = FALSE] /\ loading \in [DefIds -> BOOLEAN]
      BY <2>1 DEF IInv, TypeOK
    <3>3. ~ \E k \in Nat : IsMaster(stack', k) /\ stack'[k].def = Top.def
      BY <1>1, <3>1 DEF IInv, Marks
    <3>4. ASSUME NEW d \in DefIds, d # Top.def
          PROVE  loading'[d] <=> \E k \in Nat : IsMaster(stack', k) /\ stack'[k].def = d
      <4>1. loading'[d] <=> \E k \in Nat : IsMaster(stack, k) /\ stack[k].def = d
        BY <3>2, <3>4 DEF IInv, Marks
      <4>2. \A k \in Nat : IsMaster(stack, k) /\ stack[k].def = d => k # Len(stack)
        BY <1>1, <3>4
      <4> QED
        BY <4>1, <4>2
    <3>5. ~ loading'[Top.def]
      BY <3>1, <3>2
    <3> QED
      BY <3>3, <3>4, <3>5
  <2>2. CASE Top.op # "master"
    <3>1. ~ IsMaster(stack, Len(stack))
      BY <1>1, <2>2 DEF IsMaster
    <3>2. loading' = loading
      BY <2>2
    <3> QED
      BY <3>1, <3>2 DEF IInv, Marks
  <2> QED BY <2>1, <2>2
<1>6. /\ \A k \in Nat : IsMarked(stack', k) => stack'[k].name \in compiling'
      /\ \A n \in compiling' : \E k \in Nat : IsMarked(stack', k) /\ stack'[k].name = n
  <2>1. CASE Top.op \in Markers
    <3>1. IsMarked(stack, Len(stack))
      BY <1>1, <2>1 DEF IsMarked
    <3>2. compiling' = compiling \ {Top.name}
      BY <2>1
    <3> QED
      BY <1>1, <3>1, <3>2 DEF IInv, Marks
  <2>2. CASE Top.op \notin Markers
    <3>1. ~ IsMarked(stack, Len(stack))
      BY <1>1, <2>2 DEF IsMarked
    <3>2. compiling' = compiling
      BY <2>2
    <3> QED
      BY <3>1, <3>2 DEF IInv, Marks
  <2> QED BY <2>1, <2>2
<1> QED
  BY <1>2, <1>3, <1>4, <1>5, <1>6 DEF Marks

\* A pop, of whatever frame.
LEMMA PopMarked ==
  ASSUME IInv, stack # <<>>, Pop,
         compiling' = IF Top.op \in Markers THEN compiling \ {Top.name} ELSE compiling,
         loading' = IF Top.op = "master" THEN [loading EXCEPT ![Top.def] = FALSE] ELSE loading,
         UNCHANGED insts
  PROVE  /\ stack' \in Seq(Frames) /\ Shape' /\ Marks'
         /\ Len(stack') = Len(stack) - 1
<1>1. stack \in Seq(Frames) /\ Len(stack) \in Nat \ {0} /\ Top = stack[Len(stack)]
  BY TopIs DEF IInv, TypeOK
<1>2. /\ stack' \in Seq(Frames)
      /\ Len(stack') = Len(stack) - 1
      /\ \A k \in 1..(Len(stack) - 1) : stack'[k] = stack[k]
  BY <1>1, Popped DEF Pop
<1>3. Shape'
  BY <1>1, <1>2 DEF IInv, Shape, Under
<1>4. \A k \in Nat : /\ IsMaster(stack', k) <=> IsMaster(stack, k) /\ k # Len(stack)
                     /\ IsMaster(stack', k) => stack'[k] = stack[k]
                     /\ IsMarked(stack', k) <=> IsMarked(stack, k) /\ k # Len(stack)
                     /\ IsMarked(stack', k) => stack'[k].name = stack[k].name
  BY <1>1, <1>2 DEF IsMaster, IsMarked
<1>5. Marks'
  BY <1>4, MarkLeft
<1> QED
  BY <1>2, <1>3, <1>5

\* An exception leaves a frame through its finally.
LEMMA UnwindKeeps == ASSUME IInv, Unwind PROVE IInv'
<1>1. stack # <<>> /\ stack \in Seq(Frames)
  BY DEF Unwind, IInv, TypeOK
<1>2. /\ stack' \in Seq(Frames) /\ Shape' /\ Marks'
      /\ Len(stack') = Len(stack) - 1
  BY <1>1, PopMarked DEF Unwind, Markers, made
<1>3. thrown' \in {"none", "error"} /\ (thrown' = "error" => stack' # <<>>)
  BY <1>1, <1>2 DEF Unwind, IInv, TypeOK
<1>4. compiling' \subseteq Names /\ loading' \in [DefIds -> BOOLEAN]
  BY DEF Unwind, IInv, TypeOK
<1> QED
  BY <1>2, <1>3, <1>4 DEF Unwind, made, IInv, TypeOK, Bounds

\* A master's create() is over.
LEMMA MasterLoadedKeeps == ASSUME IInv, MasterLoaded PROVE IInv'
<1>1. Running({"master"})
  BY DEF MasterLoaded
<1>2. Top \in [op : {"master"}, def : DefIds, inst : InstIds] /\ IsMaster(stack, Len(stack))
  BY <1>1, RunningIs, FrameFields DEF IsMaster
<1>3. Top.inst \in 1..Len(insts)
  BY <1>1, <1>2, RunningIs DEF IInv, Marks
<1>4. stack' \in Seq(Frames) /\ Shape' /\ Marks'
  BY <1>1, <1>2, RunningIs, PopMarked DEF MasterLoaded, Markers, made
<1>5. /\ master' \in [DefIds -> 0..Len(insts)]
      /\ loading' \in [DefIds -> BOOLEAN]
  BY <1>2, <1>3 DEF MasterLoaded, IInv, TypeOK
<1> QED
  BY <1>1, <1>4, <1>5, RunningIs DEF MasterLoaded, made, IInv, TypeOK, Bounds

\* A frame that is not the bottom one is pushed: which depths hold what.
LEMMA PushedShape ==
  ASSUME IInv, stack # <<>>, NEW f \in Frames, Push(f), Under(Top, f)
  PROVE  /\ stack' \in Seq(Frames) /\ Shape'
         /\ Len(stack) \in Nat
         /\ stack'[Len(stack) + 1] = f
         /\ \A k \in Nat : /\ k # Len(stack) + 1 => (IsMaster(stack', k) <=> IsMaster(stack, k))
                           /\ IsMaster(stack, k) => stack'[k] = stack[k] /\ k # Len(stack) + 1
                           /\ k # Len(stack) + 1 => (IsMarked(stack', k) <=> IsMarked(stack, k))
                           /\ IsMarked(stack, k) => stack'[k] = stack[k] /\ k # Len(stack) + 1
         /\ IsMaster(stack', Len(stack) + 1) <=> f.op = "master"
         /\ IsMarked(stack', Len(stack) + 1) <=> f.op \in Markers
<1>1. stack \in Seq(Frames) /\ Len(stack) \in Nat \ {0} /\ Top = stack[Len(stack)]
  BY TopIs DEF IInv, TypeOK
<1>2. /\ stack' \in Seq(Frames)
      /\ Len(stack') = Len(stack) + 1
      /\ stack'[Len(stack) + 1] = f
      /\ \A k \in 1..Len(stack) : stack'[k] = stack[k]
  BY <1>1, Pushed DEF Push
<1>3. Shape'
  <2>1. stack'[1].op = "call"
    BY <1>1, <1>2 DEF IInv, Shape
  <2>2. ASSUME NEW k \in 1..(Len(stack') - 1) PROVE Under(stack'[k], stack'[k + 1])
    <3>1. CASE k = Len(stack)
      BY <1>1, <1>2, <3>1
    <3>2. CASE k # Len(stack)
      BY <1>1, <1>2, <3>2 DEF IInv, Shape
    <3> QED BY <3>1, <3>2
  <2> QED
    BY <2>1, <2>2 DEF Shape, Under
<1>4. \A k \in Nat : /\ k # Len(stack) + 1 => (IsMaster(stack', k) <=> IsMaster(stack, k))
                     /\ IsMaster(stack, k) => stack'[k] = stack[k] /\ k # Len(stack) + 1
                     /\ k # Len(stack) + 1 => (IsMarked(stack', k) <=> IsMarked(stack, k))
                     /\ IsMarked(stack, k) => stack'[k] = stack[k] /\ k # Len(stack) + 1
  BY <1>1, <1>2 DEF IsMaster, IsMarked
<1>5. /\ IsMaster(stack', Len(stack) + 1) <=> f.op = "master"
      /\ IsMarked(stack', Len(stack) + 1) <=> f.op \in Markers
  BY <1>1, <1>2 DEF IsMaster, IsMarked
<1> QED
  BY <1>1, <1>2, <1>3, <1>4, <1>5

\* compile marks a name that is not marked.
LEMMA CompileKeeps == ASSUME IInv, Compile PROVE IInv'
<1> DEFINE f == [op |-> "compile", name |-> Top.name, todo |-> Inherits[Normalise(Top.name)]]
           n == Len(stack) + 1
<1>1. /\ Running(Requests) /\ Push(f)
      /\ Top.name \notin compiling /\ compiling' = compiling \cup {Top.name}
      /\ UNCHANGED <<made, definitions, objects, master, loading, dead, young, thrown>>
  BY DEF Compile, Finding
<1>2. Top \in [op : Requests, name : Names, def : 0..MaxDefs]
  BY <1>1, RunningIs, FrameFields
<1>3. Inherits[Normalise(Top.name)] \in SUBSET Names
  <2>1. Top.name \in Files \X Spellings
    BY <1>2 DEF Names
  <2>2. Normalise(Top.name) \in Files
    BY <2>1 DEF Normalise
  <2> QED
    BY <2>2, ObjectManagerAssumption
<1>4. f \in Frames
  BY <1>2, <1>3, NewFrames
<1>5. Under(Top, f) /\ f.op = "compile" /\ f.name = Top.name
  BY <1>2 DEF Under
<1> HIDE DEF f
<1>6. /\ stack' \in Seq(Frames) /\ Shape'
      /\ n \in Nat
      /\ stack'[n] = f
      /\ \A k \in Nat : /\ k # n => (IsMaster(stack', k) <=> IsMaster(stack, k))
                        /\ IsMaster(stack, k) => stack'[k] = stack[k] /\ k # n
                        /\ k # n => (IsMarked(stack', k) <=> IsMarked(stack, k))
                        /\ IsMarked(stack, k) => stack'[k] = stack[k] /\ k # n
      /\ ~IsMaster(stack', n)
      /\ IsMarked(stack', n)
  BY <1>1, <1>4, <1>5, RunningIs, PushedShape DEF Markers
<1> HIDE DEF n
<1>7. Marks'
  <2>1. \A k \in Nat : IsMaster(stack', k) <=> IsMaster(stack, k)
    BY <1>6
  <2>2. /\ \A k \in Nat : IsMaster(stack', k) =>
             stack'[k].inst \in 1..Len(insts') /\ insts'[stack'[k].inst].def = stack'[k].def
        /\ \A d \in DefIds : loading'[d] <=> \E k \in Nat : IsMaster(stack', k) /\ stack'[k].def = d
        /\ \A j, k \in Nat :
             IsMaster(stack', j) /\ IsMaster(stack', k) /\ stack'[j].def = stack'[k].def => j = k
    BY <1>1, <1>6, <2>1 DEF IInv, Marks, made
  <2>3. /\ \A k \in Nat : IsMarked(stack', k) => stack'[k].name \in compiling'
        /\ \A m \in compiling' : \E k \in Nat : IsMarked(stack', k) /\ stack'[k].name = m
    BY <1>1, <1>5, <1>6 DEF IInv, Marks
  <2>4. \A j, k \in Nat :
          IsMarked(stack', j) /\ IsMarked(stack', k) /\ stack'[j].name = stack'[k].name => j = k
    BY <1>1, <1>5, <1>6 DEF IInv, Marks
  <2> QED
    BY <2>2, <2>3, <2>4 DEF Marks
<1>8. compiling' \subseteq Names
  BY <1>1, <1>2 DEF IInv, TypeOK
<1> QED
  BY <1>1, <1>6, <1>7, <1>8, RunningIs DEF made, IInv, TypeOK, Bounds

\* compile takes its mark back and returns.
LEMMA CompiledKeeps == ASSUME IInv, Compiled PROVE IInv'
<1> DEFINE n == Len(stack)
           x == stack[Len(stack) - 1]
           f == [x EXCEPT !.def = Top.def]
<1>1. Running({"register"})
  BY DEF Compiled
<1>2. /\ Top \in [op : {"register"}, name : Names, def : DefIds]
      /\ Top = stack[n] /\ Top.op \in Markers /\ Top.op # "master"
      /\ n \in Nat /\ n > 1 /\ Under(x, Top)
      /\ stack \in Seq(Frames)
  BY <1>1, RunningIs, FrameFields DEF Markers
<1>3. x \in Frames /\ x.op \in Requests
  BY <1>2 DEF Under
<1>4. x \in [op : Requests, name : Names, def : 0..MaxDefs]
  BY <1>3, FrameFields
<1>5. f \in [op : Requests, name : Names, def : 0..MaxDefs] /\ f.op = x.op
  BY <1>2, <1>4, ObjectManagerAssumption DEF DefIds
<1>6. f \in Frames
  BY <1>5 DEF Frames, Requests
<1> HIDE DEF f
<1>7. /\ stack' \in Seq(Frames)
      /\ Len(stack') = n - 1
      /\ stack'[n - 1] = f
      /\ \A k \in 1..(n - 2) : stack'[k] = stack[k]
  <2>1. stack' = Append(Front(Front(stack)), f)
    BY DEF Compiled, f
  <2> QED
    BY <1>2, <1>6, <2>1, ReturnedTo
<1> HIDE DEF n
<1>8. Shape'
  <2>1. stack'[1].op = "call"
    BY <1>2, <1>3, <1>5, <1>7 DEF IInv, Shape, n, Requests
  <2>2. ASSUME NEW k \in 1..(Len(stack') - 1) PROVE Under(stack'[k], stack'[k + 1])
    <3>1. Under(stack[k], stack[k + 1])
      BY <1>2, <1>7 DEF IInv, Shape, n
    <3>2. stack'[k] = stack[k] /\ stack'[k + 1].op = stack[k + 1].op
      <4>1. k \in Nat /\ k <= n - 2 /\ stack'[k] = stack[k]
        BY <1>2, <1>7
      <4>2. CASE k = n - 2
        <5>1. k + 1 = n - 1
          BY <1>2, <4>2
        <5>2. stack[k + 1] = x
          BY <5>1 DEF n
        <5> QED
          BY <1>5, <1>7, <4>1, <5>1, <5>2
      <4>3. CASE k < n - 2
        BY <1>2, <1>7, <4>1, <4>3
      <4> QED
        BY <1>2, <4>1, <4>2, <4>3
    <3> QED
      BY <3>1, <3>2 DEF Under
  <2> QED
    BY <2>1, <2>2 DEF Shape, Under
<1>9. Marks'
  <2>1. /\ compiling' = IF Top.op \in Markers THEN compiling \ {Top.name} ELSE compiling
        /\ loading' = IF Top.op = "master" THEN [loading EXCEPT ![Top.def] = FALSE] ELSE loading
        /\ UNCHANGED insts
    BY <1>2 DEF Compiled, made
  <2>2. f.op \notin Markers \cup {"master"} /\ x.op \notin Markers \cup {"master"}
    BY <1>3, <1>5 DEF Requests, Markers
  <2>3. \A k \in Nat : /\ IsMaster(stack', k) <=> IsMaster(stack, k) /\ k # n
                       /\ IsMaster(stack', k) => stack'[k] = stack[k]
                       /\ IsMarked(stack', k) <=> IsMarked(stack, k) /\ k # n
                       /\ IsMarked(stack', k) => stack'[k].name = stack[k].name
    BY <1>2, <1>7, <2>2 DEF IsMaster, IsMarked, n
  <2>4. stack # <<>>
    BY <1>1, RunningIs
  <2> QED
    BY <2>1, <2>3, <2>4, MarkLeft DEF n
<1> QED
  BY <1>1, <1>7, <1>8, <1>9, RunningIs DEF Compiled, made, IInv, TypeOK, Bounds

\* getMasterInstance marks a definition that is not marked.
LEMMA LoadMasterKeeps == ASSUME IInv, LoadMaster PROVE IInv'
<1> DEFINE f == [op |-> "master", def |-> Wanted, inst |-> Len(insts) + 1]
           n == Len(stack) + 1
<1>1. /\ Running({"register", "load", "ask", "clone"}) /\ Push(f)
      /\ Wanted # 0 /\ NewInstance(Wanted, 0)
      /\ ~loading[Wanted]
      /\ loading' = [loading EXCEPT ![Wanted] = TRUE]
      /\ UNCHANGED <<defs, lastId, definitions, compiling, master, dead, young, thrown>>
  BY DEF LoadMaster, NeedsMaster
<1>2. Top.def \in 0..MaxDefs
  <2>1. Top.op \in Requests => Top \in [op : Requests, name : Names, def : 0..MaxDefs]
    BY <1>1, RunningIs, FrameFields
  <2>2. Top.op = "register" => Top \in [op : {"register"}, name : Names, def : DefIds]
    BY <1>1, RunningIs, FrameFields
  <2>3. Top.op \in Requests \cup {"register"}
    BY <1>1, RunningIs DEF Requests
  <2> QED
    BY <2>1, <2>2, <2>3, ObjectManagerAssumption DEF DefIds
<1>3. Wanted \in DefIds
  BY <1>1, <1>2, ObjectManagerAssumption DEF Wanted, DefIds
<1>4. /\ Len(insts) + 1 \in InstIds
      /\ insts' \in Seq([def : DefIds, id : 0..MaxInsts])
      /\ Len(insts') = Len(insts) + 1
      /\ insts'[Len(insts) + 1] = [def |-> Wanted, id |-> 0]
      /\ \A i \in 1..Len(insts) : i \in 1..Len(insts') /\ insts'[i] = insts[i]
      /\ objects' \in [Files \X (0..MaxInsts) -> 0..Len(insts')]
  <2>1. 0 \in 0..MaxInsts
    BY ObjectManagerAssumption
  <2>2. NewInstance(Wanted, 0)
    BY <1>1
  <2> HIDE DEF f, n
  <2> QED
    BY <1>3, <2>1, <2>2, InstanceMade, Zenon
<1>5. f \in Frames
  BY <1>3, <1>4, NewFrames
<1>6. Under(Top, f) /\ f.op = "master" /\ f.def = Wanted /\ f.inst = Len(insts) + 1
  BY DEF Under, Markers
<1> HIDE DEF f
<1>7. /\ stack' \in Seq(Frames) /\ Shape'
      /\ n \in Nat
      /\ stack'[n] = f
      /\ \A k \in Nat : /\ k # n => (IsMaster(stack', k) <=> IsMaster(stack, k))
                        /\ IsMaster(stack, k) => stack'[k] = stack[k] /\ k # n
                        /\ k # n => (IsMarked(stack', k) <=> IsMarked(stack, k))
                        /\ IsMarked(stack, k) => stack'[k] = stack[k] /\ k # n
      /\ IsMaster(stack', n)
      /\ ~IsMarked(stack', n)
  BY <1>1, <1>5, <1>6, RunningIs, PushedShape DEF Markers
<1> HIDE DEF n
<1>8. Len(insts) \in Nat /\ loading \in [DefIds -> BOOLEAN]
  BY DEF IInv, TypeOK
<1>9. Marks'
  <2>1. \A k \in Nat : IsMarked(stack', k) <=> IsMarked(stack, k)
    BY <1>7
  <2>2. /\ \A k \in Nat : IsMarked(stack', k) => stack'[k].name \in compiling'
        /\ \A m \in compiling' : \E k \in Nat : IsMarked(stack', k) /\ stack'[k].name = m
        /\ \A j, k \in Nat :
             IsMarked(stack', j) /\ IsMarked(stack', k) /\ stack'[j].name = stack'[k].name => j = k
    BY <1>1, <1>7, <2>1 DEF IInv, Marks
  <2>3. \A k \in Nat : IsMaster(stack', k) =>
          stack'[k].inst \in 1..Len(insts') /\ insts'[stack'[k].inst].def = stack'[k].def
    <3> SUFFICES ASSUME NEW k \in Nat, IsMaster(stack', k)
                 PROVE  stack'[k].inst \in 1..Len(insts') /\ insts'[stack'[k].inst].def = stack'[k].def
      OBVIOUS
    <3>1. CASE k = n
      BY <1>4, <1>6, <1>7, <1>8, <3>1
    <3>2. CASE k # n
      <4>1. stack'[k] = stack[k] /\ stack[k].inst \in 1..Len(insts)
              /\ insts[stack[k].inst].def = stack[k].def
        BY <1>7, <3>2 DEF IInv, Marks
      <4> QED
        BY <1>4, <4>1
    <3> QED BY <3>1, <3>2
  <2>4. \A k \in Nat : IsMaster(stack, k) => stack[k].def # Wanted
    BY <1>1, <1>3 DEF IInv, Marks
  <2>5. \A d \in DefIds : loading'[d] <=> \E k \in Nat : IsMaster(stack', k) /\ stack'[k].def = d
    <3>1. loading'[Wanted]
      BY <1>1, <1>3, <1>8
    <3>2. ASSUME NEW d \in DefIds, d # Wanted
          PROVE  loading'[d] <=> \E k \in Nat : IsMaster(stack', k) /\ stack'[k].def = d
      <4>1. loading'[d] <=> \E k \in Nat : IsMaster(stack, k) /\ stack[k].def = d
        BY <1>1, <1>8, <3>2 DEF IInv, Marks
      <4>2. stack'[n].def # d
        BY <1>6, <1>7, <3>2
      <4> QED
        BY <1>7, <4>1, <4>2
    <3>3. \E k \in Nat : IsMaster(stack', k) /\ stack'[k].def = Wanted
      BY <1>6, <1>7
    <3> QED
      BY <3>1, <3>2, <3>3
  <2>6. \A j, k \in Nat :
          IsMaster(stack', j) /\ IsMaster(stack', k) /\ stack'[j].def = stack'[k].def => j = k
    BY <1>6, <1>7, <2>4 DEF IInv, Marks
  <2> QED
    BY <2>2, <2>3, <2>5, <2>6 DEF Marks
<1>10. Bounds'
  BY <1>1, <1>4, <1>8, ObjectManagerAssumption DEF IInv, TypeOK, Bounds, InstIds
<1>11. TypeOK'
  <2>1. 0..Len(insts) \subseteq 0..Len(insts') /\ 1..Len(insts) \subseteq 1..Len(insts')
    BY <1>4, <1>8
  <2>2. thrown' = "none"
    BY <1>1, RunningIs
  <2>3. master' \in [DefIds -> 0..Len(insts')]
    BY <1>1, <2>1 DEF IInv, TypeOK
  <2>4. loading' \in [DefIds -> BOOLEAN]
    BY <1>1, <1>8
  <2> QED
    BY <1>1, <1>4, <1>7, <2>1, <2>2, <2>3, <2>4 DEF IInv, TypeOK
<1> QED
  BY <1>7, <1>9, <1>10, <1>11 DEF IInv

\* registerObject(definition), where compile's frame takes the definition.
LEMMA Registers ==
  ASSUME IInv, NEW name \in Names, NEW virtual \in BOOLEAN, NEW below,
         Register(name, virtual, below), thrown = "none",
         stack' \in Seq(Frames) /\ Shape' /\ Marks'
  PROVE  IInv'
<1> DEFINE d == Len(defs) + 1
           x == [file |-> Normalise(name), virtual |-> virtual]
<1>1. Normalise(name) \in Files
  <2>1. name \in Files \X Spellings
    BY DEF Names
  <2> QED
    BY <2>1 DEF Normalise
<1>2. x \in [file : Files, virtual : BOOLEAN]
  BY <1>1
<1>3. /\ d \in DefIds
      /\ defs' = Append(defs, x)
      /\ definitions' = [definitions EXCEPT ![Normalise(name)] = d]
      /\ UNCHANGED <<insts, lastId, objects, compiling, master, loading, dead, young, thrown>>
  BY DEF Register
<1>4. defs \in Seq([file : Files, virtual : BOOLEAN]) /\ Len(defs) \in Nat
  BY DEF IInv, TypeOK
<1> HIDE DEF x
<1>5. defs' \in Seq([file : Files, virtual : BOOLEAN]) /\ Len(defs') = d
  BY <1>2, <1>3, <1>4, Pushed
<1>6. definitions' \in [Files -> 0..Len(defs')]
  <2>1. definitions \in [Files -> 0..d]
    BY <1>4 DEF IInv, TypeOK
  <2> QED
    BY <1>1, <1>3, <1>4, <1>5, <2>1
<1>7. Bounds'
  BY <1>3, <1>5, ObjectManagerAssumption DEF IInv, Bounds, DefIds
<1>8. TypeOK'
  BY <1>3, <1>5, <1>6 DEF IInv, TypeOK
<1> QED
  BY <1>7, <1>8 DEF IInv

\* A compiled definition is registered.
LEMMA DefineKeeps == ASSUME IInv, Define PROVE IInv'
<1> DEFINE f == [op |-> "register", name |-> Top.name, def |-> Len(defs) + 1]
<1>1. /\ Running({"compile"}) /\ Register(Top.name, FALSE, Front(stack))
  BY DEF Define
<1>2. Top \in [op : {"compile"}, name : Names, todo : SUBSET Names]
  BY <1>1, RunningIs, FrameFields
<1>3. Len(defs) + 1 \in DefIds /\ Replace(f) /\ UNCHANGED <<insts, compiling, loading>>
  BY <1>1 DEF Register, Replace
<1>4. f \in Frames
  BY <1>2, <1>3, NewFrames
<1>5. Becomes(Top, f) /\ Top.op # "call"
  BY <1>2 DEF Becomes, Markers
<1> HIDE DEF f
<1>6. MarksKept
  BY <1>3 DEF MarksKept
<1>7. stack' \in Seq(Frames) /\ Shape' /\ Marks'
  BY <1>1, <1>3, <1>4, <1>5, <1>6, RunningIs, ReplacePlain
<1> QED
  BY <1>1, <1>2, <1>7, RunningIs, Registers

\* So is a virtual one, which takes the place of two frames.
LEMMA DefineVirtualKeeps == ASSUME IInv, DefineVirtual PROVE IInv'
<1> DEFINE n == Len(stack)
           x == stack[Len(stack) - 1]
           f == [op |-> "register", name |-> x.name, def |-> Len(defs) + 1]
<1>1. Running({"compile_object"}) /\ Register(x.name, TRUE, Front(Front(stack)))
  BY DEF DefineVirtual
<1>2. /\ Top.op = "compile_object" /\ Top = stack[n]
      /\ n \in Nat /\ n > 1 /\ Under(x, Top)
      /\ stack \in Seq(Frames)
  BY <1>1, RunningIs
<1>3. x \in Frames /\ x.op = "virtual"
  BY <1>2 DEF Under
<1>4. x \in [op : {"virtual"}, name : Names]
  BY <1>3, FrameFields
<1>5. Len(defs) + 1 \in DefIds /\ UNCHANGED <<insts, compiling, loading>>
  BY <1>1 DEF Register
<1>6. f \in Frames /\ f.op = "register" /\ f.name = x.name
  BY <1>4, <1>5, NewFrames
<1>7. stack' = Append(Front(Front(stack)), f)
  BY <1>1 DEF Register
<1> HIDE DEF f
<1>8. /\ stack' \in Seq(Frames)
      /\ Len(stack') = n - 1
      /\ stack'[n - 1] = f
      /\ \A k \in 1..(n - 2) : stack'[k] = stack[k]
  <2> DEFINE r == Append(Front(Front(stack)), f)
  <2>1. /\ r \in Seq(Frames)
        /\ Len(r) = n - 1
        /\ r[n - 1] = f
        /\ \A k \in 1..(n - 2) : r[k] = stack[k]
    <3>1. Len(stack) > 1 /\ stack \in Seq(Frames) /\ f \in Frames
      BY <1>2, <1>6
    <3> QED
      BY <3>1, ReturnedTo
  <2>2. stack' = r
    BY <1>7
  <2> HIDE DEF r, n
  <2> QED
    BY <2>1, <2>2
<1>9. Shape'
  <2>1. n > 2
    BY <1>2, <1>3 DEF IInv, Shape
  <2>2. stack'[1].op = "call"
    BY <1>2, <1>8, <2>1 DEF IInv, Shape
  <2>3. ASSUME NEW k \in 1..(Len(stack') - 1) PROVE Under(stack'[k], stack'[k + 1])
    <3>1. Under(stack[k], stack[k + 1])
      BY <1>2, <1>8 DEF IInv, Shape
    <3>2. k \in Nat /\ k <= n - 2 /\ stack'[k] = stack[k]
      BY <1>2, <1>8
    <3>3. CASE k = n - 2
      <4>1. k + 1 = n - 1 /\ stack[k + 1] = x /\ stack'[k + 1] = f
        BY <1>2, <1>8, <3>3
      <4> QED
        BY <1>3, <1>6, <3>1, <3>2, <4>1 DEF Under, Markers
    <3>4. CASE k < n - 2
      BY <1>2, <1>8, <3>1, <3>2, <3>4
    <3> QED
      BY <1>2, <3>2, <3>3, <3>4
  <2> QED
    BY <2>2, <2>3 DEF Shape, Under
<1>10. Marks'
  <2>1. MarksKept
    BY <1>5 DEF MarksKept
  <2>2. \A k \in Nat : /\ IsMaster(stack', k) <=> IsMaster(stack, k)
                       /\ IsMaster(stack, k) => stack'[k] = stack[k]
                       /\ IsMarked(stack', k) <=> IsMarked(stack, k)
                       /\ IsMarked(stack, k) => stack'[k].name = stack[k].name
    <3> SUFFICES ASSUME NEW k \in Nat
                 PROVE  /\ IsMaster(stack', k) <=> IsMaster(stack, k)
                        /\ IsMaster(stack, k) => stack'[k] = stack[k]
                        /\ IsMarked(stack', k) <=> IsMarked(stack, k)
                        /\ IsMarked(stack, k) => stack'[k].name = stack[k].name
      OBVIOUS
    <3>1. CASE k = n - 1
      BY <1>2, <1>3, <1>6, <1>8, <3>1 DEF IsMaster, IsMarked, Markers
    <3>2. CASE k = n
      BY <1>2, <1>8, <3>2 DEF IsMaster, IsMarked, Markers
    <3>3. CASE k \notin {n - 1, n}
      BY <1>2, <1>8, <3>3 DEF IsMaster, IsMarked
    <3> QED BY <3>1, <3>2, <3>3
  <2> QED
    BY <2>1, <2>2, SameMarks DEF IInv
<1> QED
  BY <1>1, <1>4, <1>8, <1>9, <1>10, RunningIs, Registers

-----------------------------------------------------------------------------
(* The theorems *)

\* The invariant holds at first.
LEMMA InitHolds == Init => IInv
<1> SUFFICES ASSUME Init PROVE IInv
  OBVIOUS
<1>1. stack = <<>> /\ Len(stack) = 0 /\ Len(defs) = 0 /\ Len(insts) = 0 /\ lastId = 0
  BY DEF Init
<1>2. TypeOK
  BY <1>1, ObjectManagerAssumption DEF Init, TypeOK
<1>3. Shape
  BY <1>1 DEF Shape
<1>4. Bounds
  <2>1. MaxDefs \in Nat /\ MaxInsts \in Nat
    BY ObjectManagerAssumption
  <2> QED
    BY <1>1, <2>1 DEF Bounds
<1>5. Marks
  BY <1>1 DEF Init, Marks, IsMaster, IsMarked
<1> QED
  BY <1>2, <1>3, <1>4, <1>5 DEF IInv

\* Each step keeps the invariant.
LEMMA NextHolds == IInv /\ [Next]_vars => IInv'
<1> SUFFICES ASSUME IInv, [Next]_vars PROVE IInv'
  OBVIOUS
<1>1. CASE Call
  BY <1>1, CallKeeps
<1>2. CASE Return
  <2>1. /\ Running({"call", "create"}) /\ Pop /\ UNCHANGED <<others, thrown>>
        /\ {"call", "create"} \cap (Markers \cup {"master"}) = {}
    BY <1>2 DEF Return, others, Markers
  <2> QED
    BY <2>1, PopKeeps
<1>3. CASE Catch
  <2>1. stack # <<>> /\ thrown' \in {"none", "error"} /\ UNCHANGED stack /\ UNCHANGED others
    BY <1>3 DEF Catch, others, IInv, TypeOK
  <2> QED
    BY <2>1, ThrowKeeps
<1>4. CASE Unwind
  BY <1>4, UnwindKeeps
<1>5. CASE Fail \/ CompileCycle \/ CompileFails \/ InitFails \/ NoMaster
  <2>1. stack # <<>> /\ thrown' \in {"none", "error"} /\ UNCHANGED stack /\ UNCHANGED others
    BY <1>5 DEF Fail, CompileCycle, CompileFails, InitFails, NoMaster, Throw, Finding, NeedsMaster,
                ReadyToClone, Running, others
  <2> QED
    BY <2>1, ThrowKeeps
<1>6. ASSUME NEW op \in {"load", "clone"}, NEW name \in Names, Request(op, name) PROVE IInv'
  BY <1>6, RequestKeeps
<1>7. CASE Found
  BY <1>7, FoundKeeps
<1>8. CASE Compile
  BY <1>8, CompileKeeps
<1>9. ASSUME NEW name \in Names, Inherit(name) PROVE IInv'
  BY <1>9, InheritKeeps
<1>10. CASE Inherited
  <2>1. /\ Running({"inherit"}) /\ Pop /\ UNCHANGED <<others, thrown>>
        /\ {"inherit"} \cap (Markers \cup {"master"}) = {}
    BY <1>10 DEF Inherited, others, Markers
  <2> QED
    BY <2>1, PopKeeps
<1>11. CASE AskMaster
  BY <1>11, AskMasterKeeps
<1>12. CASE NotFound
  BY <1>12, NotFoundKeeps
<1>13. CASE Define
  BY <1>13, DefineKeeps
<1>14. CASE DefineVirtual
  BY <1>14, DefineVirtualKeeps
<1>15. CASE Compiled
  BY <1>15, CompiledKeeps
<1>16. CASE LoadMaster
  BY <1>16, LoadMasterKeeps
<1>17. CASE MasterLoaded
  BY <1>17, MasterLoadedKeeps
<1>18. CASE LoadDone
  <2>1. /\ Running({"load"}) /\ Pop /\ UNCHANGED <<others, thrown>>
        /\ {"load"} \cap (Markers \cup {"master"}) = {}
    BY <1>18 DEF LoadDone, others, Markers
  <2> QED
    BY <2>1, PopKeeps
<1>19. CASE CompileObject
  BY <1>19, CompileObjectKeeps
<1>20. CASE Clone
  BY <1>20, CloneKeeps
<1>21. ASSUME NEW i \in InstIds, Destruct(i) PROVE IInv'
  BY <1>21, DestructKeeps
<1>22. CASE UNCHANGED vars
  <2>1. /\ UNCHANGED others /\ UNCHANGED stack /\ UNCHANGED thrown
        /\ stack \in Seq(Frames) /\ thrown \in {"none", "error"}
        /\ thrown = "error" => stack # <<>>
    BY <1>22 DEF vars, others, IInv, TypeOK
  <2>2. stack' \in Seq(Frames) /\ Shape' /\ Marks'
    BY <2>1, NoMove, OthersKeepMarks
  <2> QED
    BY <2>1, <2>2, StackOnly
<1> QED
  BY <1>1, <1>2, <1>3, <1>4, <1>5, <1>6, <1>7, <1>8, <1>9, <1>10, <1>11, <1>12,
     <1>13, <1>14, <1>15, <1>16, <1>17, <1>18, <1>19, <1>20, <1>21, <1>22 DEF Next

\* The invariant holds of every behaviour of LpcCompilerObjectManager, for any
\* files, inherit statements and bounds.
THEOREM Invariant == Spec => []IInv
BY InitHolds, NextHolds, PTL DEF Spec

\* Definitions, instances, the two maps that find them and the stack have their types.
THEOREM TypeCorrect == Spec => []TypeOK
<1>1. IInv => TypeOK
  BY DEF IInv
<1> QED
  BY <1>1, Invariant, PTL

\* _loadingMaster and _compiling say what the stack says, for any files, any order
\* of loads, clones, destructs and failures: the finally blocks of compile and
\* getMasterInstance are enough.
THEOREM AlwaysMarksMatch == Spec => []MarksMatchStack
<1>1. IInv => MarksMatchStack
  BY MarksMatch DEF IInv
<1> QED
  BY <1>1, Invariant, PTL

=============================================================================
