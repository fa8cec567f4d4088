------------------------ MODULE ZMachineCore_proofs -------------------------
(* For every program, word size, set of routines and bound: the frames cut  *)
(* the flat stack of ZMachineCore into the stacks of the routines, and what *)
(* the machine does is what RoutineCalls promises.                          *)
EXTENDS ZMachineCore, TLAPS

-----------------------------------------------------------------------------
(* What the helpers return. *)

LEMMA ModIsWord ==
    ASSUME NEW a \in Int
    PROVE  a % WordSize \in Word
BY WordAssumption DEF Word

LEMMA SmallWords == {0, 1, 2} \subseteq Word
BY WordAssumption DEF Word

LEMMA LocalsMember ==
    \A l : l \in Locals <=> l \in Seq(Word) /\ Len(l) \in 0..15
<1>1. \A l : l \in Locals <=> l \in Seq(Word) /\ Len(l) <= 15
  BY Zenon DEF Locals
<1>2. \A l \in Seq(Word) : Len(l) <= 15 <=> Len(l) \in 0..15
  <2>1. ASSUME NEW l \in Seq(Word) PROVE Len(l) \in Nat
    OBVIOUS
  <2>2. \A n \in Nat : n <= 15 <=> n \in 0..15
    OBVIOUS
  <2> QED BY Zenon, <2>1, <2>2
<1> QED BY Zenon, <1>1, <1>2

LEMMA FrameFields ==
    ASSUME NEW f \in Frame
    PROVE  /\ f.returnPC \in Addr
           /\ f.prevStackDepth \in Nat
           /\ f.locals \in Seq(Word) /\ Len(f.locals) \in 0..15
           /\ f.argCount \in 0..7
           /\ f.resultStorage \in {None} \cup Variable
<1>1. f.locals \in Locals
  BY DEF Frame
<1>2. f.locals \in Seq(Word) /\ Len(f.locals) \in 0..15
  BY Zenon, <1>1, LocalsMember
<1> QED BY <1>2 DEF Frame

LEMMA PopType ==
    ASSUME NEW S, NEW s \in Seq(S), NEW k \in 0..Len(s)
    PROVE  /\ Pop(s, k) \in Seq(S)
           /\ Len(Pop(s, k)) = Len(s) - k
           /\ \A i \in 1..(Len(s) - k) : Pop(s, k)[i] = s[i]
BY DEF Pop

LEMMA TopType ==
    ASSUME NEW S, NEW s \in Seq(S), s # <<>>
    PROVE  /\ Len(s) \in Nat \ {0}
           /\ Top(s) \in S
BY DEF Top

LEMMA StackWithType ==
    ASSUME NEW s \in Seq(Word), NEW dest \in {None} \cup Variable, NEW v \in Word
    PROVE  /\ StackWith(s, dest, v) \in Seq(Word)
           /\ Len(StackWith(s, dest, v)) = Len(s) + (IF dest = 0 THEN 1 ELSE 0)
BY DEF StackWith

LEMMA GlobalsWithType ==
    ASSUME NEW g \in [Global -> Word], NEW dest, NEW v \in Word
    PROVE  GlobalsWith(g, dest, v) \in [Global -> Word]
BY DEF GlobalsWith

(* Overwriting an element that a sequence has, or does not have. *)
LEMMA ExceptType ==
    ASSUME NEW S, NEW s \in Seq(S), NEW i \in Int, NEW v \in S
    PROVE  [s EXCEPT ![i] = v] \in Seq(S) /\ Len([s EXCEPT ![i] = v]) = Len(s)
<1> DEFINE e == [s EXCEPT ![i] = v]
<1>1. Len(s) \in Nat /\ DOMAIN s = 1..Len(s) /\ s \in [1..Len(s) -> S]
  OBVIOUS
<1>2. e \in [1..Len(s) -> S]
  BY <1>1
<1>3. \A t, n : n \in Nat /\ t \in [1..n -> S] => t \in Seq(S) /\ Len(t) = n
  OBVIOUS
<1> QED BY <1>1, <1>2, <1>3

LEMMA LocalsWithType ==
    ASSUME NEW cs \in Seq(Frame), NEW dest, NEW v \in Word
    PROVE  /\ LocalsWith(cs, dest, v) \in Seq(Frame)
           /\ Len(LocalsWith(cs, dest, v)) = Len(cs)
           /\ \A i \in 1..Len(cs) :
                /\ LocalsWith(cs, dest, v)[i].prevStackDepth = cs[i].prevStackDepth
                /\ LocalsWith(cs, dest, v)[i].resultStorage = cs[i].resultStorage
<1> DEFINE n == Len(cs)
           l == [cs[n].locals EXCEPT ![dest] = v]
<1>1. CASE dest \notin Local \/ cs = <<>>
  BY <1>1 DEF LocalsWith
<1>2. CASE dest \in Local /\ cs # <<>>
  <2>1. n \in 1..Len(cs) /\ cs[n] \in Frame
    BY <1>2
  <2>2. l \in Locals
    <3>1. cs[n].locals \in Seq(Word) /\ Len(cs[n].locals) \in 0..15
      BY <2>1, FrameFields
    <3>2. l \in Seq(Word) /\ Len(l) = Len(cs[n].locals)
      BY <1>2, <3>1, ExceptType DEF Local
    <3> QED BY <3>1, <3>2, LocalsMember
  <2>3. [cs[n] EXCEPT !.locals = l] \in Frame
    BY <2>1, <2>2 DEF Frame
  <2>4. LocalsWith(cs, dest, v) = [cs EXCEPT ![n] = [cs[n] EXCEPT !.locals = l]]
    BY <1>2, <2>1 DEF LocalsWith
  <2> DEFINE f == [cs[n] EXCEPT !.locals = l]
             r == [cs EXCEPT ![n] = f]
  <2>5. /\ f.prevStackDepth = cs[n].prevStackDepth
        /\ f.resultStorage = cs[n].resultStorage
    BY <2>1 DEF Frame
  <2>6. r \in Seq(Frame) /\ Len(r) = Len(cs)
    BY <2>1, <2>3
  <2>7. \A i \in 1..Len(cs) : r[i] = IF i = n THEN f ELSE cs[i]
    BY <2>1
  <2> QED BY <2>4, <2>5, <2>6, <2>7
<1> QED BY <1>1, <1>2

LEMMA StoreResultType ==
    ASSUME NEW dest \in {None} \cup Variable, NEW v \in Word,
           NEW s \in Seq(Word), NEW cs \in Seq(Frame), NEW g \in [Global -> Word],
           StoreResult(dest, v, s, cs, g)
    PROVE  /\ stack' \in Seq(Word)
           /\ callStack' \in Seq(Frame)
           /\ globals' \in [Global -> Word]
BY StackWithType, LocalsWithType, GlobalsWithType DEF StoreResult

-----------------------------------------------------------------------------
(* Type correctness. *)

LEMMA InScopeType ==
    ASSUME callStack \in Seq(Frame)
    PROVE  InScope \subseteq Variable
<1>1. CASE callStack = <<>>
  BY <1>1 DEF InScope, NumLocals, Variable
<1>2. CASE callStack # <<>>
  <2>1. Top(callStack) \in Frame
    BY <1>2, TopType
  <2>2. NumLocals \in 0..15
    BY <1>2, <2>1, FrameFields DEF NumLocals
  <2> QED BY <2>2 DEF InScope, Variable, Local
<1> QED BY <1>1, <1>2

LEMMA NewLocalsType ==
    ASSUME NEW r \in Routine, NEW args \in Args
    PROVE  NewLocals(r, args) \in Locals /\ Len(args) \in 0..7
<1> DEFINE n == Len(Defaults[r])
<1>1. n \in 0..15 /\ Defaults[r] \in Seq(Word)
  <2>1. Defaults[r] \in Locals
    BY CodeAssumption
  <2> QED BY Zenon, <2>1, LocalsMember
<1>2. PICK m \in 0..MaxArgs : args \in [1..m -> Data]
  BY DEF Args
<1>3. m \in Nat /\ Len(args) = m /\ m <= 7
  BY <1>2, BoundAssumption
<1>4. \A i \in 1..n : (IF i <= Len(args) THEN args[i] ELSE Defaults[r][i]) \in Word
  <2>1. ASSUME NEW i \in 1..n, i <= Len(args) PROVE args[i] \in Word
    BY <1>2, <1>3, <2>1, BoundAssumption
  <2>2. \A i \in 1..n : Defaults[r][i] \in Word
    BY <1>1
  <2> QED BY <2>1, <2>2
<1>5. NewLocals(r, args) \in [1..n -> Word]
  BY <1>4 DEF NewLocals
<1>6. NewLocals(r, args) \in Seq(Word) /\ Len(NewLocals(r, args)) = n
  <2>1. \A t, k : k \in Nat /\ t \in [1..k -> Word] => t \in Seq(Word) /\ Len(t) = k
    OBVIOUS
  <2> QED BY <1>1, <1>5, <2>1
<1>7. NewLocals(r, args) \in Locals
  BY <1>1, <1>6, LocalsMember
<1> QED BY <1>3, <1>7

LEMMA EnterType ==
    ASSUME NEW r \in Routine \cup {NoRoutine}, NEW args \in Args,
           NEW dest \in {None} \cup Variable, NEW returnPC \in Addr,
           NEW s \in Seq(Word), callStack \in Seq(Frame),
           globals \in [Global -> Word],
           EnterFunctionImpl(r, args, dest, returnPC, s)
    PROVE  /\ stack' \in Seq(Word)
           /\ callStack' \in Seq(Frame)
           /\ globals' \in [Global -> Word]
           /\ pc' \in Addr
<1>1. CASE r = NoRoutine
  BY <1>1, SmallWords, StoreResultType, CodeAssumption DEF EnterFunctionImpl, NoRoutine
<1>2. CASE r \in Routine
  <2> DEFINE f == [returnPC |-> returnPC, prevStackDepth |-> Len(s),
                   locals |-> NewLocals(r, args), argCount |-> Len(args),
                   resultStorage |-> dest]
  <2>1. f \in Frame
    BY <1>2, NewLocalsType DEF Frame
  <2>2. /\ stack' = s /\ globals' = globals /\ pc' = Entry[r]
        /\ callStack' = Append(callStack, f)
    BY <1>2, CodeAssumption DEF EnterFunctionImpl, NewFrame, NoRoutine
  <2> QED BY <1>2, <2>1, <2>2, CodeAssumption
<1> QED BY <1>1, <1>2

Faults == {"none", "routine used too much stack", "empty stack"}

LEMMA LeaveType ==
    ASSUME NEW v \in Word, NEW s \in Seq(Word), NEW cs \in Seq(Frame), cs # <<>>,
           globals \in [Global -> Word], pc \in Addr, fault \in Faults,
           LeaveFunctionImpl(v, s, cs)
    PROVE  /\ stack' \in Seq(Word)
           /\ callStack' \in Seq(Frame)
           /\ globals' \in [Global -> Word]
           /\ pc' \in Addr
           /\ fault' \in Faults
<1> DEFINE frame == Top(cs)
<1>1. frame \in Frame /\ Pop(cs, 1) \in Seq(Frame)
  BY TopType, PopType
<1>2. CASE ~TookTooMuch(s, frame)
  <2>1. SubSeq(s, 1, frame.prevStackDepth) \in Seq(Word)
    <3>1. frame.prevStackDepth \in Nat /\ Len(s) \in Nat
      BY <1>1, FrameFields
    <3>2. frame.prevStackDepth <= Len(s)
      BY <1>2, <3>1 DEF TookTooMuch
    <3> QED BY <3>1, <3>2
  <2>2. frame.resultStorage \in {None} \cup Variable /\ frame.returnPC \in Addr
    BY <1>1 DEF Frame
  <2>3. /\ StoreResult(frame.resultStorage, v, SubSeq(s, 1, frame.prevStackDepth),
                       Pop(cs, 1), globals)
        /\ pc' = frame.returnPC /\ fault' = fault
    BY <1>2 DEF LeaveFunctionImpl, Trimmed
  <2> QED BY <1>1, <2>1, <2>2, <2>3, StoreResultType
<1>3. CASE TookTooMuch(s, frame)
  BY <1>1, <1>3 DEF LeaveFunctionImpl, Faults
<1> QED BY <1>2, <1>3

LEMMA BaseType ==
    ASSUME callStack \in Seq(Frame)
    PROVE  Base \in Nat
BY TopType, FrameFields DEF Base

LEMMA CanPopType ==
    ASSUME stack \in Seq(Word), callStack \in Seq(Frame), NEW k \in Nat, CanPop(k)
    PROVE  k \in 0..Len(stack) /\ Pop(stack, k) \in Seq(Word)
<1>1. Len(stack) \in Nat /\ Base \in Nat
  BY BaseType
<1>2. Len(stack) - k >= 0
  BY <1>1 DEF CanPop
<1>3. k \in 0..Len(stack)
  BY <1>1, <1>2
<1> QED BY <1>3, PopType

LEMMA LoadType ==
    ASSUME TypeOK, NEW num \in InScope, num = 0 => stack # <<>>
    PROVE  LoadVariableImpl(num) \in Word
<1> stack \in Seq(Word) /\ callStack \in Seq(Frame) /\ globals \in [Global -> Word]
  BY DEF TypeOK
<1>1. CASE num = 0
  BY <1>1, TopType DEF LoadVariableImpl
<1>2. CASE num \in 1..NumLocals
  <2>1. callStack # <<>> /\ num \in 1..Len(Top(callStack).locals) /\ num # 0
    BY <1>2 DEF NumLocals
  <2>2. Top(callStack) \in Frame
    BY <2>1, TopType
  <2>3. num \in Local
    <3>1. Len(Top(callStack).locals) \in 0..15
      BY <2>2, FrameFields
    <3>2. \A n \in 0..15 : 1..n \subseteq 1..15
      OBVIOUS
    <3> QED BY Zenon, <2>1, <3>1, <3>2 DEF Local
  <2> QED BY <2>1, <2>2, <2>3, FrameFields DEF LoadVariableImpl
<1>3. CASE num \in Global
  <2>1. num \notin Local /\ num # 0
    BY SMTT(30), <1>3, MemoryAssumption DEF Local
  <2> QED BY <1>3, <2>1 DEF LoadVariableImpl
<1> QED BY <1>1, <1>2, <1>3 DEF InScope

LEMMA InitType == Init => TypeOK
<1> SUFFICES ASSUME Init PROVE TypeOK
  OBVIOUS
<1>1. /\ stack \in Seq(Word) /\ callStack \in Seq(Frame)
      /\ readers \in Seq(Reader) /\ undoStates \in Seq(Snapshot)
  BY DEF Init
<1> QED BY <1>1, MemoryAssumption, CodeAssumption DEF Init, TypeOK

(* A step that only touches the values, the frames, the globals and pc. *)
LEMMA ValueStepType ==
    ASSUME TypeOK,
           stack' \in Seq(Word), callStack' \in Seq(Frame),
           globals' \in [Global -> Word], pc' \in Addr,
           running' = running, readers' = readers, awaiting' = awaiting,
           undoStates' = undoStates, saveFile' = saveFile, fault' \in Faults
    PROVE  TypeOK'
BY DEF TypeOK, Faults

LEMMA ComputeType ==
    ASSUME TypeOK, NEW k \in 0..2, NEW dest \in InScope \cup {None},
           NEW v \in Data, NEW next \in Addr, Compute(k, dest, v, next)
    PROVE  TypeOK'
<1>1. stack \in Seq(Word) /\ callStack \in Seq(Frame) /\ globals \in [Global -> Word]
  BY DEF TypeOK
<1>2. v \in Word /\ dest \in {None} \cup Variable
  BY <1>1, InScopeType, BoundAssumption
<1>3. Pop(stack, k) \in Seq(Word)
  BY <1>1, CanPopType DEF Compute
<1>4. /\ stack' \in Seq(Word) /\ callStack' \in Seq(Frame)
      /\ globals' \in [Global -> Word]
  BY <1>1, <1>2, <1>3, StoreResultType DEF Compute
<1> QED BY <1>4, ValueStepType DEF Compute, TypeOK, Faults

LEMMA StoreVariableType ==
    ASSUME NEW s \in Seq(Word), callStack \in Seq(Frame), globals \in [Global -> Word],
           NEW dest \in Variable, dest = 0 => Len(s) >= 1,
           NEW v \in Word, StoreVariableImpl(dest, v, s)
    PROVE  /\ stack' \in Seq(Word)
           /\ callStack' \in Seq(Frame)
           /\ globals' \in [Global -> Word]
<1> DEFINE t == IF dest = 0 THEN Pop(s, 1) ELSE s
<1>1. t \in Seq(Word)
  BY PopType
<1> QED BY <1>1, StoreResultType DEF StoreVariableImpl

LEMMA AssignType ==
    ASSUME TypeOK, NEW k \in 0..1, NEW dest \in InScope,
           NEW v \in Data, NEW next \in Addr, Assign(k, dest, v, next)
    PROVE  TypeOK'
<1>1. stack \in Seq(Word) /\ callStack \in Seq(Frame) /\ globals \in [Global -> Word]
  BY DEF TypeOK
<1>2. v \in Word /\ dest \in Variable
  BY <1>1, InScopeType, BoundAssumption
<1> DEFINE n == IF dest = 0 THEN k + 1 ELSE k
<1>3. n \in 0..Len(stack)
  BY <1>1, CanPopType DEF Assign
<1>4. k \in 0..Len(stack) /\ (dest = 0 => Len(stack) - k >= 1)
  BY <1>1, <1>3
<1>5. /\ Pop(stack, k) \in Seq(Word)
      /\ Len(Pop(stack, k)) = Len(stack) - k
  BY <1>1, <1>4, PopType
<1>6. k = 1 => stack # <<>>
  BY <1>1, <1>4
<1>7. (IF k = 1 THEN Top(stack) ELSE v) \in Word
  BY <1>1, <1>2, <1>6, TopType
<1>8. /\ stack' \in Seq(Word) /\ callStack' \in Seq(Frame)
      /\ globals' \in [Global -> Word]
  BY <1>1, <1>2, <1>4, <1>5, <1>7, StoreVariableType DEF Assign
<1> QED BY <1>8, ValueStepType DEF Assign, TypeOK, Faults

LEMMA IncrementType ==
    ASSUME TypeOK, NEW dest \in InScope, NEW amount \in {-1, 1},
           NEW next \in Addr, Increment(dest, amount, next)
    PROVE  TypeOK'
<1>1. stack \in Seq(Word) /\ callStack \in Seq(Frame) /\ globals \in [Global -> Word]
  BY DEF TypeOK
<1>2. dest \in Variable
  BY <1>1, InScopeType
<1>3. dest = 0 => Len(stack) >= 1 /\ stack # <<>>
  BY <1>1, CanPopType DEF Increment
<1>4. (LoadVariableImpl(dest) + amount) % WordSize \in Word
  <2>1. LoadVariableImpl(dest) \in Word
    BY <1>3, LoadType
  <2>2. LoadVariableImpl(dest) + amount \in Int
    BY <2>1, WordAssumption DEF Word
  <2> QED BY <2>2, ModIsWord
<1>5. /\ stack' \in Seq(Word) /\ callStack' \in Seq(Frame)
      /\ globals' \in [Global -> Word]
  BY <1>1, <1>2, <1>3, <1>4, StoreVariableType DEF Increment
<1> QED BY <1>5, ValueStepType DEF Increment, TypeOK, Faults

LEMMA CallType ==
    ASSUME TypeOK, NEW k \in 0..2, NEW r \in Routine \cup {NoRoutine},
           NEW args \in Args, NEW dest \in InScope \cup {None},
           NEW next \in Addr, Call(k, r, args, dest, next)
    PROVE  TypeOK'
<1>1. stack \in Seq(Word) /\ callStack \in Seq(Frame) /\ globals \in [Global -> Word]
  BY DEF TypeOK
<1>2. dest \in {None} \cup Variable
  BY <1>1, InScopeType
<1>3. Pop(stack, k) \in Seq(Word)
  BY <1>1, CanPopType DEF Call
<1>4. /\ stack' \in Seq(Word) /\ callStack' \in Seq(Frame)
      /\ globals' \in [Global -> Word] /\ pc' \in Addr
  BY <1>1, <1>2, <1>3, EnterType DEF Call
<1> QED BY <1>4, ValueStepType DEF Call, TypeOK, Faults

LEMMA ReturnType ==
    ASSUME TypeOK, NEW k \in 0..1, NEW v \in Data, Return(k, v)
    PROVE  TypeOK'
<1>1. /\ stack \in Seq(Word) /\ callStack \in Seq(Frame)
      /\ globals \in [Global -> Word] /\ pc \in Addr /\ fault \in Faults
  BY DEF TypeOK, Faults
<1>2. Pop(stack, k) \in Seq(Word) /\ v \in Word
  BY <1>1, CanPopType, BoundAssumption DEF Return
<1>3. /\ stack' \in Seq(Word) /\ callStack' \in Seq(Frame)
      /\ globals' \in [Global -> Word] /\ pc' \in Addr /\ fault' \in Faults
  BY <1>1, <1>2, LeaveType DEF Return
<1> QED BY <1>3, ValueStepType DEF Return

LEMMA ThrowType ==
    ASSUME TypeOK, NEW v \in Data, NEW frame \in 1..Len(callStack),
           ThrowImpl(v, frame)
    PROVE  TypeOK'
<1>1. /\ stack \in Seq(Word) /\ callStack \in Seq(Frame)
      /\ globals \in [Global -> Word] /\ pc \in Addr /\ fault \in Faults
  BY DEF TypeOK, Faults
<1> DEFINE cs == SubSeq(callStack, 1, frame)
<1>2. cs \in Seq(Frame) /\ cs # <<>> /\ v \in Word
  BY <1>1, BoundAssumption
<1>3. /\ stack' \in Seq(Word) /\ callStack' \in Seq(Frame)
      /\ globals' \in [Global -> Word] /\ pc' \in Addr /\ fault' \in Faults
  BY <1>1, <1>2, LeaveType DEF ThrowImpl
<1> QED BY <1>3, ValueStepType DEF ThrowImpl

LEMMA CatchType ==
    ASSUME TypeOK, NEW dest \in InScope, NEW next \in Addr, Catch(dest, next)
    PROVE  TypeOK'
<1>1. stack \in Seq(Word) /\ callStack \in Seq(Frame) /\ globals \in [Global -> Word]
  BY DEF TypeOK
<1>2. Len(callStack) % WordSize \in Word /\ dest \in {None} \cup Variable
  BY <1>1, ModIsWord, InScopeType
<1>3. /\ stack' \in Seq(Word) /\ callStack' \in Seq(Frame)
      /\ globals' \in [Global -> Word]
  BY <1>1, <1>2, StoreResultType DEF Catch
<1> QED BY <1>3, ValueStepType DEF Catch, TypeOK, Faults

LEMMA CurrentStateType ==
    ASSUME TypeOK, NEW dest \in Variable, NEW next \in Addr
    PROVE  CurrentState(dest, next) \in Snapshot
BY DEF TypeOK, CurrentState, Snapshot

LEMMA ResumeType ==
    ASSUME NEW s \in Snapshot, ResumeFrom(s)
    PROVE  /\ stack' \in Seq(Word) /\ callStack' \in Seq(Frame)
           /\ globals' \in [Global -> Word] /\ pc' \in Addr
<1>1. /\ s.stack \in Seq(Word) /\ s.callStack \in Seq(Frame)
      /\ s.globals \in [Global -> Word] /\ s.pc \in Addr /\ s.dest \in Variable
  BY DEF Snapshot
<1> QED BY <1>1, SmallWords, StoreResultType DEF ResumeFrom

LEMMA SaveUndoType ==
    ASSUME TypeOK, NEW dest \in InScope, NEW next \in Addr, SaveUndo(dest, next)
    PROVE  TypeOK'
<1>1. /\ stack \in Seq(Word) /\ callStack \in Seq(Frame)
      /\ globals \in [Global -> Word] /\ undoStates \in Seq(Snapshot)
  BY DEF TypeOK
<1>2. dest \in Variable /\ {0, 1, 2} \subseteq Word
  BY <1>1, InScopeType, SmallWords
<1>3. /\ stack' \in Seq(Word) /\ callStack' \in Seq(Frame)
      /\ globals' \in [Global -> Word]
  BY <1>1, <1>2, StoreResultType DEF SaveUndo
<1>4. undoStates' \in Seq(Snapshot)
  <2> DEFINE kept == KeptUndoStates
  <2>1. CASE MaxUndoDepth = 0
    BY <1>1, <2>1 DEF SaveUndo
  <2>2. CASE MaxUndoDepth # 0
    <3>1. undoStates' = Append(kept, CurrentState(dest, next))
      BY <2>2 DEF SaveUndo
    <3>2. kept \in Seq(Snapshot)
      <4>1. Len(undoStates) >= MaxUndoDepth => undoStates # <<>>
        BY <2>2, BoundAssumption
      <4> QED BY <1>1, <4>1 DEF KeptUndoStates
    <3>3. CurrentState(dest, next) \in Snapshot
      BY <1>2, CurrentStateType
    <3> QED BY <3>1, <3>2, <3>3
  <2> QED BY <2>1, <2>2
<1> QED BY <1>3, <1>4 DEF SaveUndo, TypeOK

LEMMA RestoreUndoType ==
    ASSUME TypeOK, NEW dest \in InScope, NEW next \in Addr, RestoreUndo(dest, next)
    PROVE  TypeOK'
<1>1. /\ stack \in Seq(Word) /\ callStack \in Seq(Frame)
      /\ globals \in [Global -> Word] /\ undoStates \in Seq(Snapshot)
  BY DEF TypeOK
<1>2. dest \in Variable /\ {0, 1, 2} \subseteq Word
  BY <1>1, InScopeType, SmallWords
<1>3. CASE undoStates = <<>>
  <2>1. /\ stack' \in Seq(Word) /\ callStack' \in Seq(Frame)
        /\ globals' \in [Global -> Word]
    BY <1>1, <1>2, <1>3, StoreResultType DEF RestoreUndo
  <2> QED BY <1>3, <2>1, ValueStepType DEF RestoreUndo, TypeOK, Faults
<1>4. CASE undoStates # <<>>
  <2>1. Top(undoStates) \in Snapshot /\ 1 \in 0..Len(undoStates)
    BY <1>1, <1>4, TopType
  <2>2. ResumeFrom(Top(undoStates)) /\ undoStates' = Pop(undoStates, 1)
    BY <1>4 DEF RestoreUndo
  <2>3. undoStates' \in Seq(Snapshot)
    BY <1>1, <2>1, <2>2, PopType
  <2> QED BY <2>1, <2>2, <2>3, ResumeType DEF RestoreUndo, TypeOK
<1> QED BY <1>3, <1>4

LEMMA SaveType ==
    ASSUME TypeOK, NEW dest \in InScope, NEW next \in Addr, Save(dest, next)
    PROVE  TypeOK'
<1>1. /\ stack \in Seq(Word) /\ callStack \in Seq(Frame)
      /\ globals \in [Global -> Word]
      /\ saveFile \in Snapshot \cup {NoFile, BadFile}
  BY DEF TypeOK
<1>2. dest \in Variable /\ {0, 1, 2} \subseteq Word
  BY <1>1, InScopeType, SmallWords
<1>3. /\ stack' \in Seq(Word) /\ callStack' \in Seq(Frame)
      /\ globals' \in [Global -> Word]
  BY <1>1, <1>2, StoreResultType DEF Save
<1>4. saveFile' \in Snapshot \cup {NoFile, BadFile}
  BY <1>1, <1>2, CurrentStateType DEF Save
<1> QED BY <1>3, <1>4 DEF Save, TypeOK

LEMMA RestoreType ==
    ASSUME TypeOK, NEW dest \in InScope, NEW next \in Addr, Restore(dest, next)
    PROVE  TypeOK'
<1>1. /\ stack \in Seq(Word) /\ callStack \in Seq(Frame)
      /\ globals \in [Global -> Word]
      /\ saveFile \in Snapshot \cup {NoFile, BadFile}
  BY DEF TypeOK
<1>2. dest \in Variable /\ {0, 1, 2} \subseteq Word
  BY <1>1, InScopeType, SmallWords
<1>3. CASE StoreResult(dest, 0, stack, callStack, globals) /\ pc' = next
  <2>1. /\ stack' \in Seq(Word) /\ callStack' \in Seq(Frame)
        /\ globals' \in [Global -> Word]
    BY <1>1, <1>2, <1>3, StoreResultType
  <2> QED BY <1>3, <2>1, ValueStepType DEF Restore, TypeOK, Faults
<1>4. CASE ~(StoreResult(dest, 0, stack, callStack, globals) /\ pc' = next)
  <2>1. saveFile \in Snapshot
    BY <1>1, <1>4 DEF Restore
  <2>2. /\ saveFile.stack \in Seq(Word) /\ saveFile.callStack \in Seq(Frame)
        /\ saveFile.globals \in [Global -> Word] /\ saveFile.pc \in Addr
        /\ saveFile.dest \in Variable
    BY <2>1 DEF Snapshot
  <2>3. /\ stack' = StackWith(saveFile.stack, saveFile.dest, 2)
        /\ callStack' = LocalsWith(saveFile.callStack, saveFile.dest, 2)
        /\ globals' = GlobalsWith(GlobalsWith(saveFile.globals, saveFile.dest, 2),
                                   dest, 1)
        /\ pc' = saveFile.pc
    BY <1>4 DEF Restore
  <2>4. stack' \in Seq(Word) /\ callStack' \in Seq(Frame)
    BY <1>2, <2>2, <2>3, StackWithType, LocalsWithType
  <2>5. globals' \in [Global -> Word]
    <3>1. GlobalsWith(saveFile.globals, saveFile.dest, 2) \in [Global -> Word]
      BY <1>2, <2>2, GlobalsWithType
    <3> QED BY <1>2, <2>3, <3>1, GlobalsWithType
  <2> QED BY <2>2, <2>3, <2>4, <2>5, ValueStepType DEF Restore, TypeOK, Faults
<1> QED BY <1>3, <1>4

LEMMA ReadType ==
    ASSUME TypeOK, NEW dest \in InScope \cup {None}, NEW next \in Addr,
           NEW end \in Addr, Read(dest, next, end)
    PROVE  TypeOK'
<1>1. callStack \in Seq(Frame) /\ readers \in Seq(Reader)
  BY DEF TypeOK
<1>2. [nextPC |-> next, dest |-> dest, depth |-> 0] \in Reader
  BY <1>1, InScopeType DEF Reader
<1>3. readers' \in Seq(Reader)
  BY <1>1, <1>2 DEF Read
<1> QED BY <1>3 DEF Read, TypeOK

LEMMA TimerFiresType ==
    ASSUME TypeOK, readers # <<>>, NEW r \in Routine, TimerFires(r)
    PROVE  TypeOK'
<1>1. /\ stack \in Seq(Word) /\ callStack \in Seq(Frame)
      /\ globals \in [Global -> Word] /\ pc \in Addr
      /\ readers \in Seq(Reader)
  BY DEF TypeOK
<1>2. <<>> \in Args
  <2>1. <<>> \in [1..0 -> Data] /\ 0 \in 0..MaxArgs
    BY BoundAssumption
  <2> QED BY <2>1 DEF Args
<1>3. /\ stack' \in Seq(Word) /\ callStack' \in Seq(Frame)
      /\ globals' \in [Global -> Word] /\ pc' \in Addr
  BY <1>1, <1>2, EnterType DEF TimerFires, TimerResult, Variable
<1>4. readers' \in Seq(Reader)
  <2> DEFINE n == Len(readers)
             d == Len(callStack) + 1
             f == [readers[n] EXCEPT !.depth = d]
  <2>1. n \in 1..Len(readers) /\ readers[n] \in Reader
    BY <1>1
  <2>2. d \in Nat
    BY <1>1
  <2> HIDE DEF d
  <2>3. f \in Reader
    BY <2>1, <2>2 DEF Reader
  <2>4. readers' = [readers EXCEPT ![n] = f]
    BY DEF TimerFires, d
  <2> QED BY <1>1, <2>1, <2>3, <2>4
<1> QED BY <1>3, <1>4 DEF TimerFires, TypeOK

LEMMA TimerRoutineDoneType ==
    ASSUME TypeOK, TimerRoutineDone
    PROVE  TypeOK'
<1>1. stack \in Seq(Word)
  BY DEF TypeOK
<1>2. stack # <<>> => 1 \in 0..Len(stack)
  BY <1>1
<1>3. stack' \in Seq(Word)
  BY <1>1, <1>2, PopType DEF TimerRoutineDone
<1> QED BY <1>3 DEF TimerRoutineDone, TypeOK

LEMMA ReadDoneType ==
    ASSUME TypeOK, readers # <<>>, NEW v \in Data, ReadDone(v)
    PROVE  TypeOK'
<1>1. /\ stack \in Seq(Word) /\ callStack \in Seq(Frame)
      /\ globals \in [Global -> Word] /\ readers \in Seq(Reader)
  BY DEF TypeOK
<1>2. Top(readers) \in Reader /\ 1 \in 0..Len(readers) /\ v \in Word
  BY <1>1, TopType, BoundAssumption
<1>3. Top(readers).dest \in {None} \cup Variable /\ Top(readers).nextPC \in Addr
  BY <1>2 DEF Reader
<1>4. /\ stack' \in Seq(Word) /\ callStack' \in Seq(Frame)
      /\ globals' \in [Global -> Word]
  BY <1>1, <1>2, <1>3, StoreResultType DEF ReadDone
<1>5. readers' \in Seq(Reader)
  BY <1>1, <1>2, PopType DEF ReadDone
<1> QED BY <1>3, <1>4, <1>5 DEF ReadDone, TypeOK

(* Someone waits only in an input instruction. *)
TypeInv == TypeOK /\ (awaiting => readers # <<>>)

LEMMA InitInv == Init => TypeInv
BY InitType DEF Init, TypeInv

LEMMA StepInv == TypeInv /\ [Next]_vars => TypeInv'
<1> SUFFICES ASSUME TypeInv, [Next]_vars PROVE TypeInv'
  OBVIOUS
<1>t. TypeOK /\ (awaiting => readers # <<>>)
  BY DEF TypeInv
<1>r. readers \in Seq(Reader)
  BY <1>t DEF TypeOK
<1>1. ASSUME NEW k \in 0..2, NEW dest \in InScope \cup {None}, NEW v \in Data,
             NEW next \in Addr, Compute(k, dest, v, next)
      PROVE  TypeInv'
  BY <1>t, <1>1, ComputeType DEF Compute, TypeInv
<1>2. ASSUME NEW k \in 0..1, NEW dest \in InScope, NEW v \in Data,
             NEW next \in Addr, Assign(k, dest, v, next)
      PROVE  TypeInv'
  BY <1>t, <1>2, AssignType DEF Assign, TypeInv
<1>3. ASSUME NEW dest \in InScope, NEW amount \in {-1, 1}, NEW next \in Addr,
             Increment(dest, amount, next)
      PROVE  TypeInv'
  BY <1>t, <1>3, IncrementType DEF Increment, TypeInv
<1>4. ASSUME NEW k \in 0..2, NEW r \in Routine \cup {NoRoutine}, NEW args \in Args,
             NEW dest \in InScope \cup {None}, NEW next \in Addr,
             Call(k, r, args, dest, next)
      PROVE  TypeInv'
  BY <1>t, <1>4, CallType DEF Call, TypeInv
<1>5. ASSUME NEW k \in 0..1, NEW v \in Data, Return(k, v)
      PROVE  TypeInv'
  BY <1>t, <1>5, ReturnType DEF Return, TypeInv
<1>6. ASSUME NEW dest \in InScope, NEW next \in Addr, Catch(dest, next)
      PROVE  TypeInv'
  BY <1>t, <1>6, CatchType DEF Catch, TypeInv
<1>7. ASSUME NEW v \in Data, NEW frame \in 1..Len(callStack), ThrowImpl(v, frame)
      PROVE  TypeInv'
  BY <1>t, <1>7, ThrowType DEF ThrowImpl, TypeInv
<1>8. CASE Collapse
  <2>1. callStack \in Seq(Frame)
    BY <1>t DEF TypeOK
  <2>2. callStack' = callStack \/ callStack' = <<>>
    BY <1>8 DEF Collapse
  <2>e. <<>> \in Seq(Frame)
    OBVIOUS
  <2>3. callStack' \in Seq(Frame)
    BY <2>1, <2>2, <2>e, Zenon
  <2> QED BY <1>t, <1>8, <2>3 DEF Collapse, TypeInv, TypeOK
<1>9. ASSUME NEW dest \in InScope, NEW next \in Addr, SaveUndo(dest, next)
      PROVE  TypeInv'
  BY <1>t, <1>9, SaveUndoType DEF SaveUndo, TypeInv
<1>10. ASSUME NEW dest \in InScope, NEW next \in Addr, RestoreUndo(dest, next)
       PROVE  TypeInv'
  BY <1>t, <1>10, RestoreUndoType DEF RestoreUndo, TypeInv
<1>11. ASSUME NEW dest \in InScope, NEW next \in Addr, Save(dest, next)
       PROVE  TypeInv'
  BY <1>t, <1>11, SaveType DEF Save, TypeInv
<1>12. ASSUME NEW dest \in InScope, NEW next \in Addr, Restore(dest, next)
       PROVE  TypeInv'
  BY <1>t, <1>12, RestoreType DEF Restore, TypeInv
<1>13. CASE Restart
  <2>1. /\ stack' \in Seq(Word) /\ callStack' \in Seq(Frame)
        /\ undoStates' \in Seq(Snapshot)
    BY <1>13 DEF Restart
  <2> QED BY <1>t, <1>13, <2>1, MemoryAssumption, CodeAssumption
          DEF Restart, TypeInv, TypeOK
<1>14. CASE Quit
  BY <1>t, <1>14 DEF Quit, TypeInv, TypeOK
<1>15. ASSUME NEW dest \in InScope \cup {None}, NEW next \in Addr, NEW end \in Addr,
              Read(dest, next, end)
       PROVE  TypeInv'
  <2>1. readers' # <<>>
    BY <1>r, <1>15 DEF Read
  <2> QED BY <1>t, <1>15, <2>1, ReadType DEF TypeInv
<1>16. ASSUME NEW r \in Routine, TimerFires(r)
       PROVE  TypeInv'
  BY <1>t, <1>16, TimerFiresType DEF TimerFires, TypeInv
<1>17. CASE TimerRoutineDone
  BY <1>t, <1>17, TimerRoutineDoneType DEF TimerRoutineDone, Interrupted, TypeInv
<1>18. ASSUME NEW v \in Data, ReadDone(v)
       PROVE  TypeInv'
  BY <1>t, <1>18, ReadDoneType DEF ReadDone, TypeInv
<1>19. CASE UNCHANGED vars
  BY <1>t, <1>19 DEF vars, TypeInv, TypeOK
<1> QED
  BY <1>1, <1>2, <1>3, <1>4, <1>5, <1>6, <1>7, <1>8, <1>9, <1>10, <1>11, <1>12,
     <1>13, <1>14, <1>15, <1>16, <1>17, <1>18, <1>19 DEF Next

(* Whatever the program does, the interpreter's variables keep their types: *)
(* no operation of ZMachine.cs leaves a value of the wrong shape behind.    *)
THEOREM TypeCorrect == Spec => []TypeOK
<1>1. TypeInv => TypeOK
  BY DEF TypeInv
<1> QED BY <1>1, InitInv, StepInv, PTL DEF Spec

-----------------------------------------------------------------------------
(* Programs that keep to the Standard. *)

Lawful == ~Has("illegal") /\ ~Has("timed quit")

SavedDiscipline ==
    /\ \A i \in 1..Len(undoStates) :
           Disciplined(undoStates[i].stack, undoStates[i].callStack)
    /\ saveFile.kind = "state" => Disciplined(saveFile.stack, saveFile.callStack)

IsTimerFrame(d) == d \in 1..Len(callStack) /\ callStack[d].resultStorage = 0

(* The input instructions under way: each but the last was executed by the  *)
(* timer routine of the one before, whose frame is on the call stack; so is *)
(* the frame of the last one's timer routine while it runs, and once it is  *)
(* done its result is on the stack.                                         *)
ReaderShape ==
    /\ ~running => readers = <<>>
    /\ \A i \in 1..(Len(readers) - 1) : IsTimerFrame(readers[i].depth)
    /\ \A i, j \in 1..Len(readers) :
           i < j /\ readers[j].depth > 0 => readers[i].depth < readers[j].depth
    /\ Interrupted /\ ~awaiting =>
           LET d == Top(readers).depth
           IN  \/ IsTimerFrame(d)
               \/ d = Len(callStack) + 1 /\ Len(stack) > Base

SafeInv == /\ TypeInv
           /\ NoFault
           /\ Disciplined(stack, callStack)
           /\ SavedDiscipline
           /\ ReaderShape

LEMMA SafeImplies == SafeInv => StackDiscipline /\ NoFault /\ ResultAwaitsPop
<1> SUFFICES ASSUME SafeInv PROVE StackDiscipline /\ NoFault /\ ResultAwaitsPop
  OBVIOUS
<1>1. StackDiscipline /\ NoFault
  BY DEF SafeInv, StackDiscipline, SavedDiscipline
<1>2. /\ readers \in Seq(Reader) /\ callStack \in Seq(Frame) /\ ReaderShape
  BY DEF SafeInv, TypeInv, TypeOK
<1>3. ASSUME NEW i \in 1..Len(readers), readers[i].depth > 0, i # Len(readers)
      PROVE  /\ readers[i].depth <= Len(callStack)
             /\ callStack[readers[i].depth].resultStorage = 0
  <2>1. i \in 1..(Len(readers) - 1)
    BY <1>2, <1>3
  <2>2. IsTimerFrame(readers[i].depth)
    BY <1>2, <2>1 DEF ReaderShape
  <2> QED BY <1>2, <2>2 DEF IsTimerFrame
<1>4. ASSUME readers # <<>>, ~awaiting, NEW d, d = readers[Len(readers)].depth
      PROVE  \/ d <= Len(callStack) /\ callStack[d].resultStorage = 0
             \/ d = Len(callStack) + 1 /\ Len(stack) > Base
  BY <1>2, <1>4 DEF ReaderShape, IsTimerFrame, Top, Interrupted
<1>5. ResultAwaitsPop
  BY <1>2, <1>3, <1>4 DEF ResultAwaitsPop
<1> QED BY <1>1, <1>5

LEMMA InitSafe == Init => SafeInv
<1> SUFFICES ASSUME Init PROVE SafeInv
  OBVIOUS
<1>1. TypeInv
  BY InitInv
<1>2. ReaderShape
  BY DEF Init, ReaderShape, Interrupted
<1>3. Disciplined(stack, callStack) /\ SavedDiscipline
  BY DEF Init, Disciplined, SavedDiscipline, NoFile
<1> QED BY <1>1, <1>2, <1>3 DEF Init, SafeInv, NoFault

(* While an instruction executes in a timer routine, the routine's frame is *)
(* on the call stack.                                                       *)
LEMMA ExecutingDepth ==
    ASSUME SafeInv, Executing, Interrupted
    PROVE  /\ Len(readers) \in Nat \ {0} /\ Top(readers) = readers[Len(readers)]
           /\ IsTimerFrame(Top(readers).depth)
<1>1. /\ readers \in Seq(Reader) /\ callStack \in Seq(Frame) /\ ReaderShape
  BY DEF SafeInv, TypeInv, TypeOK
<1>2. readers # <<>> /\ ~awaiting /\ Len(callStack) >= Top(readers).depth
  BY DEF Executing, InLoop, Interrupted
<1>3. Top(readers).depth \in Nat /\ Len(callStack) \in Nat
  <2>1. Top(readers) \in Reader
    BY <1>1, <1>2, TopType
  <2> QED BY <1>1, <2>1 DEF Reader
<1>4. IsTimerFrame(Top(readers).depth)
  BY <1>1, <1>2, <1>3 DEF ReaderShape, Interrupted
<1> QED BY <1>1, <1>2, <1>4 DEF Top

(* A step of an executing routine that leaves the frames up to the n-th as  *)
(* they were, n not below the timer routine's, keeps the readers' shape.    *)
LEMMA FramesKept ==
    ASSUME SafeInv, Executing, callStack' \in Seq(Frame),
           NEW n \in 0..Len(callStack), n <= Len(callStack'),
           Interrupted => n >= Top(readers).depth,
           \A i \in 1..n : callStack'[i].resultStorage = callStack[i].resultStorage,
           readers' = readers, awaiting' = awaiting, running' = running
    PROVE  ReaderShape'
<1>1. /\ readers \in Seq(Reader) /\ callStack \in Seq(Frame) /\ ReaderShape
  BY DEF SafeInv, TypeInv, TypeOK
<1>2. CASE ~Interrupted
  BY <1>2 DEF Interrupted, ReaderShape
<1>3. CASE Interrupted
  <2>1. Len(callStack) \in Nat /\ Len(callStack') \in Nat
    BY <1>1
  <2>2. \A d : IsTimerFrame(d) /\ d <= n => IsTimerFrame(d)'
    BY <2>1 DEF IsTimerFrame
  <2>3. IsTimerFrame(Top(readers).depth)'
    BY <1>3, <2>2, ExecutingDepth DEF IsTimerFrame
  <2>4. ASSUME NEW i \in 1..(Len(readers) - 1)
        PROVE  IsTimerFrame(readers[i].depth)'
    <3>1. IsTimerFrame(readers[i].depth)
      BY <1>1, <2>4 DEF ReaderShape
    <3>2. /\ i \in 1..Len(readers) /\ Len(readers) \in 1..Len(readers)
          /\ i < Len(readers)
      BY <1>3, ExecutingDepth
    <3>3. Top(readers).depth > 0
      BY <1>3, ExecutingDepth DEF IsTimerFrame
    <3>4. readers[i].depth < Top(readers).depth
      BY <1>1, <1>3, <3>2, <3>3, ExecutingDepth DEF ReaderShape
    <3>5. readers[i].depth <= n
      BY <1>3, <2>1, <3>1, <3>4, ExecutingDepth DEF IsTimerFrame
    <3> QED BY <2>2, <3>1, <3>5
  <2>5. ~running' => readers' = <<>>
    BY <1>1 DEF ReaderShape
  <2>6. \A i, j \in 1..Len(readers') :
           i < j /\ readers'[j].depth > 0 => readers'[i].depth < readers'[j].depth
    BY <1>1 DEF ReaderShape
  <2>7. \A i \in 1..(Len(readers') - 1) : IsTimerFrame(readers[i].depth)'
    BY <2>4
  <2> QED BY <2>3, <2>5, <2>6, <2>7 DEF ReaderShape
<1> QED BY <1>2, <1>3

(* Storing a result keeps the discipline: the stack only grows. *)
LEMMA StoreDiscipline ==
    ASSUME NEW dest \in {None} \cup Variable, NEW v \in Word,
           NEW s \in Seq(Word), NEW cs \in Seq(Frame), NEW g \in [Global -> Word],
           Disciplined(s, cs), StoreResult(dest, v, s, cs, g)
    PROVE  /\ Disciplined(stack', callStack')
           /\ callStack' \in Seq(Frame)
           /\ Len(callStack') = Len(cs)
           /\ \A i \in 1..Len(cs) : callStack'[i].resultStorage = cs[i].resultStorage
           /\ \A i \in 1..Len(cs) : callStack'[i].prevStackDepth = cs[i].prevStackDepth
           /\ Len(stack') = Len(s) + (IF dest = 0 THEN 1 ELSE 0)
<1>1. /\ stack' = StackWith(s, dest, v) /\ callStack' = LocalsWith(cs, dest, v)
  BY DEF StoreResult
<1>2. Len(stack') \in Nat /\ Len(s) \in Nat /\ Len(stack') >= Len(s)
  <2>1. Len(s) \in Nat
    OBVIOUS
  <2>2. Len(stack') = Len(s) + (IF dest = 0 THEN 1 ELSE 0)
    BY <1>1, StackWithType
  <2> QED BY <2>1, <2>2
<1>3. /\ callStack' \in Seq(Frame)
      /\ Len(callStack') = Len(cs)
      /\ \A i \in 1..Len(cs) :
           /\ callStack'[i].prevStackDepth = cs[i].prevStackDepth
           /\ callStack'[i].resultStorage = cs[i].resultStorage
  BY <1>1, LocalsWithType
<1>4. \A i \in 1..Len(cs) : cs[i].prevStackDepth \in Nat
  BY FrameFields
<1>5. \A i \in 1..Len(callStack') : callStack'[i].prevStackDepth <= Len(stack')
  BY <1>2, <1>3, <1>4 DEF Disciplined
<1>6. \A i, j \in 1..Len(callStack') :
           i < j => callStack'[i].prevStackDepth <= callStack'[j].prevStackDepth
  BY <1>3 DEF Disciplined
<1> QED BY <1>1, <1>3, <1>5, <1>6, StackWithType DEF Disciplined

(* A stack no shorter than Base may replace the stack. *)
LEMMA ShorterStack ==
    ASSUME stack \in Seq(Word), callStack \in Seq(Frame),
           Disciplined(stack, callStack),
           NEW s \in Seq(Word), Len(s) >= Base
    PROVE  Disciplined(s, callStack)
<1> DEFINE n == Len(callStack)
<1>1. Len(s) \in Nat /\ n \in Nat /\ Base \in Nat
  BY BaseType
<1>2. ASSUME NEW i \in 1..n PROVE callStack[i].prevStackDepth <= Len(s)
  <2>1. n \in 1..n /\ callStack # <<>>
    BY <1>1, <1>2
  <2>2. Base = callStack[n].prevStackDepth
    BY <2>1 DEF Base, Top
  <2>3. callStack[i].prevStackDepth \in Nat /\ callStack[i] \in Frame
    BY <1>2, FrameFields
  <2>4. i = n \/ i < n
    BY <1>1, <1>2
  <2>5. callStack[i].prevStackDepth <= Base
    BY <2>1, <2>2, <2>3, <2>4 DEF Disciplined
  <2> QED BY <1>1, <2>3, <2>5
<1> QED BY <1>2 DEF Disciplined

LEMMA LawfulPop ==
    ASSUME Lawful, stack \in Seq(Word), callStack \in Seq(Frame),
           Disciplined(stack, callStack), NEW k \in Nat, CanPop(k)
    PROVE  /\ k \in 0..Len(stack)
           /\ Pop(stack, k) \in Seq(Word)
           /\ Len(Pop(stack, k)) = Len(stack) - k
           /\ Len(Pop(stack, k)) >= Base
           /\ Disciplined(Pop(stack, k), callStack)
<1>1. Len(stack) \in Nat /\ Base \in Nat
  BY BaseType
<1>2. k \in 0..Len(stack) /\ Len(stack) - k >= Base
  BY <1>1, CanPopType DEF CanPop, Lawful
<1>3. Pop(stack, k) \in Seq(Word) /\ Len(Pop(stack, k)) = Len(stack) - k
  BY <1>2, PopType
<1> QED BY <1>2, <1>3, ShorterStack

(* An instruction that only stores a result keeps the invariant. *)
LEMMA StoreStep ==
    ASSUME Lawful, SafeInv, Executing, TypeInv',
           NEW dest \in {None} \cup Variable, NEW v \in Word,
           NEW s \in Seq(Word), Disciplined(s, callStack),
           StoreResult(dest, v, s, callStack, globals),
           readers' = readers, awaiting' = awaiting, running' = running,
           fault' = fault, SavedDiscipline'
    PROVE  SafeInv'
<1>1. callStack \in Seq(Frame) /\ globals \in [Global -> Word] /\ fault = "none"
  BY DEF SafeInv, TypeInv, TypeOK, NoFault
<1>2. /\ Disciplined(stack', callStack') /\ callStack' \in Seq(Frame)
      /\ Len(callStack') = Len(callStack)
      /\ \A i \in 1..Len(callStack) :
            callStack'[i].resultStorage = callStack[i].resultStorage
  BY <1>1, StoreDiscipline
<1>3. Interrupted => Len(callStack) >= Top(readers).depth
  BY DEF Executing, InLoop, Interrupted
<1>4. Len(callStack) \in 0..Len(callStack) /\ Len(callStack) <= Len(callStack')
  BY <1>1, <1>2
<1>5. ReaderShape'
  BY <1>2, <1>3, <1>4, FramesKept
<1> QED BY <1>1, <1>2, <1>5 DEF SafeInv, NoFault

(* Entering a routine: its own part of the stack is empty. *)
LEMMA EnterDiscipline ==
    ASSUME SafeInv, NEW r \in Routine, NEW args \in Args,
           NEW dest \in {None} \cup Variable, NEW returnPC \in Addr,
           NEW s \in Seq(Word), Disciplined(s, callStack),
           EnterFunctionImpl(r, args, dest, returnPC, s)
    PROVE  /\ Disciplined(stack', callStack')
           /\ callStack' \in Seq(Frame)
           /\ Len(callStack') = Len(callStack) + 1
           /\ \A i \in 1..Len(callStack) : callStack'[i] = callStack[i]
           /\ callStack'[Len(callStack) + 1].resultStorage = dest
<1> DEFINE n == Len(callStack)
           f == [returnPC |-> returnPC, prevStackDepth |-> Len(s),
                 locals |-> NewLocals(r, args), argCount |-> Len(args),
                 resultStorage |-> dest]
<1>1. callStack \in Seq(Frame) /\ globals \in [Global -> Word]
  BY DEF SafeInv, TypeInv, TypeOK
<1>2. callStack' = Append(callStack, f) /\ stack' = s
  BY CodeAssumption DEF EnterFunctionImpl, NewFrame, NoRoutine
<1>3. f \in Frame
  BY NewLocalsType DEF Frame
<1>4. /\ callStack' \in Seq(Frame) /\ n \in Nat /\ Len(callStack') = n + 1
      /\ \A i \in 1..n : callStack'[i] = callStack[i]
      /\ callStack'[n + 1] = f
  BY <1>1, <1>2, <1>3
<1>5. f.prevStackDepth = Len(s) /\ f.resultStorage = dest /\ Len(s) \in Nat
  OBVIOUS
<1>6. \A i \in 1..n : callStack[i].prevStackDepth \in Nat
  BY <1>1, FrameFields
<1>7. ASSUME NEW i \in 1..(n + 1)
      PROVE  callStack'[i].prevStackDepth <= Len(s)
  <2>1. CASE i = n + 1
    BY <1>4, <1>5, <2>1
  <2>2. CASE i # n + 1
    <3>1. i \in 1..n
      BY <1>4, <2>2
    <3> QED BY <1>4, <3>1 DEF Disciplined
  <2> QED BY <2>1, <2>2
<1>8. ASSUME NEW i \in 1..(n + 1), NEW j \in 1..(n + 1), i < j
      PROVE  callStack'[i].prevStackDepth <= callStack'[j].prevStackDepth
  <2>1. i \in 1..n
    BY <1>4, <1>8
  <2>2. CASE j = n + 1
    BY <1>4, <1>5, <1>7, <2>2
  <2>3. CASE j # n + 1
    <3>1. j \in 1..n
      BY <1>4, <2>3
    <3> QED BY <1>4, <1>8, <2>1, <3>1 DEF Disciplined
  <2> QED BY <2>2, <2>3
<1> QED BY <1>2, <1>4, <1>5, <1>7, <1>8 DEF Disciplined

(* Cutting both stacks at a frame keeps the discipline. *)
LEMMA CutDiscipline ==
    ASSUME NEW s \in Seq(Word), callStack \in Seq(Frame),
           Disciplined(s, callStack), NEW n \in 1..Len(callStack)
    PROVE  /\ callStack[n].prevStackDepth \in 0..Len(s)
           /\ SubSeq(callStack, 1, n - 1) \in Seq(Frame)
           /\ Len(SubSeq(callStack, 1, n - 1)) = n - 1
           /\ \A i \in 1..(n - 1) : SubSeq(callStack, 1, n - 1)[i] = callStack[i]
           /\ SubSeq(s, 1, callStack[n].prevStackDepth) \in Seq(Word)
           /\ Len(SubSeq(s, 1, callStack[n].prevStackDepth)) = callStack[n].prevStackDepth
           /\ Disciplined(SubSeq(s, 1, callStack[n].prevStackDepth),
                          SubSeq(callStack, 1, n - 1))
<1> DEFINE d == callStack[n].prevStackDepth
           cs == SubSeq(callStack, 1, n - 1)
           t == SubSeq(s, 1, d)
<1>1. Len(callStack) \in Nat /\ Len(s) \in Nat
  OBVIOUS
<1>2. \A i \in 1..Len(callStack) : callStack[i].prevStackDepth \in Nat
  BY FrameFields
<1>3. d \in 0..Len(s)
  BY <1>1, <1>2 DEF Disciplined
<1>4. t \in Seq(Word) /\ Len(t) = d
  BY <1>1, <1>3
<1>5. /\ cs \in Seq(Frame) /\ Len(cs) = n - 1
      /\ \A i \in 1..(n - 1) : cs[i] = callStack[i]
  BY <1>1
<1>6. \A i \in 1..Len(cs) : cs[i].prevStackDepth <= Len(t)
  BY <1>1, <1>4, <1>5 DEF Disciplined
<1>7. \A i, j \in 1..Len(cs) : i < j => cs[i].prevStackDepth <= cs[j].prevStackDepth
  BY <1>1, <1>5 DEF Disciplined
<1> QED BY <1>3, <1>4, <1>5, <1>6, <1>7 DEF Disciplined

(* Leaving the n-th frame of an executing routine's call stack. *)
LEMMA LeaveStep ==
    ASSUME Lawful, SafeInv, Executing, TypeInv', NEW v \in Word,
           NEW s \in Seq(Word), Disciplined(s, callStack),
           NEW n \in 1..Len(callStack), Interrupted => n >= Top(readers).depth,
           LeaveFunctionImpl(v, s, SubSeq(callStack, 1, n)),
           readers' = readers, awaiting' = awaiting, running' = running,
           SavedDiscipline'
    PROVE  SafeInv'
<1> DEFINE frame == callStack[n]
           cs == SubSeq(callStack, 1, n - 1)
           t == SubSeq(s, 1, frame.prevStackDepth)
<1>1. /\ callStack \in Seq(Frame) /\ globals \in [Global -> Word]
      /\ fault = "none" /\ readers \in Seq(Reader) /\ ReaderShape
  BY DEF SafeInv, TypeInv, TypeOK, NoFault
<1>2. frame \in Frame /\ frame.resultStorage \in {None} \cup Variable
  BY <1>1, FrameFields
<1>3. /\ frame.prevStackDepth \in 0..Len(s)
      /\ cs \in Seq(Frame) /\ Len(cs) = n - 1
      /\ \A i \in 1..(n - 1) : cs[i] = callStack[i]
      /\ t \in Seq(Word) /\ Len(t) = frame.prevStackDepth
      /\ Disciplined(t, cs)
  BY <1>1, CutDiscipline
<1>4. Top(SubSeq(callStack, 1, n)) = frame /\ Pop(SubSeq(callStack, 1, n), 1) = cs
  BY <1>1 DEF Top, Pop
<1>5. /\ StoreResult(frame.resultStorage, v, t, cs, globals)
      /\ fault' = fault
  <2>1. ~(Len(s) < frame.prevStackDepth)
    BY <1>3
  <2> QED BY <1>4, <2>1 DEF LeaveFunctionImpl, TookTooMuch, Trimmed
<1>6. /\ Disciplined(stack', callStack')
      /\ callStack' \in Seq(Frame)
      /\ Len(callStack') = n - 1
      /\ \A i \in 1..(n - 1) : callStack'[i].resultStorage = cs[i].resultStorage
      /\ \A i \in 1..(n - 1) : callStack'[i].prevStackDepth = cs[i].prevStackDepth
      /\ Len(stack') = Len(t) + (IF frame.resultStorage = 0 THEN 1 ELSE 0)
  <2>1. /\ Disciplined(stack', callStack')
        /\ callStack' \in Seq(Frame)
        /\ Len(callStack') = Len(cs)
        /\ \A i \in 1..Len(cs) : callStack'[i].resultStorage = cs[i].resultStorage
        /\ \A i \in 1..Len(cs) : callStack'[i].prevStackDepth = cs[i].prevStackDepth
        /\ Len(stack') = Len(t) + (IF frame.resultStorage = 0 THEN 1 ELSE 0)
    BY <1>1, <1>2, <1>3, <1>5, StoreDiscipline
  <2> QED BY <1>3, <2>1
<1>7. CASE Interrupted => n > Top(readers).depth
  <2>1. n - 1 \in 0..Len(callStack) /\ n - 1 <= Len(callStack')
    BY <1>1, <1>6
  <2>2. Interrupted => n - 1 >= Top(readers).depth
    <3>1. Interrupted => Top(readers).depth \in Nat
      BY <1>1, ExecutingDepth DEF IsTimerFrame
    <3> QED BY <1>1, <1>7, <3>1
  <2>3. \A i \in 1..(n - 1) : callStack'[i].resultStorage = callStack[i].resultStorage
    BY <1>3, <1>6
  <2> QED BY <1>1, <1>5, <1>6, <2>1, <2>2, <2>3, FramesKept DEF SafeInv, NoFault
<1>8. CASE Interrupted /\ ~(n > Top(readers).depth)
  <2>1. IsTimerFrame(n) /\ Top(readers).depth = n
    <3>1. IsTimerFrame(Top(readers).depth)
      BY <1>8, ExecutingDepth
    <3> QED BY <1>1, <1>8, <3>1 DEF IsTimerFrame
  <2>2. Len(stack') = frame.prevStackDepth + 1
    BY <1>3, <1>6, <2>1 DEF IsTimerFrame
  <2>3. Base' \in Nat /\ Base' <= frame.prevStackDepth
    <3>1. CASE callStack' = <<>>
      BY <1>2, <1>3, <3>1 DEF Base
    <3>2. CASE callStack' # <<>>
      <4>1. n - 1 \in 1..(n - 1) /\ n - 1 \in 1..Len(cs)
        BY <1>1, <1>3, <1>6, <3>2
      <4>2. Base' = cs[n - 1].prevStackDepth
        BY <1>6, <3>2, <4>1 DEF Base, Top
      <4>3. cs[n - 1].prevStackDepth \in Nat
        BY <1>3, <4>1, FrameFields
      <4>4. cs[n - 1].prevStackDepth <= Len(t)
        BY <1>3, <4>1 DEF Disciplined
      <4> QED BY <1>3, <4>2, <4>3, <4>4
    <3> QED BY <3>1, <3>2
  <2>4. Len(stack') > Base'
    BY <1>3, <2>2, <2>3
  <2>5. Top(readers').depth = Len(callStack') + 1
    BY <1>1, <1>6, <2>1
  <2>6. ASSUME NEW i \in 1..(Len(readers) - 1)
        PROVE  IsTimerFrame(readers[i].depth)'
    <3>1. IsTimerFrame(readers[i].depth)
      BY <1>1, <2>6 DEF ReaderShape
    <3>2. i \in 1..Len(readers) /\ Len(readers) \in 1..Len(readers) /\ i < Len(readers)
      BY <1>8, ExecutingDepth
    <3>3. readers[i].depth < n
      BY <1>1, <1>8, <2>1, <3>2, ExecutingDepth DEF ReaderShape
    <3>4. readers[i].depth \in 1..(n - 1)
      BY <1>1, <3>1, <3>3 DEF IsTimerFrame
    <3> QED BY SMTT(30), <1>3, <1>6, <3>1, <3>4 DEF IsTimerFrame
  <2>7. ReaderShape'
    BY <1>1, <2>4, <2>5, <2>6 DEF ReaderShape
  <2> QED BY <1>1, <1>5, <1>6, <2>7 DEF SafeInv, NoFault
<1> QED BY <1>7, <1>8

(* What the invariant gives every proof below. *)
LEMMA SafeFacts ==
    ASSUME SafeInv
    PROVE  /\ TypeOK
           /\ stack \in Seq(Word) /\ callStack \in Seq(Frame)
           /\ globals \in [Global -> Word]
           /\ readers \in Seq(Reader) /\ undoStates \in Seq(Snapshot)
           /\ saveFile \in Snapshot \cup {NoFile, BadFile}
           /\ Disciplined(stack, callStack) /\ SavedDiscipline
           /\ ReaderShape /\ fault = "none"
           /\ (awaiting => readers # <<>>)
BY DEF SafeInv, TypeInv, TypeOK, NoFault

LEMMA SavedKept ==
    ASSUME SavedDiscipline, undoStates' = undoStates, saveFile' = saveFile
    PROVE  SavedDiscipline'
BY DEF SavedDiscipline

LEMMA ComputeSafe ==
    ASSUME Lawful, SafeInv, TypeInv', NEW k \in 0..2,
           NEW dest \in InScope \cup {None}, NEW v \in Data, NEW next \in Addr,
           Compute(k, dest, v, next)
    PROVE  SafeInv'
<1>1. Pop(stack, k) \in Seq(Word) /\ Disciplined(Pop(stack, k), callStack)
  BY SafeFacts, LawfulPop DEF Compute
<1>2. v \in Word /\ dest \in {None} \cup Variable
  BY SafeFacts, InScopeType, BoundAssumption
<1>3. SavedDiscipline'
  BY SafeFacts, SavedKept DEF Compute
<1> QED BY <1>1, <1>2, <1>3, StoreStep DEF Compute

(* The word that a variable instruction replaces is the routine's own. *)
LEMMA ReplaceTop ==
    ASSUME SafeInv, NEW s \in Seq(Word), NEW dest, Len(s) >= Base,
           dest = 0 => Len(s) - 1 >= Base
    PROVE  /\ (IF dest = 0 THEN Pop(s, 1) ELSE s) \in Seq(Word)
           /\ Disciplined(IF dest = 0 THEN Pop(s, 1) ELSE s, callStack)
<1>1. Base \in Nat /\ Len(s) \in Nat
  BY SafeFacts, BaseType
<1>2. CASE dest = 0
  <2>1. 1 \in 0..Len(s)
    BY <1>1, <1>2
  <2>2. Pop(s, 1) \in Seq(Word) /\ Len(Pop(s, 1)) = Len(s) - 1
    BY <2>1, PopType
  <2> QED BY <1>2, <2>2, SafeFacts, ShorterStack
<1>3. CASE dest # 0
  BY <1>3, SafeFacts, ShorterStack
<1> QED BY <1>2, <1>3

LEMMA AssignSafe ==
    ASSUME Lawful, SafeInv, TypeInv', NEW k \in 0..1, NEW dest \in InScope,
           NEW v \in Data, NEW next \in Addr, Assign(k, dest, v, next)
    PROVE  SafeInv'
<1> DEFINE n == IF dest = 0 THEN k + 1 ELSE k
           w == IF k = 1 THEN Top(stack) ELSE v
           s == Pop(stack, k)
<1>1. Base \in Nat /\ Len(stack) \in Nat
  BY SafeFacts, BaseType
<1>2. n \in 0..Len(stack) /\ Len(Pop(stack, n)) = Len(stack) - n
      /\ Len(Pop(stack, n)) >= Base
  BY SafeFacts, LawfulPop DEF Assign
<1>3. k \in 0..Len(stack) /\ Len(stack) - k >= Base
      /\ (dest = 0 => Len(stack) - k - 1 >= Base)
  BY <1>1, <1>2
<1>4. s \in Seq(Word) /\ Len(s) = Len(stack) - k
  BY <1>3, SafeFacts, PopType
<1>5. Len(s) >= Base /\ (dest = 0 => Len(s) - 1 >= Base)
  BY <1>3, <1>4
<1>6. w \in Word /\ dest \in Variable
  <2>1. k = 1 => stack # <<>>
    BY <1>3
  <2> QED BY <2>1, SafeFacts, TopType, InScopeType, BoundAssumption
<1>7. /\ (IF dest = 0 THEN Pop(s, 1) ELSE s) \in Seq(Word)
      /\ Disciplined(IF dest = 0 THEN Pop(s, 1) ELSE s, callStack)
  BY <1>4, <1>5, ReplaceTop
<1>8. SavedDiscipline'
  BY SafeFacts, SavedKept DEF Assign
<1>9. StoreResult(dest, w, IF dest = 0 THEN Pop(s, 1) ELSE s, callStack, globals)
  BY DEF Assign, StoreVariableImpl
<1> QED BY <1>6, <1>7, <1>8, <1>9, StoreStep DEF Assign

LEMMA IncrementSafe ==
    ASSUME Lawful, SafeInv, TypeInv', NEW dest \in InScope, NEW amount \in {-1, 1},
           NEW next \in Addr, Increment(dest, amount, next)
    PROVE  SafeInv'
<1> DEFINE w == (LoadVariableImpl(dest) + amount) % WordSize
<1>1. Base \in Nat /\ Len(stack) \in Nat /\ Len(stack) >= Base
  <2>1. CASE callStack = <<>>
    BY <2>1, SafeFacts DEF Base
  <2>2. CASE callStack # <<>>
    BY <2>2, SafeFacts, BaseType DEF Base, Top, Disciplined
  <2> QED BY <2>1, <2>2
<1>2. dest = 0 => Len(stack) - 1 >= Base /\ stack # <<>>
  <2>1. dest = 0 => CanPop(1)
    BY DEF Increment
  <2>2. dest = 0 => 1 \in 0..Len(stack) /\ Len(Pop(stack, 1)) = Len(stack) - 1
                    /\ Len(Pop(stack, 1)) >= Base
    BY <2>1, SafeFacts, LawfulPop
  <2> QED BY <1>1, <2>2
<1>3. w \in Word /\ dest \in Variable
  <2>1. LoadVariableImpl(dest) \in Word
    BY <1>2, SafeFacts, LoadType
  <2>2. LoadVariableImpl(dest) + amount \in Int
    BY <2>1, WordAssumption DEF Word
  <2> QED BY <2>2, SafeFacts, ModIsWord, InScopeType
<1>4. /\ (IF dest = 0 THEN Pop(stack, 1) ELSE stack) \in Seq(Word)
      /\ Disciplined(IF dest = 0 THEN Pop(stack, 1) ELSE stack, callStack)
  BY <1>1, <1>2, SafeFacts, ReplaceTop
<1>5. SavedDiscipline'
  BY SafeFacts, SavedKept DEF Increment
<1>6. StoreResult(dest, w, IF dest = 0 THEN Pop(stack, 1) ELSE stack, callStack, globals)
  BY DEF Increment, StoreVariableImpl
<1> QED BY <1>3, <1>4, <1>5, <1>6, StoreStep DEF Increment

LEMMA CallSafe ==
    ASSUME Lawful, SafeInv, TypeInv', NEW k \in 0..2,
           NEW r \in Routine \cup {NoRoutine}, NEW args \in Args,
           NEW dest \in InScope \cup {None}, NEW next \in Addr,
           Call(k, r, args, dest, next)
    PROVE  SafeInv'
<1> DEFINE s == Pop(stack, k)
<1>1. s \in Seq(Word) /\ Disciplined(s, callStack)
  BY SafeFacts, LawfulPop DEF Call
<1>2. dest \in {None} \cup Variable
  BY SafeFacts, InScopeType
<1>3. SavedDiscipline'
  BY SafeFacts, SavedKept DEF Call
<1>4. CASE r = NoRoutine
  <2>1. StoreResult(dest, 0, s, callStack, globals)
    BY <1>4, CodeAssumption DEF Call, EnterFunctionImpl
  <2> QED BY <1>1, <1>2, <1>3, <2>1, SmallWords, StoreStep DEF Call
<1>5. CASE r \in Routine
  <2>1. /\ Disciplined(stack', callStack')
        /\ callStack' \in Seq(Frame)
        /\ Len(callStack') = Len(callStack) + 1
        /\ \A i \in 1..Len(callStack) : callStack'[i] = callStack[i]
    BY <1>1, <1>2, <1>5, EnterDiscipline DEF Call
  <2>2. /\ Len(callStack) \in 0..Len(callStack)
        /\ Len(callStack) <= Len(callStack')
    BY <2>1, SafeFacts
  <2>3. Interrupted => Len(callStack) >= Top(readers).depth
    BY DEF Call, Executing, InLoop, Interrupted
  <2>4. ReaderShape'
    BY <2>1, <2>2, <2>3, FramesKept DEF Call
  <2> QED BY <1>3, <2>1, <2>4, SafeFacts DEF Call, SafeInv, NoFault
<1> QED BY <1>4, <1>5

LEMMA ReturnSafe ==
    ASSUME Lawful, SafeInv, TypeInv', NEW k \in 0..1, NEW v \in Data, Return(k, v)
    PROVE  SafeInv'
<1> DEFINE n == Len(callStack)
<1>1. Pop(stack, k) \in Seq(Word) /\ Disciplined(Pop(stack, k), callStack)
  BY SafeFacts, LawfulPop DEF Return
<1>2. n \in 1..n /\ SubSeq(callStack, 1, n) = callStack
  BY SafeFacts DEF Return
<1>3. Interrupted => n >= Top(readers).depth
  BY DEF Return, Executing, InLoop, Interrupted
<1>4. SavedDiscipline' /\ v \in Word
  BY SafeFacts, SavedKept, BoundAssumption DEF Return
<1>5. LeaveFunctionImpl(v, Pop(stack, k), SubSeq(callStack, 1, n))
  BY <1>2 DEF Return
<1> QED BY <1>1, <1>2, <1>3, <1>4, <1>5, LeaveStep DEF Return

LEMMA ThrowSafe ==
    ASSUME Lawful, SafeInv, TypeInv', NEW v \in Data,
           NEW frame \in 1..Len(callStack), ThrowImpl(v, frame)
    PROVE  SafeInv'
<1>1. Interrupted => frame >= Top(readers).depth
  BY DEF ThrowImpl, Lawful
<1>2. SavedDiscipline' /\ v \in Word
  BY SafeFacts, SavedKept, BoundAssumption DEF ThrowImpl
<1> QED BY <1>1, <1>2, SafeFacts, LeaveStep DEF ThrowImpl

LEMMA CatchSafe ==
    ASSUME Lawful, SafeInv, TypeInv', NEW dest \in InScope, NEW next \in Addr,
           Catch(dest, next)
    PROVE  SafeInv'
<1>1. Len(callStack) % WordSize \in Word /\ dest \in Variable
  BY SafeFacts, ModIsWord, InScopeType
<1>2. SavedDiscipline'
  BY SafeFacts, SavedKept DEF Catch
<1> QED BY <1>1, <1>2, SafeFacts, StoreStep DEF Catch

(* Outside timer routines the readers say nothing. *)
LEMMA NoReaders ==
    ASSUME readers = <<>>, readers' = readers
    PROVE  ReaderShape'
BY DEF ReaderShape, Interrupted

LEMMA LawfulUninterrupted ==
    ASSUME Lawful, Uninterrupted
    PROVE  readers = <<>>
BY DEF Lawful, Uninterrupted, Interrupted

LEMMA SaveUndoSafe ==
    ASSUME Lawful, SafeInv, TypeInv', NEW dest \in InScope, NEW next \in Addr,
           SaveUndo(dest, next)
    PROVE  SafeInv'
<1>1. dest \in Variable /\ {0, 1, 2} \subseteq Word
  BY SafeFacts, InScopeType, SmallWords
<1>2. SavedDiscipline'
  <2> DEFINE kept == KeptUndoStates
             now == CurrentState(dest, next)
  <2>1. CASE MaxUndoDepth = 0
    BY <2>1, SafeFacts, SavedKept DEF SaveUndo
  <2>2. CASE MaxUndoDepth # 0
    <3>1. undoStates' = Append(kept, now) /\ saveFile' = saveFile
      BY <2>2 DEF SaveUndo
    <3>2. kept \in Seq(Snapshot) /\ \A i \in 1..Len(kept) :
             Disciplined(kept[i].stack, kept[i].callStack)
      <4>1. Len(undoStates) >= MaxUndoDepth => undoStates # <<>>
        BY <2>2, BoundAssumption
      <4>2. CASE Len(undoStates) >= MaxUndoDepth
        <5>1. /\ kept \in Seq(Snapshot)
              /\ \A i \in 1..Len(kept) : /\ kept[i] = undoStates[i + 1]
                                        /\ i + 1 \in 1..Len(undoStates)
          BY <4>1, <4>2, SafeFacts DEF KeptUndoStates
        <5> QED BY <5>1, SafeFacts DEF SavedDiscipline
      <4>3. CASE ~(Len(undoStates) >= MaxUndoDepth)
        BY <4>3, SafeFacts DEF SavedDiscipline, KeptUndoStates
      <4> QED BY <4>2, <4>3
    <3>3. Disciplined(now.stack, now.callStack)
      BY SafeFacts DEF CurrentState
    <3>4. \A i \in 1..Len(undoStates') :
             undoStates'[i] = now \/ (i \in 1..Len(kept) /\ undoStates'[i] = kept[i])
      BY <3>1, <3>2
    <3>5. \A i \in 1..Len(undoStates') :
             Disciplined(undoStates'[i].stack, undoStates'[i].callStack)
      BY <3>2, <3>3, <3>4
    <3> QED BY <3>1, <3>5, SafeFacts DEF SavedDiscipline
  <2> QED BY <2>1, <2>2
<1>3. PICK w \in {0, 1} : StoreResult(dest, w, stack, callStack, globals)
  BY DEF SaveUndo
<1> QED BY <1>1, <1>2, <1>3, SafeFacts, StoreStep DEF SaveUndo

LEMMA ResumeDiscipline ==
    ASSUME NEW s \in Snapshot, Disciplined(s.stack, s.callStack), ResumeFrom(s)
    PROVE  Disciplined(stack', callStack')
<1>1. /\ s.stack \in Seq(Word) /\ s.callStack \in Seq(Frame)
      /\ s.globals \in [Global -> Word] /\ s.dest \in Variable
  BY DEF Snapshot
<1> QED BY <1>1, SmallWords, StoreDiscipline DEF ResumeFrom

LEMMA RestoreUndoSafe ==
    ASSUME Lawful, SafeInv, TypeInv', NEW dest \in InScope, NEW next \in Addr,
           RestoreUndo(dest, next)
    PROVE  SafeInv'
<1>1. dest \in Variable /\ {0, 1, 2} \subseteq Word
  BY SafeFacts, InScopeType, SmallWords
<1>2. CASE undoStates = <<>>
  <2>1. StoreResult(dest, 0, stack, callStack, globals) /\ SavedDiscipline'
    BY <1>2, SafeFacts, SavedKept DEF RestoreUndo
  <2> QED BY <1>1, <2>1, SafeFacts, StoreStep DEF RestoreUndo
<1>3. CASE undoStates # <<>>
  <2> DEFINE n == Len(undoStates)
  <2>1. n \in 1..n /\ 1 \in 0..n /\ Top(undoStates) = undoStates[n]
    BY <1>3, SafeFacts DEF Top
  <2>2. /\ ResumeFrom(undoStates[n]) /\ undoStates' = Pop(undoStates, 1)
        /\ saveFile' = saveFile /\ fault' = fault /\ readers' = readers
    BY <1>3, <2>1 DEF RestoreUndo
  <2>3. undoStates[n] \in Snapshot
        /\ Disciplined(undoStates[n].stack, undoStates[n].callStack)
    BY <2>1, SafeFacts DEF SavedDiscipline
  <2>4. Disciplined(stack', callStack')
    BY <2>2, <2>3, ResumeDiscipline
  <2>5. SavedDiscipline'
    <3>1. /\ Len(undoStates') = n - 1
          /\ \A i \in 1..(n - 1) : undoStates'[i] = undoStates[i] /\ i \in 1..n
      <4>1. undoStates \in Seq(Snapshot) /\ n \in Nat
        BY SafeFacts
      <4>2. /\ Len(undoStates') = n - 1
            /\ \A i \in 1..(n - 1) : undoStates'[i] = undoStates[i]
        BY <2>1, <2>2, <4>1, PopType
      <4> QED BY <4>1, <4>2
    <3> QED BY <2>2, <3>1, SafeFacts DEF SavedDiscipline
  <2>6. ReaderShape'
    BY <2>2, LawfulUninterrupted, NoReaders DEF RestoreUndo
  <2> QED BY <2>2, <2>4, <2>5, <2>6, SafeFacts DEF SafeInv, NoFault
<1> QED BY <1>2, <1>3

LEMMA SaveSafe ==
    ASSUME Lawful, SafeInv, TypeInv', NEW dest \in InScope, NEW next \in Addr,
           Save(dest, next)
    PROVE  SafeInv'
<1>1. dest \in Variable /\ {0, 1, 2} \subseteq Word
  BY SafeFacts, InScopeType, SmallWords
<1>2. SavedDiscipline'
  <2>1. /\ undoStates' = undoStates
        /\ saveFile' \in {CurrentState(dest, next), saveFile, BadFile}
    BY DEF Save
  <2> QED BY <2>1, SafeFacts DEF SavedDiscipline, CurrentState, BadFile
<1>3. PICK w \in {0, 1} : StoreResult(dest, w, stack, callStack, globals)
  BY DEF Save
<1> QED BY <1>1, <1>2, <1>3, SafeFacts, StoreStep DEF Save

LEMMA RestoreSafe ==
    ASSUME Lawful, SafeInv, TypeInv', NEW dest \in InScope, NEW next \in Addr,
           Restore(dest, next)
    PROVE  SafeInv'
<1>1. dest \in Variable /\ {0, 1, 2} \subseteq Word
  BY SafeFacts, InScopeType, SmallWords
<1>2. SavedDiscipline'
  BY SafeFacts, SavedKept DEF Restore
<1>3. CASE StoreResult(dest, 0, stack, callStack, globals)
  BY <1>1, <1>2, <1>3, SafeFacts, StoreStep DEF Restore
<1>4. CASE ~StoreResult(dest, 0, stack, callStack, globals)
  <2> DEFINE g == GlobalsWith(saveFile.globals, saveFile.dest, 2)
  <2>1. saveFile \in Snapshot /\ saveFile.kind = "state"
    BY <1>4, SafeFacts DEF Restore, Snapshot
  <2>2. /\ saveFile.stack \in Seq(Word) /\ saveFile.callStack \in Seq(Frame)
        /\ saveFile.globals \in [Global -> Word] /\ saveFile.dest \in Variable
        /\ Disciplined(saveFile.stack, saveFile.callStack)
    BY <2>1, SafeFacts DEF Snapshot, SavedDiscipline
  <2>3. /\ stack' = StackWith(saveFile.stack, saveFile.dest, 2)
        /\ callStack' = LocalsWith(saveFile.callStack, saveFile.dest, 2)
    BY <1>4 DEF Restore
  <2>4. Disciplined(stack', callStack')
    <3>1. /\ callStack' \in Seq(Frame)
          /\ Len(callStack') = Len(saveFile.callStack)
          /\ \A i \in 1..Len(saveFile.callStack) :
               callStack'[i].prevStackDepth = saveFile.callStack[i].prevStackDepth
      BY <1>1, <2>2, <2>3, LocalsWithType
    <3>2. Len(saveFile.stack) \in Nat
      BY <2>2
    <3>3. Len(stack') = Len(saveFile.stack) + (IF saveFile.dest = 0 THEN 1 ELSE 0)
      BY <1>1, <2>2, <2>3, StackWithType
    <3>4. Len(stack') \in Nat /\ Len(stack') >= Len(saveFile.stack)
      <4>1. \A m \in Nat, c \in {0, 1} : m + c \in Nat /\ m + c >= m
        OBVIOUS
      <4> QED BY <3>2, <3>3, <4>1
    <3>5. \A i \in 1..Len(saveFile.callStack) :
             saveFile.callStack[i].prevStackDepth \in Nat
      BY <2>2, FrameFields
    <3>6. \A i \in 1..Len(callStack') : callStack'[i].prevStackDepth <= Len(stack')
      BY <2>2, <3>1, <3>2, <3>4, <3>5 DEF Disciplined
    <3>7. \A i, j \in 1..Len(callStack') :
             i < j => callStack'[i].prevStackDepth <= callStack'[j].prevStackDepth
      BY <2>2, <3>1 DEF Disciplined
    <3> QED BY <3>6, <3>7 DEF Disciplined
  <2>5. ReaderShape'
    BY LawfulUninterrupted, NoReaders DEF Restore
  <2> QED BY <1>2, <2>4, <2>5, SafeFacts DEF Restore, SafeInv, NoFault
<1> QED BY <1>3, <1>4

LEMMA RestartSafe ==
    ASSUME Lawful, SafeInv, TypeInv', Restart
    PROVE  SafeInv'
<1>1. ReaderShape'
  BY LawfulUninterrupted, NoReaders DEF Restart
<1>2. Disciplined(stack', callStack') /\ SavedDiscipline'
  BY SafeFacts DEF Restart, Disciplined, SavedDiscipline
<1> QED BY <1>1, <1>2, SafeFacts DEF Restart, SafeInv, NoFault

LEMMA QuitSafe ==
    ASSUME Lawful, SafeInv, TypeInv', Quit
    PROVE  SafeInv'
<1>1. readers = <<>>
  BY DEF Quit, Lawful, Interrupted
<1>2. ReaderShape'
  BY <1>1, NoReaders DEF Quit
<1> QED BY <1>2, SafeFacts, SavedKept DEF Quit, SafeInv, NoFault

LEMMA ReadSafe ==
    ASSUME Lawful, SafeInv, TypeInv', NEW dest \in InScope \cup {None},
           NEW next \in Addr, NEW end \in Addr, Read(dest, next, end)
    PROVE  SafeInv'
<1> DEFINE n == Len(readers)
           reader == [nextPC |-> next, dest |-> dest, depth |-> 0]
<1>1. readers' = Append(readers, reader) /\ reader.depth = 0
  BY DEF Read
<1>2. /\ readers \in Seq(Reader) /\ n \in Nat /\ Len(readers') = n + 1
      /\ \A i \in 1..n : readers'[i] = readers[i]
      /\ readers'[n + 1].depth = 0
  <2>1. readers \in Seq(Reader) /\ reader \in Reader
    BY SafeFacts, InScopeType DEF Reader
  <2> QED BY <1>1, <2>1
<1>3. running /\ callStack' = callStack /\ stack' = stack
  BY DEF Read, Executing, InLoop
<1>4. ASSUME NEW i \in 1..n PROVE IsTimerFrame(readers[i].depth)
  <2>1. CASE i = n
    <3>1. Interrupted
      BY <1>2, <1>4 DEF Interrupted
    <3> QED BY <2>1, <3>1, ExecutingDepth DEF Read
  <2>2. CASE i # n
    <3>1. i \in 1..(n - 1)
      BY <1>2, <2>2
    <3> QED BY <3>1, SafeFacts DEF ReaderShape
  <2> QED BY <2>1, <2>2
<1>5. ASSUME NEW i \in 1..n PROVE IsTimerFrame(readers[i].depth)'
  BY <1>2, <1>3, <1>4 DEF IsTimerFrame
<1>6. ASSUME NEW i \in 1..(n + 1), NEW j \in 1..(n + 1), i < j, readers'[j].depth > 0
      PROVE  readers'[i].depth < readers'[j].depth
  <2>1. j # n + 1
    BY <1>2, <1>6
  <2>2. i \in 1..n /\ j \in 1..n
    BY <1>2, <1>6, <2>1
  <2> QED BY <1>2, <1>6, <2>2, SafeFacts DEF ReaderShape
<1>7. ReaderShape'
  <2>1. \A i \in 1..(Len(readers') - 1) : IsTimerFrame(readers[i].depth)'
    BY <1>2, <1>5
  <2>2. running' /\ awaiting'
    BY <1>3 DEF Read
  <2> QED BY <1>2, <1>6, <2>1, <2>2 DEF ReaderShape
<1>8. SavedDiscipline'
  BY SafeFacts, SavedKept DEF Read
<1> QED BY <1>3, <1>7, <1>8, SafeFacts DEF Read, SafeInv, NoFault, Disciplined

LEMMA TimerFiresSafe ==
    ASSUME Lawful, SafeInv, TypeInv', NEW r \in Routine, TimerFires(r)
    PROVE  SafeInv'
<1> DEFINE n == Len(readers)
           d == Len(callStack) + 1
<1>1. readers \in Seq(Reader) /\ n \in Nat \ {0} /\ Len(callStack) \in Nat
  BY SafeFacts DEF TimerFires
<1>2. <<>> \in Args
  <2>1. <<>> \in [1..0 -> Data] /\ 0 \in 0..MaxArgs
    BY BoundAssumption
  <2> QED BY <2>1 DEF Args
<1>3. /\ Disciplined(stack', callStack')
      /\ callStack' \in Seq(Frame)
      /\ Len(callStack') = d
      /\ \A i \in 1..Len(callStack) : callStack'[i] = callStack[i]
      /\ callStack'[d].resultStorage = 0
  BY <1>2, SafeFacts, EnterDiscipline DEF TimerFires, TimerResult, TypeOK, Variable
<1>4. /\ Len(readers') = n
      /\ \A i \in 1..(n - 1) : readers'[i] = readers[i] /\ i \in 1..n
      /\ readers'[n].depth = d
  <2>1. readers' = [readers EXCEPT ![n].depth = d]
    BY DEF TimerFires
  <2>2. readers[n] \in Reader
    BY <1>1
  <2>3. [readers[n] EXCEPT !.depth = d].depth = d
    BY <2>2 DEF Reader
  <2> QED BY <1>1, <2>1, <2>3
<1>5. ASSUME NEW i \in 1..(n - 1)
      PROVE  readers[i].depth \in 1..Len(callStack) /\ IsTimerFrame(readers[i].depth)'
  <2>1. IsTimerFrame(readers[i].depth)
    BY SafeFacts DEF ReaderShape
  <2>2. readers'[i] = readers[i]
    BY <1>4
  <2> QED BY <1>1, <1>3, <2>1, <2>2 DEF IsTimerFrame
<1>6. ASSUME NEW i \in 1..n, NEW j \in 1..n, i < j, readers'[j].depth > 0
      PROVE  readers'[i].depth < readers'[j].depth
  <2>1. i \in 1..(n - 1)
    BY <1>1, <1>6
  <2>2. CASE j = n
    <3>1. readers'[i].depth \in 1..Len(callStack)
      BY <1>4, <1>5, <2>1
    <3>2. readers'[j].depth = d
      BY <1>4, <2>2
    <3> QED BY <1>1, <3>1, <3>2
  <2>3. CASE j # n
    <3>1. j \in 1..(n - 1)
      BY <1>1, <2>3
    <3> QED BY <1>4, <1>6, <2>1, <3>1, SafeFacts DEF ReaderShape
  <2> QED BY <2>2, <2>3
<1>7. ReaderShape'
  <2>1. running' = running /\ running
    BY <1>1, SafeFacts DEF TimerFires, ReaderShape
  <2>2. IsTimerFrame(Top(readers).depth)'
    <3>1. d \in 1..d /\ Top(readers').depth = d
      BY <1>1, <1>4 DEF Top
    <3> QED BY <1>3, <3>1 DEF IsTimerFrame
  <2>3. \A i \in 1..(Len(readers') - 1) : IsTimerFrame(readers[i].depth)'
    BY <1>4, <1>5
  <2> QED BY <1>4, <1>6, <2>1, <2>2, <2>3 DEF ReaderShape
<1>8. SavedDiscipline'
  BY SafeFacts, SavedKept DEF TimerFires
<1> QED BY <1>3, <1>7, <1>8, SafeFacts DEF TimerFires, SafeInv, NoFault

LEMMA TimerRoutineDoneSafe ==
    ASSUME Lawful, SafeInv, TypeInv', TimerRoutineDone
    PROVE  SafeInv'
<1>1. /\ readers # <<>> /\ ~awaiting /\ running
      /\ ~(Len(callStack) >= Top(readers).depth)
  BY SafeFacts DEF TimerRoutineDone, InLoop, Interrupted, ReaderShape
<1>2. /\ Len(callStack) \in Nat /\ Len(stack) \in Nat /\ Base \in Nat
  BY SafeFacts, BaseType
<1>3. Len(stack) > Base
  BY <1>1, <1>2, SafeFacts DEF ReaderShape, IsTimerFrame, Interrupted
<1>4. stack # <<>> /\ 1 \in 0..Len(stack)
  BY <1>2, <1>3
<1>5. stack' = Pop(stack, 1) /\ awaiting' /\ fault' = fault
  BY <1>4 DEF TimerRoutineDone
<1>6. /\ callStack' = callStack /\ readers' = readers /\ running' = running
      /\ undoStates' = undoStates /\ saveFile' = saveFile
  BY DEF TimerRoutineDone
<1>7. Disciplined(Pop(stack, 1), callStack)
  <2>1. Pop(stack, 1) \in Seq(Word) /\ Len(Pop(stack, 1)) >= Base
    BY <1>2, <1>3, <1>4, SafeFacts, PopType
  <2> QED BY <2>1, SafeFacts, ShorterStack
<1>8. ReaderShape'
  BY <1>5, <1>6, SafeFacts DEF ReaderShape, IsTimerFrame
<1> QED BY <1>5, <1>6, <1>7, <1>8, SafeFacts, SavedKept DEF SafeInv, NoFault

LEMMA ReadDoneSafe ==
    ASSUME Lawful, SafeInv, TypeInv', NEW v \in Data, ReadDone(v)
    PROVE  SafeInv'
<1> DEFINE n == Len(readers)
<1>1. readers \in Seq(Reader) /\ n \in Nat \ {0}
  BY SafeFacts DEF ReadDone
<1>2. Top(readers).dest \in {None} \cup Variable /\ v \in Word
  <2>1. Top(readers) \in Reader
    BY <1>1, TopType
  <2> QED BY <2>1, BoundAssumption DEF Reader
<1>3. /\ Disciplined(stack', callStack')
      /\ Len(callStack') = Len(callStack)
      /\ \A i \in 1..Len(callStack) :
            callStack'[i].resultStorage = callStack[i].resultStorage
  BY ZenonT(40), <1>2, SafeFacts, StoreDiscipline DEF ReadDone
<1>4. /\ Len(readers') = n - 1
      /\ \A i \in 1..(n - 1) : readers'[i] = readers[i]
  <2>1. 1 \in 0..n
    BY <1>1
  <2> QED BY <1>1, <2>1, PopType DEF ReadDone
<1>5. ASSUME NEW i \in 1..(n - 1) PROVE IsTimerFrame(readers[i].depth)'
  <2>1. IsTimerFrame(readers[i].depth)
    BY SafeFacts DEF ReaderShape
  <2> QED BY <1>3, <1>4, <2>1 DEF IsTimerFrame
<1>6. ASSUME NEW i \in 1..(n - 1), NEW j \in 1..(n - 1), i < j, readers'[j].depth > 0
      PROVE  readers'[i].depth < readers'[j].depth
  <2>1. i \in 1..n /\ j \in 1..n
    BY <1>1
  <2> QED BY <1>4, <1>6, <2>1, SafeFacts DEF ReaderShape
<1>7. ReaderShape'
  <2>1. ~running' => readers' = <<>>
    BY <1>1, SafeFacts DEF ReadDone, ReaderShape
  <2>2. Interrupted' => IsTimerFrame(Top(readers).depth)'
    <3>1. readers' # <<>> => n - 1 \in 1..(n - 1) /\ Top(readers') = readers'[n - 1]
      <4>1. readers' \in Seq(Reader)
        BY DEF TypeInv, TypeOK
      <4> QED BY <1>1, <1>4, <4>1 DEF Top
    <3> QED BY <1>5, <3>1 DEF Interrupted
  <2>3. \A i \in 1..(Len(readers') - 1) : IsTimerFrame(readers[i].depth)'
    BY <1>1, <1>4, <1>5
  <2> QED BY <1>4, <1>6, <2>1, <2>2, <2>3 DEF ReaderShape
<1>8. SavedDiscipline'
  BY SafeFacts, SavedKept DEF ReadDone
<1> QED BY <1>3, <1>7, <1>8, SafeFacts DEF ReadDone, SafeInv, NoFault

LEMMA StepSafe == Lawful /\ SafeInv /\ [Next]_vars => SafeInv'
<1> SUFFICES ASSUME Lawful, SafeInv, [Next]_vars PROVE SafeInv'
  OBVIOUS
<1>t. TypeInv'
  BY StepInv DEF SafeInv
<1>1. ASSUME NEW k \in 0..2, NEW dest \in InScope \cup {None}, NEW v \in Data,
             NEW next \in Addr, Compute(k, dest, v, next)
      PROVE  SafeInv'
  BY <1>t, <1>1, ComputeSafe
<1>2. ASSUME NEW k \in 0..1, NEW dest \in InScope, NEW v \in Data, NEW next \in Addr,
             Assign(k, dest, v, next)
      PROVE  SafeInv'
  BY <1>t, <1>2, AssignSafe
<1>3. ASSUME NEW dest \in InScope, NEW amount \in {-1, 1}, NEW next \in Addr,
             Increment(dest, amount, next)
      PROVE  SafeInv'
  BY <1>t, <1>3, IncrementSafe
<1>4. ASSUME NEW k \in 0..2, NEW r \in Routine \cup {NoRoutine}, NEW args \in Args,
             NEW dest \in InScope \cup {None}, NEW next \in Addr,
             Call(k, r, args, dest, next)
      PROVE  SafeInv'
  BY <1>t, <1>4, CallSafe
<1>5. ASSUME NEW k \in 0..1, NEW v \in Data,
             Return(k, v)
      PROVE  SafeInv'
  BY <1>t, <1>5, ReturnSafe
<1>6. ASSUME NEW dest \in InScope, NEW next \in Addr,
             Catch(dest, next)
      PROVE  SafeInv'
  BY <1>t, <1>6, CatchSafe
<1>7. ASSUME NEW v \in Data, NEW frame \in 1..Len(callStack),
             ThrowImpl(v, frame)
      PROVE  SafeInv'
  BY <1>t, <1>7, ThrowSafe
<1>8. CASE Collapse
  BY <1>8 DEF Collapse, Lawful
<1>9. ASSUME NEW dest \in InScope, NEW next \in Addr,
             SaveUndo(dest, next)
      PROVE  SafeInv'
  BY <1>t, <1>9, SaveUndoSafe
<1>10. ASSUME NEW dest \in InScope, NEW next \in Addr,
             RestoreUndo(dest, next)
      PROVE  SafeInv'
  BY <1>t, <1>10, RestoreUndoSafe
<1>11. ASSUME NEW dest \in InScope, NEW next \in Addr,
             Save(dest, next)
      PROVE  SafeInv'
  BY <1>t, <1>11, SaveSafe
<1>12. ASSUME NEW dest \in InScope, NEW next \in Addr,
             Restore(dest, next)
      PROVE  SafeInv'
  BY <1>t, <1>12, RestoreSafe
<1>13. CASE Restart
  BY <1>t, <1>13, RestartSafe
<1>14. CASE Quit
  BY <1>t, <1>14, QuitSafe
<1>15. ASSUME NEW dest \in InScope \cup {None}, NEW next \in Addr, NEW end \in Addr,
             Read(dest, next, end)
      PROVE  SafeInv'
  BY <1>t, <1>15, ReadSafe
<1>16. ASSUME NEW r \in Routine,
             TimerFires(r)
      PROVE  SafeInv'
  BY <1>t, <1>16, TimerFiresSafe
<1>17. CASE TimerRoutineDone
  BY <1>t, <1>17, TimerRoutineDoneSafe
<1>18. ASSUME NEW v \in Data,
             ReadDone(v)
      PROVE  SafeInv'
  BY <1>t, <1>18, ReadDoneSafe
<1>19. CASE UNCHANGED vars
  BY <1>t, <1>19, SafeFacts DEF vars, SafeInv, NoFault, Disciplined, SavedDiscipline,
     ReaderShape, IsTimerFrame, Interrupted, Base
<1> QED
  BY <1>1, <1>2, <1>3, <1>4, <1>5, <1>6, <1>7, <1>8,
     <1>9, <1>10, <1>11, <1>12, <1>13, <1>14, <1>15, <1>16,
     <1>17, <1>18, <1>19 DEF Next

LEMMA SafetyInvariant == Lawful => (Spec => []SafeInv)
<1> SUFFICES ASSUME Lawful PROVE Spec => []SafeInv
  OBVIOUS
<1> QED BY InitSafe, StepSafe, PTL DEF Spec

(* In every program that keeps to the Standard, the frames cut the flat     *)
(* stack into one part per routine, now, in every undo slot and in the save *)
(* file: what LeaveFunctionImpl trims and SerializeStacks writes out is     *)
(* exactly what the routine left.                                           *)
THEOREM StackIsDisciplined == Lawful => (Spec => []StackDiscipline)
<1>1. SafeInv => StackDiscipline
  BY SafeImplies
<1> QED BY <1>1, SafetyInvariant, PTL

(* Such a program never ends in an exception of the evaluation or call      *)
(* stack: neither LeaveFunctionImpl's own nor an empty Stack's.             *)
THEOREM LawfulProgramsDoNotFault == Lawful => (Spec => []NoFault)
<1>1. SafeInv => NoFault
  BY SafeImplies
<1> QED BY <1>1, SafetyInvariant, PTL

(* What HandleInputTimerAsync pops is always the result of the timer        *)
(* routine it called, however input instructions and timers nest.           *)
THEOREM TimerResultIsPopped == Lawful => (Spec => []ResultAwaitsPop)
<1>1. SafeInv => ResultAwaitsPop
  BY SafeImplies
<1> QED BY <1>1, SafetyInvariant, PTL

-----------------------------------------------------------------------------
(* Any program, lawful or not. *)

LEMMA StoringKeepsFrames ==
    ASSUME NEW cs \in Seq(Frame), NEW dest, NEW v
    PROVE  Len(LocalsWith(cs, dest, v)) = Len(cs)
<1>1. ASSUME NEW f PROVE Len([cs EXCEPT ![Len(cs)] = f]) = Len(cs)
  <2>1. cs \in Seq(Frame \cup {f})
    OBVIOUS
  <2> QED BY <2>1
<1> QED BY <1>1 DEF LocalsWith

LEMMA LeavingTrims ==
    ASSUME NEW s \in Seq(Word), callStack \in Seq(Frame), NEW v,
           NEW n \in 1..Len(callStack),
           LeaveFunctionImpl(v, s, SubSeq(callStack, 1, n)), fault' = "none"
    PROVE  /\ Len(callStack') = n - 1
           /\ Len(stack') = callStack[n].prevStackDepth +
                            IF callStack[n].resultStorage = 0 THEN 1 ELSE 0
<1> DEFINE frame == callStack[n]
           cs == SubSeq(callStack, 1, n - 1)
           t == SubSeq(s, 1, frame.prevStackDepth)
<1>1. Top(SubSeq(callStack, 1, n)) = frame /\ Pop(SubSeq(callStack, 1, n), 1) = cs
      /\ cs \in Seq(Frame) /\ Len(cs) = n - 1
  <2>1. Top(SubSeq(callStack, 1, n)) = frame /\ Pop(SubSeq(callStack, 1, n), 1) = cs
    BY DEF Top, Pop
  <2>2. cs \in Seq(Frame) /\ Len(cs) = n - 1
    <3>1. cs = Pop(SubSeq(callStack, 1, n), 1)
      BY <2>1
    <3>2. SubSeq(callStack, 1, n) \in Seq(Frame) /\ Len(SubSeq(callStack, 1, n)) = n
      OBVIOUS
    <3>3. 1 \in 0..n
      OBVIOUS
    <3> HIDE DEF cs
    <3> QED BY ZenonT(40), <3>1, <3>2, <3>3, PopType
  <2> QED BY <2>1, <2>2
<1>2. frame.prevStackDepth \in Nat /\ Len(s) \in Nat
  BY FrameFields
<1>3. ~(Len(s) < frame.prevStackDepth)
      /\ StoreResult(frame.resultStorage, v, t, cs, globals)
  BY <1>1 DEF LeaveFunctionImpl, TookTooMuch, Trimmed
<1>4. Len(callStack') = n - 1
  BY <1>1, <1>3, StoringKeepsFrames DEF StoreResult
<1>5. t \in Seq(Word) /\ Len(t) = frame.prevStackDepth
  BY <1>2, <1>3
<1>6. stack' = IF frame.resultStorage = 0 THEN Append(t, v) ELSE t
  BY <1>3 DEF StoreResult, StackWith
<1> HIDE DEF t
<1>7. Len(Append(t, v)) = Len(t) + 1
  BY <1>5
<1> QED BY <1>2, <1>4, <1>5, <1>6, <1>7

LEMMA EnteringKeepsFrames ==
    ASSUME callStack \in Seq(Frame), NEW r, NEW args, NEW dest, NEW returnPC, NEW s,
           EnterFunctionImpl(r, args, dest, returnPC, s)
    PROVE  ~(Len(callStack') < Len(callStack))
<1>1. Len(callStack) \in Nat
  OBVIOUS
<1>2. CASE callStack' = LocalsWith(callStack, dest, 0)
  BY <1>1, <1>2, StoringKeepsFrames
<1>3. ASSUME NEW f, callStack' = Append(callStack, f)
      PROVE  ~(Len(callStack') < Len(callStack))
  <2>1. Len(Append(callStack, f)) = Len(callStack) + 1
    OBVIOUS
  <2> QED BY <1>1, <1>3, <2>1
<1> QED BY <1>2, <1>3 DEF EnterFunctionImpl, StoreResult

Trims ==
    Len(callStack') < Len(callStack) /\ fault' = "none" =>
        LET left == callStack[Len(callStack') + 1]
        IN  Len(stack') = left.prevStackDepth +
                          IF left.resultStorage = 0 THEN 1 ELSE 0

LEMMA StepTrims ==
    ASSUME Repertoire \cap {"undo", "save", "restart"} = {}, TypeInv, [Next]_vars
    PROVE  Trims
<1>1. stack \in Seq(Word) /\ callStack \in Seq(Frame) /\ Len(callStack) \in Nat
  <2>1. stack \in Seq(Word) /\ callStack \in Seq(Frame)
    BY Zenon DEF TypeInv, TypeOK
  <2> QED BY <2>1
<1>2. ~(Len(callStack) < Len(callStack))
  BY <1>1
<1>3. ASSUME NEW dest, NEW v, NEW s, StoreResult(dest, v, s, callStack, globals)
      PROVE  Trims
  BY <1>1, <1>2, <1>3, StoringKeepsFrames DEF StoreResult, Trims
<1>4. ASSUME NEW s \in Seq(Word), NEW v, NEW n \in 1..Len(callStack),
             LeaveFunctionImpl(v, s, SubSeq(callStack, 1, n))
      PROVE  Trims
  <2>1. (n - 1) + 1 = n
    OBVIOUS
  <2> QED BY <1>1, <1>4, <2>1, LeavingTrims DEF Trims
<1>5. ASSUME NEW k \in 0..2, NEW dest \in InScope \cup {None}, NEW v \in Data,
             NEW next \in Addr, Compute(k, dest, v, next)
      PROVE  Trims
  BY <1>3, <1>5 DEF Compute
<1>6. ASSUME NEW k \in 0..1, NEW dest \in InScope, NEW v \in Data, NEW next \in Addr,
             Assign(k, dest, v, next)
      PROVE  Trims
  BY <1>3, <1>6 DEF Assign, StoreVariableImpl
<1>7. ASSUME NEW dest \in InScope, NEW amount \in {-1, 1}, NEW next \in Addr,
             Increment(dest, amount, next)
      PROVE  Trims
  BY <1>3, <1>7 DEF Increment, StoreVariableImpl
<1>8. ASSUME NEW k \in 0..2, NEW r \in Routine \cup {NoRoutine}, NEW args \in Args,
             NEW dest \in InScope \cup {None}, NEW next \in Addr,
             Call(k, r, args, dest, next)
      PROVE  Trims
  BY <1>1, <1>8, EnteringKeepsFrames DEF Call, Trims
<1>9. ASSUME NEW k \in 0..1, NEW v \in Data, Return(k, v)
      PROVE  Trims
  <2>1. Len(callStack) \in 1..Len(callStack)
        /\ SubSeq(callStack, 1, Len(callStack)) = callStack
    BY <1>1, <1>9 DEF Return
  <2>2. Pop(stack, k) \in Seq(Word)
    BY <1>1, <1>9, CanPopType DEF Return
  <2> QED BY <1>4, <1>9, <2>1, <2>2 DEF Return
<1>10. ASSUME NEW v \in Data, NEW frame \in 1..Len(callStack), ThrowImpl(v, frame)
       PROVE  Trims
  BY <1>1, <1>4, <1>10 DEF ThrowImpl
<1>11. ASSUME NEW dest \in InScope, NEW next \in Addr, Catch(dest, next)
       PROVE  Trims
  BY <1>3, <1>11 DEF Catch
<1>12. CASE Collapse
  BY <1>12 DEF Collapse, Trims
<1>13. ASSUME NEW dest, NEW next,
              SaveUndo(dest, next) \/ RestoreUndo(dest, next) \/ Save(dest, next)
              \/ Restore(dest, next) \/ Restart
       PROVE  FALSE
  BY <1>13, Zenon DEF SaveUndo, RestoreUndo, Save, Restore, Restart, Has
<1>14. CASE Quit
  BY <1>2, <1>14 DEF Quit, Trims
<1>15. ASSUME NEW dest \in InScope \cup {None}, NEW next \in Addr, NEW end \in Addr,
              Read(dest, next, end)
       PROVE  Trims
  BY <1>2, <1>15 DEF Read, Trims
<1>16. ASSUME NEW r \in Routine, TimerFires(r)
       PROVE  Trims
  BY <1>1, <1>16, EnteringKeepsFrames DEF TimerFires, Trims
<1>17. CASE TimerRoutineDone
  BY <1>2, <1>17 DEF TimerRoutineDone, Trims
<1>18. ASSUME NEW v \in Data, ReadDone(v)
       PROVE  Trims
  BY <1>3, <1>18 DEF ReadDone
<1>19. CASE UNCHANGED vars
  BY <1>2, <1>19 DEF vars, Trims
<1> QED
  BY <1>5, <1>6, <1>7, <1>8, <1>9, <1>10, <1>11, <1>12, <1>13, <1>14, <1>15,
     <1>16, <1>17, <1>18, <1>19 DEF Next

(* However a program abuses the evaluation stack, a return or a throw that  *)
(* does not end it in an exception leaves the stack exactly as deep as it   *)
(* was when the routine was entered, plus a result stored on it: the        *)
(* comment in LeaveFunctionImpl, for programs that take no snapshots (which *)
(* replace all frames at once).                                             *)
THEOREM RoutinesAlwaysLeaveAtEntryDepth ==
    Repertoire \cap {"undo", "save", "restart"} = {} => (Spec => LeavesAtEntryDepth)
<1> SUFFICES ASSUME Repertoire \cap {"undo", "save", "restart"} = {}
             PROVE  Spec => LeavesAtEntryDepth
  OBVIOUS
<1>1. TypeInv /\ [Next]_vars => Trims
  BY StepTrims
<1> QED BY <1>1, InitInv, StepInv, PTL DEF Spec, LeavesAtEntryDepth, Trims

-----------------------------------------------------------------------------
(***************************************************************************)
(* The refinement: the flat stack of ZMachineCore keeps the promise of     *)
(* RoutineCalls, for every program that keeps to the Standard: every step  *)
(* of the interpreter, seen through Activations, is a step of RoutineCalls *)
(* or none.                                                                *)
(***************************************************************************)

-----------------------------------------------------------------------------
(* Sequences *)

LEMMA SubSeqType ==
    ASSUME NEW S, NEW s \in Seq(S), NEW m \in Nat, NEW n \in Nat,
           m <= n, n <= Len(s)
    PROVE  /\ SubSeq(s, m + 1, n) \in Seq(S)
           /\ Len(SubSeq(s, m + 1, n)) = n - m
           /\ \A k \in 1..(n - m) : SubSeq(s, m + 1, n)[k] = s[m + k]
<1>1. Len(s) \in Nat
  OBVIOUS
<1>2. CASE m = n
  BY <1>1, <1>2
<1>3. CASE m < n
  BY <1>1, <1>3
<1> QED BY <1>2, <1>3

LEMMA SameSequence ==
    ASSUME NEW S, NEW s \in Seq(S), NEW t \in Seq(S), Len(s) = Len(t),
           \A k \in 1..Len(s) : s[k] = t[k]
    PROVE  s = t
OBVIOUS

(* Parts of two sequences that agree. *)
LEMMA SameSubSeq ==
    ASSUME NEW S, NEW s \in Seq(S), NEW t \in Seq(S), NEW m \in Nat, NEW n \in Nat,
           m <= n, n <= Len(s), n <= Len(t),
           \A k \in 1..n : s[k] = t[k]
    PROVE  SubSeq(s, m + 1, n) = SubSeq(t, m + 1, n)
<1>1. \A k \in 1..(n - m) : m + k \in 1..n
  OBVIOUS
<1>2. /\ SubSeq(s, m + 1, n) \in Seq(S) /\ SubSeq(t, m + 1, n) \in Seq(S)
      /\ Len(SubSeq(s, m + 1, n)) = n - m /\ Len(SubSeq(t, m + 1, n)) = n - m
      /\ \A k \in 1..(n - m) : SubSeq(s, m + 1, n)[k] = s[m + k]
      /\ \A k \in 1..(n - m) : SubSeq(t, m + 1, n)[k] = t[m + k]
  BY SubSeqType
<1> QED BY <1>1, <1>2, SameSequence

LEMMA SamePrefix ==
    ASSUME NEW S, NEW s \in Seq(S), NEW t \in Seq(S), NEW n \in Nat,
           n <= Len(s), n <= Len(t),
           \A k \in 1..n : s[k] = t[k]
    PROVE  SubSeq(s, 1, n) = SubSeq(t, 1, n)
<1>1. SubSeq(s, 0 + 1, n) = SubSeq(t, 0 + 1, n)
  BY SameSubSeq, 0 \in Nat, 0 <= n
<1> QED BY <1>1, 0 + 1 = 1

LEMMA WholeSequence ==
    ASSUME NEW S, NEW s \in Seq(S)
    PROVE  SubSeq(s, 1, Len(s)) = s
<1>1. /\ SubSeq(s, 0 + 1, Len(s)) \in Seq(S)
      /\ Len(SubSeq(s, 0 + 1, Len(s))) = Len(s) - 0
      /\ \A k \in 1..(Len(s) - 0) : SubSeq(s, 0 + 1, Len(s))[k] = s[0 + k]
  <2>1. Len(s) \in Nat /\ 0 \in Nat /\ 0 <= Len(s) /\ Len(s) <= Len(s)
    OBVIOUS
  <2> QED BY <2>1, SubSeqType
<1>2. Len(s) - 0 = Len(s) /\ 0 + 1 = 1 /\ \A k \in 1..Len(s) : 0 + k = k
  OBVIOUS
<1> QED BY <1>1, <1>2, SameSequence

-----------------------------------------------------------------------------
(* What the i-th frame owns; frame 0 is the main program. *)

Low(cs, i) == IF i = 0 THEN 0 ELSE cs[i].prevStackDepth
High(s, cs, i) == IF i = Len(cs) THEN Len(s) ELSE cs[i + 1].prevStackDepth

LEMMA Bounds ==
    ASSUME NEW s \in Seq(Word), NEW cs \in Seq(Frame), Disciplined(s, cs),
           NEW i \in 0..Len(cs)
    PROVE  /\ Low(cs, i) \in Nat /\ High(s, cs, i) \in Nat
           /\ Low(cs, i) <= High(s, cs, i) /\ High(s, cs, i) <= Len(s)
           /\ Owned(s, cs, i) = SubSeq(s, Low(cs, i) + 1, High(s, cs, i))
<1>1. Len(cs) \in Nat /\ Len(s) \in Nat
  OBVIOUS
<1>2. \A j \in 1..Len(cs) : cs[j].prevStackDepth \in Nat
                            /\ cs[j].prevStackDepth <= Len(s)
  BY FrameFields DEF Disciplined
<1>3. i # 0 => i \in 1..Len(cs)
  BY <1>1
<1>4. i # Len(cs) => i + 1 \in 1..Len(cs)
  BY <1>1
<1>5. i # 0 /\ i # Len(cs) => cs[i].prevStackDepth <= cs[i + 1].prevStackDepth
  BY <1>3, <1>4 DEF Disciplined
<1>6. Low(cs, i) + 1 = IF i = 0 THEN 1 ELSE cs[i].prevStackDepth + 1
  BY DEF Low
<1>7. Owned(s, cs, i) = SubSeq(s, Low(cs, i) + 1, High(s, cs, i))
  BY <1>6 DEF Owned, High
<1>8. Low(cs, i) \in Nat /\ Low(cs, i) <= Len(s)
  BY <1>1, <1>2, <1>3 DEF Low
<1>9. High(s, cs, i) \in Nat /\ High(s, cs, i) <= Len(s)
  BY <1>1, <1>2, <1>4 DEF High
<1>10. Low(cs, i) <= High(s, cs, i)
  BY <1>1, <1>2, <1>3, <1>4, <1>5, <1>8, <1>9 DEF Low, High
<1> QED BY <1>7, <1>8, <1>9, <1>10

(* The i-th activation. *)
Part(s, cs, timers, i) ==
    IF i = 0 THEN [returnPC |-> Start, stack |-> Owned(s, cs, 0),
                   locals |-> <<>>, argCount |-> 0, resultStorage |-> None]
    ELSE [returnPC |-> cs[i].returnPC,
          stack |-> Owned(s, cs, i),
          locals |-> cs[i].locals,
          argCount |-> cs[i].argCount,
          resultStorage |-> IF i \in timers THEN Dropped ELSE cs[i].resultStorage]

Destination == {None, Dropped} \cup Variable
Activation == [returnPC : Addr, stack : Seq(Word), locals : Seq(Word),
               argCount : 0..7, resultStorage : Destination]

LEMMA PartType ==
    ASSUME NEW s \in Seq(Word), NEW cs \in Seq(Frame), Disciplined(s, cs),
           NEW timers, NEW i \in 0..Len(cs)
    PROVE  Part(s, cs, timers, i) \in Activation
<1>1. Owned(s, cs, i) \in Seq(Word)
  BY Bounds, SubSeqType
<1>2. CASE i = 0
  BY <1>1, <1>2, CodeAssumption DEF Part, Activation, Destination
<1>3. CASE i # 0
  <2>1. i \in 1..Len(cs)
    BY <1>3
  <2>2. cs[i] \in Frame
    BY <2>1
  <2>3. /\ cs[i].returnPC \in Addr /\ cs[i].locals \in Seq(Word)
        /\ cs[i].argCount \in 0..7
        /\ cs[i].resultStorage \in Destination
    BY <2>2, FrameFields DEF Destination
  <2>4. (IF i \in timers THEN Dropped ELSE cs[i].resultStorage) \in Destination
    BY <2>3 DEF Destination
  <2> QED BY <1>1, <1>3, <2>3, <2>4 DEF Part, Activation
<1> QED BY <1>2, <1>3

LEMMA ActivationsType ==
    ASSUME NEW s \in Seq(Word), NEW cs \in Seq(Frame), Disciplined(s, cs), NEW timers
    PROVE  /\ Activations(s, cs, timers) \in Seq(Activation)
           /\ Len(Activations(s, cs, timers)) = Len(cs) + 1
           /\ \A i \in 0..Len(cs) :
                 Activations(s, cs, timers)[i + 1] = Part(s, cs, timers, i)
<1> DEFINE as == Activations(s, cs, timers)
<1>1. Len(cs) \in Nat
  OBVIOUS
<1>2. as = [j \in 1..(Len(cs) + 1) |-> Part(s, cs, timers, j - 1)]
  <2>1. \A j \in 1..(Len(cs) + 1) :
           as[j] = Part(s, cs, timers, j - 1)
    <3> TAKE j \in 1..(Len(cs) + 1)
    <3>1. (j = 1) <=> (j - 1 = 0)
      BY <1>1
    <3> QED BY <3>1 DEF Activations, Part
  <2>2. as = [j \in 1..(Len(cs) + 1) |-> as[j]]
    BY DEF Activations
  <2> QED BY <2>1, <2>2
<1>3. \A j \in 1..(Len(cs) + 1) : j - 1 \in 0..Len(cs)
  BY <1>1
<1>4. \A j \in 1..(Len(cs) + 1) : as[j] \in Activation
  BY <1>2, <1>3, PartType
<1>5. as \in Seq(Activation) /\ Len(as) = Len(cs) + 1
  BY <1>1, <1>2, <1>4
<1>6. \A i \in 0..Len(cs) : i + 1 \in 1..(Len(cs) + 1) /\ (i + 1) - 1 = i
  BY <1>1
<1>7. \A i \in 0..Len(cs) : as[i + 1] = Part(s, cs, timers, i)
  BY <1>2, <1>6
<1> QED BY <1>5, <1>7

(* An activation that two states do not tell apart: it has the same frame   *)
(* and the stacks agree up to its end.                                      *)
Agree(s, cs, T, t, ds, U, i) ==
    /\ i \in 0..Len(cs) /\ i \in 0..Len(ds)
    /\ i # 0 => cs[i] = ds[i] /\ (i \in T <=> i \in U)
    /\ High(s, cs, i) = High(t, ds, i)
    /\ \A k \in 1..High(s, cs, i) : s[k] = t[k]

LEMMA SamePart ==
    ASSUME NEW s \in Seq(Word), NEW cs \in Seq(Frame), Disciplined(s, cs), NEW T,
           NEW t \in Seq(Word), NEW ds \in Seq(Frame), Disciplined(t, ds), NEW U,
           NEW i, Agree(s, cs, T, t, ds, U, i)
    PROVE  Part(s, cs, T, i) = Part(t, ds, U, i)
<1>1. /\ i \in 0..Len(cs) /\ i \in 0..Len(ds)
      /\ i # 0 => cs[i] = ds[i]
      /\ i # 0 => (i \in T <=> i \in U)
      /\ High(s, cs, i) = High(t, ds, i)
      /\ \A k \in 1..High(s, cs, i) : s[k] = t[k]
  BY Zenon DEF Agree
<1>2. Low(cs, i) = Low(ds, i)
  BY <1>1 DEF Low
<1>3. /\ Low(cs, i) \in Nat /\ High(s, cs, i) \in Nat
      /\ Low(cs, i) <= High(s, cs, i) /\ High(s, cs, i) <= Len(s)
      /\ Owned(s, cs, i) = SubSeq(s, Low(cs, i) + 1, High(s, cs, i))
  BY <1>1, Bounds
<1>4. /\ High(t, ds, i) <= Len(t)
      /\ Owned(t, ds, i) = SubSeq(t, Low(ds, i) + 1, High(t, ds, i))
  BY <1>1, Bounds
<1>5. SubSeq(s, Low(cs, i) + 1, High(s, cs, i)) = SubSeq(t, Low(cs, i) + 1, High(s, cs, i))
  BY SMTT(30), <1>1, <1>3, <1>4, SameSubSeq
<1>6. Owned(s, cs, i) = Owned(t, ds, i)
  BY <1>1, <1>2, <1>3, <1>4, <1>5
<1>7. CASE i = 0
  BY <1>6, <1>7 DEF Part
<1>8. CASE i # 0
  BY <1>1, <1>6, <1>8 DEF Part
<1> QED BY <1>7, <1>8

(* Sequences of activations are compared one by one, from 0. *)
LEMMA SameActivations ==
    ASSUME NEW as \in Seq(Activation), NEW bs \in Seq(Activation),
           NEW n \in Nat, Len(as) >= n + 1, Len(bs) >= n + 1,
           \A i \in 0..n : as[i + 1] = bs[i + 1]
    PROVE  SubSeq(as, 1, n + 1) = SubSeq(bs, 1, n + 1)
<1>1. ASSUME NEW k \in 1..(n + 1) PROVE as[k] = bs[k]
  <2>1. k - 1 \in 0..n /\ (k - 1) + 1 = k
    OBVIOUS
  <2> QED BY <2>1
<1>2. n + 1 \in Nat
  OBVIOUS
<1> QED BY <1>1, <1>2, SamePrefix

(* Frames that are on no call stack deliver their results to nobody. *)
LEMMA SameTimers ==
    ASSUME NEW s \in Seq(Word), NEW cs \in Seq(Frame), Disciplined(s, cs), NEW T, NEW U,
           \A i \in 1..Len(cs) : i \in T <=> i \in U
    PROVE  Activations(s, cs, T) = Activations(s, cs, U)
<1>1. Len(cs) \in Nat
  OBVIOUS
<1>2. ASSUME NEW i \in 0..Len(cs)
      PROVE  Part(s, cs, T, i) = Part(s, cs, U, i)
  <2>1. i # 0 => i \in 1..Len(cs)
    BY <1>1
  <2> QED BY <2>1 DEF Part
<1> DEFINE as == Activations(s, cs, T)
           bs == Activations(s, cs, U)
<1>3. /\ as \in Seq(Activation) /\ Len(as) = Len(cs) + 1
      /\ bs \in Seq(Activation) /\ Len(bs) = Len(cs) + 1
      /\ \A i \in 0..Len(cs) : as[i + 1] = Part(s, cs, T, i)
      /\ \A i \in 0..Len(cs) : bs[i + 1] = Part(s, cs, U, i)
  BY ActivationsType
<1> HIDE DEF as, bs
<1>4. SubSeq(as, 1, Len(cs) + 1) = SubSeq(bs, 1, Len(cs) + 1)
  <2>1. \A i \in 0..Len(cs) : as[i + 1] = bs[i + 1]
    BY <1>2, <1>3
  <2>2. Len(as) >= Len(cs) + 1 /\ Len(bs) >= Len(cs) + 1
    BY <1>1, <1>3
  <2> QED BY <1>1, <1>3, <2>1, <2>2, SameActivations
<1>5. SubSeq(as, 1, Len(as)) = as /\ SubSeq(bs, 1, Len(bs)) = bs
  BY <1>3, WholeSequence
<1>6. as = bs
  BY <1>3, <1>4, <1>5
<1> QED BY <1>6 DEF as, bs

(* A stack and the frames that cut it. *)
Flat(s, cs) == s \in Seq(Word) /\ cs \in Seq(Frame) /\ Disciplined(s, cs)

(* The stack t and the frames ds are those below the n-th frame. *)
IsCut(s, cs, n, t, ds) ==
    /\ Len(t) = cs[n].prevStackDepth /\ \A k \in 1..Len(t) : t[k] = s[k]
    /\ Len(ds) = n - 1 /\ \A i \in 1..(n - 1) : ds[i] = cs[i]

(* Cutting both stacks at the n-th frame leaves the activations below it. *)
LEMMA CutActivations ==
    ASSUME NEW s, NEW cs, Flat(s, cs), NEW T,
           NEW t, NEW ds, Flat(t, ds),
           NEW n \in 1..Len(cs), IsCut(s, cs, n, t, ds)
    PROVE  SubSeq(Activations(s, cs, T), 1, n) = Activations(t, ds, T)
<1>0. /\ s \in Seq(Word) /\ cs \in Seq(Frame) /\ Disciplined(s, cs)
      /\ t \in Seq(Word) /\ ds \in Seq(Frame) /\ Disciplined(t, ds)
      /\ Len(t) = cs[n].prevStackDepth /\ \A k \in 1..Len(t) : t[k] = s[k]
      /\ Len(ds) = n - 1 /\ \A i \in 1..(n - 1) : ds[i] = cs[i]
  BY Zenon DEF Flat, IsCut
<1> USE <1>0
<1> DEFINE as == Activations(s, cs, T)
           bs == Activations(t, ds, T)
           d == cs[n].prevStackDepth
<1>1. Len(cs) \in Nat /\ Len(s) \in Nat
  OBVIOUS
<1>2. d \in Nat /\ d <= Len(s)
  BY FrameFields DEF Disciplined
<1>3. Len(t) = d /\ \A k \in 1..d : t[k] = s[k]
  BY <1>2
<1>4. Len(ds) = n - 1 /\ \A i \in 1..(n - 1) : ds[i] = cs[i]
  OBVIOUS
<1>5. ASSUME NEW i \in 0..(n - 1)
      PROVE  Part(s, cs, T, i) = Part(t, ds, T, i)
  <2>1. i \in 0..Len(cs) /\ i \in 0..Len(ds) /\ i # Len(cs)
    BY <1>1, <1>4
  <2>2. i # 0 => cs[i] = ds[i]
    BY <1>4, <1>5
  <2>3. High(s, cs, i) = High(t, ds, i)
    <3>1. CASE i = n - 1
      BY <1>1, <1>3, <1>4, <2>1, <3>1 DEF High
    <3>2. CASE i # n - 1
      <4>1. i + 1 \in 1..(n - 1)
        BY <3>2
      <4> QED BY <1>4, <2>1, <3>2, <4>1 DEF High
    <3> QED BY <3>1, <3>2
  <2>4. High(s, cs, i) \in Nat /\ High(s, cs, i) <= d
    BY <1>3, <2>1, <2>3, Bounds
  <2>5. \A k \in 1..High(s, cs, i) : s[k] = t[k]
    BY <1>2, <1>3, <2>4
  <2>6. Agree(s, cs, T, t, ds, T, i)
    BY <2>1, <2>2, <2>3, <2>5, Zenon DEF Agree
  <2> QED BY <2>6, SamePart
<1>6. /\ as \in Seq(Activation) /\ Len(as) = Len(cs) + 1
      /\ \A i \in 0..Len(cs) : as[i + 1] = Part(s, cs, T, i)
      /\ bs \in Seq(Activation) /\ Len(bs) = Len(ds) + 1
      /\ \A i \in 0..Len(ds) : bs[i + 1] = Part(t, ds, T, i)
  BY ActivationsType
<1> HIDE DEF as, bs
<1>7. n - 1 \in Nat /\ (n - 1) + 1 = n
  OBVIOUS
<1>8. \A i \in 0..(n - 1) : i \in 0..Len(cs) /\ i \in 0..Len(ds)
  BY <1>1, <1>4
<1>9. SubSeq(as, 1, (n - 1) + 1) = SubSeq(bs, 1, (n - 1) + 1)
  <2>1. \A i \in 0..(n - 1) : as[i + 1] = bs[i + 1]
    BY <1>5, <1>6, <1>8
  <2>2. Len(as) >= (n - 1) + 1 /\ Len(bs) >= (n - 1) + 1
    BY <1>1, <1>4, <1>6
  <2> QED BY <1>6, <1>7, <2>1, <2>2, SameActivations
<1>10. SubSeq(bs, 1, n) = bs
  <2>1. Len(bs) = n
    BY <1>4, <1>6, <1>7
  <2> QED BY <1>6, <2>1, WholeSequence
<1>11. SubSeq(as, 1, n) = bs
  BY <1>7, <1>9, <1>10
<1> QED BY <1>11 DEF as, bs

(* What an instruction may do to the activations (RoutineCalls!Work). *)
WorksOn(as, bs) ==
    /\ Len(bs) = Len(as)
    /\ SubSeq(bs, 1, Len(as) - 1) = SubSeq(as, 1, Len(as) - 1)
    /\ bs[Len(as)] = [as[Len(as)] EXCEPT !.stack = bs[Len(bs)].stack,
                                         !.locals = bs[Len(bs)].locals]

LEMMA SameButWork ==
    ASSUME NEW a \in Activation, NEW b \in Activation,
           b.returnPC = a.returnPC, b.argCount = a.argCount,
           b.resultStorage = a.resultStorage
    PROVE  b = [a EXCEPT !.stack = b.stack, !.locals = b.locals]
BY DEF Activation

(* The last frame changes in its local variables only. *)
SameButLocals(cs, ds) ==
    /\ Len(ds) = Len(cs)
    /\ \A i \in 1..Len(cs) :
          /\ ds[i].returnPC = cs[i].returnPC
          /\ ds[i].prevStackDepth = cs[i].prevStackDepth
          /\ ds[i].argCount = cs[i].argCount
          /\ ds[i].resultStorage = cs[i].resultStorage
          /\ i # Len(cs) => ds[i] = cs[i]

(* The stack changes above the base of the last frame only. *)
SameBelow(s, t, depth) == \A k \in 1..depth : t[k] = s[k]

LEMMA WorkOnActivations ==
    ASSUME NEW s \in Seq(Word), NEW cs \in Seq(Frame), Disciplined(s, cs), NEW T,
           NEW t \in Seq(Word), NEW ds \in Seq(Frame), Disciplined(t, ds), NEW U,
           SameButLocals(cs, ds),
           \A i \in 1..Len(cs) : i \in T <=> i \in U,
           SameBelow(s, t, Low(cs, Len(cs)))
    PROVE  /\ WorksOn(Activations(s, cs, T), Activations(t, ds, U))
           /\ \A k \in 1..Len(cs) :
                 Activations(s, cs, T)[k] = Activations(t, ds, U)[k]
<1> DEFINE n == Len(cs)
           as == Activations(s, cs, T)
           bs == Activations(t, ds, U)
<1>0. /\ Len(ds) = Len(cs)
      /\ \A i \in 1..Len(cs) :
            /\ ds[i].returnPC = cs[i].returnPC
            /\ ds[i].prevStackDepth = cs[i].prevStackDepth
            /\ ds[i].argCount = cs[i].argCount
            /\ ds[i].resultStorage = cs[i].resultStorage
            /\ i # Len(cs) => ds[i] = cs[i]
      /\ \A k \in 1..Low(cs, Len(cs)) : t[k] = s[k]
  BY Zenon DEF SameButLocals, SameBelow
<1>1. n \in Nat /\ n \in 0..n
  OBVIOUS
<1>2. /\ as \in Seq(Activation) /\ Len(as) = n + 1
      /\ \A i \in 0..n : as[i + 1] = Part(s, cs, T, i)
      /\ bs \in Seq(Activation) /\ Len(bs) = n + 1
      /\ \A i \in 0..n : bs[i + 1] = Part(t, ds, U, i)
  BY <1>0, <1>1, ActivationsType
<1>3. ASSUME NEW i \in 0..(n - 1)
      PROVE  Part(s, cs, T, i) = Part(t, ds, U, i)
  <2>1. i \in 0..n /\ i # n /\ i + 1 \in 1..n /\ n \in 1..n
    BY <1>1
  <2>2. i # 0 => cs[i] = ds[i] /\ (i \in T <=> i \in U)
    BY <1>0, <1>1, <2>1
  <2>3. High(s, cs, i) = High(t, ds, i)
    BY <1>0, <2>1 DEF High
  <2>4. High(s, cs, i) \in Nat /\ Low(cs, n) \in Nat
    BY <1>1, <2>1, Bounds
  <2>5. High(s, cs, i) <= Low(cs, n)
    <3>1. High(s, cs, i) = cs[i + 1].prevStackDepth /\ Low(cs, n) = cs[n].prevStackDepth
      BY <2>1 DEF High, Low
    <3>2. i + 1 = n \/ i + 1 < n
      BY <1>1, <2>1
    <3> QED BY <2>1, <2>4, <3>1, <3>2 DEF Disciplined
  <2>6. \A k \in 1..High(s, cs, i) : s[k] = t[k]
    BY <1>0, <2>4, <2>5
  <2>7. i \in 0..Len(ds)
    BY <1>0, <2>1
  <2>8. Agree(s, cs, T, t, ds, U, i)
    BY <2>1, <2>2, <2>3, <2>6, <2>7, Zenon DEF Agree
  <2> QED BY <2>8, SamePart
<1>4. ASSUME NEW k \in 1..n PROVE as[k] = bs[k]
  <2>1. k - 1 \in 0..(n - 1) /\ k - 1 \in 0..n /\ (k - 1) + 1 = k
    BY <1>1
  <2> QED BY <1>2, <1>3, <2>1
<1>5. as[n + 1] = Part(s, cs, T, n) /\ bs[n + 1] = Part(t, ds, U, n)
  BY <1>1, <1>2
<1>6. Part(t, ds, U, n) = [Part(s, cs, T, n) EXCEPT !.stack = Part(t, ds, U, n).stack,
                                                  !.locals = Part(t, ds, U, n).locals]
  <2> DEFINE a == Part(s, cs, T, n)
             b == Part(t, ds, U, n)
  <2>1. a \in Activation /\ b \in Activation
    BY <1>0, <1>1, PartType
  <2>2. n = 0 \/ n \in 1..n
    BY <1>1
  <2>3. /\ b.returnPC = a.returnPC /\ b.argCount = a.argCount
        /\ b.resultStorage = a.resultStorage
    BY <1>0, <2>2 DEF Part
  <2> HIDE DEF a, b
  <2>4. b = [a EXCEPT !.stack = b.stack, !.locals = b.locals]
    BY <2>1, <2>3, SameButWork
  <2> QED BY <2>4 DEF a, b
<1> HIDE DEF as, bs
<1>7. SubSeq(bs, 1, n) = SubSeq(as, 1, n)
  <2>1. \A k \in 1..n : bs[k] = as[k]
    BY <1>4
  <2>2. n <= Len(as) /\ n <= Len(bs)
    BY <1>1, <1>2
  <2> QED BY <1>1, <1>2, <2>1, <2>2, SamePrefix
<1>8. (n + 1) - 1 = n
  BY <1>1
<1>9. WorksOn(as, bs)
  BY <1>2, <1>5, <1>6, <1>7, <1>8 DEF WorksOn
<1> QED BY <1>4, <1>9 DEF as, bs

(* What a call does to the activations (RoutineCalls!Enter). *)
Enters(as, bs) ==
    /\ Len(bs) = Len(as) + 1
    /\ SubSeq(bs, 1, Len(as) - 1) = SubSeq(as, 1, Len(as) - 1)
    /\ bs[Len(as)] = [as[Len(as)] EXCEPT !.stack = bs[Len(as)].stack]
    /\ \E n \in 0..Len(as[Len(as)].stack) :
           bs[Len(as)].stack = SubSeq(as[Len(as)].stack, 1, n)
    /\ bs[Len(bs)].stack = <<>>

(* A frame is put on the rest t of a stack that its caller's operands have  *)
(* been taken off.                                                          *)
LEMMA EnterActivations ==
    ASSUME NEW s \in Seq(Word), NEW cs \in Seq(Frame), Disciplined(s, cs), NEW T,
           NEW t \in Seq(Word), NEW ds \in Seq(Frame), Disciplined(t, ds), NEW U,
           Len(t) <= Len(s), \A k \in 1..Len(t) : t[k] = s[k],
           Low(cs, Len(cs)) <= Len(t),
           Len(ds) = Len(cs) + 1, ds[Len(cs) + 1].prevStackDepth = Len(t),
           \A i \in 1..Len(cs) : ds[i] = cs[i] /\ (i \in T <=> i \in U)
    PROVE  Enters(Activations(s, cs, T), Activations(t, ds, U))
<1> DEFINE n == Len(cs)
           as == Activations(s, cs, T)
           bs == Activations(t, ds, U)
<1>1. n \in Nat /\ n \in 0..n /\ n \in 0..Len(ds) /\ n + 1 \in 0..Len(ds)
      /\ Len(s) \in Nat /\ Len(t) \in Nat
  OBVIOUS
<1>2. /\ as \in Seq(Activation) /\ Len(as) = n + 1
      /\ \A i \in 0..n : as[i + 1] = Part(s, cs, T, i)
      /\ bs \in Seq(Activation) /\ Len(bs) = (n + 1) + 1
      /\ \A i \in 0..(n + 1) : bs[i + 1] = Part(t, ds, U, i)
  BY <1>1, ActivationsType
<1>3. ASSUME NEW i \in 0..(n - 1)
      PROVE  Part(s, cs, T, i) = Part(t, ds, U, i)
  <2>1. i \in 0..n /\ i # n /\ i # n + 1 /\ i + 1 \in 1..n /\ n \in 1..n
    BY <1>1
  <2>2. i # 0 => cs[i] = ds[i] /\ (i \in T <=> i \in U)
    BY <1>1
  <2>3. High(s, cs, i) = High(t, ds, i)
    BY <1>1, <2>1 DEF High
  <2>4. i \in 0..Len(ds)
    BY <1>1
  <2>5. High(t, ds, i) \in Nat /\ High(t, ds, i) <= Len(t)
    BY <2>4, Bounds
  <2>6. \A k \in 1..High(s, cs, i) : s[k] = t[k]
    BY <1>1, <2>3, <2>5
  <2>7. Agree(s, cs, T, t, ds, U, i)
    BY <2>1, <2>2, <2>3, <2>4, <2>6, Zenon DEF Agree
  <2> QED BY <2>7, SamePart
<1> DEFINE a == Part(s, cs, T, n)
           b == Part(t, ds, U, n)
           l == Low(cs, n)
<1>4. a \in Activation /\ b \in Activation
  BY <1>1, PartType
<1>5. /\ b.returnPC = a.returnPC /\ b.argCount = a.argCount
      /\ b.resultStorage = a.resultStorage /\ b.locals = a.locals
  <2>1. n = 0 \/ n \in 1..n
    BY <1>1
  <2> QED BY <2>1 DEF Part
<1>6. /\ l \in Nat /\ l <= Len(t)
      /\ a.stack = SubSeq(s, l + 1, Len(s))
      /\ b.stack = SubSeq(t, l + 1, Len(t))
  <2>1. Low(ds, n) = l
    <3>1. n = 0 \/ n \in 1..n
      BY <1>1
    <3> QED BY <3>1 DEF Low
  <2>2. High(s, cs, n) = Len(s) /\ High(t, ds, n) = Len(t)
    BY <1>1 DEF High
  <2>3. Owned(s, cs, n) = SubSeq(s, l + 1, Len(s)) /\ l \in Nat
    BY <1>1, <2>2, Bounds
  <2>4. Owned(t, ds, n) = SubSeq(t, l + 1, Len(t))
    BY <1>1, <2>1, <2>2, Bounds
  <2> QED BY <2>3, <2>4 DEF Part
<1>7. /\ Len(t) - l \in 0..Len(a.stack)
      /\ b.stack = SubSeq(a.stack, 1, Len(t) - l)
  <2> DEFINE m == Len(t) - l
  <2> HIDE DEF a, b, l
  <2>1. /\ a.stack \in Seq(Word) /\ Len(a.stack) = Len(s) - l
        /\ \A k \in 1..(Len(s) - l) : a.stack[k] = s[l + k]
    BY <1>1, <1>6, SubSeqType
  <2>2. /\ b.stack \in Seq(Word) /\ Len(b.stack) = m
        /\ \A k \in 1..m : b.stack[k] = t[l + k]
    <3>1. Len(t) <= Len(t)
      BY <1>1
    <3> QED BY <1>1, <1>6, <3>1, SubSeqType
  <2>3. m \in Nat /\ m <= Len(a.stack) /\ m <= Len(b.stack)
    BY <1>1, <1>6, <2>1, <2>2
  <2>4. \A k \in 1..m : a.stack[k] = b.stack[k]
    <3> TAKE k \in 1..m
    <3>1. k \in 1..(Len(s) - l) /\ l + k \in 1..Len(t)
      BY <1>1, <1>6
    <3> QED BY <2>1, <2>2, <3>1
  <2> HIDE DEF m
  <2>5. SubSeq(a.stack, 1, m) = SubSeq(b.stack, 1, m)
    BY <2>1, <2>2, <2>3, <2>4, SamePrefix
  <2>6. SubSeq(b.stack, 1, m) = b.stack
    BY <2>2, WholeSequence
  <2> QED BY <2>3, <2>5, <2>6 DEF m
<1>8. Part(t, ds, U, n + 1).stack = <<>>
  <2>1. Low(ds, n + 1) = Len(t) /\ High(t, ds, n + 1) = Len(t) /\ n + 1 # 0
    BY <1>1 DEF Low, High
  <2>2. Owned(t, ds, n + 1) = SubSeq(t, Len(t) + 1, Len(t))
    BY <1>1, <2>1, Bounds
  <2>3. SubSeq(t, Len(t) + 1, Len(t)) \in Seq(Word)
        /\ Len(SubSeq(t, Len(t) + 1, Len(t))) = 0
    BY <1>1, SubSeqType
  <2>4. \A q \in Seq(Word) : Len(q) = 0 => q = <<>>
    OBVIOUS
  <2>5. Part(t, ds, U, n + 1).stack = Owned(t, ds, n + 1)
    BY <2>1 DEF Part
  <2> QED BY <2>2, <2>3, <2>4, <2>5
<1> HIDE DEF as, bs
<1>9. as[n + 1] = a /\ bs[n + 1] = b /\ bs[(n + 1) + 1] = Part(t, ds, U, n + 1)
  <2>1. n \in 0..(n + 1) /\ n + 1 \in 0..(n + 1)
    BY <1>1
  <2> QED BY <1>1, <1>2, <2>1
<1>10. SubSeq(bs, 1, n) = SubSeq(as, 1, n)
  <2>1. \A k \in 1..n : bs[k] = as[k]
    <3> TAKE k \in 1..n
    <3>1. k - 1 \in 0..(n - 1) /\ k - 1 \in 0..n /\ k - 1 \in 0..(n + 1)
          /\ (k - 1) + 1 = k
      BY <1>1
    <3> QED BY <1>2, <1>3, <3>1
  <2>2. n <= Len(as) /\ n <= Len(bs)
    BY <1>1, <1>2
  <2> QED BY <1>1, <1>2, <2>1, <2>2, SamePrefix
<1> HIDE DEF a, b
<1>11. b = [a EXCEPT !.stack = b.stack]
  BY <1>4, <1>5 DEF Activation
<1>12. (n + 1) - 1 = n
  BY <1>1
<1>13. /\ Len(bs) = Len(as) + 1
       /\ SubSeq(bs, 1, Len(as) - 1) = SubSeq(as, 1, Len(as) - 1)
  BY <1>2, <1>10, <1>12
<1>14. /\ bs[Len(as)] = [as[Len(as)] EXCEPT !.stack = bs[Len(as)].stack]
       /\ bs[Len(bs)].stack = <<>>
  BY <1>2, <1>8, <1>9, <1>11
<1>15. \E k \in 0..Len(as[Len(as)].stack) :
           bs[Len(as)].stack = SubSeq(as[Len(as)].stack, 1, k)
  BY <1>2, <1>7, <1>9
<1>16. Enters(as, bs)
  BY <1>13, <1>14, <1>15 DEF Enters
<1> QED BY <1>16 DEF as, bs

LEMMA LastReplaced ==
    ASSUME NEW as \in Seq(Activation), NEW bs \in Seq(Activation), NEW n \in Nat,
           Len(as) = n + 1, Len(bs) = n + 1, \A k \in 1..n : as[k] = bs[k]
    PROVE  bs = [as EXCEPT ![n + 1] = bs[n + 1]]
<1> DEFINE cs == [as EXCEPT ![n + 1] = bs[n + 1]]
<1>1. n + 1 \in 1..(n + 1) /\ bs[n + 1] \in Activation
  OBVIOUS
<1>2. cs \in Seq(Activation) /\ Len(cs) = n + 1
  BY <1>1, ExceptType
<1>3. \A k \in 1..(n + 1) : cs[k] = IF k = n + 1 THEN bs[n + 1] ELSE as[k]
  OBVIOUS
<1>4. \A k \in 1..(n + 1) : k = n + 1 \/ k \in 1..n
  OBVIOUS
<1>5. \A k \in 1..(n + 1) : cs[k] = bs[k]
  BY <1>3, <1>4
<1> HIDE DEF cs
<1>6. cs = bs
  BY <1>2, <1>5, SameSequence
<1> QED BY <1>6 DEF cs

LEMMA PushedOnPart ==
    ASSUME NEW s \in Seq(Word), NEW v \in Word, NEW l \in Nat, l <= Len(s)
    PROVE  SubSeq(Append(s, v), l + 1, Len(s) + 1) = Append(SubSeq(s, l + 1, Len(s)), v)
<1> DEFINE t == Append(s, v)
           n == Len(s)
           p == SubSeq(s, l + 1, n)
           q == SubSeq(t, l + 1, n + 1)
<1>1. /\ n \in Nat /\ t \in Seq(Word) /\ Len(t) = n + 1 /\ t[n + 1] = v
      /\ \A k \in 1..n : t[k] = s[k]
  OBVIOUS
<1>2. p \in Seq(Word) /\ Len(p) = n - l /\ \A k \in 1..(n - l) : p[k] = s[l + k]
  BY <1>1, n <= n, SubSeqType
<1> HIDE DEF t
<1>3. q \in Seq(Word) /\ Len(q) = (n + 1) - l
      /\ \A k \in 1..((n + 1) - l) : q[k] = t[l + k]
  <2>1. n + 1 \in Nat /\ l <= n + 1 /\ n + 1 <= Len(t)
    BY <1>1
  <2> QED BY <1>1, <2>1, SubSeqType
<1> HIDE DEF p, q
<1>4. /\ Append(p, v) \in Seq(Word) /\ Len(Append(p, v)) = Len(p) + 1
      /\ \A k \in 1..Len(p) : Append(p, v)[k] = p[k]
      /\ Append(p, v)[Len(p) + 1] = v
  BY <1>2
<1>5. ASSUME NEW k \in 1..((n + 1) - l) PROVE q[k] = Append(p, v)[k]
  <2>1. CASE k = (n + 1) - l
    <3>1. l + k = n + 1 /\ k = Len(p) + 1
      BY <1>1, <1>2, <2>1
    <3> QED BY <1>1, <1>3, <1>4, <3>1
  <2>2. CASE k # (n + 1) - l
    <3>1. l + k \in 1..n /\ k \in 1..(n - l) /\ k \in 1..Len(p)
      BY <1>1, <1>2, <2>2
    <3> QED BY <1>1, <1>2, <1>3, <1>4, <3>1
  <2> QED BY <2>1, <2>2
<1>6. Len(q) = Len(Append(p, v)) /\ Len(q) = (n + 1) - l
  BY <1>1, <1>2, <1>3, <1>4
<1>7. q = Append(p, v)
  BY <1>3, <1>4, <1>5, <1>6, SameSequence
<1> QED BY <1>7 DEF p, q, t

(* The stack t and the frames ds are s and cs with a result stored. *)
Stored(s, cs, dest, v, t, ds) ==
    t = StackWith(s, dest, v) /\ ds = LocalsWith(cs, dest, v)

StoredInLocals(cs, dest, v, ds) ==
    cs # <<>> /\ dest \in Local =>
        ds[Len(cs)].locals = [cs[Len(cs)].locals EXCEPT ![dest] = v]

LEMMA StoredInLastFrame ==
    ASSUME NEW s \in Seq(Word), NEW cs \in Seq(Frame), NEW dest, NEW v \in Word,
           NEW t, NEW ds, Stored(s, cs, dest, v, t, ds)
    PROVE  SameButLocals(cs, ds) /\ StoredInLocals(cs, dest, v, ds)
<1> DEFINE n == Len(cs)
           l == [cs[n].locals EXCEPT ![dest] = v]
           f == [cs[n] EXCEPT !.locals = l]
<1>1. CASE dest \notin Local \/ cs = <<>>
  <2>1. ds = cs
    BY <1>1 DEF LocalsWith, Stored
  <2> QED BY <1>1, <2>1 DEF SameButLocals, StoredInLocals
<1>2. CASE dest \in Local /\ cs # <<>>
  <2>1. n \in 1..n /\ cs[n] \in Frame
    BY <1>2
  <2>2. ds = [cs EXCEPT ![n] = f]
    BY <1>2 DEF LocalsWith, Stored
  <2> HIDE DEF l
  <2>3. /\ f.returnPC = cs[n].returnPC /\ f.prevStackDepth = cs[n].prevStackDepth
        /\ f.argCount = cs[n].argCount /\ f.resultStorage = cs[n].resultStorage
        /\ f.locals = l
    BY <2>1 DEF Frame
  <2> HIDE DEF f
  <2>4. \A i \in 1..n : ds[i] = IF i = n THEN f ELSE cs[i]
    BY <2>1, <2>2
  <2>5. ds[n] = f
    BY <2>1, <2>4
  <2>6. Len(ds) = Len(cs)
    BY <2>1, <2>2
  <2>7. SameButLocals(cs, ds)
    BY <2>3, <2>4, <2>6 DEF SameButLocals
  <2> QED BY <2>3, <2>5, <2>7 DEF l, StoredInLocals
<1> QED BY <1>1, <1>2

(* Pushing a result on the flat stack, or writing it in the last frame, is  *)
(* delivering it to the last activation.                                    *)
LEMMA DeliverToActivations ==
    ASSUME NEW s, NEW cs, Flat(s, cs), NEW T,
           NEW t, NEW ds, Flat(t, ds),
           NEW dest \in {None} \cup Variable, NEW v \in Word,
           Stored(s, cs, dest, v, t, ds)
    PROVE  Activations(t, ds, T) = Calls!DeliveredTo(Activations(s, cs, T), dest, v)
<1>f. /\ s \in Seq(Word) /\ cs \in Seq(Frame) /\ Disciplined(s, cs)
      /\ t \in Seq(Word) /\ ds \in Seq(Frame) /\ Disciplined(t, ds)
  BY Zenon DEF Flat
<1> USE <1>f
<1> DEFINE n == Len(cs)
           as == Activations(s, cs, T)
           bs == Activations(t, ds, T)
           a == Part(s, cs, T, n)
           b == Part(t, ds, T, n)
<1>1. n \in Nat /\ n \in 0..n /\ Len(s) \in Nat /\ Len(as) = n + 1
  BY ActivationsType
<1>2. CASE dest # 0 /\ dest \notin 1..15
  <2>1. t = s /\ ds = cs
    BY <1>2 DEF Stored, StackWith, LocalsWith, Local
  <2> QED BY <1>2, <2>1 DEF Calls!DeliveredTo
<1>0. SameButLocals(cs, ds) /\ StoredInLocals(cs, dest, v, ds)
  BY StoredInLastFrame
<1>3. SameButLocals(cs, ds) /\ Len(ds) = n
  BY <1>0 DEF SameButLocals
<1>4. \A i \in 1..n : ds[i].prevStackDepth = cs[i].prevStackDepth
  BY <1>3, Zenon DEF SameButLocals
<1>5. n = 0 \/ n \in 1..n
  BY <1>1
<1>6. Low(cs, n) \in Nat /\ Low(cs, n) <= Len(s) /\ Low(ds, n) = Low(cs, n)
  <2>1. Low(cs, n) \in Nat /\ Low(cs, n) <= Len(s)
    <3>1. High(s, cs, n) = Len(s)
      BY DEF High
    <3> QED BY <1>1, <3>1, Bounds
  <2> QED BY <1>4, <1>5, <2>1 DEF Low
<1>7. \A k \in 1..Len(s) : t[k] = s[k]
  BY DEF Stored, StackWith
<1>8. /\ \A k \in 1..n : as[k] = bs[k]
      /\ as \in Seq(Activation) /\ bs \in Seq(Activation) /\ Len(bs) = n + 1
      /\ as[n + 1] = a /\ bs[n + 1] = b
      /\ a \in Activation /\ b \in Activation
      /\ b = [a EXCEPT !.stack = b.stack, !.locals = b.locals]
  <2>1. SameBelow(s, t, Low(cs, n))
    BY <1>1, <1>6, <1>7 DEF SameBelow
  <2>2. \A i \in 1..n : i \in T <=> i \in T
    OBVIOUS
  <2>3. WorksOn(as, bs) /\ \A k \in 1..n : as[k] = bs[k]
    BY <1>3, <2>1, <2>2, WorkOnActivations
  <2>4. /\ as \in Seq(Activation) /\ bs \in Seq(Activation) /\ Len(bs) = n + 1
        /\ as[n + 1] = a /\ bs[n + 1] = b
    BY <1>1, <1>3, ActivationsType
  <2>6. a \in Activation /\ b \in Activation
    BY <1>1, <1>3, PartType
  <2> HIDE DEF as, bs, a, b
  <2>7. b = [a EXCEPT !.stack = b.stack, !.locals = b.locals]
    BY <1>1, <2>3, <2>4 DEF WorksOn
  <2> QED BY <2>3, <2>4, <2>6, <2>7
<1>9. bs = [as EXCEPT ![n + 1] = b]
  BY <1>1, <1>8, LastReplaced
<1>10. CASE dest = 0
  <2>1. ds = cs /\ t = Append(s, v) /\ Len(t) = Len(s) + 1
    BY <1>10 DEF Stored, StackWith, LocalsWith, Local
  <2>2. b.locals = a.locals
    BY <2>1 DEF Part
  <2>3. b.stack = Append(a.stack, v)
    <3>1. a.stack = Owned(s, cs, n) /\ b.stack = Owned(t, ds, n)
      BY DEF Part
    <3>2. High(s, cs, n) = Len(s) /\ High(t, ds, n) = Len(s) + 1
      BY <1>3, <2>1 DEF High
    <3>3. Owned(s, cs, n) = SubSeq(s, Low(cs, n) + 1, Len(s))
      BY <1>1, <3>2, Bounds
    <3>4. Owned(t, ds, n) = SubSeq(t, Low(cs, n) + 1, Len(s) + 1)
      BY ZenonT(40), <1>1, <1>3, <1>6, <3>2, Bounds
    <3> QED BY ZenonT(40), <1>6, <2>1, <3>1, <3>3, <3>4, PushedOnPart
  <2> HIDE DEF a, b, as, bs
  <2>4. b = [a EXCEPT !.stack = Append(a.stack, v)]
    BY <1>8, <2>2, <2>3 DEF Activation
  <2>5. Calls!DeliveredTo(as, dest, v) =
            [as EXCEPT ![n + 1] = [as[n + 1] EXCEPT !.stack = Append(as[n + 1].stack, v)]]
    BY <1>1, <1>10 DEF Calls!DeliveredTo
  <2>6. bs = Calls!DeliveredTo(as, dest, v)
    BY <1>8, <1>9, <2>4, <2>5
  <2> QED BY <2>6 DEF as, bs
<1>11. CASE dest \in 1..15
  <2>1. t = s /\ dest # 0
    BY <1>11 DEF Stored, StackWith
  <2>2. b.stack = a.stack
    <3>1. a.stack = Owned(s, cs, n) /\ b.stack = Owned(t, ds, n)
      BY DEF Part
    <3>2. High(s, cs, n) = Len(s) /\ High(t, ds, n) = Len(s)
      BY <1>3, <2>1 DEF High
    <3>3. Owned(s, cs, n) = SubSeq(s, Low(cs, n) + 1, Len(s))
      BY <1>1, <3>2, Bounds
    <3>4. Owned(t, ds, n) = SubSeq(t, Low(cs, n) + 1, Len(s))
      BY SMTT(30), <1>1, <1>3, <1>6, <3>2, Bounds
    <3> QED BY <2>1, <3>1, <3>3, <3>4
  <2>3. b.locals = [a.locals EXCEPT ![dest] = v]
    <3>1. CASE n = 0
      <4>1. a.locals = <<>> /\ b.locals = <<>>
        BY <3>1 DEF Part
      <4>2. [<<>> EXCEPT ![dest] = v] = <<>>
        BY <1>11
      <4> QED BY <4>1, <4>2
    <3>2. CASE n # 0
      <4>1. a.locals = cs[n].locals /\ b.locals = ds[n].locals
        BY <3>2 DEF Part
      <4>2. cs # <<>>
        BY <3>2
      <4> QED BY <1>0, <1>11, <4>1, <4>2 DEF Local, StoredInLocals
    <3> QED BY <3>1, <3>2
  <2> HIDE DEF a, b, as, bs
  <2>4. b = [a EXCEPT !.locals = [a.locals EXCEPT ![dest] = v]]
    BY <1>8, <2>2, <2>3 DEF Activation
  <2>5. Calls!DeliveredTo(as, dest, v) =
            [as EXCEPT ![n + 1] =
                [as[n + 1] EXCEPT !.locals = [as[n + 1].locals EXCEPT ![dest] = v]]]
    BY <1>1, <1>11, <2>1 DEF Calls!DeliveredTo
  <2>6. bs = Calls!DeliveredTo(as, dest, v)
    BY <1>8, <1>9, <2>4, <2>5
  <2> QED BY <2>6 DEF as, bs
<1> QED BY <1>2, <1>10, <1>11

-----------------------------------------------------------------------------
(* The state of ZMachineCore seen as one of RoutineCalls. *)

Acts == Activations(IF ResultPending THEN Pop(stack, 1) ELSE stack,
                    callStack, TimerFrames)
Undo == [i \in 1..Len(undoStates) |-> AbstractSnapshot(undoStates[i])]
File == AbstractSnapshot(saveFile)

LEMMA CallsWork ==
    ASSUME WorksOn(Acts, Acts'), Undo' = Undo, File' = File
    PROVE  Calls!Work
BY DEF WorksOn, Calls!Work, Calls!Current, Calls!Under, Acts, Undo, File

LEMMA CallsEnter ==
    ASSUME Enters(Acts, Acts'), Undo' = Undo, File' = File, globals' = globals
    PROVE  Calls!Enter
BY DEF Enters, Calls!Enter, Calls!Current, Calls!Under, Acts, Undo, File

LEMMA CallsLeave ==
    ASSUME NEW n, NEW v,
           Acts' = Calls!DeliveredTo(Calls!Under(Acts, n), Acts[n].resultStorage, v),
           globals' = Calls!GlobalsWith(globals, Acts[n].resultStorage, v),
           pc' = Acts[n].returnPC, Undo' = Undo, File' = File
    PROVE  Calls!Leave(n, v)
BY DEF Calls!Leave, Acts, Undo, File

LEMMA CallsStutter ==
    ASSUME Acts' = Acts, Undo' = Undo, File' = File, globals' = globals, pc' = pc
    PROVE  UNCHANGED Calls!vars
BY DEF Calls!vars, Acts, Undo, File

LEMMA SavedUnchanged ==
    ASSUME undoStates' = undoStates, saveFile' = saveFile
    PROVE  Undo' = Undo /\ File' = File
BY DEF Undo, File

LEMMA BaseIsLow ==
    ASSUME SafeInv
    PROVE  /\ Base = Low(callStack, Len(callStack))
           /\ Base \in Nat /\ Len(stack) \in Nat /\ Base <= Len(stack)
           /\ Len(callStack) \in Nat
<1>1. stack \in Seq(Word) /\ callStack \in Seq(Frame) /\ Disciplined(stack, callStack)
  BY SafeFacts
<1>2. Len(callStack) \in 0..Len(callStack) /\ Len(stack) \in Nat
  BY <1>1
<1>3. Base = Low(callStack, Len(callStack))
  BY <1>1 DEF Base, Low, Top
<1>4. High(stack, callStack, Len(callStack)) = Len(stack)
  BY DEF High
<1> QED BY <1>1, <1>2, <1>3, <1>4, Bounds

(* No result waits for its loop while an instruction executes, nor after an *)
(* instruction that stays in its routine.                                   *)
LEMMA NothingPends ==
    ASSUME SafeInv, Executing
    PROVE  /\ ~ResultPending
           /\ readers' = readers /\ awaiting' = awaiting
              /\ Len(callStack') = Len(callStack)
              => ~ResultPending' /\ TimerFrames' = TimerFrames
<1>1. Interrupted => Len(callStack) >= Top(readers).depth
  BY DEF Executing, InLoop, Interrupted
<1>2. Len(callStack) \in Nat /\ (Interrupted => Top(readers).depth \in Nat)
  BY BaseIsLow, ExecutingDepth DEF IsTimerFrame
<1>3. Interrupted => ~(Len(callStack) < Top(readers).depth)
  BY <1>1, <1>2
<1>4. ~ResultPending
  BY <1>3 DEF ResultPending
<1>5. ASSUME readers' = readers, awaiting' = awaiting, Len(callStack') = Len(callStack)
      PROVE  ~ResultPending' /\ TimerFrames' = TimerFrames
  BY <1>3, <1>5 DEF ResultPending, TimerFrames, Interrupted
<1> QED BY <1>4, <1>5

(* An instruction that takes operands and stores a result works on the      *)
(* routine that executes it.                                                *)
LEMMA StoringWorks ==
    ASSUME SafeInv, ~ResultPending, ~ResultPending',
           \A i \in 1..Len(callStack) : i \in TimerFrames <=> i \in TimerFrames',
           NEW dest \in {None} \cup Variable, NEW v \in Word,
           NEW s \in Seq(Word), Disciplined(s, callStack), SameBelow(stack, s, Base),
           StoreResult(dest, v, s, callStack, globals),
           Undo' = Undo, File' = File
    PROVE  Calls!Work
<1>1. /\ stack \in Seq(Word) /\ callStack \in Seq(Frame)
      /\ globals \in [Global -> Word] /\ Disciplined(stack, callStack)
  BY SafeFacts
<1>2. stack' \in Seq(Word) /\ callStack' \in Seq(Frame) /\ Disciplined(stack', callStack')
  BY <1>1, StoreResultType, StoreDiscipline
<1>3. Stored(s, callStack, dest, v, stack', callStack')
  BY DEF Stored, StoreResult
<1>4. SameButLocals(callStack, callStack')
  BY <1>1, <1>3, StoredInLastFrame
<1>5. SameBelow(stack, stack', Base)
  <2>1. Base \in Nat /\ Base <= Len(s) /\ Len(s) \in Nat
    <3>1. High(s, callStack, Len(callStack)) = Len(s)
      BY DEF High
    <3> QED BY <1>1, <3>1, BaseIsLow, Bounds
  <2>2. \A k \in 1..Len(s) : stack'[k] = s[k]
    BY DEF StoreResult, StackWith
  <2>3. \A k \in 1..Base : k \in 1..Len(s)
    BY <2>1
  <2> QED BY <2>2, <2>3 DEF SameBelow
<1>6. WorksOn(Activations(stack, callStack, TimerFrames),
              Activations(stack', callStack', TimerFrames'))
  BY <1>1, <1>2, <1>4, <1>5, BaseIsLow, WorkOnActivations
<1>7. WorksOn(Acts, Acts')
  BY <1>6 DEF Acts
<1> QED BY <1>7, CallsWork

(* The same for the instructions that leave input alone. *)
LEMMA InstructionWorks ==
    ASSUME SafeInv, Executing,
           NEW dest \in {None} \cup Variable, NEW v \in Word,
           NEW s \in Seq(Word), Disciplined(s, callStack), SameBelow(stack, s, Base),
           StoreResult(dest, v, s, callStack, globals),
           readers' = readers, awaiting' = awaiting,
           Undo' = Undo, File' = File
    PROVE  Calls!Work
<1>1. Len(callStack') = Len(callStack)
  BY SafeFacts, StoreDiscipline
<1>2. ~ResultPending /\ ~ResultPending' /\ TimerFrames' = TimerFrames
  BY <1>1, NothingPends
<1>3. \A i \in 1..Len(callStack) : i \in TimerFrames <=> i \in TimerFrames'
  BY <1>2
<1> QED BY <1>2, <1>3, StoringWorks

LEMMA PoppedBelow ==
    ASSUME SafeInv, NEW k \in 0..Len(stack), Len(stack) - k >= Base
    PROVE  SameBelow(stack, Pop(stack, k), Base)
<1>1. \A i \in 1..(Len(stack) - k) : Pop(stack, k)[i] = stack[i]
  BY SafeFacts, PopType
<1> QED BY <1>1, BaseIsLow DEF SameBelow

LEMMA SameStackBelow == SameBelow(stack, stack, Base)
BY DEF SameBelow

LEMMA ComputeWorks ==
    ASSUME Lawful, SafeInv, NEW k \in 0..2,
           NEW dest \in InScope \cup {None}, NEW v \in Data, NEW next \in Addr,
           Compute(k, dest, v, next)
    PROVE  Calls!Work
<1>1. k \in 0..Len(stack) /\ Pop(stack, k) \in Seq(Word)
      /\ Disciplined(Pop(stack, k), callStack)
      /\ Len(Pop(stack, k)) = Len(stack) - k /\ Len(Pop(stack, k)) >= Base
  BY SafeFacts, LawfulPop DEF Compute
<1>2. SameBelow(stack, Pop(stack, k), Base)
  BY <1>1, PoppedBelow
<1>3. v \in Word /\ dest \in {None} \cup Variable
  BY SafeFacts, InScopeType, BoundAssumption
<1> QED BY <1>1, <1>2, <1>3, InstructionWorks, SavedUnchanged DEF Compute

(* The word that a variable instruction replaces is above the base too. *)
LEMMA ReplacedBelow ==
    ASSUME SafeInv, NEW s \in Seq(Word), SameBelow(stack, s, Base), NEW dest,
           dest = 0 => Len(s) - 1 >= Base
    PROVE  SameBelow(stack, IF dest = 0 THEN Pop(s, 1) ELSE s, Base)
<1>1. CASE dest = 0
  <2>1. Base \in Nat /\ Len(s) \in Nat
    BY BaseIsLow
  <2>2. 1 \in 0..Len(s) /\ \A k \in 1..Base : k \in 1..(Len(s) - 1)
    BY <1>1, <2>1
  <2>3. \A k \in 1..(Len(s) - 1) : Pop(s, 1)[k] = s[k]
    BY <2>2, PopType
  <2> QED BY <1>1, <2>2, <2>3 DEF SameBelow
<1>2. CASE dest # 0
  BY <1>2
<1> QED BY <1>1, <1>2

LEMMA AssignWorks ==
    ASSUME Lawful, SafeInv, NEW k \in 0..1, NEW dest \in InScope,
           NEW v \in Data, NEW next \in Addr, Assign(k, dest, v, next)
    PROVE  Calls!Work
<1> DEFINE n == IF dest = 0 THEN k + 1 ELSE k
           w == IF k = 1 THEN Top(stack) ELSE v
           s == Pop(stack, k)
           r == IF dest = 0 THEN Pop(s, 1) ELSE s
<1>1. Base \in Nat /\ Len(stack) \in Nat
  BY BaseIsLow
<1>2. n \in 0..Len(stack) /\ Len(Pop(stack, n)) = Len(stack) - n
      /\ Len(Pop(stack, n)) >= Base
  BY SafeFacts, LawfulPop DEF Assign
<1>3. k \in 0..Len(stack) /\ Len(stack) - k >= Base
      /\ (dest = 0 => Len(stack) - k - 1 >= Base)
  BY <1>1, <1>2
<1>4. s \in Seq(Word) /\ Len(s) = Len(stack) - k
  BY <1>3, SafeFacts, PopType
<1>5. Len(s) >= Base /\ (dest = 0 => Len(s) - 1 >= Base)
  BY <1>3, <1>4
<1>6. w \in Word /\ dest \in {None} \cup Variable
  <2>1. k = 1 => stack # <<>>
    BY <1>3
  <2> QED BY <2>1, SafeFacts, TopType, InScopeType, BoundAssumption
<1>7. r \in Seq(Word) /\ Disciplined(r, callStack)
  BY <1>4, <1>5, ReplaceTop
<1>8. SameBelow(stack, r, Base)
  <2>1. SameBelow(stack, s, Base)
    BY <1>3, PoppedBelow
  <2> HIDE DEF s
  <2> QED BY <1>4, <1>5, <2>1, ReplacedBelow
<1>9. StoreResult(dest, w, r, callStack, globals)
  BY DEF Assign, StoreVariableImpl
<1> HIDE DEF r, w
<1> QED BY <1>6, <1>7, <1>8, <1>9, InstructionWorks, SavedUnchanged DEF Assign

LEMMA IncrementWorks ==
    ASSUME Lawful, SafeInv, NEW dest \in InScope, NEW amount \in {-1, 1},
           NEW next \in Addr, Increment(dest, amount, next)
    PROVE  Calls!Work
<1> DEFINE w == (LoadVariableImpl(dest) + amount) % WordSize
           r == IF dest = 0 THEN Pop(stack, 1) ELSE stack
<1>1. Base \in Nat /\ Len(stack) \in Nat /\ Len(stack) >= Base
  BY BaseIsLow
<1>2. dest = 0 => Len(stack) - 1 >= Base /\ stack # <<>>
  <2>1. dest = 0 => CanPop(1)
    BY DEF Increment
  <2>2. dest = 0 => 1 \in 0..Len(stack) /\ Len(Pop(stack, 1)) = Len(stack) - 1
                    /\ Len(Pop(stack, 1)) >= Base
    BY <2>1, SafeFacts, LawfulPop
  <2> QED BY <1>1, <2>2
<1>3. w \in Word /\ dest \in {None} \cup Variable
  <2>1. LoadVariableImpl(dest) \in Word
    BY <1>2, SafeFacts, LoadType
  <2>2. LoadVariableImpl(dest) + amount \in Int
    BY <2>1, WordAssumption DEF Word
  <2> QED BY <2>2, SafeFacts, ModIsWord, InScopeType
<1>4. r \in Seq(Word) /\ Disciplined(r, callStack)
  BY <1>1, <1>2, SafeFacts, ReplaceTop
<1>5. SameBelow(stack, r, Base)
  BY <1>2, SafeFacts, SameStackBelow, ReplacedBelow
<1>6. StoreResult(dest, w, r, callStack, globals)
  BY DEF Increment, StoreVariableImpl
<1> HIDE DEF r, w
<1> QED BY <1>3, <1>4, <1>5, <1>6, InstructionWorks, SavedUnchanged DEF Increment

LEMMA CatchWorks ==
    ASSUME Lawful, SafeInv, NEW dest \in InScope, NEW next \in Addr, Catch(dest, next)
    PROVE  Calls!Work
<1>1. Len(callStack) % WordSize \in Word /\ dest \in {None} \cup Variable
  BY SafeFacts, ModIsWord, InScopeType
<1> QED BY <1>1, SafeFacts, SameStackBelow, InstructionWorks, SavedUnchanged DEF Catch

(* An instruction that stores its result and takes no operand. *)
LEMMA StoresOnly ==
    ASSUME SafeInv, Executing, NEW dest \in InScope, NEW v \in {0, 1},
           StoreResult(dest, v, stack, callStack, globals),
           readers' = readers, awaiting' = awaiting, Undo' = Undo, File' = File
    PROVE  Calls!Work
<1>1. v \in Word /\ dest \in {None} \cup Variable
  BY SafeFacts, SmallWords, InScopeType
<1> QED BY <1>1, SafeFacts, SameStackBelow, InstructionWorks

LEMMA QuitStutters ==
    ASSUME SafeInv, Quit
    PROVE  UNCHANGED Calls!vars
<1>1. Acts' = Acts
  BY DEF Quit, Acts, ResultPending, TimerFrames, Interrupted
<1> QED BY <1>1, SavedUnchanged, CallsStutter DEF Quit

-----------------------------------------------------------------------------
(* Input and timers *)

(* What the readers' depths are, by the shape of the readers. *)
LEMMA ReaderDepths ==
    ASSUME SafeInv
    PROVE  /\ Len(readers) \in Nat
           /\ \A i \in 1..Len(readers) : readers[i].depth \in Nat
           /\ \A i \in 1..(Len(readers) - 1) :
                 /\ readers[i].depth \in 1..Len(callStack)
                 /\ i \in 1..Len(readers)
                 /\ readers[Len(readers)].depth > 0
                       => readers[i].depth < readers[Len(readers)].depth
<1>1. readers \in Seq(Reader) /\ ReaderShape
  BY SafeFacts
<1>2. \A i \in 1..Len(readers) : readers[i].depth \in Nat
  <2>1. \A i \in 1..Len(readers) : readers[i] \in Reader
    BY <1>1
  <2> QED BY <2>1 DEF Reader
<1>3. \A i \in 1..(Len(readers) - 1) :
          i \in 1..Len(readers) /\ Len(readers) \in 1..Len(readers) /\ i < Len(readers)
  BY <1>1
<1>4. \A i \in 1..(Len(readers) - 1) : readers[i].depth \in 1..Len(callStack)
  BY <1>1 DEF ReaderShape, IsTimerFrame
<1> QED BY <1>1, <1>2, <1>3, <1>4 DEF ReaderShape

(* The timer routines' frames on the call stack, all but the last of which  *)
(* an outer input instruction waits for.                                    *)
LEMMA TimerFramesAre ==
    ASSUME SafeInv, Interrupted
    PROVE  \A d \in 1..Len(callStack) :
               d \in TimerFrames <=>
                   \/ \E i \in 1..(Len(readers) - 1) : d = readers[i].depth
                   \/ ~awaiting /\ d = Top(readers).depth
<1> DEFINE n == Len(readers)
           outer == {readers[i].depth : i \in 1..(n - 1)}
<1>1. readers \in Seq(Reader) /\ n \in Nat \ {0} /\ Top(readers) = readers[n]
  BY SafeFacts DEF Interrupted, Top
<1>2. \A i \in 1..n : i = n \/ i \in 1..(n - 1)
  BY <1>1
<1>3. {readers[j].depth : j \in 1..n} = outer \cup {readers[n].depth}
  BY <1>1, <1>2
<1>4. ASSUME NEW d \in 1..Len(callStack), d = readers[n].depth
      PROVE  d \notin outer
  <2>1. readers[n].depth > 0
    BY <1>4, BaseIsLow
  <2>2. \A i \in 1..(n - 1) : readers[i].depth < readers[n].depth
                              /\ readers[i].depth \in Nat
    BY <2>1, ReaderDepths
  <2> QED BY <1>4, <2>2
<1>5. ASSUME NEW d \in 1..Len(callStack)
      PROVE  d \in TimerFrames <=> d \in outer \/ (~awaiting /\ d = readers[n].depth)
  <2>1. CASE awaiting
    BY <1>1, <1>3, <1>4, <1>5, <2>1 DEF TimerFrames
  <2>2. CASE ~awaiting
    BY <1>1, <1>3, <2>2 DEF TimerFrames
  <2> QED BY <2>1, <2>2
<1> QED BY <1>1, <1>5

LEMMA WorksOnItself ==
    ASSUME SafeInv, ~ResultPending, Acts' = Acts, Undo' = Undo, File' = File
    PROVE  Calls!Work
<1>1. Acts \in Seq(Activation) /\ Len(Acts) = Len(callStack) + 1
  BY SafeFacts, ActivationsType DEF Acts
<1>2. Len(Acts) \in 1..Len(Acts)
  BY <1>1, BaseIsLow
<1>3. Acts[Len(Acts)] \in Activation
  BY <1>1, <1>2
<1>4. Acts[Len(Acts)] = [Acts[Len(Acts)] EXCEPT !.stack = Acts[Len(Acts)].stack,
                                                !.locals = Acts[Len(Acts)].locals]
  BY <1>3, SameButWork
<1>5. WorksOn(Acts, Acts')
  BY <1>4 DEF WorksOn
<1> QED BY <1>5, CallsWork

LEMMA ReadWorks ==
    ASSUME Lawful, SafeInv, NEW dest \in InScope \cup {None}, NEW next \in Addr,
           NEW end \in Addr, Read(dest, next, end)
    PROVE  Calls!Work
<1> DEFINE n == Len(readers)
           r == [nextPC |-> next, dest |-> dest, depth |-> 0]
<1>1. readers \in Seq(Reader) /\ n \in Nat
  BY SafeFacts
<1>2. /\ Len(readers') = n + 1 /\ readers' # <<>>
      /\ \A i \in 1..n : readers'[i].depth = readers[i].depth
      /\ readers'[n + 1].depth = 0
  <2>1. readers' = Append(readers, r)
    BY DEF Read
  <2>2. /\ \A i \in 1..n : Append(readers, r)[i] = readers[i]
        /\ Append(readers, r)[n + 1] = r /\ Len(Append(readers, r)) = n + 1
        /\ Append(readers, r) # <<>>
    BY <1>1
  <2> QED BY <2>1, <2>2
<1>3. awaiting' /\ ~awaiting /\ callStack' = callStack /\ stack' = stack
  BY DEF Read, Executing
<1>4. ~ResultPending /\ ~ResultPending'
  BY <1>3, NothingPends DEF Read, ResultPending
<1>5. \A d \in 1..Len(callStack) : d \in TimerFrames <=> \E i \in 1..n : d = readers[i].depth
  BY <1>3 DEF TimerFrames
<1>6. \A d \in 1..Len(callStack) : d \in TimerFrames' <=> \E i \in 1..n : d = readers[i].depth
  <2>1. TimerFrames' = {readers'[j].depth : j \in 1..(n + 1)} \ {0}
    BY <1>1, <1>2, <1>3 DEF TimerFrames, Top
  <2>2. \A j \in 1..(n + 1) : j = n + 1 \/ j \in 1..n
    BY <1>1
  <2>3. \A j \in 1..n : j \in 1..(n + 1)
    BY <1>1
  <2>4. \A d \in 1..Len(callStack) : d # 0
    BY BaseIsLow
  <2> QED BY <1>2, <2>1, <2>2, <2>3, <2>4
<1>7. Acts' = Acts
  <2>1. Activations(stack, callStack, TimerFrames)
            = Activations(stack, callStack, TimerFrames')
    BY <1>5, <1>6, SafeFacts, SameTimers
  <2> QED BY <1>3, <1>4, <2>1 DEF Acts
<1> QED BY <1>4, <1>7, SavedUnchanged, WorksOnItself DEF Read

LEMMA ReadDoneWorks ==
    ASSUME Lawful, SafeInv, SafeInv', NEW v \in Data, ReadDone(v)
    PROVE  Calls!Work
<1> DEFINE n == Len(readers)
<1>1. /\ readers \in Seq(Reader) /\ n \in Nat \ {0} /\ Interrupted
      /\ n - 1 \in Nat /\ awaiting
  BY SafeFacts DEF ReadDone, Interrupted
<1>2. Top(readers).dest \in {None} \cup Variable /\ v \in Word
  <2>1. Top(readers) \in Reader
    BY <1>1, TopType
  <2> QED BY <2>1, BoundAssumption DEF Reader
<1>3. Len(callStack') = Len(callStack)
  BY ZenonT(40), <1>2, SafeFacts, StoreDiscipline DEF ReadDone
<1>4. /\ Len(readers') = n - 1 /\ readers' \in Seq(Reader)
      /\ \A i \in 1..(n - 1) : readers'[i] = readers[i]
  <2>1. 1 \in 0..n
    BY <1>1
  <2> QED BY <1>1, <2>1, PopType DEF ReadDone
<1>5. ~ResultPending /\ ~ResultPending'
  <2>1. CASE readers' = <<>>
    BY <1>1, <2>1 DEF ResultPending, Interrupted
  <2>2. CASE readers' # <<>>
    <3>1. n - 1 \in 1..(n - 1) /\ Top(readers') = readers'[n - 1]
      BY <1>1, <1>4, <2>2 DEF Top
    <3>2. Top(readers').depth \in 1..Len(callStack)
      BY <1>4, <3>1, ReaderDepths
    <3> QED BY <1>1, <1>3, <3>2, BaseIsLow DEF ResultPending
  <2> QED BY <2>1, <2>2
<1>6. \A d \in 1..Len(callStack) :
          d \in TimerFrames <=> \E i \in 1..(n - 1) : d = readers[i].depth
  BY <1>1, TimerFramesAre
<1>7. \A d \in 1..Len(callStack) :
          d \in TimerFrames' <=> \E i \in 1..(n - 1) : d = readers[i].depth
  BY <1>4 DEF ReadDone, TimerFrames
<1>8. \A d \in 1..Len(callStack) : d \in TimerFrames <=> d \in TimerFrames'
  BY <1>6, <1>7
<1> QED
  BY <1>2, <1>5, <1>8, SafeFacts, SameStackBelow, StoringWorks, SavedUnchanged
  DEF ReadDone

(* The loop takes back the result that was never the program's. *)
LEMMA TimerRoutineDoneStutters ==
    ASSUME Lawful, SafeInv, SafeInv', TimerRoutineDone
    PROVE  UNCHANGED Calls!vars
<1>1. /\ readers # <<>> /\ ~awaiting /\ Interrupted /\ running
      /\ ~(Len(callStack) >= Top(readers).depth)
  BY SafeFacts DEF TimerRoutineDone, InLoop, Interrupted, ReaderShape
<1>2. Len(callStack) \in Nat /\ Top(readers).depth \in Nat
  <2>1. Top(readers) \in Reader
    BY <1>1, SafeFacts, TopType
  <2> QED BY <2>1, BaseIsLow DEF Reader
<1>3. ResultPending
  BY <1>1, <1>2 DEF ResultPending
<1>4. /\ stack' = Pop(stack, 1) /\ awaiting' /\ callStack' = callStack
      /\ readers' = readers
  BY SafeFacts DEF TimerRoutineDone, SafeInv, NoFault
<1>5. ~ResultPending'
  BY <1>4 DEF ResultPending
<1>6. \A d \in 1..Len(callStack) : d \in TimerFrames <=> d \in TimerFrames'
  <2>1. \A d \in 1..Len(callStack) : d # Top(readers).depth
    BY <1>1, <1>2
  <2> QED BY <1>1, <1>4, <2>1 DEF TimerFrames
<1>7. Pop(stack, 1) \in Seq(Word) /\ Disciplined(Pop(stack, 1), callStack)
  BY <1>4 DEF SafeInv, TypeInv, TypeOK
<1>8. Activations(Pop(stack, 1), callStack, TimerFrames)
          = Activations(Pop(stack, 1), callStack, TimerFrames')
  BY <1>6, <1>7, SafeFacts, SameTimers
<1>9. Acts' = Acts
  BY <1>3, <1>4, <1>5, <1>8 DEF Acts
<1> QED BY <1>9, SavedUnchanged, CallsStutter DEF TimerRoutineDone

-----------------------------------------------------------------------------
(* Calls and returns *)

LEMMA EnteringEnters ==
    ASSUME SafeInv, SafeInv', ~ResultPending, ~ResultPending',
           \A i \in 1..Len(callStack) : i \in TimerFrames <=> i \in TimerFrames',
           NEW r \in Routine, NEW args \in Args, NEW dest \in {None} \cup Variable,
           NEW returnPC \in Addr,
           NEW s \in Seq(Word), Disciplined(s, callStack),
           Len(s) <= Len(stack), SameBelow(stack, s, Len(s)), Base <= Len(s),
           EnterFunctionImpl(r, args, dest, returnPC, s),
           Undo' = Undo, File' = File
    PROVE  Calls!Enter
<1> DEFINE n == Len(callStack)
<1>1. /\ stack \in Seq(Word) /\ callStack \in Seq(Frame) /\ n \in Nat
      /\ Disciplined(stack, callStack)
  BY SafeFacts
<1>2. /\ stack' \in Seq(Word) /\ callStack' \in Seq(Frame)
      /\ Disciplined(stack', callStack')
  BY DEF SafeInv, TypeInv, TypeOK
<1>3. /\ callStack' = Append(callStack, NewFrame(r, args, dest, returnPC, s))
      /\ stack' = s /\ globals' = globals
  BY CodeAssumption DEF EnterFunctionImpl, NoRoutine
<1>4. /\ Len(callStack') = n + 1
      /\ \A i \in 1..n : callStack'[i] = callStack[i]
      /\ callStack'[n + 1].prevStackDepth = Len(s)
  <2>1. NewFrame(r, args, dest, returnPC, s).prevStackDepth = Len(s)
    BY DEF NewFrame
  <2> QED BY <1>1, <1>3, <2>1
<1>5. \A k \in 1..Len(stack') : stack'[k] = stack[k]
  BY <1>3 DEF SameBelow
<1>6. Low(callStack, n) <= Len(stack') /\ Len(stack') <= Len(stack)
  BY <1>3, BaseIsLow
<1>7. Enters(Activations(stack, callStack, TimerFrames),
             Activations(stack', callStack', TimerFrames'))
  BY <1>1, <1>2, <1>3, <1>4, <1>5, <1>6, EnterActivations
<1>8. Enters(Acts, Acts')
  BY <1>7 DEF Acts
<1> QED BY <1>3, <1>8, CallsEnter

LEMMA CallSimulated ==
    ASSUME Lawful, SafeInv, SafeInv', NEW k \in 0..2,
           NEW r \in Routine \cup {NoRoutine}, NEW args \in Args,
           NEW dest \in InScope \cup {None}, NEW next \in Addr,
           Call(k, r, args, dest, next)
    PROVE  Calls!Work \/ Calls!Enter
<1> DEFINE s == Pop(stack, k)
<1>1. /\ k \in 0..Len(stack) /\ s \in Seq(Word) /\ Disciplined(s, callStack)
      /\ Len(s) = Len(stack) - k /\ Len(s) >= Base
  BY SafeFacts, LawfulPop DEF Call
<1>2. dest \in {None} \cup Variable
  BY SafeFacts, InScopeType
<1>3. SameBelow(stack, s, Base)
  BY <1>1, PoppedBelow
<1>4. CASE r = NoRoutine
  <2>1. StoreResult(dest, 0, s, callStack, globals)
    BY <1>4, CodeAssumption DEF Call, EnterFunctionImpl
  <2> HIDE DEF s
  <2> QED BY <1>1, <1>2, <1>3, <2>1, SmallWords, InstructionWorks, SavedUnchanged DEF Call
<1>5. CASE r \in Routine
  <2>1. SameBelow(stack, s, Len(s))
    <3>1. \A i \in 1..(Len(stack) - k) : s[i] = stack[i]
      BY <1>1, SafeFacts, PopType
    <3> QED BY <1>1, <3>1 DEF SameBelow
  <2>2. Len(s) <= Len(stack) /\ Base <= Len(s)
    BY <1>1, BaseIsLow
  <2>3. ~ResultPending /\ ~ResultPending' /\ TimerFrames' = TimerFrames
    <3>1. Len(callStack') = Len(callStack) + 1
      BY <1>1, <1>2, <1>5, EnterDiscipline DEF Call
    <3>2. Interrupted => Len(callStack) >= Top(readers).depth
                         /\ Top(readers).depth \in Nat
      BY ExecutingDepth DEF Call, Executing, InLoop, Interrupted, IsTimerFrame
    <3>3. ~ResultPending'
      BY <3>1, <3>2, BaseIsLow DEF Call, ResultPending, Interrupted
    <3> QED BY <3>3, NothingPends DEF Call, TimerFrames
  <2>4. EnterFunctionImpl(r, args, dest, next, s)
    BY DEF Call
  <2>5. \A i \in 1..Len(callStack) : i \in TimerFrames <=> i \in TimerFrames'
    BY <2>3
  <2> HIDE DEF s
  <2>6. Calls!Enter
    BY <1>1, <1>2, <1>5, <2>1, <2>2, <2>3, <2>4, <2>5, EnteringEnters, SavedUnchanged
    DEF Call
  <2> QED BY <2>6
<1> QED BY <1>4, <1>5

LEMMA TimerFiresEnters ==
    ASSUME Lawful, SafeInv, SafeInv', NEW r \in Routine, TimerFires(r)
    PROVE  Calls!Enter
<1> DEFINE n == Len(readers)
           d == Len(callStack) + 1
<1>1. /\ readers \in Seq(Reader) /\ n \in Nat \ {0} /\ Interrupted /\ awaiting
      /\ Len(callStack) \in Nat /\ pc \in Addr
  BY SafeFacts DEF TimerFires, Interrupted, TypeOK
<1>2. <<>> \in Args /\ 0 \in {None} \cup Variable
  <2>1. <<>> \in [1..0 -> Data] /\ 0 \in 0..MaxArgs
    BY BoundAssumption
  <2> QED BY <2>1 DEF Args, Variable
<1>3. EnterFunctionImpl(r, <<>>, 0, pc, stack) /\ ~awaiting'
  BY DEF TimerFires, TimerResult
<1>4. Len(callStack') = d
  BY <1>1, <1>2, <1>3, SafeFacts, EnterDiscipline
<1>5. /\ Len(readers') = n /\ readers' \in Seq(Reader)
      /\ \A i \in 1..(n - 1) : readers'[i] = readers[i]
      /\ readers'[n].depth = d
  <2>1. readers' = [readers EXCEPT ![n].depth = d]
    BY DEF TimerFires
  <2>2. readers[n] \in Reader
    BY <1>1
  <2>3. [readers[n] EXCEPT !.depth = d].depth = d
    BY <2>2 DEF Reader
  <2>4. readers' \in Seq(Reader)
    BY DEF SafeInv, TypeInv, TypeOK
  <2> QED BY <1>1, <2>1, <2>3, <2>4
<1>6. ~ResultPending /\ ~ResultPending'
  <2>1. Top(readers').depth = d
    BY <1>1, <1>5 DEF Top
  <2>2. ~(d < d)
    BY <1>1
  <2> QED BY <1>1, <1>4, <2>1, <2>2 DEF ResultPending
<1>7. \A i \in 1..Len(callStack) : i \in TimerFrames <=> i \in TimerFrames'
  <2>1. \A i \in 1..Len(callStack) :
            i \in TimerFrames <=> \E j \in 1..(n - 1) : i = readers[j].depth
    BY <1>1, TimerFramesAre
  <2>2. TimerFrames' = {readers'[j].depth : j \in 1..n}
    BY <1>3, <1>5 DEF TimerFrames
  <2>3. \A j \in 1..n : j = n \/ j \in 1..(n - 1)
    BY <1>1
  <2>4. \A j \in 1..(n - 1) : j \in 1..n
    BY <1>1
  <2>5. \A i \in 1..Len(callStack) : i # d
    BY <1>1
  <2> QED BY ZenonT(40), <1>5, <2>1, <2>2, <2>3, <2>4, <2>5
<1>8. SameBelow(stack, stack, Len(stack)) /\ Base <= Len(stack) /\ Len(stack) <= Len(stack)
  BY BaseIsLow DEF SameBelow
<1> QED
  BY <1>1, <1>2, <1>3, <1>6, <1>7, <1>8, SafeFacts, EnteringEnters, SavedUnchanged
  DEF TimerFires

LEMMA LeavingLeaves ==
    ASSUME Lawful, SafeInv, SafeInv', Executing, NEW v \in Word,
           NEW s \in Seq(Word), Disciplined(s, callStack), SameBelow(stack, s, Base),
           NEW n \in 1..Len(callStack), Interrupted => n >= Top(readers).depth,
           LeaveFunctionImpl(v, s, SubSeq(callStack, 1, n)),
           readers' = readers, awaiting' = awaiting,
           Undo' = Undo, File' = File
    PROVE  Calls!Leave(n + 1, v)
<1> DEFINE frame == callStack[n]
           cs == SubSeq(callStack, 1, n - 1)
           t == SubSeq(s, 1, frame.prevStackDepth)
           as == Activations(t, cs, TimerFrames)
<1>1. /\ stack \in Seq(Word) /\ callStack \in Seq(Frame)
      /\ Disciplined(stack, callStack)
      /\ globals \in [Global -> Word] /\ Len(callStack) \in Nat
  BY SafeFacts
<1>2. frame \in Frame /\ frame.resultStorage \in {None} \cup Variable
  BY <1>1, FrameFields
<1>3. /\ frame.prevStackDepth \in 0..Len(s)
      /\ cs \in Seq(Frame) /\ Len(cs) = n - 1
      /\ \A i \in 1..(n - 1) : cs[i] = callStack[i]
      /\ t \in Seq(Word) /\ Len(t) = frame.prevStackDepth
      /\ Disciplined(t, cs)
  BY <1>1, CutDiscipline
<1>4. Top(SubSeq(callStack, 1, n)) = frame /\ Pop(SubSeq(callStack, 1, n), 1) = cs
  BY <1>1 DEF Top, Pop
<1>5. /\ StoreResult(frame.resultStorage, v, t, cs, globals)
      /\ pc' = frame.returnPC
  <2>1. ~(Len(s) < frame.prevStackDepth)
    BY <1>3
  <2> QED BY <1>4, <2>1 DEF LeaveFunctionImpl, TookTooMuch, Trimmed
<1>6. frame.prevStackDepth <= Base
  <2>1. Len(callStack) \in 1..Len(callStack) /\ Base = callStack[Len(callStack)].prevStackDepth
    BY <1>1 DEF Base, Top
  <2>2. n = Len(callStack) \/ n < Len(callStack)
    BY <1>1
  <2> QED BY <1>1, <2>1, <2>2, BaseIsLow DEF Disciplined
<1>7. \A k \in 1..Len(t) : t[k] = stack[k]
  <2>1. Len(s) \in Nat /\ frame.prevStackDepth \in Nat
    BY <1>3
  <2>2. \A k \in 1..frame.prevStackDepth : t[k] = s[k]
    BY <1>3, <2>1
  <2>3. \A k \in 1..frame.prevStackDepth : k \in 1..Base
    BY <1>6, <2>1, BaseIsLow
  <2> QED BY <1>3, <2>2, <2>3 DEF SameBelow
<1>8. ~ResultPending /\ TimerFrames' = TimerFrames /\ ~awaiting
  BY NothingPends DEF TimerFrames, Executing
<1> HIDE DEF t, cs, frame
<1>9. /\ Calls!Under(Acts, n + 1) = as
      /\ Acts[n + 1] = Part(stack, callStack, TimerFrames, n)
  <2>1. SubSeq(Activations(stack, callStack, TimerFrames), 1, n) = as
    <3>1. Flat(stack, callStack) /\ Flat(t, cs)
      BY <1>1, <1>3 DEF Flat
    <3>2. IsCut(stack, callStack, n, t, cs)
      BY <1>3, <1>7 DEF IsCut, frame
    <3> QED BY <3>1, <3>2, CutActivations
  <2>2. (n + 1) - 1 = n /\ n \in 0..Len(callStack)
    BY <1>1
  <2>3. Activations(stack, callStack, TimerFrames)[n + 1]
            = Part(stack, callStack, TimerFrames, n)
    BY <1>1, <2>2, ActivationsType
  <2> QED BY <1>8, <2>1, <2>2, <2>3 DEF Acts, Calls!Under
<1>10. /\ Acts[n + 1].returnPC = frame.returnPC
       /\ Acts[n + 1].resultStorage =
              IF n \in TimerFrames THEN Dropped ELSE frame.resultStorage
  BY <1>9 DEF Part, frame
<1>11. Len(callStack') = n - 1
  <2>1. callStack' = LocalsWith(cs, frame.resultStorage, v)
    BY <1>5 DEF StoreResult
  <2>2. Len(LocalsWith(cs, frame.resultStorage, v)) = Len(cs)
    BY <1>3, LocalsWithType
  <2> QED BY <1>3, <2>1, <2>2
<1>12. CASE n \notin TimerFrames
  <2>1. ~ResultPending'
    <3>1. Interrupted => n # Top(readers).depth
      BY <1>8, <1>12, TimerFramesAre
    <3>2. Interrupted => Top(readers).depth \in Nat
      BY ExecutingDepth, <1>1 DEF IsTimerFrame
    <3>3. Interrupted => ~(n - 1 < Top(readers).depth)
      BY <1>1, <3>1, <3>2
    <3> QED BY <1>11, <3>3 DEF ResultPending, Interrupted
  <2>2. Stored(t, cs, frame.resultStorage, v, stack', callStack')
    BY <1>5 DEF Stored, StoreResult
  <2>3. /\ stack' \in Seq(Word) /\ callStack' \in Seq(Frame)
        /\ Disciplined(stack', callStack')
    BY DEF SafeInv, TypeInv, TypeOK
  <2>4. Activations(stack', callStack', TimerFrames)
            = Calls!DeliveredTo(as, frame.resultStorage, v)
    <3>1. Flat(t, cs) /\ Flat(stack', callStack')
      BY <1>3, <2>3 DEF Flat
    <3>2. frame.resultStorage \in {None} \cup Variable
      BY <1>2
    <3>3. \A T : Activations(stack', callStack', T)
                    = Calls!DeliveredTo(Activations(t, cs, T), frame.resultStorage, v)
      BY <2>2, <3>1, <3>2, DeliverToActivations, SMT
    <3> QED BY <3>3
  <2>5. Acts' = Calls!DeliveredTo(as, frame.resultStorage, v)
    BY <1>8, <2>1, <2>4 DEF Acts
  <2>6. globals' = Calls!GlobalsWith(globals, frame.resultStorage, v)
    BY <1>5 DEF StoreResult, GlobalsWith, Calls!GlobalsWith
  <2> QED BY <1>5, <1>9, <1>10, <1>12, <2>5, <2>6, CallsLeave
<1>13. CASE n \in TimerFrames
  <2>1. Interrupted /\ n = Top(readers).depth /\ frame.resultStorage = 0
    <3>1. Interrupted
      BY <1>13 DEF Interrupted, TimerFrames
    <3>2. Top(readers) = readers[Len(readers)] /\ IsTimerFrame(Top(readers).depth)
      BY <3>1, ExecutingDepth
    <3>3. n = Top(readers).depth \/ \E i \in 1..(Len(readers) - 1) : n = readers[i].depth
      BY <1>1, <1>13, <3>1, TimerFramesAre
    <3>4. \A i \in 1..(Len(readers) - 1) : readers[i].depth < Top(readers).depth
                                          /\ readers[i].depth \in Nat
      BY <1>1, <3>2, ReaderDepths DEF IsTimerFrame
    <3>5. n = Top(readers).depth
      BY <1>1, <3>1, <3>2, <3>3, <3>4 DEF IsTimerFrame
    <3> QED BY <3>1, <3>2, <3>5 DEF IsTimerFrame, frame
  <2>2. stack' = Append(t, v) /\ callStack' = cs /\ globals' = globals
    <3>1. 0 \notin Local /\ 0 \notin Global
      BY MemoryAssumption DEF Local
    <3> QED BY <1>5, <2>1, <3>1 DEF StoreResult, StackWith, LocalsWith, GlobalsWith
  <2>3. Pop(stack', 1) = t
    <3>1. Len(Append(t, v)) - 1 = Len(t) /\ Len(t) \in Nat
      BY <1>3
    <3>2. SubSeq(Append(t, v), 1, Len(t)) = SubSeq(t, 1, Len(t))
      <4>1. Append(t, v) \in Seq(Word) /\ Len(t) <= Len(Append(t, v)) /\ Len(t) <= Len(t)
            /\ \A k \in 1..Len(t) : Append(t, v)[k] = t[k]
        BY <1>3
      <4> QED BY <1>3, <3>1, <4>1, SamePrefix
    <3>3. SubSeq(t, 1, Len(t)) = t
      BY <1>3, WholeSequence
    <3> QED BY <2>2, <3>1, <3>2, <3>3 DEF Pop
  <2>4. ResultPending'
    BY <1>1, <1>8, <1>11, <2>1 DEF ResultPending, Interrupted
  <2>5. Acts' = as
    BY <1>8, <2>2, <2>3, <2>4 DEF Acts
  <2>6. Dropped # 0 /\ Dropped \notin 1..15 /\ Dropped \notin Global
    BY MemoryAssumption DEF Dropped
  <2>7. Calls!DeliveredTo(as, Dropped, v) = as /\ Calls!GlobalsWith(globals, Dropped, v) = globals
    BY <2>6 DEF Calls!DeliveredTo, Calls!GlobalsWith
  <2> QED BY <1>5, <1>9, <1>10, <1>13, <2>2, <2>5, <2>7, CallsLeave
<1> QED BY <1>12, <1>13

(* A routine that is left is one of the program's activations. *)
LEMMA LeavingSteps ==
    ASSUME SafeInv, NEW n \in 1..Len(callStack), NEW v \in Word, Calls!Leave(n + 1, v)
    PROVE  Calls!Next
<1>1. Len(Acts) = Len(callStack) + 1
  <2>1. Len(Activations(stack, callStack, TimerFrames)) = Len(callStack) + 1
        /\ Len(Activations(Pop(stack, 1), callStack, TimerFrames)) = Len(callStack) + 1
    BY SafeFacts DEF Activations
  <2> QED BY <2>1 DEF Acts
<1>2. n + 1 \in 2..Len(Acts)
  BY <1>1, BaseIsLow
<1> QED BY <1>2 DEF Calls!Next, Acts

LEMMA ReturnLeaves ==
    ASSUME Lawful, SafeInv, SafeInv', NEW k \in 0..1, NEW v \in Data, Return(k, v)
    PROVE  Calls!Next
<1> DEFINE n == Len(callStack)
           s == Pop(stack, k)
<1>1. /\ k \in 0..Len(stack) /\ s \in Seq(Word) /\ Disciplined(s, callStack)
      /\ Len(s) = Len(stack) - k /\ Len(s) >= Base
  BY SafeFacts, LawfulPop DEF Return
<1>2. SameBelow(stack, s, Base)
  BY <1>1, PoppedBelow
<1>3. n \in 1..n /\ SubSeq(callStack, 1, n) = callStack
  BY SafeFacts DEF Return
<1>4. Interrupted => n >= Top(readers).depth
  BY DEF Return, Executing, InLoop, Interrupted
<1>5. LeaveFunctionImpl(v, s, SubSeq(callStack, 1, n)) /\ v \in Word
  BY <1>3, BoundAssumption DEF Return
<1> HIDE DEF s
<1>6. Calls!Leave(n + 1, v)
  BY <1>1, <1>2, <1>3, <1>4, <1>5, LeavingLeaves, SavedUnchanged DEF Return
<1> QED BY <1>3, <1>5, <1>6, LeavingSteps

LEMMA ThrowLeaves ==
    ASSUME Lawful, SafeInv, SafeInv', NEW v \in Data,
           NEW frame \in 1..Len(callStack), ThrowImpl(v, frame)
    PROVE  Calls!Next
<1>1. Interrupted => frame >= Top(readers).depth
  BY DEF ThrowImpl, Lawful
<1>2. v \in Word /\ stack \in Seq(Word) /\ Disciplined(stack, callStack)
  BY SafeFacts, BoundAssumption
<1>3. Calls!Leave(frame + 1, v)
  BY <1>1, <1>2, SameStackBelow, LeavingLeaves, SavedUnchanged DEF ThrowImpl
<1> QED BY <1>2, <1>3, LeavingSteps

-----------------------------------------------------------------------------
(* Snapshots *)

AbstractStates == {AbstractSnapshot(x) : x \in Snapshot}
AbstractSlots(q) == [i \in 1..Len(q) |-> AbstractSnapshot(q[i])]

LEMMA UndoIsSlots == Undo = AbstractSlots(undoStates) /\ Undo' = AbstractSlots(undoStates')
BY DEF Undo, AbstractSlots

LEMMA SlotsType ==
    ASSUME NEW q \in Seq(Snapshot)
    PROVE  /\ AbstractSlots(q) \in Seq(AbstractStates)
           /\ Len(AbstractSlots(q)) = Len(q)
           /\ \A i \in 1..Len(q) : AbstractSlots(q)[i] = AbstractSnapshot(q[i])
<1>1. Len(q) \in Nat /\ \A i \in 1..Len(q) : q[i] \in Snapshot
  OBVIOUS
<1>2. \A i \in 1..Len(q) : AbstractSnapshot(q[i]) \in AbstractStates
  BY <1>1 DEF AbstractStates
<1>3. AbstractSlots(q) \in [1..Len(q) -> AbstractStates]
  BY <1>2 DEF AbstractSlots
<1> QED BY <1>1, <1>3 DEF AbstractSlots

LEMMA SlotsAppended ==
    ASSUME NEW q \in Seq(Snapshot), NEW x \in Snapshot
    PROVE  AbstractSlots(Append(q, x)) = Append(AbstractSlots(q), AbstractSnapshot(x))
<1> DEFINE a == AbstractSlots(q)
           y == AbstractSnapshot(x)
           b == AbstractSlots(Append(q, x))
<1>1. /\ a \in Seq(AbstractStates) /\ Len(a) = Len(q) /\ Len(q) \in Nat
      /\ \A i \in 1..Len(q) : a[i] = AbstractSnapshot(q[i])
  BY SlotsType
<1>2. y \in AbstractStates
  BY DEF AbstractStates
<1>3. /\ Append(q, x) \in Seq(Snapshot) /\ Len(Append(q, x)) = Len(q) + 1
      /\ \A i \in 1..Len(q) : Append(q, x)[i] = q[i]
      /\ Append(q, x)[Len(q) + 1] = x
  OBVIOUS
<1>4. /\ b \in Seq(AbstractStates) /\ Len(b) = Len(q) + 1
      /\ \A i \in 1..(Len(q) + 1) : b[i] = AbstractSnapshot(Append(q, x)[i])
  BY <1>3, SlotsType
<1>5. Len(q) + 1 \in 1..(Len(q) + 1) /\ \A i \in 1..Len(q) : i \in 1..(Len(q) + 1)
  BY <1>1
<1>6. b[Len(q) + 1] = y /\ \A i \in 1..Len(q) : b[i] = a[i]
  BY <1>1, <1>3, <1>4, <1>5
<1> HIDE DEF a, b, y
<1>7. /\ Append(a, y) \in Seq(AbstractStates) /\ Len(Append(a, y)) = Len(q) + 1
      /\ \A i \in 1..Len(q) : Append(a, y)[i] = a[i]
      /\ Append(a, y)[Len(q) + 1] = y
  BY <1>1, <1>2
<1>8. \A i \in 1..(Len(q) + 1) : i = Len(q) + 1 \/ i \in 1..Len(q)
  BY <1>1
<1>9. b = Append(a, y)
  BY <1>4, <1>6, <1>7, <1>8, SameSequence
<1> QED BY <1>9 DEF a, b, y

LEMMA SlotsWithoutOldest ==
    ASSUME NEW q \in Seq(Snapshot), q # <<>>
    PROVE  AbstractSlots(Tail(q)) = Tail(AbstractSlots(q)) /\ Tail(q) \in Seq(Snapshot)
<1> DEFINE a == AbstractSlots(q)
           b == AbstractSlots(Tail(q))
<1>1. /\ a \in Seq(AbstractStates) /\ Len(a) = Len(q) /\ Len(q) \in Nat \ {0}
      /\ \A i \in 1..Len(q) : a[i] = AbstractSnapshot(q[i])
  BY SlotsType
<1>2. /\ Tail(q) \in Seq(Snapshot) /\ Len(Tail(q)) = Len(q) - 1
      /\ \A i \in 1..(Len(q) - 1) : Tail(q)[i] = q[i + 1]
  OBVIOUS
<1>3. /\ b \in Seq(AbstractStates) /\ Len(b) = Len(q) - 1
      /\ \A i \in 1..(Len(q) - 1) : b[i] = AbstractSnapshot(Tail(q)[i])
  BY <1>2, SlotsType
<1>4. \A i \in 1..(Len(q) - 1) : i + 1 \in 1..Len(q)
  BY <1>1
<1>5. \A i \in 1..(Len(q) - 1) : b[i] = a[i + 1]
  BY <1>1, <1>2, <1>3, <1>4
<1> HIDE DEF a, b
<1>6. a # <<>>
  BY <1>1
<1>7. /\ Tail(a) \in Seq(AbstractStates) /\ Len(Tail(a)) = Len(q) - 1
      /\ \A i \in 1..(Len(q) - 1) : Tail(a)[i] = a[i + 1]
  BY <1>1, <1>6
<1>8. b = Tail(a)
  BY <1>3, <1>5, <1>7, SameSequence
<1> QED BY <1>2, <1>8 DEF a, b

LEMMA SlotsWithoutNewest ==
    ASSUME NEW q \in Seq(Snapshot), q # <<>>
    PROVE  AbstractSlots(Pop(q, 1)) = SubSeq(AbstractSlots(q), 1, Len(AbstractSlots(q)) - 1)
<1> DEFINE a == AbstractSlots(q)
           b == AbstractSlots(Pop(q, 1))
           c == SubSeq(a, 1, Len(a) - 1)
<1>1. /\ a \in Seq(AbstractStates) /\ Len(a) = Len(q) /\ Len(q) \in Nat \ {0}
      /\ \A i \in 1..Len(q) : a[i] = AbstractSnapshot(q[i])
  BY SlotsType
<1>2. 1 \in 0..Len(q)
  BY <1>1
<1>3. /\ Pop(q, 1) \in Seq(Snapshot) /\ Len(Pop(q, 1)) = Len(q) - 1
      /\ \A i \in 1..(Len(q) - 1) : Pop(q, 1)[i] = q[i]
  BY <1>2, PopType
<1>4. /\ b \in Seq(AbstractStates) /\ Len(b) = Len(q) - 1
      /\ \A i \in 1..(Len(q) - 1) : b[i] = AbstractSnapshot(Pop(q, 1)[i])
  BY <1>3, SlotsType
<1>5. \A i \in 1..(Len(q) - 1) : i \in 1..Len(q)
  BY <1>1
<1>6. \A i \in 1..(Len(q) - 1) : b[i] = a[i]
  BY <1>1, <1>3, <1>4, <1>5
<1> HIDE DEF a, b
<1>7. /\ c \in Seq(AbstractStates) /\ Len(c) = Len(q) - 1
      /\ \A i \in 1..(Len(q) - 1) : c[i] = a[i]
  <2>1. Pop(a, 1) = c
    BY DEF Pop
  <2>2. 1 \in 0..Len(a)
    BY <1>1
  <2>3. /\ Pop(a, 1) \in Seq(AbstractStates) /\ Len(Pop(a, 1)) = Len(a) - 1
        /\ \A i \in 1..(Len(a) - 1) : Pop(a, 1)[i] = a[i]
    BY <1>1, <2>2, PopType
  <2> HIDE DEF c
  <2> QED BY <1>1, <2>1, <2>3
<1>8. b = c
  BY <1>4, <1>6, <1>7, SameSequence
<1> QED BY <1>8 DEF a, b

(* Where a snapshot is allowed, no timer routine is on the call stack. *)
LEMMA PlainActs ==
    ASSUME SafeInv, Lawful, Uninterrupted, Executing,
           readers' = readers, awaiting' = awaiting
    PROVE  /\ Acts = Activations(stack, callStack, {})
           /\ Acts' = Activations(stack', callStack', {})
<1>1. readers = <<>> /\ ~awaiting
  BY LawfulUninterrupted DEF Executing
<1>2. ~ResultPending /\ TimerFrames = {}
  BY <1>1 DEF ResultPending, Interrupted, TimerFrames
<1>3. ~ResultPending' /\ TimerFrames' = {}
  BY <1>1 DEF ResultPending, Interrupted, TimerFrames
<1> QED BY <1>2, <1>3 DEF Acts

(* A result stored by an instruction, without the routine that waits. *)
LEMMA StoredInActs ==
    ASSUME SafeInv, Lawful, Uninterrupted, Executing,
           readers' = readers, awaiting' = awaiting,
           NEW dest \in {None} \cup Variable, NEW v \in Word,
           StoreResult(dest, v, stack, callStack, globals)
    PROVE  Acts' = Calls!DeliveredTo(Acts, dest, v)
           /\ globals' = Calls!GlobalsWith(globals, dest, v)
<1>1. Flat(stack, callStack) /\ Stored(stack, callStack, dest, v, stack', callStack')
  BY SafeFacts DEF Flat, Stored, StoreResult
<1>2. Flat(stack', callStack')
  BY SafeFacts, StoreResultType, StoreDiscipline DEF Flat
<1>3. \A T : Activations(stack', callStack', T)
                = Calls!DeliveredTo(Activations(stack, callStack, T), dest, v)
  BY <1>1, <1>2, DeliverToActivations, SMT
<1>4. globals' = Calls!GlobalsWith(globals, dest, v)
  BY DEF StoreResult, GlobalsWith, Calls!GlobalsWith
<1> QED BY <1>3, <1>4, PlainActs

(* What a snapshot holds, resumed. *)
LEMMA ResumedActs ==
    ASSUME SafeInv, SafeInv', Lawful, Uninterrupted, Executing,
           readers' = readers, awaiting' = awaiting,
           NEW x \in Snapshot, Disciplined(x.stack, x.callStack),
           stack' = StackWith(x.stack, x.dest, 2),
           callStack' = LocalsWith(x.callStack, x.dest, 2)
    PROVE  Acts' = Calls!DeliveredTo(AbstractSnapshot(x).acts, AbstractSnapshot(x).dest, 2)
<1> DEFINE s == x.stack
           cs == x.callStack
           d == x.dest
<1>1. /\ s \in Seq(Word) /\ cs \in Seq(Frame) /\ x.globals \in [Global -> Word]
      /\ d \in {None} \cup Variable /\ x.kind = "state" /\ 2 \in Word
  BY SmallWords DEF Snapshot
<1>2. AbstractSnapshot(x).acts = Activations(s, cs, {}) /\ AbstractSnapshot(x).dest = d
  BY <1>1 DEF AbstractSnapshot
<1>3. Disciplined(s, cs) /\ stack' = StackWith(s, d, 2) /\ callStack' = LocalsWith(cs, d, 2)
  OBVIOUS
<1> HIDE DEF s, cs, d
<1>4. Flat(s, cs) /\ Stored(s, cs, d, 2, stack', callStack')
  BY <1>1, <1>3 DEF Flat, Stored
<1>5. Flat(stack', callStack')
  BY DEF SafeInv, TypeInv, TypeOK, Flat
<1>6. \A T : Activations(stack', callStack', T)
                = Calls!DeliveredTo(Activations(s, cs, T), d, 2)
  <2>1. d \in {None} \cup Variable /\ 2 \in Word
    BY <1>1
  <2> QED BY <2>1, <1>4, <1>5, DeliverToActivations, SMT
<1> QED BY <1>2, <1>6, PlainActs

(* What the program's state is as a snapshot. *)
LEMMA SnapshotNow ==
    ASSUME SafeInv, SafeInv', Lawful, Uninterrupted, Executing,
           readers' = readers, awaiting' = awaiting,
           NEW dest \in Variable, NEW next \in Addr, pc' = next
    PROVE  /\ CurrentState(dest, next) \in Snapshot
           /\ AbstractSnapshot(CurrentState(dest, next)) = Calls!Snapshot(dest)
<1>1. CurrentState(dest, next) \in Snapshot
  BY SafeFacts DEF CurrentState, Snapshot
<1>2. AbstractSnapshot(CurrentState(dest, next)) =
          [acts |-> Activations(stack, callStack, {}),
           globals |-> globals, pc |-> next, dest |-> dest]
  BY DEF AbstractSnapshot, CurrentState
<1>3. Acts = Activations(stack, callStack, {})
  BY PlainActs
<1> QED BY <1>1, <1>2, <1>3, Zenon DEF Calls!Snapshot, Acts

LEMMA InScopeDest ==
    ASSUME SafeInv, NEW dest \in InScope
    PROVE  /\ dest \in Variable /\ dest \in {None} \cup Variable
           /\ dest \in 0..15 \cup Global
<1>1. dest \in Variable
  BY SafeFacts, InScopeType
<1> QED BY <1>1 DEF Variable, Local

LEMMA SaveUndoSimulated ==
    ASSUME Lawful, SafeInv, SafeInv', NEW dest \in InScope, NEW next \in Addr,
           SaveUndo(dest, next)
    PROVE  Calls!Next
<1>1. /\ Executing /\ Uninterrupted /\ readers' = readers /\ awaiting' = awaiting
      /\ saveFile' = saveFile /\ pc' = next /\ MaxUndoDepth \in Nat
      /\ File' = File
  BY BoundAssumption DEF SaveUndo, File
<1>2. CASE MaxUndoDepth = 0
  <2>1. StoreResult(dest, 0, stack, callStack, globals) /\ undoStates' = undoStates
    BY <1>2 DEF SaveUndo
  <2>2. Calls!Work
    BY <1>1, <2>1, StoresOnly, SavedUnchanged
  <2> QED BY <2>2 DEF Calls!Next
<1>3. CASE MaxUndoDepth # 0
  <2> DEFINE now == CurrentState(dest, next)
             kept == KeptUndoStates
  <2>1. /\ undoStates' = Append(kept, now)
        /\ StoreResult(dest, 1, stack, callStack, globals) /\ MaxUndoDepth > 0
    BY <1>1, <1>3 DEF SaveUndo
  <2>2. now \in Snapshot /\ AbstractSnapshot(now) = Calls!Snapshot(dest)
    BY <1>1, InScopeDest, SnapshotNow
  <2>3. Acts' = Calls!DeliveredTo(Acts, dest, 1)
        /\ globals' = Calls!GlobalsWith(globals, dest, 1)
    <3>1. 1 \in Word /\ dest \in {None} \cup Variable
      BY SmallWords, InScopeDest
    <3> QED BY <1>1, <2>1, <3>1, StoredInActs
  <2>4. undoStates \in Seq(Snapshot) /\ Len(undoStates) \in Nat
        /\ Len(Undo) = Len(undoStates)
    BY SafeFacts, SlotsType, UndoIsSlots
  <2>5. kept \in Seq(Snapshot)
        /\ AbstractSlots(kept) = IF Len(Undo) < MaxUndoDepth THEN Undo ELSE Tail(Undo)
    <3>1. CASE Len(undoStates) < MaxUndoDepth
      <4>1. kept = undoStates
        BY <1>1, <2>4, <3>1 DEF KeptUndoStates
      <4> QED BY <2>4, <3>1, <4>1, UndoIsSlots
    <3>2. CASE ~(Len(undoStates) < MaxUndoDepth)
      <4>1. kept = Tail(undoStates) /\ undoStates # <<>>
        BY <1>1, <1>3, <2>4, <3>2 DEF KeptUndoStates
      <4> QED BY <2>4, <3>2, <4>1, UndoIsSlots, SlotsWithoutOldest
    <3> QED BY <3>1, <3>2
  <2> HIDE DEF now, kept
  <2>6. Undo' = Append(AbstractSlots(kept), Calls!Snapshot(dest))
    BY <2>1, <2>2, <2>5, SlotsAppended, UndoIsSlots
  <2>7. Undo' = Append(IF Len(Undo) < MaxUndoDepth THEN Undo ELSE Tail(Undo),
                       Calls!Snapshot(dest))
    BY <2>5, <2>6
  <2>8. Calls!SaveUndo(dest)
    BY <1>1, <2>1, <2>3, <2>7, Zenon DEF Calls!SaveUndo, Calls!Store, Acts, Undo, File
  <2> QED BY <2>8, InScopeDest DEF Calls!Next
<1> QED BY <1>2, <1>3

LEMMA RestoreUndoSimulated ==
    ASSUME Lawful, SafeInv, SafeInv', NEW dest \in InScope, NEW next \in Addr,
           RestoreUndo(dest, next)
    PROVE  Calls!Next
<1>1. /\ Executing /\ Uninterrupted /\ readers' = readers /\ awaiting' = awaiting
      /\ saveFile' = saveFile /\ File' = File
  BY DEF RestoreUndo, File
<1>2. CASE undoStates = <<>>
  <2>1. StoreResult(dest, 0, stack, callStack, globals) /\ undoStates' = undoStates
    BY <1>2 DEF RestoreUndo
  <2>2. Calls!Work
    BY <1>1, <2>1, StoresOnly, SavedUnchanged
  <2> QED BY <2>2 DEF Calls!Next
<1>3. CASE undoStates # <<>>
  <2> DEFINE n == Len(undoStates)
             x == undoStates[n]
  <2>1. n \in 1..n /\ Top(undoStates) = x /\ undoStates \in Seq(Snapshot)
    BY <1>3, SafeFacts DEF Top
  <2>2. /\ stack' = StackWith(x.stack, x.dest, 2)
        /\ callStack' = LocalsWith(x.callStack, x.dest, 2)
        /\ globals' = GlobalsWith(x.globals, x.dest, 2)
        /\ pc' = x.pc /\ undoStates' = Pop(undoStates, 1)
    BY <1>3, <2>1 DEF RestoreUndo, ResumeFrom, StoreResult
  <2>3. x \in Snapshot /\ Disciplined(x.stack, x.callStack) /\ x.kind = "state"
    <3>1. x \in Snapshot
      BY <2>1
    <3>2. Disciplined(x.stack, x.callStack)
      BY <2>1, SafeFacts DEF SavedDiscipline
    <3> QED BY <3>1, <3>2 DEF Snapshot
  <2>4. /\ Undo' = SubSeq(Undo, 1, Len(Undo) - 1) /\ Len(Undo) = n /\ Undo # <<>>
        /\ Undo[n] = AbstractSnapshot(x)
    BY <1>3, <2>1, <2>2, UndoIsSlots, SlotsType, SlotsWithoutNewest
  <2> HIDE DEF x
  <2>5. Acts' = Calls!DeliveredTo(AbstractSnapshot(x).acts, AbstractSnapshot(x).dest, 2)
    BY <1>1, <2>2, <2>3, ResumedActs
  <2>6. /\ globals' = Calls!GlobalsWith(AbstractSnapshot(x).globals,
                                        AbstractSnapshot(x).dest, 2)
        /\ pc' = AbstractSnapshot(x).pc
    BY <2>2, <2>3 DEF AbstractSnapshot, GlobalsWith, Calls!GlobalsWith
  <2>7. Calls!RestoreUndo
    BY <1>1, <2>4, <2>5, <2>6, Zenon DEF Calls!RestoreUndo, Acts, Undo, File
  <2> QED BY <2>7 DEF Calls!Next
<1> QED BY <1>2, <1>3

LEMMA SaveSimulated ==
    ASSUME Lawful, SafeInv, SafeInv', NEW dest \in InScope, NEW next \in Addr,
           Save(dest, next)
    PROVE  Calls!Next
<1>1. /\ Executing /\ Uninterrupted /\ readers' = readers /\ awaiting' = awaiting
      /\ undoStates' = undoStates /\ pc' = next /\ Undo' = Undo
  BY DEF Save, Undo
<1>2. dest \in {None} \cup Variable /\ dest \in Variable /\ {0, 1} \subseteq Word
  BY InScopeDest, SmallWords
<1>3. CASE /\ saveFile' = CurrentState(dest, next)
           /\ StoreResult(dest, 1, stack, callStack, globals)
  <2>1. File' = Calls!Snapshot(dest)
    BY <1>1, <1>2, <1>3, SnapshotNow DEF File
  <2>2. Acts' = Calls!DeliveredTo(Acts, dest, 1)
        /\ globals' = Calls!GlobalsWith(globals, dest, 1)
    BY <1>1, <1>2, <1>3, StoredInActs
  <2>3. Calls!Save(dest)
    BY <1>1, <2>1, <2>2, Zenon DEF Calls!Save, Calls!Store, Acts, Undo, File
  <2> QED BY <2>3, InScopeDest DEF Calls!Next
<1>4. CASE saveFile' = saveFile /\ StoreResult(dest, 0, stack, callStack, globals)
  <2>1. Calls!Work
    BY <1>1, <1>4, StoresOnly, SavedUnchanged
  <2> QED BY <2>1 DEF Calls!Next
<1>5. CASE saveFile' = BadFile /\ StoreResult(dest, 0, stack, callStack, globals)
  <2>1. File' = BadFile
    BY <1>5 DEF File, AbstractSnapshot, BadFile
  <2>2. Acts' = Calls!DeliveredTo(Acts, dest, 0)
        /\ globals' = Calls!GlobalsWith(globals, dest, 0)
    BY <1>1, <1>2, <1>5, StoredInActs
  <2>3. Calls!Save(dest)
    BY <1>1, <2>1, <2>2, Zenon DEF Calls!Save, Calls!Store, Acts, Undo, File
  <2> QED BY <2>3, InScopeDest DEF Calls!Next
<1> QED BY <1>3, <1>4, <1>5 DEF Save

LEMMA RestoreSimulated ==
    ASSUME Lawful, SafeInv, SafeInv', NEW dest \in InScope, NEW next \in Addr,
           Restore(dest, next)
    PROVE  Calls!Next
<1>1. /\ Executing /\ Uninterrupted /\ readers' = readers /\ awaiting' = awaiting
      /\ undoStates' = undoStates /\ saveFile' = saveFile
      /\ Undo' = Undo /\ File' = File
  BY DEF Restore, Undo, File
<1>2. CASE StoreResult(dest, 0, stack, callStack, globals)
  <2>1. Calls!Work
    BY <1>1, <1>2, StoresOnly
  <2> QED BY <2>1 DEF Calls!Next
<1>3. CASE ~StoreResult(dest, 0, stack, callStack, globals)
  <2> DEFINE x == saveFile
  <2>1. /\ x \notin {NoFile, BadFile}
        /\ stack' = StackWith(x.stack, x.dest, 2)
        /\ callStack' = LocalsWith(x.callStack, x.dest, 2)
        /\ globals' = GlobalsWith(GlobalsWith(x.globals, x.dest, 2), dest, 1)
        /\ pc' = x.pc
    BY <1>3 DEF Restore
  <2>2. x \in Snapshot /\ x.kind = "state" /\ Disciplined(x.stack, x.callStack)
    BY <2>1, SafeFacts DEF SavedDiscipline, Snapshot
  <2>3. File = [acts |-> Activations(x.stack, x.callStack, {}),
                globals |-> x.globals, pc |-> x.pc, dest |-> x.dest]
    BY <2>2 DEF File, AbstractSnapshot
  <2>4. File \notin {NoFile, BadFile}
    <3>1. DOMAIN File = {"acts", "globals", "pc", "dest"}
      BY <2>3
    <3>2. DOMAIN NoFile = {"kind"} /\ DOMAIN BadFile = {"kind"}
      BY DEF NoFile, BadFile
    <3>3. "acts" # "kind"
      OBVIOUS
    <3> QED BY <3>1, <3>2, <3>3
  <2>5. Acts' = Calls!DeliveredTo(File.acts, File.dest, 2)
    BY <1>1, <2>1, <2>2, ResumedActs DEF File
  <2>6. /\ globals' = Calls!GlobalsWith(Calls!GlobalsWith(File.globals, File.dest, 2),
                                        dest, 1)
        /\ pc' = File.pc
    BY <2>1, <2>3 DEF GlobalsWith, Calls!GlobalsWith
  <2>7. Calls!Restore(dest)
    BY <1>1, <2>4, <2>5, <2>6, Zenon DEF Calls!Restore, Acts, Undo, File
  <2> QED BY <2>7, InScopeDest DEF Calls!Next
<1> QED BY <1>2, <1>3

LEMMA FreshActs ==
    ASSUME NEW T PROVE Activations(<<>>, <<>>, T) = <<Calls!Main>>
<1>1. Len(<<>>) = 0 /\ 0 + 1 = 1
  OBVIOUS
<1>2. Owned(<<>>, <<>>, 0) = <<>>
  BY <1>1 DEF Owned
<1>3. Activations(<<>>, <<>>, T) = [i \in 1..1 |-> Calls!Main]
  BY <1>1, <1>2 DEF Activations, Calls!Main, None
<1> QED BY <1>3

LEMMA RestartSimulated ==
    ASSUME Lawful, SafeInv, Restart
    PROVE  Calls!Next
<1>1. Executing /\ Uninterrupted /\ readers' = readers /\ awaiting' = awaiting
  BY DEF Restart
<1>2. Acts' = <<Calls!Main>>
  BY <1>1, PlainActs, FreshActs DEF Restart
<1>3. Undo' = <<>>
  BY DEF Restart, Undo
<1>4. Calls!Restart
  BY <1>2, <1>3 DEF Restart, Calls!Restart, Acts, Undo, File
<1> QED BY <1>4 DEF Calls!Next

-----------------------------------------------------------------------------
(* The refinement *)

LEMMA InitImplements == Init => Calls!Init
<1> SUFFICES ASSUME Init PROVE Calls!Init
  OBVIOUS
<1>1. ~ResultPending
  BY DEF Init, ResultPending, Interrupted
<1>2. Acts = <<Calls!Main>>
  BY <1>1, FreshActs DEF Init, Acts
<1>3. Undo = <<>> /\ File = NoFile
  BY DEF Init, Undo, File, AbstractSnapshot, NoFile
<1> QED BY <1>2, <1>3 DEF Init, Calls!Init, Acts, Undo, File

LEMMA StepImplements ==
    ASSUME Lawful, SafeInv, SafeInv', [Next]_vars
    PROVE  [Calls!Next]_Calls!vars
<1>1. ASSUME NEW k \in 0..2, NEW dest \in InScope \cup {None}, NEW v \in Data,
             NEW next \in Addr, Compute(k, dest, v, next)
      PROVE  Calls!Next
  BY <1>1, ComputeWorks DEF Calls!Next
<1>2. ASSUME NEW k \in 0..1, NEW dest \in InScope, NEW v \in Data, NEW next \in Addr,
             Assign(k, dest, v, next)
      PROVE  Calls!Next
  BY <1>2, AssignWorks DEF Calls!Next
<1>3. ASSUME NEW dest \in InScope, NEW amount \in {-1, 1}, NEW next \in Addr,
             Increment(dest, amount, next)
      PROVE  Calls!Next
  BY <1>3, IncrementWorks DEF Calls!Next
<1>4. ASSUME NEW k \in 0..2, NEW r \in Routine \cup {NoRoutine}, NEW args \in Args,
             NEW dest \in InScope \cup {None}, NEW next \in Addr,
             Call(k, r, args, dest, next)
      PROVE  Calls!Next
  BY <1>4, CallSimulated DEF Calls!Next
<1>5. ASSUME NEW k \in 0..1, NEW v \in Data, Return(k, v)
      PROVE  Calls!Next
  BY <1>5, ReturnLeaves
<1>6. ASSUME NEW dest \in InScope, NEW next \in Addr, Catch(dest, next)
      PROVE  Calls!Next
  BY <1>6, CatchWorks DEF Calls!Next
<1>7. ASSUME NEW v \in Data, NEW frame \in 1..Len(callStack), ThrowImpl(v, frame)
      PROVE  Calls!Next
  BY <1>7, ThrowLeaves
<1>8. ~Collapse
  BY DEF Collapse, Lawful
<1>9. ASSUME NEW dest \in InScope, NEW next \in Addr, SaveUndo(dest, next)
      PROVE  Calls!Next
  BY <1>9, SaveUndoSimulated
<1>10. ASSUME NEW dest \in InScope, NEW next \in Addr, RestoreUndo(dest, next)
       PROVE  Calls!Next
  BY <1>10, RestoreUndoSimulated
<1>11. ASSUME NEW dest \in InScope, NEW next \in Addr, Save(dest, next)
       PROVE  Calls!Next
  BY <1>11, SaveSimulated
<1>12. ASSUME NEW dest \in InScope, NEW next \in Addr, Restore(dest, next)
       PROVE  Calls!Next
  BY <1>12, RestoreSimulated
<1>13. CASE Restart
  BY <1>13, RestartSimulated
<1>14. CASE Quit
  BY <1>14, QuitStutters
<1>15. ASSUME NEW dest \in InScope \cup {None}, NEW next \in Addr, NEW end \in Addr,
              Read(dest, next, end)
       PROVE  Calls!Next
  BY <1>15, ReadWorks DEF Calls!Next
<1>16. ASSUME NEW r \in Routine, TimerFires(r)
       PROVE  Calls!Next
  BY <1>16, TimerFiresEnters DEF Calls!Next
<1>17. CASE TimerRoutineDone
  BY <1>17, TimerRoutineDoneStutters
<1>18. ASSUME NEW v \in Data, ReadDone(v)
       PROVE  Calls!Next
  BY <1>18, ReadDoneWorks DEF Calls!Next
<1>19. CASE UNCHANGED vars
  <2>1. Acts' = Acts /\ Undo' = Undo /\ File' = File
    BY <1>19 DEF vars, Acts, Undo, File, ResultPending, Interrupted, TimerFrames
  <2> QED BY <1>19, <2>1, CallsStutter DEF vars
<1> QED
  BY <1>1, <1>2, <1>3, <1>4, <1>5, <1>6, <1>7, <1>8,
     <1>9, <1>10, <1>11, <1>12, <1>13, <1>14, <1>15, <1>16,
     <1>17, <1>18, <1>19 DEF Next

(* Whatever a program that keeps to the Standard does, the interpreter      *)
(* keeps RoutineCalls' promise with its one flat stack: an instruction      *)
(* touches the values of the routine that executes it and the globals and   *)
(* nothing else, a return or a throw uncovers its caller as the call left   *)
(* it, a timer routine leaves the routine it interrupted as it was, and a   *)
(* restored snapshot is the program at the save, but for one variable: if   *)
(* the restore instruction's own result goes to a global, that global is 1  *)
(* in the restored memory (RoutineCalls!Restore), the 2 of the save         *)
(* instruction included.                                                    *)
THEOREM RoutineCallsAreKept == Lawful => (Spec => ImplementsRoutineCalls)
<1> SUFFICES ASSUME Lawful PROVE Spec => ImplementsRoutineCalls
  OBVIOUS
<1>1. Init => Calls!Init
  BY InitImplements
<1>2. SafeInv /\ SafeInv' /\ [Next]_vars => [Calls!Next]_Calls!vars
  BY StepImplements
<1>3. Spec => []SafeInv
  BY SafetyInvariant
<1> QED BY <1>1, <1>2, <1>3, PTL DEF Spec, ImplementsRoutineCalls, Calls!Spec
=============================================================================
