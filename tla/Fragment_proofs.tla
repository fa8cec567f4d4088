--------------------------- MODULE Fragment_proofs --------------------------
(* TLAPS proofs about Fragment, for every program of every size: the labels *)
(* of the generated code are right, and running fragment after fragment is  *)
(* executing the program.                                                   *)
EXTENDS Fragment, TLAPS

-----------------------------------------------------------------------------
(* Sequences *)

Elements(s) == {s[i] : i \in 1..Len(s)}

LEMMA ElementsAppended ==
    ASSUME NEW S, NEW s \in Seq(S), NEW x \in S
    PROVE  Append(s, x) \in Seq(S) /\ Elements(Append(s, x)) = Elements(s) \cup {x}
<1> DEFINE t == Append(s, x)
           n == Len(s)
<1>1. /\ t \in Seq(S) /\ Len(t) = n + 1 /\ n \in Nat /\ t[n + 1] = x
      /\ \A i \in 1..n : t[i] = s[i]
  OBVIOUS
<1> HIDE DEF t
<1>2. \A i \in 1..(n + 1) : i = n + 1 \/ i \in 1..n
  BY <1>1
<1>3. n + 1 \in 1..(n + 1) /\ \A i \in 1..n : i \in 1..(n + 1)
  BY <1>1
<1>4. Elements(t) = Elements(s) \cup {x}
  BY <1>1, <1>2, <1>3 DEF Elements
<1> QED BY <1>1, <1>4 DEF t

LEMMA ElementsWithoutFirst ==
    ASSUME NEW S, NEW s \in Seq(S), s # <<>>
    PROVE  /\ Head(s) \in S /\ Tail(s) \in Seq(S)
           /\ Elements(s) = {Head(s)} \cup Elements(Tail(s))
<1> DEFINE t == Tail(s)
           n == Len(s)
<1>1. /\ t \in Seq(S) /\ Len(t) = n - 1 /\ n \in Nat \ {0} /\ Head(s) = s[1]
      /\ \A i \in 1..(n - 1) : t[i] = s[i + 1]
  OBVIOUS
<1> HIDE DEF t
<1>2. \A i \in 1..n : i = 1 \/ (i - 1 \in 1..(n - 1) /\ (i - 1) + 1 = i)
  BY <1>1
<1>3. 1 \in 1..n /\ \A i \in 1..(n - 1) : i + 1 \in 1..n
  BY <1>1
<1>4. Elements(s) = {s[1]} \cup Elements(t)
  <2>1. \A i \in 1..n : s[i] = s[1] \/ \E j \in 1..(n - 1) : s[i] = t[j]
    BY <1>1, <1>2
  <2>2. \A j \in 1..(n - 1) : \E i \in 1..n : t[j] = s[i]
    BY <1>1, <1>3
  <2>3. \A x : x \in Elements(s) <=> \E i \in 1..n : x = s[i]
    BY DEF Elements
  <2>4. \A x : x \in Elements(t) <=> \E j \in 1..(n - 1) : x = t[j]
    BY <1>1 DEF Elements
  <2>5. \A x : x \in Elements(s) <=> x = s[1] \/ x \in Elements(t)
    BY <1>3, <2>1, <2>2, <2>3, <2>4
  <2> QED BY <2>5
<1>5. s[1] \in S
  BY <1>3
<1> QED BY <1>1, <1>4, <1>5 DEF t

LEMMA NoElements ==
    ASSUME NEW S, NEW s \in Seq(S)
    PROVE  /\ Elements(<<>>) = {} /\ <<>> \in Seq(S)
           /\ Elements(s) \subseteq S
           /\ \A T : Elements(s) \subseteq T => s \in Seq(T)
<1>1. \A i \in 1..Len(s) : s[i] \in S
  OBVIOUS
<1>2. Elements(s) \subseteq S
  BY <1>1 DEF Elements
<1>3. ASSUME NEW T, Elements(s) \subseteq T PROVE s \in Seq(T)
  <2>1. \A i \in 1..Len(s) : s[i] \in T
    BY <1>3 DEF Elements
  <2>2. Len(s) \in Nat /\ s = [i \in 1..Len(s) |-> s[i]]
    OBVIOUS
  <2> QED BY <2>1, <2>2
<1> QED BY <1>2, <1>3 DEF Elements

-----------------------------------------------------------------------------
(* Instructions *)

(* save and restore with operands are left out: see Fragment!AllKinds. *)
NoAuxiliary == "auxiliary" \notin Kinds

Falling == {"plain", "branch", "return branch"}
Closing == {"computed jump", "throw", "quit"}  \* a return has to follow their code
After(a) == a + code[a].length

LEMMA CodeFacts ==
    ASSUME code \in Programs, NEW a \in Addr
    PROVE  /\ code[a].kind \in Kinds /\ code[a].target \in Addr
           /\ After(a) \in 1..(LastAddr + 2) /\ After(a) # a
           /\ code[a].kind \notin {"jump", "return", "throw", "quit"} => After(a) \in Addr
<1>1. code[a] \in Instruction /\ StandsAt(code[a], a)
  BY DEF Programs
<1>2. /\ code[a].kind \in Kinds /\ code[a].length \in 1..2 /\ code[a].target \in Addr
      /\ FallsThrough(code[a]) => a + code[a].length \in Addr
  BY <1>1, Zenon DEF Instruction, StandsAt
<1>3. After(a) \in 1..(LastAddr + 2) /\ After(a) # a
  BY <1>2, AddrAssumption DEF Addr, After
<1> QED BY <1>2, <1>3 DEF FallsThrough, After

LEMMA KindFacts ==
    ASSUME NoAuxiliary, code \in Programs, NEW a \in Addr, code[a].kind # "custom"
    PROVE  /\ IsTerminator(a) <=> code[a].kind \notin Falling
           /\ code[a].kind \in Falling => After(a) \in Addr /\ After(a) # a
           /\ HasTarget(a) <=> code[a].kind \in {"branch", "jump"}
<1>1. code[a].kind \in Kinds /\ After(a) # a
  BY CodeFacts
<1>2. code[a].kind \in AllKinds \ {"auxiliary", "custom"}
  BY <1>1, KindsAssumption DEF NoAuxiliary
<1>3. IsTerminator(a) <=> code[a].kind \notin Falling
  BY <1>2 DEF IsTerminator, Terminators, Falling, AllKinds
<1>4. code[a].kind \in Falling => After(a) \in Addr
  BY CodeFacts DEF Falling
<1> QED BY <1>1, <1>3, <1>4 DEF HasTarget, IsBranch, IsUnconditionalJump

-----------------------------------------------------------------------------
(* The inductive invariant, phase by phase *)

(* The chains that pass 1 has built when the instruction at last is not yet *)
(* linked and the targets in todo and in rest are not yet decoded.          *)
Chains(ops, last, todo, rest) ==
    \A a \in DOMAIN ops :
        /\ ops[a] \in Node /\ ops[a].target = None /\ code[a].kind # "custom"
        /\ ops[a].next = IF IsTerminator(a) \/ a = last THEN None ELSE After(a)
        /\ ops[a].next \in DOMAIN ops \cup {None}
        /\ HasTarget(a) => code[a].target \in DOMAIN ops \cup Elements(todo) \cup rest

DecodeInv ==
    /\ phase = "decode" /\ running
    /\ il = <<>> /\ ip = 0 /\ emitted = {} /\ todoNodes = <<>> /\ node = None
    /\ needRet = FALSE
    /\ pc \in Addr /\ start \in Addr /\ DOMAIN opcodes \subseteq Addr
    /\ todoList \in Seq(Addr)
    /\ start \in DOMAIN opcodes \cup {pc}
    /\ lastOp = None \/ (/\ lastOp \in DOMAIN opcodes /\ ~IsTerminator(lastOp)
                         /\ pc = After(lastOp))
    /\ Chains(opcodes, lastOp, todoList, {pc})

(* What pass 1 leaves: the instructions that are reachable from start.      *)
Graph ==
    /\ start \in DOMAIN opcodes /\ DOMAIN opcodes \subseteq Addr
    /\ \A a \in DOMAIN opcodes :
          /\ opcodes[a] \in Node /\ code[a].kind # "custom"
          /\ opcodes[a].next = IF IsTerminator(a) THEN None ELSE After(a)
          /\ opcodes[a].next \in DOMAIN opcodes \cup {None}
          /\ HasTarget(a) => code[a].target \in DOMAIN opcodes

(* The nodes that passes 2 and 3 have still to look at. *)
Work == Elements(todoNodes) \cup ({node} \ {None})

(* V: the nodes that pass 2 has seen. *)
Visited(V) ==
    /\ start \in V \cup Work
    /\ \A a \in V : /\ opcodes[a].target = Target(a)
                    /\ opcodes[a].next \in V \cup Work \cup {None}
    /\ \A a \in DOMAIN opcodes :
          opcodes[a].target # None =>
              opcodes[a].target = Target(a) /\ Target(a) \in V \cup Work

TieInv ==
    /\ phase = "tie" /\ running
    /\ il = <<>> /\ ip = 0 /\ emitted = {} /\ todoList = <<>> /\ lastOp = None
    /\ needRet = FALSE
    /\ pc \in 0..(LastAddr + 2)
    /\ Graph
    /\ node \in DOMAIN opcodes \cup {None} /\ todoNodes \in Seq(DOMAIN opcodes)
    /\ node = None => todoNodes = <<>>
    /\ \E V \in SUBSET DOMAIN opcodes : Visited(V)

(* V: the nodes that pass 2 has seen, which is all that pass 3 can reach. *)
Closed(V) ==
    /\ start \in V /\ emitted \subseteq V
    /\ node \in V \cup {None} /\ todoNodes \in Seq(V)
    /\ \A a \in V : /\ opcodes[a].target = Target(a)
                    /\ opcodes[a].target \in V \cup {None}
                    /\ opcodes[a].next \in V \cup {None}

(* Generated code. *)
Placed(s, a) == \E i \in 1..Len(s) : s[i].op = "code" /\ s[i].at = a

(* What the item x of the generated code needs, and the item y after it.    *)
GoodItem(x) ==
    x.op = "code" =>
        /\ x.at \in Addr /\ code[x.at].kind \notin {"custom", "auxiliary"}
        /\ x.pc = After(x.at)
        /\ HasTarget(x.at) => x.target = code[x.at].target
Follows(x, y) ==
    x.op = "code" =>
        /\ code[x.at].kind \in Falling => y.op \in {"code", "br"} /\ y.at = After(x.at)
        /\ code[x.at].kind \in Closing => y.op = "ret"

(* What pass 3 still owes the last item. *)
Pending(x) ==
    x.op = "code" =>
        /\ code[x.at].kind \in Falling =>
              lastOp = x.at /\ node = After(x.at) /\ ~needRet
        /\ code[x.at].kind \in Closing => needRet \/ node = None

Sound(s) ==
    /\ s \in Seq(ItemType)
    /\ \A i \in 1..Len(s) : GoodItem(s[i])
    /\ \A i, j \in 1..Len(s) :
          s[i].op = "code" /\ s[j].op = "code" /\ s[i].at = s[j].at => i = j
    /\ \A i \in 1..(Len(s) - 1) : Follows(s[i], s[i + 1])
    /\ \A i \in 1..Len(s) : s[i].op = "br" => Placed(s, s[i].at)
    /\ s # <<>> => s[1].op = "code" /\ s[1].at = start

EmitInv ==
    /\ phase = "emit" /\ running /\ ip = 0 /\ todoList = <<>>
    /\ needRet \in BOOLEAN /\ lastOp \in Addr \cup {None}
    /\ pc \in 0..(LastAddr + 2)
    /\ Graph
    /\ node = None => todoNodes = <<>>
    /\ \E V \in SUBSET DOMAIN opcodes : Closed(V)
    /\ Sound(il)
    /\ \A a \in Addr : a \in emitted <=> Placed(il, a)
    /\ \A a \in emitted : HasTarget(a) => code[a].target \in emitted \cup Work
    /\ il = <<>> => node = start /\ ~needRet
    /\ il # <<>> => Pending(il[Len(il)])

(* A fragment that can be run. *)
Complete ==
    /\ Sound(il)
    /\ \A i \in 1..Len(il) :
          il[i].op = "code" /\ HasTarget(il[i].at) => Placed(il, code[il[i].at].target)
    /\ il # <<>> /\ il[Len(il)].op = "ret"

AtReturn == ip = 0 \/ il[ip].op = "ret"

RunInv ==
    /\ phase = "run" /\ running \in BOOLEAN
    /\ todoList = <<>> /\ todoNodes = <<>> /\ lastOp = None /\ node = None
    /\ emitted = {} /\ needRet = FALSE /\ DOMAIN opcodes = {}
    /\ start \in Addr /\ pc \in 0..(LastAddr + 2)
    /\ ip = 0 => il = <<>>
    /\ ip # 0 => ip \in 1..Len(il) /\ Complete
    /\ ~running => AtReturn
    /\ running /\ AtReturn => pc \in Addr

ExceptionInv == phase = "exception" /\ running /\ TypeOK

Inv == code \in Programs /\ (DecodeInv \/ TieInv \/ EmitInv \/ RunInv \/ ExceptionInv)

-----------------------------------------------------------------------------
(* Pass 1 *)

LEMMA InitInv == Init => Inv
<1> SUFFICES ASSUME Init PROVE DecodeInv /\ code \in Programs
  BY DEF Inv
<1>1. DOMAIN opcodes = {}
  BY DEF Init
<1>2. todoList \in Seq(Addr)
  BY DEF Init
<1> QED BY <1>1, <1>2 DEF Init, DecodeInv, Chains

LEMMA LinkedFacts ==
    ASSUME NEW ops, \A b \in DOMAIN ops : ops[b] \in Node, NEW a \in Addr
    PROVE  /\ DOMAIN Linked(ops, a) = DOMAIN ops
           /\ \A b \in DOMAIN ops :
                 /\ Linked(ops, a)[b] \in Node
                 /\ Linked(ops, a)[b].target = ops[b].target
                 /\ Linked(ops, a)[b].next =
                        IF lastOp # None /\ b = lastOp THEN a ELSE ops[b].next
<1>1. CASE lastOp = None
  BY <1>1 DEF Linked
<1>2. CASE lastOp # None
  <2> DEFINE n == [ops[lastOp] EXCEPT !.next = a]
  <2>1. Linked(ops, a) = [ops EXCEPT ![lastOp] = n]
    BY <1>2 DEF Linked
  <2>2. lastOp \in DOMAIN ops => n \in Node /\ n.next = a /\ n.target = ops[lastOp].target
    BY DEF Node
  <2> HIDE DEF n
  <2>3. \A b \in DOMAIN ops : [ops EXCEPT ![lastOp] = n][b] = IF b = lastOp THEN n ELSE ops[b]
    OBVIOUS
  <2> QED BY <1>2, <2>1, <2>2, <2>3
<1> QED BY <1>1, <1>2

(* The end of an iteration of pass 1. *)
LEMMA GoesOnInv ==
    ASSUME NoAuxiliary, code \in Programs, DecodeInv,
           NEW a, NEW last, NEW ended \in BOOLEAN, NEW todo \in Seq(Addr), NEW l,
           GoesOnAt(a, last, ended, todo),
           DOMAIN opcodes' \subseteq Addr, start \in DOMAIN opcodes',
           Chains(opcodes', l, todo, {}),
           ended => a \in 0..(LastAddr + 2) /\ (l = None \/ IsTerminator(l)),
           ~ended => /\ l = last /\ last \in DOMAIN opcodes'
                     /\ ~IsTerminator(last) /\ a = After(last),
           UNCHANGED <<code, running, start, todoNodes, emitted, needRet, il, ip>>
    PROVE  Inv'
<1>1. CASE ~ended
  <2>1. /\ pc' = a /\ lastOp' = last /\ todoList' = todo /\ phase' = phase /\ node' = node
    BY <1>1 DEF GoesOnAt
  <2>2. code[last].kind # "custom" /\ last \in Addr
    BY <1>1 DEF Chains
  <2>3. pc' \in Addr
    BY <1>1, <2>1, <2>2, KindFacts
  <2>4. Chains(opcodes, lastOp, todoList, {pc})'
    BY <1>1, <2>1 DEF Chains, IsTerminator, HasTarget, IsBranch, IsUnconditionalJump, After
  <2>5. DecodeInv'
    BY <1>1, <2>1, <2>3, <2>4 DEF DecodeInv, IsTerminator, After
  <2> QED BY <2>5 DEF Inv
<1>2. CASE ended /\ todo # <<>>
  <2>1. /\ pc' = Head(todo) /\ lastOp' = None /\ todoList' = Tail(todo)
        /\ phase' = phase /\ node' = node
    BY <1>2 DEF GoesOnAt
  <2>2. /\ Head(todo) \in Addr /\ Tail(todo) \in Seq(Addr)
        /\ Elements(todo) = {Head(todo)} \cup Elements(Tail(todo))
    BY <1>2, ElementsWithoutFirst
  <2>3. \A b \in DOMAIN opcodes' : b # None
    BY AddrAssumption DEF Addr, None
  <2>4. Chains(opcodes, lastOp, todoList, {pc})'
    BY <1>2, <2>1, <2>2, <2>3
    DEF Chains, IsTerminator, HasTarget, IsBranch, IsUnconditionalJump, After
  <2>5. DecodeInv'
    BY <2>1, <2>2, <2>4 DEF DecodeInv
  <2> QED BY <2>5 DEF Inv
<1>3. CASE ended /\ todo = <<>>
  <2>1. /\ pc' = a /\ lastOp' = None /\ todoList' = <<>> /\ phase' = "tie" /\ node' = start
    BY <1>3 DEF GoesOnAt
  <2>2. \A b \in DOMAIN opcodes' : b # None
    BY AddrAssumption DEF Addr, None
  <2>3. Elements(<<>>) = {} /\ <<>> \in Seq(DOMAIN opcodes')
    BY NoElements
  <2>4. Graph'
    BY <1>3, <2>2, <2>3
    DEF Graph, Chains, IsTerminator, HasTarget, IsBranch, IsUnconditionalJump, After
  <2>5. Work' = {start}
    BY <2>1, <2>2, <2>3 DEF DecodeInv, Work
  <2>6. Visited({})'
    BY <2>5 DEF Visited, Chains
  <2>7. TieInv'
    BY <1>3, <2>1, <2>3, <2>4, <2>6 DEF DecodeInv, TieInv
  <2> QED BY <2>7 DEF Inv
<1> QED BY <1>1, <1>2, <1>3

LEMMA LoopBackInv ==
    ASSUME NoAuxiliary, code \in Programs, DecodeInv, LoopBack
    PROVE  Inv'
<1> DEFINE ops == Linked(opcodes, pc)
<1>1. /\ opcodes' = ops /\ GoesOnAt(pc, lastOp, TRUE, todoList)
      /\ UNCHANGED <<code, running, start, todoNodes, emitted, needRet, il, ip>>
      /\ pc \in DOMAIN opcodes
  BY DEF LoopBack, Known
<1>2. /\ \A b \in DOMAIN opcodes : opcodes[b] \in Node
      /\ pc \in Addr /\ DOMAIN opcodes \subseteq Addr
      /\ todoList \in Seq(Addr) /\ start \in DOMAIN opcodes
      /\ pc \in 0..(LastAddr + 2)
  BY <1>1, AddrAssumption DEF DecodeInv, Chains, Addr
<1>3. /\ DOMAIN ops = DOMAIN opcodes
      /\ \A b \in DOMAIN opcodes :
            /\ ops[b] \in Node /\ ops[b].target = opcodes[b].target
            /\ ops[b].next = IF lastOp # None /\ b = lastOp THEN pc ELSE opcodes[b].next
  BY <1>2, LinkedFacts
<1> HIDE DEF ops
<1>4. \A b \in DOMAIN opcodes : b # None
  BY <1>2, AddrAssumption DEF Addr, None
<1>5. Chains(ops, None, todoList, {})
  BY <1>1, <1>3, <1>4 DEF Chains, DecodeInv
<1> QED BY <1>1, <1>2, <1>3, <1>5, GoesOnInv

LEMMA DecodeStepInv ==
    ASSUME NoAuxiliary, code \in Programs, DecodeInv, Decode
    PROVE  Inv'
<1> DEFINE with == WithNode(pc)
           ops == Linked(with, pc)
           target == code[pc].target
           todo == IF HasTarget(pc) /\ target \notin DOMAIN opcodes \cup {pc}
                   THEN Append(todoList, target) ELSE todoList
           a == pc + code[pc].length
<1>1. /\ opcodes' = ops /\ GoesOnAt(a, pc, IsTerminator(pc), todo)
      /\ UNCHANGED <<code, running, start, todoNodes, emitted, needRet, il, ip>>
      /\ pc \notin DOMAIN opcodes /\ code[pc].kind # "custom"
  BY DEF Decode, Known
<1>2. /\ pc \in Addr /\ DOMAIN opcodes \subseteq Addr /\ todoList \in Seq(Addr)
      /\ start \in DOMAIN opcodes \cup {pc}
      /\ \A b \in DOMAIN opcodes : opcodes[b] \in Node
  BY DEF DecodeInv, Chains
<1>3. a = After(pc) /\ a \in 0..(LastAddr + 2) /\ target \in Addr
  BY <1>2, CodeFacts, AddrAssumption DEF After
<1>4. /\ DOMAIN with = DOMAIN opcodes \cup {pc}
      /\ with[pc].next = None /\ with[pc].target = None /\ with[pc] \in Node
      /\ \A b \in DOMAIN opcodes : with[b] = opcodes[b]
  BY <1>1 DEF WithNode, Node
<1> HIDE DEF with
<1>5. \A b \in DOMAIN with : with[b] \in Node
  BY <1>2, <1>4
<1>6. /\ DOMAIN ops = DOMAIN with
      /\ \A b \in DOMAIN with :
            /\ ops[b] \in Node /\ ops[b].target = with[b].target
            /\ ops[b].next = IF lastOp # None /\ b = lastOp THEN pc ELSE with[b].next
  BY <1>2, <1>5, LinkedFacts
<1> HIDE DEF ops
<1>7. todo \in Seq(Addr) /\ Elements(todo) =
          Elements(todoList) \cup
          IF HasTarget(pc) /\ target \notin DOMAIN opcodes \cup {pc} THEN {target} ELSE {}
  BY <1>2, <1>3, ElementsAppended
<1> HIDE DEF todo
<1>8. \A b \in DOMAIN opcodes \cup {pc} : b # None
  BY <1>2, AddrAssumption DEF Addr, None
<1>9. Chains(ops, pc, todo, {})
  <2>1. lastOp # None => lastOp \in DOMAIN opcodes /\ ~IsTerminator(lastOp)
                         /\ pc = After(lastOp)
    BY DEF DecodeInv
  <2>2. ASSUME NEW b \in DOMAIN opcodes
        PROVE  /\ ops[b] \in Node /\ ops[b].target = None /\ code[b].kind # "custom"
               /\ ops[b].next = IF IsTerminator(b) \/ b = pc THEN None ELSE After(b)
               /\ ops[b].next \in DOMAIN ops \cup {None}
               /\ HasTarget(b) => code[b].target \in DOMAIN ops \cup Elements(todo)
    BY <1>1, <1>4, <1>6, <1>7, <1>8, <2>1, <2>2 DEF DecodeInv, Chains
  <2>3. /\ ops[pc] \in Node /\ ops[pc].target = None
        /\ ops[pc].next = None
        /\ HasTarget(pc) => code[pc].target \in DOMAIN ops \cup Elements(todo)
    BY <1>1, <1>4, <1>6, <1>7, <2>1
  <2> QED BY <1>1, <1>4, <1>6, <2>2, <2>3 DEF Chains
<1>10. /\ DOMAIN opcodes' \subseteq Addr /\ start \in DOMAIN opcodes' /\ pc \in DOMAIN opcodes'
  BY <1>1, <1>2, <1>4, <1>6
<1>11. IsTerminator(pc) \in BOOLEAN
  BY DEF IsTerminator
<1> HIDE DEF a
<1> QED BY <1>1, <1>3, <1>7, <1>9, <1>10, <1>11, GoesOnInv

LEMMA DecodeCustomInv ==
    ASSUME code \in Programs, DecodeInv, DecodeCustom
    PROVE  Inv'
<1>1. \A a \in DOMAIN opcodes : opcodes[a] \in Node
  BY DEF DecodeInv, Chains
<1>2. pc \in 0..(LastAddr + 2) /\ lastOp \in Addr \cup {None} /\ Len(<<>>) = 0
  BY AddrAssumption DEF DecodeInv, Addr
<1>3. <<>> \in Seq(Addr) /\ <<>> \in Seq(ItemType)
  BY NoElements
<1>4. TypeOK'
  <2>1. /\ phase' = "exception" /\ pc' = pc /\ running' /\ start' \in Addr
        /\ opcodes' = opcodes /\ DOMAIN opcodes \subseteq Addr
        /\ todoList' \in Seq(Addr) /\ todoNodes' = <<>> /\ lastOp' = lastOp /\ node' = None
        /\ emitted' = {} /\ needRet' = FALSE /\ il' = <<>> /\ ip' = 0
    BY Zenon DEF DecodeInv, DecodeCustom
  <2>2. running' \in BOOLEAN
    BY DEF DecodeInv, DecodeCustom
  <2>3. ip' \in 0..Len(il') /\ emitted' \subseteq Addr /\ needRet' \in BOOLEAN
    <3>1. 0 \in 0..Len(<<>>)
      BY <1>2
    <3>2. ip' \in 0..Len(il')
      BY <2>1, <3>1, Zenon
    <3>3. needRet' \in BOOLEAN
      BY <2>1, Zenon
    <3> QED BY <2>1, <3>2, <3>3
  <2> QED BY <1>1, <1>2, <1>3, <2>1, <2>2, <2>3 DEF TypeOK
<1> QED BY <1>4 DEF DecodeInv, DecodeCustom, ExceptionInv, Inv

-----------------------------------------------------------------------------
(* Pass 2 *)

LEMMA GraphFacts ==
    ASSUME code \in Programs, Graph
    PROVE  \A a \in DOMAIN opcodes :
              /\ a \in Addr /\ a # None
              /\ Target(a) = IF HasTarget(a) THEN code[a].target ELSE None
              /\ Target(a) \in DOMAIN opcodes \cup {None}
              /\ HasTarget(a) => Target(a) # None
<1>1. \A a \in Addr : a # None /\ code[a].target \in Addr
  BY CodeFacts, AddrAssumption DEF Addr, None
<1> QED BY <1>1 DEF Graph, Target, Known

(* Links that do not change. *)
LEMMA GraphKept ==
    ASSUME Graph, code' = code, start' = start, DOMAIN opcodes' = DOMAIN opcodes,
           \A a \in DOMAIN opcodes : opcodes'[a] \in Node
                                     /\ opcodes'[a].next = opcodes[a].next
    PROVE  /\ Graph'
           /\ \A a : Target(a)' = Target(a)
<1>1. Graph'
  BY DEF Graph, IsTerminator, HasTarget, IsBranch, IsUnconditionalJump, After
<1>2. \A a : Target(a)' = Target(a)
  BY DEF Target, Known, HasTarget, IsBranch, IsUnconditionalJump
<1> QED BY <1>1, <1>2

LEMMA TieStepInv ==
    ASSUME code \in Programs, TieInv, Tie
    PROVE  Inv'
<1> DEFINE D == DOMAIN opcodes
           target == IF opcodes[node].target = None THEN Target(node) ELSE None
           todo == IF target = None THEN todoNodes ELSE Append(todoNodes, target)
           next == opcodes[node].next
<1>1. /\ node \in D /\ Graph /\ todoNodes \in Seq(D)
      /\ node # None /\ \A a \in D : opcodes[a] \in Node
  BY DEF Tie, TieInv, Graph
<1>2. PICK V \in SUBSET D : Visited(V)
  BY DEF TieInv
<1>3. target \in D \cup {None} /\ next \in D \cup {None} /\ None \notin D
  BY <1>1, GraphFacts DEF Graph
<1>4. /\ todo \in Seq(D)
      /\ Elements(todo) = Elements(todoNodes) \cup ({target} \ {None})
  <2>1. target # None =>
            /\ Append(todoNodes, target) \in Seq(D)
            /\ Elements(Append(todoNodes, target)) = Elements(todoNodes) \cup {target}
    <3> HIDE DEF target
    <3> QED BY <1>1, <1>3, ElementsAppended
  <2>2. target = None => {target} \ {None} = {}
    OBVIOUS
  <2>3. target # None => {target} \ {None} = {target}
    OBVIOUS
  <2> HIDE DEF target
  <2> QED BY <1>1, <2>1, <2>2, <2>3
<1>5. /\ DOMAIN opcodes' = D
      /\ \A a \in D : /\ opcodes'[a] \in Node
                      /\ opcodes'[a].next = opcodes[a].next
                      /\ a # node => opcodes'[a].target = opcodes[a].target
      /\ opcodes'[node].target = IF target = None THEN opcodes[node].target ELSE target
  <2>1. CASE target = None
    BY <1>1, <2>1 DEF Tie
  <2>2. CASE target # None
    <3> DEFINE n == [opcodes[node] EXCEPT !.target = target]
    <3>1. opcodes' = [opcodes EXCEPT ![node] = n]
      BY <2>2 DEF Tie
    <3>2. n \in Node /\ n.target = target /\ n.next = opcodes[node].next
      <4>1. target \in Addr \cup {None}
        BY <1>1, <1>3, GraphFacts
      <4> HIDE DEF target
      <4> QED BY <1>1, <4>1 DEF Node
    <3> HIDE DEF n, target
    <3>3. \A a \in D : opcodes'[a] = IF a = node THEN n ELSE opcodes[a]
      BY <3>1
    <3> QED BY <1>1, <2>2, <3>1, <3>2, <3>3
  <2> QED BY <2>1, <2>2
<1>6. opcodes'[node].target = Target(node)
  BY <1>1, <1>2, <1>5 DEF Visited
<1>7. Graph' /\ \A a : Target(a)' = Target(a)
  BY <1>1, <1>5, GraphKept DEF Tie
<1>8. /\ node' \in D \cup {None} /\ todoNodes' \in Seq(D)
      /\ node' = None => todoNodes' = <<>>
      /\ Work' = Elements(todo) \cup ({next} \ {None})
  <2>1. CASE next = None /\ todo # <<>>
    <3>1. node' = Head(todo) /\ todoNodes' = Tail(todo)
      BY <2>1 DEF Tie
    <3>2. /\ Head(todo) \in D /\ Tail(todo) \in Seq(D)
          /\ Elements(todo) = {Head(todo)} \cup Elements(Tail(todo))
      BY <1>4, <2>1, ElementsWithoutFirst
    <3> HIDE DEF todo, next
    <3> QED BY <1>3, <2>1, <3>1, <3>2 DEF Work
  <2>2. CASE next # None \/ todo = <<>>
    <3>1. node' = next /\ todoNodes' = todo
      BY <2>2 DEF Tie
    <3> HIDE DEF todo, next
    <3> QED BY <1>3, <1>4, <2>2, <3>1 DEF Work
  <2> QED BY <2>1, <2>2
<1>9. \E U \in SUBSET DOMAIN opcodes' : Visited(U)'
  <2> PICK U \in SUBSET D : U = V \cup {node}
    BY <1>1, <1>2
  <2>1. Work = Elements(todoNodes) \cup {node}
    BY <1>1 DEF Work
  <2>2. V \cup Work \subseteq U \cup Work'
    BY <1>4, <1>8, <2>1
  <2>3. start' \in U \cup Work'
    BY <1>2, <2>2 DEF Visited, Tie
  <2>4. ASSUME NEW a \in U
        PROVE  opcodes'[a].target = Target(a)' /\ opcodes'[a].next \in U \cup Work' \cup {None}
    <3>1. CASE a = node
      BY <1>3, <1>5, <1>6, <1>7, <1>8, <1>1, <3>1
    <3>2. CASE a # node
      <4>1. a \in V /\ a \in D
        BY <1>2, <3>2
      <4> QED BY <1>2, <1>5, <1>7, <2>2, <3>2, <4>1 DEF Visited
    <3> QED BY <3>1, <3>2
  <2>5. ASSUME NEW a \in D, opcodes'[a].target # None
        PROVE  opcodes'[a].target = Target(a)' /\ Target(a)' \in U \cup Work'
    <3>1. CASE a = node
      <4>1. Target(node) # None
        BY <1>6, <2>5, <3>1
      <4>2. Target(node) \in U \cup Work'
        <5>1. CASE opcodes[node].target = None
          <6>1. target = Target(node)
            BY <5>1
          <6> HIDE DEF target
          <6> QED BY <1>4, <1>8, <4>1, <6>1
        <5>2. CASE opcodes[node].target # None
          BY <1>1, <1>2, <2>2, <5>2 DEF Visited
        <5> QED BY <5>1, <5>2
      <4> QED BY <1>6, <1>7, <3>1, <4>2
    <3>2. CASE a # node
      BY <1>2, <1>5, <1>7, <2>2, <2>5, <3>2 DEF Visited
    <3> QED BY <3>1, <3>2
  <2> HIDE DEF D
  <2>6. Visited(U)'
    <3>1. \A a \in D : opcodes'[a].target # None =>
              opcodes'[a].target = Target(a)' /\ Target(a)' \in U \cup Work'
      BY <2>5
    <3>2. \A a \in DOMAIN opcodes' : opcodes'[a].target # None =>
              opcodes'[a].target = Target(a)' /\ Target(a)' \in U \cup Work'
      BY <1>5, <3>1
    <3> QED BY <2>3, <2>4, <3>2 DEF Visited
  <2> QED BY <1>5, <2>6
<1>10. TieInv'
  <2>1. /\ phase' = "tie" /\ running' /\ il' = <<>> /\ ip' = 0 /\ emitted' = {}
        /\ todoList' = <<>> /\ lastOp' = None /\ needRet' = FALSE
        /\ pc' \in 0..(LastAddr + 2)
    BY Zenon DEF TieInv, Tie
  <2> HIDE DEF D
  <2> QED BY <1>5, <1>7, <1>8, <1>9, <2>1 DEF TieInv
<1> QED BY <1>10 DEF Inv, Tie

LEMMA TieDoneInv ==
    ASSUME code \in Programs, TieInv, TieDone
    PROVE  Inv'
<1>1. /\ phase' = "emit" /\ running' /\ ip' = 0 /\ todoList' = <<>> /\ needRet' = FALSE
      /\ lastOp' = None /\ pc' \in 0..(LastAddr + 2) /\ emitted' = {} /\ il' = <<>>
      /\ node' = start /\ todoNodes' = <<>> /\ opcodes' = opcodes /\ start' = start
      /\ node = None /\ todoNodes = <<>> /\ code' = code
  BY Zenon DEF TieInv, TieDone
<1>2. Graph /\ \A a \in DOMAIN opcodes : opcodes[a] \in Node
  BY DEF TieInv, Graph
<1>3. PICK V \in SUBSET DOMAIN opcodes : Visited(V)
  BY DEF TieInv
<1>4. Graph' /\ \A a : Target(a)' = Target(a)
  BY <1>1, <1>2, GraphKept
<1>5. Elements(<<>>) = {} /\ <<>> \in Seq(V) /\ <<>> \in Seq(ItemType) /\ Len(<<>>) = 0
  <2>1. <<>> \in Seq(V) /\ <<>> \in Seq(ItemType) /\ Len(<<>>) = 0
    OBVIOUS
  <2> QED BY <2>1, NoElements
<1>6. Work = {}
  BY <1>1, <1>5 DEF Work
<1>7. Closed(V)'
  BY <1>1, <1>3, <1>4, <1>5, <1>6 DEF Visited, Closed
<1>8. \A i \in 1..0 : FALSE
  OBVIOUS
<1>9. Sound(il)' /\ \A a : ~Placed(il, a)'
  BY <1>1, <1>5, <1>8 DEF Sound, Placed
<1>10. start # None
  BY <1>2, AddrAssumption DEF Graph, Addr, None
<1>11. EmitInv'
  BY <1>1, <1>3, <1>4, <1>7, <1>9, <1>10 DEF EmitInv
<1> QED BY <1>1, <1>11 DEF Inv

-----------------------------------------------------------------------------
(* Pass 3 *)

(* Where pass 3 goes on. *)
LEMMA MovesOnFacts ==
    ASSUME NEW V, None \notin V, NEW keeps \in BOOLEAN, NEW todo \in Seq(V),
           NEW ret \in BOOLEAN, node \in V, opcodes[node].next \in V \cup {None},
           MovesOn(keeps, todo, ret)
    PROVE  /\ node' \in V \cup {None} /\ todoNodes' \in Seq(V)
           /\ Elements(todo) \subseteq Work' 
           /\ node' = None => todoNodes' = <<>>
           /\ lastOp' \in V \cup {None} /\ needRet' \in BOOLEAN
           /\ opcodes[node].next # None /\ keeps =>
                 node' = opcodes[node].next /\ lastOp' = node /\ needRet' = ret
           /\ opcodes[node].next = None \/ ~keeps => needRet' \/ node' = None
<1> DEFINE next == opcodes[node].next
<1>1. CASE (next = None \/ ~keeps) /\ todo # <<>>
  <2>1. node' = Head(todo) /\ todoNodes' = Tail(todo) /\ lastOp' = None /\ needRet' = TRUE
    BY <1>1 DEF MovesOn
  <2>2. /\ Head(todo) \in V /\ Tail(todo) \in Seq(V)
        /\ Elements(todo) = {Head(todo)} \cup Elements(Tail(todo))
    BY <1>1, ElementsWithoutFirst
  <2> QED BY <1>1, <2>1, <2>2 DEF Work
<1>2. CASE (next # None /\ keeps) \/ todo = <<>>
  <2>1. /\ node' = IF keeps THEN next ELSE None
        /\ todoNodes' = todo /\ lastOp' = node /\ needRet' = ret
    BY <1>2 DEF MovesOn
  <2> QED BY <1>2, <2>1 DEF Work
<1> QED BY <1>1, <1>2

(* One more item of generated code. *)
LEMMA SoundAppended ==
    ASSUME NEW s, Sound(s), NEW x \in ItemType, GoodItem(x),
           s # <<>> => Follows(s[Len(s)], x),
           x.op = "code" => ~Placed(s, x.at),
           x.op = "br" => Placed(s, x.at),
           s = <<>> => x.op = "code" /\ x.at = start
    PROVE  /\ Sound(Append(s, x))
           /\ \A a : Placed(Append(s, x), a) <=> Placed(s, a) \/ (x.op = "code" /\ x.at = a)
           /\ Append(s, x) # <<>> /\ Append(s, x)[Len(Append(s, x))] = x
<1> DEFINE t == Append(s, x)
           n == Len(s)
<1>1. s \in Seq(ItemType)
  BY DEF Sound
<1>2. /\ t \in Seq(ItemType) /\ Len(t) = n + 1 /\ n \in Nat /\ t[n + 1] = x
      /\ \A i \in 1..n : t[i] = s[i]
      /\ t # <<>> /\ (n = 0 <=> s = <<>>)
  <2> HIDE DEF ItemType
  <2> QED BY <1>1
<1> HIDE DEF t
<1>3. /\ \A i \in 1..(n + 1) : i = n + 1 \/ i \in 1..n
      /\ n + 1 \in 1..(n + 1) /\ \A i \in 1..n : i \in 1..(n + 1)
      /\ \A i \in 1..(n + 1 - 1) : i \in 1..n
      /\ \A i \in 1..n : i # n => i \in 1..(n - 1) /\ i + 1 \in 1..n
  BY <1>2
<1>4. \A a : Placed(t, a) <=> Placed(s, a) \/ (x.op = "code" /\ x.at = a)
  BY <1>2, <1>3 DEF Placed
<1>5. \A i \in 1..n : t[i].op = "code" /\ x.op = "code" => t[i].at # x.at
  BY <1>2 DEF Placed
<1>6. \A i \in 1..Len(t) : GoodItem(t[i])
  BY <1>2, <1>3 DEF Sound
<1>7. \A i, j \in 1..Len(t) :
          t[i].op = "code" /\ t[j].op = "code" /\ t[i].at = t[j].at => i = j
  BY <1>2, <1>3, <1>5 DEF Sound
<1>8. \A i \in 1..(Len(t) - 1) : Follows(t[i], t[i + 1])
  <2>1. ASSUME NEW i \in 1..n, i # n PROVE Follows(t[i], t[i + 1])
    BY <1>2, <1>3, <2>1 DEF Sound
  <2>2. n # 0 => Follows(t[n], t[n + 1])
    <3>1. n # 0 => n \in 1..n
      BY <1>2
    <3> QED BY <1>2, <3>1
  <2> QED BY <1>2, <1>3, <2>1, <2>2
<1>9. \A i \in 1..Len(t) : t[i].op = "br" => Placed(t, t[i].at)
  BY <1>2, <1>3, <1>4 DEF Sound
<1>10. t[1].op = "code" /\ t[1].at = start
  <2>1. CASE n = 0
    BY <1>2, <2>1
  <2>2. CASE n # 0
    <3>1. 1 \in 1..n
      BY <1>2, <2>2
    <3> QED BY <1>2, <2>2, <3>1 DEF Sound
  <2> QED BY <2>1, <2>2
<1>11. Sound(t)
  BY <1>2, <1>6, <1>7, <1>8, <1>9, <1>10 DEF Sound
<1> QED BY <1>2, <1>4, <1>11 DEF t

(* What is Sound remains so while the program and start are the same. *)
LEMMA SoundKept ==
    ASSUME code' = code, start' = start
    PROVE  /\ Sound(il') => Sound(il)'
           /\ \A a : Placed(il, a)' <=> Placed(il', a)
<1>1. \A x : GoodItem(x) => GoodItem(x)'
  BY DEF GoodItem, After, HasTarget, IsBranch, IsUnconditionalJump
<1>2. \A x, y : Follows(x, y) => Follows(x, y)'
  BY DEF Follows, After
<1> QED BY <1>1, <1>2 DEF Sound, Placed, GoodItem, Follows, After, HasTarget, IsBranch, IsUnconditionalJump

(* The code so far with the return that it needs. *)
LEMMA RetFacts ==
    ASSUME code \in Programs, EmitInv, node # None
    PROVE  /\ Sound(il \o Ret)
           /\ \A a : Placed(il \o Ret, a) <=> Placed(il, a)
           /\ il \o Ret = <<>> => node = start
           /\ il \o Ret # <<>> => \A y \in ItemType :
                 y.op \in {"code", "br"} /\ y.at = node =>
                     Follows((il \o Ret)[Len(il \o Ret)], y)
<1> DEFINE r == Item("ret", None)
<1>1. r \in ItemType /\ r.op = "ret"
  BY DEF Item, ItemType
<1>2. il \in Seq(ItemType) /\ Sound(il) /\ needRet \in BOOLEAN
  BY DEF EmitInv, Sound
<1>3. CASE needRet
  <2>1. il \o Ret = Append(il, r)
    <3> HIDE DEF r, ItemType
    <3>1. il \o Ret = il \o <<r>>
      BY <1>3 DEF Ret, r
    <3> QED BY <1>1, <1>2, <3>1
  <2>2. il # <<>> /\ Pending(il[Len(il)])
    BY <1>3 DEF EmitInv
  <2>3. Follows(il[Len(il)], r) /\ GoodItem(r)
    BY <1>1, <1>3, <2>2 DEF Pending, Follows, GoodItem
  <2> HIDE DEF r
  <2>4. /\ Sound(Append(il, r))
        /\ \A a : Placed(Append(il, r), a) <=> Placed(il, a)
        /\ Append(il, r) # <<>> /\ Append(il, r)[Len(Append(il, r))] = r
    BY <1>1, <1>2, <2>2, <2>3, SoundAppended
  <2>5. \A y : Follows(r, y)
    BY <1>1 DEF Follows
  <2> QED BY <2>1, <2>4, <2>5
<1>4. CASE ~needRet
  <2>1. il \o Ret = il
    <3>1. il \o Ret = il \o <<>>
      BY <1>4 DEF Ret
    <3> HIDE DEF ItemType
    <3> QED BY <1>2, <3>1
  <2>2. il = <<>> => node = start
    BY DEF EmitInv
  <2>3. ASSUME il # <<>>, NEW y \in ItemType, y.op \in {"code", "br"}, y.at = node
        PROVE  Follows(il[Len(il)], y)
    BY <1>4, <2>3 DEF EmitInv, Pending, Follows
  <2> QED BY <1>2, <2>1, <2>2, <2>3
<1> QED BY <1>2, <1>3, <1>4

LEMMA EmitStepInv ==
    ASSUME NoAuxiliary, code \in Programs, EmitInv, Emit
    PROVE  Inv'
<1> DEFINE x == CodeOf(node)
           base == il \o Ret
           keeps == KeepsCompiling(node)
           todo == TodoAfter(node)
<1>1. /\ phase' = phase /\ running' = running /\ ip' = ip /\ todoList' = todoList
      /\ opcodes' = opcodes /\ code' = code /\ start' = start
      /\ node # None /\ node \notin emitted /\ emitted' = emitted \cup {node}
      /\ pc' = After(node) /\ MovesOn(keeps, todo, FALSE)
      /\ il' = base \o <<x>>
  <2>1. il' = il \o Ret \o <<x>> /\ pc' = node + code[node].length
    BY DEF Emit
  <2> HIDE DEF x
  <2> QED BY <2>1 DEF Emit, After
<1>2. PICK V \in SUBSET DOMAIN opcodes : Closed(V)
  BY DEF EmitInv
<1>3. /\ Graph /\ node \in V /\ node \in DOMAIN opcodes /\ node \in Addr
      /\ None \notin V /\ todoNodes \in Seq(V)
      /\ opcodes[node] \in Node /\ code[node].kind # "custom"
      /\ opcodes[node].target = Target(node) /\ opcodes[node].target \in V \cup {None}
      /\ opcodes[node].next \in V \cup {None}
      /\ opcodes[node].next = IF IsTerminator(node) THEN None ELSE After(node)
  <2>1. Graph /\ node \in V /\ node \in DOMAIN opcodes /\ todoNodes \in Seq(V)
    BY <1>1, <1>2 DEF EmitInv, Closed
  <2>2. \A a \in DOMAIN opcodes : a \in Addr /\ a # None
    BY <2>1, GraphFacts
  <2> QED BY <1>2, <2>1, <2>2 DEF Graph, Closed
<1>4. /\ code[node].kind \in Kinds
      /\ IsTerminator(node) <=> code[node].kind \notin Falling
      /\ code[node].kind \in Falling => After(node) \in Addr
      /\ HasTarget(node) <=> code[node].kind \in {"branch", "jump"}
      /\ After(node) \in 0..(LastAddr + 2)
  <2>1. After(node) \in 1..(LastAddr + 2) /\ code[node].kind \in Kinds
    BY <1>3, CodeFacts
  <2>2. After(node) \in 0..(LastAddr + 2)
    BY <2>1, AddrAssumption
  <2> QED BY <1>3, <2>1, <2>2, KindFacts
<1>5. /\ Target(node) = IF HasTarget(node) THEN code[node].target ELSE None
      /\ HasTarget(node) => Target(node) # None
  BY <1>3, GraphFacts
<1>6. /\ keeps \in BOOLEAN
      /\ code[node].kind \in Falling => keeps /\ opcodes[node].next # None
      /\ code[node].kind \in Closing => opcodes[node].next = None \/ ~keeps
  <2>1. keeps \in BOOLEAN
    BY DEF KeepsCompiling
  <2>2. code[node].kind \in Falling => keeps
    BY <1>3, <1>4, <1>5 DEF KeepsCompiling, Falling
  <2>3. code[node].kind \in Falling => opcodes[node].next # None
    BY <1>3, <1>4, AddrAssumption DEF Addr, None
  <2>4. code[node].kind \in Closing => opcodes[node].next = None
    BY <1>3, <1>4 DEF Closing, Falling
  <2> QED BY <2>1, <2>2, <2>3, <2>4
<1>7. /\ todo \in Seq(V) /\ Elements(todoNodes) \subseteq Elements(todo)
      /\ HasTarget(node) => code[node].target \in Elements(todo)
  <2>1. CASE opcodes[node].target = None
    BY <1>3, <1>5, <2>1 DEF TodoAfter
  <2>2. CASE opcodes[node].target # None
    <3>1. opcodes[node].target \in V /\ todo = Append(todoNodes, opcodes[node].target)
      BY <1>3, <2>2 DEF TodoAfter
    <3>2. /\ Append(todoNodes, opcodes[node].target) \in Seq(V)
          /\ Elements(Append(todoNodes, opcodes[node].target)) =
                Elements(todoNodes) \cup {opcodes[node].target}
      BY <1>3, <3>1, ElementsAppended
    <3> HIDE DEF todo
    <3> QED BY <1>3, <1>5, <3>1, <3>2
  <2> QED BY <2>1, <2>2
<1> HIDE DEF keeps, todo
<1>8. /\ node' \in V \cup {None} /\ todoNodes' \in Seq(V)
      /\ Elements(todo) \subseteq Work'
      /\ node' = None => todoNodes' = <<>>
      /\ lastOp' \in V \cup {None} /\ needRet' \in BOOLEAN
      /\ opcodes[node].next # None /\ keeps =>
            node' = opcodes[node].next /\ lastOp' = node /\ needRet' = FALSE
      /\ opcodes[node].next = None \/ ~keeps => needRet' \/ node' = None
  BY <1>1, <1>3, <1>6, <1>7, MovesOnFacts
<1>9. /\ x \in ItemType /\ x.op = "code" /\ x.at = node
      /\ x.pc = After(node) /\ x.target = opcodes[node].target
  BY <1>3, <1>4 DEF CodeOf, ItemType, Node, After
<1>10. GoodItem(x)
  BY <1>3, <1>4, <1>5, <1>9 DEF GoodItem, NoAuxiliary
<1>11. /\ Sound(base) /\ \A a : Placed(base, a) <=> Placed(il, a)
       /\ base = <<>> => node = start
       /\ base # <<>> => Follows(base[Len(base)], x)
  <2>1. base # <<>> => \A y \in ItemType :
            y.op \in {"code", "br"} /\ y.at = node => Follows(base[Len(base)], y)
    BY <1>1, RetFacts
  <2> HIDE DEF base, x
  <2>2. base # <<>> => Follows(base[Len(base)], x)
    BY <1>9, <2>1
  <2> QED BY <1>1, <2>2, RetFacts DEF base
<1> HIDE DEF base, x
<1>12. ~Placed(base, node)
  BY <1>1, <1>3, <1>11 DEF EmitInv
<1>13. il' = Append(base, x)
  BY <1>1, <1>9, <1>11 DEF Sound
<1>14. /\ Sound(il') /\ il' # <<>> /\ il'[Len(il')] = x
       /\ \A a : Placed(il', a) <=> Placed(il, a) \/ a = node
  BY <1>9, <1>10, <1>11, <1>12, <1>13, SoundAppended
<1>15. Sound(il)' /\ \A a : Placed(il, a)' <=> Placed(il, a) \/ a = node
  BY <1>1, <1>14, SoundKept
<1>16. Graph' /\ \A a : Target(a)' = Target(a)
  <2>1. \A a \in DOMAIN opcodes : opcodes[a] \in Node
    BY <1>3 DEF Graph
  <2> QED BY <1>1, <1>3, <2>1, GraphKept
<1>17. Closed(V)'
  BY <1>1, <1>2, <1>3, <1>8, <1>16 DEF Closed
<1>18. Pending(il[Len(il)])'
  <2>1. x.op = "code" =>
           /\ code'[x.at].kind \in Falling =>
                 lastOp' = x.at /\ node' = x.at + code'[x.at].length /\ ~needRet'
           /\ code'[x.at].kind \in Closing => needRet' \/ node' = None
    BY <1>1, <1>3, <1>4, <1>6, <1>8, <1>9 DEF After
  <2> QED BY <1>14, <2>1 DEF Pending, After
<1>19. \A a \in emitted' : HasTarget(a)' => code'[a].target \in emitted' \cup Work'
  <2>1. \A a : HasTarget(a)' <=> HasTarget(a)
    BY <1>1 DEF HasTarget, IsBranch, IsUnconditionalJump
  <2>2. \A a \in emitted : HasTarget(a) => code[a].target \in emitted \cup Work
    BY DEF EmitInv
  <2>3. Work \subseteq emitted' \cup Work'
    BY <1>1, <1>7, <1>8 DEF Work
  <2> QED BY <1>1, <1>7, <1>8, <2>1, <2>2, <2>3
<1>20. \A a \in Addr : a \in emitted' <=> Placed(il, a)'
  BY <1>1, <1>15 DEF EmitInv
<1>21. /\ phase' = "emit" /\ running' /\ ip' = 0 /\ todoList' = <<>>
       /\ needRet' \in BOOLEAN /\ lastOp' \in Addr \cup {None}
       /\ pc' \in 0..(LastAddr + 2)
  <2>1. phase' = "emit" /\ running' /\ ip' = 0 /\ todoList' = <<>>
    BY <1>1, Zenon DEF EmitInv
  <2>2. V \subseteq Addr
    BY <1>2, <1>3 DEF Graph
  <2> QED BY <1>1, <1>4, <1>8, <2>1, <2>2
<1>22. EmitInv'
  BY <1>1, <1>2, <1>8, <1>14, <1>15, <1>16, <1>17, <1>18, <1>19, <1>20, <1>21 DEF EmitInv
<1> QED BY <1>1, <1>22 DEF Inv

LEMMA EmitAgainInv ==
    ASSUME code \in Programs, EmitInv, EmitAgain
    PROVE  Inv'
<1> DEFINE x == Item("br", node)
           base == il \o Ret
<1>1. /\ phase' = phase /\ running' = running /\ ip' = ip /\ todoList' = todoList
      /\ opcodes' = opcodes /\ code' = code /\ start' = start /\ pc' = pc
      /\ node # None /\ node \in emitted /\ emitted' = emitted
  BY DEF EmitAgain
<1>2. PICK V \in SUBSET DOMAIN opcodes : Closed(V)
  BY DEF EmitInv
<1>3. /\ Graph /\ node \in V /\ node \in Addr
      /\ None \notin V /\ todoNodes \in Seq(V) /\ needRet \in BOOLEAN
      /\ opcodes[node].next \in V \cup {None} /\ V \subseteq Addr
  <2>1. Graph /\ node \in V /\ todoNodes \in Seq(V) /\ needRet \in BOOLEAN
    BY <1>1, <1>2 DEF EmitInv, Closed
  <2>2. \A a \in DOMAIN opcodes : a \in Addr /\ a # None
    BY <2>1, GraphFacts
  <2> QED BY <1>2, <2>1, <2>2 DEF Closed
<1>4. PICK ret \in BOOLEAN :
          /\ MovesOn(FALSE, todoNodes, ret)
          /\ \/ lastOp # None /\ il' = base \o <<x>>
             \/ lastOp = None /\ il' = il /\ ret = needRet
  <2>1. CASE lastOp # None
    <3>1. il' = il \o Ret \o <<x>> /\ MovesOn(FALSE, todoNodes, FALSE)
      BY <2>1 DEF EmitAgain
    <3> HIDE DEF x
    <3> QED BY <2>1, <3>1
  <2>2. CASE lastOp = None
    <3>1. il' = il /\ MovesOn(FALSE, todoNodes, needRet)
      BY <2>2 DEF EmitAgain
    <3> QED BY <1>3, <2>2, <3>1
  <2> QED BY <2>1, <2>2
<1>5. /\ node' \in V \cup {None} /\ todoNodes' \in Seq(V)
      /\ Elements(todoNodes) \subseteq Work'
      /\ node' = None => todoNodes' = <<>>
      /\ lastOp' \in V \cup {None} /\ needRet' \in BOOLEAN
      /\ needRet' \/ node' = None
  BY <1>3, <1>4, MovesOnFacts
<1>6. Placed(il, node) /\ il # <<>>
  <2>1. Placed(il, node)
    BY <1>1, <1>3 DEF EmitInv
  <2>2. \A i \in 1..Len(<<>>) : FALSE
    OBVIOUS
  <2> QED BY <2>1, <2>2 DEF Placed
<1>7. /\ Sound(il') /\ il' # <<>> /\ \A a : Placed(il', a) <=> Placed(il, a)
      /\ Pending(il[Len(il)])'
  <2>1. CASE lastOp # None
    <3>1. x \in ItemType /\ x.op = "br" /\ x.at = node
      BY <1>3 DEF Item, ItemType
    <3>2. GoodItem(x)
      BY <3>1 DEF GoodItem
    <3>3. /\ Sound(base) /\ \A a : Placed(base, a) <=> Placed(il, a)
          /\ base # <<>> => Follows(base[Len(base)], x)
      <4>1. base # <<>> => \A y \in ItemType :
                y.op \in {"code", "br"} /\ y.at = node => Follows(base[Len(base)], y)
        BY <1>1, RetFacts
      <4> HIDE DEF base, x
      <4>2. base # <<>> => Follows(base[Len(base)], x)
        BY <3>1, <4>1
      <4> QED BY <1>1, <4>2, RetFacts DEF base
    <3> HIDE DEF base, x
    <3>4. base # <<>>
      <4>1. Placed(base, node) /\ \A i \in 1..Len(<<>>) : FALSE
        BY <1>6, <3>3
      <4> QED BY <4>1 DEF Placed
    <3>5. il' = Append(base, x)
      BY <1>4, <2>1, <3>1, <3>3 DEF Sound
    <3>6. /\ Sound(il') /\ il' # <<>> /\ il'[Len(il')] = x
          /\ \A a : Placed(il', a) <=> Placed(il, a)
      BY <1>6, <3>1, <3>2, <3>3, <3>4, <3>5, SoundAppended
    <3>7. Pending(il[Len(il)])'
      BY <3>1, <3>6 DEF Pending
    <3> QED BY <3>6, <3>7
  <2>2. CASE lastOp = None
    <3>1. Sound(il) /\ Pending(il[Len(il)])
      BY <1>6 DEF EmitInv
    <3>2. \A z \in Addr : z # None
      BY AddrAssumption DEF Addr, None
    <3>3. GoodItem(il[Len(il)])
      <4>1. Len(il) \in 1..Len(il)
        BY <1>6, <3>1 DEF Sound
      <4> QED BY <3>1, <4>1 DEF Sound
    <3>4. Pending(il[Len(il)])'
      BY <1>1, <1>4, <1>5, <2>2, <3>1, <3>2, <3>3 DEF Pending, GoodItem, After
    <3> QED BY <1>4, <1>6, <2>2, <3>1, <3>4
  <2> QED BY <2>1, <2>2
<1>8. Sound(il)' /\ \A a : Placed(il, a)' <=> Placed(il, a)
  BY <1>1, <1>7, SoundKept
<1>9. Graph' /\ \A a : Target(a)' = Target(a)
  <2>1. \A a \in DOMAIN opcodes : opcodes[a] \in Node
    BY <1>3 DEF Graph
  <2> QED BY <1>1, <1>3, <2>1, GraphKept
<1>10. Closed(V)'
  BY <1>1, <1>2, <1>5, <1>9 DEF Closed
<1>11. \A a \in emitted' : HasTarget(a)' => code'[a].target \in emitted' \cup Work'
  <2>1. \A a : HasTarget(a)' <=> HasTarget(a)
    BY <1>1 DEF HasTarget, IsBranch, IsUnconditionalJump
  <2>2. \A a \in emitted : HasTarget(a) => code[a].target \in emitted \cup Work
    BY DEF EmitInv
  <2>3. Work \subseteq emitted' \cup Work'
    BY <1>1, <1>5 DEF Work
  <2> QED BY <1>1, <2>1, <2>2, <2>3
<1>12. \A a \in Addr : a \in emitted' <=> Placed(il, a)'
  BY <1>1, <1>8 DEF EmitInv
<1>13. /\ phase' = "emit" /\ running' /\ ip' = 0 /\ todoList' = <<>>
       /\ needRet' \in BOOLEAN /\ lastOp' \in Addr \cup {None}
       /\ pc' \in 0..(LastAddr + 2)
  <2>1. /\ phase' = "emit" /\ running' /\ ip' = 0 /\ todoList' = <<>>
        /\ pc' \in 0..(LastAddr + 2)
    BY <1>1, Zenon DEF EmitInv
  <2> QED BY <1>3, <1>5, <2>1
<1>14. EmitInv'
  BY <1>1, <1>2, <1>5, <1>7, <1>8, <1>9, <1>10, <1>11, <1>12, <1>13 DEF EmitInv
<1> QED BY <1>1, <1>14 DEF Inv

LEMMA EmitDoneInv ==
    ASSUME code \in Programs, EmitInv, EmitDone
    PROVE  Inv' /\ NextPC' = start
<1> DEFINE r == Item("ret", None)
<1>1. /\ phase' = "run" /\ ip' = 1 /\ opcodes' = <<>> /\ lastOp' = None
      /\ emitted' = {} /\ needRet' = FALSE /\ code' = code /\ pc' = pc
      /\ running' = running /\ start' = start /\ todoList' = todoList
      /\ node' = None /\ todoNodes' = todoNodes /\ node = None
      /\ il' = Append(il, r)
  BY DEF EmitDone
<1>2. /\ running /\ todoList = <<>> /\ todoNodes = <<>> /\ Graph
      /\ pc \in 0..(LastAddr + 2) /\ Sound(il)
  BY <1>1, Zenon DEF EmitInv
<1>3. start \in Addr /\ start # None
  BY <1>2, AddrAssumption DEF Graph, Addr, None
<1>4. il # <<>> /\ Pending(il[Len(il)])
  BY <1>1, <1>3 DEF EmitInv
<1>5. r \in ItemType /\ r.op = "ret" /\ GoodItem(r)
  BY DEF Item, ItemType, GoodItem
<1>6. Len(il) \in 1..Len(il) /\ 1 \in 1..Len(il)
  BY <1>2, <1>4 DEF Sound
<1>7. Follows(il[Len(il)], r)
  <2>1. GoodItem(il[Len(il)])
    BY <1>2, <1>6 DEF Sound
  <2>2. il[Len(il)].op = "code" => code[il[Len(il)].at].kind \notin Falling
    <3>1. ASSUME il[Len(il)].op = "code", code[il[Len(il)].at].kind \in Falling PROVE FALSE
      <4>1. /\ il[Len(il)].at \in Addr /\ code[il[Len(il)].at].kind # "custom"
            /\ After(il[Len(il)].at) = None
        BY <1>1, <1>4, <2>1, <3>1 DEF GoodItem, Pending
      <4>2. After(il[Len(il)].at) \in 1..(LastAddr + 2)
        BY <4>1, CodeFacts
      <4> QED BY <4>1, <4>2, AddrAssumption DEF None
    <3> QED BY <3>1
  <2> QED BY <1>5, <2>2 DEF Follows
<1> HIDE DEF r
<1>8. /\ Sound(il') /\ \A a : Placed(il', a) <=> Placed(il, a)
      /\ il' # <<>> /\ il'[Len(il')] = r
  BY <1>1, <1>2, <1>4, <1>5, <1>7, SoundAppended
<1>9. Sound(il)' /\ \A a : Placed(il, a)' <=> Placed(il, a)
  BY <1>1, <1>8, SoundKept
<1>10. Work = {}
  <2>1. <<>> \in Seq({})
    OBVIOUS
  <2>2. Elements(<<>>) = {}
    BY <2>1, NoElements
  <2> QED BY <1>1, <1>2, <2>2 DEF Work
<1>11. ASSUME NEW i \in 1..Len(il'), il'[i].op = "code", HasTarget(il'[i].at)
       PROVE  Placed(il, code[il'[i].at].target)
  <2> DEFINE a == il'[i].at
  <2>1. a \in Addr /\ Placed(il, a)
    BY <1>8, <1>11 DEF Sound, GoodItem, Placed
  <2>2. a \in emitted
    BY <2>1 DEF EmitInv
  <2>3. code[a].target \in emitted
    BY <1>10, <1>11, <2>2 DEF EmitInv
  <2>4. emitted \subseteq Addr
    BY <1>2 DEF EmitInv, Graph, Closed
  <2> QED BY <2>3, <2>4 DEF EmitInv
<1>12. Complete'
  <2>1. \A a : HasTarget(a)' <=> HasTarget(a)
    BY <1>1 DEF HasTarget, IsBranch, IsUnconditionalJump
  <2>2. (\A i \in 1..Len(il) :
            il[i].op = "code" /\ HasTarget(il[i].at) => Placed(il, code[il[i].at].target))'
    BY <1>1, <1>9, <1>11, <2>1
  <2> QED BY <1>5, <1>8, <1>9, <2>2 DEF Complete
<1>13. 1 \in 1..Len(il') /\ il'[1].op = "code" /\ il'[1].at = start
  <2>1. 1 \in 1..Len(il')
    BY <1>8 DEF Sound
  <2> QED BY <1>8, <2>1 DEF Sound
<1>14. DOMAIN opcodes' = {}
  BY <1>1
<1>15. RunInv'
  BY <1>1, <1>2, <1>3, <1>12, <1>13, <1>14 DEF RunInv, AtReturn
<1> QED BY <1>1, <1>13, <1>15 DEF Inv, NextPC

-----------------------------------------------------------------------------
(* The generated code *)

(* Where the labels are that a piece of code jumps to. *)
LEMMA LabelFacts ==
    ASSUME NEW a, Placed(il, a)
    PROVE  Label(a) \in 1..Len(il) /\ il[Label(a)].op = "code" /\ il[Label(a)].at = a
BY DEF Placed, Label

LEMMA RunFacts ==
    ASSUME code \in Programs, RunInv, InMethod, il[ip].op = "code", NEW a, a = il[ip].at
    PROVE  /\ running /\ Complete /\ a \in Addr /\ code[a].kind \in Kinds
           /\ code[a].kind \notin {"custom", "auxiliary"}
           /\ il[ip].pc = After(a) /\ NextPC = a
           /\ code[a].kind \in Falling =>
                 /\ ip + 1 \in 1..Len(il) /\ il[ip + 1].op \in {"code", "br"}
                 /\ il[ip + 1].at = After(a)
           /\ code[a].kind \in Closing => ip + 1 \in 1..Len(il) /\ il[ip + 1].op = "ret"
           /\ code[a].kind \in {"branch", "jump"} =>
                 /\ Label(il[ip].target) \in 1..Len(il)
                 /\ il[Label(il[ip].target)].op = "code"
                 /\ il[Label(il[ip].target)].at = code[a].target
<1>1. ip \in 1..Len(il) /\ Complete /\ phase = "run" /\ ip # 0 /\ running
  BY DEF RunInv, InMethod, AtReturn
<1>2. il \in Seq(ItemType) /\ Sound(il)
  BY <1>1 DEF Complete, Sound
<1>3. ip # Len(il)
  BY <1>1 DEF Complete
<1>4. ip \in 1..(Len(il) - 1) /\ ip + 1 \in 1..Len(il) /\ Len(il) \in Nat
  <2>1. Len(il) \in Nat
    BY <1>2
  <2> QED BY <1>1, <1>3, <2>1
<1>5. GoodItem(il[ip]) /\ Follows(il[ip], il[ip + 1])
  BY <1>1, <1>2, <1>4 DEF Sound
<1>6. /\ a \in Addr /\ code[a].kind \notin {"custom", "auxiliary"} /\ il[ip].pc = After(a)
      /\ HasTarget(a) => il[ip].target = code[a].target
  BY <1>5 DEF GoodItem
<1>7. code[a].kind \in {"branch", "jump"} =>
          /\ Label(il[ip].target) \in 1..Len(il)
          /\ il[Label(il[ip].target)].op = "code"
          /\ il[Label(il[ip].target)].at = code[a].target
  <2>1. ASSUME code[a].kind \in {"branch", "jump"}
        PROVE  il[ip].target = code[a].target /\ Placed(il, il[ip].target)
    BY <1>1, <1>6, <2>1 DEF HasTarget, IsBranch, IsUnconditionalJump, Complete
  <2> QED BY <2>1, LabelFacts
<1>8. NextPC = a
  BY <1>1 DEF NextPC
<1> QED BY <1>1, <1>4, <1>5, <1>6, <1>7, <1>8, CodeFacts DEF Follows

(* What a step of the generated code leaves alone, and the method goes on.  *)
Others == /\ phase' = phase /\ code' = code /\ start' = start /\ opcodes' = opcodes
          /\ todoList' = todoList /\ lastOp' = lastOp /\ node' = node
          /\ todoNodes' = todoNodes /\ emitted' = emitted /\ needRet' = needRet

LEMMA MethodGoesOn ==
    ASSUME code \in Programs, RunInv, Complete, Others, il' = il, running' \in BOOLEAN,
           pc' \in 0..(LastAddr + 2), ip' \in 1..Len(il),
           ~running' => il[ip'].op = "ret", running' /\ il[ip'].op = "ret" => pc' \in Addr
    PROVE  Inv' /\ NextPC' = IF il[ip'].op = "ret" THEN pc' ELSE il[ip'].at
<1>1. ip' # 0
  OBVIOUS
<1>2. Sound(il') /\ il \in Seq(ItemType)
  BY DEF Complete, Sound
<1>3. Sound(il)' /\ \A a : Placed(il, a)' <=> Placed(il, a)
  BY <1>2, SoundKept DEF Others
<1>4. Complete'
  BY <1>3 DEF Complete, Others, HasTarget, IsBranch, IsUnconditionalJump
<1>5. RunInv'
  BY <1>1, <1>4 DEF RunInv, Others, AtReturn
<1>6. phase' = "run"
  BY DEF RunInv, Others
<1> QED BY <1>1, <1>5, <1>6 DEF Inv, Others, NextPC

LEMMA MethodReturns ==
    ASSUME code \in Programs, RunInv, Others, Returns,
           pc' \in 0..(LastAddr + 2), running => pc' \in Addr
    PROVE  Inv' /\ NextPC' = pc' /\ running' = running
<1>1. RunInv'
  BY DEF RunInv, Others, Returns, AtReturn
<1>2. phase' = "run" /\ ip' = 0
  BY DEF RunInv, Others, Returns
<1> QED BY <1>1, <1>2 DEF Inv, Others, NextPC, Returns

LEMMA RunCodeStep ==
    ASSUME code \in Programs, RunInv, RunCode
    PROVE  Inv' /\ Program!Next
<1> DEFINE a == il[ip].at
           kind == code[a].kind
<1>1. InMethod /\ il[ip].op = "code" /\ Body(il[ip]) /\ Others /\ code' = code
  BY DEF RunCode, Others
<1>2. /\ running /\ Complete /\ a \in Addr /\ kind \in Kinds
      /\ kind \notin {"custom", "auxiliary"} /\ il[ip].pc = After(a) /\ NextPC = a
      /\ kind \in Falling =>
            /\ ip + 1 \in 1..Len(il) /\ il[ip + 1].op \in {"code", "br"}
            /\ il[ip + 1].at = After(a)
      /\ kind \in Closing => ip + 1 \in 1..Len(il) /\ il[ip + 1].op = "ret"
      /\ kind \in {"branch", "jump"} =>
            /\ Label(il[ip].target) \in 1..Len(il)
            /\ il[Label(il[ip].target)].op = "code"
            /\ il[Label(il[ip].target)].at = code[a].target
  BY <1>1, RunFacts
<1>3. /\ After(a) \in 1..(LastAddr + 2)
      /\ kind \notin {"jump", "return", "throw", "quit"} => After(a) \in Addr
  BY <1>2, CodeFacts
<1>4. running \in BOOLEAN /\ pc \in 0..(LastAddr + 2) /\ Addr \subseteq 0..(LastAddr + 2)
  BY AddrAssumption DEF RunInv, Addr
<1>5. Program!After(a) = After(a)
  BY DEF Program!After, After
<1>6. ASSUME Inv', kind # "quit", NextPC' \in Program!Successors(a), running' = running
      PROVE  Program!Next
  BY <1>1, <1>2, <1>6 DEF Program!Next, Program!Execute
<1>7. CASE kind \in Falling \ {"branch"} /\ FallsToNext
  <2>1. Inv' /\ NextPC' = After(a)
    BY <1>1, <1>2, <1>4, <1>7, MethodGoesOn DEF FallsToNext
  <2>2. After(a) \in Program!Successors(a)
    BY <1>3, <1>5, <1>7 DEF Falling, Program!Successors
  <2> QED BY <1>6, <1>7, <2>1, <2>2 DEF Falling, FallsToNext
<1>8. CASE kind = "branch" /\ FallsToNext
  <2>1. Inv' /\ NextPC' = After(a)
    BY <1>1, <1>2, <1>4, <1>8, MethodGoesOn DEF FallsToNext, Falling
  <2>2. After(a) \in Program!Successors(a)
    BY <1>5, <1>8 DEF Program!Successors
  <2> QED BY <1>6, <1>8, <2>1, <2>2 DEF FallsToNext
<1>9. CASE kind \in {"branch", "jump"} /\ Branches(il[ip])
  <2>1. Inv' /\ NextPC' = code[a].target
    BY <1>1, <1>2, <1>4, <1>9, MethodGoesOn DEF Branches
  <2>2. code[a].target \in Program!Successors(a)
    BY <1>9 DEF Program!Successors
  <2> QED BY <1>6, <1>9, <2>1, <2>2 DEF Branches
<1>10. CASE kind \in {"return", "return branch"} /\ LeavesRoutine
  <2>1. Inv' /\ NextPC' = pc' /\ pc' \in Addr /\ running' = running
    BY <1>1, <1>4, <1>10, MethodReturns DEF LeavesRoutine
  <2>2. Program!Successors(a) = Addr
    BY <1>10 DEF Program!Successors
  <2> QED BY <1>6, <1>10, <2>1, <2>2
<1>11. CASE kind = "call" /\ GoesOnAfterwards(il[ip])
  <2>1. Inv' /\ NextPC' = After(a) /\ running' = running
    BY <1>1, <1>2, <1>3, <1>4, <1>11, MethodReturns DEF GoesOnAfterwards
  <2>2. After(a) \in Program!Successors(a)
    BY <1>5, <1>11 DEF Program!Successors
  <2> QED BY <1>6, <1>11, <2>1, <2>2
<1>12. CASE kind = "computed jump" /\ JumpsByOperand(il[ip])
  <2>1. Inv' /\ NextPC' = After(a)
    BY <1>1, <1>2, <1>3, <1>4, <1>12, MethodGoesOn DEF JumpsByOperand, Closing
  <2>2. After(a) \in Program!Successors(a)
    BY <1>5, <1>12 DEF Program!Successors
  <2> QED BY <1>6, <1>12, <2>1, <2>2 DEF JumpsByOperand
<1>13. CASE kind = "throw" /\ Throws
  <2>1. Inv' /\ NextPC' = pc' /\ pc' \in Addr
    BY <1>1, <1>2, <1>4, <1>13, MethodGoesOn DEF Throws, Closing
  <2>2. Program!Successors(a) = Addr
    BY <1>13 DEF Program!Successors
  <2> QED BY <1>6, <1>13, <2>1, <2>2 DEF Throws
<1>14. CASE kind = "quit" /\ Quits
  <2>1. Inv'
    <3>1. ip' \in 1..Len(il) /\ il[ip'].op = "ret" /\ il' = il /\ running' = FALSE /\ pc' = pc
      BY <1>2, <1>14 DEF Quits, Closing
    <3> QED BY <1>1, <1>2, <1>4, <3>1, MethodGoesOn
  <2> QED BY <1>1, <1>2, <1>14, <2>1 DEF Quits, Program!Next, Program!Quit
<1> QED BY <1>1, <1>2, <1>7, <1>8, <1>9, <1>10, <1>11, <1>12, <1>13, <1>14 DEF Body, Falling

LEMMA BreakStep ==
    ASSUME code \in Programs, RunInv, Break
    PROVE  Inv' /\ NextPC' = NextPC /\ running' = running
<1>1. /\ InMethod /\ il[ip].op = "code" /\ Others /\ Returns /\ pc' = il[ip].at
  BY DEF Break, Others
<1>2. il[ip].at \in Addr /\ NextPC = il[ip].at
  BY <1>1, RunFacts
<1>3. Addr \subseteq 0..(LastAddr + 2)
  BY AddrAssumption DEF Addr
<1> QED BY <1>1, <1>2, <1>3, MethodReturns

LEMMA RunBrStep ==
    ASSUME code \in Programs, RunInv, RunBr
    PROVE  Inv' /\ NextPC' = NextPC /\ running' = running
<1> DEFINE a == il[ip].at
<1>1. /\ InMethod /\ il[ip].op = "br" /\ Others /\ ip' = Label(a) /\ il' = il
      /\ pc' = pc /\ running' = running
  BY DEF RunBr, Others
<1>2. /\ ip \in 1..Len(il) /\ Complete /\ running /\ running \in BOOLEAN /\ NextPC = a
      /\ pc \in 0..(LastAddr + 2)
  BY <1>1 DEF InMethod, RunInv, AtReturn, NextPC
<1>3. Placed(il, a)
  BY <1>1, <1>2 DEF Complete, Sound
<1>4. ip' \in 1..Len(il) /\ il[ip'].op = "code" /\ il[ip'].at = a
  BY <1>1, <1>3, LabelFacts
<1> QED BY <1>1, <1>2, <1>4, MethodGoesOn

LEMMA RunRetStep ==
    ASSUME code \in Programs, RunInv, RunRet
    PROVE  Inv' /\ NextPC' = NextPC /\ running' = running
<1>1. InMethod /\ il[ip].op = "ret" /\ Others /\ Returns /\ pc' = pc
  BY DEF RunRet, Others
<1>2. /\ NextPC = pc /\ pc \in 0..(LastAddr + 2) /\ (running => pc \in Addr)
  BY <1>1 DEF InMethod, RunInv, AtReturn, NextPC
<1>3. pc' \in 0..(LastAddr + 2) /\ (running => pc' \in Addr)
  BY <1>1, <1>2
<1>4. Inv' /\ NextPC' = pc' /\ running' = running
  BY <1>1, <1>2, <1>3, MethodReturns
<1> QED BY <1>1, <1>2, <1>4

LEMMA CompileStarts ==
    ASSUME code \in Programs, RunInv, Compile
    PROVE  Inv' /\ NextPC' = NextPC /\ running' = running
<1>1. /\ phase' = "decode" /\ start' = pc /\ pc' = pc /\ running' = running /\ code' = code
      /\ opcodes' = opcodes /\ todoList' = todoList /\ lastOp' = lastOp /\ node' = node
      /\ todoNodes' = todoNodes /\ emitted' = emitted /\ needRet' = needRet /\ il' = il
      /\ ip' = ip /\ ip = 0 /\ running /\ phase = "run"
  BY DEF Compile
<1>2. /\ todoList = <<>> /\ todoNodes = <<>> /\ lastOp = None /\ node = None
      /\ emitted = {} /\ needRet = FALSE /\ DOMAIN opcodes = {} /\ il = <<>> /\ pc \in Addr
  BY <1>1 DEF RunInv, AtReturn
<1>3. <<>> \in Seq(Addr)
  OBVIOUS
<1>4. DecodeInv'
  BY <1>1, <1>2, <1>3 DEF DecodeInv, Chains
<1> QED BY <1>1, <1>4 DEF Inv, NextPC

-----------------------------------------------------------------------------
(* The theorems *)

(* Compiling executes nothing: the program is where the fragment starts.    *)
LEMMA CompilationStutters ==
    ASSUME phase # "run",
           LoopBack \/ Decode \/ DecodeCustom \/ Tie \/ TieDone \/ Emit \/ EmitAgain
    PROVE  NextPC' = NextPC /\ running' = running /\ code' = code
<1>1. start' = start /\ running' = running /\ code' = code
  BY DEF LoopBack, Decode, DecodeCustom, Tie, TieDone, Emit, EmitAgain
<1>2. phase' # "run"
  BY DEF LoopBack, Decode, DecodeCustom, Tie, TieDone, Emit, EmitAgain, GoesOnAt
<1> QED BY <1>1, <1>2 DEF NextPC

(* Every step keeps the invariant, and does a step of the program or none.  *)
LEMMA StepInv ==
    ASSUME NoAuxiliary, Inv, [Next]_vars
    PROVE  Inv' /\ [Program!Next]_Program!vars
<1> USE DEF Program!vars
<1>1. code \in Programs
  BY DEF Inv
<1>2. CASE DecodeInv /\ Next
  <2>1. phase = "decode"
    BY <1>2 DEF DecodeInv
  <2>2. LoopBack \/ Decode \/ DecodeCustom
    BY <1>2, <2>1
    DEF Next, Tie, TieDone, Emit, EmitAgain, EmitDone, InMethod, RunCode, Break, RunBr, RunRet,
        Compile
  <2> QED BY <1>1, <1>2, <2>1, <2>2, LoopBackInv, DecodeStepInv, DecodeCustomInv,
             CompilationStutters
<1>3. CASE TieInv /\ Next
  <2>1. phase = "tie"
    BY <1>3 DEF TieInv
  <2>2. Tie \/ TieDone
    BY <1>3, <2>1
    DEF Next, LoopBack, Decode, DecodeCustom, Emit, EmitAgain, EmitDone, InMethod, RunCode,
        Break, RunBr, RunRet, Compile
  <2> QED BY <1>1, <1>3, <2>1, <2>2, TieStepInv, TieDoneInv, CompilationStutters
<1>4. CASE EmitInv /\ Next
  <2>1. phase = "emit"
    BY <1>4 DEF EmitInv
  <2>2. Emit \/ EmitAgain \/ EmitDone
    BY <1>4, <2>1
    DEF Next, LoopBack, Decode, DecodeCustom, Tie, TieDone, InMethod, RunCode, Break, RunBr,
        RunRet, Compile
  <2>3. CASE Emit \/ EmitAgain
    BY <1>1, <1>4, <2>1, <2>3, EmitStepInv, EmitAgainInv, CompilationStutters
  <2>4. CASE EmitDone
    <3>1. NextPC = start
      BY <2>1 DEF NextPC
    <3> QED BY <1>1, <1>4, <2>4, <3>1, EmitDoneInv DEF EmitDone
  <2> QED BY <2>2, <2>3, <2>4
<1>5. CASE RunInv /\ Next
  <2>1. phase = "run"
    BY <1>5 DEF RunInv
  <2>2. RunCode \/ Break \/ RunBr \/ RunRet \/ Compile
    BY <1>5, <2>1
    DEF Next, LoopBack, Decode, DecodeCustom, Tie, TieDone, Emit, EmitAgain, EmitDone
  <2>3. CASE RunCode
    BY <1>1, <1>5, <2>3, RunCodeStep
  <2>4. CASE Break \/ RunBr \/ RunRet \/ Compile
    <3>1. code' = code
      BY <2>4 DEF Break, RunBr, RunRet, Compile
    <3> QED BY <1>1, <1>5, <2>4, <3>1, BreakStep, RunBrStep, RunRetStep, CompileStarts
  <2> QED BY <2>2, <2>3, <2>4
<1>6. CASE ExceptionInv /\ Next
  <2>1. phase = "exception"
    BY <1>6 DEF ExceptionInv
  <2> QED
    BY <1>6, <2>1
    DEF Next, LoopBack, Decode, DecodeCustom, Tie, TieDone, Emit, EmitAgain, EmitDone,
        InMethod, RunCode, Break, RunBr, RunRet, Compile
<1>7. CASE UNCHANGED vars
  <2>1. NextPC' = NextPC /\ code' = code /\ running' = running
    BY <1>7 DEF vars, NextPC
  <2> USE <1>7 DEF vars
  <2>2. /\ Graph' = Graph /\ Work' = Work /\ AtReturn' = AtReturn /\ TypeOK' = TypeOK
        /\ \A V : Visited(V)' = Visited(V) /\ Closed(V)' = Closed(V)
    BY DEF Graph, Work, AtReturn, TypeOK, Visited, Closed, IsTerminator, HasTarget, IsBranch,
           IsUnconditionalJump, After, Target, Known
  <2>3. Sound(il)' = Sound(il) /\ \A a : Placed(il, a)' = Placed(il, a)
    BY DEF Sound, Placed, GoodItem, Follows, HasTarget, IsBranch, IsUnconditionalJump, After
  <2>4. DecodeInv => DecodeInv'
    BY DEF DecodeInv, Chains, IsTerminator, HasTarget, IsBranch, IsUnconditionalJump, After
  <2>5. TieInv => TieInv'
    BY <2>2 DEF TieInv
  <2>6. EmitInv => EmitInv'
    BY <2>2, <2>3 DEF EmitInv, Pending, HasTarget, IsBranch, IsUnconditionalJump, After
  <2>7. RunInv => RunInv'
    BY <2>2, <2>3 DEF RunInv, Complete, HasTarget, IsBranch, IsUnconditionalJump
  <2>8. ExceptionInv => ExceptionInv'
    BY <2>2 DEF ExceptionInv
  <2> QED BY <2>1, <2>4, <2>5, <2>6, <2>7, <2>8 DEF Inv
<1> QED BY <1>2, <1>3, <1>4, <1>5, <1>6, <1>7 DEF Inv

LEMMA InvIsTyped == Inv => TypeOK
<1> SUFFICES ASSUME Inv PROVE TypeOK
  OBVIOUS
<1>1. /\ <<>> \in Seq(Addr) /\ <<>> \in Seq(ItemType) /\ 0 \in 0..Len(<<>>)
      /\ Addr \subseteq 0..(LastAddr + 2)
  BY AddrAssumption DEF Addr
<1>2. CASE DecodeInv
  <2>1. /\ phase = "decode" /\ running /\ il = <<>> /\ ip = 0 /\ emitted = {}
        /\ todoNodes = <<>> /\ node = None /\ needRet = FALSE /\ pc \in Addr /\ start \in Addr
        /\ DOMAIN opcodes \subseteq Addr /\ todoList \in Seq(Addr)
        /\ lastOp = None \/ lastOp \in DOMAIN opcodes
        /\ \A a \in DOMAIN opcodes : opcodes[a] \in Node
    BY <1>2, Zenon DEF DecodeInv, Chains
  <2>2. ip \in 0..Len(il) /\ il \in Seq(ItemType) /\ todoNodes \in Seq(Addr)
    BY <1>1, <2>1, Zenon
  <2>3. lastOp \in Addr \cup {None} /\ node \in Addr \cup {None} /\ emitted \subseteq Addr
    BY <2>1
  <2>4. running \in BOOLEAN /\ needRet \in BOOLEAN
    BY <2>1, <1>2 DEF DecodeInv
  <2> QED BY <2>1, <2>2, <2>3, <2>4 DEF TypeOK
<1>3. CASE TieInv
  <2>1. /\ phase = "tie" /\ running /\ il = <<>> /\ ip = 0 /\ emitted = {}
        /\ todoList = <<>> /\ lastOp = None /\ needRet = FALSE /\ pc \in 0..(LastAddr + 2)
        /\ Graph /\ node \in DOMAIN opcodes \cup {None} /\ todoNodes \in Seq(DOMAIN opcodes)
    BY <1>3, Zenon DEF TieInv
  <2>2. /\ start \in Addr /\ DOMAIN opcodes \subseteq Addr
        /\ \A a \in DOMAIN opcodes : opcodes[a] \in Node
    BY <2>1 DEF Graph
  <2>3. ip \in 0..Len(il) /\ il \in Seq(ItemType) /\ todoList \in Seq(Addr)
    BY <1>1, <2>1, Zenon
  <2>4. todoNodes \in Seq(Addr)
    <3>1. Elements(todoNodes) \subseteq DOMAIN opcodes
      BY <2>1, NoElements
    <3> QED BY <2>1, <2>2, <3>1, NoElements
  <2>5. lastOp \in Addr \cup {None} /\ node \in Addr \cup {None} /\ emitted \subseteq Addr
    BY <2>1, <2>2
  <2>6. running \in BOOLEAN /\ needRet \in BOOLEAN
    BY <1>3 DEF TieInv
  <2> QED BY <2>1, <2>2, <2>3, <2>4, <2>5, <2>6 DEF TypeOK
<1>4. CASE EmitInv
  <2>1. /\ phase = "emit" /\ running /\ ip = 0 /\ todoList = <<>> /\ needRet \in BOOLEAN
        /\ lastOp \in Addr \cup {None} /\ pc \in 0..(LastAddr + 2) /\ Graph /\ Sound(il)
    BY <1>4, Zenon DEF EmitInv
  <2>2. /\ start \in Addr /\ DOMAIN opcodes \subseteq Addr
        /\ \A a \in DOMAIN opcodes : opcodes[a] \in Node
    BY <2>1 DEF Graph
  <2>3. PICK V \in SUBSET DOMAIN opcodes : Closed(V)
    BY <1>4 DEF EmitInv
  <2>4. /\ emitted \subseteq Addr /\ node \in Addr \cup {None} /\ todoNodes \in Seq(V)
    BY <2>2, <2>3 DEF Closed
  <2>5. todoNodes \in Seq(Addr)
    <3>1. Elements(todoNodes) \subseteq V
      BY <2>4, NoElements
    <3> QED BY <2>2, <2>4, <3>1, NoElements
  <2>6. il \in Seq(ItemType) /\ ip \in 0..Len(il)
    <3>1. il \in Seq(ItemType)
      BY <2>1 DEF Sound
    <3>2. Len(il) \in Nat
      BY <3>1
    <3> QED BY <2>1, <3>1, <3>2
  <2>7. running \in BOOLEAN /\ todoList \in Seq(Addr)
    <3>1. todoList \in Seq(Addr)
      BY <1>1, <2>1, Zenon
    <3> QED BY <1>4, <3>1 DEF EmitInv
  <2> QED BY <2>1, <2>2, <2>4, <2>5, <2>6, <2>7 DEF TypeOK
<1>5. CASE RunInv
  <2>1. /\ phase = "run" /\ running \in BOOLEAN /\ todoList = <<>> /\ todoNodes = <<>>
        /\ lastOp = None /\ node = None /\ emitted = {} /\ needRet = FALSE
        /\ DOMAIN opcodes = {} /\ start \in Addr /\ pc \in 0..(LastAddr + 2)
        /\ ip = 0 => il = <<>>
        /\ ip # 0 => ip \in 1..Len(il) /\ Complete
    BY <1>5, Zenon DEF RunInv
  <2>2. todoList \in Seq(Addr) /\ todoNodes \in Seq(Addr)
    BY <1>1, <2>1, Zenon
  <2>3. il \in Seq(ItemType) /\ ip \in 0..Len(il)
    <3>1. CASE ip = 0
      BY <1>1, <2>1, <3>1, Zenon
    <3>2. CASE ip # 0
      <4>1. il \in Seq(ItemType)
        BY <2>1, <3>2 DEF Complete, Sound
      <4>2. Len(il) \in Nat
        BY <4>1
      <4> QED BY <2>1, <3>2, <4>1, <4>2
    <3> QED BY <3>1, <3>2
  <2>4. needRet \in BOOLEAN
    BY <2>1, Zenon
  <2>5. lastOp \in Addr \cup {None} /\ node \in Addr \cup {None} /\ emitted \subseteq Addr
    BY <2>1
  <2>6. DOMAIN opcodes \subseteq Addr /\ \A a \in DOMAIN opcodes : opcodes[a] \in Node
    BY <2>1
  <2> QED BY <2>1, <2>2, <2>3, <2>4, <2>5, <2>6 DEF TypeOK
<1>6. CASE ExceptionInv
  BY <1>6 DEF ExceptionInv
<1> QED BY <1>2, <1>3, <1>4, <1>5, <1>6 DEF Inv

LEMMA InvMarksLabels == Inv => LabelsAreMarkedOnce
<1> SUFFICES ASSUME Inv, phase = "run" PROVE LabelsAreMarkedOnce
  BY DEF LabelsAreMarkedOnce
<1>1. RunInv
  BY DEF Inv, DecodeInv, TieInv, EmitInv, ExceptionInv
<1>2. CASE ip = 0
  <2>1. \A i \in 1..Len(<<>>) : FALSE
    OBVIOUS
  <2>2. \A i \in 1..Len(il) : FALSE
    BY <1>1, <1>2, <2>1 DEF RunInv
  <2> QED BY <2>2 DEF LabelsAreMarkedOnce
<1>3. CASE ip # 0
  <2>1. Complete /\ Sound(il)
    BY <1>1, <1>3 DEF RunInv, Complete
  <2>2. ASSUME NEW j \in 1..Len(il), il[j].op = "code"
        PROVE  Labels(il[j].at) = {j}
    BY <2>1, <2>2 DEF Sound, Labels
  <2>3. ASSUME NEW a, Placed(il, a)
        PROVE  \E j \in 1..Len(il) : Labels(a) = {j}
    BY <2>2, <2>3 DEF Placed
  <2>4. ASSUME NEW i \in 1..Len(il), il[i].op = "br"
        PROVE  \E j \in 1..Len(il) : Labels(il[i].at) = {j}
    BY <2>1, <2>3, <2>4 DEF Sound
  <2>5. ASSUME NEW i \in 1..Len(il), il[i].op = "code", HasTarget(il[i].at)
        PROVE  \E j \in 1..Len(il) : Labels(il[i].target) = {j}
    <3>1. Placed(il, il[i].target)
      BY <2>1, <2>5 DEF Complete, Sound, GoodItem
    <3> QED BY <2>3, <3>1
  <2> QED BY <2>2, <2>4, <2>5 DEF LabelsAreMarkedOnce
<1> QED BY <1>2, <1>3

LEMMA InvHolds == NoAuxiliary => (Spec => []Inv)
<1> SUFFICES ASSUME NoAuxiliary PROVE Spec => []Inv
  OBVIOUS
<1>1. Inv /\ [Next]_vars => Inv'
  BY StepInv
<1> QED BY <1>1, InitInv, PTL DEF Spec

(* The compiler's variables keep their shape and the decoder stays in the   *)
(* code, whatever the code is, wherever control enters it.                  *)
THEOREM CompilerIsTyped == NoAuxiliary => (Spec => []TypeOK)
<1> SUFFICES ASSUME NoAuxiliary PROVE Spec => []TypeOK
  OBVIOUS
<1> QED BY InvHolds, InvIsTyped, PTL

(* CompileZCode marks one label for each instruction that its code jumps    *)
(* to, however branches, jumps and overlapping instructions lead back.      *)
THEOREM LabelsAreAlwaysMarkedOnce == NoAuxiliary => (Spec => []LabelsAreMarkedOnce)
<1> SUFFICES ASSUME NoAuxiliary PROVE Spec => []LabelsAreMarkedOnce
  OBVIOUS
<1> QED BY InvHolds, InvMarksLabels, PTL

(* JitLoopAsync executes the program: every step of the compiled code is a  *)
(* step of the interpreter or none, for every program whose fragments end   *)
(* with any instruction except save and restore with operands.              *)
THEOREM CompiledCodeRunsTheProgram == NoAuxiliary => (Spec => RunsTheProgram)
<1> SUFFICES ASSUME NoAuxiliary PROVE Spec => RunsTheProgram
  OBVIOUS
<1>1. Init => Program!Init
  BY DEF Init, Program!Init, NextPC
<1>2. Inv /\ [Next]_vars => [Program!Next]_Program!vars
  BY StepInv
<1> QED BY <1>1, <1>2, InvHolds, PTL DEF Spec, RunsTheProgram, Program!Spec
=============================================================================
