-------------------------- MODULE GameInput_proofs --------------------------
(* For any programs, dictionaries and lines, however deep reads nest in the *)
(* timer routines of others: the variables keep their shape; the player's   *)
(* answer is taken after at most one more run of the routine; nothing is    *)
(* written beyond the two buffers; a command file, read again, gives the    *)
(* inputs that it was written for; and the parse table describes the text.  *)
EXTENDS GameInput, Induction

(* What is so of every read, whatever its timer does.  A routine runs only  *)
(* while no task is picked; the read's task is not picked before it is      *)
(* complete; and a routine that started after that is still running, or the *)
(* answer is the next thing that is taken.  The last conjunct is why the    *)
(* routine cannot start a second time.                                      *)
TakesAnswer(r) ==
    /\ r.routine => r.picked = "none"
    /\ r.task = "waiting" => r.late = 0 /\ r.picked # "read"
    /\ r.late # 0 => r.late = 1 /\ (r.routine \/ r.picked = "read")

ReadsInv == /\ reads \in Seq(Read)
            /\ \A i \in DOMAIN reads : TakesAnswer(reads[i])

-----------------------------------------------------------------------------
(* The steps of one read *)

LEMMA NewReadTakesAnswer ==
    ASSUME NEW kind \in {"line", "key"}, NEW timed \in BOOLEAN
    PROVE  NewRead(kind, timed) \in Read /\ TakesAnswer(NewRead(kind, timed))
BY DEF NewRead, Read, TakesAnswer

LEMMA AnsweredTakesAnswer ==
    ASSUME NEW r \in Read, TakesAnswer(r), r.task = "waiting",
           NEW outcome \in {"answered", "broken"},
           NEW s, s = [r EXCEPT !.task = outcome, !.picked = Picks(r, "read")]
    PROVE  s \in Read /\ TakesAnswer(s)
BY DEF Picks, Read, TakesAnswer

LEMMA ExpiredTakesAnswer ==
    ASSUME NEW r \in Read, TakesAnswer(r),
           NEW s, s = [r EXCEPT !.timer = "due", !.picked = Picks(r, "timer")]
    PROVE  s \in Read /\ TakesAnswer(s)
BY DEF Picks, Read, TakesAnswer

LEMMA InRoutineTakesAnswer ==
    ASSUME NEW r \in Read, TakesAnswer(r), r.picked = "timer"
    PROVE  InRoutine(r) \in Read /\ TakesAnswer(InRoutine(r))
<1> DEFINE s == InRoutine(r)
<1>1. r.late = 0
  BY DEF Read, TakesAnswer
<1>2. s \in Read
  <2> DEFINE started == IF r.late < 2 /\ r.task # "waiting" THEN r.late + 1 ELSE r.late
             timed == [r EXCEPT !.timer = "ticking", !.picked = "none", !.routine = TRUE]
  <2>1. started \in 0..2
    BY <1>1
  <2>2. timed \in Read
    BY DEF Read
  <2>3. s = [timed EXCEPT !.late = started]
    BY DEF InRoutine
  <2> HIDE DEF started, timed, s
  <2>4. [timed EXCEPT !.late = started] \in Read
    BY <2>1, <2>2 DEF Read
  <2> QED BY <2>3, <2>4
<1>3. s.routine /\ s.picked = "none" /\ s.task = r.task
  BY DEF InRoutine, Read
<1>4. s.late = IF r.task = "waiting" THEN 0 ELSE 1
  BY <1>1 DEF InRoutine, Read
<1> HIDE DEF s
<1>5. TakesAnswer(s)
  BY <1>3, <1>4 DEF TakesAnswer
<1> QED BY <1>2, <1>5 DEF s

LEMMA ReturnedTakesAnswer ==
    ASSUME NEW r \in Read, TakesAnswer(r),
           NEW s, s = [r EXCEPT !.routine = FALSE, !.picked = NextPick(r)]
    PROVE  s \in Read /\ TakesAnswer(s)
BY DEF NextPick, Read, TakesAnswer

-----------------------------------------------------------------------------
(* The steps of the stack of reads *)

LEMMA ReplacedReadsInv ==
    ASSUME ReadsInv, NEW i \in DOMAIN reads, NEW r \in Read, TakesAnswer(r),
           reads' = [reads EXCEPT ![i] = r]
    PROVE  ReadsInv'
<1>1. reads \in Seq(Read)
  BY DEF ReadsInv
<1>2. reads' \in Seq(Read) /\ DOMAIN reads' = DOMAIN reads
  BY <1>1
<1>3. ASSUME NEW j \in DOMAIN reads' PROVE TakesAnswer(reads'[j])
  <2>1. reads'[j] = IF j = i THEN r ELSE reads[j]
    BY <1>1, <1>2
  <2> QED BY <1>2, <2>1 DEF ReadsInv
<1> QED BY <1>2, <1>3 DEF ReadsInv

LEMMA AppendedReadsInv ==
    ASSUME ReadsInv, NEW r \in Read, TakesAnswer(r), reads' = Append(reads, r)
    PROVE  ReadsInv'
<1>1. reads \in Seq(Read)
  BY DEF ReadsInv
<1>2. /\ reads' \in Seq(Read)
      /\ \A i \in DOMAIN reads' : reads'[i] = r \/ (i \in DOMAIN reads /\ reads'[i] = reads[i])
  BY <1>1
<1> QED BY <1>2 DEF ReadsInv

LEMMA PoppedReadsInv ==
    ASSUME ReadsInv, reads # <<>>, reads' = Front(reads)
    PROVE  ReadsInv'
<1>1. reads \in Seq(Read) /\ Len(reads) \in Nat \ {0}
  BY DEF ReadsInv
<1>2. reads' = SubSeq(reads, 1, Len(reads) - 1)
  BY DEF Front
<1>3. /\ reads' \in Seq(Read)
      /\ \A i \in DOMAIN reads' : i \in DOMAIN reads /\ reads'[i] = reads[i]
  BY <1>1, <1>2
<1> QED BY <1>3 DEF ReadsInv

LEMMA EmptiedReadsInv == reads' = <<>> => ReadsInv'
BY DEF ReadsInv

LEMMA KeptReadsInv == ReadsInv /\ UNCHANGED reads => ReadsInv'
BY DEF ReadsInv

-----------------------------------------------------------------------------
LEMMA InnermostRead == ReadsInv /\ reads # <<>> =>
                          /\ Innermost \in DOMAIN reads
                          /\ reads[Innermost] \in Read /\ TakesAnswer(reads[Innermost])
<1> SUFFICES ASSUME ReadsInv, reads # <<>>
             PROVE  /\ Innermost \in DOMAIN reads
                    /\ reads[Innermost] \in Read /\ TakesAnswer(reads[Innermost])
  OBVIOUS
<1>1. reads \in Seq(Read)
  BY DEF ReadsInv
<1>2. Len(reads) \in DOMAIN reads
  BY <1>1
<1> QED BY <1>1, <1>2 DEF ReadsInv, Innermost

LEMMA NextReadsInv == ReadsInv /\ [Next]_vars => ReadsInv'
<1> SUFFICES ASSUME ReadsInv, [Next]_vars PROVE ReadsInv'
  OBVIOUS
<1> USE DEF files, memory
<1>1. CASE UNCHANGED vars
  BY <1>1, KeptReadsInv DEF vars
<1>2. ASSUME NEW dictionary \in Dictionaries, NEW skip \in BOOLEAN,
             TokeniseInstruction(dictionary, skip)
      PROVE  ReadsInv'
  BY <1>2, KeptReadsInv DEF TokeniseInstruction
<1>3. CASE SelectKeyboard \/ SelectFile \/ WriteEnds \/ Resumes
  BY <1>3, KeptReadsInv DEF SelectKeyboard, SelectFile, WriteEnds, Resumes
<1>4. ASSUME NEW enabled \in BOOLEAN, SetRecording(enabled) PROVE ReadsInv'
  <2>1. reads' = <<>> \/ UNCHANGED reads
    BY <1>4 DEF SetRecording, Fails
  <2> QED BY <2>1, KeptReadsInv, EmptiedReadsInv
<1>5. CASE ReadLineFromFile
  BY <1>5, KeptReadsInv DEF ReadLineFromFile
<1>6. CASE ReadKeyFromFile
  <2>1. reads' = <<>> \/ UNCHANGED reads
    BY <1>6 DEF ReadKeyFromFile, Fails
  <2> QED BY <2>1, KeptReadsInv, EmptiedReadsInv
<1>7. ASSUME NEW kind \in {"line", "key"}, NEW timed \in BOOLEAN, AskPlayer(kind, timed)
      PROVE  ReadsInv'
  BY <1>7, NewReadTakesAnswer, AppendedReadsInv DEF AskPlayer
<1>8. ASSUME NEW i \in DOMAIN reads, NEW outcome \in {"answered", "broken"},
             PlayerAnswers(i, outcome)
      PROVE  ReadsInv'
  <2> DEFINE s == [reads[i] EXCEPT !.task = outcome, !.picked = Picks(reads[i], "read")]
  <2>1. reads[i] \in Read /\ TakesAnswer(reads[i])
    BY DEF ReadsInv
  <2>2. s \in Read /\ TakesAnswer(s)
    BY <1>8, <2>1, AnsweredTakesAnswer DEF PlayerAnswers
  <2>3. reads' = [reads EXCEPT ![i] = s]
    BY <1>8 DEF PlayerAnswers, ReadsInv
  <2> HIDE DEF s
  <2> QED BY <2>2, <2>3, ReplacedReadsInv
<1>9. ASSUME NEW i \in DOMAIN reads, TimerExpires(i)
      PROVE  ReadsInv'
  <2> DEFINE s == [reads[i] EXCEPT !.timer = "due", !.picked = Picks(reads[i], "timer")]
  <2>1. reads[i] \in Read /\ TakesAnswer(reads[i])
    BY DEF ReadsInv
  <2>2. s \in Read /\ TakesAnswer(s)
    BY <1>9, <2>1, ExpiredTakesAnswer
  <2>3. reads' = [reads EXCEPT ![i] = s]
    BY <1>9 DEF TimerExpires, ReadsInv
  <2> HIDE DEF s
  <2> QED BY <2>2, <2>3, ReplacedReadsInv
<1>10. CASE StartRoutine
  <2>1. reads # <<>> /\ reads[Innermost].picked = "timer"
    BY <1>10 DEF StartRoutine
  <2>2. /\ Innermost \in DOMAIN reads
        /\ InRoutine(reads[Innermost]) \in Read /\ TakesAnswer(InRoutine(reads[Innermost]))
    BY <2>1, InnermostRead, InRoutineTakesAnswer
  <2>3. reads' = [reads EXCEPT ![Innermost] = InRoutine(reads[Innermost])]
    BY <1>10 DEF StartRoutine
  <2> QED BY <2>2, <2>3, ReplacedReadsInv
<1>11. CASE RoutineReturns
  <2> DEFINE s == [reads[Innermost] EXCEPT !.routine = FALSE,
                                           !.picked = NextPick(reads[Innermost])]
  <2>1. /\ Innermost \in DOMAIN reads
        /\ reads[Innermost] \in Read /\ TakesAnswer(reads[Innermost])
    BY <1>11, InnermostRead DEF RoutineReturns
  <2>2. s \in Read /\ TakesAnswer(s)
    BY <2>1, ReturnedTakesAnswer
  <2>3. reads' = [reads EXCEPT ![Innermost] = s]
    BY <1>11 DEF RoutineReturns
  <2> HIDE DEF s
  <2> QED BY <2>1, <2>2, <2>3, ReplacedReadsInv
<1>12. ASSUME NEW line \in program.lines, FinishLine(line) PROVE ReadsInv'
  BY <1>12, PoppedReadsInv DEF FinishLine, Answered
<1>13. ASSUME NEW key \in program.keys, FinishKey(Key(key)) PROVE ReadsInv'
  <2>1. reads # <<>> /\ reads' \in {<<>>, Front(reads)}
    BY <1>13 DEF FinishKey, Answered, Fails
  <2> QED BY <2>1, PoppedReadsInv, EmptiedReadsInv
<1>14. CASE BreakIn \/ Paused
  <2>1. reads' = <<>>
    BY <1>14 DEF BreakIn, Paused, Breaks, Fails
  <2> QED BY <2>1, EmptiedReadsInv
<1> QED BY <1>1, <1>2, <1>3, <1>4, <1>5, <1>6, <1>7, <1>8, <1>9, <1>10, <1>11,
           <1>12, <1>13, <1>14 DEF Next

(* Once the player has answered, at most one more timer routine starts      *)
(* (Input.cs, TimedReadAsync: WhenAny finds the read's task first).         *)
THEOREM AnswerIsAlwaysTakenNext == Spec => []AnswerIsTakenNext
<1>1. Init => ReadsInv
  BY DEF Init, ReadsInv
<1>2. ReadsInv => AnswerIsTakenNext
  <2> SUFFICES ASSUME ReadsInv, NEW i \in DOMAIN reads PROVE reads[i].late <= 1
    BY DEF AnswerIsTakenNext
  <2>1. TakesAnswer(reads[i])
    BY DEF ReadsInv
  <2> QED BY <2>1 DEF TakesAnswer
<1> QED BY <1>1, <1>2, NextReadsInv, PTL DEF Spec

-----------------------------------------------------------------------------
(* SplitTokens, for any text                                                *)

InWord(line, seps, i) == i \in 1..Len(line) /\ ~IsTokenSpace(line[i]) /\ line[i] \notin seps

LEMMA WordEndFound ==
    ASSUME NEW C, NEW line \in Seq(C), NEW seps, NEW i \in 1..Len(line)
    PROVE  /\ WordEnd(line, seps, i) \in i..Len(line) + 1
           /\ \A j \in i..WordEnd(line, seps, i) - 1 : InWord(line, seps, j)
           /\ ~InWord(line, seps, WordEnd(line, seps, i))
<1> DEFINE n == Len(line)
           I == {j \in i..n : IsTokenSpace(line[j]) \/ line[j] \in seps}
           e == WordEnd(line, seps, i)
           end == SelectInSubSeq(line, i, n, LAMBDA c : IsTokenSpace(c) \/ c \in seps)
<1>1. end = IF I # {} THEN Min(I) ELSE 0
  BY Zenon DEF SelectInSubSeq
<1>2. e = IF end = 0 THEN n + 1 ELSE end
  BY Zenon DEF WordEnd
<1>3. n \in Nat /\ i \in 1..n /\ I \subseteq Nat
  OBVIOUS
<1> HIDE DEF e, end
<1>4. CASE I = {}
  <2>1. e = n + 1
    BY <1>1, <1>2, <1>4
  <2>2. \A j \in i..n : InWord(line, seps, j)
    BY <1>3, <1>4 DEF InWord
  <2>3. ~InWord(line, seps, n + 1)
    BY <1>3 DEF InWord
  <2> QED BY <1>3, <2>1, <2>2, <2>3 DEF e
<1>5. CASE I # {}
  <2>1. Min(I) \in I /\ \A m \in I : Min(I) <= m
    <3> HIDE DEF I
    <3> QED BY <1>3, <1>5, MinIsLeast
  <2>2. e = Min(I)
    BY <1>1, <1>2, <1>3, <1>5, <2>1
  <2>3. e \in i..n /\ (IsTokenSpace(line[e]) \/ line[e] \in seps)
    BY <2>1, <2>2
  <2>4. ASSUME NEW j \in i..e - 1 PROVE InWord(line, seps, j)
    <3>1. j \in i..n /\ j \in 1..n /\ ~(e <= j)
      BY <1>3, <2>3
    <3>2. j \notin I
      BY <2>1, <2>2, <3>1
    <3> QED BY <3>1, <3>2 DEF InWord
  <2> QED BY <1>3, <2>3, <2>4 DEF e, InWord
<1> QED BY <1>4, <1>5

(* What SplitTokens does at each place of the text: where it goes on, and   *)
(* the token it adds to those found from there on.                          *)
Places == [start : Nat, length : Nat]

GoesOnAt(line, seps) ==
    [i \in 1..Len(line) |-> IF IsTokenSpace(line[i]) \/ line[i] \in seps THEN i + 1
                            ELSE WordEnd(line, seps, i)]
Takes(line, seps) ==
    [i \in 1..Len(line) |-> [tokens \in Seq(Places) |->
        IF IsTokenSpace(line[i]) THEN tokens
        ELSE <<Token(i, GoesOnAt(line, seps)[i])>> \o tokens]]

Splits(f, line, seps) ==
    Jumps(f, Len(line), Seq(Places), <<>>, GoesOnAt(line, seps), Takes(line, seps))

LEMMA StepsOfSplitting ==
    ASSUME NEW C, NEW line \in Seq(C), NEW seps
    PROVE  /\ \A i \in 1..Len(line) : GoesOnAt(line, seps)[i] \in i + 1..Len(line) + 1
           /\ \A i \in 1..Len(line) : Token(i, GoesOnAt(line, seps)[i]) \in Places
           /\ Takes(line, seps) \in [1..Len(line) -> [Seq(Places) -> Seq(Places)]]
<1> DEFINE n == Len(line)
<1>1. ASSUME NEW i \in 1..n
      PROVE  /\ GoesOnAt(line, seps)[i] \in i + 1..n + 1
             /\ Token(i, GoesOnAt(line, seps)[i]) \in Places
  <2> DEFINE e == WordEnd(line, seps, i)
             g == GoesOnAt(line, seps)[i]
  <2>1. e \in i..n + 1 /\ ~InWord(line, seps, e)
    BY WordEndFound
  <2>2. g = IF IsTokenSpace(line[i]) \/ line[i] \in seps THEN i + 1 ELSE e
    BY DEF GoesOnAt
  <2> HIDE DEF e, g
  <2>3. n \in Nat
    OBVIOUS
  <2>4. InWord(line, seps, i) \/ g = i + 1
    BY <2>2 DEF InWord
  <2>5. g \in i + 1..n + 1
    BY <2>1, <2>2, <2>3, <2>4
  <2>6. i - 1 \in Nat /\ g - i \in Nat
    BY <2>3, <2>5
  <2>7. Token(i, g) \in Places
    BY <2>6 DEF Token, Places
  <2> QED BY <2>5, <2>7 DEF g
<1>2. ASSUME NEW i \in 1..n, NEW tokens \in Seq(Places)
      PROVE  (IF IsTokenSpace(line[i]) THEN tokens
              ELSE <<Token(i, GoesOnAt(line, seps)[i])>> \o tokens) \in Seq(Places)
  <2> DEFINE t == Token(i, GoesOnAt(line, seps)[i])
  <2>1. t \in Places
    BY <1>1
  <2> HIDE DEF t
  <2>2. <<t>> \in Seq(Places)
    BY <2>1
  <2>3. <<t>> \o tokens \in Seq(Places)
    BY <2>2
  <2> QED BY <2>3 DEF t
<1>3. Takes(line, seps) \in [1..n -> [Seq(Places) -> Seq(Places)]]
  BY <1>2 DEF Takes
<1> QED BY <1>1, <1>3

LEMMA TokensSplit ==
    ASSUME NEW C, NEW line \in Seq(C), NEW seps
    PROVE  \E f : Splits(f, line, seps) /\ SplitTokens(line, seps) = f[1]
<1> DEFINE n == Len(line)
           next == GoesOnAt(line, seps)
           G == Takes(line, seps)
           V == Seq(Places)
           from[i \in 1..Len(line) + 1] ==
             IF i > Len(line) THEN <<>>
             ELSE IF IsTokenSpace(line[i]) THEN from[i + 1]
             ELSE IF line[i] \in seps THEN <<Token(i, i + 1)>> \o from[i + 1]
             ELSE <<Token(i, WordEnd(line, seps, i))>> \o from[WordEnd(line, seps, i)]
<1>0. /\ n \in Nat /\ <<>> \in V
      /\ \A i \in 1..n : next[i] \in i + 1..n + 1
      /\ G \in [1..n -> [V -> V]]
  BY StepsOfSplitting
<1>1. PICK f : Jumps(f, n, V, <<>>, next, G)
  <2> HIDE DEF n, next, G, V
  <2> QED BY <1>0, JumpsExist
<1>2. /\ f \in [1..n + 1 -> V] /\ f[n + 1] = <<>>
      /\ \A i \in 1..n : f[i] = G[i][f[next[i]]]
  BY <1>1 DEF Jumps
<1>3. ASSUME NEW i \in 1..n + 1
      PROVE  f[i] = IF i > Len(line) THEN <<>>
                    ELSE IF IsTokenSpace(line[i]) THEN f[i + 1]
                    ELSE IF line[i] \in seps THEN <<Token(i, i + 1)>> \o f[i + 1]
                    ELSE <<Token(i, WordEnd(line, seps, i))>> \o f[WordEnd(line, seps, i)]
  <2>1. CASE i = n + 1
    BY <1>0, <1>2, <2>1
  <2>2. CASE i # n + 1
    <3>1. i \in 1..n /\ ~(i > Len(line))
      BY <1>0, <2>2
    <3>2. next[i] \in 1..n + 1 /\ f[i] = G[i][f[next[i]]]
      BY <1>0, <1>2, <3>1
    <3>3. f[next[i]] \in V
      BY <1>2, <3>2
    <3>4. f[i] = IF IsTokenSpace(line[i]) THEN f[next[i]]
                 ELSE <<Token(i, next[i])>> \o f[next[i]]
      BY <3>1, <3>2, <3>3 DEF Takes
    <3>5. next[i] = IF IsTokenSpace(line[i]) \/ line[i] \in seps THEN i + 1
                    ELSE WordEnd(line, seps, i)
      BY <3>1 DEF GoesOnAt
    <3> HIDE DEF n, next, G, V
    <3> QED BY <3>1, <3>4, <3>5
  <2> QED BY <2>1, <2>2
<1>4. f = [i \in 1..Len(line) + 1 |->
             IF i > Len(line) THEN <<>>
             ELSE IF IsTokenSpace(line[i]) THEN f[i + 1]
             ELSE IF line[i] \in seps THEN <<Token(i, i + 1)>> \o f[i + 1]
             ELSE <<Token(i, WordEnd(line, seps, i))>> \o f[WordEnd(line, seps, i)]]
  <2>1. f = [i \in 1..Len(line) + 1 |-> f[i]]
    BY <1>2
  <2> QED BY <1>3, <2>1
<1>5. from = [i \in 1..Len(line) + 1 |->
             IF i > Len(line) THEN <<>>
             ELSE IF IsTokenSpace(line[i]) THEN from[i + 1]
             ELSE IF line[i] \in seps THEN <<Token(i, i + 1)>> \o from[i + 1]
             ELSE <<Token(i, WordEnd(line, seps, i))>> \o from[WordEnd(line, seps, i)]]
  BY <1>4, Zenon
<1> HIDE DEF from
<1>6. /\ from[n + 1] = <<>>
      /\ \A i \in 1..n : from[i] = IF IsTokenSpace(line[i]) THEN from[next[i]]
                                   ELSE <<Token(i, next[i])>> \o from[next[i]]
  <2>1. from[n + 1] = <<>>
    <3>1. n + 1 \in 1..Len(line) + 1 /\ n + 1 > Len(line)
      BY <1>0
    <3> QED BY <1>5, <3>1
  <2>2. ASSUME NEW i \in 1..n
        PROVE  from[i] = IF IsTokenSpace(line[i]) THEN from[next[i]]
                         ELSE <<Token(i, next[i])>> \o from[next[i]]
    <3>1. i \in 1..Len(line) + 1 /\ ~(i > Len(line))
      BY <1>0
    <3>2. from[i] = IF IsTokenSpace(line[i]) THEN from[i + 1]
             ELSE IF line[i] \in seps THEN <<Token(i, i + 1)>> \o from[i + 1]
             ELSE <<Token(i, WordEnd(line, seps, i))>> \o from[WordEnd(line, seps, i)]
      BY <1>5, <3>1
    <3>3. next[i] = IF IsTokenSpace(line[i]) \/ line[i] \in seps THEN i + 1
                    ELSE WordEnd(line, seps, i)
      BY DEF GoesOnAt
    <3> HIDE DEF n, next, G, V
    <3> QED BY <3>2, <3>3
  <2> QED BY <2>1, <2>2
<1>7. \A i \in 1..n + 1 : f[i] = from[i]
  <2> DEFINE S == {i \in 1..n + 1 : f[i] = from[i]}
  <2>1. n + 1 \in S
    BY <1>0, <1>2, <1>6
  <2>2. ASSUME NEW i \in 1..n, \A j \in i + 1..n + 1 : j \in S PROVE i \in S
    <3>1. f[next[i]] = from[next[i]] /\ f[next[i]] \in V /\ i \in 1..n + 1
      BY <1>0, <1>2, <2>2
    <3>2. f[i] = IF IsTokenSpace(line[i]) THEN f[next[i]]
                 ELSE <<Token(i, next[i])>> \o f[next[i]]
      BY <1>2, <3>1 DEF Takes
    <3>3. f[i] = from[i]
      <4> HIDE DEF n, next, G, V
      <4> QED BY <1>6, <3>1, <3>2
    <3> QED BY <3>1, <3>3
  <2> HIDE DEF S, n
  <2>3. \A i \in 1..n + 1 : i \in S
    BY <1>0, <2>1, <2>2, InductionDown
  <2> QED BY <2>3 DEF S
<1>8. SplitTokens(line, seps) = from[1]
  BY Zenon DEF SplitTokens, from
<1>9. f[1] = from[1]
  BY <1>0, <1>7
<1> QED BY <1>1, <1>8, <1>9 DEF Splits

-----------------------------------------------------------------------------
(* The lines of a command file, and the inputs in them, for any file        *)

LEMMA ByteBounds == \A b : b \in Byte <=> (b \in Int /\ 0 <= b /\ b <= 255)
BY DEF Byte

LEMMA FirstOrNone ==
    ASSUME NEW n \in Nat, NEW I, I \subseteq 1..n, NEW first,
           first = IF I # {} THEN Min(I) ELSE 0
    PROVE  /\ first \in 0..n
           /\ first # 0 => first \in I
           /\ \A j \in 1..n : (first = 0 \/ j < first) => j \notin I
<1>1. CASE I = {}
  BY <1>1
<1>2. CASE I # {}
  <2>1. I \subseteq Nat
    OBVIOUS
  <2>2. Min(I) \in I /\ \A m \in I : Min(I) <= m
    BY <1>2, <2>1, MinIsLeast
  <2> DEFINE k == Min(I)
  <2>3. first = k
    BY <1>2
  <2> HIDE DEF k
  <2>4. k \in I /\ \A m \in I : k <= m
    BY <2>2 DEF k
  <2>5. k \in 1..n /\ k # 0
    BY <2>4
  <2> QED BY <2>3, <2>4, <2>5
<1> QED BY <1>1, <1>2

LEMMA LastOrNone ==
    ASSUME NEW n \in Nat, NEW I, I \subseteq 1..n, NEW last,
           last = IF I # {} THEN Max(I) ELSE 0
    PROVE  /\ last \in 0..n
           /\ last # 0 => last \in I
           /\ \A j \in 1..n : j > last => j \notin I
<1>1. CASE I = {}
  BY <1>1
<1>2. CASE I # {}
  <2>2. Max(I) \in I /\ \A m \in I : Max(I) >= m
    BY <1>2, MaxIsGreatest
  <2> DEFINE k == Max(I)
  <2>3. last = k
    BY <1>2
  <2> HIDE DEF k
  <2>4. k \in I /\ \A m \in I : k >= m
    BY <2>2 DEF k
  <2>5. k \in 1..n /\ k # 0
    BY <2>4
  <2> QED BY <2>3, <2>4, <2>5
<1> QED BY <1>1, <1>2

LEMMA LineEnds ==
    ASSUME NEW file \in Seq(Byte)
    PROVE  /\ EndOfLine(file) \in 1..Len(file) + 1
           /\ \A j \in 1..EndOfLine(file) - 1 : file[j] \notin {CR, LF}
           /\ EndOfLine(file) <= Len(file) => file[EndOfLine(file)] \in {CR, LF}
<1> DEFINE n == Len(file)
           I == {j \in 1..n : file[j] \in {CR, LF}}
           found == SelectInSeq(file, LAMBDA c : c \in {CR, LF})
           end == EndOfLine(file)
<1>1. found = IF I # {} THEN Min(I) ELSE 0
  BY Zenon DEF SelectInSeq
<1>2. end = IF found = 0 THEN n + 1 ELSE found
  BY Zenon DEF EndOfLine
<1>3. n \in Nat /\ I \subseteq 1..n
  OBVIOUS
<1> HIDE DEF found, end
<1>4. /\ found \in 0..n
      /\ found # 0 => found \in I
      /\ \A j \in 1..n : (found = 0 \/ j < found) => j \notin I
  <2> HIDE DEF I, n
  <2> QED BY ZenonT(40), <1>1, <1>3, FirstOrNone
<1>5. end \in 1..n + 1 /\ (end <= n => end \in I)
  BY <1>2, <1>3, <1>4
<1>6. ASSUME NEW j \in 1..end - 1 PROVE file[j] \notin {CR, LF}
  <2>1. j \in 1..n /\ j \notin I
    BY <1>2, <1>3, <1>4, <1>5
  <2> QED BY <2>1
<1>7. end <= n => file[end] \in {CR, LF}
  BY <1>5
<1> QED BY <1>5, <1>6, <1>7 DEF end

LEMMA LineRead ==
    ASSUME NEW file \in Seq(Byte)
    PROVE  ReadLine(file) \in Seq(Byte \ {CR, LF}) /\ AfterLine(file) \in Seq(Byte)
<1> DEFINE n == Len(file)
           end == EndOfLine(file)
<1>1. n \in Nat /\ end \in 1..n + 1 /\ \A j \in 1..end - 1 : file[j] \notin {CR, LF}
  BY LineEnds
<1> HIDE DEF end
<1>2. SubSeq(file, 1, end - 1) \in Seq(Byte \ {CR, LF})
  <2> DEFINE line == SubSeq(file, 1, end - 1)
  <2>1. line \in Seq(Byte) /\ Len(line) = end - 1
        /\ \A j \in 1..end - 1 : line[j] = file[j]
    BY <1>1
  <2>2. \A j \in 1..Len(line) : line[j] \in Byte \ {CR, LF}
    BY <1>1, <2>1
  <2> HIDE DEF line
  <2> QED BY <2>1, <2>2
<1>3. \A i \in Nat \ {0} : SubSeq(file, i, n) \in Seq(Byte)
  OBVIOUS
<1>4. end + 1 \in Nat \ {0} /\ end + 2 \in Nat \ {0}
  BY <1>1
<1>5. AfterLine(file) \in {SubSeq(file, end + 1, n), SubSeq(file, end + 2, n)}
  BY DEF AfterLine, end
<1>6. ReadLine(file) = SubSeq(file, 1, end - 1)
  BY DEF ReadLine, end
<1> QED BY <1>2, <1>3, <1>4, <1>5, <1>6

(* What the digits of a number add to those before them. *)
AddsDigits(t) == [i \in 1..Len(t) |-> [v \in Int |-> 10 * v + t[i] - 48]]

LEMMA ValueInTurn ==
    ASSUME NEW t \in Seq(Byte)
    PROVE  LET value[i \in 0..Len(t)] == IF i = 0 THEN 0 ELSE 10 * value[i - 1] + t[i] - 48
           IN  Iterates(value, Len(t), Int, 0, AddsDigits(t))
<1> DEFINE n == Len(t)
           value[i \in 0..Len(t)] == IF i = 0 THEN 0 ELSE 10 * value[i - 1] + t[i] - 48
           G == AddsDigits(t)
<1>0. n \in Nat /\ 0 \in Int /\ \A i \in 1..n : t[i] \in Int
  BY ByteBounds
<1>1. G \in [1..n -> [Int -> Int]]
  BY <1>0 DEF AddsDigits
<1>2. PICK g : Iterates(g, n, Int, 0, G)
  <2> HIDE DEF G, n
  <2> QED BY <1>0, <1>1, RecursionExists
<1>3. /\ g \in [0..n -> Int] /\ g[0] = 0
      /\ \A i \in 1..n : g[i] = G[i][g[i - 1]]
  BY <1>2 DEF Iterates
<1>4. ASSUME NEW i \in 0..n PROVE g[i] = IF i = 0 THEN 0 ELSE 10 * g[i - 1] + t[i] - 48
  <2>1. CASE i = 0
    BY <1>3, <2>1
  <2>2. CASE i # 0
    <3>1. i \in 1..n /\ i - 1 \in 0..n
      BY <1>0, <2>2
    <3>2. g[i - 1] \in Int /\ g[i] = G[i][g[i - 1]]
      BY <1>3, <3>1
    <3> QED BY <2>2, <3>1, <3>2 DEF AddsDigits
  <2> QED BY <2>1, <2>2
<1>5. g = [i \in 0..Len(t) |-> IF i = 0 THEN 0 ELSE 10 * g[i - 1] + t[i] - 48]
  <2>1. g = [i \in 0..Len(t) |-> g[i]]
    BY <1>3
  <2> QED BY <1>4, <2>1
<1>6. value = [i \in 0..Len(t) |-> IF i = 0 THEN 0 ELSE 10 * value[i - 1] + t[i] - 48]
  BY <1>5, Zenon
<1> HIDE DEF value
<1>7. value[0] = 0
  BY <1>0, <1>6
<1>8. ASSUME NEW i \in 1..n PROVE value[i] = 10 * value[i - 1] + t[i] - 48
  <2>1. i \in 0..n /\ i # 0
    BY <1>0
  <2> QED BY <1>6, <2>1
<1>9. \A i \in 0..n : value[i] \in Int
  <2> DEFINE S == {i \in 0..n : value[i] \in Int}
  <2>1. 0 \in S
    BY <1>0, <1>7
  <2>2. ASSUME NEW i \in 1..n, i - 1 \in S PROVE i \in S
    <3>1. value[i - 1] \in Int /\ t[i] \in Int
      BY <1>0, <2>2
    <3>2. value[i] \in Int
      BY <1>8, <3>1
    <3> QED BY <1>0, <3>2
  <2> HIDE DEF S
  <2>3. \A i \in 0..n : i \in S
    BY <1>0, <2>1, <2>2, InductionUpTo
  <2> QED BY <2>3 DEF S
<1>10. ASSUME NEW i \in 1..n PROVE value[i] = G[i][value[i - 1]]
  <2>1. i - 1 \in 0..n
    BY <1>0
  <2>2. value[i - 1] \in Int
    BY <1>9, <2>1
  <2> QED BY <1>8, <2>2 DEF AddsDigits
<1>11. value \in [0..n -> Int]
  BY <1>6, <1>9
<1> HIDE DEF G
<1>12. Iterates(value, Len(t), Int, 0, G)
  BY <1>7, <1>10, <1>11 DEF Iterates
<1> QED BY <1>12 DEF value, G

LEMMA ValueIterates ==
    ASSUME NEW t \in Seq(Byte)
    PROVE  \E f : Iterates(f, Len(t), Int, 0, AddsDigits(t)) /\ ValueOf(t) = f[Len(t)]
BY ValueInTurn, Zenon DEF ValueOf

LEMMA ValueIsByte ==
    ASSUME NEW t \in Seq(Byte)
    PROVE  ValueOf(t) \in Int /\ ValueOf(t) % 256 \in Byte
<1>1. PICK f : Iterates(f, Len(t), Int, 0, AddsDigits(t)) /\ ValueOf(t) = f[Len(t)]
  BY ValueIterates
<1>2. f \in [0..Len(t) -> Int] /\ Len(t) \in 0..Len(t)
  BY <1>1 DEF Iterates
<1>3. ValueOf(t) \in Int
  BY <1>1, <1>2
<1>4. \A v \in Int : v % 256 \in Int /\ 0 <= v % 256 /\ v % 256 <= 255
  OBVIOUS
<1> QED BY <1>3, <1>4, ByteBounds

LEMMA LineIsInput ==
    ASSUME NEW line \in Seq(Byte)
    PROVE  LineIn(line) \in Inputs
<1> DEFINE n == Len(line)
           I == {j \in 1..n : line[j] = OpenBracket}
           open == SelectLastInSeq(line, LAMBDA c : c = OpenBracket)
           key == SubSeq(line, open + 1, n - 1)
           before == SubSeq(line, 1, open - 1)
           input == LineIn(line)
<1>1. open = IF I # {} THEN Max(I) ELSE 0
  BY Zenon DEF SelectLastInSeq
<1>2. n \in Nat /\ I \subseteq 1..n
  OBVIOUS
<1>3. input = IF EndsInBracket(line) /\ open > 0 /\ IsNumber(key)
              THEN [text |-> before, terminator |-> ValueOf(key) % 256]
              ELSE [text |-> line, terminator |-> 13]
  BY Zenon DEF LineIn
<1> HIDE DEF open, I
<1>4. open \in 0..n
  <2> HIDE DEF n
  <2> QED BY <1>1, <1>2, LastOrNone
<1>5. key \in Seq(Byte) /\ before \in Seq(Byte)
  <2>1. \A a \in 1..n + 1, b \in Int : b <= n => SubSeq(line, a, b) \in Seq(Byte)
    OBVIOUS
  <2>2. open + 1 \in 1..n + 1 /\ 1 \in 1..n + 1 /\ n - 1 \in Int /\ open - 1 \in Int
        /\ n - 1 <= n /\ open - 1 <= n
    BY <1>2, <1>4
  <2> QED BY <2>1, <2>2
<1> HIDE DEF key, before, input
<1>6. ValueOf(key) % 256 \in Byte /\ 13 \in Byte
  <2>1. 13 \in Byte
    BY ByteBounds
  <2> QED BY <1>5, <2>1, ValueIsByte
<1>7. input \in Inputs
  <2> DEFINE v == ValueOf(key) % 256
  <2> HIDE DEF v
  <2>1. v \in Byte
    BY <1>6 DEF v
  <2> QED BY <1>3, <1>5, <1>6, <2>1 DEF Inputs, v
<1> QED BY <1>7 DEF input

LEMMA KeyIsByte ==
    ASSUME NEW line \in Seq(Byte)
    PROVE  KeyIn(line) \in Byte
<1> DEFINE n == Len(line)
           I == {j \in 1..n : line[j] = CloseBracket}
           close == SelectInSeq(line, LAMBDA c : c = CloseBracket)
           key == SubSeq(line, 2, close - 1)
<1>1. close = IF I # {} THEN Min(I) ELSE 0
  BY Zenon DEF SelectInSeq
<1>2. n \in Nat /\ I \subseteq 1..n
  OBVIOUS
<1>3. KeyIn(line) = IF line = <<>> THEN 13
                    ELSE IF line[1] = OpenBracket /\ IsNumber(key)
                    THEN ValueOf(key) % 256 ELSE line[1]
  BY Zenon DEF KeyIn
<1> HIDE DEF close, I
<1>4. close \in 0..n
  <2> HIDE DEF n
  <2> QED BY <1>1, <1>2, FirstOrNone
<1>5. key \in Seq(Byte)
  <2>1. \A b \in Int : b <= n => SubSeq(line, 2, b) \in Seq(Byte)
    OBVIOUS
  <2> QED BY <1>2, <1>4, <2>1
<1> HIDE DEF key
<1>6. ValueOf(key) % 256 \in Byte /\ 13 \in Byte
  <2>1. 13 \in Byte
    BY ByteBounds
  <2> QED BY <1>5, <2>1, ValueIsByte
<1>7. line # <<>> => line[1] \in Byte
  OBVIOUS
<1> QED BY <1>3, <1>6, <1>7

-----------------------------------------------------------------------------
(* What is written to a command file                                        *)

LEMMA DigitsAreBytes == 48..57 \subseteq Byte
BY ByteBounds

LEMMA DecimalParts ==
    ASSUME NEW n \in Byte
    PROVE  /\ n \div 100 \in 0..9 /\ (n \div 10) % 10 \in 0..9 /\ n % 10 \in 0..9
           /\ n = 100 * (n \div 100) + 10 * ((n \div 10) % 10) + (n % 10)
           /\ n < 100 => n \div 100 = 0
           /\ n < 10 => (n \div 10) % 10 = 0
<1>1. n \in Int /\ 0 <= n /\ n <= 255
  BY ByteBounds
<1> DEFINE a == n \div 100
           m == n \div 10
<1>2. a \in Int /\ n = 100 * a + (n % 100) /\ n % 100 \in 0..99
  BY <1>1
<1>3. m \in Int /\ n = 10 * m + (n % 10) /\ n % 10 \in 0..9
  BY <1>1
<1>4. a \in 0..9 /\ (n < 100 => a = 0)
  BY <1>1, <1>2
<1>5. m \in 0..25 /\ (n < 10 => m = 0)
  BY <1>1, <1>3
<1>6. m % 10 \in 0..9 /\ m = 10 * (m \div 10) + (m % 10) /\ m \div 10 \in Int
  BY <1>5
<1>7. a = m \div 10
  BY <1>1, <1>2, <1>3, <1>5, <1>6
<1>8. n = 100 * a + 10 * (m % 10) + (n % 10)
  BY <1>3, <1>6, <1>7
<1>9. n < 10 => m % 10 = 0
  BY <1>5
<1> QED BY <1>3, <1>4, <1>6, <1>8, <1>9

LEMMA DecimalDigits ==
    ASSUME NEW n \in Byte
    PROVE  /\ Decimal(n) \in Seq(48..57) /\ Decimal(n) # <<>>
           /\ ValueOf(Decimal(n)) = n
<1> DEFINE a == n \div 100
           b == (n \div 10) % 10
           c == n % 10
           d == Decimal(n)
<1>1. /\ a \in 0..9 /\ b \in 0..9 /\ c \in 0..9 /\ n = 100 * a + 10 * b + c
      /\ n < 100 => a = 0
      /\ n < 10 => b = 0
  BY DecimalParts
<1>2. n \in Int
  BY ByteBounds
<1>3. d = SubSeq(<<48 + a, 48 + b, 48 + c>>, IF n < 10 THEN 3 ELSE IF n < 100 THEN 2 ELSE 1, 3)
  BY Zenon DEF Decimal
<1> HIDE DEF a, b, c, d
<1> DEFINE all == <<48 + a, 48 + b, 48 + c>>
<1>4a. all \in Seq(48..57)
  BY <1>1
<1>4. 48 + a \in 48..57 /\ 48 + b \in 48..57 /\ 48 + c \in 48..57
  BY <1>1
<1>5. /\ d \in Seq(48..57) /\ d # <<>> /\ Len(d) \in 1..3
      /\ d[Len(d)] = 48 + c
      /\ Len(d) = 1 => n = c
      /\ Len(d) = 2 => (d[1] = 48 + b /\ n = 10 * b + c)
      /\ Len(d) = 3 => (d[1] = 48 + a /\ d[2] = 48 + b)
  <2>1. CASE n < 10
    <3>1. d = SubSeq(all, 3, 3)
      BY <1>3, <2>1
    <3>2. d = <<48 + c>>
      <4> DEFINE s == SubSeq(all, 3, 3)
      <4>1. s \in Seq(48..57) /\ Len(s) = 1 /\ s[1] = 48 + c
        BY <1>4
      <4> HIDE DEF s
      <4>2. s = <<s[1]>>
        BY <4>1
      <4> QED BY <3>1, <4>1, <4>2 DEF s
    <3>3. n = c
      BY <1>1, <1>2, <2>1
    <3> QED BY <1>4, <3>2, <3>3
  <2>2. CASE ~(n < 10) /\ n < 100
    <3>1. d = SubSeq(all, 2, 3)
      BY <1>3, <2>2
    <3>2. d = <<48 + b, 48 + c>>
      <4> DEFINE s == SubSeq(all, 2, 3)
      <4>1. s \in Seq(48..57) /\ Len(s) = 2 /\ s[1] = 48 + b /\ s[2] = 48 + c
        BY <1>4
      <4> HIDE DEF s
      <4>2. s = <<s[1], s[2]>>
        BY <4>1
      <4> QED BY <3>1, <4>1, <4>2 DEF s
    <3>3. n = 10 * b + c
      BY <1>1, <1>2, <2>2
    <3> QED BY <1>4, <3>2, <3>3
  <2>3. CASE ~(n < 10) /\ ~(n < 100)
    <3>1. d = SubSeq(all, 1, 3)
      BY <1>3, <2>3
    <3>2. d = <<48 + a, 48 + b, 48 + c>>
      <4> DEFINE s == SubSeq(all, 1, 3)
      <4>1. s \in Seq(48..57) /\ Len(s) = 3 /\ s[1] = 48 + a /\ s[2] = 48 + b
            /\ s[3] = 48 + c
        BY <1>4
      <4> HIDE DEF s
      <4>2. s = <<s[1], s[2], s[3]>>
        BY <4>1
      <4> QED BY <3>1, <4>1, <4>2 DEF s
    <3> QED BY <1>4, <3>2
  <2> QED BY <2>1, <2>2, <2>3
<1>6. d \in Seq(Byte)
  <2>1. Seq(48..57) \subseteq Seq(Byte)
    BY DigitsAreBytes, SeqMonotonic, Zenon
  <2> QED BY <1>5, <2>1
<1>7. PICK f : Iterates(f, Len(d), Int, 0, AddsDigits(d)) /\ ValueOf(d) = f[Len(d)]
  BY <1>6, ValueIterates
<1>8. ASSUME NEW i \in 1..Len(d) PROVE f[i] \in Int /\ f[i] = 10 * f[i - 1] + d[i] - 48
  <2>1. Len(d) \in Nat
    BY <1>5
  <2>2. i - 1 \in 0..Len(d) /\ i \in 0..Len(d)
    BY <2>1
  <2>3. f[i - 1] \in Int /\ f[i] \in Int /\ f[i] = AddsDigits(d)[i][f[i - 1]]
    BY <1>7, <2>2 DEF Iterates
  <2> QED BY <2>3 DEF AddsDigits
<1>9. f[0] = 0
  BY <1>7 DEF Iterates
<1>10. ValueOf(d) = n
  <2>1. CASE Len(d) = 1
    <3>1. f[1] = 10 * f[0] + d[1] - 48
      BY <1>8, <2>1
    <3>2. f[1] = c /\ n = c
      BY <1>1, <1>5, <1>9, <2>1, <3>1
    <3> QED BY <1>7, <2>1, <3>2
  <2>2. CASE Len(d) = 2
    <3>1. f[1] \in Int /\ f[1] = 10 * f[0] + d[1] - 48
      BY <1>8, <2>2
    <3>2. f[2] = 10 * f[1] + d[2] - 48
      BY <1>8, <2>2
    <3>3. f[1] = b
      BY <1>1, <1>5, <1>9, <2>2, <3>1
    <3>4. f[2] = 10 * b + c /\ n = 10 * b + c
      BY <1>1, <1>5, <2>2, <3>2, <3>3
    <3> QED BY <1>7, <2>2, <3>4
  <2>3. CASE Len(d) = 3
    <3>1. f[1] \in Int /\ f[1] = 10 * f[0] + d[1] - 48
      BY <1>8, <2>3
    <3>2. f[2] \in Int /\ f[2] = 10 * f[1] + d[2] - 48
      BY <1>8, <2>3
    <3>3. f[3] = 10 * f[2] + d[3] - 48
      BY <1>8, <2>3
    <3>4. f[1] = a
      BY <1>1, <1>5, <1>9, <2>3, <3>1
    <3>5. f[2] = 10 * a + b
      BY <1>1, <1>5, <2>3, <3>2, <3>4
    <3>6. f[3] = 100 * a + 10 * b + c
      BY <1>1, <1>5, <2>3, <3>3, <3>5
    <3> QED BY <1>1, <1>7, <2>3, <3>6
  <2> QED BY <1>5, <2>1, <2>2, <2>3
<1> QED BY <1>5, <1>10 DEF d

LEMMA DigitsWritten ==
    ASSUME NEW n \in Byte
    PROVE  Bracketed(n) \in Seq(Byte \ {CR, LF})
<1>1. 48..57 \subseteq Byte \ {CR, LF}
  BY DigitsAreBytes DEF CR, LF
<1>2. Decimal(n) \in Seq(Byte \ {CR, LF})
  <2>1. Seq(48..57) \subseteq Seq(Byte \ {CR, LF})
    BY <1>1, SeqMonotonic, Zenon
  <2> QED BY <2>1, DecimalDigits
<1>3. OpenBracket \in Byte \ {CR, LF} /\ CloseBracket \in Byte \ {CR, LF}
  BY ByteBounds DEF OpenBracket, CloseBracket, CR, LF
<1>4. <<OpenBracket>> \in Seq(Byte \ {CR, LF}) /\ <<CloseBracket>> \in Seq(Byte \ {CR, LF})
  BY <1>3
<1> QED BY <1>2, <1>4 DEF Bracketed

LEMMA NewLineIsBytes == NewLine \in Seq(Byte)
<1>1. LF \in Byte /\ CR \in Byte
  BY ByteBounds DEF LF, CR
<1>2. <<LF>> \in Seq(Byte) /\ <<CR, LF>> \in Seq(Byte)
  BY <1>1
<1> QED BY <1>2, NewLineAssumption

LEMMA WrittenIsBytes ==
    ASSUME NEW t \in Seq(Byte), NEW n \in Byte
    PROVE  WrittenLine(t, n) \in Seq(Byte) /\ WrittenKey(n) \in Seq(Byte)
<1>1. Bracketed(n) \in Seq(Byte)
  <2>1. Seq(Byte \ {CR, LF}) \subseteq Seq(Byte)
    BY SeqMonotonic, Zenon
  <2> QED BY <2>1, DigitsWritten
<1>2. \A u, v \in Seq(Byte) : u \o v \in Seq(Byte)
  BY ConcatProperties
<1>3. <<n>> \in Seq(Byte)
  OBVIOUS
<1>4. WrittenLine(t, n) \in Seq(Byte)
  BY <1>1, <1>2, NewLineIsBytes, Zenon DEF WrittenLine
<1>5. WrittenKey(n) \in Seq(Byte)
  BY <1>1, <1>2, <1>3, NewLineIsBytes, Zenon DEF WrittenKey
<1> QED BY <1>4, <1>5

-----------------------------------------------------------------------------
(* The buffers: what a line and its words leave alone                       *)

(* The text buffer ends TokenOffset + Room bytes after its beginning; the   *)
(* parse buffer has room for program.words entries, the one after them is   *)
(* not its own.                                                             *)
BuffersOK == /\ program \in Programs
             /\ text \in [0..MaxText -> Byte]
             /\ parse.count \in Nat
             /\ DOMAIN parse.entries = 1..program.words + 1
             /\ StaysInBuffers

LEMMA ProgramsAre ==
    ASSUME program \in Programs
    PROVE  /\ program.version \in 1..8
           /\ program.room \in Byte
           /\ program.words \in Byte
           /\ program.lines \subseteq Lines
           /\ program.keys \subseteq Keys
           /\ program.slow \in BOOLEAN
           /\ program.inputs \in Nat
BY ProgramAssumption

LEMMA Rooms ==
    ASSUME program \in Programs
    PROVE  /\ Room \in Int /\ 0 <= Room /\ Room <= 256 /\ program.room <= Room
           /\ Early => 1 <= Room
           /\ TokenOffset = IF Early THEN 1 ELSE 2
           /\ MaxLetters = IF Early THEN Room - 1 ELSE Room
<1>1. program.room \in Byte
  BY ProgramsAre
<1> DEFINE r == program.room
<1>2. r \in Int /\ 0 <= r /\ r <= 255
  BY <1>1, ByteBounds
<1> HIDE DEF r
<1>3. (r - 1) % 256 = IF r = 0 THEN 255 ELSE r - 1
  BY <1>2
<1> QED BY <1>2, <1>3 DEF TokenOffset, MaxLetters, Room, r

LEMMA LowerIsByte == ASSUME NEW c \in Byte PROVE Lower(c) \in Byte
<1>1. c \in Int /\ 0 <= c /\ c <= 255
  BY ByteBounds
<1>2. Lower(c) = c \/ (c <= 90 /\ Lower(c) = c + 32)
  BY <1>1 DEF Lower
<1> QED BY <1>1, <1>2, ByteBounds

LEMMA StoredStays ==
    ASSUME program \in Programs, text \in [0..MaxText -> Byte], NEW line \in Seq(Byte)
    PROVE  /\ Stored(line) \in [0..MaxText -> Byte]
           /\ Stored(line)[0] = text[0]
           /\ \A i \in TokenOffset + Room..MaxText : Stored(line)[i] = text[i]
<1> DEFINE n == Smaller(Len(line), MaxLetters)
           o == TokenOffset
           r == Room
           early == Early
           len == Len(line)
           u == Stored(line)
           At(i) == IF i \in o..o + n - 1 THEN Lower(line[i - o + 1])
                    ELSE IF early /\ i = o + n THEN 0
                    ELSE IF ~early /\ i = 1 THEN len % 256
                    ELSE text[i]
<1>1. /\ r \in Int /\ 0 <= r /\ r <= 256 /\ (early => 1 <= r)
      /\ o = IF early THEN 1 ELSE 2
      /\ MaxLetters = IF early THEN r - 1 ELSE r
  BY Rooms
<1>2. len \in Nat /\ MaxText \in Nat /\ 1 <= MaxText
  BY BoundAssumption
<1>3. u = [i \in 0..MaxText |-> At(i)]
  BY Zenon DEF Stored
<1>4. n \in Int /\ 0 <= n /\ n <= len /\ n <= (IF early THEN r - 1 ELSE r)
  BY <1>1, <1>2 DEF Smaller
<1>5. 0 \in Byte /\ len % 256 \in Byte
  <2>1. len % 256 \in Int /\ 0 <= len % 256 /\ len % 256 <= 255
    BY <1>2
  <2> QED BY <2>1, ByteBounds
<1> HIDE DEF n, o, r, early, u
<1>6. ASSUME NEW i \in 0..MaxText PROVE At(i) \in Byte
  <2>1. CASE i \in o..o + n - 1
    <3>1. i - o + 1 \in 1..len
      BY <1>1, <1>2, <1>4, <2>1
    <3>2. line[i - o + 1] \in Byte
      BY <3>1
    <3> QED BY <2>1, <3>2, LowerIsByte
  <2>2. CASE i \notin o..o + n - 1
    BY <1>5, <2>2
  <2> QED BY <2>1, <2>2
<1>7. u[0] = text[0]
  <2>1. 0 \in 0..MaxText /\ 0 \notin o..o + n - 1 /\ 0 # o + n
    BY <1>1, <1>2, <1>4
  <2> QED BY <1>3, <2>1
<1>8. ASSUME NEW i \in o + r..MaxText PROVE u[i] = text[i]
  <2>1. i \in 0..MaxText /\ i \notin o..o + n - 1 /\ ~(early /\ i = o + n) /\ i # 1
    BY <1>1, <1>2, <1>4
  <2> QED BY <1>3, <2>1
<1>9. u \in [0..MaxText -> Byte]
  <2> HIDE DEF At
  <2> QED BY <1>3, <1>6
<1> QED BY <1>7, <1>8, <1>9 DEF o, r, u

(* The line that is divided is in memory, if memory goes on for long enough.*)
LEMMA BufLenIsNat ==
    ASSUME NEW t \in [0..MaxText -> Byte]
    PROVE  /\ BufLen(t) \in Nat
           /\ 256 <= MaxText => TokenOffset + BufLen(t) - 1 <= MaxText
<1>1. MaxText \in Nat /\ 1 \in 0..MaxText
  BY BoundAssumption
<1>2. t[1] \in Nat /\ t[1] <= 255
  BY <1>1, ByteBounds
<1>3. TokenOffset = IF Early THEN 1 ELSE 2
  BY DEF TokenOffset
<1>4. CASE ~Early
  <2>1. BufLen(t) = t[1]
    BY <1>4 DEF BufLen
  <2> QED BY <1>1, <1>2, <1>3, <1>4, <2>1
<1>5. CASE Early /\ ~\E i \in 1..MaxText : t[i] = 0
  <2>1. BufLen(t) = 0
    BY <1>5 DEF BufLen
  <2> QED BY <1>1, <1>3, <1>5, <2>1
<1>6. CASE Early /\ \E i \in 1..MaxText : t[i] = 0
  <2> DEFINE Z == {i \in 1..MaxText : t[i] = 0}
             First(i) == t[i] = 0 /\ \A j \in 1..i - 1 : t[j] # 0
             end == CHOOSE i \in 1..MaxText : First(i)
  <2>1. Z \subseteq Nat /\ Z # {}
    BY <1>6
  <2>2. PICK i \in Z : \A m \in Z : i <= m
    <3> HIDE DEF Z
    <3> QED BY <2>1, LeastElement
  <2>3. i \in 1..MaxText /\ First(i)
    BY <1>1, <2>2
  <2>4. end \in 1..MaxText
    <3> HIDE DEF First
    <3> QED BY <2>3
  <2>5. BufLen(t) = (end - 1) % 256
    BY <1>6 DEF BufLen
  <2> HIDE DEF end
  <2> QED BY <1>1, <1>3, <1>6, <2>4, <2>5
<1> QED BY <1>4, <1>5, <1>6

LEMMA SplitsInPlaces ==
    ASSUME NEW t, NEW start, NEW length \in Nat, NEW seps
    PROVE  SplitTokens(Span(t, start, length), seps) \in Seq(Places)
<1> DEFINE C == {t[start + i - 1] : i \in 1..length}
           s == Span(t, start, length)
           tokens == SplitTokens(s, seps)
<1>1. s \in Seq(C)
  <2>1. s = [i \in 1..length |-> t[start + i - 1]]
    BY DEF Span
  <2>2. \A i \in 1..length : t[start + i - 1] \in C
    OBVIOUS
  <2> HIDE DEF s, C
  <2>3. s \in [1..length -> C]
    BY <2>1, <2>2
  <2> QED BY <2>3
<1> HIDE DEF s, C
<1>2. PICK f : Splits(f, s, seps) /\ tokens = f[1]
  BY <1>1, TokensSplit
<1>3. 1 \in 1..Len(s) + 1
  BY <1>1
<1>4. tokens \in Seq(Places)
  BY <1>2, <1>3 DEF Splits, Jumps
<1> QED BY <1>4 DEF s

LEMMA TokenizedStays ==
    ASSUME BuffersOK, NEW t \in [0..MaxText -> Byte], NEW dictionary, NEW skip
    PROVE  /\ Tokenize(t, dictionary, skip).count \in 0..program.words
           /\ DOMAIN Tokenize(t, dictionary, skip).entries = 1..program.words + 1
           /\ Tokenize(t, dictionary, skip).entries[program.words + 1]
                  = parse.entries[program.words + 1]
<1> DEFINE all == SplitTokens(Span(t, TokenOffset, BufLen(t)), dictionary.separators)
           max == program.words
           tokens == SubSeq(all, 1, Smaller(Len(all), max))
           r == Tokenize(t, dictionary, skip)
           word(k) == LookUpWord(dictionary,
                              Span(t, TokenOffset + tokens[k].start, tokens[k].length))
<1>1. all \in Seq(Places)
  BY BufLenIsNat, SplitsInPlaces
<1>2. max \in Nat
  BY ProgramsAre, ByteBounds DEF BuffersOK
<1>3. r = Parsed(t, tokens, dictionary, skip)
  BY Zenon DEF Tokenize
<1> HIDE DEF all
<1>4. Len(tokens) \in 0..max
  <2> DEFINE m == Smaller(Len(all), max)
  <2>1. Len(all) \in Nat
    BY <1>1
  <2>2. m \in Nat /\ m <= Len(all) /\ m <= max
    BY <1>2, <2>1 DEF Smaller
  <2> HIDE DEF m
  <2>3. Len(SubSeq(all, 1, m)) = m
    BY <1>1, <2>2
  <2> QED BY <1>2, <2>2, <2>3 DEF m
<1> HIDE DEF tokens
<1>5. /\ r.count = Len(tokens)
      /\ r.entries = [k \in DOMAIN parse.entries |->
            IF k > Len(tokens) \/ (skip /\ word(k) = 0) THEN parse.entries[k]
            ELSE [word |-> word(k), length |-> tokens[k].length,
                  position |-> Position(tokens[k])]]
  BY <1>3 DEF Parsed
<1>6. DOMAIN parse.entries = 1..max + 1
  BY DEF BuffersOK
<1> HIDE DEF r, word, max
<1>7. max + 1 \in 1..max + 1 /\ max + 1 > Len(tokens)
  BY <1>2, <1>4
<1>8. r.entries[max + 1] = parse.entries[max + 1]
  BY <1>5, <1>6, <1>7
<1>9. DOMAIN r.entries = 1..max + 1
  BY <1>5, <1>6
<1> QED BY <1>4, <1>5, <1>8, <1>9 DEF r, max

LEMMA ParsedBuffersOK ==
    ASSUME BuffersOK, NEW t \in [0..MaxText -> Byte], NEW dictionary, NEW skip,
           UNCHANGED program, text' = t, t[0] = text[0],
           \A i \in TokenOffset + Room..MaxText : t[i] = text[i],
           parse' \in {Tokenize(t, dictionary, skip), parse}
    PROVE  BuffersOK'
<1> DEFINE r == Tokenize(t, dictionary, skip)
           words == program.words
<1>1. /\ r.count \in 0..words
      /\ DOMAIN r.entries = 1..words + 1
      /\ r.entries[words + 1] = parse.entries[words + 1]
  BY TokenizedStays
<1>2. words \in Nat
  BY ProgramsAre, ByteBounds DEF BuffersOK
<1> HIDE DEF r
<1>3. /\ program' = program /\ TokenOffset' = TokenOffset /\ Room' = Room
      /\ program' \in Programs
      /\ text' \in [0..MaxText -> Byte]
  BY DEF BuffersOK, TokenOffset, Room, Early
<1>4. /\ parse'.count \in Nat /\ parse'.count <= words
      /\ DOMAIN parse'.entries = 1..words + 1
      /\ parse'.entries[words + 1] = parse.entries[words + 1]
  <2>1. CASE parse' = r
    BY <1>1, <1>2, <2>1
  <2>2. CASE parse' = parse
    BY <2>2 DEF BuffersOK, StaysInBuffers
  <2> QED BY <2>1, <2>2 DEF r
<1>5. parse.entries[words + 1] = [word |-> 0, length |-> 0, position |-> 0]
      /\ text[0] = program.room
      /\ \A i \in TokenOffset + Room..MaxText : text[i] = Beyond
  BY DEF BuffersOK, StaysInBuffers
<1>6. \A i \in TokenOffset' + Room'..MaxText : text'[i] = Beyond
  BY <1>3, <1>5
<1>7. StaysInBuffers'
  BY <1>3, <1>4, <1>5, <1>6 DEF StaysInBuffers
<1> QED BY <1>3, <1>4, <1>7 DEF BuffersOK

LEMMA LineBuffersOK ==
    ASSUME BuffersOK, NEW line \in Inputs, UNCHANGED program, StoreLine(line)
    PROVE  BuffersOK'
<1> DEFINE t == Stored(line.text)
<1>1. line.text \in Seq(Byte)
  BY DEF Inputs
<1>2. /\ t \in [0..MaxText -> Byte]
      /\ t[0] = text[0]
      /\ \A i \in TokenOffset + Room..MaxText : t[i] = text[i]
  BY <1>1, StoredStays DEF BuffersOK
<1>3. text' = t /\ parse' \in {Tokenize(t, MainDictionary, FALSE), parse}
  BY DEF StoreLine
<1> HIDE DEF t
<1> QED BY <1>2, <1>3, ParsedBuffersOK

LEMMA KeptBuffersOK == BuffersOK /\ UNCHANGED <<program, memory>> => BuffersOK'
BY DEF BuffersOK, StaysInBuffers, TokenOffset, Room, Early, memory

-----------------------------------------------------------------------------
(* The files, and the number of inputs                                      *)

FilesOK == /\ cmdRdr \in File
           /\ cmdWtr \in File
           /\ writing \in BOOLEAN
           /\ tape \in [content : File, record : Records]
           /\ recorded \in Records
           /\ replayed \in [read : Seq(Inputs), of : Records]

CountOK == /\ status \in {"running", "broken", "failed"}
           /\ inputs \in Nat /\ inputs + Len(reads) <= program.inputs

InputInv == ReadsInv /\ BuffersOK /\ FilesOK /\ CountOK

LEMMA InputInvIsEnough == InputInv => TypeOK /\ StaysInBuffers
<1> SUFFICES ASSUME InputInv PROVE TypeOK /\ StaysInBuffers
  OBVIOUS
<1>1. ReadsInv /\ BuffersOK /\ FilesOK /\ CountOK /\ StaysInBuffers
  BY DEF InputInv, BuffersOK
<1>2. parse.count \in Byte
  <2>1. program.words \in Int /\ program.words <= 255
    BY <1>1, ProgramsAre, ByteBounds DEF BuffersOK
  <2>2. parse.count \in Nat /\ parse.count <= program.words
    BY <1>1 DEF BuffersOK, StaysInBuffers
  <2> QED BY <2>1, <2>2, ByteBounds
<1> QED BY <1>1, <1>2, Zenon DEF TypeOK, ReadsInv, BuffersOK, FilesOK, CountOK

LEMMA TypedLine ==
    ASSUME program \in Programs, NEW line \in program.lines
    PROVE  /\ line \in Inputs /\ line.text \in Seq(Byte \ {CR, LF})
           /\ line.terminator \in 1..255
<1>1. line \in [text : Seq(Byte \ {CR, LF}), terminator : 1..255]
  <2>1. line \in Lines
    BY ProgramsAre
  <2> QED BY <2>1 DEF Lines
<1>2. Seq(Byte \ {CR, LF}) \subseteq Seq(Byte)
  BY SeqMonotonic, Zenon
<1>3. 1..255 \subseteq Byte
  BY DEF Byte
<1> QED BY <1>1, <1>2, <1>3 DEF Inputs

LEMMA TypedKey ==
    ASSUME program \in Programs, NEW key \in program.keys
    PROVE  /\ key \in Byte /\ key \notin {0, LF} /\ Key(key) \in Inputs
<1>1. key \in {8, 13, 27} \cup 32..126 \cup 129..254
  BY ProgramsAre DEF Keys
<1>2. key \in Byte /\ key \notin {0, LF}
  BY <1>1, ByteBounds DEF LF
<1>3. 0 \in Byte /\ <<key>> \in Seq(Byte)
  BY <1>2, ByteBounds
<1> QED BY <1>2, <1>3 DEF Key, Inputs

LEMMA KeyTyped ==
    ASSUME NEW key \in Byte
    PROVE  Key(key) \in Inputs /\ Key(key).text[1] = key
<1>1. 0 \in Byte
  BY ByteBounds
<1> QED BY <1>1 DEF Key, Inputs

LEMMA RecordTyped ==
    ASSUME NEW r \in Records, NEW input \in Inputs
    PROVE  /\ [r EXCEPT !.inputs = Append(@, input)] \in Records
           /\ [inputs |-> Append(r.inputs, input), whole |-> FALSE] \in Records
BY DEF Records

LEMMA LineRecorded ==
    ASSUME FilesOK, program \in Programs, NEW line \in Inputs, RecordLine(line)
    PROVE  cmdWtr' \in File /\ writing' \in BOOLEAN /\ recorded' \in Records
<1>1. CASE cmdWtr = NoFile
  BY <1>1 DEF RecordLine, FilesOK
<1>2. CASE cmdWtr # NoFile /\ writing
  BY <1>2, RecordTyped DEF RecordLine, FilesOK
<1>3. CASE cmdWtr # NoFile /\ ~writing
  <2>1. cmdWtr \in Seq(Byte)
    BY <1>3 DEF FilesOK, File
  <2>2. WrittenLine(line.text, line.terminator) \in Seq(Byte)
    BY WrittenIsBytes DEF Inputs
  <2>3. cmdWtr' \in Seq(Byte)
    <3>1. cmdWtr' = cmdWtr \o WrittenLine(line.text, line.terminator)
      BY <1>3 DEF RecordLine
    <3> QED BY <2>1, <2>2, <3>1, ConcatProperties
  <2>4. writing' \in BOOLEAN
    BY <1>3, ProgramsAre DEF RecordLine
  <2>5. recorded' \in Records
    BY <1>3, RecordTyped DEF RecordLine, FilesOK
  <2> QED BY <2>3, <2>4, <2>5 DEF File
<1> QED BY <1>1, <1>2, <1>3

LEMMA KeyRecorded ==
    ASSUME FilesOK, NEW key \in Byte, RecordKey(Key(key))
    PROVE  cmdWtr' \in File /\ writing' \in BOOLEAN /\ recorded' \in Records
<1>1. CASE cmdWtr = NoFile
  BY <1>1 DEF RecordKey, FilesOK
<1>2. CASE cmdWtr # NoFile
  <2>1. cmdWtr \in Seq(Byte)
    BY <1>2 DEF FilesOK, File
  <2> DEFINE k == Key(key)
  <2>2. k \in Inputs /\ k.text[1] = key
    BY KeyTyped
  <2>3. cmdWtr' = cmdWtr \o WrittenKey(k.text[1])
        /\ recorded' = [recorded EXCEPT !.inputs = Append(@, k)]
        /\ writing' = writing
    BY <1>2 DEF RecordKey
  <2> HIDE DEF k
  <2>4. WrittenKey(key) \in Seq(Byte)
    <3>1. <<>> \in Seq(Byte)
      OBVIOUS
    <3> QED BY <3>1, WrittenIsBytes
  <2>5. cmdWtr' \in Seq(Byte)
    BY <2>1, <2>2, <2>3, <2>4, ConcatProperties
  <2>6. recorded' \in Records
    BY <2>2, <2>3, RecordTyped DEF FilesOK
  <2> QED BY <2>3, <2>5, <2>6 DEF FilesOK, File
<1> QED BY <1>1, <1>2

LEMMA ReplayedTyped ==
    ASSUME FilesOK, NEW input \in Inputs
    PROVE  [replayed EXCEPT !.read = Append(@, input)]
               \in [read : Seq(Inputs), of : Records]
<1> DEFINE r == replayed
<1>1. r \in [read : Seq(Inputs), of : Records]
  BY DEF FilesOK
<1>2. [r EXCEPT !.read = Append(@, input)] = [read |-> Append(r.read, input), of |-> r.of]
  BY <1>1
<1>3. Append(r.read, input) \in Seq(Inputs)
  BY <1>1
<1> HIDE DEF r
<1> QED BY <1>1, <1>2, <1>3 DEF r

LEMMA EmptyRecord == NoRecord \in Records /\ <<>> \in File /\ NoFile \in File
BY DEF NoRecord, Records, File

LEMMA CompletedTyped == FilesOK => Completed \in [content : File, record : Records]
BY DEF FilesOK, Completed

LEMMA KeptFilesOK == FilesOK /\ UNCHANGED files => FilesOK'
BY DEF FilesOK, files

LEMMA FewerReads ==
    ASSUME CountOK, program \in Programs, ReadsInv, status' \in {"running", "broken", "failed"},
           UNCHANGED program,
           \/ reads' = <<>> /\ inputs' = inputs
           \/ reads # <<>> /\ reads' = <<>> /\ inputs' = inputs + 1
           \/ inputs + Len(reads) < program.inputs /\ inputs' = inputs + 1
              /\ (reads' = reads \/ reads' = <<>>)
           \/ reads # <<>> /\ reads' = Front(reads) /\ inputs' = inputs + 1
           \/ Len(reads') = Len(reads) /\ inputs' = inputs
           \/ Len(reads') = Len(reads) + 1 /\ inputs' = inputs
              /\ inputs + Len(reads) < program.inputs
    PROVE  CountOK'
<1> DEFINE n == program.inputs
           l == Len(reads)
<1>1. n \in Nat
  BY ProgramsAre
<1>2. reads \in Seq(Read) /\ l \in Nat
  BY DEF ReadsInv
<1>3. reads # <<>> => l >= 1 /\ Len(Front(reads)) = l - 1
  <2> SUFFICES ASSUME reads # <<>> PROVE l >= 1 /\ Len(Front(reads)) = l - 1
    OBVIOUS
  <2>1. l >= 1 /\ l - 1 \in Nat
    BY <1>2
  <2>2. Front(reads) = SubSeq(reads, 1, l - 1)
    BY DEF Front
  <2>3. \A m \in Nat : m <= Len(reads) => Len(SubSeq(reads, 1, m)) = m
    BY <1>2
  <2> HIDE DEF l
  <2>4. l - 1 <= Len(reads)
    BY <1>2 DEF l
  <2> QED BY <2>1, <2>2, <2>3, <2>4
<1>4. inputs \in Nat /\ inputs + l <= n
  BY DEF CountOK
<1>5. Len(<<>>) = 0
  OBVIOUS
<1>6. inputs' \in Nat /\ inputs' + Len(reads') <= n
  <2> HIDE DEF n, l
  <2>1. /\ l = Len(reads) /\ n = program.inputs
    BY DEF n, l
  <2> QED BY <1>1, <1>2, <1>3, <1>4, <1>5, <2>1
<1> QED BY <1>6 DEF CountOK

LEMMA ReadsAre == ReadsInv => reads \in Seq(Read) /\ Len(reads) \in Nat
BY DEF ReadsInv

LEMMA SameLength ==
    ASSUME ReadsInv, NEW i, NEW r, reads' = [reads EXCEPT ![i] = r]
    PROVE  Len(reads') = Len(reads)
<1>1. reads \in Seq(Read)
  BY ReadsAre
<1> QED BY <1>1

LEMMA FileLine ==
    ASSUME cmdRdr \in File, cmdRdr # NoFile
    PROVE  /\ LineIn(ReadLine(cmdRdr)) \in Inputs
           /\ KeyIn(ReadLine(cmdRdr)) \in Byte
           /\ AfterLine(cmdRdr) \in File
<1>1. cmdRdr \in Seq(Byte)
  BY DEF File
<1>2. ReadLine(cmdRdr) \in Seq(Byte) /\ AfterLine(cmdRdr) \in Seq(Byte)
  <2>1. Seq(Byte \ {CR, LF}) \subseteq Seq(Byte)
    BY SeqMonotonic, Zenon
  <2> QED BY <1>1, <2>1, LineRead
<1> QED BY <1>2, LineIsInput, KeyIsByte DEF File

-----------------------------------------------------------------------------
(* The steps *)

LEMMA NextInputInv == InputInv /\ [Next]_vars => InputInv'
<1> SUFFICES ASSUME InputInv, [Next]_vars
             PROVE  BuffersOK' /\ FilesOK' /\ CountOK'
  BY NextReadsInv DEF InputInv
<1>0. /\ ReadsInv /\ BuffersOK /\ FilesOK /\ CountOK
      /\ program \in Programs
      /\ status \in {"running", "broken", "failed"}
  BY DEF InputInv, BuffersOK, CountOK
<1>1. CASE UNCHANGED vars
  <2>1. UNCHANGED <<program, memory>> /\ UNCHANGED files
        /\ UNCHANGED <<status, reads, inputs, program>>
    BY <1>1 DEF vars
  <2>2. CountOK'
    BY <1>0, <2>1, Zenon DEF CountOK
  <2> QED BY <1>0, <2>1, <2>2, KeptBuffersOK, KeptFilesOK
<1>2. ASSUME NEW dictionary \in Dictionaries, NEW skip \in BOOLEAN,
             TokeniseInstruction(dictionary, skip)
      PROVE  BuffersOK' /\ FilesOK' /\ CountOK'
  <2>1. /\ parse' = Tokenize(text, dictionary, skip)
        /\ UNCHANGED <<program, status, reads, text, inputs>> /\ UNCHANGED files
    BY <1>2 DEF TokeniseInstruction
  <2>2. text \in [0..MaxText -> Byte]
    BY <1>0 DEF BuffersOK
  <2>3. BuffersOK'
    BY <1>0, <2>1, <2>2, ParsedBuffersOK
  <2>4. CountOK'
    BY <1>0, <2>1, Zenon DEF CountOK
  <2> QED BY <1>0, <2>1, <2>3, <2>4, KeptFilesOK
<1>3. CASE SelectKeyboard
  <2>1. /\ cmdRdr' = NoFile
        /\ UNCHANGED <<program, memory>>
        /\ UNCHANGED <<status, reads, inputs, program>>
        /\ UNCHANGED <<cmdWtr, writing, tape, recorded, replayed>>
    BY <1>3 DEF SelectKeyboard
  <2>2. CountOK'
    BY <1>0, <2>1, Zenon DEF CountOK
  <2>3. FilesOK'
    BY <1>0, <2>1, EmptyRecord DEF FilesOK
  <2> QED BY <1>0, <2>1, <2>2, <2>3, KeptBuffersOK
<1>4. CASE SelectFile
  <2>1. /\ cmdRdr' = tape.content
        /\ replayed' = [read |-> <<>>, of |-> tape.record]
        /\ UNCHANGED <<program, memory>>
        /\ UNCHANGED <<status, reads, inputs, program>>
        /\ UNCHANGED <<cmdWtr, writing, tape, recorded>>
    BY <1>4 DEF SelectFile
  <2>2. CountOK'
    BY <1>0, <2>1, Zenon DEF CountOK
  <2>3. FilesOK'
    BY <1>0, <2>1 DEF FilesOK
  <2> QED BY <1>0, <2>1, <2>2, <2>3, KeptBuffersOK
<1>5. ASSUME NEW enabled \in BOOLEAN, SetRecording(enabled)
      PROVE  BuffersOK' /\ FilesOK' /\ CountOK'
  <2>1. UNCHANGED <<program, memory>> /\ UNCHANGED <<cmdRdr, inputs, replayed>>
    BY <1>5 DEF SetRecording
  <2>2. CASE writing
    <3>1. /\ status' = "failed" /\ reads' = <<>>
          /\ UNCHANGED <<cmdWtr, writing, tape, recorded>>
      BY <1>5, <2>2 DEF SetRecording, Fails
    <3>2. FilesOK'
      BY <1>0, <2>1, <3>1 DEF FilesOK
    <3>3. CountOK'
      BY <1>0, <2>1, <3>1, FewerReads
    <3> QED BY <1>0, <2>1, <3>2, <3>3, KeptBuffersOK
  <2>3. CASE ~writing
    <3>1. /\ tape' = Completed
          /\ cmdWtr' = IF enabled THEN <<>> ELSE NoFile
          /\ recorded' = NoRecord
          /\ UNCHANGED <<status, reads, writing>>
      BY <1>5, <2>3 DEF SetRecording
    <3>2. tape' \in [content : File, record : Records]
          /\ cmdWtr' \in File /\ recorded' \in Records
      BY <1>0, <3>1, CompletedTyped, EmptyRecord
    <3>3. FilesOK'
      BY <1>0, <2>1, <3>1, <3>2 DEF FilesOK
    <3>4. CountOK'
      BY <1>0, <2>1, <3>1, Zenon DEF CountOK
    <3> QED BY <1>0, <2>1, <3>3, <3>4, KeptBuffersOK
  <2> QED BY <2>2, <2>3
<1>6. CASE WriteEnds
  <2>1. /\ writing' = FALSE
        /\ UNCHANGED <<program, memory>>
        /\ UNCHANGED <<status, reads, inputs, program>>
        /\ UNCHANGED <<cmdRdr, cmdWtr, tape, recorded, replayed>>
    BY <1>6 DEF WriteEnds
  <2>2. CountOK'
    BY <1>0, <2>1, Zenon DEF CountOK
  <2>3. FilesOK'
    BY <1>0, <2>1 DEF FilesOK
  <2> QED BY <1>0, <2>1, <2>2, <2>3, KeptBuffersOK
<1>7. CASE ReadLineFromFile
  <2> DEFINE line == LineIn(ReadLine(cmdRdr))
  <2>1. /\ cmdRdr # NoFile /\ cmdRdr \in File
        /\ inputs + Len(reads) < program.inputs
        /\ StoreLine(line) /\ RecordLine(line)
        /\ replayed' = [replayed EXCEPT !.read = Append(@, line)]
        /\ cmdRdr' = AfterLine(cmdRdr)
        /\ inputs' = inputs + 1
        /\ UNCHANGED <<program, status, reads, tape>>
    BY <1>0, <1>7 DEF ReadLineFromFile, Reads, FilesOK
  <2>2. line \in Inputs /\ AfterLine(cmdRdr) \in File
    BY <2>1, FileLine
  <2> HIDE DEF line
  <2>3. BuffersOK'
    BY <1>0, <2>1, <2>2, LineBuffersOK
  <2>4. cmdWtr' \in File /\ writing' \in BOOLEAN /\ recorded' \in Records
    BY <1>0, <2>1, <2>2, LineRecorded
  <2>5. replayed' \in [read : Seq(Inputs), of : Records]
    BY <1>0, <2>1, <2>2, ReplayedTyped
  <2>6. tape' \in [content : File, record : Records] /\ cmdRdr' \in File
    BY <1>0, <2>1, <2>2 DEF FilesOK
  <2>7. FilesOK'
    BY <2>4, <2>5, <2>6 DEF FilesOK
  <2>8. CountOK'
    BY <1>0, <2>1, FewerReads
  <2> QED BY <2>3, <2>7, <2>8
<1>8. CASE ReadKeyFromFile
  <2> DEFINE k == KeyIn(ReadLine(cmdRdr))
             key == Key(k)
  <2>1. /\ cmdRdr # NoFile /\ cmdRdr \in File
        /\ inputs + Len(reads) < program.inputs
        /\ IF writing THEN Fails /\ UNCHANGED <<cmdWtr, recorded>> /\ UNCHANGED writing
           ELSE RecordKey(key) /\ UNCHANGED <<status, reads>>
        /\ replayed' = [replayed EXCEPT !.read = Append(@, key)]
        /\ cmdRdr' = AfterLine(cmdRdr)
        /\ inputs' = inputs + 1
        /\ UNCHANGED <<program, memory, tape>>
    BY <1>0, <1>8 DEF ReadKeyFromFile, Reads, FilesOK
  <2>2. k \in Byte /\ AfterLine(cmdRdr) \in File
    BY <2>1, FileLine
  <2> HIDE DEF k
  <2>3. key \in Inputs
    BY <2>2, KeyTyped
  <2>4. cmdWtr' \in File /\ writing' \in BOOLEAN /\ recorded' \in Records
    <3>1. CASE writing
      BY <1>0, <2>1, <3>1 DEF FilesOK
    <3>2. CASE ~writing
      BY <1>0, <2>1, <2>2, <3>2, KeyRecorded
    <3> QED BY <3>1, <3>2
  <2>5. \/ status' = "failed" /\ reads' = <<>>
        \/ UNCHANGED <<status, reads>>
    BY <2>1 DEF Fails
  <2> HIDE DEF key
  <2>6. replayed' \in [read : Seq(Inputs), of : Records]
    BY <1>0, <2>1, <2>3, ReplayedTyped
  <2>7. tape' \in [content : File, record : Records] /\ cmdRdr' \in File
    BY <1>0, <2>1, <2>2 DEF FilesOK
  <2>8. FilesOK'
    BY <2>4, <2>6, <2>7 DEF FilesOK
  <2>9. status' \in {"running", "broken", "failed"} /\ (reads' = reads \/ reads' = <<>>)
    BY <1>0, <2>5
  <2>10. CountOK'
    BY <1>0, <2>1, <2>9, FewerReads
  <2> QED BY <1>0, <2>1, <2>8, <2>10, KeptBuffersOK
<1>9. ASSUME NEW kind \in {"line", "key"}, NEW timed \in BOOLEAN, AskPlayer(kind, timed)
      PROVE  BuffersOK' /\ FilesOK' /\ CountOK'
  <2>1. /\ cmdRdr' = NoFile
        /\ inputs + Len(reads) < program.inputs
        /\ reads' = Append(reads, NewRead(kind, timed))
        /\ UNCHANGED <<program, memory>>
        /\ UNCHANGED <<program, status, inputs>>
        /\ UNCHANGED <<cmdWtr, writing, tape, recorded, replayed>>
    BY <1>9 DEF AskPlayer, Reads
  <2>2. Len(reads') = Len(reads) + 1
    <3> DEFINE r == NewRead(kind, timed)
    <3>1. reads \in Seq(Read) /\ r \in Read
      BY <1>0, ReadsAre, NewReadTakesAnswer
    <3> HIDE DEF r
    <3> QED BY <2>1, <3>1 DEF r
  <2>3. CountOK'
    BY <1>0, <2>1, <2>2, FewerReads
  <2>4. FilesOK'
    BY <1>0, <2>1, EmptyRecord DEF FilesOK
  <2> QED BY <1>0, <2>1, <2>3, <2>4, KeptBuffersOK
<1>10. ASSUME NEW i, NEW r, reads' = [reads EXCEPT ![i] = r],
              UNCHANGED <<program, status, files, memory, inputs>>
       PROVE  BuffersOK' /\ FilesOK' /\ CountOK'
  <2>1. Len(reads') = Len(reads)
    BY <1>0, <1>10, SameLength
  <2>2. CountOK'
    BY <1>0, <1>10, <2>1, FewerReads
  <2> QED BY <1>0, <1>10, <2>2, KeptBuffersOK, KeptFilesOK
<1>11. ASSUME NEW i \in DOMAIN reads, NEW outcome \in {"answered", "broken"},
              PlayerAnswers(i, outcome)
       PROVE  BuffersOK' /\ FilesOK' /\ CountOK'
  <2> DEFINE s == [reads[i] EXCEPT !.task = outcome, !.picked = Picks(reads[i], "read")]
  <2>1. reads' = [reads EXCEPT ![i] = s]
        /\ UNCHANGED <<program, status, files, memory, inputs>>
    BY <1>11 DEF PlayerAnswers
  <2> HIDE DEF s
  <2> QED BY <1>10, <2>1
<1>12. ASSUME NEW i \in DOMAIN reads, TimerExpires(i)
       PROVE  BuffersOK' /\ FilesOK' /\ CountOK'
  <2> DEFINE s == [reads[i] EXCEPT !.timer = "due", !.picked = Picks(reads[i], "timer")]
  <2>1. reads' = [reads EXCEPT ![i] = s]
        /\ UNCHANGED <<program, status, files, memory, inputs>>
    BY <1>12 DEF TimerExpires
  <2> HIDE DEF s
  <2> QED BY <1>10, <2>1
<1>13. CASE StartRoutine
  <2>1. reads' = [reads EXCEPT ![Innermost] = InRoutine(reads[Innermost])]
        /\ UNCHANGED <<program, status, files, memory, inputs>>
    BY <1>13 DEF StartRoutine
  <2> QED BY <1>10, <2>1
<1>14. CASE RoutineReturns
  <2> DEFINE s == [reads[Innermost] EXCEPT !.routine = FALSE,
                                           !.picked = NextPick(reads[Innermost])]
  <2>1. reads' = [reads EXCEPT ![Innermost] = s]
        /\ UNCHANGED <<program, status, files, memory, inputs>>
    BY <1>14 DEF RoutineReturns
  <2> HIDE DEF s
  <2> QED BY <1>10, <2>1
<1>15. ASSUME NEW line \in program.lines, FinishLine(line)
       PROVE  BuffersOK' /\ FilesOK' /\ CountOK'
  <2>1. /\ reads # <<>> /\ reads' = Front(reads)
        /\ StoreLine(line) /\ RecordLine(line)
        /\ inputs' = inputs + 1
        /\ UNCHANGED <<program, status, cmdRdr, tape, replayed>>
    BY <1>15 DEF FinishLine, Answered
  <2>2. line \in Inputs
    BY <1>0, TypedLine
  <2>3. BuffersOK'
    BY <1>0, <2>1, <2>2, LineBuffersOK
  <2>4. cmdWtr' \in File /\ writing' \in BOOLEAN /\ recorded' \in Records
    BY <1>0, <2>1, <2>2, LineRecorded
  <2>5. FilesOK'
    BY <1>0, <2>1, <2>4 DEF FilesOK
  <2>6. CountOK'
    BY <1>0, <2>1, FewerReads
  <2> QED BY <2>3, <2>5, <2>6
<1>16. ASSUME NEW key \in program.keys, FinishKey(Key(key))
       PROVE  BuffersOK' /\ FilesOK' /\ CountOK'
  <2>1. /\ reads # <<>>
        /\ IF cmdWtr # NoFile /\ writing
           THEN Fails /\ UNCHANGED <<cmdWtr, writing, recorded>>
           ELSE reads' = Front(reads) /\ RecordKey(Key(key)) /\ UNCHANGED status
        /\ inputs' = inputs + 1
        /\ UNCHANGED <<program, memory>>
        /\ UNCHANGED <<program, cmdRdr, tape, replayed>>
    BY <1>16 DEF FinishKey, Answered
  <2>2. key \in Byte
    BY <1>0, TypedKey
  <2>3. cmdWtr' \in File /\ writing' \in BOOLEAN /\ recorded' \in Records
    <3>1. CASE cmdWtr # NoFile /\ writing
      BY <1>0, <2>1, <3>1 DEF FilesOK
    <3>2. CASE ~(cmdWtr # NoFile /\ writing)
      BY <1>0, <2>1, <2>2, <3>2, KeyRecorded
    <3> QED BY <3>1, <3>2
  <2>4. \/ status' = "failed" /\ reads' = <<>>
        \/ UNCHANGED status /\ reads' = Front(reads)
    BY <2>1 DEF Fails
  <2>5. FilesOK'
    BY <1>0, <2>1, <2>3 DEF FilesOK
  <2>6. status' \in {"running", "broken", "failed"}
    BY <1>0, <2>4
  <2>7. CountOK'
    BY <1>0, <2>1, <2>4, <2>6, FewerReads
  <2> QED BY <1>0, <2>1, <2>5, <2>7, KeptBuffersOK
<1>17. CASE BreakIn \/ Paused
  <2>1. /\ reads' = <<>> /\ status' \in {"running", "broken", "failed"}
        /\ UNCHANGED <<program, files, memory, inputs>>
    BY <1>17 DEF BreakIn, Paused, Breaks, Fails
  <2>2. CountOK'
    BY <1>0, <2>1, FewerReads
  <2> QED BY <1>0, <2>1, <2>2, KeptBuffersOK, KeptFilesOK
<1>18. CASE Resumes
  <2>1. /\ UNCHANGED <<program, reads, files, memory, inputs>>
        /\ status' \in {"running", "broken", "failed"}
    BY <1>18 DEF Resumes
  <2>2. CountOK'
    BY <1>0, <2>1, Zenon DEF CountOK
  <2> QED BY <1>0, <2>1, <2>2, KeptBuffersOK, KeptFilesOK
<1> QED BY <1>1, <1>2, <1>3, <1>4, <1>5, <1>6, <1>7, <1>8, <1>9, <1>11, <1>12, <1>13,
           <1>14, <1>15, <1>16, <1>17, <1>18 DEF Next

LEMMA InitInputInv == Init => InputInv
<1> SUFFICES ASSUME Init PROVE InputInv
  OBVIOUS
<1>1. program \in Programs
  BY DEF Init
<1>2. /\ program.room \in Byte /\ program.room \in Int
      /\ program.words \in Nat /\ program.inputs \in Nat
  <2>1. program.room \in Byte /\ program.words \in Byte /\ program.inputs \in Nat
    BY <1>1, ProgramsAre
  <2> QED BY <2>1, ByteBounds
<1>3. ReadsInv
  BY DEF Init, ReadsInv
<1>4. text = [i \in 0..MaxText |-> IF i = 0 THEN program.room
                                    ELSE IF i < TokenOffset + program.room THEN 0
                                    ELSE Beyond]
      /\ 0 \in Byte /\ Beyond \in Byte /\ MaxText \in Nat
  BY ByteBounds, BoundAssumption DEF Init, Beyond
<1>5. text \in [0..MaxText -> Byte]
  BY <1>2, <1>4
<1>6. text[0] = program.room
  BY <1>4
<1>7. \A i \in TokenOffset + Room..MaxText : text[i] = Beyond
  <2> SUFFICES ASSUME NEW i \in TokenOffset + Room..MaxText PROVE text[i] = Beyond
    OBVIOUS
  <2>1. TokenOffset \in {1, 2} /\ Room \in Int /\ 0 <= Room /\ program.room <= Room
    BY <1>1, Rooms
  <2>2. i \in 0..MaxText /\ i # 0 /\ ~(i < TokenOffset + program.room)
    BY <1>2, <1>4, <2>1
  <2> QED BY <1>4, <2>2
<1>8. /\ parse.count = 0
      /\ parse.entries = [i \in 1..program.words + 1 |->
                            [word |-> 0, length |-> 0, position |-> 0]]
  BY DEF Init
<1>9. program.words + 1 \in 1..program.words + 1
  BY <1>2
<1>10. BuffersOK
  BY <1>1, <1>2, <1>5, <1>6, <1>7, <1>8, <1>9 DEF BuffersOK, StaysInBuffers
<1>11. FilesOK
  <2>1. /\ cmdRdr = NoFile /\ cmdWtr = NoFile /\ writing = FALSE
        /\ tape = [content |-> NoFile, record |-> NoRecord]
        /\ recorded = NoRecord
        /\ replayed = [read |-> <<>>, of |-> NoRecord]
    BY DEF Init
  <2>2. <<>> \in Seq(Inputs)
    OBVIOUS
  <2> QED BY <2>1, <2>2, EmptyRecord DEF FilesOK
<1>12. CountOK
  <2>1. inputs = 0 /\ reads = <<>> /\ status = "running"
    BY DEF Init
  <2> QED BY <1>2, <2>1 DEF CountOK
<1> QED BY <1>3, <1>10, <1>11, <1>12 DEF InputInv

(* The type invariant: whatever is read from the player or from a file, the *)
(* memory holds bytes, a file holds bytes, and keys and terminators are     *)
(* bytes (CommandFileReader, ReadLineAsync and ReadKeyAsync).               *)
THEOREM InputAlwaysTyped == Spec => []TypeOK
BY InitInputInv, NextInputInv, InputInvIsEnough, PTL DEF Spec

(* However long the line, however many its words and whatever the first     *)
(* bytes of the two buffers, nothing is written beyond their ends, where a  *)
(* text buffer whose first byte is 0 ends after 256 bytes up to Version 4,  *)
(* because that is how the code takes it (Input.cs, ReadImplAsync and       *)
(* Tokenize).                                                               *)
THEOREM BuffersAlwaysKept == Spec => []StaysInBuffers
BY InitInputInv, NextInputInv, InputInvIsEnough, PTL DEF Spec

-----------------------------------------------------------------------------
(* A line of a file, read back                                              *)

LineText == Seq(Byte \ {CR, LF})

(* What ends a line: a lone CR does where no LF follows.                    *)
Ends(e, rest) == \/ e \in {<<LF>>, <<CR, LF>>}
                 \/ e = <<CR>> /\ rest # <<>> /\ rest[1] # LF

LEMMA LineTextIsBytes == LineText \subseteq Seq(Byte)
BY SeqMonotonic, Zenon DEF LineText

LEMMA BreaksAreBytes == CR \in Byte /\ LF \in Byte /\ CR # LF
BY ByteBounds DEF CR, LF

LEMMA ConcatParts ==
    ASSUME NEW S, NEW a \in Seq(S), NEW b \in Seq(S)
    PROVE  /\ SubSeq(a \o b, 1, Len(a)) = a
           /\ SubSeq(a \o b, Len(a) + 1, Len(a \o b)) = b
<1> DEFINE f == a \o b
           m == Len(a)
           k == Len(b)
<1>1. f \in Seq(S) /\ Len(f) = m + k /\ m \in Nat /\ k \in Nat
      /\ \A i \in 1..m + k : f[i] = IF i <= m THEN a[i] ELSE b[i - m]
  BY ConcatProperties
<1> HIDE DEF f
<1>2. SubSeq(f, 1, m) = a
  <2> DEFINE t == SubSeq(f, 1, m)
  <2>1. t \in Seq(S) /\ Len(t) = m /\ \A i \in 1..m : t[i] = f[i]
    BY <1>1
  <2>2. \A i \in 1..m : t[i] = a[i]
    BY <1>1, <2>1
  <2> HIDE DEF t
  <2>3. t = a
    BY <2>1, <2>2, SeqEqual
  <2> QED BY <2>3 DEF t
<1>3. SubSeq(f, m + 1, m + k) = b
  <2> DEFINE t == SubSeq(f, m + 1, m + k)
  <2>1. t \in Seq(S) /\ Len(t) = k /\ \A i \in 1..k : t[i] = f[m + i]
    <3>1. m + 1 \in Int /\ m + k \in Int /\ \A i \in m + 1..m + k : f[i] \in S
      BY <1>1
    <3>2. /\ t \in Seq(S)
          /\ Len(t) = IF m + 1 <= m + k THEN (m + k) - (m + 1) + 1 ELSE 0
          /\ \A i \in 1..(m + k) - (m + 1) + 1 : t[i] = f[m + 1 + i - 1]
      BY <3>1, SubSeqProperties
    <3> HIDE DEF t, m, k
    <3> QED BY <1>1, <3>2
  <2>2. ASSUME NEW i \in 1..k PROVE t[i] = b[i]
    <3>1. m + i \in 1..m + k /\ ~(m + i <= m) /\ (m + i) - m = i
      BY <1>1
    <3> QED BY <1>1, <2>1, <3>1
  <2> HIDE DEF t
  <2>3. t = b
    BY <2>1, <2>2, SeqEqual
  <2> QED BY <2>3 DEF t
<1> QED BY <1>1, <1>2, <1>3 DEF f

LEMMA LineCut ==
    ASSUME NEW line \in LineText, NEW rest \in Seq(Byte), NEW e, Ends(e, rest),
           NEW file, file = line \o (e \o rest)
    PROVE  /\ file \in Seq(Byte) /\ file # <<>>
           /\ ReadLine(file) = line /\ AfterLine(file) = rest
<1> DEFINE m == Len(line)
           n == Len(file)
           after == e \o rest
           end == EndOfLine(file)
           both == end < n /\ file[end] = CR /\ file[end + 1] = LF
<1>1. line \in Seq(Byte) /\ m \in Nat /\ \A i \in 1..m : line[i] \notin {CR, LF}
  BY LineTextIsBytes DEF LineText
<1>2. /\ e \in Seq(Byte) /\ Len(e) \in 1..2 /\ e[1] \in {CR, LF}
      /\ Len(e) = 2 => e[1] = CR /\ e[2] = LF
      /\ Len(e) = 1 => e[1] = LF \/ (rest # <<>> /\ rest[1] # LF)
  <2>1. CASE e = <<LF>>
    BY <2>1, BreaksAreBytes
  <2>2. CASE e = <<CR, LF>>
    BY <2>2, BreaksAreBytes
  <2>3. CASE e = <<CR>> /\ rest # <<>> /\ rest[1] # LF
    BY <2>3, BreaksAreBytes
  <2> QED BY <2>1, <2>2, <2>3 DEF Ends
<1>3. /\ after \in Seq(Byte) /\ Len(after) = Len(e) + Len(rest)
      /\ \A i \in 1..Len(after) : after[i] = IF i <= Len(e) THEN e[i] ELSE rest[i - Len(e)]
  BY <1>2, ConcatProperties
<1> HIDE DEF after
<1>4. /\ file \in Seq(Byte) /\ n = m + Len(after)
      /\ \A i \in 1..n : file[i] = IF i <= m THEN line[i] ELSE after[i - m]
  BY <1>1, <1>3, ConcatProperties DEF after
<1>5. /\ end \in 1..n + 1
      /\ \A j \in 1..end - 1 : file[j] \notin {CR, LF}
      /\ end <= n => file[end] \in {CR, LF}
  BY <1>4, LineEnds
<1> HIDE DEF end
<1>6. Len(e) \in Int /\ 1 <= Len(e) /\ Len(rest) \in Nat /\ Len(after) \in Nat
      /\ 1 <= Len(after) /\ n \in Nat /\ m < n
  BY <1>1, <1>2, <1>3, <1>4
<1>7. file[m + 1] = e[1]
  <2>1. m + 1 \in 1..n /\ ~(m + 1 <= m) /\ (m + 1) - m = 1 /\ 1 \in 1..Len(after)
        /\ 1 <= Len(e)
    BY <1>1, <1>6
  <2>2. file[m + 1] = after[1]
    BY <1>4, <2>1
  <2> QED BY <1>3, <2>1, <2>2
<1>8. end = m + 1
  <2>1. ~(end <= m)
    <3> SUFFICES ASSUME end <= m PROVE FALSE
      OBVIOUS
    <3>1. end \in 1..m /\ end \in 1..n
      BY <1>1, <1>5, <1>6
    <3>2. file[end] = line[end]
      BY <1>4, <3>1
    <3> QED BY <1>1, <1>5, <1>6, <3>1, <3>2
  <2>2. ~(end > m + 1)
    <3> SUFFICES ASSUME end > m + 1 PROVE FALSE
      OBVIOUS
    <3>1. m + 1 \in 1..end - 1
      BY <1>1, <1>5, <1>6
    <3> QED BY <1>2, <1>5, <1>7, <3>1
  <2> QED BY <1>1, <1>5, <1>6, <2>1, <2>2
<1>9. ReadLine(file) = line
  <2>1. SubSeq(file, 1, m) = line
    <3> HIDE DEF m
    <3> QED BY <1>1, <1>3, ConcatParts DEF after, m
  <2>2. end - 1 = m
    BY <1>1, <1>8
  <2> QED BY <2>1, <2>2 DEF ReadLine, end
<1>10. SubSeq(after, Len(e) + 1, Len(after)) = rest
  BY <1>2, ConcatParts DEF after
<1>11. SubSeq(file, m + Len(e) + 1, n) = rest
  <2> DEFINE a == line \o e
  <2>1. a \in Seq(Byte) /\ Len(a) = m + Len(e)
    BY <1>1, <1>2, ConcatProperties
  <2>2. file = a \o rest
    BY SMTT(30), <1>1, <1>2, ConcatAssociative
  <2> HIDE DEF a
  <2>3. SubSeq(file, Len(a) + 1, n) = rest
    BY <2>1, <2>2, ConcatParts
  <2> QED BY <2>1, <2>3
<1>12. AfterLine(file) = SubSeq(file, IF both THEN end + 2 ELSE end + 1, n)
  BY Zenon DEF AfterLine, end
<1>13. /\ Len(e) = 2 => both
       /\ Len(e) = 1 => ~both
  <2>1. ASSUME Len(e) = 2 PROVE both
    <3>1. end < n /\ end + 1 \in 1..n /\ (end + 1) - m = 2 /\ ~(end + 1 <= m)
          /\ 2 \in 1..Len(after)
      BY <1>1, <1>3, <1>4, <1>6, <1>8, <2>1
    <3>2. file[end + 1] = after[2]
      BY <1>4, <3>1
    <3>3. after[2] = e[2]
      BY <1>3, <2>1, <3>1
    <3> QED BY <1>2, <1>7, <1>8, <2>1, <3>1, <3>2, <3>3
  <2>2. ASSUME Len(e) = 1, both PROVE FALSE
    <3>1. e[1] = CR /\ rest # <<>> /\ rest[1] # LF
      BY <1>2, <1>7, <1>8, <2>2, BreaksAreBytes
    <3>2. end + 1 \in 1..n /\ (end + 1) - m = 2 /\ ~(end + 1 <= m)
          /\ 2 \in 1..Len(after) /\ ~(2 <= Len(e)) /\ 2 - Len(e) = 1
      BY <1>1, <1>3, <1>4, <1>6, <1>8, <2>2
    <3>3. file[end + 1] = after[2]
      BY <1>4, <3>2
    <3>4. after[2] = rest[1]
      BY <1>3, <3>2
    <3>5. rest[1] = LF
      BY <2>2, <3>3, <3>4
    <3> QED BY <3>1, <3>5
  <2> HIDE DEF both
  <2> QED BY <2>1, <2>2
<1>14. AfterLine(file) = rest
  <2>1. (IF both THEN end + 2 ELSE end + 1) = m + Len(e) + 1
    <3> HIDE DEF both
    <3>1. CASE Len(e) = 1
      BY <1>1, <1>8, <1>13, <3>1
    <3>2. CASE Len(e) = 2
      BY <1>1, <1>8, <1>13, <3>2
    <3>3. Len(e) \in {1, 2}
      BY <1>2
    <3> QED BY <3>1, <3>2, <3>3
  <2> HIDE DEF both
  <2> QED BY <1>11, <1>12, <2>1
<1>15. file # <<>>
  BY <1>6
<1> QED BY <1>4, <1>9, <1>14, <1>15

-----------------------------------------------------------------------------
(* Numbers in brackets, read back                                           *)

(* The line is the text t and, in brackets, the number n.                   *)
IsBracketed(line, t, n) ==
    /\ line \in LineText /\ Len(line) = Len(t) + Len(Decimal(n)) + 2
    /\ \A i \in 1..Len(t) : line[i] = t[i]
    /\ line[Len(t) + 1] = OpenBracket
    /\ \A i \in 1..Len(Decimal(n)) : line[Len(t) + 1 + i] = Decimal(n)[i]
    /\ line[Len(line)] = CloseBracket

LEMMA BracketedPlaces ==
    ASSUME NEW t \in LineText, NEW n \in Byte
    PROVE  IsBracketed(t \o Bracketed(n), t, n)
<1> DEFINE line == t \o Bracketed(n)
           d == Decimal(n)
           b == Bracketed(n)
           T == Byte \ {CR, LF}
           o == <<OpenBracket>>
           c == <<CloseBracket>>
           od == o \o d
<1>1. d \in Seq(48..57) /\ b \in Seq(T) /\ t \in Seq(T)
  BY DecimalDigits, DigitsWritten DEF LineText
<1>2. b = od \o c
  BY DEF Bracketed
<1>3. o \in Seq(Int) /\ Len(o) = 1 /\ o[1] = OpenBracket
      /\ c \in Seq(Int) /\ Len(c) = 1 /\ c[1] = CloseBracket
  BY DEF OpenBracket, CloseBracket
<1>4. d \in Seq(Int)
  <2>1. Seq(48..57) \subseteq Seq(Int)
    <3>1. 48..57 \subseteq Int
      OBVIOUS
    <3> QED BY <3>1, SeqMonotonic, Zenon
  <2> QED BY <1>1, <2>1
<1>5. od \in Seq(Int) /\ Len(od) = 1 + Len(d)
      /\ \A i \in 1..1 + Len(d) : od[i] = IF i <= 1 THEN o[i] ELSE d[i - 1]
  BY <1>3, <1>4, ConcatProperties
<1> HIDE DEF o, c, d, b, od, T, line
<1>6a. /\ Len(od \o c) = Len(od) + Len(c)
       /\ \A i \in 1..Len(od) + Len(c) :
              (od \o c)[i] = IF i <= Len(od) THEN od[i] ELSE c[i - Len(od)]
  BY <1>3, <1>5, ConcatProperties
<1>6. Len(b) = Len(od) + 1
      /\ \A i \in 1..Len(od) + 1 : b[i] = IF i <= Len(od) THEN od[i] ELSE c[i - Len(od)]
  BY <1>2, <1>3, <1>6a
<1>7. Len(d) \in Nat /\ Len(t) \in Nat
  BY <1>1
<1>8. Len(b) = Len(d) + 2 /\ b[1] = OpenBracket /\ b[Len(d) + 2] = CloseBracket
  <2>1. 1 \in 1..Len(od) + 1 /\ 1 <= Len(od) /\ 1 \in 1..1 + Len(d)
    BY <1>5, <1>7
  <2>2. Len(d) + 2 \in 1..Len(od) + 1 /\ ~(Len(d) + 2 <= Len(od))
        /\ (Len(d) + 2) - Len(od) = 1
    BY <1>5, <1>7
  <2>3. b[1] = OpenBracket
    BY <1>3, <1>5, <1>6, <2>1
  <2>4. b[Len(d) + 2] = CloseBracket
    BY <1>3, <1>6, <2>2
  <2>5. Len(b) = Len(d) + 2
    BY <1>5, <1>6, <1>7
  <2> QED BY <2>3, <2>4, <2>5
<1>9. ASSUME NEW i \in 1..Len(d) PROVE b[i + 1] = d[i]
  <2>1. i + 1 \in 1..Len(od) + 1 /\ i + 1 <= Len(od) /\ i + 1 \in 1..1 + Len(d)
        /\ ~(i + 1 <= 1) /\ (i + 1) - 1 = i
    BY <1>5, <1>7
  <2> QED BY <1>5, <1>6, <2>1
<1>10. /\ line \in Seq(T) /\ Len(line) = Len(t) + Len(b)
       /\ \A i \in 1..Len(t) + Len(b) : line[i] = IF i <= Len(t) THEN t[i] ELSE b[i - Len(t)]
  <2>1. line = t \o b
    BY DEF line, b
  <2> QED BY <1>1, <2>1, ConcatProperties
<1>11. \A i \in 1..Len(t) : line[i] = t[i]
  BY <1>7, <1>8, <1>10
<1>12. ASSUME NEW i \in 1..Len(b) PROVE line[Len(t) + i] = b[i]
  <2>1. Len(t) + i \in 1..Len(t) + Len(b) /\ ~(Len(t) + i <= Len(t)) /\ (Len(t) + i) - Len(t) = i
    BY <1>7, <1>8
  <2> QED BY <1>10, <2>1
<1>13. line[Len(t) + 1] = OpenBracket /\ line[Len(line)] = CloseBracket
  <2>1. 1 \in 1..Len(b) /\ Len(d) + 2 \in 1..Len(b) /\ Len(line) = Len(t) + (Len(d) + 2)
    BY <1>7, <1>8, <1>10
  <2> QED BY <1>8, <1>12, <2>1
<1>14. ASSUME NEW i \in 1..Len(d) PROVE line[Len(t) + 1 + i] = d[i]
  <2>1. i + 1 \in 1..Len(b) /\ Len(t) + (i + 1) = Len(t) + 1 + i
    BY <1>7, <1>8
  <2> QED BY <1>9, <1>12, <2>1
<1>15. Len(line) = Len(t) + Len(d) + 2
  BY <1>7, <1>8, <1>10
<1>16. line \in LineText
  BY <1>10 DEF LineText, T
<1> QED BY <1>11, <1>13, <1>14, <1>15, <1>16 DEF IsBracketed, d, line

LEMMA BracketedAlone ==
    ASSUME NEW n \in Byte
    PROVE  IsBracketed(Bracketed(n), <<>>, n)
<1> DEFINE b == Bracketed(n)
<1>1. b \in Seq(Byte \ {CR, LF})
  BY DigitsWritten
<1>2. <<>> \o b = b
  <2> HIDE DEF b
  <2> QED BY <1>1, ConcatEmptySeq
<1>3. <<>> \in LineText
  BY DEF LineText
<1>4. IsBracketed(<<>> \o b, <<>>, n)
  BY <1>3, BracketedPlaces
<1> HIDE DEF b
<1>5. IsBracketed(b, <<>>, n)
  BY <1>2, <1>4
<1> QED BY <1>5 DEF b

LEMMA NumberRead ==
    ASSUME NEW n \in Byte, NEW d, d = Decimal(n)
    PROVE  IsNumber(d) /\ ValueOf(d) % 256 = n
<1>1. d \in Seq(48..57) /\ d # <<>> /\ ValueOf(d) = n
  BY DecimalDigits
<1>2. n \in Int /\ 0 <= n /\ n <= 255
  BY ByteBounds
<1>3. n % 256 = n
  BY <1>2
<1>4. IsNumber(d)
  BY <1>1 DEF IsNumber
<1> QED BY <1>1, <1>3, <1>4

LEMMA BracketedLineRead ==
    ASSUME NEW t \in LineText, NEW n \in Byte, NEW line, IsBracketed(line, t, n)
    PROVE  LineIn(line) = [text |-> t, terminator |-> n]
<1> DEFINE d == Decimal(n)
           m == Len(t)
           l == Len(line)
           k == Len(d)
           I == {j \in 1..l : line[j] = OpenBracket}
           open == SelectLastInSeq(line, LAMBDA c : c = OpenBracket)
           key == SubSeq(line, open + 1, l - 1)
           before == SubSeq(line, 1, open - 1)
<1>1. d \in Seq(48..57) /\ k \in Nat /\ m \in Nat /\ t \in Seq(Byte)
  BY DecimalDigits, LineTextIsBytes DEF LineText
<1>2. /\ line \in LineText /\ l = m + k + 2
      /\ \A i \in 1..m : line[i] = t[i]
      /\ line[m + 1] = OpenBracket
      /\ \A i \in 1..k : line[m + 1 + i] = d[i]
      /\ line[l] = CloseBracket
  BY DEF IsBracketed
<1>3. line \in Seq(Byte)
  BY <1>2, LineTextIsBytes
<1>4. open = IF I # {} THEN Max(I) ELSE 0
  BY Zenon DEF SelectLastInSeq
<1>5. LineIn(line) = IF EndsInBracket(line) /\ open > 0 /\ IsNumber(key)
                     THEN [text |-> before, terminator |-> ValueOf(key) % 256]
                     ELSE [text |-> line, terminator |-> 13]
  BY Zenon DEF LineIn
<1> HIDE DEF open, d
<1>6. l \in Nat /\ m + 1 \in 1..l /\ I \subseteq 1..l
  BY <1>1, <1>2
<1>7. /\ open \in 0..l
      /\ open # 0 => open \in I
      /\ \A j \in 1..l : j > open => j \notin I
  <2> HIDE DEF I, l
  <2> QED BY <1>4, <1>6, LastOrNone
<1>8. m + 1 \in I
  BY <1>2, <1>6
<1> HIDE DEF k, m, l
<1>9. open = m + 1
  <2>1. ~(m + 1 > open)
    BY <1>6, <1>7, <1>8
  <2>2. open \in 1..l /\ line[open] = OpenBracket
    <3>1. open # 0
      BY <1>6, <1>7, <2>1
    <3> QED BY <1>7, <3>1
  <2>3. ~(open > m + 1)
    <3> SUFFICES ASSUME open > m + 1 PROVE FALSE
      OBVIOUS
    <3>1. CASE open = l
      <4>1. line[open] = CloseBracket
        BY <1>2, <3>1
      <4> QED BY <2>2, <4>1 DEF OpenBracket, CloseBracket
    <3>2. CASE open # l
      <4>1. open - m - 1 \in 1..k /\ m + 1 + (open - m - 1) = open
        BY <1>1, <1>2, <1>6, <2>2, <3>2
      <4>2. line[open] = d[open - m - 1]
        BY <1>2, <4>1
      <4>3. d[open - m - 1] \in 48..57
        BY <1>1, <4>1 DEF k
      <4>4. d[open - m - 1] # OpenBracket
        BY <4>3 DEF OpenBracket
      <4> QED BY <2>2, <4>2, <4>4
    <3> QED BY <3>1, <3>2
  <2> QED BY <1>1, <1>6, <1>7, <2>1, <2>3
<1>10. key = d
  <2>1. open + 1 = m + 2 /\ l - 1 = m + 1 + k
    BY <1>1, <1>2, <1>9
  <2> DEFINE q == SubSeq(line, m + 2, m + 1 + k)
  <2>2. m + 2 \in Int /\ m + 1 + k \in Int /\ \A i \in m + 2..m + 1 + k : line[i] \in Byte
    BY <1>1, <1>2, <1>3 DEF l
  <2>3. /\ q \in Seq(Byte)
        /\ Len(q) = IF m + 2 <= m + 1 + k THEN (m + 1 + k) - (m + 2) + 1 ELSE 0
        /\ \A i \in 1..(m + 1 + k) - (m + 2) + 1 : q[i] = line[m + 2 + i - 1]
    BY <2>2, SubSeqProperties
  <2> HIDE DEF q
  <2>4. Len(q) = k
    BY <1>1, <2>3
  <2>5. ASSUME NEW i \in 1..k PROVE q[i] = d[i]
    <3>1. i \in 1..(m + 1 + k) - (m + 2) + 1 /\ m + 2 + i - 1 = m + 1 + i
      BY <1>1
    <3> QED BY <1>2, <2>3, <3>1
  <2>6. d \in Seq(Byte)
    <3>1. Seq(48..57) \subseteq Seq(Byte)
      BY DigitsAreBytes, SeqMonotonic, Zenon
    <3> QED BY <1>1, <3>1
  <2>7. q = d
    BY <2>3, <2>4, <2>5, <2>6, SeqEqual DEF k
  <2> QED BY <2>1, <2>7 DEF q
<1>11. before = t
  <2> DEFINE q == SubSeq(line, 1, m)
  <2>1. q \in Seq(Byte) /\ Len(q) = m /\ \A i \in 1..m : q[i] = line[i]
    <3>1. m <= l /\ l = Len(line)
      BY <1>1, <1>2 DEF l
    <3> QED BY <1>1, <1>3, <3>1
  <2> HIDE DEF q
  <2>3. q = t
    BY <1>1, <1>2, <2>1, SeqEqual DEF m
  <2>2. open - 1 = m
    BY <1>1, <1>9
  <2> QED BY <2>2, <2>3 DEF q
<1>12. EndsInBracket(line)
  BY <1>2, <1>3, <1>6 DEF EndsInBracket, Last, l
<1>13. open > 0
  BY <1>1, <1>9
<1>14. IsNumber(d) /\ ValueOf(d) % 256 = n
  BY NumberRead DEF d
<1> HIDE DEF key, before
<1> QED BY <1>5, <1>10, <1>11, <1>12, <1>13, <1>14

LEMMA BracketedKeyRead ==
    ASSUME NEW n \in Byte
    PROVE  KeyIn(Bracketed(n)) = n
<1> DEFINE d == Decimal(n)
           k == Len(d)
           line == Bracketed(n)
           l == Len(line)
           I == {j \in 1..l : line[j] = CloseBracket}
           close == SelectInSeq(line, LAMBDA c : c = CloseBracket)
           key == SubSeq(line, 2, close - 1)
<1>1. d \in Seq(48..57) /\ k \in Nat
  BY DecimalDigits
<1>2. /\ line \in LineText /\ l = k + 2
      /\ line[1] = OpenBracket
      /\ \A i \in 1..k : line[1 + i] = d[i]
      /\ line[l] = CloseBracket
  <2> HIDE DEF line, d
  <2>1. IsBracketed(line, <<>>, n)
    BY BracketedAlone DEF line
  <2>2. /\ line \in LineText /\ l = 0 + k + 2
        /\ line[0 + 1] = OpenBracket
        /\ \A i \in 1..k : line[0 + 1 + i] = d[i]
        /\ line[l] = CloseBracket
    BY <2>1 DEF IsBracketed, d
  <2> QED BY <1>1, <2>2
<1>3. line \in Seq(Byte) /\ l \in Nat /\ I \subseteq 1..l
  BY <1>2, LineTextIsBytes
<1>4. close = IF I # {} THEN Min(I) ELSE 0
  BY Zenon DEF SelectInSeq
<1>5. KeyIn(line) = IF line = <<>> THEN 13
                    ELSE IF line[1] = OpenBracket /\ IsNumber(key)
                    THEN ValueOf(key) % 256 ELSE line[1]
  BY Zenon DEF KeyIn
<1> HIDE DEF close, d, line
<1>6. /\ close \in 0..l
      /\ close # 0 => close \in I
      /\ \A j \in 1..l : (close = 0 \/ j < close) => j \notin I
  <2> HIDE DEF I, l
  <2> QED BY ZenonT(40), <1>3, <1>4, FirstOrNone
<1>7. l \in I
  BY <1>1, <1>2
<1> HIDE DEF k, l
<1>8. close = k + 2
  <2>1. ~(close = 0 \/ l < close)
    BY <1>1, <1>2, <1>6, <1>7
  <2>2. line[close] = CloseBracket /\ close \in 1..l
    BY <1>6, <2>1
  <2>3. ~(close < l)
    <3> SUFFICES ASSUME close < l PROVE FALSE
      OBVIOUS
    <3>1. CASE close = 1
      BY <1>2, <2>2, <3>1 DEF OpenBracket, CloseBracket
    <3>2. CASE close # 1
      <4>1. close - 1 \in 1..k /\ 1 + (close - 1) = close
        BY <1>1, <1>2, <2>2, <3>2
      <4>2. line[close] = d[close - 1]
        BY <1>2, <4>1
      <4>3. d[close - 1] \in 48..57
        BY <1>1, <4>1 DEF k
      <4>4. d[close - 1] # CloseBracket
        BY <4>3 DEF CloseBracket
      <4> QED BY <2>2, <4>2, <4>4
    <3> QED BY <3>1, <3>2
  <2> QED BY <1>1, <1>2, <2>2, <2>3
<1>9. key = d
  <2> DEFINE q == SubSeq(line, 2, k + 1)
  <2>1. close - 1 = k + 1
    BY <1>1, <1>8
  <2>2. 2 \in Int /\ k + 1 \in Int /\ \A i \in 2..k + 1 : line[i] \in Byte
    BY <1>1, <1>2, <1>3 DEF l
  <2>3. /\ q \in Seq(Byte)
        /\ Len(q) = IF 2 <= k + 1 THEN (k + 1) - 2 + 1 ELSE 0
        /\ \A i \in 1..(k + 1) - 2 + 1 : q[i] = line[2 + i - 1]
    BY <2>2, SubSeqProperties
  <2> HIDE DEF q
  <2>4. Len(q) = k
    BY <1>1, <2>3
  <2>5. ASSUME NEW i \in 1..k PROVE q[i] = d[i]
    <3>1. i \in 1..(k + 1) - 2 + 1 /\ 2 + i - 1 = 1 + i
      BY <1>1
    <3> QED BY <1>2, <2>3, <3>1
  <2>6. d \in Seq(Byte)
    <3>1. Seq(48..57) \subseteq Seq(Byte)
      BY DigitsAreBytes, SeqMonotonic, Zenon
    <3> QED BY <1>1, <3>1
  <2>7. q = d
    BY <2>3, <2>4, <2>5, <2>6, SeqEqual DEF k
  <2> QED BY <2>1, <2>7 DEF q
<1>10. IsNumber(d) /\ ValueOf(d) % 256 = n
  BY NumberRead DEF d
<1>11. line # <<>>
  BY <1>1, <1>2 DEF l
<1> HIDE DEF key
<1>12. KeyIn(line) = n
  BY <1>2, <1>5, <1>9, <1>10, <1>11
<1> QED BY <1>12 DEF line

LEMMA PlainLineRead ==
    ASSUME NEW line \in LineText,
           ~EndsInBracket(line) \/ (\A i \in 1..Len(line) : line[i] # OpenBracket)
    PROVE  LineIn(line) = [text |-> line, terminator |-> 13]
<1> DEFINE l == Len(line)
           I == {j \in 1..l : line[j] = OpenBracket}
           open == SelectLastInSeq(line, LAMBDA c : c = OpenBracket)
           key == SubSeq(line, open + 1, l - 1)
           before == SubSeq(line, 1, open - 1)
<1>1. open = IF I # {} THEN Max(I) ELSE 0
  BY Zenon DEF SelectLastInSeq
<1>2. LineIn(line) = IF EndsInBracket(line) /\ open > 0 /\ IsNumber(key)
                     THEN [text |-> before, terminator |-> ValueOf(key) % 256]
                     ELSE [text |-> line, terminator |-> 13]
  BY Zenon DEF LineIn
<1> HIDE DEF open, key, before
<1>3. CASE ~EndsInBracket(line)
  BY <1>2, <1>3
<1>4. CASE \A i \in 1..Len(line) : line[i] # OpenBracket
  <2>1. I = {}
    BY <1>4
  <2>2. ~(open > 0)
    BY <1>1, <2>1
  <2> QED BY <1>2, <2>2
<1> QED BY <1>3, <1>4

LEMMA PlainKeyRead ==
    ASSUME NEW k \in Byte, k # OpenBracket
    PROVE  KeyIn(<<k>>) = k
<1> DEFINE line == <<k>>
           close == SelectInSeq(line, LAMBDA c : c = CloseBracket)
           key == SubSeq(line, 2, close - 1)
<1>1. KeyIn(line) = IF line = <<>> THEN 13
                    ELSE IF line[1] = OpenBracket /\ IsNumber(key)
                    THEN ValueOf(key) % 256 ELSE line[1]
  BY Zenon DEF KeyIn
<1>2. line # <<>> /\ line[1] = k
  OBVIOUS
<1> HIDE DEF line, key
<1>3. KeyIn(line) = k
  BY <1>1, <1>2
<1> QED BY <1>3 DEF line

LEMMA EmptyLineRead ==
    KeyIn(<<>>) = 13 /\ LineIn(<<>>) = [text |-> <<>>, terminator |-> 13]
<1>1. KeyIn(<<>>) = 13
  BY Zenon DEF KeyIn
<1>2. <<>> \in LineText /\ ~EndsInBracket(<<>>)
  BY DEF LineText, EndsInBracket
<1> QED BY <1>1, <1>2, PlainLineRead

-----------------------------------------------------------------------------
(* A file, and the inputs that its lines stand for                          *)

(* A line of a file can be read either way, whatever it was written for.    *)
Stands(line, input) ==
    /\ LineIn(line) \in Lines /\ KeyIn(line) \in Byte
    /\ input \in Inputs
    /\ input = IF Kind(input) = "key" THEN Key(KeyIn(line)) ELSE LineIn(line)

(* The file begins with a line for the input, the rest follows it.          *)
BeginsWith(file, input, rest) ==
    \E line, e : /\ line \in LineText /\ Ends(e, rest)
                 /\ file = line \o (e \o rest)
                 /\ Stands(line, input)

(* rests[n] is what is left of a file when n inputs have been read from it. *)
Follows(rests, given) ==
    /\ given \in Seq(Inputs)
    /\ rests \in [0..Len(given) -> Seq(Byte)]
    /\ rests[Len(given)] = <<>>
    /\ \A n \in 1..Len(given) : BeginsWith(rests[n - 1], given[n], rests[n])

Encodes(content, given) == \E rests : Follows(rests, given) /\ rests[0] = content

(* Of the keys only two do not keep to a line of their own: a line feed, and*)
(* a carriage return on a platform where two characters end a line.  Each   *)
(* is written as the character itself, and is then read back as the end of  *)
(* a line that nobody wrote.                                                *)
KeepsItsLine(key) == key # LF /\ (key = CR => NewLine = <<LF>>)
KeysKeepTheirLine(given) ==
    \A n \in DOMAIN given : Kind(given[n]) = "key" => KeepsItsLine(given[n].text[1])

LEMMA TerminatorIsByte == \A n \in 1..255 : n \in Byte /\ n # 0
<1> SUFFICES ASSUME NEW n \in 1..255 PROVE n \in Byte /\ n # 0
  OBVIOUS
<1>1. n \in Int /\ 0 <= n /\ n <= 255 /\ n # 0
  OBVIOUS
<1> QED BY <1>1, ByteBounds

LEMMA LinesAreInputs == Lines \subseteq Inputs /\ \A x \in Lines : Kind(x) = "line"
<1>1. ASSUME NEW x \in Lines PROVE x \in Inputs /\ Kind(x) = "line"
  <2>1. x \in [text : LineText, terminator : 1..255]
    BY DEF Lines, LineText
  <2>2. x.text \in Seq(Byte) /\ x.terminator \in 1..255
    BY <2>1, LineTextIsBytes
  <2>3. x.terminator \in Byte /\ x.terminator # 0
    BY <2>2, TerminatorIsByte, Zenon
  <2>4. x = [text |-> x.text, terminator |-> x.terminator]
    BY <2>1
  <2> DEFINE t == x.text
             n == x.terminator
  <2> HIDE DEF t, n
  <2>5. x = [text |-> t, terminator |-> n] /\ t \in Seq(Byte) /\ n \in Byte
    BY <2>2, <2>3, <2>4 DEF t, n
  <2>6. x \in Inputs
    BY <2>5 DEF Inputs
  <2> QED BY <2>3, <2>6 DEF Kind
<1> QED BY <1>1

LEMMA KeysAreKeys == \A k : Kind(Key(k)) = "key"
BY DEF Kind, Key

LEMMA EndsAreBytes ==
    ASSUME NEW e, NEW rest, Ends(e, rest)
    PROVE  e \in Seq(Byte)
<1>1. <<LF>> \in Seq(Byte) /\ <<CR, LF>> \in Seq(Byte) /\ <<CR>> \in Seq(Byte)
  BY BreaksAreBytes
<1> QED BY <1>1, Zenon DEF Ends

LEMMA OneLine ==
    ASSUME NEW line \in LineText, NEW e \in {<<LF>>, <<CR, LF>>}, NEW x, Stands(line, x)
    PROVE  Encodes(line \o e, <<x>>)
<1> DEFINE file == line \o e
           rests == [i \in 0..1 |-> IF i = 0 THEN file ELSE <<>>]
           given == <<x>>
<1>1. x \in Inputs /\ line \in Seq(Byte) /\ e \in Seq(Byte)
  <2>1. Ends(e, <<>>)
    BY DEF Ends
  <2> QED BY <2>1, LineTextIsBytes, EndsAreBytes DEF Stands
<1>2. file \in Seq(Byte) /\ <<>> \in Seq(Byte)
  BY <1>1, ConcatProperties
<1>3. e \o <<>> = e
  BY <1>1, ConcatEmptySeq
<1>4. BeginsWith(file, x, <<>>)
  BY <1>3 DEF BeginsWith, Ends
<1>5. given \in Seq(Inputs) /\ Len(given) = 1 /\ given[1] = x
  BY <1>1
<1> HIDE DEF file, given
<1>6. rests \in [0..1 -> Seq(Byte)] /\ rests[0] = file /\ rests[1] = <<>>
  BY <1>2
<1> HIDE DEF rests
<1>7. Follows(rests, given)
  <2>1. \A n \in 1..1 : n = 1 /\ n - 1 = 0
    OBVIOUS
  <2> QED BY <1>4, <1>5, <1>6, <2>1 DEF Follows
<1> QED BY <1>6, <1>7 DEF Encodes, file, given

LEMMA MoreFollows ==
    ASSUME NEW file, NEW x, NEW rest \in Seq(Byte), BeginsWith(file, x, rest),
           NEW chunk \in Seq(Byte)
    PROVE  BeginsWith(file \o chunk, x, rest \o chunk)
<1>1. PICK line, e : /\ line \in LineText /\ Ends(e, rest)
                     /\ file = line \o (e \o rest)
                     /\ Stands(line, x)
  BY DEF BeginsWith
<1>2. line \in Seq(Byte) /\ e \in Seq(Byte)
  BY <1>1, LineTextIsBytes, EndsAreBytes
<1>3. Ends(e, rest \o chunk)
  <2>1. CASE e \in {<<LF>>, <<CR, LF>>}
    BY <2>1 DEF Ends
  <2>2. CASE e = <<CR>> /\ rest # <<>> /\ rest[1] # LF
    <3>1. Len(rest) \in Nat /\ Len(rest) >= 1 /\ Len(chunk) \in Nat
      BY <2>2
    <3>2. Len(rest \o chunk) >= 1 /\ (rest \o chunk)[1] = rest[1]
      BY <3>1, ConcatProperties
    <3>3. rest \o chunk # <<>>
      BY <3>2
    <3> QED BY <2>2, <3>2, <3>3 DEF Ends
  <2> QED BY <1>1, <2>1, <2>2 DEF Ends
<1>4. file \o chunk = line \o (e \o (rest \o chunk))
  <2>1. e \o rest \in Seq(Byte)
    BY <1>2, ConcatProperties
  <2>2. (line \o (e \o rest)) \o chunk = line \o ((e \o rest) \o chunk)
    BY SMTT(30), <1>2, <2>1, ConcatAssociative
  <2>3. (e \o rest) \o chunk = e \o (rest \o chunk)
    BY <1>2, ConcatAssociative
  <2> QED BY <1>1, <2>2, <2>3, Zenon
<1> QED BY <1>1, <1>3, <1>4 DEF BeginsWith

LEMMA EncodesMore ==
    ASSUME NEW content, NEW given, Encodes(content, given),
           NEW chunk, NEW more, Encodes(chunk, more)
    PROVE  Encodes(content \o chunk, given \o more)
<1>1. PICK a : Follows(a, given) /\ a[0] = content
  BY DEF Encodes
<1>2. PICK b : Follows(b, more) /\ b[0] = chunk
  BY DEF Encodes
<1> DEFINE m == Len(given)
           k == Len(more)
           all == given \o more
           rests == [i \in 0..m + k |-> IF i <= m THEN a[i] \o chunk ELSE b[i - m]]
<1>3. /\ given \in Seq(Inputs) /\ m \in Nat /\ a \in [0..m -> Seq(Byte)] /\ a[m] = <<>>
      /\ \A n \in 1..m : BeginsWith(a[n - 1], given[n], a[n])
  BY <1>1 DEF Follows
<1>4. /\ more \in Seq(Inputs) /\ k \in Nat /\ b \in [0..k -> Seq(Byte)] /\ b[k] = <<>>
      /\ \A n \in 1..k : BeginsWith(b[n - 1], more[n], b[n])
  BY <1>2 DEF Follows
<1>5. /\ all \in Seq(Inputs) /\ Len(all) = m + k
      /\ \A i \in 1..m + k : all[i] = IF i <= m THEN given[i] ELSE more[i - m]
  BY <1>3, <1>4, ConcatProperties
<1> HIDE DEF m, k, all
<1>6. chunk \in Seq(Byte) /\ a[0] \in Seq(Byte) /\ 0 \in 0..m /\ m \in 0..m
  BY <1>2, <1>3, <1>4
<1>7. rests \in [0..m + k -> Seq(Byte)]
  <2>1. ASSUME NEW i \in 0..m + k, i <= m PROVE a[i] \o chunk \in Seq(Byte)
    <3>1. a[i] \in Seq(Byte)
      BY <1>3, <2>1
    <3> QED BY <1>6, <3>1, ConcatProperties
  <2>2. ASSUME NEW i \in 0..m + k, ~(i <= m) PROVE b[i - m] \in Seq(Byte)
    <3>1. i - m \in 0..k
      BY <1>3, <1>4, <2>2
    <3> QED BY <1>4, <3>1
  <2> QED BY <2>1, <2>2
<1>8. \A i \in 0..m : rests[i] = a[i] \o chunk
  <2> SUFFICES ASSUME NEW i \in 0..m PROVE rests[i] = a[i] \o chunk
    OBVIOUS
  <2>1. i \in 0..m + k /\ i <= m
    BY <1>3, <1>4
  <2> QED BY <2>1
<1>9. \A i \in 0..k : rests[m + i] = b[i]
  <2> SUFFICES ASSUME NEW i \in 0..k PROVE rests[m + i] = b[i]
    OBVIOUS
  <2>1. CASE i = 0
    <3>1. rests[m + i] = a[m] \o chunk
      <4>1. m + i = m
        BY <1>3, <2>1
      <4> HIDE DEF rests
      <4> QED BY <1>6, <1>8, <4>1
    <3>2. a[m] \o chunk = chunk
      BY <1>3, <1>6, ConcatEmptySeq
    <3> QED BY <1>2, <2>1, <3>1, <3>2
  <2>2. CASE i # 0
    <3>1. m + i \in 0..m + k /\ ~(m + i <= m) /\ (m + i) - m = i
      BY <1>3, <1>4, <2>2
    <3> QED BY <3>1
  <2> QED BY <2>1, <2>2
<1> HIDE DEF rests
<1>10. rests[m + k] = <<>>
  <2>1. k \in 0..k
    BY <1>4
  <2> QED BY <1>4, <1>9, <2>1
<1>11. ASSUME NEW n \in 1..m + k PROVE BeginsWith(rests[n - 1], all[n], rests[n])
  <2>1. CASE n <= m
    <3>0. m \in Nat /\ k \in Nat
      BY <1>3, <1>4
    <3>1. n \in 1..m /\ n \in 0..m /\ n - 1 \in 0..m /\ all[n] = given[n]
      <4>1. n \in 1..m /\ n \in 0..m /\ n - 1 \in 0..m
        BY <2>1, <3>0
      <4>2. all[n] = given[n]
        BY <1>5, <2>1
      <4> QED BY <4>1, <4>2
    <3>2. a[n] \in Seq(Byte) /\ BeginsWith(a[n - 1], given[n], a[n])
      BY <1>3, <3>1
    <3>3. BeginsWith(a[n - 1] \o chunk, given[n], a[n] \o chunk)
      BY <1>6, <3>2, MoreFollows
    <3>4. rests[n - 1] = a[n - 1] \o chunk /\ rests[n] = a[n] \o chunk
      BY <1>8, <3>1
    <3> QED BY <3>1, <3>3, <3>4
  <2>2. CASE ~(n <= m)
    <3> DEFINE i == n - m
    <3>1. i \in 1..k /\ i \in 0..k /\ i - 1 \in 0..k /\ n = m + i /\ n - 1 = m + (i - 1)
      BY <1>3, <1>4, <2>2
    <3>2. all[n] = more[i]
      BY <1>5, <2>2
    <3> HIDE DEF i
    <3>3. BeginsWith(b[i - 1], more[i], b[i])
      BY <1>4, <3>1
    <3>4. rests[m + (i - 1)] = b[i - 1] /\ rests[m + i] = b[i]
      BY <1>9, <3>1
    <3> QED BY <3>1, <3>2, <3>3, <3>4
  <2> QED BY <2>1, <2>2
<1>12. Follows(rests, all)
  BY <1>5, <1>7, <1>10, <1>11 DEF Follows
<1>13. rests[0] = content \o chunk
  BY <1>1, <1>6, <1>8
<1>14. Encodes(content \o chunk, all)
  BY <1>12, <1>13 DEF Encodes
<1> QED BY <1>14 DEF all

LEMMA LineEncoded ==
    ASSUME NEW x \in Lines
    PROVE  Encodes(WrittenLine(x.text, x.terminator), <<x>>)
<1> DEFINE t == x.text
           n == x.terminator
           line == IF n # 13 \/ EndsInBracket(t) THEN t \o Bracketed(n) ELSE t
<1>1. /\ x \in Inputs /\ Kind(x) = "line"
      /\ t \in LineText /\ n \in Byte
      /\ x = [text |-> t, terminator |-> n]
  <2>1. x \in [text : LineText, terminator : 1..255]
    BY DEF Lines, LineText
  <2>2. t \in LineText /\ n \in 1..255 /\ x = [text |-> t, terminator |-> n]
    BY <2>1
  <2> QED BY <2>2, LinesAreInputs, TerminatorIsByte, Zenon
<1>2. WrittenLine(t, n) = line \o NewLine
  BY DEF WrittenLine
<1>3. NewLine \in {<<LF>>, <<CR, LF>>}
  BY NewLineAssumption
<1> HIDE DEF t, n
<1>4. line \in LineText /\ LineIn(line) = x
  <2>1. CASE n # 13 \/ EndsInBracket(t)
    <3> DEFINE b == t \o Bracketed(n)
    <3>1. line = b
      BY <2>1
    <3>2. IsBracketed(b, t, n)
      BY <1>1, BracketedPlaces
    <3> HIDE DEF b, line
    <3>3. LineIn(b) = [text |-> t, terminator |-> n]
      BY <1>1, <3>2, BracketedLineRead
    <3> QED BY <1>1, <3>1, <3>2, <3>3 DEF IsBracketed
  <2>2. CASE ~(n # 13 \/ EndsInBracket(t))
    <3>1. line = t
      BY <2>2
    <3>2. LineIn(t) = [text |-> t, terminator |-> 13]
      BY <1>1, <2>2, PlainLineRead
    <3> HIDE DEF line
    <3> QED BY <1>1, <2>2, <3>1, <3>2
  <2> QED BY <2>1, <2>2
<1> HIDE DEF line
<1>5. Stands(line, x)
  <2>1. KeyIn(line) \in Byte
    BY <1>4, LineTextIsBytes, KeyIsByte
  <2> QED BY <1>1, <1>4, <2>1 DEF Stands
<1> QED BY <1>2, <1>3, <1>4, <1>5, OneLine DEF t, n

LEMMA PlainLine ==
    ASSUME NEW line \in LineText, NEW n \in 1..255, LineIn(line) = [text |-> line, terminator |-> n]
    PROVE  LineIn(line) \in Lines
BY DEF Lines, LineText

LEMMA KeyStands ==
    ASSUME NEW line, LineIn(line) \in Lines, KeyIn(line) \in Byte
    PROVE  Stands(line, Key(KeyIn(line)))
<1> DEFINE k == KeyIn(line)
<1>1. Key(k) \in Inputs /\ Kind(Key(k)) = "key"
  BY KeyTyped, KeysAreKeys
<1> QED BY <1>1 DEF Stands

LEMMA EmptyStands == /\ <<>> \in LineText
                     /\ Stands(<<>>, Key(13))
<1>1. <<>> \in LineText
  BY DEF LineText
<1>2. 13 \in 1..255 /\ 13 \in Byte
  BY ByteBounds
<1>3. LineIn(<<>>) \in Lines
  BY <1>1, <1>2, EmptyLineRead, PlainLine
<1>4. KeyIn(<<>>) = 13
  BY EmptyLineRead
<1>5. Stands(<<>>, Key(KeyIn(<<>>)))
  BY <1>2, <1>3, <1>4, KeyStands
<1> QED BY <1>1, <1>4, <1>5

LEMMA EmptyEncoded ==
    ASSUME NEW e \in {<<LF>>, <<CR, LF>>}
    PROVE  Encodes(e, <<Key(13)>>)
<1>1. Encodes(<<>> \o e, <<Key(13)>>)
  BY EmptyStands, OneLine
<1>2. e \in Seq(Byte)
  <2>1. Ends(e, <<>>)
    BY DEF Ends
  <2> QED BY <2>1, EndsAreBytes
<1>3. <<>> \o e = e
  BY <1>2, ConcatEmptySeq
<1> QED BY <1>1, <1>3

(* A key is written in a line of its own, or, when it is not one that keeps *)
(* to its line, in two empty ones.                                          *)
LEMMA KeyEncoded ==
    ASSUME NEW k \in Byte
    PROVE  \E more : /\ Encodes(WrittenKey(k), more)
                     /\ KeepsItsLine(k) => more = <<Key(k)>>
<1>0. NewLine \in {<<LF>>, <<CR, LF>>}
  BY NewLineAssumption
<1>1. CASE ~(k < 128 /\ k # OpenBracket)
  <2> DEFINE b == Bracketed(k)
  <2>1. WrittenKey(k) = b \o NewLine
    BY <1>1 DEF WrittenKey
  <2>2. IsBracketed(b, <<>>, k) /\ KeyIn(b) = k
    BY BracketedAlone, BracketedKeyRead
  <2> HIDE DEF b
  <2>3. b \in LineText
    BY <2>2 DEF IsBracketed
  <2>4. <<>> \in LineText
    BY DEF LineText
  <2>5. LineIn(b) = [text |-> <<>>, terminator |-> k]
    BY <2>2, <2>4, BracketedLineRead
  <2>6. k \in 1..255
    BY <1>1, ByteBounds DEF OpenBracket
  <2>7. LineIn(b) \in Lines
    BY <2>4, <2>5, <2>6 DEF Lines, LineText
  <2>8. Stands(b, Key(k))
    BY <2>2, <2>7, KeyStands
  <2>9. Encodes(b \o NewLine, <<Key(k)>>)
    BY <1>0, <2>3, <2>8, OneLine
  <2> QED BY <2>1, <2>9
<1>2. CASE k < 128 /\ k # OpenBracket /\ k \notin {CR, LF}
  <2> DEFINE line == <<k>>
  <2>1. WrittenKey(k) = line \o NewLine
    BY <1>2 DEF WrittenKey
  <2>2. line \in LineText
    BY <1>2 DEF LineText
  <2>3. KeyIn(line) = k
    BY <1>2, PlainKeyRead
  <2>4. LineIn(line) = [text |-> line, terminator |-> 13]
    <3>1. \A i \in 1..Len(line) : line[i] # OpenBracket
      BY <1>2
    <3> HIDE DEF line
    <3> QED BY <2>2, <3>1, PlainLineRead
  <2> HIDE DEF line
  <2>5. 13 \in 1..255
    OBVIOUS
  <2>6. LineIn(line) \in Lines
    BY <2>2, <2>4, <2>5, PlainLine
  <2>7. Stands(line, Key(k))
    BY <2>3, <2>6, KeyStands
  <2>8. Encodes(line \o NewLine, <<Key(k)>>)
    BY <1>0, <2>2, <2>7, OneLine
  <2> QED BY <2>1, <2>8
<1>3. ASSUME k \in {CR, LF}
      PROVE  \E more : /\ Encodes(WrittenKey(k), more)
                       /\ KeepsItsLine(k) => more = <<Key(k)>>
  <2>1. WrittenKey(k) = <<k>> \o NewLine
    <3>1. k < 128 /\ k # OpenBracket
      BY <1>3 DEF CR, LF, OpenBracket
    <3> QED BY <3>1, Zenon DEF WrittenKey
  <2>2. CASE k = CR /\ NewLine = <<LF>>
    <3>1. <<k>> \o NewLine = <<CR, LF>>
      <4>1. <<CR>> \o <<LF>> = <<CR, LF>>
        <5> DEFINE a == <<CR>>
                   b == <<LF>>
                   c == <<CR, LF>>
        <5>1. a \in Seq(Byte) /\ Len(a) = 1 /\ a[1] = CR
              /\ b \in Seq(Byte) /\ Len(b) = 1 /\ b[1] = LF
              /\ c \in Seq(Byte) /\ Len(c) = 2 /\ c[1] = CR /\ c[2] = LF
          BY BreaksAreBytes
        <5> HIDE DEF a, b, c
        <5>2. /\ a \o b \in Seq(Byte) /\ Len(a \o b) = Len(a) + Len(b)
              /\ \A i \in 1..Len(a) + Len(b) :
                    (a \o b)[i] = IF i <= Len(a) THEN a[i] ELSE b[i - Len(a)]
          BY <5>1, ConcatProperties
        <5>3. \A i \in 1..2 : (a \o b)[i] = c[i]
          <6>1. (a \o b)[1] = c[1]
            BY <5>1, <5>2
          <6>2. (a \o b)[2] = c[2]
            BY <5>1, <5>2
          <6>3. \A i \in 1..2 : i = 1 \/ i = 2
            OBVIOUS
          <6> HIDE DEF a, b, c
          <6> QED BY <6>1, <6>2, <6>3, Zenon
        <5>4. a \o b = c
          BY <5>1, <5>2, <5>3, SeqEqual
        <5> QED BY <5>4 DEF a, b, c
      <4> QED BY <2>2, <4>1
    <3>2. Encodes(<<CR, LF>>, <<Key(13)>>)
      BY EmptyEncoded
    <3>3. k = 13
      BY <2>2 DEF CR
    <3> QED BY <2>1, <3>1, <3>2, <3>3
  <2>3. CASE k = LF
    <3>1. Encodes(<<LF>>, <<Key(13)>>) /\ Encodes(NewLine, <<Key(13)>>)
      BY <1>0, EmptyEncoded
    <3>2. Encodes(<<LF>> \o NewLine, <<Key(13)>> \o <<Key(13)>>)
      BY <3>1, EncodesMore
    <3> QED BY <2>1, <2>3, <3>2 DEF KeepsItsLine
  <2>4. CASE k = CR /\ NewLine = <<CR, LF>>
    <3> DEFINE e == <<CR>>
               rest == <<CR, LF>>
               file == <<CR>> \o <<CR, LF>>
               given == <<Key(13), Key(13)>>
               rests == [i \in 0..2 |-> IF i = 0 THEN file ELSE IF i = 1 THEN rest ELSE <<>>]
    <3>1. e \in Seq(Byte) /\ rest \in Seq(Byte) /\ file \in Seq(Byte)
      BY BreaksAreBytes
    <3>2. Ends(e, rest)
      BY BreaksAreBytes DEF Ends
    <3>3. Ends(rest, <<>>)
      BY DEF Ends
    <3>4. BeginsWith(file, Key(13), rest)
      <4>1. file = <<>> \o (e \o rest)
        <5>1. file = e \o rest
          OBVIOUS
        <5> HIDE DEF e, rest, file
        <5>2. e \o rest \in Seq(Byte)
          BY <3>1, ConcatProperties
        <5>3. <<>> \o (e \o rest) = e \o rest
          BY <5>2, ConcatEmptySeq
        <5> QED BY <5>1, <5>3
      <4> HIDE DEF e, rest, file
      <4> QED BY <3>2, <4>1, EmptyStands DEF BeginsWith
    <3>5. BeginsWith(rest, Key(13), <<>>)
      <4> HIDE DEF e, rest, file
      <4>1. rest \o <<>> = rest
        BY <3>1, ConcatEmptySeq
      <4>2. <<>> \o rest = rest
        BY <3>1, ConcatEmptySeq
      <4>3. rest = <<>> \o (rest \o <<>>)
        BY <4>1, <4>2
      <4> QED BY <3>3, <4>3, EmptyStands DEF BeginsWith
    <3>6. given \in Seq(Inputs) /\ Len(given) = 2 /\ given[1] = Key(13) /\ given[2] = Key(13)
      BY EmptyStands DEF Stands
    <3> HIDE DEF e, rest, file, given
    <3>7. rests \in [0..2 -> Seq(Byte)] /\ rests[0] = file /\ rests[1] = rest
          /\ rests[2] = <<>>
      BY <3>1
    <3> HIDE DEF rests
    <3>8. Follows(rests, given)
      <4>1. \A n \in 1..2 : (n = 1 /\ n - 1 = 0) \/ (n = 2 /\ n - 1 = 1)
        OBVIOUS
      <4>2. \A n \in 1..2 : BeginsWith(rests[n - 1], given[n], rests[n])
        BY <3>4, <3>5, <3>6, <3>7, <4>1
      <4> QED BY <3>6, <3>7, <4>2 DEF Follows
    <3>9. Encodes(file, given)
      BY <3>7, <3>8 DEF Encodes
    <3>10. ~KeepsItsLine(k)
      BY <2>4, BreaksAreBytes DEF KeepsItsLine
    <3>11. <<k>> \o NewLine = file
      BY <2>4 DEF file
    <3> QED BY <2>1, <3>9, <3>10, <3>11
  <2> QED BY <1>0, <1>3, <2>2, <2>3, <2>4
<1> QED BY <1>1, <1>2, <1>3

-----------------------------------------------------------------------------
(* What the files hold, while inputs are recorded and while they are        *)
(* replayed                                                                 *)

(* A file's lines stand for some inputs; they are the recorded ones if no   *)
(* write was dropped and every key keeps to its line.                       *)
HoldsRecord(content, record) ==
    \E given : /\ Encodes(content, given)
               /\ record.whole /\ KeysKeepTheirLine(record.inputs) => given = record.inputs

(* The inputs read so far are the file's first, wherever they are of the    *)
(* same kind, and what is left of the file stands for the others.           *)
Replays(rests, given) ==
    /\ Follows(rests, given)
    /\ Len(replayed.read) <= Len(given)
    /\ cmdRdr # NoFile => cmdRdr = rests[Len(replayed.read)]
    /\ \A n \in 1..Len(replayed.read) :
          Kind(replayed.read[n]) = Kind(given[n]) => replayed.read[n] = given[n]
    /\ replayed.of.whole /\ KeysKeepTheirLine(replayed.of.inputs) =>
          given = replayed.of.inputs

ReplayInv == /\ InputInv
             /\ cmdWtr # NoFile => HoldsRecord(cmdWtr, recorded)
             /\ tape.content # NoFile => HoldsRecord(tape.content, tape.record)
             /\ \E rests, given : Replays(rests, given)

LEMMA NoFileIsNoText == NoFile \notin Seq(Byte)
<1>1. NoFile[1] = -1 /\ Len(NoFile) = 1
  BY DEF NoFile
<1>2. -1 \notin Byte
  BY ByteBounds
<1> SUFFICES ASSUME NoFile \in Seq(Byte) PROVE FALSE
  OBVIOUS
<1>3. NoFile[1] \in Byte
  <2> DEFINE s == NoFile
  <2>1. s \in Seq(Byte) /\ 1 \in 1..Len(s)
    BY <1>1
  <2> HIDE DEF s
  <2>2. s[1] \in Byte
    BY <2>1, ElementOfSeq
  <2> QED BY <2>2 DEF s
<1> QED BY <1>1, <1>2, <1>3

LEMMA NothingEncoded == Encodes(<<>>, <<>>)
<1> DEFINE rests == [i \in 0..0 |-> <<>>]
<1>1. rests \in [0..0 -> Seq(Byte)] /\ rests[0] = <<>>
  OBVIOUS
<1>2. <<>> \in Seq(Inputs) /\ Len(<<>>) = 0
  OBVIOUS
<1> HIDE DEF rests
<1>3. Follows(rests, <<>>)
  BY <1>1, <1>2 DEF Follows
<1> QED BY <1>1, <1>3 DEF Encodes

LEMMA KeysKeptBefore ==
    ASSUME NEW given \in Seq(Inputs), NEW x \in Inputs, KeysKeepTheirLine(Append(given, x))
    PROVE  /\ KeysKeepTheirLine(given)
           /\ Kind(x) = "key" => KeepsItsLine(x.text[1])
<1> DEFINE all == Append(given, x)
           n == Len(given)
<1>1. n \in Nat /\ Len(all) = n + 1 /\ all \in Seq(Inputs) /\ all[n + 1] = x
      /\ \A i \in 1..n : all[i] = given[i]
  OBVIOUS
<1> HIDE DEF all
<1>2. \A i \in 1..n + 1 : Kind(all[i]) = "key" => KeepsItsLine(all[i].text[1])
  BY <1>1 DEF KeysKeepTheirLine, all
<1>3. n + 1 \in 1..n + 1 /\ \A i \in 1..n : i \in 1..n + 1
  BY <1>1
<1>4. Kind(x) = "key" => KeepsItsLine(x.text[1])
  BY <1>1, <1>2, <1>3
<1>5. \A i \in 1..n : Kind(given[i]) = "key" => KeepsItsLine(given[i].text[1])
  BY <1>1, <1>2, <1>3
<1>6. DOMAIN given = 1..n
  OBVIOUS
<1> QED BY <1>4, <1>5, <1>6 DEF KeysKeepTheirLine

LEMMA RecordGrows ==
    ASSUME NEW content, NEW r \in Records, HoldsRecord(content, r),
           NEW x \in Inputs, NEW chunk, NEW more, Encodes(chunk, more),
           (Kind(x) = "key" => KeepsItsLine(x.text[1])) => more = <<x>>
    PROVE  HoldsRecord(content \o chunk, [r EXCEPT !.inputs = Append(@, x)])
<1> DEFINE s == [r EXCEPT !.inputs = Append(@, x)]
<1>1. PICK given : /\ Encodes(content, given)
                   /\ r.whole /\ KeysKeepTheirLine(r.inputs) => given = r.inputs
  BY DEF HoldsRecord
<1>2. r.inputs \in Seq(Inputs) /\ s.inputs = Append(r.inputs, x) /\ s.whole = r.whole
  BY DEF Records
<1> HIDE DEF s
<1>3. Encodes(content \o chunk, given \o more)
  BY <1>1, EncodesMore
<1>4. ASSUME s.whole, KeysKeepTheirLine(s.inputs)
      PROVE  given \o more = s.inputs
  <2>1. KeysKeepTheirLine(r.inputs) /\ (Kind(x) = "key" => KeepsItsLine(x.text[1]))
    BY <1>2, <1>4, KeysKeptBefore
  <2>2. given = r.inputs /\ more = <<x>>
    BY <1>1, <1>2, <1>4, <2>1
  <2>3. Append(r.inputs, x) = r.inputs \o <<x>>
    BY <1>2, AppendIsConcat
  <2> QED BY <1>2, <2>2, <2>3
<1>5. HoldsRecord(content \o chunk, s)
  BY <1>3, <1>4 DEF HoldsRecord
<1> QED BY <1>5 DEF s

(* Recording a line or a key.                                               *)
LEMMA LineHeld ==
    ASSUME FilesOK, cmdWtr # NoFile => HoldsRecord(cmdWtr, recorded),
           NEW x \in Lines, RecordLine(x), cmdWtr' # NoFile
    PROVE  HoldsRecord(cmdWtr', recorded')
<1>0. recorded \in Records /\ x \in Inputs /\ Kind(x) = "line"
  BY LinesAreInputs DEF FilesOK
<1>1. CASE cmdWtr = NoFile
  BY <1>1 DEF RecordLine
<1>2. CASE cmdWtr # NoFile /\ writing
  <2>1. /\ recorded' = [inputs |-> Append(recorded.inputs, x), whole |-> FALSE]
        /\ cmdWtr' = cmdWtr
    BY <1>2 DEF RecordLine
  <2>2. PICK given : Encodes(cmdWtr, given)
    BY <1>2 DEF HoldsRecord
  <2>3. ~recorded'.whole
    BY <2>1
  <2> QED BY <2>1, <2>2, <2>3 DEF HoldsRecord
<1>3. CASE cmdWtr # NoFile /\ ~writing
  <2> DEFINE chunk == WrittenLine(x.text, x.terminator)
             s == [recorded EXCEPT !.inputs = Append(@, x)]
  <2>1. cmdWtr' = cmdWtr \o chunk /\ recorded' = s
    BY <1>3 DEF RecordLine
  <2>2. Encodes(chunk, <<x>>)
    BY LineEncoded
  <2> HIDE DEF chunk
  <2>3. HoldsRecord(cmdWtr \o chunk, s)
    BY <1>0, <1>3, <2>2, RecordGrows
  <2> HIDE DEF s
  <2> QED BY <2>1, <2>3
<1> QED BY <1>1, <1>2, <1>3

LEMMA KeyHeld ==
    ASSUME FilesOK, cmdWtr # NoFile => HoldsRecord(cmdWtr, recorded),
           NEW k \in Byte, RecordKey(Key(k)), cmdWtr' # NoFile
    PROVE  HoldsRecord(cmdWtr', recorded')
<1> DEFINE x == Key(k)
           chunk == WrittenKey(k)
           s == [recorded EXCEPT !.inputs = Append(@, x)]
<1>0. recorded \in Records /\ x \in Inputs /\ x.text[1] = k
  BY KeyTyped DEF FilesOK
<1>1. CASE cmdWtr = NoFile
  BY <1>1 DEF RecordKey
<1>2. CASE cmdWtr # NoFile
  <2>1. cmdWtr' = cmdWtr \o WrittenKey(x.text[1]) /\ recorded' = s
    BY <1>2 DEF RecordKey
  <2>2. PICK more : Encodes(chunk, more) /\ (KeepsItsLine(k) => more = <<x>>)
    BY KeyEncoded
  <2>3. Kind(x) = "key"
    BY KeysAreKeys
  <2> HIDE DEF x, chunk
  <2>4. HoldsRecord(cmdWtr \o chunk, s)
    BY <1>0, <1>2, <2>2, <2>3, RecordGrows
  <2> HIDE DEF s
  <2>5. WrittenKey(x.text[1]) = chunk
    BY <1>0 DEF chunk
  <2> QED BY <2>1, <2>4, <2>5
<1> QED BY <1>1, <1>2

(* The next line of a file that stands for some inputs.                     *)
LEMMA NextOfFile ==
    ASSUME FilesOK, cmdRdr # NoFile, cmdRdr # <<>>,
           NEW rests, NEW given, Replays(rests, given)
    PROVE  LET n == Len(replayed.read) + 1
           IN  /\ n \in 1..Len(given)
               /\ AfterLine(cmdRdr) = rests[n]
               /\ Stands(ReadLine(cmdRdr), given[n])
<1> DEFINE m == Len(replayed.read)
           n == m + 1
<1>1. m \in Nat
  BY DEF FilesOK
<1>2. /\ Follows(rests, given) /\ m <= Len(given) /\ cmdRdr = rests[m]
  BY DEF Replays
<1>3. /\ rests \in [0..Len(given) -> Seq(Byte)] /\ Len(given) \in Nat
      /\ rests[Len(given)] = <<>>
      /\ \A i \in 1..Len(given) : BeginsWith(rests[i - 1], given[i], rests[i])
  BY <1>2 DEF Follows
<1> HIDE DEF m
<1>4. m # Len(given)
  BY <1>2, <1>3
<1>5. n \in 1..Len(given) /\ n - 1 = m /\ n \in 0..Len(given)
  BY <1>1, <1>2, <1>3, <1>4
<1>6. BeginsWith(cmdRdr, given[n], rests[n]) /\ rests[n] \in Seq(Byte)
  BY <1>2, <1>3, <1>5
<1> HIDE DEF n
<1>7. PICK line, e : /\ line \in LineText /\ Ends(e, rests[n])
                     /\ cmdRdr = line \o (e \o rests[n])
                     /\ Stands(line, given[n])
  BY <1>6 DEF BeginsWith
<1>8. ReadLine(cmdRdr) = line /\ AfterLine(cmdRdr) = rests[n]
  BY <1>6, <1>7, LineCut
<1> QED BY <1>5, <1>7, <1>8 DEF n, m

LEMMA FileLineIsLine ==
    ASSUME FilesOK, cmdRdr # NoFile, cmdRdr # <<>>,
           NEW rests, NEW given, Replays(rests, given)
    PROVE  LineIn(ReadLine(cmdRdr)) \in Lines /\ KeyIn(ReadLine(cmdRdr)) \in Byte
BY NextOfFile DEF Stands

(* Reading it, as a line or as a key.                                       *)
LEMMA ReadOneMore ==
    ASSUME FilesOK, cmdRdr # NoFile, cmdRdr # <<>>,
           NEW rests, NEW given, Replays(rests, given),
           NEW x \in {LineIn(ReadLine(cmdRdr)), Key(KeyIn(ReadLine(cmdRdr)))},
           cmdRdr' = AfterLine(cmdRdr),
           replayed' = [replayed EXCEPT !.read = Append(@, x)]
    PROVE  Replays(rests, given)'
<1> DEFINE m == Len(replayed.read)
           n == m + 1
           read == replayed.read
           line == ReadLine(cmdRdr)
<1>1. /\ n \in 1..Len(given) /\ AfterLine(cmdRdr) = rests[n] /\ Stands(line, given[n])
  BY NextOfFile
<1>2. x \in Inputs
  <2>1. LineIn(line) \in Lines /\ KeyIn(line) \in Byte
    BY <1>1 DEF Stands
  <2> QED BY <2>1, LinesAreInputs, KeyTyped
<1>3. /\ replayed'.read = Append(read, x) /\ replayed'.of = replayed.of
      /\ read \in Seq(Inputs)
  <2>1. replayed \in [read : Seq(Inputs), of : Records]
    BY DEF FilesOK
  <2> QED BY <2>1
<1>4. Kind(x) = Kind(given[n]) => x = given[n]
  <2>1. CASE x = LineIn(line)
    <3>1. Kind(x) = "line"
      BY <1>1, <2>1, LinesAreInputs DEF Stands
    <3> QED BY <1>1, <2>1, <3>1 DEF Stands
  <2>2. CASE x = Key(KeyIn(line))
    <3>1. Kind(x) = "key"
      BY <2>2, KeysAreKeys
    <3> QED BY <1>1, <2>2, <3>1 DEF Stands
  <2> QED BY <2>1, <2>2
<1> HIDE DEF line
<1>5. /\ Len(replayed'.read) = n /\ replayed'.read[n] = x
      /\ \A i \in 1..n - 1 : replayed'.read[i] = read[i]
      /\ m \in Nat
  BY <1>2, <1>3
<1> HIDE DEF m, read
<1>6. /\ Follows(rests, given)
      /\ \A i \in 1..m : Kind(read[i]) = Kind(given[i]) => read[i] = given[i]
      /\ replayed.of.whole /\ KeysKeepTheirLine(replayed.of.inputs) =>
            given = replayed.of.inputs
  BY DEF Replays, m, read
<1>7. \A i \in 1..n : Kind(replayed'.read[i]) = Kind(given[i]) => replayed'.read[i] = given[i]
  <2> SUFFICES ASSUME NEW i \in 1..n
               PROVE  Kind(replayed'.read[i]) = Kind(given[i]) => replayed'.read[i] = given[i]
    OBVIOUS
  <2>1. CASE i = n
    BY <1>4, <1>5, <2>1
  <2>2. CASE i # n
    <3>1. i \in 1..m /\ i \in 1..n - 1
      BY <1>5, <2>2
    <3> QED BY <1>5, <1>6, <3>1
  <2> QED BY <2>1, <2>2
<1>8. n <= Len(given)
  BY <1>1
<1>9. cmdRdr' = rests[n]
  BY <1>1
<1> HIDE DEF n
<1> QED BY <1>3, <1>5, <1>6, <1>7, <1>8, <1>9 DEF Replays

LEMMA KeptReplays ==
    ASSUME NEW rests, NEW given, Replays(rests, given),
           replayed' = replayed, cmdRdr' \in {cmdRdr, NoFile}
    PROVE  Replays(rests, given)'
<1>1. rests' = rests /\ given' = given
  OBVIOUS
<1> QED BY <1>1 DEF Replays

LEMMA NextReplayInv == ReplayInv /\ [Next]_vars => ReplayInv'
<1> SUFFICES ASSUME ReplayInv, [Next]_vars
             PROVE  /\ cmdWtr' # NoFile => HoldsRecord(cmdWtr', recorded')
                    /\ tape'.content # NoFile => HoldsRecord(tape'.content, tape'.record)
                    /\ \E rests, given : Replays(rests, given)'
  BY NextInputInv DEF ReplayInv
<1> DEFINE Writer == cmdWtr # NoFile => HoldsRecord(cmdWtr, recorded)
           Writer_ == cmdWtr' # NoFile => HoldsRecord(cmdWtr', recorded')
           Tape_ == tape'.content # NoFile => HoldsRecord(tape'.content, tape'.record)
           Reader_ == \E rests, given : Replays(rests, given)'
<1>0. /\ Writer /\ FilesOK /\ program \in Programs
      /\ tape.content # NoFile => HoldsRecord(tape.content, tape.record)
  BY DEF ReplayInv, InputInv, BuffersOK
<1>r. PICK rests, given : Replays(rests, given)
  BY DEF ReplayInv
<1>a. ASSUME UNCHANGED <<cmdWtr, recorded>> PROVE Writer_
  BY <1>0, <1>a
<1>b. ASSUME UNCHANGED tape PROVE Tape_
  BY <1>0, <1>b
<1>c. ASSUME UNCHANGED replayed, cmdRdr' \in {cmdRdr, NoFile} PROVE Reader_
  BY <1>r, <1>c, KeptReplays
<1> HIDE DEF Writer, Writer_, Tape_, Reader_
<1>1. CASE UNCHANGED files
  <2>1. Writer_ /\ Tape_ /\ Reader_
    BY <1>1, <1>a, <1>b, <1>c DEF files
  <2> QED BY <2>1 DEF Writer_, Tape_, Reader_
<1>2. CASE SelectKeyboard
  <2>1. Writer_ /\ Tape_ /\ Reader_
    BY <1>2, <1>a, <1>b, <1>c DEF SelectKeyboard
  <2> QED BY <2>1 DEF Writer_, Tape_, Reader_
<1>3. CASE SelectFile
  <2>1. /\ tape.content # NoFile /\ cmdRdr' = tape.content
        /\ replayed' = [read |-> <<>>, of |-> tape.record]
        /\ UNCHANGED <<cmdWtr, recorded>> /\ UNCHANGED tape
    BY <1>3 DEF SelectFile
  <2>2. PICK g : /\ Encodes(tape.content, g)
                 /\ tape.record.whole /\ KeysKeepTheirLine(tape.record.inputs)
                       => g = tape.record.inputs
    BY <1>0, <2>1 DEF HoldsRecord
  <2>3. PICK r : Follows(r, g) /\ r[0] = tape.content
    BY <2>2 DEF Encodes
  <2>4. replayed'.read = <<>> /\ replayed'.of = tape.record
    BY <2>1
  <2>5. Len(replayed'.read) = 0 /\ 0 <= Len(g)
    <3>1. g \in Seq(Inputs)
      BY <2>3 DEF Follows
    <3> QED BY <2>4, <3>1
  <2>6. \A n \in 1..Len(replayed'.read) : FALSE
    BY <2>5
  <2>7. Replays(r, g)'
    BY <2>1, <2>2, <2>3, <2>4, <2>5, <2>6 DEF Replays
  <2>8. Writer_ /\ Tape_ /\ Reader_
    BY <2>1, <2>7, <1>a, <1>b DEF Reader_
  <2> QED BY <2>8 DEF Writer_, Tape_, Reader_
<1>4. ASSUME NEW enabled \in BOOLEAN, SetRecording(enabled)
      PROVE  Writer_ /\ Tape_ /\ Reader_
  <2>1. UNCHANGED <<cmdRdr, replayed>>
    BY <1>4 DEF SetRecording
  <2>2. Reader_
    BY <2>1, <1>c
  <2>3. CASE writing
    <3>1. UNCHANGED <<cmdWtr, recorded>> /\ UNCHANGED tape
      BY <1>4, <2>3 DEF SetRecording
    <3> QED BY <2>2, <3>1, <1>a, <1>b
  <2>4. CASE ~writing
    <3>1. /\ tape' = Completed
          /\ cmdWtr' = IF enabled THEN <<>> ELSE NoFile
          /\ recorded' = NoRecord
      BY <1>4, <2>4 DEF SetRecording
    <3>2. Writer_
      <4>1. HoldsRecord(<<>>, NoRecord)
        <5>1. NoRecord.inputs = <<>>
          BY DEF NoRecord
        <5> QED BY <5>1, NothingEncoded DEF HoldsRecord
      <4> QED BY <3>1, <4>1 DEF Writer_
    <3>3. Tape_
      <4>1. CASE cmdWtr = NoFile
        <5>1. UNCHANGED tape
          BY <3>1, <4>1 DEF Completed
        <5> QED BY <5>1, <1>b
      <4>2. CASE cmdWtr # NoFile
        <5>1. tape'.content = cmdWtr /\ tape'.record = recorded
          BY <3>1, <4>2 DEF Completed
        <5> QED BY <1>0, <4>2, <5>1 DEF Tape_, Writer
      <4> QED BY <4>1, <4>2
    <3> QED BY <2>2, <3>2, <3>3
  <2> QED BY <2>3, <2>4
<1>5. CASE WriteEnds
  <2>1. Writer_ /\ Tape_ /\ Reader_
    BY <1>5, <1>a, <1>b, <1>c DEF WriteEnds
  <2> QED BY <2>1 DEF Writer_, Tape_, Reader_
<1>6. CASE ReadLineFromFile
  <2> DEFINE line == LineIn(ReadLine(cmdRdr))
  <2>1. /\ cmdRdr # NoFile /\ cmdRdr # <<>>
        /\ RecordLine(line)
        /\ replayed' = [replayed EXCEPT !.read = Append(@, line)]
        /\ cmdRdr' = AfterLine(cmdRdr)
        /\ UNCHANGED tape
    BY <1>6 DEF ReadLineFromFile, AtEnd
  <2>2. line \in Lines
    BY <1>0, <1>r, <2>1, FileLineIsLine
  <2>3. Replays(rests, given)'
    BY <1>0, <1>r, <2>1, ReadOneMore
  <2>4. Reader_
    BY <2>3 DEF Reader_
  <2> HIDE DEF line
  <2>5. Writer_
    BY <1>0, <2>1, <2>2, LineHeld DEF Writer, Writer_
  <2>6. Tape_
    BY <2>1, <1>b
  <2> QED BY <2>4, <2>5, <2>6 DEF Writer_, Tape_, Reader_
<1>7. CASE ReadKeyFromFile
  <2> DEFINE k == KeyIn(ReadLine(cmdRdr))
             key == Key(k)
  <2>1. /\ cmdRdr # NoFile /\ cmdRdr # <<>>
        /\ IF writing THEN UNCHANGED <<cmdWtr, recorded>> ELSE RecordKey(key)
        /\ replayed' = [replayed EXCEPT !.read = Append(@, key)]
        /\ cmdRdr' = AfterLine(cmdRdr)
        /\ UNCHANGED tape
    BY <1>7 DEF ReadKeyFromFile, AtEnd
  <2>2. k \in Byte
    BY <1>0, <1>r, <2>1, FileLineIsLine
  <2>3. Replays(rests, given)'
    BY <1>0, <1>r, <2>1, ReadOneMore
  <2>4. Reader_
    BY <2>3 DEF Reader_
  <2> HIDE DEF k
  <2>5. Writer_
    <3>1. CASE writing
      BY <2>1, <3>1, <1>a
    <3>2. CASE ~writing
      BY <1>0, <2>1, <2>2, <3>2, KeyHeld DEF Writer, Writer_
    <3> QED BY <3>1, <3>2
  <2>6. Tape_
    BY <2>1, <1>b
  <2> QED BY <2>4, <2>5, <2>6 DEF Writer_, Tape_, Reader_
<1>8. ASSUME NEW kind \in {"line", "key"}, NEW timed \in BOOLEAN, AskPlayer(kind, timed)
      PROVE  Writer_ /\ Tape_ /\ Reader_
  BY <1>8, <1>a, <1>b, <1>c DEF AskPlayer
<1>9. ASSUME NEW line \in program.lines, FinishLine(line)
      PROVE  Writer_ /\ Tape_ /\ Reader_
  <2>1. RecordLine(line) /\ UNCHANGED tape /\ UNCHANGED <<cmdRdr, replayed>>
    BY <1>9 DEF FinishLine
  <2>2. line \in Lines
    BY <1>0, ProgramsAre
  <2>3. Writer_
    BY <1>0, <2>1, <2>2, LineHeld DEF Writer, Writer_
  <2> QED BY <2>1, <2>3, <1>b, <1>c
<1>10. ASSUME NEW key \in program.keys, FinishKey(Key(key))
       PROVE  Writer_ /\ Tape_ /\ Reader_
  <2>1. /\ IF cmdWtr # NoFile /\ writing THEN UNCHANGED <<cmdWtr, recorded>>
           ELSE RecordKey(Key(key))
        /\ UNCHANGED tape /\ UNCHANGED <<cmdRdr, replayed>>
    BY <1>10 DEF FinishKey
  <2>2. key \in Byte
    BY <1>0, TypedKey
  <2>3. Writer_
    <3>1. CASE cmdWtr # NoFile /\ writing
      BY <2>1, <3>1, <1>a
    <3>2. CASE ~(cmdWtr # NoFile /\ writing)
      BY <1>0, <2>1, <2>2, <3>2, KeyHeld DEF Writer, Writer_
    <3> QED BY <3>1, <3>2
  <2> QED BY <2>1, <2>3, <1>b, <1>c
<1>11. ASSUME NEW dictionary \in Dictionaries, NEW skip \in BOOLEAN,
              TokeniseInstruction(dictionary, skip)
       PROVE  UNCHANGED files
  BY <1>11 DEF TokeniseInstruction
<1>12. ASSUME NEW i \in DOMAIN reads,
              \/ \E outcome \in {"answered", "broken"} : PlayerAnswers(i, outcome)
              \/ TimerExpires(i)
       PROVE  UNCHANGED files
  BY <1>12 DEF PlayerAnswers, TimerExpires
<1>13. CASE StartRoutine \/ RoutineReturns \/ BreakIn \/ Paused \/ Resumes
  <2>1. UNCHANGED files
    BY <1>13 DEF StartRoutine, RoutineReturns, BreakIn, Paused, Resumes, Breaks
  <2> QED BY <1>1, <2>1
<1>14. CASE UNCHANGED vars
  BY <1>1, <1>14 DEF vars
<1>15. Writer_ /\ Tape_ /\ Reader_ =>
                    /\ cmdWtr' # NoFile => HoldsRecord(cmdWtr', recorded')
                    /\ tape'.content # NoFile => HoldsRecord(tape'.content, tape'.record)
                    /\ \E rests_, given_ : Replays(rests_, given_)'
  BY DEF Writer_, Tape_, Reader_
<1> QED BY <1>1, <1>2, <1>3, <1>4, <1>5, <1>6, <1>7, <1>8, <1>9, <1>10, <1>11, <1>12,
           <1>13, <1>14, <1>15 DEF Next

LEMMA InitReplayInv == Init => ReplayInv
<1> SUFFICES ASSUME Init PROVE ReplayInv
  OBVIOUS
<1>1. /\ cmdWtr = NoFile /\ cmdRdr = NoFile
      /\ tape = [content |-> NoFile, record |-> NoRecord]
      /\ replayed = [read |-> <<>>, of |-> NoRecord]
  BY DEF Init
<1>2. PICK rests : Follows(rests, <<>>) /\ rests[0] = <<>>
  BY NothingEncoded DEF Encodes
<1>3. replayed.read = <<>> /\ replayed.of.inputs = <<>>
  BY <1>1 DEF NoRecord
<1>4. Len(replayed.read) = 0 /\ Len(<<>>) = 0
  BY <1>3
<1>5. \A n \in 1..Len(replayed.read) : FALSE
  BY <1>4
<1>6. Replays(rests, <<>>)
  BY <1>1, <1>2, <1>3, <1>4, <1>5 DEF Replays
<1>7. tape.content = NoFile
  BY <1>1
<1> QED BY <1>1, <1>6, <1>7, InitInputInv DEF ReplayInv

(* Under the invariant, what was read is what had been recorded.            *)
LEMMA ReplayedIsRecorded ==
    ReplayInv => (KeysKeepTheirLine(replayed.of.inputs) => ReplayGivesTheSameInputs)
<1> SUFFICES ASSUME ReplayInv, KeysKeepTheirLine(replayed.of.inputs), replayed.of.whole,
                    \A n \in 1..Smaller(Len(replayed.read), Len(replayed.of.inputs)) :
                        Kind(replayed.read[n]) = Kind(replayed.of.inputs[n])
             PROVE  /\ IsPrefix(replayed.read, replayed.of.inputs)
                    /\ cmdRdr = <<>> => replayed.read = replayed.of.inputs
  BY DEF ReplayGivesTheSameInputs
<1> DEFINE read == replayed.read
           of == replayed.of.inputs
           m == Len(read)
           k == Len(of)
<1>1. PICK rests, given : Replays(rests, given)
  BY DEF ReplayInv
<1>2. read \in Seq(Inputs) /\ m \in Nat
  BY DEF ReplayInv, InputInv, FilesOK
<1>3. /\ given = of
      /\ m <= Len(given)
      /\ cmdRdr # NoFile => cmdRdr = rests[m]
      /\ \A n \in 1..m : Kind(read[n]) = Kind(given[n]) => read[n] = given[n]
      /\ Follows(rests, given)
  BY <1>1 DEF Replays
<1>4. /\ of \in Seq(Inputs) /\ k \in Nat /\ m <= k
      /\ rests[k] = <<>>
      /\ \A n \in 1..k : BeginsWith(rests[n - 1], of[n], rests[n])
      /\ \A n \in 0..k : rests[n] \in Seq(Byte)
  BY <1>3 DEF Follows
<1>5. \A n \in 1..m : read[n] = of[n]
  <2>1. Smaller(m, k) = m
    BY <1>2, <1>4 DEF Smaller
  <2>2. \A n \in 1..m : Kind(read[n]) = Kind(of[n])
    BY <2>1
  <2> QED BY <1>3, <2>2
<1> HIDE DEF read, of, m, k
<1>6. IsPrefix(read, of)
  <2> DEFINE a == SubSeq(read, 1, m)
             b == SubSeq(of, 1, m)
  <2>1. a \in Seq(Inputs) /\ Len(a) = m /\ \A n \in 1..m : a[n] = read[n]
    BY <1>2 DEF m
  <2>2. b \in Seq(Inputs) /\ Len(b) = m /\ \A n \in 1..m : b[n] = of[n]
    BY <1>2, <1>4 DEF k
  <2> HIDE DEF a, b
  <2>3. a = b
    BY <1>5, <2>1, <2>2, SeqEqual
  <2> QED BY <1>4, <2>3 DEF IsPrefix, a, b, m, k
<1>7. ASSUME cmdRdr = <<>> PROVE read = of
  <2>1. cmdRdr # NoFile
    <3>1. <<>> \in Seq(Byte)
      OBVIOUS
    <3> QED BY <1>7, <3>1, NoFileIsNoText
  <2>2. rests[m] = <<>>
    BY <1>3, <1>7, <2>1
  <2>3. m = k
    <3> SUFFICES ASSUME m # k PROVE FALSE
      OBVIOUS
    <3>1. m + 1 \in 1..k /\ (m + 1) - 1 = m /\ m + 1 \in 0..k
      BY <1>2, <1>4
    <3>2. BeginsWith(rests[m], of[m + 1], rests[m + 1]) /\ rests[m + 1] \in Seq(Byte)
      BY <1>4, <3>1
    <3>3. PICK line, e : /\ line \in LineText /\ Ends(e, rests[m + 1])
                         /\ rests[m] = line \o (e \o rests[m + 1])
      BY <3>2 DEF BeginsWith
    <3>4. rests[m] # <<>>
      BY <3>2, <3>3, LineCut
    <3> QED BY <2>2, <3>4
  <2> QED BY <1>2, <1>4, <1>5, <2>3, SeqEqual DEF m, k
<1> QED BY <1>6, <1>7 DEF read, of

(* A program that replays a recorded session and asks for the same kinds of *)
(* input gets the same input, each once and in order, whatever the lines and*)
(* the keys look like; the exceptions are a write that was dropped and a key*)
(* that is read back as more than one line (Input.cs).                      *)
THEOREM ReplayIsFaithful ==
    Spec => [](KeysKeepTheirLine(replayed.of.inputs) => ReplayGivesTheSameInputs)
BY InitReplayInv, NextReplayInv, ReplayedIsRecorded, PTL DEF Spec

-----------------------------------------------------------------------------
(* EncodeText: filling a word and cutting it is cutting all that there is   *)

Numbers == Seq(Int)
Word == [1..DictWordSize -> Int]

LEMMA IndexIsNumber ==
    ASSUME NEW alphabet \in Seq(Nat), NEW c
    PROVE  IndexIn(alphabet, c) \in Int
<1> DEFINE I == {i \in 1..Len(alphabet) : alphabet[i] = c}
           first == SelectInSeq(alphabet, LAMBDA d : d = c)
<1>1. first = IF I # {} THEN Min(I) ELSE 0
  BY Zenon DEF SelectInSeq
<1>2. I \subseteq 1..Len(alphabet) /\ Len(alphabet) \in Nat
  OBVIOUS
<1>3. IndexIn(alphabet, c) = first - 1
  BY Zenon DEF IndexIn
<1> HIDE DEF first, I
<1>4. first \in 0..Len(alphabet)
  BY <1>1, <1>2, FirstOrNone
<1>5. first - 1 \in Int
  BY <1>2, <1>4
<1> QED BY <1>3, <1>5

LEMMA ZCharsAreNumbers ==
    ASSUME NEW c \in Nat
    PROVE  ZChars(c) \in Numbers
<1>1. IndexIn(Alphabet0, c) \in Int /\ IndexIn(Alphabet2, c) \in Int
  BY AlphabetAssumption, IndexIsNumber
<1>2. c \div 32 \in Int /\ c % 32 \in Int
  OBVIOUS
<1>3. \A a, b \in Int : <<a>> \in Numbers /\ <<a, b>> \in Numbers
  BY DEF Numbers
<1>4. \A a, b \in Int : <<5, 6, a, b>> \in Numbers
  BY DEF Numbers
<1>5. /\ 0 \in Int /\ 5 \in Int
      /\ IndexIn(Alphabet0, c) + 6 \in Int
      /\ IndexIn(Alphabet2, c) + 6 \in Int
  BY <1>1
<1>6. /\ <<0>> \in Numbers
      /\ <<IndexIn(Alphabet0, c) + 6>> \in Numbers
      /\ <<5, IndexIn(Alphabet2, c) + 6>> \in Numbers
      /\ <<5, 6, c \div 32, c % 32>> \in Numbers
  BY <1>2, <1>3, <1>4, <1>5, Zenon
<1> QED BY <1>6, Zenon DEF ZChars

(* All of the sequences of z, one after the other. *)
Joins(z) == [i \in 1..Len(z) |-> [v \in Numbers |-> v \o z[i]]]

(* Those of them that begin before the word is full. *)
Fills(z) == [i \in 1..Len(z) |->
                [v \in Numbers |-> IF Len(v) < DictWordSize THEN v \o z[i] ELSE v]]

LEMMA JoinedAreNumbers ==
    ASSUME NEW v \in Numbers, NEW w \in Numbers
    PROVE  /\ v \o w \in Numbers
           /\ Len(v) \in Nat /\ Len(w) \in Nat
           /\ Len(v \o w) = Len(v) + Len(w)
           /\ \A j \in 1..Len(v) : (v \o w)[j] = v[j]
BY DEF Numbers

LEMMA JoinsAndFills ==
    ASSUME NEW z \in Seq(Numbers)
    PROVE  /\ Joins(z) \in [1..Len(z) -> [Numbers -> Numbers]]
           /\ Fills(z) \in [1..Len(z) -> [Numbers -> Numbers]]
           /\ Len(z) \in Nat /\ <<>> \in Numbers
           /\ \A i \in 1..Len(z) : z[i] \in Numbers
<1> DEFINE V == Numbers
<1>1. Len(z) \in Nat /\ \A i \in 1..Len(z) : z[i] \in V
  <2> HIDE DEF V
  <2>1. z \in Seq(V)
    BY DEF V
  <2> QED BY <2>1
<1>2. \A i \in 1..Len(z) : \A v \in V : v \o z[i] \in V
  BY <1>1, JoinedAreNumbers
<1>3. <<>> \in V
  BY DEF Numbers
<1> HIDE DEF V
<1>4. [i \in 1..Len(z) |-> [v \in V |-> v \o z[i]]] \in [1..Len(z) -> [V -> V]]
  BY <1>2
<1>5. [i \in 1..Len(z) |-> [v \in V |-> IF Len(v) < DictWordSize THEN v \o z[i] ELSE v]]
          \in [1..Len(z) -> [V -> V]]
  BY <1>2
<1> QED BY <1>1, <1>3, <1>4, <1>5, Zenon DEF V, Joins, Fills

LEMMA FlattenJoins ==
    ASSUME NEW z \in Seq(Numbers), Len(z) # 0,
           NEW f, Iterates(f, Len(z), Numbers, <<>>, Joins(z))
    PROVE  FlattenSeq(z) = f[Len(z)]
<1> DEFINE n == Len(z)
           flatten[i \in 1..Len(z)] ==
              IF i = 1 THEN z[i] ELSE flatten[i - 1] \o z[i]
           g == [i \in 1..Len(z) |-> f[i]]
<1>0. n \in Nat /\ n # 0 /\ <<>> \in Numbers /\ \A i \in 1..n : z[i] \in Numbers
  BY JoinsAndFills
<1>1. /\ f \in [0..n -> Numbers] /\ f[0] = <<>>
      /\ \A i \in 1..n : f[i] = Joins(z)[i][f[i - 1]]
  BY DEF Iterates
<1>2. ASSUME NEW i \in 1..n
      PROVE  f[i - 1] \in Numbers /\ f[i] = f[i - 1] \o z[i]
  <2>1. i - 1 \in 0..n
    BY <1>0
  <2>2. f[i - 1] \in Numbers
    BY <1>1, <2>1
  <2> QED BY <1>1, <2>2 DEF Joins
<1>3. f[1] = z[1]
  <2>1. 1 \in 1..n /\ 1 - 1 = 0
    BY <1>0
  <2>2. f[1] = <<>> \o z[1] /\ z[1] \in Numbers
    BY <1>0, <1>1, <1>2, <2>1
  <2>3. \A w \in Numbers : <<>> \o w = w
    BY DEF Numbers
  <2> QED BY <2>2, <2>3
<1>4. ASSUME NEW i \in 1..n
      PROVE  g[i] = IF i = 1 THEN z[i] ELSE g[i - 1] \o z[i]
  <2>1. i # 1 => i - 1 \in 1..n
    BY <1>0
  <2> QED BY <1>2, <1>3, <2>1
<1>5. g = [i \in 1..Len(z) |-> IF i = 1 THEN z[i] ELSE g[i - 1] \o z[i]]
  <2>1. g = [i \in 1..Len(z) |-> g[i]]
    OBVIOUS
  <2> HIDE DEF g
  <2> QED BY <1>4, <2>1
<1>6. flatten = [i \in 1..Len(z) |-> IF i = 1 THEN z[i] ELSE flatten[i - 1] \o z[i]]
  BY <1>5, Zenon
<1> HIDE DEF flatten, g
<1>7. \A i \in 0..n : i = 0 \/ flatten[i] = f[i]
  <2> DEFINE S == {i \in 0..n : i = 0 \/ flatten[i] = f[i]}
  <2>1. 0 \in S
    BY <1>0
  <2>2. ASSUME NEW i \in 1..n, i - 1 \in S PROVE i \in S
    <3>1. flatten[i] = IF i = 1 THEN z[i] ELSE flatten[i - 1] \o z[i]
      BY <1>6
    <3>2. flatten[i] = f[i]
      <4>1. CASE i = 1
        BY <1>3, <3>1, <4>1
      <4>2. CASE i # 1
        <5>1. i - 1 # 0
          BY <4>2
        <5>2. flatten[i - 1] = f[i - 1]
          BY <2>2, <5>1
        <5> QED BY <1>2, <3>1, <4>2, <5>2
      <4> QED BY <4>1, <4>2
    <3>3. i \in 0..n
      BY <1>0
    <3> QED BY <3>2, <3>3
  <2> HIDE DEF S
  <2>3. \A i \in 0..n : i \in S
    BY <1>0, <2>1, <2>2, InductionUpTo
  <2> QED BY <2>3 DEF S
<1>8. FlattenSeq(z) = flatten[n]
  BY <1>0, Zenon DEF FlattenSeq, flatten
<1>9. flatten[n] = f[n]
  BY <1>0, <1>7
<1> QED BY <1>8, <1>9

LEMMA EncodeFills ==
    ASSUME NEW text0 \in Seq(Nat),
           NEW z, z = [i \in DOMAIN text0 |-> ZChars(text0[i])],
           NEW f, Iterates(f, Len(z), Numbers, <<>>, Fills(z))
    PROVE  EncodeText(text0) = SubSeq(f[Len(z)] \o Padding, 1, DictWordSize)
<1> DEFINE n == Len(text0)
           taken[i \in 0..Len(text0)] ==
              IF i = 0 THEN <<>>
              ELSE IF Len(taken[i - 1]) < DictWordSize
              THEN taken[i - 1] \o ZChars(text0[i]) ELSE taken[i - 1]
<1>0. n \in Nat /\ DOMAIN text0 = 1..n /\ Len(z) = n /\ \A i \in 1..n : z[i] = ZChars(text0[i])
  OBVIOUS
<1>1. /\ f \in [0..n -> Numbers] /\ f[0] = <<>>
      /\ \A i \in 1..n : f[i] = Fills(z)[i][f[i - 1]]
  BY <1>0 DEF Iterates
<1>2. ASSUME NEW i \in 1..n
      PROVE  f[i] = IF Len(f[i - 1]) < DictWordSize
                    THEN f[i - 1] \o ZChars(text0[i]) ELSE f[i - 1]
  <2>1. i - 1 \in 0..n
    BY <1>0
  <2>2. f[i - 1] \in Numbers
    BY <1>1, <2>1
  <2> HIDE DEF n
  <2> QED BY <1>0, <1>1, <2>2 DEF Fills
<1>3. f = [i \in 0..Len(text0) |->
              IF i = 0 THEN <<>>
              ELSE IF Len(f[i - 1]) < DictWordSize
              THEN f[i - 1] \o ZChars(text0[i]) ELSE f[i - 1]]
  <2>1. f = [i \in 0..Len(text0) |-> f[i]]
    BY <1>1
  <2>2. \A i \in 0..n : i = 0 \/ i \in 1..n
    BY <1>0
  <2> QED BY <1>1, <1>2, <2>1, <2>2
<1>4. taken = [i \in 0..Len(text0) |->
              IF i = 0 THEN <<>>
              ELSE IF Len(taken[i - 1]) < DictWordSize
              THEN taken[i - 1] \o ZChars(text0[i]) ELSE taken[i - 1]]
  BY <1>3, Zenon
<1> HIDE DEF taken
<1>5. taken[n] = f[n]
  <2>1. \A i \in 0..n : i = 0 \/ i \in 1..n
    BY <1>0
  <2>2. 0 \in 0..n /\ \A i \in 1..n : i \in 0..n /\ i # 0
    BY <1>0
  <2>3. taken[0] = f[0]
    BY <1>1, <1>4, <2>2
  <2>4. ASSUME NEW i \in 1..n, taken[i - 1] = f[i - 1] PROVE taken[i] = f[i]
    <3>1. taken[i] = IF Len(taken[i - 1]) < DictWordSize
                     THEN taken[i - 1] \o ZChars(text0[i]) ELSE taken[i - 1]
      BY <1>4, <2>2, Zenon
    <3> QED BY <1>2, <2>4, <3>1
  <2>5. StepAlike(taken, f, n)
    BY <1>0, <2>3, <2>4 DEF StepAlike
  <2>6. n \in 0..n
    BY <1>0
  <2> HIDE DEF n
  <2> QED BY <2>5, <2>6, SameRecursion
<1>6. EncodeText(text0) = SubSeq(taken[n] \o Padding, 1, DictWordSize)
  BY Zenon DEF EncodeText, taken
<1> QED BY <1>0, <1>5, <1>6

(* The same as far as a word goes. *)
SameBeginning(v, w) ==
    \/ v = w
    \/ /\ Len(v) >= DictWordSize /\ Len(w) >= DictWordSize
       /\ \A j \in 1..DictWordSize : v[j] = w[j]

LEMMA FillsBeginning ==
    ASSUME NEW z \in Seq(Numbers),
           NEW f, Iterates(f, Len(z), Numbers, <<>>, Joins(z)),
           NEW g, Iterates(g, Len(z), Numbers, <<>>, Fills(z))
    PROVE  SameBeginning(f[Len(z)], g[Len(z)])
<1> DEFINE n == Len(z)
           S == {i \in 0..n : SameBeginning(f[i], g[i])}
           L == DictWordSize
<1>0. n \in Nat /\ L \in Nat /\ \A i \in 1..n : z[i] \in Numbers
  BY JoinsAndFills, SizeAssumption
<1>1. /\ f \in [0..n -> Numbers] /\ f[0] = <<>>
      /\ g \in [0..n -> Numbers] /\ g[0] = <<>>
      /\ \A i \in 1..n : f[i] = Joins(z)[i][f[i - 1]]
      /\ \A i \in 1..n : g[i] = Fills(z)[i][g[i - 1]]
  BY DEF Iterates
<1>2. 0 \in S
  BY <1>0, <1>1 DEF SameBeginning
<1>3. ASSUME NEW i \in 1..n, i - 1 \in S PROVE i \in S
  <2> DEFINE v == f[i - 1]
             w == g[i - 1]
  <2>0. i - 1 \in 0..n /\ i \in 0..n /\ z[i] \in Numbers
    BY <1>0
  <2>1. /\ i - 1 \in 0..n /\ i \in 0..n /\ z[i] \in Numbers
        /\ v \in Numbers /\ w \in Numbers
    <3> HIDE DEF n
    <3> QED BY <1>1, <2>0
  <2>2. /\ f[i] = v \o z[i]
        /\ g[i] = IF Len(w) < L THEN w \o z[i] ELSE w
    BY <1>1, <2>1 DEF Joins, Fills
  <2>3. SameBeginning(v, w)
    BY <1>3
  <2> HIDE DEF v, w
  <2>4. /\ Len(v) \in Nat /\ Len(w) \in Nat /\ Len(z[i]) \in Nat
        /\ Len(v \o z[i]) = Len(v) + Len(z[i])
        /\ \A j \in 1..Len(v) : (v \o z[i])[j] = v[j]
    BY <2>1, JoinedAreNumbers
  <2> DEFINE u == v \o z[i]
  <2>5. f[i] = u /\ Len(u) >= Len(v) /\ \A j \in 1..Len(v) : u[j] = v[j]
    BY <2>2, <2>4
  <2>6. CASE Len(w) < L
    <3>1. v = w
      BY <1>0, <2>3, <2>4, <2>6 DEF SameBeginning
    <3> QED BY <2>1, <2>2, <2>6, <3>1 DEF SameBeginning
  <2>7. CASE ~(Len(w) < L)
    <3> HIDE DEF u
    <3>1. g[i] = w /\ Len(w) >= L
      BY <1>0, <2>2, <2>4, <2>7
    <3>2. Len(v) >= L /\ \A j \in 1..L : v[j] = w[j]
      BY <2>3, <3>1 DEF SameBeginning
    <3>3. Len(u) \in Nat
      BY <2>4 DEF u
    <3>4. Len(u) >= L /\ \A j \in 1..L : u[j] = w[j]
      BY <1>0, <2>4, <2>5, <3>2, <3>3
    <3> QED BY <2>1, <2>5, <3>1, <3>4 DEF SameBeginning
  <2> QED BY <2>6, <2>7
<1> HIDE DEF S
<1>4. \A i \in 0..n : i \in S
  BY <1>0, <1>2, <1>3, InductionUpTo
<1>5. n \in S
  BY <1>0, <1>4
<1> QED BY <1>5 DEF S

LEMMA WordIsCut ==
    ASSUME NEW v \in Numbers
    PROVE  LET c == SubSeq(v \o Padding, 1, DictWordSize)
           IN  /\ c \in Word
               /\ \A j \in 1..DictWordSize : j <= Len(v) => c[j] = v[j]
<1> DEFINE L == DictWordSize
           p == Padding
           u == v \o p
<1>0. L \in Nat
  BY SizeAssumption
<1>1. p \in Numbers /\ Len(p) = L
  BY <1>0 DEF Padding, Numbers
<1> HIDE DEF p
<1>2. /\ u \in Numbers /\ Len(v) \in Nat /\ Len(u) = Len(v) + L
      /\ \A j \in 1..Len(v) : u[j] = v[j]
  BY <1>1, JoinedAreNumbers
<1> HIDE DEF u
<1>3. SubSeq(u, 1, L) \in Numbers /\ Len(SubSeq(u, 1, L)) = L
      /\ \A j \in 1..L : SubSeq(u, 1, L)[j] = u[j]
  BY <1>0, <1>2 DEF Numbers
<1>4. SubSeq(u, 1, L) \in [1..L -> Int]
  <2> DEFINE c == SubSeq(u, 1, L)
  <2>1. c \in Seq(Int) /\ Len(c) = L
    BY <1>3 DEF Numbers
  <2> HIDE DEF c
  <2>2. c \in [1..L -> Int]
    BY <2>1
  <2> QED BY <2>2 DEF c
<1>5. \A j \in 1..L : j <= Len(v) => SubSeq(u, 1, L)[j] = v[j]
  BY <1>0, <1>2, <1>3
<1> QED BY <1>4, <1>5 DEF u, p, Word

LEMMA SameBeginningSameWord ==
    ASSUME NEW v \in Numbers, NEW w \in Numbers, SameBeginning(v, w)
    PROVE  SubSeq(v \o Padding, 1, DictWordSize) = SubSeq(w \o Padding, 1, DictWordSize)
<1> DEFINE c == SubSeq(v \o Padding, 1, DictWordSize)
           d == SubSeq(w \o Padding, 1, DictWordSize)
           L == DictWordSize
<1>1. CASE v = w
  BY <1>1
<1>2. CASE Len(v) >= L /\ Len(w) >= L /\ \A j \in 1..L : v[j] = w[j]
  <2>0. L \in Nat /\ Len(v) \in Nat /\ Len(w) \in Nat
    BY SizeAssumption DEF Numbers
  <2>1. /\ c \in Word /\ d \in Word
        /\ \A j \in 1..L : j <= Len(v) => c[j] = v[j]
        /\ \A j \in 1..L : j <= Len(w) => d[j] = w[j]
    BY WordIsCut
  <2> HIDE DEF c, d
  <2>2. \A j \in 1..L : c[j] = d[j]
    BY <1>2, <2>0, <2>1
  <2>3. c = [j \in 1..L |-> c[j]] /\ d = [j \in 1..L |-> d[j]]
    BY <2>1 DEF Word
  <2>4. c = d
    BY <2>2, <2>3
  <2> QED BY <2>4 DEF c, d
<1> QED BY <1>1, <1>2 DEF SameBeginning

(* A word's entry is that of its first Z-characters. *)
LEMMA EncodedIsSameWord ==
    ASSUME NEW letters \in Seq(Nat), letters # <<>>
    PROVE  /\ EncodeText(letters) \in Word
           /\ \A entry : SameWord(letters, entry) <=> entry = EncodeText(letters)
<1> DEFINE z == [i \in DOMAIN letters |-> ZChars(letters[i])]
           m == Len(z)
<1>1. /\ z \in Seq(Numbers) /\ Len(z) # 0
  <2>1. \A i \in DOMAIN letters : letters[i] \in Nat
    OBVIOUS
  <2>2. \A i \in DOMAIN letters : ZChars(letters[i]) \in Numbers
    BY <2>1, ZCharsAreNumbers
  <2>3. Len(letters) \in Nat /\ DOMAIN letters = 1..Len(letters) /\ Len(letters) # 0
    OBVIOUS
  <2>4. z \in [1..Len(letters) -> Numbers]
    BY <2>2, <2>3
  <2> HIDE DEF z
  <2> QED BY <2>3, <2>4
<1>2. z = [i \in DOMAIN letters |-> ZChars(letters[i])]
  OBVIOUS
<1> HIDE DEF z
<1>3. /\ m \in Nat /\ <<>> \in Numbers
      /\ Joins(z) \in [1..m -> [Numbers -> Numbers]]
      /\ Fills(z) \in [1..m -> [Numbers -> Numbers]]
  BY <1>1, JoinsAndFills
<1>4. PICK f : Iterates(f, m, Numbers, <<>>, Joins(z))
  BY <1>3, RecursionExists
<1>5. PICK g : Iterates(g, m, Numbers, <<>>, Fills(z))
  BY <1>3, RecursionExists
<1>6. f[m] \in Numbers /\ g[m] \in Numbers
  BY <1>3, <1>4, <1>5 DEF Iterates
<1>7. SameBeginning(f[m], g[m])
  BY <1>1, <1>4, <1>5, FillsBeginning
<1>8. FlattenSeq(z) = f[m]
  BY <1>1, <1>4, FlattenJoins
<1>9. EncodeText(letters) = SubSeq(g[m] \o Padding, 1, DictWordSize)
  BY <1>2, <1>5, EncodeFills
<1>10. EncodeText(letters) = SubSeq(FlattenSeq(z) \o Padding, 1, DictWordSize)
  BY <1>6, <1>7, <1>8, <1>9, SameBeginningSameWord
<1>11. EncodeText(letters) \in Word
  BY <1>6, <1>9, WordIsCut
<1>12. \A entry : SameWord(letters, entry) <=>
                  entry = SubSeq(FlattenSeq(z) \o Padding, 1, DictWordSize)
  BY <1>2, Zenon DEF SameWord
<1> QED BY <1>10, <1>11, <1>12

-----------------------------------------------------------------------------
(* LookUpWord: the binary search finds the word if it is there              *)

(* No entry comes before an earlier one. *)
InOrder(words) ==
    /\ words \in Seq(Word)
    /\ \A i, j \in 1..Len(words) : i < j => ~Precedes(words[j], words[i])

LEMMA OneComesFirst ==
    ASSUME NEW v \in Word, NEW w \in Word, v # w
    PROVE  Precedes(v, w) \/ Precedes(w, v)
<1> DEFINE D == {i \in 1..DictWordSize : v[i] # w[i]}
<1>0. /\ DictWordSize \in Nat /\ DOMAIN v = 1..DictWordSize /\ DOMAIN w = 1..DictWordSize
      /\ \A i \in 1..DictWordSize : v[i] \in Int /\ w[i] \in Int
  BY SizeAssumption DEF Word
<1>1. D # {} /\ D \subseteq Nat
  <2>1. v = [i \in 1..DictWordSize |-> v[i]] /\ w = [i \in 1..DictWordSize |-> w[i]]
    BY DEF Word
  <2>2. D # {}
    BY <2>1
  <2> QED BY <2>2
<1>2. PICK i \in D : \A j \in D : i <= j
  <2> HIDE DEF D
  <2> QED BY <1>1, LeastElement
<1>3. \A j \in 1..i - 1 : v[j] = w[j] /\ w[j] = v[j]
  <2> SUFFICES ASSUME NEW j \in 1..i - 1 PROVE v[j] = w[j]
    OBVIOUS
  <2>1. j \in 1..DictWordSize /\ ~(i <= j)
    BY <1>0
  <2>2. j \notin D
    BY <1>2, <2>1
  <2> QED BY <2>1, <2>2
<1>4. v[i] < w[i] \/ w[i] < v[i]
  BY <1>0
<1> QED BY <1>0, <1>2, <1>3, <1>4 DEF Precedes

(* What is so of the range after each round: the word is nowhere else. *)
Ranges(n) == [start : 0..n, end : 0..n]
InRange(range, words, word) ==
    /\ range \in Ranges(Len(words))
    /\ \A i \in 1..Len(words) : words[i] = word => i > range.start /\ i <= range.end

LEMMA MiddleIsInside ==
    ASSUME NEW n \in Nat, NEW range \in Ranges(n), range.start < range.end
    PROVE  /\ Middle(range) \in 0..n - 1
           /\ range.start <= Middle(range) /\ Middle(range) < range.end
<1> DEFINE a == range.start
           b == range.end
           m == (a + b) \div 2
<1>1. a \in 0..n /\ b \in 0..n /\ a < b
  BY DEF Ranges
<1> HIDE DEF a, b
<1>2. a <= m /\ m < b /\ m \in Int
  BY <1>1
<1>3. Middle(range) = m
  BY DEF Middle, a, b
<1> HIDE DEF m
<1>4. m \in 0..n - 1
  BY <1>1, <1>2
<1> QED BY <1>2, <1>3, <1>4 DEF a, b

LEMMA NarrowedInRange ==
    ASSUME NEW words, InOrder(words), NEW word \in Word,
           NEW range, InRange(range, words, word), ~Ended(range, words, word)
    PROVE  LET new == Narrowed(range, words, word)
           IN  /\ InRange(new, words, word)
               /\ new.end - new.start < range.end - range.start
<1> DEFINE n == Len(words)
           m == Middle(range)
           a == range.start
           b == range.end
<1>0. /\ words \in Seq(Word) /\ n \in Nat
      /\ \A i, j \in 1..n : i < j => ~Precedes(words[j], words[i])
      /\ \A i \in 1..n : words[i] \in Word
  BY DEF InOrder
<1>1. /\ range \in Ranges(n) /\ a \in 0..n /\ b \in 0..n
      /\ \A i \in 1..n : words[i] = word => i > a /\ i <= b
  BY DEF InRange, Ranges
<1>2. ~(a >= b) /\ word # words[m + 1]
  BY DEF Ended
<1>3. a < b
  BY <1>1, <1>2
<1>4. m \in 0..n - 1 /\ a <= m /\ m < b
  BY <1>0, <1>1, <1>3, MiddleIsInside
<1>r. \A x, y \in 0..n : [range EXCEPT !.end = x] = [start |-> a, end |-> x]
                         /\ [range EXCEPT !.start = x] = [start |-> x, end |-> b]
  BY <1>1 DEF Ranges
<1>5. Narrowed(range, words, word) =
          IF Precedes(word, words[m + 1]) THEN [range EXCEPT !.end = m]
          ELSE [range EXCEPT !.start = m + 1]
  BY DEF Narrowed
<1> HIDE DEF n, m, a, b
<1>6. m + 1 \in 1..n /\ words[m + 1] \in Word /\ m \in 0..n /\ m + 1 \in 0..n
  BY <1>0, <1>4
<1>7. CASE Precedes(word, words[m + 1])
  <2>1. Narrowed(range, words, word) = [start |-> a, end |-> m]
    BY <1>5, <1>6, <1>7, <1>r
  <2>2. ASSUME NEW i \in 1..n, words[i] = word PROVE i <= m
    <3>1. ~(m + 1 < i)
      BY <1>0, <1>6, <1>7, <2>2
    <3>2. m + 1 # i
      BY <1>2, <2>2
    <3> QED BY <1>0, <1>6, <3>1, <3>2
  <2>3. InRange([start |-> a, end |-> m], words, word)
    BY <1>1, <1>6, <2>2 DEF InRange, Ranges, n
  <2>4. m - a < b - a
    BY <1>1, <1>4
  <2> QED BY <2>1, <2>3, <2>4 DEF a, b
<1>8. CASE ~Precedes(word, words[m + 1])
  <2>1. Narrowed(range, words, word) = [start |-> m + 1, end |-> b]
    BY <1>5, <1>6, <1>8, <1>r
  <2>2. Precedes(words[m + 1], word)
    BY <1>2, <1>6, <1>8, OneComesFirst
  <2>3. ASSUME NEW i \in 1..n, words[i] = word PROVE i > m + 1
    <3>1. ~(i < m + 1)
      BY <1>0, <1>6, <2>2, <2>3
    <3>2. m + 1 # i
      BY <1>2, <2>3
    <3> QED BY <1>0, <1>6, <3>1, <3>2
  <2>4. InRange([start |-> m + 1, end |-> b], words, word)
    BY <1>1, <1>6, <2>3 DEF InRange, Ranges, n
  <2>5. b - (m + 1) < b - a
    BY <1>1, <1>4
  <2> QED BY <2>1, <2>4, <2>5 DEF a, b
<1> QED BY <1>7, <1>8

(* A round of the search, and the ranges after each. *)
Rounds(words, word) ==
    [k \in 1..Len(words) |-> [range \in Ranges(Len(words)) |->
        IF Ended(range, words, word) THEN range
        ELSE IF Narrowed(range, words, word) \in Ranges(Len(words))
        THEN Narrowed(range, words, word) ELSE range]]

LEMMA SearchRounds ==
    ASSUME NEW words, InOrder(words), NEW word \in Word
    PROVE  \E f :
             /\ \A k \in 0..Len(words) :
                  /\ InRange(f[k], words, word)
                  /\ \/ Ended(f[k], words, word)
                     \/ f[k].end - f[k].start <= Len(words) - k
             /\ Search(words, word) =
                  IF f[Len(words)].start >= f[Len(words)].end THEN 0
                  ELSE Middle(f[Len(words)]) + 1
<1> DEFINE n == Len(words)
           first == [start |-> 0, end |-> n]
           R == Ranges(n)
           G == Rounds(words, word)
           after[k \in 0..Len(words)] ==
              IF k = 0 THEN [start |-> 0, end |-> Len(words)]
              ELSE IF Ended(after[k - 1], words, word) THEN after[k - 1]
              ELSE Narrowed(after[k - 1], words, word)
<1>0. n \in Nat /\ first \in R /\ 0 \in 0..n /\ n \in 0..n
  BY DEF InOrder, Ranges
<1>1. G \in [1..n -> [R -> R]]
  BY DEF Rounds
<1>2. PICK f : Iterates(f, n, R, first, G)
  <2> HIDE DEF n, first, R, G
  <2> QED BY <1>0, <1>1, RecursionExists
<1>3. /\ f \in [0..n -> R] /\ f[0] = first
      /\ \A k \in 1..n : f[k] = G[k][f[k - 1]]
  BY <1>2 DEF Iterates
<1>4. ASSUME NEW k \in 1..n
      PROVE  f[k] = IF Ended(f[k - 1], words, word) THEN f[k - 1]
                    ELSE IF Narrowed(f[k - 1], words, word) \in R
                    THEN Narrowed(f[k - 1], words, word) ELSE f[k - 1]
  <2>1. k - 1 \in 0..n
    BY <1>0
  <2>2. f[k - 1] \in R
    <3> HIDE DEF R, n
    <3> QED BY <1>3, <2>1
  <2> QED BY <1>3, <2>2 DEF Rounds
<1> DEFINE Good(k) == /\ InRange(f[k], words, word)
                      /\ \/ Ended(f[k], words, word)
                         \/ f[k].end - f[k].start <= n - k
           S == {k \in 0..n : Good(k)}
<1>5. 0 \in S
  <2>1. InRange(first, words, word)
    BY <1>0 DEF InRange
  <2>2. first.end - first.start <= n - 0
    BY <1>0
  <2> QED BY <1>0, <1>3, <2>1, <2>2
<1>6. ASSUME NEW k \in 1..n, k - 1 \in S
      PROVE  /\ k \in S
             /\ f[k] = IF Ended(f[k - 1], words, word) THEN f[k - 1]
                       ELSE Narrowed(f[k - 1], words, word)
  <2> DEFINE r == f[k - 1]
             new == Narrowed(r, words, word)
  <2>0. k \in 0..n
    BY <1>0
  <2>1. InRange(r, words, word) /\ (Ended(r, words, word) \/ r.end - r.start <= n - (k - 1))
    BY <1>6
  <2>2. f[k] = IF Ended(r, words, word) THEN r ELSE IF new \in R THEN new ELSE r
    BY <1>4
  <2> HIDE DEF r, new, R
  <2>3. CASE Ended(r, words, word)
    <3>1. f[k] = r
      BY <2>2, <2>3
    <3> QED BY <2>0, <2>1, <2>3, <3>1 DEF r
  <2>4. CASE ~Ended(r, words, word)
    <3>1. InRange(new, words, word) /\ new.end - new.start < r.end - r.start
      BY <2>1, <2>4, NarrowedInRange DEF new
    <3>2. new \in R
      BY <3>1 DEF InRange, R
    <3>3. f[k] = new
      BY <2>2, <2>4, <3>2
    <3>4. new.end \in Int /\ new.start \in Int /\ r.end \in Int /\ r.start \in Int
      BY <2>1, <3>1 DEF InRange, Ranges
    <3>5. r.end - r.start <= n - (k - 1)
      BY <2>1, <2>4
    <3>6. new.end - new.start <= n - k
      <4> DEFINE x == new.end - new.start
                 y == r.end - r.start
      <4>1. x \in Int /\ y \in Int /\ x < y /\ y <= n - (k - 1)
        BY <3>1, <3>4, <3>5
      <4> HIDE DEF x, y
      <4>2. x <= n - k
        BY <1>0, <4>1
      <4> QED BY <4>2 DEF x
    <3> QED BY <2>0, <2>4, <3>1, <3>3, <3>6 DEF new, r
  <2> QED BY <2>3, <2>4
<1>7. \A k \in 0..n : k \in S
  <2> HIDE DEF S
  <2> QED BY <1>0, <1>5, <1>6, InductionUpTo
<1>8. f = [k \in 0..Len(words) |->
              IF k = 0 THEN [start |-> 0, end |-> Len(words)]
              ELSE IF Ended(f[k - 1], words, word) THEN f[k - 1]
              ELSE Narrowed(f[k - 1], words, word)]
  <2>1. f = [k \in 0..Len(words) |-> f[k]]
    BY <1>3
  <2>2. \A k \in 1..n : k - 1 \in 0..n
    BY <1>0
  <2>3. \A k \in 0..n : k = 0 \/ k \in 1..n
    BY <1>0
  <2>4. \A k \in 1..n : f[k] = IF Ended(f[k - 1], words, word) THEN f[k - 1]
                               ELSE Narrowed(f[k - 1], words, word)
    <3> HIDE DEF S
    <3> QED BY <1>6, <1>7, <2>2
  <2> HIDE DEF S
  <2> QED BY <1>3, <2>1, <2>3, <2>4
<1>9. after = [k \in 0..Len(words) |->
              IF k = 0 THEN [start |-> 0, end |-> Len(words)]
              ELSE IF Ended(after[k - 1], words, word) THEN after[k - 1]
              ELSE Narrowed(after[k - 1], words, word)]
  BY <1>8, Zenon
<1> HIDE DEF after
<1>10. after[n] = f[n]
  <2>1. after[0] = f[0]
    BY <1>0, <1>3, <1>9
  <2>2. \A k \in 1..n : k \in 0..n /\ k # 0
    BY <1>0
  <2>3. ASSUME NEW k \in 1..n, after[k - 1] = f[k - 1] PROVE after[k] = f[k]
    <3>1. after[k] = IF Ended(after[k - 1], words, word) THEN after[k - 1]
                     ELSE Narrowed(after[k - 1], words, word)
      BY <1>9, <2>2, Zenon
    <3>2. f[k] = IF Ended(f[k - 1], words, word) THEN f[k - 1]
                 ELSE Narrowed(f[k - 1], words, word)
      BY <1>8, <2>2, Zenon
    <3> QED BY <2>3, <3>1, <3>2
  <2>4. StepAlike(after, f, n)
    <3> HIDE DEF n
    <3> QED BY <1>0, <2>1, <2>3 DEF StepAlike
  <2> HIDE DEF n
  <2> QED BY <1>0, <2>4, SameRecursion
<1>11. Search(words, word) =
          IF after[n].start >= after[n].end THEN 0 ELSE Middle(after[n]) + 1
  BY Zenon DEF Search, after
<1>12. \A k \in 0..n : Good(k)
  BY <1>7
<1> QED BY <1>10, <1>11, <1>12

LEMMA SearchFinds ==
    ASSUME NEW words, InOrder(words), NEW word \in Word
    PROVE  LET found == Search(words, word)
           IN  /\ found = 0 => \A i \in 1..Len(words) : words[i] # word
               /\ found # 0 => found \in 1..Len(words) /\ words[found] = word
<1> DEFINE n == Len(words)
<1>0. n \in Nat /\ n \in 0..n
  BY DEF InOrder
<1>1. PICK f :
        /\ \A k \in 0..n :
             /\ InRange(f[k], words, word)
             /\ \/ Ended(f[k], words, word)
                \/ f[k].end - f[k].start <= n - k
        /\ Search(words, word) =
             IF f[n].start >= f[n].end THEN 0 ELSE Middle(f[n]) + 1
  BY SearchRounds
<1> DEFINE r == f[n]
<1>2. /\ InRange(r, words, word)
      /\ Ended(r, words, word) \/ r.end - r.start <= n - n
  BY <1>0, <1>1
<1>3. Search(words, word) = IF r.start >= r.end THEN 0 ELSE Middle(r) + 1
  BY <1>1
<1> HIDE DEF r
<1>4. /\ r \in Ranges(n) /\ r.start \in 0..n /\ r.end \in 0..n
      /\ \A i \in 1..n : words[i] = word => i > r.start /\ i <= r.end
  BY <1>2 DEF InRange, Ranges
<1>5. CASE r.start >= r.end
  <2>1. Search(words, word) = 0
    BY <1>3, <1>5
  <2>2. \A i \in 1..n : words[i] # word
    BY <1>0, <1>4, <1>5
  <2> QED BY <2>1, <2>2
<1>6. CASE ~(r.start >= r.end)
  <2>1. r.start < r.end
    BY <1>4, <1>6
  <2>2. ~(r.end - r.start <= n - n)
    BY <1>0, <1>4, <2>1
  <2>3. word = words[Middle(r) + 1]
    BY <1>2, <1>6, <2>2 DEF Ended
  <2>4. Middle(r) \in 0..n - 1
    BY <1>0, <1>4, <2>1, MiddleIsInside
  <2>5. Middle(r) + 1 \in 1..n /\ Middle(r) + 1 # 0
    BY <1>0, <2>4
  <2> QED BY <1>3, <1>6, <2>3, <2>5
<1> QED BY <1>5, <1>6

-----------------------------------------------------------------------------
(* SplitTokens: the tokens, each once, in the order of the text             *)

(* s has the members of T in the order of their places. *)
Enumerates(s, T) ==
    /\ s \in Seq(Places)
    /\ \A i, j \in 1..Len(s) : i < j => s[i].start < s[j].start
    /\ \A i \in 1..Len(s) : s[i] \in T
    /\ \A t \in T : \E i \in 1..Len(s) : s[i] = t

(* The tokens from the i-th character on; none of them begins before it if  *)
(* no word goes through that place.                                         *)
TokensFrom(line, seps, i) == {t \in TokensOf(line, seps) : t.start >= i - 1}
Boundary(line, seps, i) == InWord(line, seps, i) => ~InWord(line, seps, i - 1)

LEMMA TokenIs ==
    ASSUME NEW C, NEW line \in Seq(C), NEW seps, NEW t
    PROVE  t \in TokensOf(line, seps) <=>
               /\ t \in [start : 0..Len(line), length : 1..Len(line)]
               /\ t.start + t.length <= Len(line)
               /\ \/ t.length = 1 /\ line[t.start + 1] \in seps
                  \/ /\ \A i \in t.start + 1..t.start + t.length : InWord(line, seps, i)
                     /\ ~InWord(line, seps, t.start)
                     /\ ~InWord(line, seps, t.start + t.length + 1)
<1>1. \A i : InWord(line, seps, i) <=>
                i \in DOMAIN line /\ ~IsTokenSpace(line[i]) /\ line[i] \notin seps
  BY DEF InWord
<1> QED BY <1>1 DEF TokensOf, IsToken

(* A token in front of those from its end on. *)
LEMMA OneTokenMore ==
    ASSUME NEW C, NEW line \in Seq(C), NEW seps, NEW i \in 1..Len(line),
           NEW e \in i + 1..Len(line) + 1,
           Token(i, e) \in TokensOf(line, seps),
           \A t \in TokensFrom(line, seps, i) :
               t = Token(i, e) \/ t \in TokensFrom(line, seps, e),
           NEW s, Enumerates(s, TokensFrom(line, seps, e))
    PROVE  Enumerates(<<Token(i, e)>> \o s, TokensFrom(line, seps, i))
<1> DEFINE a == Token(i, e)
           u == <<a>> \o s
           T == TokensFrom(line, seps, i)
           Later == TokensFrom(line, seps, e)
<1>0. /\ s \in Seq(Places) /\ Len(s) \in Nat /\ Len(line) \in Nat
      /\ i \in Nat /\ i >= 1 /\ e \in Nat /\ e > i
      /\ \A k, l \in 1..Len(s) : k < l => s[k].start < s[l].start
      /\ \A k \in 1..Len(s) : s[k] \in Later
      /\ \A t \in Later : \E k \in 1..Len(s) : s[k] = t
      /\ \A k \in 1..Len(s) : s[k] \in Places
  BY DEF Enumerates
<1>1. a \in Places /\ a.start = i - 1
  BY <1>0 DEF Token, Places
<1>2. a \in T
  BY <1>0, <1>1 DEF TokensFrom
<1>3. /\ \A t \in Later : t.start >= e - 1 /\ t \in TokensOf(line, seps)
  BY DEF TokensFrom
<1>4. \A t \in T : t = a \/ t \in Later
  OBVIOUS
<1> HIDE DEF a, T, Later, u
<1>5. /\ u \in Seq(Places) /\ Len(u) = Len(s) + 1
      /\ \A j \in 1..Len(s) + 1 : u[j] = IF j = 1 THEN a ELSE s[j - 1]
  BY <1>0, <1>1, FrontProperties DEF u
<1>6. \A k \in 1..Len(s) : s[k].start \in Nat /\ s[k].start >= e - 1 /\ s[k] \in T
  <2> SUFFICES ASSUME NEW k \in 1..Len(s)
               PROVE  s[k].start \in Nat /\ s[k].start >= e - 1 /\ s[k] \in T
    OBVIOUS
  <2>1. s[k].start \in Nat
    BY <1>0 DEF Places
  <2>2. s[k].start >= e - 1 /\ s[k] \in TokensOf(line, seps)
    BY <1>0, <1>3
  <2>3. s[k].start >= i - 1
    BY <1>0, <2>1, <2>2
  <2> QED BY <2>1, <2>2, <2>3 DEF T, TokensFrom
<1>7. ASSUME NEW k \in 1..Len(u), NEW l \in 1..Len(u), k < l
      PROVE  u[k].start < u[l].start
  <2>1. l # 1 /\ l - 1 \in 1..Len(s) /\ u[l] = s[l - 1]
    BY <1>0, <1>5, <1>7
  <2>2. CASE k = 1
    <3>1. u[k] = a
      BY <1>5, <2>2
    <3>2. u[l].start >= e - 1 /\ u[l].start \in Nat
      BY <1>6, <2>1
    <3>3. a.start < u[l].start
      BY <1>0, <1>1, <3>2
    <3> QED BY <3>1, <3>3
  <2>3. CASE k # 1
    <3>1. k - 1 \in 1..Len(s) /\ u[k] = s[k - 1] /\ k - 1 < l - 1
      BY <1>0, <1>5, <1>7, <2>3
    <3> QED BY <1>0, <2>1, <3>1
  <2> QED BY <2>2, <2>3
<1>8. ASSUME NEW k \in 1..Len(u) PROVE u[k] \in T
  <2>1. CASE k = 1
    BY <1>2, <1>5, <2>1
  <2>2. CASE k # 1
    <3>1. k - 1 \in 1..Len(s) /\ u[k] = s[k - 1]
      BY <1>0, <1>5, <2>2
    <3> QED BY <1>6, <3>1
  <2> QED BY <2>1, <2>2
<1>9. ASSUME NEW t \in T PROVE \E k \in 1..Len(u) : u[k] = t
  <2>1. CASE t = a
    <3>1. 1 \in 1..Len(u) /\ u[1] = a
      BY <1>0, <1>5
    <3> QED BY <2>1, <3>1
  <2>2. CASE t \in Later
    <3>1. PICK k \in 1..Len(s) : s[k] = t
      BY <1>0, <2>2
    <3>2. k + 1 \in 1..Len(u) /\ u[k + 1] = s[(k + 1) - 1] /\ (k + 1) - 1 = k
      BY <1>0, <1>5
    <3> QED BY <3>1, <3>2
  <2> QED BY <1>4, <2>1, <2>2
<1>10. Enumerates(u, T)
  BY <1>5, <1>7, <1>8, <1>9 DEF Enumerates
<1> QED BY <1>10 DEF u, T, a

(* Where the tokens from i on begin: at i, after a space; or with a token. *)
LEMMA TokensAtSpace ==
    ASSUME NEW C, NEW line \in Seq(C), NEW seps, seps \cap {9, Space} = {},
           NEW i \in 1..Len(line), IsTokenSpace(line[i])
    PROVE  /\ Boundary(line, seps, i + 1)
           /\ TokensFrom(line, seps, i) = TokensFrom(line, seps, i + 1)
<1>0. Len(line) \in Nat /\ i \in Nat /\ i >= 1
  OBVIOUS
<1>1. ~InWord(line, seps, i) /\ line[i] \notin seps
  BY DEF InWord, IsTokenSpace
<1>2. ASSUME NEW t \in TokensOf(line, seps), t.start >= i - 1
      PROVE  t.start >= (i + 1) - 1
  <2>1. /\ t.start \in Nat /\ t.length \in Nat /\ t.length >= 1
        /\ \/ t.length = 1 /\ line[t.start + 1] \in seps
           \/ \A j \in t.start + 1..t.start + t.length : InWord(line, seps, j)
    BY <1>0, TokenIs
  <2> DEFINE a == t.start
  <2>2. ASSUME a = i - 1 PROVE FALSE
    <3>1. a + 1 = i /\ i \in a + 1..a + t.length
      BY <1>0, <2>1, <2>2
    <3> HIDE DEF a
    <3> QED BY <1>1, <2>1, <3>1 DEF a
  <2> QED BY <1>0, <1>2, <2>1, <2>2
<1>3. ASSUME NEW t \in TokensOf(line, seps), t.start >= (i + 1) - 1
      PROVE  t.start >= i - 1
  <2>1. t.start \in Nat
    BY <1>0, TokenIs
  <2> QED BY <1>0, <1>3, <2>1
<1>4. (i + 1) - 1 = i
  BY <1>0
<1>5. Boundary(line, seps, i + 1)
  BY <1>1, <1>4 DEF Boundary
<1>6. TokensFrom(line, seps, i) = TokensFrom(line, seps, i + 1)
  BY <1>2, <1>3 DEF TokensFrom
<1> QED BY <1>5, <1>6

LEMMA TokensAtSeparator ==
    ASSUME NEW C, NEW line \in Seq(C), NEW seps,
           NEW i \in 1..Len(line), line[i] \in seps
    PROVE  /\ Boundary(line, seps, i + 1)
           /\ Token(i, i + 1) \in TokensOf(line, seps)
           /\ \A t \in TokensFrom(line, seps, i) :
                  t = Token(i, i + 1) \/ t \in TokensFrom(line, seps, i + 1)
<1> DEFINE n == Len(line)
           a == Token(i, i + 1)
<1>0. n \in Nat /\ i \in Nat /\ i >= 1 /\ i <= n /\ (i + 1) - 1 = i /\ (i + 1) - i = 1
      /\ (i - 1) + 1 = i
  OBVIOUS
<1>1. ~InWord(line, seps, i)
  BY DEF InWord
<1>2. /\ a = [start |-> i - 1, length |-> 1]
      /\ a \in [start : 0..n, length : 1..n] /\ a.start = i - 1 /\ a.length = 1
  BY <1>0 DEF Token
<1> HIDE DEF a, n
<1>3. a \in TokensOf(line, seps)
  <2>1. a.start + a.length <= n /\ a.length = 1 /\ line[a.start + 1] \in seps
    BY <1>0, <1>2
  <2> QED BY <1>2, <2>1, TokenIs DEF n
<1>4. ASSUME NEW t \in TokensFrom(line, seps, i)
      PROVE  t = a \/ t \in TokensFrom(line, seps, i + 1)
  <2> DEFINE p == t.start
             l == t.length
  <2>1. t \in TokensOf(line, seps) /\ p >= i - 1
    BY DEF TokensFrom
  <2>2. /\ t \in [start : 0..n, length : 1..n]
        /\ l = 1 \/ \A j \in p + 1..p + l : InWord(line, seps, j)
    BY <2>1, TokenIs DEF n
  <2>3. p \in Nat /\ l \in Nat /\ l >= 1 /\ t = [start |-> p, length |-> l]
    BY <1>0, <2>2
  <2> HIDE DEF p, l
  <2>4. CASE p = i - 1
    <3>1. i \in p + 1..p + l
      BY <1>0, <2>3, <2>4
    <3>2. l = 1
      BY <1>1, <2>2, <3>1
    <3> QED BY <1>2, <2>3, <2>4, <3>2
  <2>5. CASE p # i - 1
    <3>1. p >= (i + 1) - 1
      BY <1>0, <2>1, <2>3, <2>5
    <3> QED BY <2>1, <3>1 DEF TokensFrom, p
  <2> QED BY <2>4, <2>5
<1>5. Boundary(line, seps, i + 1)
  BY <1>0, <1>1 DEF Boundary
<1> QED BY <1>3, <1>4, <1>5 DEF a

LEMMA TokensAtWord ==
    ASSUME NEW C, NEW line \in Seq(C), NEW seps,
           NEW i \in 1..Len(line), InWord(line, seps, i), ~InWord(line, seps, i - 1),
           NEW e \in i + 1..Len(line) + 1, ~InWord(line, seps, e),
           \A j \in i..e - 1 : InWord(line, seps, j)
    PROVE  /\ Token(i, e) \in TokensOf(line, seps)
           /\ \A t \in TokensFrom(line, seps, i) :
                  t = Token(i, e) \/ t \in TokensFrom(line, seps, e)
<1> DEFINE n == Len(line)
           a == Token(i, e)
<1>0. n \in Nat /\ i \in Nat /\ i >= 1 /\ i <= n /\ e \in Nat /\ i < e /\ e <= n + 1
  OBVIOUS
<1>1. \A j : InWord(line, seps, j) => line[j] \notin seps
  BY DEF InWord
<1>2. /\ a = [start |-> i - 1, length |-> e - i]
      /\ a \in [start : 0..n, length : 1..n] /\ a.start = i - 1 /\ a.length = e - i
  BY <1>0 DEF Token
<1> HIDE DEF a, n
<1>3. a \in TokensOf(line, seps)
  <2>1. a.start + a.length <= n /\ a.start + a.length + 1 = e /\ a.start + 1 = i
        /\ a.start + a.length = e - 1
    BY <1>0, <1>2
  <2>2. /\ \A j \in a.start + 1..a.start + a.length : InWord(line, seps, j)
        /\ ~InWord(line, seps, a.start)
        /\ ~InWord(line, seps, a.start + a.length + 1)
    BY <1>2, <2>1
  <2> QED BY <1>2, <2>1, <2>2, TokenIs DEF n
<1>4. ASSUME NEW t \in TokensFrom(line, seps, i)
      PROVE  t = a \/ t \in TokensFrom(line, seps, e)
  <2> DEFINE p == t.start
             l == t.length
  <2>1. t \in TokensOf(line, seps) /\ p >= i - 1
    BY DEF TokensFrom
  <2>2. /\ t \in [start : 0..n, length : 1..n]
        /\ \/ l = 1 /\ line[p + 1] \in seps
           \/ /\ \A j \in p + 1..p + l : InWord(line, seps, j)
              /\ ~InWord(line, seps, p)
              /\ ~InWord(line, seps, p + l + 1)
    BY <2>1, TokenIs DEF n
  <2>3. p \in Nat /\ l \in Nat /\ l >= 1 /\ t = [start |-> p, length |-> l]
    BY <1>0, <2>2
  <2> HIDE DEF p, l
  <2>4. CASE p = i - 1
    <3>1. p + 1 = i /\ p + l + 1 = i + l
      BY <1>0, <2>3, <2>4
    <3>2. (\A j \in i..p + l : InWord(line, seps, j)) /\ ~InWord(line, seps, i + l)
      BY <1>1, <2>2, <3>1
    <3>3. ~(i + l < e)
      <4>1. i + l < e => i + l \in i..e - 1
        BY <1>0, <2>3
      <4> QED BY <3>2, <4>1
    <3>4. ~(i + l > e)
      <4>1. i + l > e => e \in i..p + l
        BY <1>0, <2>3, <2>4
      <4> QED BY <3>2, <4>1
    <3>5. l = e - i
      BY <1>0, <2>3, <3>3, <3>4
    <3> QED BY <1>2, <2>3, <2>4, <3>5
  <2>5. CASE p # i - 1
    <3>1. ASSUME p < e - 1 PROVE FALSE
      <4>1. p + 1 \in i..e - 1 /\ p \in i..e - 1
        BY <1>0, <2>1, <2>3, <2>5, <3>1
      <4>2. InWord(line, seps, p + 1) /\ InWord(line, seps, p)
        BY <4>1
      <4> QED BY <1>1, <2>2, <4>2
    <3>2. p >= e - 1
      BY <1>0, <2>3, <3>1
    <3> QED BY <2>1, <3>2 DEF TokensFrom, p
  <2> QED BY <2>4, <2>5
<1> QED BY <1>3, <1>4 DEF a

LEMMA SplitEnumerates ==
    ASSUME NEW C, NEW line \in Seq(C), NEW seps, seps \cap {9, Space} = {}
    PROVE  Enumerates(SplitTokens(line, seps), TokensOf(line, seps))
<1> DEFINE n == Len(line)
           next == GoesOnAt(line, seps)
           G == Takes(line, seps)
<1>0. /\ n \in Nat
      /\ \A i \in 1..n : next[i] \in i + 1..n + 1
  BY StepsOfSplitting
<1>1. PICK f : Splits(f, line, seps) /\ SplitTokens(line, seps) = f[1]
  BY TokensSplit
<1>2. /\ f \in [1..n + 1 -> Seq(Places)] /\ f[n + 1] = <<>>
      /\ \A i \in 1..n : f[i] = G[i][f[next[i]]]
  BY <1>1 DEF Splits, Jumps
<1> DEFINE Found(i) == Boundary(line, seps, i) => Enumerates(f[i], TokensFrom(line, seps, i))
           S == {i \in 1..n + 1 : Found(i)}
<1>3. n + 1 \in S
  <2>1. TokensFrom(line, seps, n + 1) = {}
    <3> SUFFICES ASSUME NEW t \in TokensOf(line, seps), t.start >= (n + 1) - 1 PROVE FALSE
      BY DEF TokensFrom
    <3>1. t.start \in Nat /\ t.length \in Nat /\ t.length >= 1 /\ t.start + t.length <= n
      BY <1>0, TokenIs
    <3> QED BY <1>0, <3>1
  <2>2. Enumerates(f[n + 1], {})
    BY <1>2 DEF Enumerates
  <2>3. n + 1 \in 1..n + 1
    BY <1>0
  <2>4. Found(n + 1)
    BY <2>1, <2>2
  <2> HIDE DEF Found, n
  <2> QED BY <2>3, <2>4
<1>4. ASSUME NEW i \in 1..n, \A j \in i + 1..n + 1 : j \in S PROVE i \in S
  <2> SUFFICES ASSUME Boundary(line, seps, i)
               PROVE  Enumerates(f[i], TokensFrom(line, seps, i))
    BY <1>0
  <2>1. next[i] \in i + 1..n + 1 /\ next[i] \in 1..n + 1
    BY <1>0
  <2>2. f[next[i]] \in Seq(Places) /\ Found(next[i])
    BY <1>2, <1>4, <2>1
  <2>3. f[i] = IF IsTokenSpace(line[i]) THEN f[next[i]]
               ELSE <<Token(i, next[i])>> \o f[next[i]]
    BY <1>2, <2>2 DEF Takes
  <2>4. next[i] = IF IsTokenSpace(line[i]) \/ line[i] \in seps THEN i + 1
                  ELSE WordEnd(line, seps, i)
    BY DEF GoesOnAt
  <2>5. i \in 1..Len(line)
    OBVIOUS
  <2>6. CASE IsTokenSpace(line[i])
    <3>1. /\ Boundary(line, seps, i + 1)
          /\ TokensFrom(line, seps, i) = TokensFrom(line, seps, i + 1)
      BY <2>5, <2>6, TokensAtSpace
    <3>2. f[i] = f[i + 1] /\ Found(i + 1)
      <4> HIDE DEF Found, next, G, S, n
      <4> QED BY <2>2, <2>3, <2>4, <2>6
    <3> HIDE DEF n, next, G, S
    <3> QED BY <3>1, <3>2
  <2>7. CASE ~IsTokenSpace(line[i])
    <3>1. /\ Boundary(line, seps, next[i])
          /\ Token(i, next[i]) \in TokensOf(line, seps)
          /\ \A t \in TokensFrom(line, seps, i) :
                 t = Token(i, next[i]) \/ t \in TokensFrom(line, seps, next[i])
      <4>1. CASE line[i] \in seps
        <5>1. next[i] = i + 1
          BY <2>4, <4>1
        <5> HIDE DEF next
        <5> QED BY <2>5, <4>1, <5>1, TokensAtSeparator
      <4>2. CASE line[i] \notin seps
        <5> DEFINE e == WordEnd(line, seps, i)
        <5>1. /\ \A j \in i..e - 1 : InWord(line, seps, j)
              /\ ~InWord(line, seps, e)
          BY <2>5, WordEndFound
        <5>2. next[i] = e
          BY <2>4, <2>7, <4>2
        <5> HIDE DEF e, next
        <5>3. InWord(line, seps, i)
          BY <2>5, <2>7, <4>2 DEF InWord
        <5>4. ~InWord(line, seps, i - 1)
          BY <5>3 DEF Boundary
        <5>5. Boundary(line, seps, e)
          BY <5>1 DEF Boundary
        <5>6. e \in i + 1..Len(line) + 1
          BY <2>1, <5>2
        <5>7. /\ Token(i, e) \in TokensOf(line, seps)
              /\ \A t \in TokensFrom(line, seps, i) :
                     t = Token(i, e) \/ t \in TokensFrom(line, seps, e)
          BY <2>5, <5>1, <5>3, <5>4, <5>6, TokensAtWord
        <5> QED BY <5>2, <5>5, <5>7
      <4> QED BY <4>1, <4>2
    <3>2. Enumerates(f[next[i]], TokensFrom(line, seps, next[i]))
      <4> HIDE DEF next
      <4> QED BY <2>2, <3>1
    <3>3. f[i] = <<Token(i, next[i])>> \o f[next[i]]
      BY <2>3, <2>7
    <3>4. next[i] \in i + 1..Len(line) + 1
      BY <2>1
    <3> HIDE DEF next, G, S, Found, n
    <3>5. Enumerates(<<Token(i, next[i])>> \o f[next[i]], TokensFrom(line, seps, i))
      BY <2>5, <3>1, <3>2, <3>4, OneTokenMore
    <3> QED BY <3>3, <3>5
  <2> QED BY <2>6, <2>7
<1>5. \A i \in 1..n + 1 : i \in S
  <2> HIDE DEF S, n
  <2> QED BY <1>0, <1>3, <1>4, InductionDown
<1>6. Enumerates(f[1], TokensFrom(line, seps, 1))
  <2>1. 1 \in S
    BY <1>0, <1>5
  <2>2. Boundary(line, seps, 1)
    BY DEF Boundary, InWord
  <2> QED BY <2>1, <2>2
<1>7. TokensFrom(line, seps, 1) = TokensOf(line, seps)
  <2>1. \A t \in TokensOf(line, seps) : t.start >= 1 - 1
    <3> SUFFICES ASSUME NEW t \in TokensOf(line, seps) PROVE t.start >= 1 - 1
      OBVIOUS
    <3>1. t.start \in Nat
      BY <1>0, TokenIs
    <3> QED BY <3>1
  <2> QED BY <2>1 DEF TokensFrom
<1> QED BY <1>1, <1>6, <1>7

(* The first m of an enumeration are m, and the rest come after them. *)
LEMMA EnumerationCounts ==
    ASSUME NEW s, NEW T, Enumerates(s, T)
    PROVE  /\ Cardinality(T) = Len(s)
           /\ \A k \in 1..Len(s) :
                  Cardinality({t \in T : t.start <= s[k].start}) = k
<1> DEFINE n == Len(s)
           First(m) == {s[i] : i \in 1..m}
           S == {m \in 0..n : IsFiniteSet(First(m)) /\ Cardinality(First(m)) = m}
<1>0. /\ s \in Seq(Places) /\ n \in Nat
      /\ \A i, j \in 1..n : i < j => s[i].start < s[j].start
      /\ \A i \in 1..n : s[i] \in T
      /\ \A t \in T : \E i \in 1..n : s[i] = t
      /\ \A i \in 1..n : s[i].start \in Nat
  <2>1. s \in Seq(Places)
    BY DEF Enumerates
  <2>2. \A i \in 1..n : s[i] \in Places
    BY <2>1
  <2> QED BY <2>1, <2>2 DEF Enumerates, Places
<1> HIDE DEF n
<1>1. 0 \in S
  <2>1. First(0) = {}
    OBVIOUS
  <2> HIDE DEF First
  <2>2. IsFiniteSet(First(0)) /\ Cardinality(First(0)) = 0
    BY <2>1, FS_EmptySet
  <2> QED BY <1>0, <2>2
<1>2. ASSUME NEW m \in 1..n, m - 1 \in S PROVE m \in S
  <2>1. IsFiniteSet(First(m - 1)) /\ Cardinality(First(m - 1)) = m - 1
    BY <1>2
  <2>2. First(m) = First(m - 1) \cup {s[m]}
    <3>1. \A i : i \in 1..m <=> i \in 1..m - 1 \/ i = m
      BY <1>0
    <3> QED BY <3>1
  <2>3. s[m] \notin First(m - 1)
    <3> SUFFICES ASSUME NEW i \in 1..m - 1, s[i] = s[m] PROVE FALSE
      OBVIOUS
    <3>1. i \in 1..n /\ i < m
      BY <1>0
    <3>2. s[i].start < s[m].start /\ s[m].start \in Nat
      BY <1>0, <3>1
    <3>3. s[i].start = s[m].start
      OBVIOUS
    <3> QED BY <3>2, <3>3
  <2> HIDE DEF First
  <2>4. IsFiniteSet(First(m)) /\ Cardinality(First(m)) = (m - 1) + 1
    BY <2>1, <2>2, <2>3, FS_AddElement
  <2>5. m \in 0..n /\ (m - 1) + 1 = m
    BY <1>0
  <2> QED BY <2>4, <2>5
<1>3. \A m \in 0..n : m \in S
  <2> HIDE DEF S
  <2> QED BY <1>0, <1>1, <1>2, InductionUpTo
<1>4. Cardinality(T) = n
  <2>1. T = First(n)
    BY <1>0
  <2>2. n \in S
    <3>1. n \in 0..n
      BY <1>0
    <3> HIDE DEF S
    <3> QED BY <1>3, <3>1
  <2> HIDE DEF First
  <2> QED BY <2>1, <2>2
<1>5. ASSUME NEW k \in 1..n
      PROVE  Cardinality({t \in T : t.start <= s[k].start}) = k
  <2>1. \A i \in 1..n : s[i].start <= s[k].start <=> i \in 1..k
    <3> SUFFICES ASSUME NEW i \in 1..n PROVE s[i].start <= s[k].start <=> i \in 1..k
      OBVIOUS
    <3>1. /\ i < k => s[i].start < s[k].start
          /\ k < i => s[k].start < s[i].start
          /\ s[i].start \in Nat /\ s[k].start \in Nat
      BY <1>0
    <3>2. i < k \/ i = k \/ k < i
      BY <1>0
    <3>3. CASE i < k
      BY <1>0, <3>1, <3>3
    <3>4. CASE i = k
      BY <1>0, <3>1, <3>4
    <3>5. CASE k < i
      <4>1. ~(s[i].start <= s[k].start) /\ i \notin 1..k
        BY <1>0, <3>1, <3>5
      <4> QED BY <4>1
    <3> QED BY <3>2, <3>3, <3>4, <3>5
  <2>2. {t \in T : t.start <= s[k].start} = First(k)
    <3>1. ASSUME NEW t \in T, t.start <= s[k].start PROVE t \in First(k)
      <4>1. PICK i \in 1..n : s[i] = t
        BY <1>0
      <4>2. i \in 1..k
        BY <2>1, <3>1, <4>1
      <4> QED BY <4>1, <4>2
    <3>2. ASSUME NEW i \in 1..k PROVE s[i] \in T /\ s[i].start <= s[k].start
      <4>1. i \in 1..n
        BY <1>0
      <4> QED BY <1>0, <2>1, <4>1
    <3> QED BY <3>1, <3>2
  <2>3. k \in S
    <3>1. k \in 0..n
      BY <1>0
    <3> HIDE DEF S
    <3> QED BY <1>3, <3>1
  <2> HIDE DEF First
  <2> QED BY <2>2, <2>3
<1> QED BY <1>4, <1>5 DEF n

(* SplitTokens finds the tokens in their order, and the first of them are   *)
(* the first of its list.                                                   *)
LEMMA SplitsFirstTokens ==
    ASSUME NEW C, NEW line \in Seq(C), NEW seps, seps \cap {9, Space} = {},
           NEW max \in Nat
    PROVE  LET all == SplitTokens(line, seps)
           IN  /\ FirstTokens(line, seps, max) = SubSeq(all, 1, Smaller(Len(all), max))
               /\ \A k \in 1..Len(all) : all[k] \in TokensOf(line, seps)
               /\ all \in Seq(Places)
<1> DEFINE all == SplitTokens(line, seps)
           T == TokensOf(line, seps)
           Place(t) == Cardinality({s \in T : s.start <= t.start})
           m == Smaller(Len(all), max)
           first == SubSeq(all, 1, m)
<1>1. Enumerates(all, T)
  BY SplitEnumerates
<1> HIDE DEF all, T
<1>2. /\ Cardinality(T) = Len(all)
      /\ \A k \in 1..Len(all) : Place(all[k]) = k
  BY <1>1, EnumerationCounts
<1> HIDE DEF Place
<1>3. /\ all \in Seq(Places) /\ Len(all) \in Nat
      /\ \A k \in 1..Len(all) : all[k] \in T
      /\ \A t \in T : \E k \in 1..Len(all) : all[k] = t
  BY <1>1 DEF Enumerates
<1>4. m = (IF Cardinality(T) < max THEN Cardinality(T) ELSE max)
      /\ m \in Nat /\ m <= Len(all)
  BY <1>2, <1>3 DEF Smaller
<1>5. ASSUME NEW k \in 1..Len(all)
      PROVE  (CHOOSE t \in T : Place(t) = k) = all[k]
  <2>1. all[k] \in T /\ Place(all[k]) = k
    BY <1>2, <1>3
  <2>2. \A t \in T : Place(t) = k => t = all[k]
    BY <1>2, <1>3
  <2> QED BY <2>1, <2>2
<1> HIDE DEF m
<1>6. first = [k \in 1..m |-> all[k]]
  <2>1. /\ first \in Seq(Places) /\ Len(first) = m
        /\ \A k \in 1..m : first[k] = all[k]
    BY <1>3, <1>4
  <2> HIDE DEF first
  <2>2. first = [k \in 1..m |-> first[k]]
    BY <2>1
  <2> QED BY <2>1, <2>2
<1>7. FirstTokens(line, seps, max) = [k \in 1..m |-> CHOOSE t \in T : Place(t) = k]
  BY <1>4, Zenon DEF FirstTokens, Place, T
<1>8. \A k \in 1..m : k \in 1..Len(all)
  BY <1>3, <1>4
<1>9. FirstTokens(line, seps, max) = first
  BY <1>5, <1>6, <1>7, <1>8
<1> QED BY <1>3, <1>9 DEF all, T, m

-----------------------------------------------------------------------------
(* The parse table, for any text                                            *)

(* Spaces separate without being words, and sorted entries are in order.    *)
WellFormed(dictionary) ==
    /\ dictionary.separators \cap {9, Space} = {}
    /\ dictionary.sorted => InOrder(dictionary.words)

LEMMA WordLookedUp ==
    ASSUME NEW dictionary, WellFormed(dictionary), dictionary.sorted,
           NEW letters \in Seq(Nat), letters # <<>>
    PROVE  LET found == LookUpWord(dictionary, letters)
           IN  IF found = 0
               THEN \A w \in DOMAIN dictionary.words :
                        ~SameWord(letters, dictionary.words[w])
               ELSE /\ found \in DOMAIN dictionary.words
                    /\ SameWord(letters, dictionary.words[found])
<1> DEFINE words == dictionary.words
           word == EncodeText(letters)
           found == Search(words, word)
<1>1. InOrder(words) /\ DOMAIN words = 1..Len(words)
  BY DEF WellFormed, InOrder
<1>2. /\ word \in Word
      /\ \A entry : SameWord(letters, entry) <=> entry = word
  BY EncodedIsSameWord
<1>3. LookUpWord(dictionary, letters) = found
  BY DEF LookUpWord
<1> HIDE DEF words, word
<1>4. /\ found = 0 => \A i \in 1..Len(words) : words[i] # word
      /\ found # 0 => found \in 1..Len(words) /\ words[found] = word
  BY <1>1, <1>2, SearchFinds
<1> HIDE DEF found
<1>5. IF found = 0
      THEN \A w \in DOMAIN words : ~SameWord(letters, words[w])
      ELSE found \in DOMAIN words /\ SameWord(letters, words[found])
  BY <1>1, <1>2, <1>4
<1> QED BY <1>3, <1>5 DEF words

(* A part of memory is a sequence of bytes. *)
LEMMA SpanIsBytes ==
    ASSUME NEW t \in [0..MaxText -> Byte], NEW start \in Nat, NEW length \in Nat,
           start + length - 1 <= MaxText
    PROVE  Span(t, start, length) \in Seq(Byte) /\ Len(Span(t, start, length)) = length
<1>1. MaxText \in Nat
  BY BoundAssumption
<1>2. \A i \in 1..length : start + i - 1 \in 0..MaxText
  BY <1>1
<1>3. \A i \in 1..length : t[start + i - 1] \in Byte
  BY <1>2
<1>4. Span(t, start, length) \in [1..length -> Byte]
  BY <1>3 DEF Span
<1> QED BY <1>4

(* The table that a text is divided into describes that text. *)
LEMMA TokenizeDescribes ==
    ASSUME BuffersOK, 256 <= MaxText, NEW t \in [0..MaxText -> Byte],
           NEW dictionary, WellFormed(dictionary), dictionary.sorted,
           NEW skip \in BOOLEAN, parse' = Tokenize(t, dictionary, skip)
    PROVE  Describes(t, dictionary, skip)
<1> DEFINE o == TokenOffset
           line == Span(t, o, BufLen(t))
           seps == dictionary.separators
           max == program.words
           all == SplitTokens(line, seps)
           tokens == SubSeq(all, 1, Smaller(Len(all), max))
           letters(k) == Span(t, o + tokens[k].start, tokens[k].length)
           word(k) == LookUpWord(dictionary, letters(k))
           Unknown(k) == \A w \in DOMAIN dictionary.words :
                             ~SameWord(letters(k), dictionary.words[w])
<1>1. /\ BufLen(t) \in Nat /\ o + BufLen(t) - 1 <= MaxText /\ o \in Nat
      /\ max \in Nat /\ MaxText \in Nat
  <2>1. BufLen(t) \in Nat /\ o + BufLen(t) - 1 <= MaxText
    BY BufLenIsNat
  <2>2. o \in Nat
    BY DEF TokenOffset
  <2>3. max \in Nat
    BY ProgramsAre, ByteBounds DEF BuffersOK
  <2>4. MaxText \in Nat
    BY BoundAssumption
  <2> QED BY <2>1, <2>2, <2>3, <2>4
<1>2. line \in Seq(Byte) /\ Len(line) = BufLen(t)
  BY <1>1, SpanIsBytes
<1>3. parse' = Parsed(t, tokens, dictionary, skip)
  BY Zenon DEF Tokenize
<1>4. seps \cap {9, Space} = {}
  BY DEF WellFormed
<1> HIDE DEF line, o, max
<1>5. /\ FirstTokens(line, seps, max) = tokens
      /\ \A k \in 1..Len(all) : all[k] \in TokensOf(line, seps)
      /\ all \in Seq(Places)
  <2> HIDE DEF seps
  <2> QED BY <1>1, <1>2, <1>4, SplitsFirstTokens
<1> HIDE DEF all
<1>6. /\ tokens \in Seq(Places) /\ Len(tokens) \in 0..max
      /\ \A k \in 1..Len(tokens) : tokens[k] \in TokensOf(line, seps)
  <2> DEFINE m == Smaller(Len(all), max)
  <2>1. m \in Nat /\ m <= Len(all) /\ m <= max
    BY <1>1, <1>5 DEF Smaller
  <2> HIDE DEF m, seps
  <2>2. /\ SubSeq(all, 1, m) \in Seq(Places) /\ Len(SubSeq(all, 1, m)) = m
        /\ \A k \in 1..m : SubSeq(all, 1, m)[k] = all[k] /\ k \in 1..Len(all)
    BY <1>5, <2>1
  <2>3. tokens = SubSeq(all, 1, m)
    BY Zenon DEF m
  <2> HIDE DEF tokens
  <2> QED BY <1>1, <1>5, <2>1, <2>2, <2>3
<1> HIDE DEF tokens, seps
<1>7. /\ parse'.count = Len(tokens)
      /\ parse'.entries = [k \in DOMAIN parse.entries |->
            IF k > Len(tokens) \/ (skip /\ word(k) = 0) THEN parse.entries[k]
            ELSE [word |-> word(k), length |-> tokens[k].length,
                  position |-> (o + tokens[k].start) % 256]]
  BY <1>3 DEF Parsed, Position, o
<1>8. DOMAIN parse.entries = 1..max + 1
  BY DEF BuffersOK, max
<1>9. ASSUME NEW k \in 1..Len(tokens)
      PROVE  /\ tokens[k].length = Len(letters(k))
             /\ IF word(k) = 0 THEN Unknown(k)
                ELSE /\ word(k) \in DOMAIN dictionary.words
                     /\ SameWord(letters(k), dictionary.words[word(k)])
  <2> DEFINE p == tokens[k].start
             l == tokens[k].length
  <2>1. p \in Nat /\ l \in Nat /\ l >= 1 /\ p + l <= Len(line)
    <3>1. tokens[k] \in TokensOf(line, seps)
      BY <1>6
    <3> HIDE DEF p, l
    <3> QED BY <1>2, <3>1, TokenIs DEF p, l
  <2> HIDE DEF p, l
  <2>2. o + p \in Nat /\ (o + p) + l - 1 <= MaxText
    BY <1>1, <1>2, <2>1
  <2>3. letters(k) \in Seq(Byte) /\ Len(letters(k)) = l
    BY <2>1, <2>2, SpanIsBytes DEF p, l
  <2> HIDE DEF letters
  <2>4. letters(k) \in Seq(Nat) /\ letters(k) # <<>>
    <3>1. Byte \subseteq Nat
      BY ByteBounds
    <3>2. Seq(Byte) \subseteq Seq(Nat)
      BY <3>1, SeqMonotonic, Zenon
    <3>3. letters(k) # <<>>
      BY <2>1, <2>3
    <3> QED BY <2>3, <3>2, <3>3
  <2>5. IF word(k) = 0 THEN Unknown(k)
        ELSE /\ word(k) \in DOMAIN dictionary.words
             /\ SameWord(letters(k), dictionary.words[word(k)])
    BY <2>4, WordLookedUp
  <2> HIDE DEF word, Unknown
  <2> QED BY <2>3, <2>5 DEF l
<1>10. ASSUME NEW k \in 1..Len(tokens)
       PROVE  \/ Entry(parse'.entries[k], o + tokens[k].start, letters(k), dictionary)
              \/ skip /\ parse'.entries[k] = parse.entries[k] /\ Unknown(k)
  <2>1. /\ tokens[k].length = Len(letters(k))
        /\ IF word(k) = 0 THEN Unknown(k)
           ELSE /\ word(k) \in DOMAIN dictionary.words
                /\ SameWord(letters(k), dictionary.words[word(k)])
    BY <1>9
  <2>2. k \in 1..max + 1 /\ ~(k > Len(tokens))
    BY <1>1, <1>6
  <2> HIDE DEF letters, word
  <2>3. parse'.entries[k] = IF skip /\ word(k) = 0 THEN parse.entries[k]
            ELSE [word |-> word(k), length |-> tokens[k].length,
                  position |-> (o + tokens[k].start) % 256]
    BY <1>7, <1>8, <2>2
  <2>4. CASE skip /\ word(k) = 0
    <3> HIDE DEF Unknown
    <3> QED BY <2>1, <2>3, <2>4
  <2>5. CASE ~(skip /\ word(k) = 0)
    <3> DEFINE e == parse'.entries[k]
    <3>1. /\ e.word = word(k) /\ e.length = Len(letters(k))
          /\ e.position = (o + tokens[k].start) % 256
      BY <2>1, <2>3, <2>5
    <3> HIDE DEF e
    <3>2. Entry(e, o + tokens[k].start, letters(k), dictionary)
      BY <2>1, <3>1 DEF Entry
    <3> QED BY <3>2 DEF e
  <2> QED BY <2>4, <2>5
<1>11. ListsTokens(t, tokens, dictionary, skip)
  <2>1. DOMAIN tokens = 1..Len(tokens)
    BY <1>6
  <2> QED BY <1>7, <1>10, <2>1 DEF ListsTokens, o
<1>12. FirstTokens(Span(t, TokenOffset, BufLen(t)), dictionary.separators, program.words)
         = tokens
  BY <1>5 DEF line, seps, o, max
<1> QED BY <1>11, <1>12 DEF Describes

(* What every step keeps. *)
StepFollows ==
    /\ inputs' # inputs /\ parse' # parse => Describes(text', MainDictionary, FALSE)
    /\ \A dictionary \in Dictionaries, skip \in BOOLEAN :
         dictionary.sorted /\ TokeniseInstruction(dictionary, skip) =>
             Describes(text', dictionary, skip)

LEMMA StoredLineFollows ==
    ASSUME 256 <= MaxText, MainDictionary.sorted, WellFormed(MainDictionary),
           BuffersOK, NEW line \in Inputs, StoreLine(line), parse' # parse
    PROVE  Describes(text', MainDictionary, FALSE)
<1> DEFINE t == Stored(line.text)
<1>1. line.text \in Seq(Byte)
  BY DEF Inputs
<1>2. t \in [0..MaxText -> Byte]
  BY <1>1, StoredStays DEF BuffersOK
<1>3. text' = t /\ parse' = Tokenize(t, MainDictionary, FALSE)
  BY DEF StoreLine
<1> HIDE DEF t
<1>4. Describes(t, MainDictionary, FALSE)
  BY <1>2, <1>3, TokenizeDescribes
<1> QED BY <1>3, <1>4

LEMMA NextFollows ==
    ASSUME 256 <= MaxText, MainDictionary.sorted,
           \A dictionary \in Dictionaries : WellFormed(dictionary),
           InputInv, [Next]_vars
    PROVE  StepFollows \/ UNCHANGED vars
<1>0. BuffersOK /\ FilesOK /\ program \in Programs /\ text \in [0..MaxText -> Byte]
  BY DEF InputInv, BuffersOK
<1>m. WellFormed(MainDictionary)
  BY DEF Dictionaries
<1>t. ASSUME NEW dictionary \in Dictionaries, NEW skip \in BOOLEAN,
             dictionary.sorted, TokeniseInstruction(dictionary, skip)
      PROVE  Describes(text', dictionary, skip)
  <2>1. text' = text /\ parse' = Tokenize(text, dictionary, skip)
    BY <1>t DEF TokeniseInstruction
  <2>2. WellFormed(dictionary)
    OBVIOUS
  <2>3. Describes(text, dictionary, skip)
    BY <1>0, <1>t, <2>1, <2>2, TokenizeDescribes
  <2> QED BY <2>1, <2>3
<1>i. ASSUME [Next]_vars, inputs' # inputs, parse' # parse
      PROVE  Describes(text', MainDictionary, FALSE)
  <2>1. CASE ReadLineFromFile
    <3> DEFINE line == LineIn(ReadLine(cmdRdr))
    <3>1. cmdRdr # NoFile /\ cmdRdr \in File /\ StoreLine(line)
      BY <1>0, <2>1 DEF ReadLineFromFile, FilesOK
    <3>2. line \in Inputs
      BY <3>1, FileLine
    <3> HIDE DEF line
    <3> QED BY <1>0, <1>m, <1>i, <3>1, <3>2, StoredLineFollows
  <2>2. ASSUME NEW line \in program.lines, FinishLine(line)
        PROVE  Describes(text', MainDictionary, FALSE)
    <3>1. StoreLine(line)
      BY <2>2 DEF FinishLine
    <3>2. line \in Inputs
      BY <1>0, TypedLine
    <3> QED BY <1>0, <1>m, <1>i, <3>1, <3>2, StoredLineFollows
  <2>3. \/ inputs' = inputs
        \/ parse' = parse
        \/ ReadLineFromFile
        \/ \E line \in program.lines : FinishLine(line)
    BY <1>i DEF Next, vars, memory, TokeniseInstruction, SelectKeyboard, SelectFile,
        SetRecording, WriteEnds, ReadKeyFromFile, AskPlayer, PlayerAnswers, TimerExpires,
        StartRoutine, RoutineReturns, FinishKey, BreakIn, Paused, Breaks, Resumes
  <2> QED BY <1>i, <2>1, <2>2, <2>3
<1> QED BY <1>t, <1>i DEF StepFollows

(* Whatever the line and the dictionary, the parse table that a read or     *)
(* op_tokenise fills lists the words of the text, as many as it has room    *)
(* for, with the low bytes of their places and the entries that have their  *)
(* first letters (SplitTokens, EncodeText and LookUpWord).  The entries of a*)
(* sorted dictionary have to be in order, for the binary search, no space   *)
(* may be a separator, and memory has to go on for 256 bytes from the buffer*)
(* on.                                                                      *)
THEOREM ParseAlwaysFollowsText ==
    ASSUME 256 <= MaxText, MainDictionary.sorted,
           \A dictionary \in Dictionaries : WellFormed(dictionary)
    PROVE  Spec => ParseFollowsText
<1>1. InputInv /\ [Next]_vars => [StepFollows]_vars
  BY NextFollows
<1> QED BY <1>1, InitInputInv, NextInputInv, PTL DEF Spec, ParseFollowsText, StepFollows
=============================================================================
