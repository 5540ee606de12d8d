------------------------- MODULE PreprocessProofs -------------------------
(***************************************************************************)
(* Type correctness and safety of one pass of the engine, proved for every *)
(* value of the constants: the types, with the lemmas on stacks and frames *)
(* every later proof about the pass rests on; how conditionals nest, what  *)
(* an including file may be, how truncation is reported; and what dead     *)
(* text and a limit may do: a line of dead text changes no table, no file  *)
(* and no output, and no pass is cut short in silence.                     *)
(***************************************************************************)
EXTENDS PreprocessProps, SequenceTheorems, Counting, TLAPS

---------------------------------------------------------------------------
(* Stacks. *)

\* Pop drops the last element and keeps the others.
LEMMA PopFacts ==
    ASSUME NEW S, NEW s \in Seq(S), s # <<>>
    PROVE  /\ Pop(s) \in Seq(S)
           /\ Len(Pop(s)) = Len(s) - 1
           /\ \A i \in 1 .. Len(s) - 1 : Pop(s)[i] = s[i]
  <1>1. Len(s) \in Nat \ {0}
    BY EmptySeq
  <1>2. \A i \in 1 .. Len(s) - 1 : s[i] \in S
    BY <1>1, LenProperties
  <1> DEFINE n == Len(s) - 1
  <1>3. n \in Nat
    BY <1>1
  <1>4. /\ SubSeq(s, 1, n) \in Seq(S)
        /\ Len(SubSeq(s, 1, n)) = IF 1 <= n THEN n - 1 + 1 ELSE 0
        /\ \A i \in 1 .. n - 1 + 1 : SubSeq(s, 1, n)[i] = s[1 + i - 1]
    BY <1>2, <1>3, SubSeqProperties
  <1> HIDE DEF n
  <1>5. Len(SubSeq(s, 1, n)) = n
    BY <1>3, <1>4
  <1>6. \A i \in 1 .. n : SubSeq(s, 1, n)[i] = s[i]
    BY <1>3, <1>4
  <1> QED
    BY <1>4, <1>5, <1>6 DEF Pop, n

\* SetLast replaces the last element and keeps the others.
LEMMA SetLastFacts ==
    ASSUME NEW S, NEW s \in Seq(S), s # <<>>, NEW x \in S
    PROVE  /\ SetLast(s, x) \in Seq(S)
           /\ Len(SetLast(s, x)) = Len(s)
           /\ SetLast(s, x) # <<>>
           /\ SetLast(s, x)[Len(s)] = x
           /\ \A i \in 1 .. Len(s) - 1 : SetLast(s, x)[i] = s[i]
  <1>1. Len(s) \in Nat \ {0} /\ Len(s) \in 1 .. Len(s)
    BY EmptySeq
  <1>2. /\ SetLast(s, x) \in Seq(S)
        /\ Len(SetLast(s, x)) = Len(s)
        /\ \A i \in 1 .. Len(s) :
              SetLast(s, x)[i] = IF i = Len(s) THEN x ELSE s[i]
    BY <1>1, ExceptSeq DEF SetLast
  <1>3. SetLast(s, x) # <<>>
    BY <1>1, <1>2, EmptySeq
  <1> QED
    BY <1>1, <1>2, <1>3

\* The last element of a stack is one of its elements.
LEMMA LastFacts ==
    ASSUME NEW S, NEW s \in Seq(S), s # <<>>
    PROVE  Len(s) \in Nat \ {0} /\ s[Len(s)] \in S
  <1>1. Len(s) \in Nat \ {0} /\ Len(s) \in 1 .. Len(s)
    BY EmptySeq
  <1> QED
    BY <1>1, LenProperties

\* The frames of a stack are frames.
LEMMA FrameFacts ==
    ASSUME NEW s \in Seq(Frames), NEW i \in DOMAIN s
    PROVE  /\ s[i] \in Frames
           /\ s[i].cond \in Seq(CondFrames)
           /\ Len(s[i].cond) \in Nat
           /\ DOMAIN s[i].cond = 1 .. Len(s[i].cond)
  <1>1. s[i] \in Frames
    BY LenProperties
  <1>2. s[i].cond \in Seq(CondFrames)
    BY <1>1 DEF Frames
  <1> QED
    BY <1>1, <1>2, LenProperties

\* The frame stack with another current frame.
LEMMA FramesWith ==
    ASSUME frames \in Seq(Frames), frames # <<>>, NEW f \in Frames
    PROVE  LET t == SetLast(frames, f) IN
           /\ t \in Seq(Frames) /\ Len(t) = Len(frames) /\ t[Len(frames)] = f
           /\ \A i \in 1 .. Len(frames) - 1 : t[i] = frames[i]
  BY SetLastFacts

\* The frame stack when the current frame becomes f.
LEMMA FramesRewritten ==
    ASSUME frames \in Seq(Frames), frames # <<>>, NEW f \in Frames,
           frames' = SetLast(frames, f)
    PROVE  /\ frames' \in Seq(Frames) /\ Len(frames') = Len(frames)
           /\ Len(frames) \in Nat \ {0}
           /\ DOMAIN frames = 1 .. Len(frames) /\ DOMAIN frames' = 1 .. Len(frames)
           /\ frames'[Len(frames)] = f
           /\ \A i \in 1 .. Len(frames) - 1 : frames'[i] = frames[i]
  <1> DEFINE t == SetLast(frames, f)
  <1>1. /\ t \in Seq(Frames) /\ Len(t) = Len(frames) /\ t[Len(frames)] = f
        /\ \A i \in 1 .. Len(frames) - 1 : t[i] = frames[i]
    BY FramesWith
  <1>2. frames' = t
    OBVIOUS
  <1> HIDE DEF t
  <1>3. Len(frames) \in Nat \ {0}
    BY EmptySeq
  <1>4. DOMAIN frames = 1 .. Len(frames) /\ DOMAIN t = 1 .. Len(frames)
    BY <1>1, LenProperties
  <1> QED
    BY <1>1, <1>2, <1>3, <1>4

\* The frame stack when the current frame becomes f and g is pushed on it.
LEMMA FramesPushed ==
    ASSUME frames \in Seq(Frames), frames # <<>>, NEW f \in Frames, NEW g \in Frames,
           frames' = Append(SetLast(frames, f), g)
    PROVE  /\ frames' \in Seq(Frames) /\ Len(frames') = Len(frames) + 1
           /\ Len(frames) \in Nat \ {0}
           /\ DOMAIN frames = 1 .. Len(frames) /\ DOMAIN frames' = 1 .. Len(frames) + 1
           /\ frames'[Len(frames) + 1] = g /\ frames'[Len(frames)] = f
           /\ \A i \in 1 .. Len(frames) - 1 : frames'[i] = frames[i]
  <1> DEFINE t == SetLast(frames, f)
  <1>1. /\ t \in Seq(Frames) /\ Len(t) = Len(frames) /\ t[Len(frames)] = f
        /\ \A i \in 1 .. Len(frames) - 1 : t[i] = frames[i]
    BY FramesWith
  <1>2. frames' = Append(t, g)
    OBVIOUS
  <1> HIDE DEF t
  <1>3. Len(frames) \in Nat \ {0}
    BY EmptySeq
  <1>4. /\ frames' \in Seq(Frames) /\ Len(frames') = Len(t) + 1
        /\ frames'[Len(t) + 1] = g
        /\ \A i \in 1 .. Len(t) : frames'[i] = t[i]
    BY <1>1, <1>2, AppendProperties
  <1>5. DOMAIN frames = 1 .. Len(frames) /\ DOMAIN frames' = 1 .. Len(frames')
    BY <1>4, LenProperties
  <1> QED
    BY <1>1, <1>3, <1>4, <1>5

\* The frame stack when the current frame is popped.
LEMMA FramesPopped ==
    ASSUME frames \in Seq(Frames), frames # <<>>, frames' = Pop(frames)
    PROVE  /\ frames' \in Seq(Frames) /\ Len(frames') = Len(frames) - 1
           /\ Len(frames) \in Nat \ {0}
           /\ DOMAIN frames = 1 .. Len(frames) /\ DOMAIN frames' = 1 .. Len(frames) - 1
           /\ \A i \in 1 .. Len(frames) - 1 : frames'[i] = frames[i]
  <1> DEFINE t == Pop(frames)
  <1>1. /\ t \in Seq(Frames) /\ Len(t) = Len(frames) - 1
        /\ \A i \in 1 .. Len(frames) - 1 : t[i] = frames[i]
    BY PopFacts
  <1>2. frames' = t
    OBVIOUS
  <1> HIDE DEF t
  <1>3. Len(frames) \in Nat \ {0}
    BY EmptySeq
  <1>4. DOMAIN frames = 1 .. Len(frames) /\ DOMAIN t = 1 .. Len(t)
    BY <1>1, LenProperties
  <1> QED
    BY <1>1, <1>2, <1>3, <1>4

---------------------------------------------------------------------------
(* The current frame. *)

\* While the pass is running there is a current frame, and it is well typed.
LEMMA TopType ==
    ASSUME TypeOK, phase \in {"prefix", "running"}
    PROVE  /\ frames \in Seq(Frames) /\ frames # <<>>
           /\ Len(frames) \in Nat \ {0}
           /\ Top \in Frames
           /\ Top.line \in LineIndices /\ Top.file \in Nat
           /\ Top.uri \in Uris \cup {"root"} /\ Top.endinput \in BOOLEAN
           /\ Top.inc \in IncludeRecords
           /\ Top.cond \in Seq(CondFrames)
           /\ Top.cond # <<>> => TopCond \in CondFrames
  <1>1. frames \in Seq(Frames) /\ frames # <<>>
    BY DEF TypeOK, FramesTypeOK, OutputTypeOK
  <1>2. Len(frames) \in Nat \ {0} /\ Top \in Frames
    BY <1>1, LastFacts DEF Top
  <1>3. /\ Top.line \in LineIndices /\ Top.file \in Nat
        /\ Top.uri \in Uris \cup {"root"} /\ Top.endinput \in BOOLEAN
        /\ Top.inc \in IncludeRecords
        /\ Top.cond \in Seq(CondFrames)
    BY <1>2 DEF Frames
  <1> QED
    BY <1>1, <1>2, <1>3, LastFacts DEF TopCond

\* Consuming a line leaves a well-typed frame with the given conditionals.
LEMMA PastType ==
    ASSUME TypeOK, phase \in {"prefix", "running"}, Top.line < MaxFileLines,
           NEW c \in Seq(CondFrames)
    PROVE  /\ Past(Top, c) \in Frames
           /\ Past(Top, c).cond = c
           /\ Past(Top, c).endinput = Top.endinput
  <1>1. Top \in Frames /\ Top.line + 1 \in LineIndices
    BY TopType, LimitsAssumption DEF LineIndices
  <1> QED
    BY <1>1 DEF Past, Frames

\* Consume replaces the current frame and keeps the frame stack well typed.
LEMMA ConsumeType ==
    ASSUME TypeOK, phase \in {"prefix", "running"}, Top.line < MaxFileLines,
           NEW c \in Seq(CondFrames), Consume(c)
    PROVE  frames' \in Seq(Frames) /\ frames' # <<>>
  BY TopType, PastType, SetLastFacts DEF Consume

\* The branch records stay well typed.
LEMMA CloseBranchType ==
    ASSUME TypeOK, phase = "running"
    PROVE  CloseBranch \in Seq(Branches) /\ Len(CloseBranch) = Len(branches)
  <1>1. branches \in Seq(Branches)
    BY DEF TypeOK, FramesTypeOK, OutputTypeOK
  <1>2. Top.line \in Nat
    BY TopType, LimitsAssumption DEF LineIndices
  <1>3. CASE TopCond.open \in 1 .. Len(branches)
    <2>1. branches[TopCond.open] \in Branches
      BY <1>1, <1>3, LenProperties
    <2>2. [branches[TopCond.open] EXCEPT !.to = Top.line] \in Branches
      BY <1>2, <2>1 DEF Branches
    <2> QED
      BY <1>1, <1>3, <2>2, ExceptSeq DEF CloseBranch
  <1>4. CASE TopCond.open \notin 1 .. Len(branches)
    BY <1>1, <1>4, LenProperties DEF CloseBranch
  <1> QED
    BY <1>3, <1>4

LEMMA BranchType ==
    ASSUME TypeOK, phase = "running", NEW k \in {"if", "elseif", "else"},
           NEW d \in Nat, NEW a \in BOOLEAN, NEW e \in BOOLEAN
    PROVE  Branch(k, d, a, e) \in Branches
  BY TopType, LimitsAssumption DEF Branch, Branches, LineIndices

---------------------------------------------------------------------------
(* Type correctness. *)

\* openBranch of the next branch of a conditional keeps the types.
LEMMA NextBranchType ==
    ASSUME TypeOK, phase = "running", Top.line < MaxFileLines, Top.cond # <<>>,
           NEW k \in {"if", "elseif", "else"}, NEW a \in BOOLEAN,
           NEW e \in BOOLEAN, NextBranch(k, a, e)
    PROVE  frames' \in Seq(Frames) /\ frames' # <<>> /\ branches' \in Seq(Branches)
  <1>1. /\ Top.cond \in Seq(CondFrames) /\ TopCond \in CondFrames
        /\ Len(Top.cond) \in Nat
    BY TopType, LenProperties
  <1>2. Len(branches) \in Nat
    BY LenProperties DEF TypeOK, FramesTypeOK, OutputTypeOK
  <1>3. [TopCond EXCEPT !.branchActive = a, !.taken = @ \/ a, !.open = NextIndex]
            \in CondFrames
    <2>1. NextIndex \in Nat \ {0}
      BY <1>2 DEF NextIndex
    <2>2. (TopCond.taken \/ a) \in BOOLEAN
      OBVIOUS
    <2> QED
      BY <1>1, <2>1, <2>2 DEF CondFrames
  <1>4. SetLast(Top.cond, [TopCond EXCEPT !.branchActive = a, !.taken = @ \/ a,
                                          !.open = NextIndex]) \in Seq(CondFrames)
    BY <1>1, <1>3, SetLastFacts
  <1>5. frames' \in Seq(Frames) /\ frames' # <<>>
    BY <1>4, ConsumeType DEF NextBranch
  <1>6. Branch(k, Len(Top.cond), a, e) \in Branches
    BY <1>1, BranchType
  <1> QED
    BY <1>5, <1>6, CloseBranchType, AppendProperties DEF NextBranch

\* SkipLine keeps the types.
LEMMA SkipLineType ==
    ASSUME TypeOK, phase = "running", Top.line < MaxFileLines, SkipLine
    PROVE  frames' \in Seq(Frames) /\ frames' # <<>>
  BY TopType, ConsumeType DEF SkipLine

\* A line of the running pass is read in a file that has one more.
LEMMA ReadLineFacts ==
    ASSUME TypeOK, NEW k, ReadLine(k)
    PROVE  phase = "running" /\ Top.line < MaxFileLines
  BY DEF ReadLine, Running

\* Every step of #if keeps the types.
LEMMA HandleIfType ==
    ASSUME TypeOK, NEW c \in Conditions, HandleIf(c)
    PROVE  TypeOK'
  <1>1. phase = "running" /\ Top.line < MaxFileLines
    BY ReadLineFacts DEF HandleIf
  <1>2. /\ Top.cond \in Seq(CondFrames) /\ Len(Top.cond) \in Nat
        /\ Active(Top) \in BOOLEAN
    <2>1. Top.cond \in Seq(CondFrames)
      BY <1>1, TopType
    <2>2. Top.cond # <<>> => TopCond.branchActive \in BOOLEAN
      BY <1>1, TopType DEF CondFrames
    <2> QED
      BY <2>1, <2>2, LenProperties DEF Active, TopCond
  <1>3. CASE IfOverflow
    <2>1. OverflowFrame(Active(Top)) \in CondFrames
      BY <1>2 DEF OverflowFrame, CondFrames
    <2>2. frames' \in Seq(Frames) /\ frames' # <<>>
      BY <1>1, <1>2, <1>3, <2>1, AppendProperties, ConsumeType DEF IfOverflow
    <2> QED
      BY <1>1, <1>3, <2>2 DEF HandleIf, IfOverflow, TypeOK, FramesTypeOK,
         SplicesTypeOK, TablesTypeOK, OutputTypeOK, tables, splices, context
  <1>4. CASE IfOpen(c)
    <2>1. PICK v \in EvalCondition(c) :
             LET parent == Active(Top)
                 active == parent /\ v = "true"
             IN  /\ Evaluate(parent, c, v)
                 /\ branches' = Append(branches,
                        Branch("if", Len(Top.cond) + 1, active, parent))
                 /\ Consume(Append(Top.cond,
                        CondFrame(parent, active, NextIndex)))
      BY <1>4 DEF IfOpen
    <2> DEFINE active == Active(Top) /\ v = "true"
    <2>a. active \in BOOLEAN
      BY <1>2
    <2>2. CondFrame(Active(Top), active, NextIndex) \in CondFrames
      <3>1. NextIndex \in Nat \ {0}
        BY LenProperties DEF NextIndex, TypeOK, OutputTypeOK
      <3> QED
        BY <1>2, <2>a, <3>1 DEF CondFrame, CondFrames
    <2>3. frames' \in Seq(Frames) /\ frames' # <<>>
      BY <1>1, <1>2, <2>1, <2>2, AppendProperties, ConsumeType
    <2>4. Branch("if", Len(Top.cond) + 1, active, Active(Top)) \in Branches
      <3> HIDE DEF active
      <3> QED
        BY <1>1, <1>2, <2>a, BranchType
    <2>5. branches' \in Seq(Branches)
      BY <2>1, <2>4, AppendProperties DEF TypeOK, OutputTypeOK
    <2>6. condCancelled' \in BOOLEAN
      BY <2>1 DEF Evaluate
    <2> QED
      BY <1>1, <1>4, <2>3, <2>5, <2>6 DEF HandleIf, IfOpen, TypeOK, FramesTypeOK,
         SplicesTypeOK, TablesTypeOK, OutputTypeOK, tables, splices, limits
  <1> QED
    BY <1>3, <1>4 DEF HandleIf

\* A step that consumes a line and changes nothing else but diags keeps the
\* types; so does one that closes the branch of an overflow frame.
LEMMA LineOnlyType ==
    ASSUME TypeOK, phase = "running", Top.line < MaxFileLines, SkipLine,
           branches' \in Seq(Branches),
           condCancelled' \in BOOLEAN,
           UNCHANGED <<tables, splices, outputTokens, limits, ctxDone, cancelled,
                       phase>>
    PROVE  TypeOK'
  <1>1. frames' \in Seq(Frames) /\ frames' # <<>>
    BY SkipLineType
  <1> QED
    BY <1>1 DEF TypeOK, FramesTypeOK, SplicesTypeOK, TablesTypeOK, OutputTypeOK,
       tables, splices, limits

\* A step that opens the next branch of a conditional keeps the types.
LEMMA NextBranchOnlyType ==
    ASSUME TypeOK, phase = "running", Top.line < MaxFileLines, Top.cond # <<>>,
           NEW k \in {"elseif", "else"}, NEW a \in BOOLEAN, NEW e \in BOOLEAN,
           NextBranch(k, a, e), condCancelled' \in BOOLEAN,
           UNCHANGED <<tables, splices, outputTokens, limits, ctxDone, cancelled,
                       phase>>
    PROVE  TypeOK'
  <1>1. frames' \in Seq(Frames) /\ frames' # <<>> /\ branches' \in Seq(Branches)
    BY NextBranchType
  <1> QED
    BY <1>1 DEF TypeOK, FramesTypeOK, SplicesTypeOK, TablesTypeOK, OutputTypeOK,
       tables, splices, limits

\* Unmatched and OverflowAlternative keep the types.
LEMMA AlternativeType ==
    ASSUME TypeOK, phase = "running", Top.line < MaxFileLines,
           NEW code, Unmatched(code) \/ OverflowAlternative,
           UNCHANGED <<tables, splices, outputTokens, limits, ctxDone, cancelled,
                       phase>>
    PROVE  TypeOK'
  <1>1. SkipLine /\ condCancelled' \in BOOLEAN /\ branches' \in Seq(Branches)
    <2>1. CASE Unmatched(code)
      BY <2>1 DEF Unmatched, TypeOK, OutputTypeOK
    <2>2. CASE OverflowAlternative
      <3>1. CloseBranch \in Seq(Branches)
        BY CloseBranchType
      <3> QED
        BY <2>2, <3>1 DEF OverflowAlternative, TypeOK, OutputTypeOK
    <2> QED
      BY <2>1, <2>2
  <1> QED
    BY <1>1, LineOnlyType

\* Every step of #elseif keeps the types.
LEMMA HandleElseifType ==
    ASSUME TypeOK, NEW c \in Conditions, HandleElseif(c)
    PROVE  TypeOK'
  <1>1. phase = "running" /\ Top.line < MaxFileLines
    BY ReadLineFacts DEF HandleElseif
  <1>2. UNCHANGED <<tables, splices, outputTokens, limits, ctxDone, cancelled, phase>>
    BY DEF HandleElseif
  <1>3. CASE Unmatched("unmatched-elseif") \/ OverflowAlternative
    BY <1>1, <1>2, <1>3, AlternativeType
  <1>4. CASE ElseifTaken
    <2>1. condCancelled' \in BOOLEAN
      BY <1>4 DEF ElseifTaken, TypeOK, OutputTypeOK
    <2> QED
      BY <1>1, <1>2, <1>4, <2>1, NextBranchOnlyType DEF ElseifTaken
  <1>5. CASE ElseifEvaluated(c)
    <2>1. PICK v \in EvalCondition(c) :
              /\ Evaluate(TopCond.parentActive, c, v)
              /\ NextBranch("elseif", TopCond.parentActive /\ v = "true",
                            TopCond.parentActive)
      BY <1>5 DEF ElseifEvaluated
    <2> DEFINE active == TopCond.parentActive /\ v = "true"
    <2>2. TopCond.parentActive \in BOOLEAN /\ Top.cond # <<>>
      BY <1>1, <1>5, TopType DEF CondFrames, ElseifEvaluated
    <2>3. active \in BOOLEAN
      BY <2>2
    <2>4. condCancelled' \in BOOLEAN
      BY <2>1 DEF Evaluate
    <2>5. NextBranch("elseif", active, TopCond.parentActive)
      BY <2>1
    <2> HIDE DEF active
    <2> QED
      BY <1>1, <1>2, <2>2, <2>3, <2>4, <2>5, NextBranchOnlyType
  <1> QED
    BY <1>3, <1>4, <1>5 DEF HandleElseif

\* Every step of #else keeps the types.
LEMMA HandleElseType ==
    ASSUME TypeOK, HandleElse
    PROVE  TypeOK'
  <1>1. phase = "running" /\ Top.line < MaxFileLines
    BY ReadLineFacts DEF HandleElse
  <1>2. UNCHANGED <<tables, splices, outputTokens, limits, ctxDone, cancelled, phase>>
    BY DEF HandleElse
  <1>3. CASE Unmatched("unmatched-else") \/ OverflowAlternative
    BY <1>1, <1>2, <1>3, AlternativeType
  <1>4. CASE ElseBranch
    <2>1. Top.cond # <<>> /\ TopCond.parentActive \in BOOLEAN
      BY <1>1, <1>4, TopType DEF CondFrames, ElseBranch
    <2>2. ElseActive \in BOOLEAN
      BY <2>1 DEF ElseActive
    <2>3. condCancelled' \in BOOLEAN
      BY <1>4 DEF ElseBranch, TypeOK, OutputTypeOK
    <2> QED
      BY <1>1, <1>2, <1>4, <2>1, <2>2, <2>3, NextBranchOnlyType DEF ElseBranch
  <1> QED
    BY <1>3, <1>4 DEF HandleElse

\* Every step of #endif keeps the types.
LEMMA HandleEndifType ==
    ASSUME TypeOK, HandleEndif
    PROVE  TypeOK'
  <1>1. phase = "running" /\ Top.line < MaxFileLines
    BY ReadLineFacts DEF HandleEndif
  <1>2. UNCHANGED <<tables, splices, outputTokens, limits, ctxDone, cancelled, phase>>
    BY DEF HandleEndif
  <1>3. CASE Unmatched("unmatched-endif")
    BY <1>1, <1>2, <1>3, AlternativeType
  <1>4. CASE Endif
    <2>1. Pop(Top.cond) \in Seq(CondFrames)
      BY <1>1, <1>4, TopType, PopFacts DEF Endif
    <2>2. frames' \in Seq(Frames) /\ frames' # <<>>
      BY <1>1, <1>4, <2>1, ConsumeType DEF Endif
    <2>3. branches' \in Seq(Branches)
      <3>1. CloseBranch \in Seq(Branches)
        BY <1>1, CloseBranchType
      <3> QED
        BY <1>4, <3>1 DEF Endif, TypeOK, OutputTypeOK
    <2> QED
      BY <1>1, <1>2, <1>4, <2>2, <2>3 DEF Endif, TypeOK, FramesTypeOK, SplicesTypeOK,
         TablesTypeOK, OutputTypeOK, tables, splices, limits
  <1> QED
    BY <1>3, <1>4 DEF HandleEndif

\* Emitting a token keeps the types of what it changes.
LEMMA AppendOutType ==
    ASSUME TypeOK, NEW names \in SUBSET Names, AppendOut(names)
    PROVE  /\ declared' \subseteq Names
           /\ outputTokens' \in Nat
           /\ truncated' \in BOOLEAN
           /\ stopped' \in BOOLEAN
  <1>1. /\ declared \subseteq Names /\ outputTokens \in Nat
        /\ truncated \in BOOLEAN /\ stopped \in BOOLEAN
    BY DEF TypeOK, TablesTypeOK, OutputTypeOK
  <1>2. CASE OutputClosed
    BY <1>1, <1>2 DEF AppendOut
  <1>3. CASE ~OutputClosed
    <2>1. /\ declared' = declared \cup names
          /\ outputTokens' = outputTokens + 1
          /\ truncated' = OutputFull
          /\ stopped' = (stopped \/ OutputFull)
      BY <1>3 DEF AppendOut
    <2>2. truncated' \in BOOLEAN /\ stopped' \in BOOLEAN
      BY <2>1 DEF OutputFull
    <2> QED
      BY <1>1, <2>1, <2>2
  <1> QED
    BY <1>2, <1>3

\* A step that reads text keeps the types, whatever it emits.
LEMMA TextType ==
    ASSUME TypeOK, phase = "running",
           frames' \in Seq(Frames), frames' # <<>>,
           declared' \subseteq Names, outputTokens' \in Nat,
           truncated' \in BOOLEAN, stopped' \in BOOLEAN,
           depthLimitWarned' \in BOOLEAN,
           UNCHANGED <<macros, symbols, splices, branches, context, phase>>
    PROVE  TypeOK'
  BY DEF TypeOK, FramesTypeOK, SplicesTypeOK, TablesTypeOK, OutputTypeOK,
     splices, context

\* Every step of a line of text keeps the types.
LEMMA EmitLineType ==
    ASSUME TypeOK, NEW names \in Declarations, EmitLine(names)
    PROVE  TypeOK'
  <1>1. phase = "running" /\ Top.line < MaxFileLines
    BY ReadLineFacts DEF EmitLine
  <1>2. frames' \in Seq(Frames) /\ frames' # <<>>
    BY <1>1, SkipLineType DEF EmitLine
  <1>3. /\ declared' \subseteq Names /\ outputTokens' \in Nat
        /\ truncated' \in BOOLEAN /\ stopped' \in BOOLEAN
    <2>1. names \in SUBSET Names
      BY DEF Declarations
    <2>2. CASE Active(Top)
      BY <2>1, <2>2, AppendOutType DEF EmitLine
    <2>3. CASE ~Active(Top)
      BY <2>3 DEF EmitLine, TypeOK, TablesTypeOK, OutputTypeOK
    <2> QED
      BY <2>2, <2>3
  <1>4. depthLimitWarned' \in BOOLEAN
    BY DEF EmitLine, TypeOK, OutputTypeOK
  <1>5. UNCHANGED <<macros, symbols, splices, branches, context, phase>>
    BY DEF EmitLine
  <1> QED
    BY <1>1, <1>2, <1>3, <1>4, <1>5, TextType

\* Moving the current frame to a later line keeps the frame stack well typed.
LEMMA MoveType ==
    ASSUME TypeOK, phase = "running", NEW next \in LineIndices,
           frames' = SetLast(frames, [Top EXCEPT !.line = next])
    PROVE  frames' \in Seq(Frames) /\ frames' # <<>>
  <1>1. [Top EXCEPT !.line = next] \in Frames
    BY TopType DEF Frames
  <1> QED
    BY <1>1, TopType, SetLastFacts

\* Every step of a macro invocation keeps the types.
LEMMA ExpandLineType ==
    ASSUME TypeOK, NEW n \in Names, ExpandLine(n)
    PROVE  TypeOK'
  <1>1. phase = "running" /\ Top.line < MaxFileLines /\ Top.line \in Nat
    BY ReadLineFacts, TopType, LimitsAssumption DEF ExpandLine, LineIndices
  <1>2. UNCHANGED <<macros, symbols, splices, branches, context, phase>>
    BY DEF ExpandLine
  <1>3. /\ declared \subseteq Names /\ outputTokens \in Nat
        /\ truncated \in BOOLEAN /\ stopped \in BOOLEAN
        /\ depthLimitWarned \in BOOLEAN
    BY DEF TypeOK, TablesTypeOK, OutputTypeOK
  <1>4. CASE ExpandReplaced
    <2>1. PICK next \in (Top.line + 1) .. MaxFileLines :
              frames' = SetLast(frames, [Top EXCEPT !.line = next])
      BY <1>4 DEF ExpandReplaced
    <2>2. next \in LineIndices
      BY <1>1, LimitsAssumption DEF LineIndices
    <2>3. frames' \in Seq(Frames) /\ frames' # <<>>
      BY <1>1, <2>1, <2>2, MoveType
    <2>4. /\ declared' \subseteq Names /\ outputTokens' \in Nat
          /\ truncated' \in BOOLEAN /\ stopped' \in BOOLEAN
      <3>1. CASE UNCHANGED <<declared, outputTokens, truncated, stopped, diags>>
        BY <1>3, <3>1
      <3>2. ASSUME NEW names \in Declarations, AppendOut(names)
            PROVE  /\ declared' \subseteq Names /\ outputTokens' \in Nat
                   /\ truncated' \in BOOLEAN /\ stopped' \in BOOLEAN
        <4>1. names \in SUBSET Names
          BY DEF Declarations
        <4> QED
          BY <3>2, <4>1, AppendOutType
      <3> QED
        BY <1>4, <3>1, <3>2 DEF ExpandReplaced
    <2> QED
      BY <1>1, <1>2, <1>3, <1>4, <2>3, <2>4, TextType DEF ExpandReplaced
  <1>5. CASE ExpandUnterminated
    <2>1. frames' \in Seq(Frames) /\ frames' # <<>>
      <3>1. MaxFileLines \in LineIndices
        BY LimitsAssumption DEF LineIndices
      <3> QED
        BY <1>1, <1>5, <3>1, MoveType DEF ExpandUnterminated
    <2>2. AppendOut({}) /\ {} \in SUBSET Names
      BY <1>5 DEF ExpandUnterminated
    <2> QED
      BY <1>1, <1>2, <1>3, <1>5, <2>1, <2>2, AppendOutType, TextType
         DEF ExpandUnterminated
  <1>6. CASE ExpandTooDeep
    <2>1. frames' \in Seq(Frames) /\ frames' # <<>>
      BY <1>1, <1>6, SkipLineType DEF ExpandTooDeep
    <2> QED
      BY <1>1, <1>2, <1>3, <1>6, <2>1, TextType DEF ExpandTooDeep
  <1> QED
    BY <1>4, <1>5, <1>6 DEF ExpandLine

\* Every step of the directives that read one line and touch no conditional
\* and no include keeps the types.
LEMMA DirectiveType ==
    ASSUME TypeOK, NEW n, NEW body, NEW c, NEW code,
           \/ body \in Bodies /\ HandleDefine(n, body)
           \/ HandleUndef(n)
           \/ HandleAssert(c)
           \/ HandleMessage(code)
           \/ HandleEndinput
    PROVE  TypeOK'
  <1>1. phase = "running" /\ Top.line < MaxFileLines
    BY ReadLineFacts DEF HandleDefine, HandleUndef, HandleAssert, HandleMessage,
       HandleEndinput
  <1>2. /\ macros \in [Names -> Bodies \cup {NoMacro}] /\ symbols \subseteq Names
        /\ declared \subseteq Names
    BY DEF TypeOK, TablesTypeOK
  <1>3. frames' \in Seq(Frames) /\ frames' # <<>>
    <2>1. CASE SkipLine
      BY <1>1, <2>1, SkipLineType
    <2>2. CASE HandleEndinput
      <3> DEFINE past == Past(Top, Top.cond)
      <3>1. past \in Frames
        BY <1>1, TopType, PastType
      <3>2. Active(Top) \in BOOLEAN
        BY <1>1, TopType DEF Active, TopCond, CondFrames
      <3> HIDE DEF past
      <3>3. [past EXCEPT !.endinput = Active(Top)] \in Frames
        BY <3>1, <3>2 DEF Frames
      <3>4. frames' = SetLast(frames, [past EXCEPT !.endinput = Active(Top)])
        BY <2>2 DEF HandleEndinput, past
      <3> QED
        BY <1>1, <3>3, <3>4, TopType, SetLastFacts
    <2> QED
      BY <2>1, <2>2 DEF HandleDefine, HandleUndef, HandleAssert, HandleMessage
  <1>4. UNCHANGED <<declared, splices, branches, outputTokens, limits, ctxDone,
                    cancelled, phase>>
    BY DEF HandleDefine, HandleUndef, HandleAssert, HandleMessage, HandleEndinput,
       tables, context
  <1>5. macros' \in [Names -> Bodies \cup {NoMacro}] /\ symbols' \subseteq Names
    <2>1. CASE body \in Bodies /\ HandleDefine(n, body)
      BY <1>2, <2>1 DEF HandleDefine
    <2>2. CASE HandleUndef(n)
      BY <1>2, <2>2 DEF HandleUndef
    <2>3. CASE UNCHANGED tables
      BY <1>2, <2>3 DEF tables
    <2> QED
      BY <2>1, <2>2, <2>3 DEF HandleAssert, HandleMessage, HandleEndinput
  <1>6. condCancelled' \in BOOLEAN
    <2>1. CASE HandleAssert(c)
      BY <2>1 DEF HandleAssert
    <2>2. CASE UNCHANGED context
      BY <2>2 DEF context, TypeOK, OutputTypeOK
    <2> QED
      BY <2>1, <2>2 DEF HandleDefine, HandleUndef, HandleMessage, HandleEndinput
  <1> QED
    BY <1>1, <1>2, <1>3, <1>4, <1>5, <1>6 DEF TypeOK, FramesTypeOK, SplicesTypeOK,
       TablesTypeOK, OutputTypeOK, splices, limits

\* A new frame is well typed.
LEMMA NewFrameType ==
    ASSUME NEW file \in Nat, NEW uri \in Uris \cup {"root"}, NEW inc \in IncludeRecords
    PROVE  NewFrame(file, uri, inc) \in Frames
  <1>1. <<>> \in Seq(CondFrames) /\ 0 \in LineIndices
    BY EmptySeq, LimitsAssumption DEF LineIndices
  <1> QED
    BY <1>1 DEF NewFrame, Frames

\* A step that may splice a file keeps the types when the frames, the files,
\* the stack and the records it writes are well typed.
LEMMA SpliceStepType ==
    ASSUME TypeOK, phase' \in {"prefix", "running"},
           frames' \in Seq(Frames), frames' # <<>>,
           SplicesTypeOK', symbols' \subseteq Names,
           truncated' \in BOOLEAN, stopped' \in BOOLEAN, cancelled' \in BOOLEAN,
           UNCHANGED <<macros, declared, branches, outputTokens, depthLimitWarned,
                       ctxDone, condCancelled>>
    PROVE  TypeOK'
  BY DEF TypeOK, FramesTypeOK, TablesTypeOK, OutputTypeOK

\* Splicing a file keeps the types.
LEMMA SpliceType ==
    ASSUME TypeOK, phase \in {"prefix", "running"}, NEW parent \in Frames,
           NEW uri \in Uris, NEW inc \in IncludeRecords,
           SpliceInclude(parent, uri, inc)
    PROVE  frames' \in Seq(Frames) /\ frames' # <<>> /\ SplicesTypeOK'
  <1>1. /\ files \in Seq(FileRecords)
        /\ includeStack \in [Uris -> Int] /\ includes \in Seq(IncludeRecords)
        /\ Len(files) \in Nat /\ Len(frames) \in Nat
    BY TopType, LenProperties DEF TypeOK, SplicesTypeOK
  <1>2. NewFrame(Len(files) + 1, uri, inc) \in Frames
    <2>1. Len(files) + 1 \in Nat
      BY <1>1
    <2>2. uri \in Uris \cup {"root"}
      OBVIOUS
    <2> QED
      BY <2>1, <2>2, NewFrameType
  <1>3. SetLast(frames, parent) \in Seq(Frames)
    BY TopType, SetLastFacts
  <1>4. frames' \in Seq(Frames) /\ frames' # <<>>
    BY <1>2, <1>3, AppendProperties DEF SpliceInclude
  <1>5. [uri |-> uri, path |-> inc.path, depth |-> Len(frames)]
            \in FileRecords
    BY <1>1 DEF IncludeRecords, FileRecords
  <1>6. files' \in Seq(FileRecords)
    BY <1>1, <1>5, AppendProperties DEF SpliceInclude
  <1>7. includeStack' \in [Uris -> Int] /\ includes' = includes
    <2>1. /\ includeStack' = [includeStack EXCEPT ![uri] = @ + 1]
          /\ includes' = includes
      BY DEF SpliceInclude
    <2>2. includeStack \in [Uris -> Int]
      BY DEF TypeOK, SplicesTypeOK
    <2> QED
      BY <2>1, <2>2
  <1> QED
    BY <1>1, <1>4, <1>6, <1>7 DEF SplicesTypeOK

\* An include directive that reads no file keeps the types.
LEMMA RecordOnlyType ==
    ASSUME TypeOK, phase = "running", Top.line < MaxFileLines,
           NEW inc \in IncludeRecords, NEW when, NEW code,
           RecordOnly(inc, when, code)
    PROVE  /\ frames' \in Seq(Frames) /\ frames' # <<>> /\ SplicesTypeOK'
           /\ UNCHANGED <<cancelled, stopped>>
  <1>1. frames' \in Seq(Frames) /\ frames' # <<>>
    BY SkipLineType DEF RecordOnly
  <1>2. includes' \in Seq(IncludeRecords)
    BY AppendProperties DEF RecordOnly, TypeOK, SplicesTypeOK
  <1> QED
    BY <1>1, <1>2 DEF RecordOnly, TypeOK, SplicesTypeOK

\* The record of an include directive is well typed.
LEMMA IncludeRecordType ==
    ASSUME TypeOK, phase = "running", NEW path \in Paths,
           NEW optional \in BOOLEAN, NEW resolved \in BOOLEAN
    PROVE  IncludeRecord(path, optional, resolved) \in IncludeRecords
  <1>1. Top.file \in Nat
    BY TopType
  <1> QED
    BY <1>1 DEF IncludeRecord, IncludeRecords

\* Every step of #include and #tryinclude keeps the types.
LEMMA HandleIncludeType ==
    ASSUME TypeOK, NEW path \in Paths, NEW optional \in BOOLEAN,
           HandleInclude(path, optional)
    PROVE  TypeOK'
  <1>1. phase = "running" /\ Top.line < MaxFileLines
    BY ReadLineFacts DEF HandleInclude, IncludeApplies
  <1>2. UNCHANGED <<macros, declared, branches, outputTokens, depthLimitWarned,
                    ctxDone, condCancelled, phase>>
    BY DEF HandleInclude, IncludeApplies
  <1>3. /\ symbols \subseteq Names /\ truncated \in BOOLEAN
        /\ stopped \in BOOLEAN /\ cancelled \in BOOLEAN /\ SplicesTypeOK
    BY DEF TypeOK, TablesTypeOK, OutputTypeOK
  <1> SUFFICES /\ frames' \in Seq(Frames) /\ frames' # <<>> /\ SplicesTypeOK'
               /\ symbols' \subseteq Names /\ truncated' \in BOOLEAN
               /\ stopped' \in BOOLEAN /\ cancelled' \in BOOLEAN
    BY <1>1, <1>2, SpliceStepType
  <1>4. CASE IncludeInactive
    <2>1. frames' \in Seq(Frames) /\ frames' # <<>>
      BY <1>1, <1>4, SkipLineType DEF IncludeInactive, IncludeApplies
    <2> QED
      BY <1>3, <1>4, <2>1 DEF IncludeInactive, SplicesTypeOK, splices
  <1>5. CASE IncludeUnresolved(path, optional)
    <2> DEFINE inc == IncludeRecord(path, optional, FALSE)
    <2>1. inc \in IncludeRecords
      BY <1>1, IncludeRecordType
    <2>2. PICK when, code : RecordOnly(inc, when, code)
      BY <1>5 DEF IncludeUnresolved
    <2>3. UNCHANGED <<symbols, truncated>>
      BY <1>5 DEF IncludeUnresolved
    <2> HIDE DEF inc
    <2> QED
      BY <1>1, <1>3, <2>1, <2>2, <2>3, RecordOnlyType
  <1>6. ASSUME NEW uri \in Uris, IncludeResolved(path, optional, uri)
        PROVE  /\ frames' \in Seq(Frames) /\ frames' # <<>> /\ SplicesTypeOK'
               /\ symbols' \subseteq Names /\ truncated' \in BOOLEAN
               /\ stopped' \in BOOLEAN /\ cancelled' \in BOOLEAN
    <2> DEFINE inc == IncludeRecord(path, optional, TRUE)
    <2>1. inc \in IncludeRecords
      BY <1>1, IncludeRecordType
    <2>2. CASE /\ RecordOnly(inc, TRUE, "include-cycle")
               /\ UNCHANGED <<symbols, truncated>>
      <3> HIDE DEF inc
      <3> QED
        BY <1>1, <1>3, <2>1, <2>2, RecordOnlyType
    <2>3. CASE /\ RecordOnly(inc, TRUE, "include-depth-limit")
               /\ truncated' = TRUE /\ UNCHANGED symbols
      <3> HIDE DEF inc
      <3> QED
        BY <1>1, <1>3, <2>1, <2>3, RecordOnlyType
    <2>4. CASE /\ symbols' = IF Compatibility THEN symbols \cup {CompatName[path]}
                             ELSE symbols
               /\ \/ SpliceInclude(Past(Top, Top.cond), uri, inc)
                  \/ SpliceCancelled /\ SkipLine /\ UNCHANGED includes
               /\ UNCHANGED truncated
      <3>1. symbols' \subseteq Names /\ truncated' \in BOOLEAN
        BY <1>3, <2>4, NamesAssumption
      <3>2. CASE SpliceInclude(Past(Top, Top.cond), uri, inc)
        <4>1. Past(Top, Top.cond) \in Frames
          BY <1>1, TopType, PastType
        <4>2. UNCHANGED <<cancelled, stopped>>
          BY <3>2 DEF SpliceInclude
        <4> HIDE DEF inc
        <4> QED
          BY <1>1, <1>3, <2>1, <3>1, <3>2, <4>1, <4>2, SpliceType
      <3>3. CASE SpliceCancelled /\ SkipLine /\ UNCHANGED includes
        <4>1. frames' \in Seq(Frames) /\ frames' # <<>>
          BY <1>1, <3>3, SkipLineType
        <4> QED
          BY <1>3, <3>1, <3>3, <4>1 DEF SpliceCancelled, SplicesTypeOK
      <3> QED
        BY <2>4, <3>2, <3>3
    <2> QED
      BY <1>6, <2>2, <2>3, <2>4 DEF IncludeResolved
  <1> QED
    BY <1>4, <1>5, <1>6, FilesAssumption DEF HandleInclude, IncludeApplies

\* The implicit prefix keeps the types.
LEMMA ImplicitPrefixType ==
    ASSUME TypeOK, ImplicitPrefix
    PROVE  TypeOK'
  <1>1. phase = "prefix" /\ phase' = "running"
    BY DEF ImplicitPrefix
  <1> DEFINE optional == Prefix = "optional"
             inc == [NoInclude EXCEPT !.file = 1, !.path = "prefix",
                                      !.optional = optional]
             found == [inc EXCEPT !.resolved = TRUE]
  <1>2. inc \in IncludeRecords /\ found \in IncludeRecords
    <2>1. optional \in BOOLEAN
      OBVIOUS
    <2> HIDE DEF optional
    <2> QED
      BY <2>1 DEF NoInclude, IncludeRecords
  <1>3. /\ frames \in Seq(Frames) /\ frames # <<>>
        /\ stopped \in BOOLEAN /\ cancelled \in BOOLEAN /\ SplicesTypeOK
    BY <1>1 DEF TypeOK, FramesTypeOK, OutputTypeOK
  <1>4. symbols' \subseteq Names /\ truncated' \in BOOLEAN
    BY DEF ImplicitPrefix, tables, TypeOK, TablesTypeOK, OutputTypeOK
  <1>5. UNCHANGED <<macros, declared, branches, outputTokens, depthLimitWarned,
                    ctxDone, condCancelled>>
    BY DEF ImplicitPrefix, tables
  <1> SUFFICES /\ frames' \in Seq(Frames) /\ frames' # <<>> /\ SplicesTypeOK'
               /\ stopped' \in BOOLEAN /\ cancelled' \in BOOLEAN
    <2>1. phase' \in {"prefix", "running"}
      BY <1>1
    <2> HIDE DEF optional, inc, found
    <2> QED
      BY <1>4, <1>5, <2>1, SpliceStepType
  <1>6. CASE UNCHANGED <<frames, splices, diags, cancelled, stopped>>
    BY <1>3, <1>6 DEF SplicesTypeOK, splices
  <1>7. CASE /\ includes' = Append(includes, inc)
             /\ UNCHANGED <<frames, files, includeStack, cancelled, stopped>>
    <2>1. includes' \in Seq(IncludeRecords)
      <3> HIDE DEF inc
      <3> QED
        BY <1>2, <1>3, <1>7, AppendProperties DEF SplicesTypeOK
    <2> QED
      BY <1>3, <1>7, <2>1 DEF SplicesTypeOK
  <1>8. ASSUME NEW uri \in Uris, SpliceInclude(Top, uri, found)
        PROVE  /\ frames' \in Seq(Frames) /\ frames' # <<>> /\ SplicesTypeOK'
               /\ stopped' \in BOOLEAN /\ cancelled' \in BOOLEAN
    <2>1. UNCHANGED <<cancelled, stopped>>
      BY <1>8 DEF SpliceInclude
    <2>2. phase \in {"prefix", "running"} /\ Top \in Frames
      BY <1>1, TopType
    <2> HIDE DEF found
    <2> QED
      BY <1>2, <1>3, <1>8, <2>1, <2>2, SpliceType
  <1>9. CASE /\ SpliceCancelled
             /\ includes' = Append(includes, found)
             /\ UNCHANGED frames
    <2>1. includes' \in Seq(IncludeRecords)
      <3> HIDE DEF found
      <3> QED
        BY <1>2, <1>3, <1>9, AppendProperties DEF SplicesTypeOK
    <2>2. /\ UNCHANGED <<files, includeStack>>
          /\ stopped' \in BOOLEAN /\ cancelled' \in BOOLEAN
      BY <1>9 DEF SpliceCancelled
    <2> QED
      BY <1>3, <1>9, <2>1, <2>2 DEF SplicesTypeOK
  <1> QED
    BY <1>6, <1>7, <1>8, <1>9, FilesAssumption DEF ImplicitPrefix

\* The return from a file keeps the types: the frame stack becomes empty
\* exactly when the pass ends.
LEMMA FinishFrameType ==
    ASSUME TypeOK, FinishFrame
    PROVE  TypeOK'
  <1>1. phase = "running" /\ frames' = Pop(frames)
    BY DEF FinishFrame, FileLeft, Outcome
  <1>2. /\ frames \in Seq(Frames) /\ frames # <<>> /\ Len(frames) \in Nat \ {0}
        /\ Top.inc \in IncludeRecords /\ Top.file \in Nat
    BY <1>1, TopType
  <1>3. frames' \in Seq(Frames) /\ Len(frames') = Len(frames) - 1
    BY <1>1, <1>2, PopFacts
  <1>4. UNCHANGED <<tables, files, branches, outputTokens, limits, context>>
    BY DEF FinishFrame, FileLeft, Outcome
  <1>5. includeStack \in [Uris -> Int] /\ includes \in Seq(IncludeRecords)
    BY DEF TypeOK, SplicesTypeOK
  <1>6. CASE Len(frames) > 1
    <2>1. /\ includeStack' = Leave
          /\ includes' = Append(includes, Returned) /\ UNCHANGED phase
      BY <1>6 DEF FinishFrame, FileLeft, Outcome
    <2>2. includeStack' \in [Uris -> Int]
      <3> DEFINE u == Top.uri
      <3>1. includeStack' = [includeStack EXCEPT ![u] = @ - 1]
        BY <2>1 DEF Leave
      <3> HIDE DEF u
      <3>2. CASE u \in Uris
        BY <1>5, <3>1, <3>2
      <3>3. CASE u \notin Uris
        BY <1>5, <3>1, <3>3
      <3> QED
        BY <3>2, <3>3
    <2>3. Returned \in IncludeRecords
      BY <1>2 DEF Returned, IncludeRecords
    <2>4. includes' \in Seq(IncludeRecords)
      BY <1>5, <2>1, <2>3, AppendProperties
    <2>5. frames' # <<>>
      BY <1>2, <1>3, <1>6, EmptySeq
    <2> QED
      BY <1>1, <1>3, <1>4, <2>1, <2>2, <2>4, <2>5 DEF TypeOK, FramesTypeOK,
         SplicesTypeOK, TablesTypeOK, OutputTypeOK, tables, limits, context
  <1>7. CASE ~(Len(frames) > 1)
    <2>1. /\ phase' \in {"ok", "error"}
          /\ UNCHANGED <<includeStack, includes>>
      BY <1>7 DEF FinishFrame, FileLeft, Outcome
    <2>2. frames' = <<>>
      BY <1>2, <1>3, <1>7, EmptySeq
    <2> QED
      BY <1>3, <1>4, <2>1, <2>2 DEF TypeOK, FramesTypeOK,
         SplicesTypeOK, TablesTypeOK, OutputTypeOK, tables, limits, context
  <1> QED
    BY <1>6, <1>7

\* Cancelling the context and noticing it keep the types.
LEMMA CancelType ==
    ASSUME TypeOK, CancelContext \/ PollCancellation
    PROVE  TypeOK'
  BY DEF CancelContext, PollCancellation, TypeOK, FramesTypeOK, SplicesTypeOK,
     TablesTypeOK, OutputTypeOK, tables, splices, limits

\* A step that changes no variable keeps the types.
LEMMA StutterType ==
    ASSUME TypeOK, UNCHANGED vars
    PROVE  TypeOK'
  BY DEF vars, TypeOK, FramesTypeOK, SplicesTypeOK, TablesTypeOK, OutputTypeOK,
     Top, tables, splices, limits, context

\* The initial state is well typed.
LEMMA InitType == Init => TypeOK
  <1> SUFFICES ASSUME Init PROVE TypeOK
    OBVIOUS
  <1>1. frames = <<NewFrame(1, "root", NoInclude)>>
    BY DEF Init
  <1>2. NewFrame(1, "root", NoInclude) \in Frames
    <2>1. NoInclude \in IncludeRecords
      BY DEF NoInclude, IncludeRecords
    <2> QED
      BY <2>1, NewFrameType
  <1>3. FramesTypeOK
    <2>1. frames \in Seq(Frames) /\ frames # <<>>
      BY <1>1, <1>2
    <2> QED
      BY <2>1 DEF Init, FramesTypeOK
  <1>4. SplicesTypeOK
    <2>1. files \in Seq(FileRecords)
      <3>1. files = <<[uri |-> "root", path |-> "", depth |-> 0]>>
        BY DEF Init
      <3>2. [uri |-> "root", path |-> "", depth |-> 0]
               \in FileRecords
        BY DEF FileRecords
      <3> DEFINE root == [uri |-> "root", path |-> "", depth |-> 0]
      <3> HIDE DEF root
      <3>3. root \in FileRecords /\ files = <<root>>
        BY <3>1, <3>2 DEF root
      <3> QED
        BY <3>3
    <2>2. includeStack \in [Uris -> Int] /\ includes \in Seq(IncludeRecords)
      <3>1. includeStack = [u \in Uris |-> 0] /\ includes = <<>>
        BY DEF Init
      <3> QED
        BY <3>1, EmptySeq
    <2> QED
      BY <2>1, <2>2 DEF SplicesTypeOK
  <1>5. TablesTypeOK
    BY DEF Init, TablesTypeOK
  <1>6. OutputTypeOK
    BY EmptySeq DEF Init, OutputTypeOK
  <1> QED
    BY <1>3, <1>4, <1>5, <1>6 DEF TypeOK

\* Every step keeps the types.
LEMMA TypeStep ==
    ASSUME TypeOK, [Next]_vars
    PROVE  TypeOK'
  <1>1. CASE \E c \in Conditions : HandleIf(c) \/ HandleElseif(c)
    BY <1>1, HandleIfType, HandleElseifType
  <1>2. CASE HandleElse \/ HandleEndif
    BY <1>2, HandleElseType, HandleEndifType
  <1>3. CASE \E names \in Declarations : EmitLine(names)
    BY <1>3, EmitLineType
  <1>4. CASE \E n \in Names : ExpandLine(n)
    BY <1>4, ExpandLineType
  <1>5. CASE \/ \E c \in Conditions : HandleAssert(c)
             \/ \E n \in Names : HandleUndef(n)
             \/ \E n \in Names, body \in Bodies : HandleDefine(n, body)
             \/ \E code \in MessageCodes : HandleMessage(code)
             \/ HandleEndinput
    BY <1>5, DirectiveType
  <1>6. CASE \E path \in Paths, optional \in BOOLEAN : HandleInclude(path, optional)
    BY <1>6, HandleIncludeType
  <1>7. CASE ImplicitPrefix \/ FinishFrame
    BY <1>7, ImplicitPrefixType, FinishFrameType
  <1>8. CASE CancelContext \/ PollCancellation
    BY <1>8, CancelType
  <1>9. CASE UNCHANGED vars
    BY <1>9, StutterType
  <1> QED
    BY <1>1, <1>2, <1>3, <1>4, <1>5, <1>6, <1>7, <1>8, <1>9 DEF Next, Step

\* The engine's state stays well typed for any limits, names and resolver: in
\* particular the frame stack is empty exactly when the pass has ended.
THEOREM TypeCorrect == Spec => []TypeOK
  <1> QED
    BY InitType, TypeStep, PTL DEF Spec


---------------------------------------------------------------------------
(* Nesting of conditionals. *)

\* The text after the conditionals c is live (frame.currentActive).
Live(c) == c # <<>> => c[Len(c)].branchActive

\* No conditionals nest.
LEMMA NestedEmpty == Nested(<<>>)
  BY EmptySeq DEF Nested

\* Pushing a conditional that remembers the liveness of the text around it
\* keeps the conditionals nested.
LEMMA NestedAppend ==
    ASSUME NEW c \in Seq(CondFrames), Nested(c), NEW x \in CondFrames,
           x.parentActive = Live(c),
           x.branchActive => x.parentActive /\ x.taken,
           x.overflow <=> Len(c) + 1 > MaxConditionalDepth,
           x.overflow => x.taken
    PROVE  Nested(Append(c, x))
  <1> DEFINE d == Append(c, x)
  <1>1. /\ d \in Seq(CondFrames) /\ Len(d) = Len(c) + 1 /\ Len(c) \in Nat
        /\ \A i \in 1 .. Len(c) : d[i] = c[i]
        /\ d[Len(c) + 1] = x
    BY AppendProperties, LenProperties
  <1>2. DOMAIN d = 1 .. Len(c) + 1 /\ DOMAIN c = 1 .. Len(c)
    BY <1>1, LenProperties
  <1>3. Len(c) = 0 <=> c = <<>>
    BY EmptySeq
  <1> HIDE DEF d
  <1> SUFFICES ASSUME NEW j \in 1 .. Len(c) + 1
               PROVE  /\ d[j].parentActive = (j = 1 \/ d[j-1].branchActive)
                      /\ d[j].branchActive => d[j].parentActive /\ d[j].taken
                      /\ d[j].overflow <=> j > MaxConditionalDepth
                      /\ d[j].overflow => d[j].taken
    BY <1>2 DEF Nested, d
  <1>4. CASE j \in 1 .. Len(c)
    <2>1. d[j] = c[j] /\ (j # 1 => d[j-1] = c[j-1])
      BY <1>1, <1>4
    <2> QED
      BY <1>2, <1>4, <2>1 DEF Nested
  <1>5. CASE j = Len(c) + 1
    <2>1. d[j] = x /\ (j # 1 => d[j-1] = c[Len(c)])
      BY <1>1, <1>5
    <2>2. j = 1 <=> c = <<>>
      BY <1>1, <1>3, <1>5
    <2>3. x.parentActive = (j = 1 \/ d[j-1].branchActive)
      <3>1. CASE c = <<>>
        BY <2>2, <3>1 DEF Live
      <3>2. CASE c # <<>>
        BY <2>1, <2>2, <3>2 DEF Live
      <3> QED
        BY <3>1, <3>2
    <2> QED
      BY <1>5, <2>1, <2>3
  <1> QED
    BY <1>1, <1>4, <1>5

\* Moving the innermost conditional to its next branch keeps them nested.
LEMMA NestedSetLast ==
    ASSUME NEW c \in Seq(CondFrames), c # <<>>, Nested(c), NEW x \in CondFrames,
           x.parentActive = c[Len(c)].parentActive,
           x.overflow = c[Len(c)].overflow, ~x.overflow,
           x.branchActive => x.parentActive /\ x.taken
    PROVE  Nested(SetLast(c, x))
  <1> DEFINE d == SetLast(c, x)
  <1>1. /\ d \in Seq(CondFrames) /\ Len(d) = Len(c) /\ Len(c) \in Nat \ {0}
        /\ d[Len(c)] = x
        /\ \A i \in 1 .. Len(c) - 1 : d[i] = c[i]
    BY SetLastFacts, EmptySeq
  <1>2. DOMAIN d = 1 .. Len(c) /\ DOMAIN c = 1 .. Len(c)
    BY <1>1, LenProperties
  <1> HIDE DEF d
  <1> SUFFICES ASSUME NEW j \in 1 .. Len(c)
               PROVE  /\ d[j].parentActive = (j = 1 \/ d[j-1].branchActive)
                      /\ d[j].branchActive => d[j].parentActive /\ d[j].taken
                      /\ d[j].overflow <=> j > MaxConditionalDepth
                      /\ d[j].overflow => d[j].taken
    BY <1>2 DEF Nested, d
  <1>3. j # 1 => d[j-1] = c[j-1]
    BY <1>1
  <1>4. /\ c[j].parentActive = (j = 1 \/ c[j-1].branchActive)
        /\ c[j].branchActive => c[j].parentActive /\ c[j].taken
        /\ c[j].overflow <=> j > MaxConditionalDepth
        /\ c[j].overflow => c[j].taken
    BY <1>2 DEF Nested
  <1>5. CASE j \in 1 .. Len(c) - 1
    BY <1>1, <1>3, <1>4, <1>5
  <1>6. CASE j = Len(c)
    BY <1>1, <1>3, <1>4, <1>6
  <1> QED
    BY <1>1, <1>5, <1>6

\* Popping the innermost conditional keeps the others nested.
LEMMA NestedPop ==
    ASSUME NEW c \in Seq(CondFrames), c # <<>>, Nested(c)
    PROVE  Nested(Pop(c))
  <1> DEFINE d == Pop(c)
  <1>1. /\ d \in Seq(CondFrames) /\ Len(d) = Len(c) - 1 /\ Len(c) \in Nat \ {0}
        /\ \A i \in 1 .. Len(c) - 1 : d[i] = c[i]
    BY PopFacts, EmptySeq
  <1>2. DOMAIN d = 1 .. Len(c) - 1 /\ DOMAIN c = 1 .. Len(c)
    BY <1>1, LenProperties
  <1> HIDE DEF d
  <1> SUFFICES ASSUME NEW j \in 1 .. Len(c) - 1
               PROVE  /\ d[j].parentActive = (j = 1 \/ d[j-1].branchActive)
                      /\ d[j].branchActive => d[j].parentActive /\ d[j].taken
                      /\ d[j].overflow <=> j > MaxConditionalDepth
                      /\ d[j].overflow => d[j].taken
    BY <1>2 DEF Nested, d
  <1>3. d[j] = c[j] /\ (j # 1 => d[j-1] = c[j-1])
    BY <1>1
  <1>4. /\ c[j].parentActive = (j = 1 \/ c[j-1].branchActive)
        /\ c[j].branchActive => c[j].parentActive /\ c[j].taken
        /\ c[j].overflow <=> j > MaxConditionalDepth
        /\ c[j].overflow => c[j].taken
    BY <1>1, <1>2 DEF Nested
  <1> QED
    BY <1>3, <1>4

---------------------------------------------------------------------------
(* The shapes of a step on the frame stack. *)

\* Only an #if beyond the limit makes conditionals nest deeper than it.
WithinLimit(c) ==
    \/ Len(c) <= Len(Top.cond)
    \/ Len(c) <= MaxConditionalDepth
    \/ IfOverflow /\ ~stopped

\* The current frame becomes f, and nested conditionals stay nested.
Rewrites(f) ==
    /\ frames' = SetLast(frames, f)
    /\ Nested(Top.cond) => Nested(f.cond)
    /\ WithinLimit(f.cond)

\* A child is pushed on the live frame it is included from.
Pushes(parent, child) ==
    /\ frames' = Append(SetLast(frames, parent), child)
    /\ parent.cond = Top.cond
    /\ ~parent.endinput
    /\ child.cond = <<>>
    /\ Active(Top)
    /\ Len(frames) <= MaxIncludeDepth

Shape ==
    \/ frames' = frames
    \/ frames' = Pop(frames)
    \/ \E f \in Frames : Rewrites(f)
    \/ \E parent, child \in Frames : Pushes(parent, child)

\* Consuming a line rewrites the current frame.
LEMMA ConsumeShape ==
    ASSUME TypeOK, phase = "running", Top.line < MaxFileLines,
           NEW c \in Seq(CondFrames), Consume(c), Nested(Top.cond) => Nested(c),
           WithinLimit(c)
    PROVE  Shape
  <1>1. Past(Top, c) \in Frames /\ Past(Top, c).cond = c
    BY PastType
  <1> QED
    BY <1>1 DEF Shape, Rewrites, Consume

LEMMA SkipLineShape ==
    ASSUME TypeOK, phase = "running", Top.line < MaxFileLines, SkipLine
    PROVE  Shape
  <1>1. Top.cond \in Seq(CondFrames) /\ Len(Top.cond) \in Nat
    BY TopType, LenProperties
  <1> QED
    BY <1>1, ConsumeShape DEF SkipLine, WithinLimit

\* The next branch of a conditional keeps the conditionals nested when it is
\* selected only in live text.
LEMMA NextBranchShape ==
    ASSUME TypeOK, phase = "running", Top.line < MaxFileLines,
           Top.cond # <<>>, ~TopCond.overflow,
           NEW k, NEW a \in BOOLEAN, NEW e,
           a => TopCond.parentActive, NextBranch(k, a, e)
    PROVE  Shape
  <1> DEFINE x == [TopCond EXCEPT !.branchActive = a, !.taken = @ \/ a,
                                  !.open = NextIndex]
  <1>1. Top.cond \in Seq(CondFrames) /\ TopCond \in CondFrames
    BY TopType
  <1>2. x \in CondFrames
    <2>1. NextIndex \in Nat \ {0}
      BY LenProperties DEF NextIndex, TypeOK, OutputTypeOK
    <2>2. (TopCond.taken \/ a) \in BOOLEAN
      OBVIOUS
    <2> QED
      BY <1>1, <2>1, <2>2 DEF CondFrames
  <1>3. /\ x.parentActive = TopCond.parentActive
        /\ x.overflow = TopCond.overflow
        /\ x.branchActive = a /\ x.taken = (TopCond.taken \/ a)
    BY <1>1 DEF CondFrames
  <1>4. Consume(SetLast(Top.cond, x))
    BY DEF NextBranch
  <1> HIDE DEF x
  <1>5. SetLast(Top.cond, x) \in Seq(CondFrames) /\ WithinLimit(SetLast(Top.cond, x))
    <2>1. Len(SetLast(Top.cond, x)) = Len(Top.cond) /\ Len(Top.cond) \in Nat
      BY <1>1, <1>2, SetLastFacts, LenProperties
    <2> QED
      BY <1>1, <1>2, <2>1, SetLastFacts DEF WithinLimit
  <1>6. Nested(Top.cond) => Nested(SetLast(Top.cond, x))
    BY <1>1, <1>2, <1>3, NestedSetLast DEF TopCond
  <1> QED
    BY <1>4, <1>5, <1>6, ConsumeShape

\* The steps of #if push a conditional that remembers the text around it.
LEMMA HandleIfShape ==
    ASSUME TypeOK, NEW c \in Conditions, HandleIf(c)
    PROVE  Shape
  <1>1. phase = "running" /\ Top.line < MaxFileLines /\ ~stopped
    BY ReadLineFacts DEF HandleIf, ReadLine, Running
  <1>2. Top.cond \in Seq(CondFrames) /\ Len(Top.cond) \in Nat
    BY <1>1, TopType, LenProperties
  <1>3. Active(Top) = Live(Top.cond) /\ Active(Top) \in BOOLEAN
    <2>1. Top.cond # <<>> => TopCond.branchActive \in BOOLEAN
      BY <1>1, TopType DEF CondFrames
    <2> QED
      BY <2>1 DEF Active, Live, TopCond
  <1>4. ASSUME NEW x \in CondFrames, Consume(Append(Top.cond, x)),
               x.parentActive = Active(Top),
               x.branchActive => x.parentActive /\ x.taken,
               x.overflow <=> Len(Top.cond) + 1 > MaxConditionalDepth,
               x.overflow => x.taken,
               x.overflow => IfOverflow /\ ~stopped
        PROVE  Shape
    <2>1. Append(Top.cond, x) \in Seq(CondFrames) /\ WithinLimit(Append(Top.cond, x))
      <3>1. /\ Append(Top.cond, x) \in Seq(CondFrames)
            /\ Len(Append(Top.cond, x)) = Len(Top.cond) + 1
        BY <1>2, AppendProperties
      <3> QED
        BY <1>2, <1>4, <3>1, LimitsAssumption DEF WithinLimit
    <2>2. Nested(Top.cond) => Nested(Append(Top.cond, x))
      BY <1>2, <1>3, <1>4, NestedAppend
    <2> QED
      BY <1>1, <1>4, <2>1, <2>2, ConsumeShape
  <1>5. CASE IfOverflow
    <2> DEFINE x == OverflowFrame(Active(Top))
    <2>1. x \in CondFrames /\ x.parentActive = Active(Top) /\ x.branchActive = FALSE
          /\ x.taken = TRUE /\ x.overflow = TRUE
      BY <1>3 DEF OverflowFrame, CondFrames
    <2>2. Len(Top.cond) + 1 > MaxConditionalDepth /\ Consume(Append(Top.cond, x))
      BY <1>2, <1>5, LimitsAssumption DEF IfOverflow
    <2> HIDE DEF x
    <2> QED
      BY <1>1, <1>4, <1>5, <2>1, <2>2
  <1>6. CASE IfOpen(c)
    <2>1. PICK v \in EvalCondition(c) :
             Consume(Append(Top.cond,
                 CondFrame(Active(Top), Active(Top) /\ v = "true", NextIndex)))
      BY <1>6 DEF IfOpen
    <2> DEFINE a == Active(Top) /\ v = "true"
               x == CondFrame(Active(Top), a, NextIndex)
    <2>2. a \in BOOLEAN /\ (a => Active(Top))
      OBVIOUS
    <2>3. NextIndex \in Nat \ {0}
      BY LenProperties DEF NextIndex, TypeOK, OutputTypeOK
    <2> HIDE DEF a
    <2>4. x \in CondFrames /\ x.parentActive = Active(Top) /\ x.branchActive = a
          /\ x.taken = a /\ x.overflow = FALSE
      BY <1>3, <2>2, <2>3 DEF CondFrame, CondFrames
    <2>5. Consume(Append(Top.cond, x))
      BY <2>1 DEF a
    <2>6. ~(Len(Top.cond) + 1 > MaxConditionalDepth)
      BY <1>2, <1>6, LimitsAssumption DEF IfOpen
    <2> HIDE DEF x
    <2> QED
      BY <1>4, <2>2, <2>4, <2>5, <2>6
  <1> QED
    BY <1>5, <1>6 DEF HandleIf

\* The steps of #elseif, #else and #endif.
LEMMA AlternativeShape ==
    ASSUME TypeOK, NEW c,
           HandleElseif(c) \/ HandleElse \/ HandleEndif
    PROVE  Shape
  <1>1. phase = "running" /\ Top.line < MaxFileLines
    BY ReadLineFacts DEF HandleElseif, HandleElse, HandleEndif
  <1>2. CASE SkipLine
    BY <1>1, <1>2, SkipLineShape
  <1>3. CASE ElseifTaken
    <2>1. TopCond \in CondFrames
      BY <1>1, <1>3, TopType DEF ElseifTaken
    <2> QED
      BY <1>1, <1>3, <2>1, NextBranchShape DEF ElseifTaken
  <1>4. CASE ElseifEvaluated(c)
    <2>1. PICK v \in EvalCondition(c) :
              NextBranch("elseif", TopCond.parentActive /\ v = "true",
                         TopCond.parentActive)
      BY <1>4 DEF ElseifEvaluated
    <2> DEFINE a == TopCond.parentActive /\ v = "true"
    <2>2. a \in BOOLEAN /\ (a => TopCond.parentActive)
      OBVIOUS
    <2>3. NextBranch("elseif", a, TopCond.parentActive)
      BY <2>1
    <2>4. Top.cond # <<>> /\ ~TopCond.overflow
      BY <1>4 DEF ElseifEvaluated
    <2> HIDE DEF a
    <2> QED
      BY <1>1, <2>2, <2>3, <2>4, NextBranchShape
  <1>5. CASE ElseBranch
    <2>1. ElseActive \in BOOLEAN /\ (ElseActive => TopCond.parentActive)
      BY DEF ElseActive
    <2> QED
      BY <1>1, <1>5, <2>1, NextBranchShape DEF ElseBranch
  <1>6. CASE Endif
    <2>1. Top.cond \in Seq(CondFrames) /\ Top.cond # <<>>
      BY <1>1, <1>6, TopType DEF Endif
    <2>2. Pop(Top.cond) \in Seq(CondFrames) /\ WithinLimit(Pop(Top.cond))
      <3>1. /\ Pop(Top.cond) \in Seq(CondFrames)
            /\ Len(Pop(Top.cond)) = Len(Top.cond) - 1 /\ Len(Top.cond) \in Nat
        BY <2>1, PopFacts, LenProperties
      <3> QED
        BY <3>1 DEF WithinLimit
    <2>3. Nested(Top.cond) => Nested(Pop(Top.cond))
      BY <2>1, NestedPop
    <2> QED
      BY <1>1, <1>6, <2>2, <2>3, ConsumeShape DEF Endif
  <1> QED
    BY <1>2, <1>3, <1>4, <1>5, <1>6 DEF HandleElseif, HandleElse, HandleEndif,
       Unmatched, OverflowAlternative

\* The steps that read text or a directive without effect on conditionals.
LEMMA LineShape ==
    ASSUME TypeOK, NEW n, NEW body, NEW c, NEW code, NEW names,
           \/ EmitLine(names) \/ ExpandLine(n)
           \/ HandleDefine(n, body) \/ HandleUndef(n)
           \/ HandleAssert(c) \/ HandleMessage(code)
           \/ HandleEndinput
    PROVE  Shape
  <1>1. phase = "running" /\ Top.line < MaxFileLines
    BY ReadLineFacts DEF EmitLine, ExpandLine, HandleDefine, HandleUndef,
       HandleAssert, HandleMessage, HandleEndinput
  <1>0. WithinLimit(Top.cond)
    <2>1. Len(Top.cond) \in Nat
      BY <1>1, TopType, LenProperties
    <2> QED
      BY <2>1 DEF WithinLimit
  <1>2. CASE SkipLine
    BY <1>1, <1>2, SkipLineShape
  <1>3. ASSUME NEW next \in LineIndices,
               frames' = SetLast(frames, [Top EXCEPT !.line = next])
        PROVE  Shape
    <2> DEFINE f == [Top EXCEPT !.line = next]
    <2>1. f \in Frames /\ f.cond = Top.cond
      BY <1>1, TopType DEF Frames
    <2>2. frames' = SetLast(frames, f)
      BY <1>3
    <2> HIDE DEF f
    <2> QED
      BY <1>0, <2>1, <2>2 DEF Shape, Rewrites
  <1>4. CASE ExpandReplaced
    <2>1. PICK next \in (Top.line + 1) .. MaxFileLines :
              frames' = SetLast(frames, [Top EXCEPT !.line = next])
      BY <1>4 DEF ExpandReplaced
    <2>2. next \in LineIndices
      BY <1>1, TopType, LimitsAssumption DEF LineIndices
    <2> QED
      BY <1>3, <2>1, <2>2
  <1>5. CASE ExpandUnterminated
    <2>1. MaxFileLines \in LineIndices
      BY LimitsAssumption DEF LineIndices
    <2> QED
      BY <1>3, <1>5, <2>1 DEF ExpandUnterminated
  <1>6. CASE HandleEndinput
    <2> DEFINE past == Past(Top, Top.cond)
               f == [past EXCEPT !.endinput = Active(Top)]
    <2>1. past \in Frames /\ past.cond = Top.cond
      BY <1>1, TopType, PastType
    <2>2. Active(Top) \in BOOLEAN
      BY <1>1, TopType DEF Active, TopCond, CondFrames
    <2>3. frames' = SetLast(frames, f)
      BY <1>6 DEF HandleEndinput
    <2> HIDE DEF past
    <2>4. f \in Frames /\ f.cond = Top.cond
      BY <2>1, <2>2 DEF Frames
    <2> HIDE DEF f
    <2> QED
      BY <1>0, <2>3, <2>4 DEF Shape, Rewrites
  <1> QED
    BY <1>2, <1>4, <1>5, <1>6 DEF EmitLine, ExpandLine, HandleDefine, HandleUndef,
       HandleAssert, HandleMessage, ExpandTooDeep

\* A splice within the depth limit, from a live frame, pushes a fresh child.
LEMMA SpliceShape ==
    ASSUME TypeOK, phase \in {"prefix", "running"}, NEW parent \in Frames,
           parent.cond = Top.cond, ~parent.endinput, Active(Top),
           Len(frames) <= MaxIncludeDepth,
           NEW uri \in Uris, NEW inc \in IncludeRecords,
           SpliceInclude(parent, uri, inc)
    PROVE  Shape
  <1> DEFINE child == NewFrame(Len(files) + 1, uri, inc)
  <1>1. child \in Frames /\ child.cond = <<>>
    <2>1. Len(files) + 1 \in Nat /\ uri \in Uris \cup {"root"}
      <3>1. Len(files) \in Nat
        BY LenProperties DEF TypeOK, SplicesTypeOK
      <3> QED
        BY <3>1
    <2> QED
      BY <2>1, NewFrameType DEF NewFrame
  <1>2. frames' = Append(SetLast(frames, parent), child)
    BY DEF SpliceInclude
  <1> HIDE DEF child
  <1> QED
    BY <1>1, <1>2 DEF Shape, Pushes

LEMMA HandleIncludeShape ==
    ASSUME TypeOK, NEW path \in Paths, NEW optional \in BOOLEAN,
           HandleInclude(path, optional)
    PROVE  Shape
  <1>1. phase = "running" /\ Top.line < MaxFileLines /\ ~Top.endinput
    BY ReadLineFacts DEF HandleInclude, ReadLine, Running
  <1>2. CASE SkipLine
    BY <1>1, <1>2, SkipLineShape
  <1>3. ASSUME NEW uri \in Uris, Active(Top), IncludeResolved(path, optional, uri)
        PROVE  Shape
    <2> DEFINE inc == IncludeRecord(path, optional, TRUE)
    <2>1. inc \in IncludeRecords
      BY <1>1, IncludeRecordType
    <2>2. CASE ~TooDeep /\ SpliceInclude(Past(Top, Top.cond), uri, inc)
      <3>1. /\ Past(Top, Top.cond) \in Frames
            /\ Past(Top, Top.cond).cond = Top.cond
            /\ ~Past(Top, Top.cond).endinput
        BY <1>1, TopType, PastType
      <3>2. Len(frames) <= MaxIncludeDepth
        <4>1. Len(frames) \in Nat
          BY <1>1, TopType
        <4> QED
          BY <2>2, <4>1, LimitsAssumption DEF TooDeep
      <3> HIDE DEF inc
      <3> QED
        BY <1>1, <1>3, <2>1, <2>2, <3>1, <3>2, SpliceShape
    <2> QED
      BY <1>2, <1>3, <2>2 DEF IncludeResolved, RecordOnly
  <1> QED
    BY <1>2, <1>3, FilesAssumption DEF HandleInclude, IncludeApplies, IncludeInactive,
       IncludeUnresolved, RecordOnly

LEMMA ImplicitPrefixShape ==
    ASSUME TypeOK, Len(frames) = 1, Top.cond = <<>>, ~Top.endinput, ImplicitPrefix
    PROVE  Shape
  <1>1. phase = "prefix"
    BY DEF ImplicitPrefix
  <1> DEFINE inc == [NoInclude EXCEPT !.file = 1, !.path = "prefix",
                                      !.optional = (Prefix = "optional")]
             found == [inc EXCEPT !.resolved = TRUE]
  <1>2. found \in IncludeRecords
    BY DEF NoInclude, IncludeRecords
  <1>3. CASE frames' = frames
    BY <1>3 DEF Shape
  <1>4. ASSUME NEW uri \in Uris, SpliceInclude(Top, uri, found)
        PROVE  Shape
    <2>1. Top \in Frames /\ Active(Top) /\ Len(frames) <= MaxIncludeDepth
      BY <1>1, TopType, LimitsAssumption DEF Active
    <2> HIDE DEF found
    <2> QED
      BY <1>1, <1>2, <1>4, <2>1, SpliceShape
  <1> QED
    BY <1>3, <1>4, FilesAssumption DEF ImplicitPrefix

---------------------------------------------------------------------------
(* The inductive invariant. *)

\* Before the prefix is read the root is the only file, with no conditional.
PrefixIsFirst ==
    phase = "prefix" => Len(frames) = 1 /\ Top.cond = <<>> /\ ~Top.endinput

NestInv ==
    ConditionalsNest /\ SuspendedFilesAreLive /\ IncludeDepthBounded /\ PrefixIsFirst

\* Every step has one of the shapes.
LEMMA NextShape ==
    ASSUME TypeOK, PrefixIsFirst, [Next]_vars
    PROVE  Shape
  <1>1. CASE \E c \in Conditions : HandleIf(c)
    BY <1>1, HandleIfShape
  <1>2. CASE \/ \E c \in Conditions : HandleElseif(c)
             \/ HandleElse \/ HandleEndif
    BY <1>2, AlternativeShape
  <1>3. CASE \/ \E names \in Declarations : EmitLine(names)
             \/ \E n \in Names : ExpandLine(n) \/ HandleUndef(n)
             \/ \E n \in Names, body \in Bodies : HandleDefine(n, body)
             \/ \E c \in Conditions : HandleAssert(c)
             \/ \E code \in MessageCodes : HandleMessage(code)
             \/ HandleEndinput
    BY <1>3, LineShape
  <1>4. CASE \E path \in Paths, optional \in BOOLEAN : HandleInclude(path, optional)
    BY <1>4, HandleIncludeShape
  <1>5. CASE ImplicitPrefix
    <2>1. phase = "prefix"
      BY <1>5 DEF ImplicitPrefix
    <2> QED
      BY <1>5, <2>1, ImplicitPrefixShape DEF PrefixIsFirst
  <1>6. CASE FinishFrame
    BY <1>6 DEF FinishFrame, FileLeft, Shape
  <1>7. CASE CancelContext \/ PollCancellation \/ UNCHANGED vars
    BY <1>7 DEF CancelContext, PollCancellation, vars, Shape
  <1> QED
    BY <1>1, <1>2, <1>3, <1>4, <1>5, <1>6, <1>7 DEF Next, Step

\* While the prefix is still to be read nothing else changes the frames.
LEMMA PrefixStep ==
    ASSUME TypeOK, PrefixIsFirst, [Next]_vars
    PROVE  PrefixIsFirst'
  <1> SUFFICES ASSUME phase' = "prefix"
               PROVE  phase = "prefix" /\ frames' = frames
    BY DEF PrefixIsFirst, Top
  <1>1. CASE CancelContext \/ UNCHANGED vars
    BY <1>1 DEF CancelContext, vars
  <1>2. CASE Step
    <2>1. ~ImplicitPrefix
      BY DEF ImplicitPrefix
    <2>2. ~FinishFrame
      BY DEF FinishFrame, FileLeft, Outcome
    <2>3. phase = "running" /\ phase' = phase
      BY <1>2, <2>1, <2>2 DEF Step, HandleIf, HandleElseif, HandleElse, HandleEndif,
         EmitLine, ExpandLine, HandleDefine, HandleUndef, HandleAssert,
         HandleMessage, HandleEndinput, HandleInclude, PollCancellation,
         ReadLine, Running
    <2> QED
      BY <2>3
  <1> QED
    BY <1>1, <1>2 DEF Next

\* Rewriting the current frame keeps the invariant.
LEMMA RewriteKeepsNesting ==
    ASSUME TypeOK, frames # <<>>, NestInv, NEW f \in Frames, Rewrites(f)
    PROVE  ConditionalsNest' /\ SuspendedFilesAreLive' /\ IncludeDepthBounded'
  <1>1. /\ frames \in Seq(Frames) /\ Len(frames) \in Nat \ {0}
        /\ frames' \in Seq(Frames) /\ Len(frames') = Len(frames)
        /\ frames'[Len(frames)] = f
        /\ \A i \in 1 .. Len(frames) - 1 : frames'[i] = frames[i]
    <2>1. frames \in Seq(Frames) /\ frames' = SetLast(frames, f)
      BY DEF Rewrites, TypeOK, FramesTypeOK
    <2> DEFINE t == SetLast(frames, f)
    <2>4. frames \in Seq(Frames)
      BY <2>1
    <2>5. Len(frames) \in Nat \ {0}
      BY <2>4, EmptySeq
    <2>2. /\ t \in Seq(Frames) /\ Len(t) = Len(frames) /\ t[Len(frames)] = f
          /\ \A i \in 1 .. Len(frames) - 1 : t[i] = frames[i]
      BY <2>4, SetLastFacts
    <2> HIDE DEF t
    <2>3. frames' = t
      BY <2>1 DEF t
    <2> QED
      BY <2>4, <2>5, <2>2, <2>3
  <1>2. DOMAIN frames = 1 .. Len(frames) /\ DOMAIN frames' = 1 .. Len(frames)
    BY <1>1, LenProperties
  <1>3. Nested(Top.cond)
    BY <1>1, <1>2 DEF NestInv, ConditionalsNest, Top
  <1>4. \A i \in 1 .. Len(frames) : Nested(frames'[i].cond)
    BY <1>1, <1>2, <1>3 DEF Rewrites, NestInv, ConditionalsNest
  <1>5. \A i \in 1 .. Len(frames) - 1 : Active(frames'[i]) /\ ~frames'[i].endinput
    BY <1>1 DEF NestInv, SuspendedFilesAreLive
  <1>6. ConditionalsNest'
    BY <1>2, <1>4 DEF ConditionalsNest, Nested
  <1>7. SuspendedFilesAreLive'
    BY <1>1, <1>5 DEF SuspendedFilesAreLive, Active
  <1> QED
    BY <1>1, <1>6, <1>7 DEF NestInv, IncludeDepthBounded

\* Pushing a child keeps the invariant: its parent is live and has not ended.
LEMMA PushKeepsNesting ==
    ASSUME TypeOK, frames # <<>>, NestInv,
           NEW parent \in Frames, NEW child \in Frames, Pushes(parent, child)
    PROVE  ConditionalsNest' /\ SuspendedFilesAreLive' /\ IncludeDepthBounded'
  <1> DEFINE below == SetLast(frames, parent)
  <1>1. /\ frames \in Seq(Frames) /\ Len(frames) \in Nat \ {0}
        /\ below \in Seq(Frames) /\ Len(below) = Len(frames)
        /\ below[Len(frames)] = parent
        /\ \A i \in 1 .. Len(frames) - 1 : below[i] = frames[i]
    BY SetLastFacts, EmptySeq DEF TypeOK, FramesTypeOK
  <1>2. frames' = Append(below, child)
    BY DEF Pushes
  <1> HIDE DEF below
  <1>3. /\ frames' \in Seq(Frames) /\ Len(frames') = Len(frames) + 1
        /\ frames'[Len(frames) + 1] = child
        /\ \A i \in 1 .. Len(frames) : frames'[i] = below[i]
    BY <1>1, <1>2, AppendProperties
  <1>4. DOMAIN frames = 1 .. Len(frames) /\ DOMAIN frames' = 1 .. Len(frames) + 1
    BY <1>1, <1>3, LenProperties
  <1>5. Nested(parent.cond) /\ Nested(child.cond)
    BY <1>1, <1>4, NestedEmpty DEF Pushes, NestInv, ConditionalsNest, Top
  <1>6. Active(parent) /\ ~parent.endinput
    BY DEF Pushes, Active
  <1>7. \A i \in 1 .. Len(frames) : Active(frames'[i]) /\ ~frames'[i].endinput
    <2> TAKE i \in 1 .. Len(frames)
    <2>1. CASE i = Len(frames)
      BY <1>1, <1>3, <1>6, <2>1
    <2>2. CASE i # Len(frames)
      <3>1. i \in 1 .. Len(frames) - 1
        BY <1>1, <2>2
      <3> QED
        BY <1>1, <1>3, <3>1 DEF NestInv, SuspendedFilesAreLive
    <2> QED
      BY <2>1, <2>2
  <1>8. \A i \in 1 .. Len(frames) + 1 : Nested(frames'[i].cond)
    <2> TAKE i \in 1 .. Len(frames) + 1
    <2>1. CASE i = Len(frames) + 1
      BY <1>3, <1>5, <2>1
    <2>2. CASE i = Len(frames)
      BY <1>1, <1>3, <1>5, <2>2
    <2>3. CASE i \in 1 .. Len(frames) - 1
      <3>1. frames'[i] = frames[i] /\ i \in DOMAIN frames
        BY <1>1, <1>3, <1>4, <2>3
      <3> QED
        BY <3>1 DEF NestInv, ConditionalsNest
    <2> QED
      BY <1>1, <2>1, <2>2, <2>3
  <1>9. ConditionalsNest'
    BY <1>4, <1>8 DEF ConditionalsNest, Nested
  <1>10. SuspendedFilesAreLive'
    BY <1>1, <1>3, <1>7 DEF SuspendedFilesAreLive, Active
  <1>11. IncludeDepthBounded'
    BY <1>1, <1>3, LimitsAssumption DEF Pushes, IncludeDepthBounded
  <1> QED
    BY <1>9, <1>10, <1>11

\* Returning from a file keeps the invariant.
LEMMA PopKeepsNesting ==
    ASSUME TypeOK, frames # <<>>, NestInv, frames' = Pop(frames)
    PROVE  ConditionalsNest' /\ SuspendedFilesAreLive' /\ IncludeDepthBounded'
  <1>1. /\ frames \in Seq(Frames) /\ Len(frames) \in Nat \ {0}
        /\ frames' \in Seq(Frames) /\ Len(frames') = Len(frames) - 1
        /\ \A i \in 1 .. Len(frames) - 1 : frames'[i] = frames[i]
    BY PopFacts, EmptySeq DEF TypeOK, FramesTypeOK
  <1>2. DOMAIN frames = 1 .. Len(frames) /\ DOMAIN frames' = 1 .. Len(frames) - 1
    BY <1>1, LenProperties
  <1>3. ConditionalsNest'
    <2>1. \A i \in 1 .. Len(frames) - 1 : Nested(frames'[i].cond)
      BY <1>1, <1>2 DEF NestInv, ConditionalsNest
    <2> QED
      BY <1>2, <2>1 DEF ConditionalsNest, Nested
  <1>4. SuspendedFilesAreLive'
    <2>1. \A i \in 1 .. Len(frames) - 2 : Active(frames'[i]) /\ ~frames'[i].endinput
      BY <1>1 DEF NestInv, SuspendedFilesAreLive
    <2> QED
      BY <1>1, <2>1 DEF SuspendedFilesAreLive, Active
  <1> QED
    BY <1>1, <1>3, <1>4, LimitsAssumption DEF NestInv, IncludeDepthBounded

\* The invariant holds initially.
LEMMA NestInit == Init => NestInv
  <1> SUFFICES ASSUME Init PROVE NestInv
    OBVIOUS
  <1> DEFINE root == NewFrame(1, "root", NoInclude)
  <1>1. root.cond = <<>> /\ root.endinput = FALSE
    BY DEF NewFrame
  <1>2. frames = <<root>>
    BY DEF Init
  <1> HIDE DEF root
  <1>3. Len(frames) = 1 /\ DOMAIN frames = 1 .. 1 /\ frames[1] = root
    BY <1>2
  <1>4. \A i \in DOMAIN frames : Nested(frames[i].cond)
    BY <1>1, <1>3, NestedEmpty
  <1>5. Len(frames) <= MaxIncludeDepth + 1
    BY <1>3, LimitsAssumption
  <1> QED
    BY <1>1, <1>3, <1>4, <1>5 DEF NestInv, ConditionalsNest, SuspendedFilesAreLive,
       IncludeDepthBounded, PrefixIsFirst, Top

\* The invariant is inductive.
LEMMA NestStep ==
    ASSUME TypeOK, NestInv, [Next]_vars
    PROVE  NestInv'
  <1>1. Shape /\ PrefixIsFirst'
    BY NextShape, PrefixStep DEF NestInv
  <1> SUFFICES ConditionalsNest' /\ SuspendedFilesAreLive' /\ IncludeDepthBounded'
    BY <1>1 DEF NestInv
  <1>2. CASE frames' = frames
    BY <1>2 DEF NestInv, ConditionalsNest, SuspendedFilesAreLive,
       IncludeDepthBounded, Nested, Active
  <1>3. CASE frames = <<>>
    <2>1. phase \in {"ok", "error"}
      BY <1>3 DEF TypeOK, FramesTypeOK
    <2>2. UNCHANGED vars
      BY <2>1 DEF Next, Step, HandleIf, HandleElseif, HandleElse, HandleEndif,
         EmitLine, ExpandLine, HandleDefine, HandleUndef, HandleAssert,
         HandleMessage, HandleEndinput, HandleInclude, ImplicitPrefix, FinishFrame, FileLeft,
         CancelContext, PollCancellation, ReadLine, Running
    <2> QED
      BY <1>2, <2>2 DEF vars
  <1>4. CASE frames # <<>>
    BY <1>1, <1>2, <1>4, RewriteKeepsNesting, PushKeepsNesting, PopKeepsNesting
       DEF Shape
  <1> QED
    BY <1>3, <1>4

LEMMA NestAlways == Spec => []NestInv
  <1> QED
    BY NestInit, NestStep, TypeCorrect, PTL DEF Spec

\* Text is live only inside live text: the open conditionals of every file
\* nest, for any limit and any nesting of includes (directives.go).
THEOREM ConditionalsAlwaysNest == Spec => []ConditionalsNest
  <1>1. NestInv => ConditionalsNest
    BY DEF NestInv
  <1> QED
    BY NestAlways, <1>1, PTL

\* A file waiting for the file it includes is live and has not ended.
THEOREM SuspendedAlwaysLive == Spec => []SuspendedFilesAreLive
  <1>1. NestInv => SuspendedFilesAreLive
    BY DEF NestInv
  <1> QED
    BY NestAlways, <1>1, PTL

\* Splices never nest deeper than MaxIncludeDepth, whatever files include
\* each other and however often.
THEOREM IncludeDepthAlwaysBounded == Spec => []IncludeDepthBounded
  <1>1. NestInv => IncludeDepthBounded
    BY DEF NestInv
  <1> QED
    BY NestAlways, <1>1, PTL

---------------------------------------------------------------------------
(* Dead text. *)

\* Where the innermost conditional is live every one around it is: if some
\* were dead, the innermost dead one would have a live one inside it.
LEMMA LiveThroughout ==
    ASSUME NEW c \in Seq(CondFrames), Nested(c), Live(c)
    PROVE  \A j \in DOMAIN c : c[j].branchActive
  <1> DEFINE n == Len(c)
             dead == {d \in 0 .. (n - 1) : ~c[n - d].branchActive}
  <1>1. n \in Nat /\ DOMAIN c = 1 .. n
    BY LenProperties
  <1>2. dead = {}
    <2> SUFFICES ASSUME dead # {} PROVE FALSE
      OBVIOUS
    <2>1. dead \subseteq Nat
      BY <1>1
    <2> HIDE DEF dead
    <2>2. PICK d \in dead : \A e \in dead : d <= e
      BY <2>1, LeastElement
    <2> USE DEF dead
    <2>3. d \in 0 .. (n - 1) /\ ~c[n - d].branchActive
      BY <2>2
    <2>4. c # <<>>
      BY <1>1, <2>3, EmptySeq
    <2>5. d # 0
      BY <1>1, <2>3, <2>4 DEF Live
    <2>6. d - 1 \in 0 .. (n - 1) /\ d - 1 \notin dead
      <3>1. d - 1 \in 0 .. (n - 1) /\ ~(d <= d - 1)
        BY <1>1, <2>3, <2>5
      <3> HIDE DEF dead
      <3> QED
        BY <2>2, <3>1
    <2>7. c[n - (d - 1)].branchActive
      BY <2>6
    <2> DEFINE j == n - d + 1
    <2>8. j \in DOMAIN c /\ j # 1 /\ j - 1 = n - d /\ j = n - (d - 1)
      BY <1>1, <2>3, <2>5
    <2>9. /\ c[j].parentActive = (j = 1 \/ c[j-1].branchActive)
          /\ c[j].branchActive => c[j].parentActive
      BY <2>8 DEF Nested
    <2> QED
      BY <2>3, <2>7, <2>8, <2>9
  <1>3. ASSUME NEW j \in DOMAIN c PROVE c[j].branchActive
    <2>1. n - j \in 0 .. (n - 1) /\ n - (n - j) = j
      BY <1>1
    <2> QED
      BY <1>2, <2>1
  <1> QED
    BY <1>3

\* The current file is read in live text exactly when every open conditional
\* of every file is live: the files below it are.
LEMMA ActiveMeansAlive ==
    ASSUME TypeOK, NestInv, phase \in {"prefix", "running"}, Active(Top)
    PROVE  Alive
  <1>1. /\ frames \in Seq(Frames) /\ Len(frames) \in Nat
        /\ DOMAIN frames = 1 .. Len(frames)
    BY TopType, LenProperties
  <1> SUFFICES ASSUME NEW i \in DOMAIN frames
               PROVE  \A j \in DOMAIN frames[i].cond : frames[i].cond[j].branchActive
    BY DEF Alive
  <1>2. frames[i] \in Frames
    BY <1>1
  <1>3. frames[i].cond \in Seq(CondFrames) /\ Nested(frames[i].cond)
    BY <1>2 DEF Frames, NestInv, ConditionalsNest
  <1>4. Active(frames[i])
    <2>1. CASE i = Len(frames)
      BY <2>1 DEF Top
    <2>2. CASE i # Len(frames)
      <3>1. i \in 1 .. Len(frames) - 1
        BY <1>1, <2>2
      <3> QED
        BY <3>1 DEF NestInv, SuspendedFilesAreLive
    <2> QED
      BY <2>1, <2>2
  <1> QED
    BY <1>3, <1>4, LiveThroughout DEF Active, Live

\* Nothing happens after the pass has ended.
LEMMA EndIsFinal ==
    ASSUME [Next]_vars, phase \notin {"prefix", "running"}
    PROVE  UNCHANGED vars
  BY DEF Next, Step, HandleIf, HandleElseif, HandleElse, HandleEndif, EmitLine,
     ExpandLine, HandleDefine, HandleUndef, HandleAssert, HandleMessage,
     HandleEndinput, HandleInclude, ImplicitPrefix, FinishFrame, FileLeft, CancelContext,
     PollCancellation, ReadLine, Running

\* A step in dead text leaves tables, files and output alone.
LEMMA DeadStep ==
    ASSUME TypeOK, NestInv, [Next]_vars, ~Alive
    PROVE  UNCHANGED <<tables, files, outputTokens>>
  <1>1. CASE phase \notin {"prefix", "running"}
    <2>1. UNCHANGED vars
      BY <1>1, EndIsFinal
    <2> QED
      BY <2>1 DEF vars, splices
  <1>2. CASE phase \in {"prefix", "running"}
    <2>1. ~Active(Top)
      BY <1>2, ActiveMeansAlive
    <2>2. ~ImplicitPrefix
      BY <2>1 DEF ImplicitPrefix, NestInv, PrefixIsFirst, Active
    <2>3. ASSUME NEW n, ExpandLine(n) PROVE FALSE
      BY <2>1, <2>3 DEF ExpandLine
    <2>4. ASSUME NEW names, EmitLine(names)
          PROVE  UNCHANGED <<tables, files, outputTokens>>
      BY <2>1, <2>4 DEF EmitLine, tables, splices
    <2>5. CASE \/ \E n \in Names, body \in Bodies : HandleDefine(n, body)
               \/ \E n \in Names : HandleUndef(n)
      BY <2>1, <2>5 DEF HandleDefine, HandleUndef, UndefApplies, tables, splices
    <2>6. CASE \E path \in Paths, optional \in BOOLEAN : HandleInclude(path, optional)
      BY <2>1, <2>6 DEF HandleInclude, IncludeApplies, IncludeInactive, tables, splices
    <2>7. CASE \/ \E c \in Conditions : HandleIf(c) \/ HandleElseif(c) \/ HandleAssert(c)
               \/ HandleElse \/ HandleEndif
               \/ \E code \in MessageCodes : HandleMessage(code)
               \/ HandleEndinput
               \/ PollCancellation \/ FinishFrame \/ CancelContext
      BY <2>7 DEF HandleIf, HandleElseif, HandleAssert, HandleElse, HandleEndif,
         HandleMessage, HandleEndinput, PollCancellation, FinishFrame, FileLeft, CancelContext,
         splices
    <2>8. CASE UNCHANGED vars
      BY <2>8 DEF vars, splices
    <2> QED
      BY <2>2, <2>3, <2>4, <2>5, <2>6, <2>7, <2>8 DEF Next, Step
  <1> QED
    BY <1>1, <1>2

\* A line of dead text changes nothing but the conditionals themselves, for
\* any nesting of conditionals and of included files (currentActive).
THEOREM DeadTextNeverHasEffect == Spec => DeadTextHasNoEffect
  <1>1. TypeOK /\ NestInv /\ [Next]_vars =>
            [~Alive => UNCHANGED <<tables, files, outputTokens>>]_vars
    BY DeadStep
  <1> QED
    BY <1>1, TypeCorrect, NestAlways, PTL DEF Spec, DeadTextHasNoEffect

---------------------------------------------------------------------------
(* Truncation. *)

\* After truncation nothing is emitted, and truncated stays set.
LEMMA TruncatedStep ==
    ASSUME [Next]_vars, truncated
    PROVE  UNCHANGED <<outputTokens, declared>> /\ truncated'
  <1>1. ASSUME NEW names, AppendOut(names)
        PROVE  UNCHANGED <<outputTokens, declared, truncated>>
    BY <1>1 DEF AppendOut, OutputClosed
  <1>2. ASSUME NEW names, EmitLine(names)
        PROVE  UNCHANGED <<outputTokens, declared, truncated>>
    BY <1>1, <1>2 DEF EmitLine
  <1>3. ASSUME NEW n, ExpandLine(n)
        PROVE  UNCHANGED <<outputTokens, declared, truncated>>
    BY <1>1, <1>3 DEF ExpandLine, ExpandReplaced, ExpandUnterminated, ExpandTooDeep
  <1>4. ASSUME NEW c, HandleIf(c)
        PROVE  UNCHANGED <<outputTokens, declared>> /\ truncated'
    BY <1>4 DEF HandleIf, IfOverflow, IfOpen, tables, limits
  <1>5. ASSUME NEW path, NEW optional, HandleInclude(path, optional)
        PROVE  UNCHANGED <<outputTokens, declared>> /\ truncated'
    BY <1>5 DEF HandleInclude, IncludeInactive, IncludeUnresolved, IncludeResolved
  <1>6. CASE \/ \E c \in Conditions : HandleElseif(c) \/ HandleAssert(c)
             \/ HandleElse \/ HandleEndif
             \/ \E n \in Names : HandleUndef(n)
             \/ \E n \in Names, body \in Bodies : HandleDefine(n, body)
             \/ \E code \in MessageCodes : HandleMessage(code)
             \/ HandleEndinput \/ ImplicitPrefix
             \/ PollCancellation \/ FinishFrame \/ CancelContext
    BY <1>6 DEF HandleElseif, HandleAssert, HandleElse, HandleEndif, HandleUndef,
       HandleDefine, HandleMessage, HandleEndinput, ImplicitPrefix, PollCancellation,
       FinishFrame, FileLeft, CancelContext, tables, limits
  <1>7. CASE UNCHANGED vars
    BY <1>7 DEF vars, tables, limits
  <1> QED
    BY <1>2, <1>3, <1>4, <1>5, <1>6, <1>7 DEF Next, Step

\* Once a pass is truncated no token is emitted and no name declared any
\* more, whatever directives still run (appendOut).
THEOREM TruncatedOutputIsAlwaysFinal == Spec => TruncatedOutputIsFinal
  <1>1. [Next]_vars =>
            [truncated => UNCHANGED <<outputTokens, declared>> /\ truncated']_vars
    BY TruncatedStep
  <1> QED
    BY <1>1, PTL DEF Spec, TruncatedOutputIsFinal

LimitCodes == {"conditional-depth-limit", "include-depth-limit",
               "output-size-limit", "expansion-depth-limit"}

\* Every way to set truncated or stopped leaves its mark: EndIsReported does
\* not say what the flag for both depth limits stands for, nor that the output
\* is within its limit until the pass is truncated.
LimitInv ==
    /\ truncated => diags \cap LimitCodes # {}
    /\ depthLimitWarned /\ ~stopped => "conditional-depth-limit" \in diags
    /\ stopped => truncated \/ cancelled
    /\ cancelled => ctxDone /\ phase # "ok"
    /\ outputTokens <= MaxOutputTokens + 1
    /\ ~truncated => outputTokens <= MaxOutputTokens

\* A step that leaves the limits, the output and the context alone, and does
\* not end the pass with a result, keeps the invariant: diagnostics stay.
LEMMA LimitsKept ==
    ASSUME LimitInv, diags \subseteq diags', phase' \in {phase, "running"},
           UNCHANGED <<outputTokens, limits, ctxDone, cancelled>>
    PROVE  LimitInv'
  BY DEF LimitInv, limits

\* Emitting a token keeps the invariant: the one too many is reported.
LEMMA EmitKeepsLimits ==
    ASSUME TypeOK, LimitInv, NEW names, AppendOut(names),
           diags \cup (IF OutputFull THEN {"output-size-limit"} ELSE {}) \subseteq diags',
           UNCHANGED <<depthLimitWarned, context, phase>>
    PROVE  LimitInv'
  <1>1. outputTokens \in Nat /\ MaxOutputTokens \in Nat
    BY LimitsAssumption DEF TypeOK, OutputTypeOK
  <1>2. CASE truncated
    BY <1>2 DEF AppendOut, OutputClosed, LimitInv, context
  <1>3. CASE ~truncated
    <2>1. /\ outputTokens' = outputTokens + 1
          /\ truncated' <=> OutputFull
          /\ stopped' <=> stopped \/ OutputFull
          /\ OutputFull <=> outputTokens >= MaxOutputTokens
      BY <1>3 DEF AppendOut, OutputClosed, OutputFull
    <2>2. outputTokens <= MaxOutputTokens
      BY <1>3 DEF LimitInv
    <2>3. outputTokens' <= MaxOutputTokens + 1
      BY <1>1, <2>1, <2>2
    <2>4. ~OutputFull => outputTokens' <= MaxOutputTokens
      BY <1>1, <2>1, <2>2
    <2>5. OutputFull => "output-size-limit" \in diags' \cap LimitCodes
      BY DEF LimitCodes
    <2>6. diags \subseteq diags' /\ UNCHANGED <<depthLimitWarned, ctxDone, cancelled, phase>>
      BY DEF context
    <2>7. CASE OutputFull
      BY <2>1, <2>3, <2>5, <2>6, <2>7 DEF LimitInv
    <2>8. CASE ~OutputFull
      BY <1>3, <2>1, <2>3, <2>4, <2>6, <2>8 DEF LimitInv
    <2> QED
      BY <2>7, <2>8
  <1> QED
    BY <1>2, <1>3

\* Every step on a line of text keeps the invariant.
LEMMA TextKeepsLimits ==
    ASSUME TypeOK, LimitInv, NEW names, NEW n, EmitLine(names) \/ ExpandLine(n)
    PROVE  LimitInv'
  <1>1. UNCHANGED <<context, phase>> /\ ~stopped
    BY DEF EmitLine, ExpandLine, ReadLine, Running
  <1>2. CASE UNCHANGED <<declared, outputTokens, truncated, stopped, diags, depthLimitWarned>>
    BY <1>1, <1>2, LimitsKept DEF limits, context
  <1>3. ASSUME NEW m, AppendOut(m), UNCHANGED depthLimitWarned,
               diags \cup (IF OutputFull THEN {"output-size-limit"} ELSE {}) \subseteq diags'
        PROVE  LimitInv'
    BY <1>1, <1>3, EmitKeepsLimits
  <1>4. CASE ExpandTooDeep
    <2>1. CASE depthLimitWarned
      BY <1>1, <1>4, <2>1 DEF ExpandTooDeep, Warned, Report, LimitInv, LimitCodes, context
    <2>2. CASE ~depthLimitWarned
      BY <1>1, <1>4, <2>2 DEF ExpandTooDeep, Warned, Report, LimitInv, LimitCodes, context
    <2> QED
      BY <2>1, <2>2
  <1>5. CASE ExpandReplaced
    BY <1>2, <1>3, <1>5 DEF ExpandReplaced, Report
  <1>6. CASE ExpandUnterminated
    <2>1. AppendOut({}) /\ UNCHANGED depthLimitWarned
      BY <1>6 DEF ExpandUnterminated
    <2>2. diags \cup (IF OutputFull THEN {"output-size-limit"} ELSE {}) \subseteq diags'
      BY <1>6 DEF ExpandUnterminated
    <2> QED
      BY <1>3, <2>1, <2>2
  <1>7. CASE EmitLine(names)
    BY <1>2, <1>3, <1>7 DEF EmitLine, Report
  <1> QED
    BY <1>4, <1>5, <1>6, <1>7 DEF ExpandLine

\* Every step of an include keeps the invariant.
LEMMA IncludeKeepsLimits ==
    ASSUME LimitInv, NEW path, NEW optional,
           HandleInclude(path, optional) \/ ImplicitPrefix
    PROVE  LimitInv'
  <1>1. /\ phase \in {"prefix", "running"} /\ phase' \in {phase, "running"}
        /\ UNCHANGED <<outputTokens, depthLimitWarned, ctxDone>>
    BY DEF HandleInclude, ImplicitPrefix, ReadLine, Running
  <1>2. diags \subseteq diags'
    BY DEF HandleInclude, ImplicitPrefix, IncludeInactive, IncludeUnresolved,
       IncludeResolved, RecordOnly, SpliceInclude, SpliceCancelled, Report
  <1>3. CASE UNCHANGED <<truncated, stopped, cancelled>>
    BY <1>1, <1>2, <1>3, LimitsKept DEF limits
  <1>4. CASE SpliceCancelled /\ UNCHANGED truncated
    BY <1>1, <1>2, <1>4 DEF SpliceCancelled, LimitInv
  <1>5. CASE /\ truncated' = TRUE /\ "include-depth-limit" \in diags'
             /\ UNCHANGED <<stopped, cancelled>>
    <2>1. "include-depth-limit" \in diags' \cap LimitCodes
      BY <1>5 DEF LimitCodes
    <2> QED
      BY <1>1, <1>2, <1>5, <2>1 DEF LimitInv
  <1>6. CASE ImplicitPrefix
    BY <1>3, <1>4, <1>6 DEF ImplicitPrefix, SpliceInclude
  <1>7. ASSUME NEW uri, IncludeResolved(path, optional, uri) PROVE LimitInv'
    BY <1>3, <1>4, <1>5, <1>7 DEF IncludeResolved, RecordOnly, SpliceInclude, Report
  <1>8. CASE IncludeInactive \/ IncludeUnresolved(path, optional)
    BY <1>3, <1>8 DEF IncludeInactive, IncludeUnresolved, RecordOnly
  <1> QED
    BY <1>6, <1>7, <1>8 DEF HandleInclude

\* The invariant is inductive.
LEMMA LimitStep ==
    ASSUME TypeOK, LimitInv, [Next]_vars
    PROVE  LimitInv'
  <1>1. ASSUME NEW c, HandleIf(c) PROVE LimitInv'
    <2>1. ~stopped /\ UNCHANGED <<outputTokens, ctxDone, cancelled, phase>>
      BY <1>1 DEF HandleIf, IfOverflow, IfOpen, ReadLine, Running, context
    <2>2. CASE IfOpen(c)
      BY <2>1, <2>2, LimitsKept DEF IfOpen, Evaluate, Report
    <2>3. CASE IfOverflow
      <3>1. "conditional-depth-limit" \in diags' \cap LimitCodes
        BY <2>1, <2>3 DEF IfOverflow, Warned, Report, LimitInv, LimitCodes
      <3> QED
        BY <2>1, <2>3, <3>1 DEF IfOverflow, LimitInv
    <2> QED
      BY <1>1, <2>2, <2>3 DEF HandleIf
  <1>2. ASSUME NEW names, NEW n, EmitLine(names) \/ ExpandLine(n) PROVE LimitInv'
    BY <1>2, TextKeepsLimits
  <1>3. ASSUME NEW path, NEW optional, HandleInclude(path, optional) \/ ImplicitPrefix
        PROVE  LimitInv'
    BY <1>3, IncludeKeepsLimits
  <1>4. ASSUME NEW c, HandleElseif(c) \/ HandleElse \/ HandleEndif PROVE LimitInv'
    <2>1. diags \subseteq diags'
      BY <1>4 DEF HandleElseif, HandleElse, HandleEndif, Unmatched, OverflowAlternative,
         ElseifTaken, ElseifEvaluated, ElseBranch, Endif, Evaluate, Report
    <2> QED
      BY <1>4, <2>1, LimitsKept DEF HandleElseif, HandleElse, HandleEndif
  <1>5. CASE \/ \E c \in Conditions : HandleAssert(c)
             \/ \E n \in Names : HandleUndef(n)
             \/ \E n \in Names, body \in Bodies : HandleDefine(n, body)
             \/ \E code \in MessageCodes : HandleMessage(code)
             \/ HandleEndinput
    <2>1. diags \subseteq diags'
      BY <1>5 DEF HandleAssert, HandleUndef, HandleDefine, HandleMessage,
         HandleEndinput, Report
    <2> QED
      BY <1>5, <2>1, LimitsKept DEF HandleAssert, HandleUndef, HandleDefine,
         HandleMessage, HandleEndinput, context
  <1>6. CASE PollCancellation \/ CancelContext
    BY <1>6 DEF PollCancellation, CancelContext, Running, LimitInv, limits
  <1>7. CASE FinishFrame
    BY <1>7 DEF FinishFrame, FileLeft, Outcome, Report, LimitInv, limits, context
  <1>8. CASE UNCHANGED vars
    BY <1>8, LimitsKept DEF vars, context
  <1> QED
    BY <1>1, <1>2, <1>3, <1>4, <1>5, <1>6, <1>7, <1>8 DEF Next, Step

LEMMA LimitAlways == Spec => []LimitInv
  <1>1. Init => LimitInv
    <2> SUFFICES ASSUME Init PROVE LimitInv
      OBVIOUS
    <2>1. /\ ~truncated /\ ~depthLimitWarned /\ ~stopped /\ ~cancelled
          /\ outputTokens = 0
      BY DEF Init
    <2>2. outputTokens <= MaxOutputTokens /\ outputTokens <= MaxOutputTokens + 1
      BY <2>1, LimitsAssumption
    <2> QED
      BY <2>1, <2>2 DEF LimitInv
  <1> QED
    BY <1>1, LimitStep, TypeCorrect, PTL DEF Spec

\* No pass is cut short in silence: a truncated result says which limit
\* truncated it, a pass that stops is truncated or cancelled, only a cancelled
\* context cancels it and then there is no result, and the output is never
\* longer than one token beyond its limit (Result.Truncated, runPass).
THEOREM EndIsAlwaysReported == Spec => []EndIsReported
  <1>1. LimitInv => EndIsReported
    BY DEF LimitInv, EndIsReported, LimitCodes
  <1> QED
    BY <1>1, LimitAlways, PTL

---------------------------------------------------------------------------
(* Conditionals beyond the limit. *)

\* Diagnostics are never taken back.
LEMMA DiagsGrow ==
    ASSUME [Next]_vars
    PROVE  diags \subseteq diags'
  <1>1. ASSUME NEW c, HandleIf(c) \/ HandleElseif(c) \/ HandleElse \/ HandleEndif
        PROVE  diags \subseteq diags'
    BY <1>1 DEF HandleIf, IfOverflow, IfOpen, HandleElseif, HandleElse, HandleEndif,
       Unmatched, OverflowAlternative, ElseifTaken, ElseifEvaluated, ElseBranch, Endif,
       Evaluate, Report
  <1>2. ASSUME NEW names, NEW n, EmitLine(names) \/ ExpandLine(n)
        PROVE  diags \subseteq diags'
    BY <1>2 DEF EmitLine, ExpandLine, ExpandReplaced, ExpandUnterminated,
       ExpandTooDeep, Report
  <1>3. ASSUME NEW path, NEW optional, HandleInclude(path, optional) \/ ImplicitPrefix
        PROVE  diags \subseteq diags'
    BY <1>3 DEF HandleInclude, ImplicitPrefix, IncludeInactive, IncludeUnresolved,
       IncludeResolved, RecordOnly, SpliceInclude, SpliceCancelled, Report
  <1>4. CASE \/ \E c \in Conditions : HandleAssert(c)
             \/ \E n \in Names : HandleUndef(n)
             \/ \E n \in Names, body \in Bodies : HandleDefine(n, body)
             \/ \E code \in MessageCodes : HandleMessage(code)
             \/ HandleEndinput \/ PollCancellation \/ CancelContext \/ FinishFrame
    BY <1>4 DEF HandleAssert, HandleUndef, HandleDefine, HandleMessage,
       HandleEndinput, PollCancellation, CancelContext, FinishFrame, FileLeft, Report
  <1>5. CASE UNCHANGED vars
    BY <1>5 DEF vars
  <1> QED
    BY <1>1, <1>2, <1>3, <1>4, <1>5 DEF Next, Step

\* The flag of the depth limits is never taken back.
LEMMA FlagStays ==
    ASSUME [Next]_vars, depthLimitWarned
    PROVE  depthLimitWarned'
  <1>1. ASSUME NEW c, HandleIf(c) PROVE depthLimitWarned'
    BY <1>1 DEF HandleIf, IfOverflow, IfOpen, limits
  <1>2. ASSUME NEW n, ExpandLine(n) PROVE depthLimitWarned'
    BY <1>2 DEF ExpandLine, ExpandReplaced, ExpandUnterminated, ExpandTooDeep
  <1>3. ASSUME NEW c, HandleElseif(c) \/ HandleElse \/ HandleEndif \/ HandleAssert(c)
        PROVE  depthLimitWarned'
    BY <1>3 DEF HandleElseif, HandleElse, HandleEndif, HandleAssert, limits
  <1>4. CASE \/ \E path \in Paths, optional \in BOOLEAN : HandleInclude(path, optional)
             \/ \E names \in Declarations : EmitLine(names)
             \/ \E n \in Names : HandleUndef(n)
             \/ \E n \in Names, body \in Bodies : HandleDefine(n, body)
             \/ \E code \in MessageCodes : HandleMessage(code)
             \/ HandleEndinput \/ ImplicitPrefix
             \/ PollCancellation \/ CancelContext \/ FinishFrame
    BY <1>4 DEF HandleInclude, EmitLine, HandleUndef, HandleDefine, HandleMessage,
       HandleEndinput, ImplicitPrefix, PollCancellation, CancelContext, FinishFrame, FileLeft,
       limits
  <1>5. CASE UNCHANGED vars
    BY <1>5 DEF vars, limits
  <1> QED
    BY <1>1, <1>2, <1>3, <1>4, <1>5 DEF Next, Step

HasOverflow ==
    \E i \in DOMAIN frames : \E j \in DOMAIN frames[i].cond : frames[i].cond[j].overflow

\* A conditional beyond the limit has set the flag and has its diagnostic.
OverflowInv == HasOverflow => depthLimitWarned /\ "conditional-depth-limit" \in diags

\* Only an #if beyond the limit opens a conditional beyond it.
LEMMA OverflowStep ==
    ASSUME TypeOK, LimitInv, NestInv, OverflowInv, [Next]_vars
    PROVE  OverflowInv'
  <1> DEFINE Marked == depthLimitWarned' /\ "conditional-depth-limit" \in diags'
  <1> SUFFICES ASSUME NEW i \in DOMAIN frames', NEW j \in DOMAIN frames'[i].cond,
                      frames'[i].cond[j].overflow
               PROVE  Marked
    BY DEF OverflowInv, HasOverflow
  <1>1. /\ TypeOK' /\ NestInv' /\ Shape
        /\ diags \subseteq diags' /\ (depthLimitWarned => depthLimitWarned')
    BY TypeStep, NestStep, NextShape, DiagsGrow, FlagStays DEF NestInv
  <1>2. /\ frames' \in Seq(Frames) /\ DOMAIN frames' = 1 .. Len(frames')
        /\ frames \in Seq(Frames) /\ DOMAIN frames = 1 .. Len(frames)
        /\ Len(frames) \in Nat
    BY <1>1, LenProperties DEF TypeOK, FramesTypeOK
  <1> DEFINE c == frames'[i].cond
  <1>3. Len(c) \in Nat /\ Len(c) > MaxConditionalDepth
    <2>1. Len(c) \in Nat /\ DOMAIN c = 1 .. Len(c)
      BY <1>2, FrameFacts
    <2>2. Nested(c)
      BY <1>1 DEF NestInv, ConditionalsNest, Nested
    <2>3. Len(c) \in Nat /\ j \in 1 .. Len(c)
      BY <2>1
    <2> HIDE DEF c
    <2>4. c[j].overflow /\ j \in DOMAIN c
      BY DEF c
    <2>5. j > MaxConditionalDepth
      BY <2>2, <2>4 DEF Nested
    <2> QED
      BY <2>3, <2>5, LimitsAssumption
  <1> HIDE DEF c
  <1>4. ASSUME NEW k \in DOMAIN frames, Len(c) <= Len(frames[k].cond)
        PROVE  Marked
    <2> DEFINE d == frames[k].cond
    <2>1. Nested(d)
      BY DEF NestInv, ConditionalsNest
    <2>2. Len(d) \in Nat /\ DOMAIN d = 1 .. Len(d)
      BY <1>2, FrameFacts
    <2>3. Len(d) > MaxConditionalDepth /\ Len(d) \in DOMAIN d
      BY <1>3, <1>4, <2>2, LimitsAssumption
    <2>4. d[Len(d)].overflow
      BY <2>1, <2>3 DEF Nested
    <2> QED
      BY <1>1, <2>3, <2>4 DEF OverflowInv, HasOverflow
  <1>5. CASE i \in DOMAIN frames /\ frames'[i] = frames[i]
    BY <1>3, <1>4, <1>5 DEF c
  <1>6. ASSUME frames # <<>>, NEW f \in Frames, Rewrites(f)
        PROVE  Marked
    <2>1. /\ Len(frames') = Len(frames) /\ frames'[Len(frames)] = f
          /\ Len(frames) \in Nat \ {0}
          /\ \A k \in 1 .. Len(frames) - 1 : frames'[k] = frames[k]
      BY <1>2, <1>6, FramesRewritten DEF Rewrites
    <2>2. CASE i # Len(frames)
      BY <1>2, <1>5, <2>1, <2>2
    <2>3. CASE i = Len(frames)
      <3>1. c = f.cond /\ Top = frames[i] /\ i \in DOMAIN frames
        BY <1>2, <2>1, <2>3 DEF Top, c
      <3>2. CASE Len(c) <= Len(Top.cond)
        BY <1>4, <3>1, <3>2
      <3>3. ~(Len(c) <= MaxConditionalDepth)
        BY <1>3, LimitsAssumption
      <3>4. CASE IfOverflow /\ ~stopped
        BY <3>4 DEF IfOverflow, Warned, Report, LimitInv
      <3> QED
        BY <1>6, <3>1, <3>2, <3>3, <3>4 DEF Rewrites, WithinLimit
    <2> QED
      BY <2>2, <2>3
  <1>7. ASSUME frames # <<>>, NEW parent \in Frames, NEW child \in Frames,
               Pushes(parent, child)
        PROVE  Marked
    <2>1. /\ Len(frames) \in Nat \ {0} /\ Len(frames') = Len(frames) + 1
          /\ frames'[Len(frames) + 1] = child /\ frames'[Len(frames)] = parent
          /\ \A k \in 1 .. Len(frames) - 1 : frames'[k] = frames[k]
      BY <1>2, <1>7, FramesPushed DEF Pushes
    <2>2. parent.cond = Top.cond /\ child.cond = <<>>
      BY <1>7 DEF Pushes
    <2>3. CASE i = Len(frames) + 1
      <3>1. Len(c) = 0
        BY <2>1, <2>2, <2>3, EmptySeq DEF c
      <3> QED
        BY <1>3, <3>1, LimitsAssumption
    <2>4. CASE i = Len(frames)
      <3>1. c = Top.cond /\ Top = frames[i] /\ i \in DOMAIN frames
        BY <1>2, <2>1, <2>2, <2>4 DEF Top, c
      <3> QED
        BY <1>3, <1>4, <3>1
    <2>5. CASE i \in 1 .. Len(frames) - 1
      BY <1>2, <1>5, <2>1, <2>5
    <2> QED
      BY <1>2, <2>1, <2>3, <2>4, <2>5
  <1>8. CASE frames # <<>> /\ frames' = Pop(frames)
    <2>1. /\ Len(frames) \in Nat \ {0} /\ Len(frames') = Len(frames) - 1
          /\ \A k \in 1 .. Len(frames) - 1 : frames'[k] = frames[k]
      BY <1>2, <1>8, FramesPopped
    <2> QED
      BY <1>2, <1>5, <2>1
  <1>9. frames # <<>> \/ frames' = frames
    <2> SUFFICES ASSUME frames = <<>> PROVE frames' = frames
      OBVIOUS
    <2>1. phase \notin {"prefix", "running"}
      BY DEF TypeOK, FramesTypeOK
    <2> QED
      BY <2>1, EndIsFinal DEF vars
  <1> QED
    BY <1>1, <1>5, <1>6, <1>7, <1>8, <1>9 DEF Shape

LEMMA OverflowAlways == Spec => []OverflowInv
  <1>1. Init => OverflowInv
    <2> SUFFICES ASSUME Init, NEW i \in DOMAIN frames, NEW j \in DOMAIN frames[i].cond
                 PROVE  FALSE
      BY DEF OverflowInv, HasOverflow
    <2> DEFINE root == NewFrame(1, "root", NoInclude)
    <2>1. root.cond = <<>>
      BY DEF NewFrame
    <2>2. frames = <<root>>
      BY DEF Init
    <2> HIDE DEF root
    <2>3. frames[i] = root /\ DOMAIN root.cond = {}
      BY <2>1, <2>2
    <2> QED
      BY <2>3
  <1> QED
    BY <1>1, OverflowStep, LimitAlways, NestAlways, TypeCorrect, PTL DEF Spec

\* A file with a conditional too deep always has the diagnostic for it, for
\* any limit, although one flag serves both depth limits (handleIf).
THEOREM OverflowIsAlwaysReported == Spec => []OverflowIsReported
  <1>1. OverflowInv => OverflowIsReported
    BY DEF OverflowInv, HasOverflow, OverflowIsReported
  <1> QED
    BY <1>1, OverflowAlways, PTL

---------------------------------------------------------------------------
(* The end of a pass. *)

\* A step that reads on in the current file, whatever it pushes on it.
ReadsOn ==
    /\ phase = "running"
    /\ \A i \in 1 .. Len(frames) - 1 : i \in DOMAIN frames' /\ frames'[i] = frames[i]
    /\ Len(frames) \in DOMAIN frames' /\ frames'[Len(frames)].line > Top.line

\* Another current frame, behind the line, reads on.
LEMMA LineReadsOn ==
    ASSUME TypeOK, phase = "running", NEW f, f.line > Top.line,
           \/ frames' = SetLast(frames, f)
           \/ \E child : frames' = Append(SetLast(frames, f), child)
    PROVE  ReadsOn
  <1>1. PICK child : frames' = SetLast(frames, f) \/ frames' = Append(SetLast(frames, f), child)
    OBVIOUS
  <1>2. PICK S : S = Frames \cup {f, child}
    OBVIOUS
  <1>3. frames \in Seq(Frames) /\ frames # <<>> /\ Frames \subseteq S
    BY <1>2, TopType
  <1>4. frames \in Seq(S) /\ f \in S /\ child \in S
    BY <1>2, <1>3, SeqMonotonic
  <1>5. PICK t : t = SetLast(frames, f)
    OBVIOUS
  <1>6. /\ t \in Seq(S) /\ Len(t) = Len(frames) /\ t[Len(frames)] = f
        /\ \A i \in 1 .. Len(frames) - 1 : t[i] = frames[i]
    <2>1. frames \in Seq(S)
      BY <1>4
    <2>2. frames # <<>>
      BY <1>3
    <2>3. f \in S
      BY <1>4
    <2>4. /\ SetLast(frames, f) \in Seq(S)
          /\ Len(SetLast(frames, f)) = Len(frames)
          /\ SetLast(frames, f)[Len(frames)] = f
          /\ \A i \in 1 .. Len(frames) - 1 : SetLast(frames, f)[i] = frames[i]
      BY <2>1, <2>2, <2>3, SetLastFacts
    <2> QED
      BY <1>5, <2>4
  <1>7. PICK n \in Nat \ {0} : n = Len(frames)
    BY TopType
  <1>8. DOMAIN t = 1 .. n /\ n \in 1 .. n
    BY <1>6, <1>7, LenProperties
  <1>9. PICK u : u = Append(t, child)
    OBVIOUS
  <1>10. /\ u \in Seq(S) /\ Len(u) = n + 1 /\ \A i \in 1 .. n : u[i] = t[i]
    BY <1>4, <1>6, <1>7, <1>9, AppendProperties
  <1>11. DOMAIN u = 1 .. n + 1
    BY <1>10, LenProperties
  <1>12. \A i \in 1 .. n - 1 : t[i] = frames[i] /\ u[i] = frames[i] /\ i \in DOMAIN t /\ i \in DOMAIN u
    BY <1>6, <1>7, <1>8, <1>10, <1>11
  <1>13. t[n] = f /\ u[n] = f /\ n \in DOMAIN t /\ n \in DOMAIN u
    BY <1>6, <1>7, <1>8, <1>10, <1>11
  <1>14. frames' = t \/ frames' = u
    BY <1>1, <1>5, <1>9
  <1>15. CASE frames' = t
    BY <1>7, <1>12, <1>13, <1>15 DEF ReadsOn
  <1>16. CASE frames' = u
    BY <1>7, <1>12, <1>13, <1>16 DEF ReadsOn
  <1> QED
    BY <1>14, <1>15, <1>16

\* The frame behind the line just read.
LEMMA PastIsBehind ==
    ASSUME TypeOK, phase = "running", NEW c
    PROVE  Past(Top, c).line > Top.line
  <1>1. Top \in Frames /\ Top.line \in LineIndices
    BY TopType
  <1>2. Past(Top, c).line = Top.line + 1
    BY <1>1 DEF Past, Frames
  <1>3. Top.line \in Int
    BY <1>1 DEF LineIndices
  <1> QED
    BY <1>2, <1>3

\* A line consumed whole.
LEMMA ConsumeReadsOn ==
    ASSUME TypeOK, phase = "running", NEW c, Consume(c)
    PROVE  ReadsOn
  <1>1. PICK f : f = Past(Top, c)
    OBVIOUS
  <1>2. f.line > Top.line
    BY <1>1, PastIsBehind
  <1>3. frames' = SetLast(frames, f)
    BY <1>1 DEF Consume
  <1> QED
    BY <1>2, <1>3, LineReadsOn

\* A line of a conditional.
LEMMA ConditionalReadsOn ==
    ASSUME TypeOK,
           \/ \E c \in Conditions : HandleIf(c) \/ HandleElseif(c)
           \/ HandleElse \/ HandleEndif
    PROVE  ReadsOn
  <1>1. phase = "running"
    BY ReadLineFacts DEF HandleIf, HandleElseif, HandleElse, HandleEndif
  <1>2. \E c : Consume(c)
    <2>1. CASE \E c \in Conditions : HandleIf(c)
      BY <2>1 DEF HandleIf, IfOverflow, IfOpen
    <2>2. CASE \E c \in Conditions : HandleElseif(c)
      BY <2>2 DEF HandleElseif, Unmatched, OverflowAlternative, ElseifTaken, ElseifEvaluated,
         NextBranch, SkipLine
    <2>3. CASE HandleElse
      BY <2>3 DEF HandleElse, Unmatched, OverflowAlternative, ElseBranch, NextBranch, SkipLine
    <2>4. CASE HandleEndif
      BY <2>4 DEF HandleEndif, Unmatched, Endif, SkipLine
    <2> QED
      BY <2>1, <2>2, <2>3, <2>4
  <1> QED
    BY <1>1, <1>2, ConsumeReadsOn

\* Any other line that reads no file.
LEMMA TextReadsOn ==
    ASSUME TypeOK, NEW n, NEW body, NEW c, NEW code, NEW names,
           \/ EmitLine(names) \/ ExpandLine(n)
           \/ HandleDefine(n, body) \/ HandleUndef(n)
           \/ HandleAssert(c) \/ HandleMessage(code)
           \/ HandleEndinput
    PROVE  ReadsOn
  <1>1. phase = "running" /\ Top.line < MaxFileLines
    BY ReadLineFacts DEF EmitLine, ExpandLine, HandleDefine, HandleUndef,
       HandleAssert, HandleMessage, HandleEndinput
  <1>2. Top \in Frames /\ Top.line \in Nat /\ MaxFileLines \in Nat
    BY <1>1, TopType, LimitsAssumption DEF LineIndices
  <1>3. CASE SkipLine
    BY <1>1, <1>3, ConsumeReadsOn DEF SkipLine
  <1>4. ASSUME NEW next, next > Top.line, frames' = SetLast(frames, [Top EXCEPT !.line = next])
        PROVE  ReadsOn
    <2>1. PICK f : f = [Top EXCEPT !.line = next]
      OBVIOUS
    <2>2. f.line = next
      BY <1>2, <2>1 DEF Frames
    <2>3. frames' = SetLast(frames, f) /\ f.line > Top.line
      BY <1>4, <2>1, <2>2
    <2> QED
      BY <1>1, <2>3, LineReadsOn
  <1>5. CASE ExpandReplaced
    <2>1. PICK next \in (Top.line + 1) .. MaxFileLines :
              frames' = SetLast(frames, [Top EXCEPT !.line = next])
      BY <1>5 DEF ExpandReplaced
    <2>2. next > Top.line
      BY <1>2
    <2> QED
      BY <1>4, <2>1, <2>2
  <1>6. CASE ExpandUnterminated
    <2>1. MaxFileLines > Top.line
      BY <1>1, <1>2
    <2>2. frames' = SetLast(frames, [Top EXCEPT !.line = MaxFileLines])
      BY <1>6 DEF ExpandUnterminated
    <2> QED
      BY <1>4, <2>1, <2>2
  <1>7. CASE HandleEndinput
    <2>1. PICK p : p = Past(Top, Top.cond)
      OBVIOUS
    <2>2. p \in Frames /\ p.line > Top.line
      BY <1>1, <2>1, TopType, PastType, PastIsBehind
    <2>3. PICK f : f = [p EXCEPT !.endinput = Active(Top)]
      OBVIOUS
    <2>4. f.line = p.line
      BY <2>2, <2>3 DEF Frames
    <2>5. frames' = SetLast(frames, f) /\ f.line > Top.line
      BY <1>7, <2>1, <2>2, <2>3, <2>4 DEF HandleEndinput
    <2> QED
      BY <1>1, <2>5, LineReadsOn
  <1> QED
    BY <1>3, <1>5, <1>6, <1>7 DEF EmitLine, ExpandLine, HandleDefine, HandleUndef,
       HandleAssert, HandleMessage, ExpandTooDeep

\* An include, whether its file is read or not.
LEMMA IncludeReadsOn ==
    ASSUME TypeOK, NEW path \in Paths, NEW optional \in BOOLEAN, HandleInclude(path, optional)
    PROVE  ReadsOn
  <1>1. phase = "running"
    BY ReadLineFacts DEF HandleInclude
  <1>2. CASE SkipLine
    BY <1>1, <1>2, ConsumeReadsOn DEF SkipLine
  <1>3. ASSUME NEW uri, NEW inc, SpliceInclude(Past(Top, Top.cond), uri, inc)
        PROVE  ReadsOn
    <2>1. PICK f : f = Past(Top, Top.cond)
      OBVIOUS
    <2>2. f.line > Top.line
      BY <1>1, <2>1, PastIsBehind
    <2>3. \E child : frames' = Append(SetLast(frames, f), child)
      BY <1>3, <2>1 DEF SpliceInclude
    <2> QED
      BY <1>1, <2>2, <2>3, LineReadsOn
  <1> QED
    BY <1>2, <1>3 DEF HandleInclude, IncludeInactive, IncludeUnresolved, IncludeResolved, RecordOnly

\* Emitting stops a pass or leaves it as it is.
LEMMA StoppedOnOutput ==
    \A names : AppendOut(names) => (stopped => stopped')
  BY DEF AppendOut

\* Flags of a pass are set once.
LEMMA FlagsStay ==
    ASSUME TypeOK, [Next]_vars
    PROVE  /\ phase' = "prefix" => phase = "prefix"
           /\ stopped => stopped'
           /\ ctxDone => ctxDone'
  <1>1. CASE \E c \in Conditions : HandleIf(c)
    BY <1>1 DEF HandleIf, IfOverflow, IfOpen, limits, context
  <1>2. CASE \E c \in Conditions : HandleElseif(c)
    BY <1>2 DEF HandleElseif, limits
  <1>3. CASE HandleElse \/ HandleEndif
    BY <1>3 DEF HandleElse, HandleEndif, limits
  <1>4. CASE \E names \in Declarations : EmitLine(names)
    BY <1>4, StoppedOnOutput DEF EmitLine, context
  <1>5. CASE \E n \in Names : ExpandLine(n)
    <2>1. phase' = phase /\ ctxDone' = ctxDone
      BY <1>5 DEF ExpandLine, context
    <2>2. stopped => stopped'
      BY <1>5, StoppedOnOutput DEF ExpandLine, ExpandReplaced, ExpandUnterminated, ExpandTooDeep
    <2> QED
      BY <2>1, <2>2
  <1>6. CASE \/ \E c \in Conditions : HandleAssert(c)
             \/ \E n \in Names : HandleUndef(n)
             \/ \E n \in Names, body \in Bodies : HandleDefine(n, body)
             \/ \E code \in MessageCodes : HandleMessage(code)
             \/ HandleEndinput
    BY <1>6 DEF HandleAssert, HandleUndef, HandleDefine, HandleMessage, HandleEndinput, limits, context
  <1>7. CASE \E path \in Paths, optional \in BOOLEAN : HandleInclude(path, optional)
    <2>1. PICK path \in Paths, optional \in BOOLEAN : HandleInclude(path, optional)
      BY <1>7
    <2>2. phase' = phase /\ ctxDone' = ctxDone
      BY <2>1 DEF HandleInclude
    <2>3. stopped => stopped'
      BY <2>1 DEF HandleInclude, IncludeInactive, IncludeUnresolved, IncludeResolved, RecordOnly,
         SpliceInclude, SpliceCancelled
    <2> QED
      BY <2>2, <2>3
  <1>8. CASE ImplicitPrefix
    <2>1. phase' = "running" /\ ctxDone' = ctxDone
      BY <1>8 DEF ImplicitPrefix
    <2>2. stopped => stopped'
      BY <1>8 DEF ImplicitPrefix, SpliceInclude, SpliceCancelled
    <2> QED
      BY <2>1, <2>2
  <1>9. CASE FinishFrame
    <2>1. phase' = phase \/ phase' = Outcome
      BY <1>9 DEF FinishFrame, FileLeft
    <2>2. Outcome # "prefix"
      BY DEF Outcome
    <2>3. stopped' = stopped /\ ctxDone' = ctxDone
      BY <1>9 DEF FinishFrame, FileLeft, limits, context
    <2> QED
      BY <2>1, <2>2, <2>3
  <1>10. CASE CancelContext
    BY <1>10 DEF CancelContext, limits
  <1>11. CASE PollCancellation
    BY <1>11 DEF PollCancellation
  <1>12. CASE UNCHANGED vars
    BY <1>12 DEF vars, limits, context
  <1> QED
    BY <1>1, <1>2, <1>3, <1>4, <1>5, <1>6, <1>7, <1>8, <1>9, <1>10, <1>11, <1>12 DEF Next, Step

\* What a step does: it reads on, ends a file, or sets a flag.
LEMMA StepWorks ==
    ASSUME TypeOK, Next
    PROVE  \/ ReadsOn
           \/ phase = "running" /\ frames' = Pop(frames)
           \/ phase = "prefix" /\ phase' # "prefix"
           \/ ~stopped /\ stopped'
           \/ ~ctxDone /\ ctxDone'
  <1>1. CASE \/ \E c \in Conditions : HandleIf(c) \/ HandleElseif(c)
             \/ HandleElse \/ HandleEndif
    BY <1>1, ConditionalReadsOn
  <1>2. CASE \/ \E names \in Declarations : EmitLine(names)
             \/ \E n \in Names : ExpandLine(n) \/ HandleUndef(n)
             \/ \E n \in Names, body \in Bodies : HandleDefine(n, body)
             \/ \E c \in Conditions : HandleAssert(c)
             \/ \E code \in MessageCodes : HandleMessage(code)
             \/ HandleEndinput
    BY <1>2, TextReadsOn
  <1>3. CASE \E path \in Paths, optional \in BOOLEAN : HandleInclude(path, optional)
    BY <1>3, IncludeReadsOn
  <1>4. CASE ImplicitPrefix
    BY <1>4 DEF ImplicitPrefix
  <1>5. CASE FinishFrame
    BY <1>5 DEF FinishFrame, FileLeft
  <1>6. CASE PollCancellation
    BY <1>6 DEF PollCancellation, Running
  <1>7. CASE CancelContext
    BY <1>7 DEF CancelContext
  <1> QED
    BY <1>1, <1>2, <1>3, <1>4, <1>5, <1>6, <1>7 DEF Next, Step

\* The work of a file being read.
LEMMA WorkOfFiles ==
    ASSUME TypeOK, NEW i \in DOMAIN frames
    PROVE  i \in Nat \ {0} /\ Work(i) = MaxFileLines - frames[i].line + 1 /\ Work(i) \in Nat \ {0}
  <1>1. frames[i] \in Frames /\ i \in Nat \ {0}
    BY FrameFacts, LenProperties DEF TypeOK, FramesTypeOK
  <1>2. frames[i].line \in 0 .. MaxFileLines /\ MaxFileLines \in Nat
    BY <1>1, LimitsAssumption DEF Frames, LineIndices
  <1>3. Work(i) = MaxFileLines - frames[i].line + 1
    BY <1>1 DEF Work
  <1> QED
    BY <1>1, <1>2, <1>3

\* What is left of the flags only falls, and falls when one is set.
LEMMA FlagsFall ==
    ASSUME TypeOK, [Next]_vars
    PROVE  /\ Work(0)' <= Work(0)
           /\ \/ phase = "prefix" /\ phase' # "prefix"
              \/ ~stopped /\ stopped'
              \/ ~ctxDone /\ ctxDone'
              => Work(0)' < Work(0)
  <1>1. TypeOK'
    BY TypeStep
  <1>2. /\ stopped \in BOOLEAN /\ stopped' \in BOOLEAN
        /\ ctxDone \in BOOLEAN /\ ctxDone' \in BOOLEAN
    BY <1>1 DEF TypeOK, OutputTypeOK
  <1> DEFINE p == Left(phase = "prefix")
             s == Left(~stopped)
             c == Left(~ctxDone)
  <1>3. Work(0) = p + s + c /\ Work(0)' = p' + s' + c'
    BY DEF Work
  <1>4. p \in Nat /\ p' \in Nat /\ p' <= p /\ (phase = "prefix" /\ phase' # "prefix" => p' < p)
    BY FlagsStay DEF Left
  <1>5. s \in Nat /\ s' \in Nat /\ s' <= s /\ (~stopped /\ stopped' => s' < s)
    BY FlagsStay, <1>2 DEF Left
  <1>6. c \in Nat /\ c' \in Nat /\ c' <= c /\ (~ctxDone /\ ctxDone' => c' < c)
    BY FlagsStay, <1>2 DEF Left
  <1> HIDE DEF p, s, c
  <1>7. Work(0)' <= Work(0)
    BY <1>3, <1>4, <1>5, <1>6
  <1>8. CASE phase = "prefix" /\ phase' # "prefix"
    BY <1>3, <1>4, <1>5, <1>6, <1>8
  <1>9. CASE ~stopped /\ stopped'
    BY <1>3, <1>4, <1>5, <1>6, <1>9
  <1>10. CASE ~ctxDone /\ ctxDone'
    BY <1>3, <1>4, <1>5, <1>6, <1>10
  <1> QED
    BY <1>7, <1>8, <1>9, <1>10

\* A step that keeps the files below one, and the flags, and leaves less to do
\* in that one.
LEMMA DescendsAt ==
    ASSUME NEW n \in 1 .. MaxIncludeDepth + 1,
           Work(n)' < Work(n), Work(0)' <= Work(0),
           \A i \in 1 .. n - 1 : Work(i)' <= Work(i)
    PROVE  StepDescends
  <1>1. n \in 0 .. MaxIncludeDepth + 1 /\ MaxIncludeDepth \in Nat
    BY LimitsAssumption
  <1>2. ASSUME NEW l \in 0 .. n - 1
        PROVE  Work(l)' <= Work(l)
    <2>1. l = 0 \/ l \in 1 .. n - 1
      BY <1>1
    <2> QED
      BY <2>1
  <1> QED
    BY <1>1, <1>2 DEF StepDescends

\* Reading on leaves less to do in the current file.
LEMMA ReadingDescends ==
    ASSUME TypeOK, TypeOK', IncludeDepthBounded, ReadsOn, Work(0)' <= Work(0)
    PROVE  StepDescends
  <1>1. PICK n \in Nat \ {0} : n = Len(frames)
    BY TopType DEF ReadsOn
  <1>2. n \in 1 .. MaxIncludeDepth + 1
    BY <1>1, LimitsAssumption DEF IncludeDepthBounded
  <1>3. DOMAIN frames = 1 .. n
    BY <1>1, TopType, LenProperties DEF ReadsOn
  <1>4. ASSUME NEW i \in DOMAIN frames, i \in DOMAIN frames'
        PROVE  /\ Work(i) = MaxFileLines - frames[i].line + 1
               /\ Work(i)' = MaxFileLines - frames'[i].line + 1
               /\ Work(i) \in Nat /\ Work(i)' \in Nat
    <2>1. i \in Nat \ {0} /\ Work(i) = MaxFileLines - frames[i].line + 1 /\ Work(i) \in Nat
      BY WorkOfFiles
    <2>2. frames' \in Seq(Frames)
      BY DEF TypeOK, FramesTypeOK
    <2>3. frames'[i] \in Frames
      BY <1>4, <2>2, FrameFacts
    <2>4. frames'[i].line \in 0 .. MaxFileLines /\ MaxFileLines \in Nat
      BY <2>3, LimitsAssumption DEF Frames, LineIndices
    <2>5. Work(i)' = MaxFileLines - frames'[i].line + 1
      BY <1>4, <2>1 DEF Work
    <2> QED
      BY <2>1, <2>4, <2>5
  <1>5. Work(n)' < Work(n)
    <2>1. n \in DOMAIN frames /\ n \in DOMAIN frames'
      BY <1>1, <1>3 DEF ReadsOn
    <2>2. frames'[n].line > frames[n].line
      BY <1>1 DEF ReadsOn, Top
    <2>3. frames[n].line \in 0 .. MaxFileLines /\ frames'[n].line \in 0 .. MaxFileLines
      <3>1. frames \in Seq(Frames) /\ frames' \in Seq(Frames)
        BY DEF TypeOK, FramesTypeOK
      <3>2. frames[n] \in Frames /\ frames'[n] \in Frames
        BY <2>1, <3>1, FrameFacts
      <3> QED
        BY <3>2 DEF Frames, LineIndices
    <2>4. Work(n) = MaxFileLines - frames[n].line + 1 /\ Work(n)' = MaxFileLines - frames'[n].line + 1
      BY <1>4, <2>1
    <2> QED
      BY <2>2, <2>3, <2>4, LimitsAssumption
  <1>6. ASSUME NEW i \in 1 .. n - 1
        PROVE  Work(i)' <= Work(i)
    <2>1. i \in DOMAIN frames /\ i \in DOMAIN frames' /\ frames'[i] = frames[i]
      BY <1>1, <1>3 DEF ReadsOn
    <2> QED
      BY <1>4, <2>1
  <1> QED
    BY <1>2, <1>5, <1>6, DescendsAt

\* The end of a file leaves nothing to do in it.
LEMMA LeavingDescends ==
    ASSUME TypeOK, TypeOK', IncludeDepthBounded, Work(0)' <= Work(0),
           phase = "running", frames' = Pop(frames)
    PROVE  StepDescends
  <1>1. frames \in Seq(Frames) /\ frames # <<>>
    BY TopType
  <1>2. PICK n \in Nat \ {0} : n = Len(frames)
    BY TopType
  <1>3. /\ DOMAIN frames = 1 .. n /\ DOMAIN frames' = 1 .. n - 1
        /\ \A i \in 1 .. n - 1 : frames'[i] = frames[i]
    <2>1. frames # <<>>
      BY <1>1
    <2>2. frames \in Seq(Frames)
      BY <1>1
    <2> QED
      BY <1>2, <2>1, <2>2, FramesPopped
  <1>4. n \in 1 .. MaxIncludeDepth + 1
    BY <1>2, LimitsAssumption DEF IncludeDepthBounded
  <1>5. Work(n)' < Work(n)
    <2>1. n \in DOMAIN frames /\ ~(n \in DOMAIN frames') /\ n # 0
      BY <1>3
    <2>2. Work(n)' = 0
      BY <2>1 DEF Work
    <2>3. Work(n) \in Nat \ {0}
      BY <2>1, WorkOfFiles
    <2> QED
      BY <2>2, <2>3
  <1>6. ASSUME NEW i \in 1 .. n - 1
        PROVE  Work(i)' <= Work(i)
    <2>1. i \in DOMAIN frames /\ i \in DOMAIN frames' /\ frames'[i] = frames[i]
      BY <1>3
    <2>2. Work(i) \in Nat
      BY <2>1, WorkOfFiles
    <2>3. Work(i)' = Work(i)
      BY <2>1 DEF Work
    <2> QED
      BY <2>2, <2>3
  <1> QED
    BY <1>4, <1>5, <1>6, DescendsAt

\* Every step of a pass leaves less to do, whatever the files say and include
\* and whatever the limits: less of the flags, or less of the current file,
\* and no more of the files it was included from (engine.go, runContents;
\* includes.go, handleInclude; Run: "bounded by Options' limits").
THEOREM PassDescends == Spec => EveryStepDescends
  <1>1. ASSUME TypeOK, TypeOK', IncludeDepthBounded, Next
        PROVE  StepDescends
    <2>1. Work(0)' <= Work(0)
      BY <1>1, FlagsFall
    <2>2. CASE Work(0)' < Work(0)
      <3>1. 0 \in 0 .. MaxIncludeDepth + 1 /\ 0 .. 0 - 1 = {}
        BY LimitsAssumption
      <3> QED
        BY <2>2, <3>1 DEF StepDescends
    <2>3. CASE ReadsOn
      BY <1>1, <2>1, <2>3, ReadingDescends
    <2>4. CASE phase = "running" /\ frames' = Pop(frames)
      BY <1>1, <2>1, <2>4, LeavingDescends
    <2> QED
      BY <1>1, <2>2, <2>3, <2>4, FlagsFall, StepWorks
  <1>2. TypeOK /\ TypeOK' /\ IncludeDepthBounded /\ [Next]_vars => [StepDescends]_vars
    BY <1>1
  <1> QED
    BY <1>2, TypeCorrect, IncludeDepthAlwaysBounded, PTL DEF Spec, EveryStepDescends

============================================================================
