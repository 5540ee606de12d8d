---------------------- MODULE PreprocessRecordsProofs ----------------------
(***************************************************************************)
(* What the engine records of a pass, proved for every value of the        *)
(* constants: files and includes form one tree, the include stack counts   *)
(* what is being read, a guard symbol stands for one file; an open         *)
(* conditional points at its own last branch, the branches of a            *)
(* conditional exclude each other and tile its text.                       *)
(***************************************************************************)
EXTENDS PreprocessProofs, FiniteSetTheorems

---------------------------------------------------------------------------
(* The steps, by what they do to frames and records. *)

\* The current frame becomes f, which reads the same file further on.
Advances(f) ==
    /\ frames' = SetLast(frames, f)
    /\ f.file = Top.file /\ f.uri = Top.uri /\ f.inc = Top.inc
    /\ f.line >= Top.line

\* At most a directive that splices nothing is recorded, for the current file.
Records ==
    \/ includes' = includes
    \/ \E inc \in IncludeRecords :
          /\ includes' = Append(includes, inc)
          /\ inc.child = 0 /\ inc.file = Top.file

Idle == UNCHANGED <<frames, branches, files, includeStack>> /\ Records

Moves ==
    /\ \E f \in Frames : Advances(f) /\ f.cond = Top.cond
    /\ UNCHANGED <<branches, files, includeStack>> /\ Records

Opens ==
    /\ Len(Top.cond) < MaxConditionalDepth
    /\ \E parent, active \in BOOLEAN :
          /\ branches' = Append(branches, Branch("if", Len(Top.cond) + 1, active, parent))
          /\ Consume(Append(Top.cond, CondFrame(parent, active, NextIndex)))

OpensBeyond ==
    /\ \E parent \in BOOLEAN : Consume(Append(Top.cond, OverflowFrame(parent)))
    /\ Len(Top.cond) >= MaxConditionalDepth
    /\ UNCHANGED branches

Alternates ==
    /\ Top.cond # <<>> /\ ~TopCond.overflow
    /\ \E kind \in {"elseif", "else"}, active, evaluated \in BOOLEAN :
          /\ active => ~TopCond.taken
          /\ NextBranch(kind, active, evaluated)

AlternatesBeyond == OverflowAlternative

Ends == Endif

\* The step of a conditional directive.
Conditional ==
    /\ phase = "running" /\ Top.line < MaxFileLines
    /\ Opens \/ OpensBeyond \/ Alternates \/ AlternatesBeyond \/ Ends
    /\ UNCHANGED <<splices, symbols>>

\* A file is spliced; its guard was not set and is set now.
Splices ==
    \E parent \in Frames, uri \in Uris, inc \in IncludeRecords :
        /\ SpliceInclude(parent, uri, inc)
        /\ parent.file = Top.file /\ parent.uri = Top.uri /\ parent.inc = Top.inc
        /\ parent.cond = Top.cond /\ parent.line >= Top.line
        /\ inc.file = Top.file /\ inc.resolved
        /\ phase = "prefix" \/ (phase = "running" /\ ~Cyclic(uri))
        /\ inc.path # "prefix" => /\ inc.path \in Paths /\ ~Guarded(inc.path)
                                  /\ Compatibility => CompatName[inc.path] \in symbols'
        /\ UNCHANGED branches

\* Consuming a line advances the current frame.
LEMMA ConsumeAdvances ==
    ASSUME TypeOK, phase = "running", Top.line < MaxFileLines,
           NEW c \in Seq(CondFrames), Consume(c)
    PROVE  \E f \in Frames : Advances(f) /\ f.cond = c /\ f.line = Top.line + 1
  <1> DEFINE f == Past(Top, c)
  <1>1. f \in Frames /\ f.cond = c
    BY PastType
  <1>2. Top.line \in Nat /\ Top \in Frames
    BY TopType, LimitsAssumption DEF LineIndices
  <1>3. f.file = Top.file /\ f.uri = Top.uri /\ f.inc = Top.inc /\ f.line = Top.line + 1
    BY <1>2 DEF Past, Frames
  <1>4. frames' = SetLast(frames, f)
    BY DEF Consume
  <1> HIDE DEF f
  <1> QED
    BY <1>1, <1>2, <1>3, <1>4 DEF Advances

\* A line without effect on files and branches.
LEMMA SkipMoves ==
    ASSUME TypeOK, phase = "running", Top.line < MaxFileLines, SkipLine,
           UNCHANGED <<branches, files, includeStack>>, Records
    PROVE  Moves
  BY TopType, ConsumeAdvances DEF SkipLine, Moves

\* The conditional directives.
LEMMA ConditionalStep ==
    ASSUME TypeOK, NEW c,
           HandleIf(c) \/ HandleElseif(c) \/ HandleElse \/ HandleEndif
    PROVE  Moves \/ Conditional
  <1>1. phase = "running" /\ Top.line < MaxFileLines
    BY ReadLineFacts DEF HandleIf, HandleElseif, HandleElse, HandleEndif
  <1>2. UNCHANGED <<files, includeStack, includes, symbols>>
    BY DEF HandleIf, HandleElseif, HandleElse, HandleEndif, splices, tables
  <1>3. Active(Top) \in BOOLEAN /\ (Top.cond # <<>> => TopCond \in CondFrames)
    BY <1>1, TopType DEF Active, TopCond, CondFrames
  <1>4. ASSUME NEW code, Unmatched(code) PROVE Moves
    BY <1>1, <1>2, <1>4, SkipMoves DEF Unmatched, Records
  <1>5. CASE IfOverflow
    BY <1>1, <1>2, <1>3, <1>5 DEF IfOverflow, Conditional, OpensBeyond, splices
  <1>6. CASE IfOpen(c)
    <2>1. PICK v \in EvalCondition(c) :
             /\ branches' = Append(branches,
                    Branch("if", Len(Top.cond) + 1, Active(Top) /\ v = "true", Active(Top)))
             /\ Consume(Append(Top.cond,
                    CondFrame(Active(Top), Active(Top) /\ v = "true", NextIndex)))
      BY <1>6 DEF IfOpen
    <2> DEFINE active == Active(Top) /\ v = "true"
    <2>2. active \in BOOLEAN
      OBVIOUS
    <2>3. /\ branches' = Append(branches, Branch("if", Len(Top.cond) + 1, active, Active(Top)))
          /\ Consume(Append(Top.cond, CondFrame(Active(Top), active, NextIndex)))
      BY <2>1
    <2> HIDE DEF active
    <2>4. Opens
      BY <1>3, <1>6, <2>2, <2>3 DEF Opens, IfOpen
    <2> QED
      BY <1>1, <1>2, <2>4 DEF Conditional, splices
  <1>7. ASSUME Top.cond # <<>>, ~TopCond.overflow, NEW kind \in {"elseif", "else"},
               NEW active \in BOOLEAN, NEW evaluated \in BOOLEAN,
               active => ~TopCond.taken, NextBranch(kind, active, evaluated)
        PROVE  Conditional
    <2>1. Alternates
      BY <1>7 DEF Alternates
    <2> QED
      BY <1>1, <1>2, <2>1 DEF Conditional, splices
  <1>8. CASE ElseifTaken
    BY <1>7, <1>8 DEF ElseifTaken
  <1>9. CASE ElseifEvaluated(c)
    <2>1. PICK v \in EvalCondition(c) :
              NextBranch("elseif", TopCond.parentActive /\ v = "true",
                         TopCond.parentActive)
      BY <1>9 DEF ElseifEvaluated
    <2> DEFINE active == TopCond.parentActive /\ v = "true"
    <2>2. active \in BOOLEAN /\ TopCond.parentActive \in BOOLEAN
      BY <1>3, <1>9 DEF ElseifEvaluated, CondFrames
    <2>3. NextBranch("elseif", active, TopCond.parentActive)
      BY <2>1
    <2> HIDE DEF active
    <2> QED
      BY <1>7, <1>9, <2>2, <2>3 DEF ElseifEvaluated
  <1>10. CASE ElseBranch
    <2>1. ElseActive \in BOOLEAN /\ TopCond.parentActive \in BOOLEAN
      BY <1>3, <1>10 DEF ElseActive, ElseBranch, CondFrames
    <2>2. ElseActive => ~TopCond.taken
      BY DEF ElseActive
    <2> QED
      BY <1>7, <1>10, <2>1, <2>2 DEF ElseBranch
  <1>11. CASE OverflowAlternative \/ Endif
    BY <1>1, <1>2, <1>11 DEF Conditional, AlternatesBeyond, Ends, splices
  <1> QED
    BY <1>4, <1>5, <1>6, <1>8, <1>9, <1>10, <1>11 DEF HandleIf, HandleElseif,
       HandleElse, HandleEndif

\* A line of text or of another directive moves on in the current file.
LEMMA LineMoves ==
    ASSUME TypeOK, NEW n, NEW body, NEW c, NEW code, NEW names,
           \/ EmitLine(names) \/ ExpandLine(n)
           \/ HandleDefine(n, body) \/ HandleUndef(n)
           \/ HandleAssert(c) \/ HandleMessage(code)
           \/ HandleEndinput
    PROVE  Moves
  <1>1. phase = "running" /\ Top.line < MaxFileLines
    BY ReadLineFacts DEF EmitLine, ExpandLine, HandleDefine, HandleUndef,
       HandleAssert, HandleMessage, HandleEndinput
  <1>2. UNCHANGED <<branches, files, includeStack>> /\ Records
    BY DEF EmitLine, ExpandLine, HandleDefine, HandleUndef, HandleAssert,
       HandleMessage, HandleEndinput, Records, splices
  <1>3. /\ Top \in Frames /\ Top.line \in LineIndices /\ Top.line \in Nat
        /\ Top.cond \in Seq(CondFrames) /\ MaxFileLines \in Nat
    BY <1>1, TopType, LimitsAssumption DEF LineIndices
  <1>4. CASE SkipLine
    BY <1>1, <1>2, <1>4, SkipMoves
  <1>5. ASSUME NEW next \in LineIndices, next >= Top.line,
               frames' = SetLast(frames, [Top EXCEPT !.line = next])
        PROVE  Moves
    <2> DEFINE f == [Top EXCEPT !.line = next]
    <2>1. /\ f \in Frames /\ f.cond = Top.cond /\ f.line = next
          /\ f.file = Top.file /\ f.uri = Top.uri /\ f.inc = Top.inc
      BY <1>3 DEF Frames
    <2>2. frames' = SetLast(frames, f)
      BY <1>5
    <2> HIDE DEF f
    <2> QED
      BY <1>2, <1>5, <2>1, <2>2 DEF Moves, Advances
  <1>6. CASE ExpandReplaced
    <2>1. PICK next \in (Top.line + 1) .. MaxFileLines :
              frames' = SetLast(frames, [Top EXCEPT !.line = next])
      BY <1>6 DEF ExpandReplaced
    <2>2. next \in LineIndices /\ next >= Top.line
      BY <1>3 DEF LineIndices
    <2> QED
      BY <1>5, <2>1, <2>2
  <1>7. CASE ExpandUnterminated
    <2>1. MaxFileLines \in LineIndices /\ MaxFileLines >= Top.line
      BY <1>1, <1>3 DEF LineIndices
    <2> QED
      BY <1>5, <1>7, <2>1 DEF ExpandUnterminated
  <1>8. CASE HandleEndinput
    <2> DEFINE past == Past(Top, Top.cond)
               f == [past EXCEPT !.endinput = Active(Top)]
    <2>1. /\ past \in Frames /\ past.cond = Top.cond /\ past.line = Top.line + 1
          /\ past.file = Top.file /\ past.uri = Top.uri /\ past.inc = Top.inc
      <3>1. past \in Frames /\ past.cond = Top.cond
        BY <1>1, <1>3, PastType
      <3> QED
        BY <1>3, <3>1 DEF Past, Frames
    <2>2. Active(Top) \in BOOLEAN
      BY <1>1, TopType DEF Active, TopCond, CondFrames
    <2>3. frames' = SetLast(frames, f)
      BY <1>8 DEF HandleEndinput
    <2> HIDE DEF past
    <2>4. /\ f \in Frames /\ f.cond = Top.cond /\ f.line = Top.line + 1
          /\ f.file = Top.file /\ f.uri = Top.uri /\ f.inc = Top.inc
      BY <2>1, <2>2 DEF Frames
    <2> HIDE DEF f
    <2>5. f.line >= Top.line
      BY <1>3, <2>4
    <2> QED
      BY <1>2, <2>3, <2>4, <2>5 DEF Moves, Advances
  <1> QED
    BY <1>4, <1>6, <1>7, <1>8 DEF EmitLine, ExpandLine, HandleDefine, HandleUndef,
       HandleAssert, HandleMessage, ExpandTooDeep

\* An include is recorded only, or spliced when its guard was not set.
LEMMA IncludeStep ==
    ASSUME TypeOK, NEW path \in Paths, NEW optional \in BOOLEAN,
           HandleInclude(path, optional)
    PROVE  Moves \/ Splices
  <1>1. phase = "running" /\ Top.line < MaxFileLines /\ UNCHANGED branches
    BY ReadLineFacts DEF HandleInclude
  <1>2. \A resolved \in BOOLEAN :
           LET inc == IncludeRecord(path, optional, resolved) IN
           /\ inc \in IncludeRecords
           /\ inc.child = 0 /\ inc.file = Top.file /\ inc.path = path
           /\ inc.resolved = resolved
    BY <1>1, IncludeRecordType DEF IncludeRecord
  <1>3. CASE SkipLine /\ UNCHANGED splices
    BY <1>1, <1>3, SkipMoves DEF Records, splices
  <1>4. ASSUME NEW resolved \in BOOLEAN, NEW when, NEW code,
               RecordOnly(IncludeRecord(path, optional, resolved), when, code)
        PROVE  Moves
    <2>1. Records
      BY <1>2, <1>4 DEF Records, RecordOnly
    <2> QED
      BY <1>1, <1>4, <2>1, SkipMoves DEF RecordOnly
  <1>5. ASSUME NEW uri \in Uris, ~Guarded(path), IncludeResolved(path, optional, uri)
        PROVE  Moves \/ Splices
    <2> DEFINE inc == IncludeRecord(path, optional, TRUE)
               parent == Past(Top, Top.cond)
    <2>1. CASE \E when, code : RecordOnly(inc, when, code)
      BY <1>4, <2>1
    <2>2. CASE SpliceCancelled /\ SkipLine /\ UNCHANGED includes
      BY <1>3, <2>2 DEF SpliceCancelled, splices
    <2>3. CASE /\ ~Cyclic(uri) /\ SpliceInclude(parent, uri, inc)
               /\ symbols' = IF Compatibility THEN symbols \cup {CompatName[path]}
                             ELSE symbols
      <3>1. /\ parent \in Frames /\ parent.file = Top.file /\ parent.uri = Top.uri
            /\ parent.inc = Top.inc /\ parent.cond = Top.cond
            /\ parent.line >= Top.line
        <4>1. parent \in Frames /\ parent.cond = Top.cond
          BY <1>1, TopType, PastType
        <4>2. Top \in Frames /\ Top.line \in Nat
          BY <1>1, TopType DEF LineIndices
        <4> QED
          BY <4>1, <4>2 DEF Past, Frames
      <3>2. Compatibility => CompatName[path] \in symbols'
        BY <2>3
      <3>3. inc \in IncludeRecords /\ inc.file = Top.file /\ inc.path = path /\ inc.resolved
        BY <1>2
      <3> HIDE DEF inc, parent
      <3> QED
        BY <1>1, <1>5, <2>3, <3>1, <3>2, <3>3 DEF Splices
    <2> QED
      BY <1>5, <2>1, <2>2, <2>3 DEF IncludeResolved
  <1> QED
    BY <1>3, <1>4, <1>5, FilesAssumption DEF HandleInclude, IncludeApplies, IncludeInactive,
       IncludeUnresolved

\* The implicit prefix is recorded for the root, or spliced below it.
LEMMA PrefixSplices ==
    ASSUME TypeOK, ImplicitPrefix, Top.file = 1
    PROVE  Idle \/ Splices
  <1>1. phase = "prefix" /\ UNCHANGED branches
    BY DEF ImplicitPrefix
  <1> DEFINE inc == [NoInclude EXCEPT !.file = 1, !.path = "prefix",
                                      !.optional = (Prefix = "optional")]
             found == [inc EXCEPT !.resolved = TRUE]
  <1>2. /\ inc \in IncludeRecords /\ inc.child = 0 /\ inc.file = Top.file
        /\ found \in IncludeRecords /\ found.child = 0 /\ found.file = Top.file
        /\ found.path = "prefix" /\ found.resolved
    BY DEF NoInclude, IncludeRecords
  <1>3. CASE /\ UNCHANGED <<frames, files, includeStack>>
             /\ \/ UNCHANGED includes
                \/ includes' = Append(includes, inc)
                \/ includes' = Append(includes, found)
    <2> HIDE DEF inc, found
    <2> QED
      BY <1>1, <1>2, <1>3 DEF Idle, Records
  <1>4. ASSUME NEW uri \in Uris, SpliceInclude(Top, uri, found)
        PROVE  Splices
    <2>1. Top \in Frames /\ Top.line \in Nat
      BY <1>1, TopType DEF LineIndices
    <2>2. Top.line >= Top.line
      BY <2>1
    <2> HIDE DEF found
    <2> QED
      BY <1>1, <1>2, <1>4, <2>1, <2>2 DEF Splices
  <1> QED
    BY <1>3, <1>4, FilesAssumption DEF ImplicitPrefix, SpliceCancelled, splices

\* Every step, by what it does to frames and records.
LEMMA StepKinds ==
    ASSUME TypeOK, phase = "prefix" => Top.file = 1, [Next]_vars
    PROVE  Idle \/ Moves \/ Conditional \/ Splices \/ FinishFrame
  <1>1. CASE \/ \E c \in Conditions : HandleIf(c) \/ HandleElseif(c)
             \/ HandleElse \/ HandleEndif
    BY <1>1, ConditionalStep
  <1>2. CASE \/ \E names \in Declarations : EmitLine(names)
             \/ \E n \in Names : ExpandLine(n) \/ HandleUndef(n)
             \/ \E n \in Names, body \in Bodies : HandleDefine(n, body)
             \/ \E c \in Conditions : HandleAssert(c)
             \/ \E code \in MessageCodes : HandleMessage(code)
             \/ HandleEndinput
    BY <1>2, LineMoves
  <1>3. CASE \E path \in Paths, optional \in BOOLEAN : HandleInclude(path, optional)
    BY <1>3, IncludeStep
  <1>4. CASE ImplicitPrefix
    <2>1. phase = "prefix"
      BY <1>4 DEF ImplicitPrefix
    <2> QED
      BY <1>4, <2>1, PrefixSplices
  <1>5. CASE CancelContext \/ PollCancellation \/ UNCHANGED vars
    BY <1>5 DEF CancelContext, PollCancellation, vars, splices, Idle, Records
  <1> QED
    BY <1>1, <1>2, <1>3, <1>4, <1>5 DEF Next, Step

---------------------------------------------------------------------------
(* The steps, by what they do to the stack of files. *)

\* Frame i reads the same file, for the same include.
SameFile(i) ==
    /\ frames'[i].file = frames[i].file
    /\ frames'[i].uri = frames[i].uri
    /\ frames'[i].inc = frames[i].inc

Stays ==
    /\ Len(frames') = Len(frames) /\ DOMAIN frames' = DOMAIN frames
    /\ \A i \in DOMAIN frames : SameFile(i)
    /\ UNCHANGED <<files, includeStack>> /\ Records

Descends(uri, inc) ==
    /\ Len(frames') = Len(frames) + 1
    /\ \A i \in 1 .. Len(frames) : SameFile(i)
    /\ frames'[Len(frames) + 1].file = Len(files) + 1
    /\ frames'[Len(frames) + 1].uri = uri
    /\ frames'[Len(frames) + 1].inc = inc
    /\ inc.file = frames[Len(frames)].file /\ inc.resolved
    /\ files' = Append(files, [uri |-> uri, path |-> inc.path, depth |-> Len(frames)])
    /\ includeStack' = [includeStack EXCEPT ![uri] = @ + 1]
    /\ UNCHANGED includes
    /\ phase = "prefix" \/ ~Cyclic(uri)
    /\ inc.path # "prefix" => /\ inc.path \in Paths /\ ~Guarded(inc.path)
                              /\ Compatibility => CompatName[inc.path] \in symbols'

Ascends ==
    /\ Len(frames') = Len(frames) - 1
    /\ \A i \in 1 .. Len(frames) - 1 : frames'[i] = frames[i]
    /\ UNCHANGED files
    /\ IF Len(frames) > 1
       THEN includeStack' = Leave /\ includes' = Append(includes, Returned)
       ELSE UNCHANGED <<includeStack, includes>>

\* Rewriting the current frame leaves every frame with its file.
LEMMA AdvancesKeepsFiles ==
    ASSUME TypeOK, frames # <<>>, NEW f \in Frames, Advances(f)
    PROVE  /\ Len(frames') = Len(frames) /\ DOMAIN frames' = DOMAIN frames
           /\ \A i \in DOMAIN frames : SameFile(i)
  <1>1. frames \in Seq(Frames) /\ frames' = SetLast(frames, f)
    BY DEF TypeOK, FramesTypeOK, Advances
  <1>2. /\ Len(frames) \in Nat \ {0} /\ Len(frames') = Len(frames)
        /\ DOMAIN frames = 1 .. Len(frames) /\ DOMAIN frames' = 1 .. Len(frames)
        /\ frames'[Len(frames)] = f
        /\ \A i \in 1 .. Len(frames) - 1 : frames'[i] = frames[i]
    BY <1>1, FramesRewritten
  <1> SUFFICES ASSUME NEW i \in 1 .. Len(frames) PROVE SameFile(i)
    BY <1>2
  <1>3. CASE i = Len(frames)
    BY <1>2, <1>3 DEF SameFile, Advances, Top
  <1>4. CASE i \in 1 .. Len(frames) - 1
    BY <1>2, <1>4 DEF SameFile
  <1>5. Len(frames) \in Nat /\ i \in 1 .. Len(frames)
    BY <1>2
  <1> QED
    BY <1>3, <1>4, <1>5

\* A conditional directive advances the current frame.
LEMMA ConditionalAdvances ==
    ASSUME TypeOK, Conditional
    PROVE  \E f \in Frames : Advances(f)
  <1>1. /\ phase = "running" /\ Top.line < MaxFileLines
        /\ Top.cond \in Seq(CondFrames) /\ (Top.cond # <<>> => TopCond \in CondFrames)
    BY TopType DEF Conditional
  <1>2. NextIndex \in Nat \ {0}
    BY LenProperties DEF NextIndex, TypeOK, OutputTypeOK
  <1> SUFFICES \E c \in Seq(CondFrames) : Consume(c)
    BY <1>1, ConsumeAdvances
  <1>3. CASE Opens
    <2>1. PICK parent \in BOOLEAN, active \in BOOLEAN :
              Consume(Append(Top.cond, CondFrame(parent, active, NextIndex)))
      BY <1>3 DEF Opens
    <2>2. CondFrame(parent, active, NextIndex) \in CondFrames
      BY <1>2 DEF CondFrame, CondFrames
    <2> QED
      BY <1>1, <2>1, <2>2, AppendProperties
  <1>4. CASE OpensBeyond
    <2>1. PICK parent \in BOOLEAN : Consume(Append(Top.cond, OverflowFrame(parent)))
      BY <1>4 DEF OpensBeyond
    <2>2. OverflowFrame(parent) \in CondFrames
      BY DEF OverflowFrame, CondFrames
    <2> QED
      BY <1>1, <2>1, <2>2, AppendProperties
  <1>5. CASE Alternates
    <2>1. PICK kind \in {"elseif", "else"}, active \in BOOLEAN, evaluated \in BOOLEAN :
              NextBranch(kind, active, evaluated)
      BY <1>5 DEF Alternates
    <2> DEFINE x == [TopCond EXCEPT !.branchActive = active, !.taken = @ \/ active,
                                    !.open = NextIndex]
    <2>2. x \in CondFrames
      <3>1. TopCond \in CondFrames /\ (TopCond.taken \/ active) \in BOOLEAN
        BY <1>1, <1>5 DEF Alternates
      <3> QED
        BY <1>2, <3>1 DEF CondFrames
    <2>3. Consume(SetLast(Top.cond, x))
      BY <2>1 DEF NextBranch
    <2> HIDE DEF x
    <2> QED
      BY <1>1, <1>5, <2>2, <2>3, SetLastFacts DEF Alternates
  <1>6. CASE AlternatesBeyond
    BY <1>1, <1>6 DEF AlternatesBeyond, OverflowAlternative, SkipLine
  <1>7. CASE Ends
    BY <1>1, <1>7, PopFacts DEF Ends, Endif
  <1> QED
    BY <1>3, <1>4, <1>5, <1>6, <1>7 DEF Conditional

\* Every step keeps the stack of files, pushes one or pops one.
LEMMA StackSteps ==
    ASSUME TypeOK, phase = "prefix" => Top.file = 1, [Next]_vars
    PROVE  \/ Stays
           \/ frames # <<>> /\ \E uri \in Uris, inc \in IncludeRecords : Descends(uri, inc)
           \/ frames # <<>> /\ Ascends
  <1>1. CASE Idle
    BY <1>1 DEF Idle, Stays, SameFile
  <1>2. ASSUME frames # <<>>, NEW f \in Frames, Advances(f),
               UNCHANGED <<files, includeStack>>, Records
        PROVE  Stays
    BY <1>2, AdvancesKeepsFiles DEF Stays
  <1>3. ~(phase \in {"prefix", "running"}) => Idle
    <2> SUFFICES ASSUME phase \notin {"prefix", "running"} PROVE Idle
      OBVIOUS
    <2> QED
      BY EndIsFinal DEF vars, splices, Idle, Records
  <1>4. phase \in {"prefix", "running"} => frames # <<>>
    BY TopType
  <1>5. CASE Moves
    BY <1>1, <1>2, <1>3, <1>4, <1>5 DEF Moves
  <1>6. CASE Conditional
    <2>1. PICK f \in Frames : Advances(f)
      BY <1>6, ConditionalAdvances
    <2>2. UNCHANGED <<files, includeStack>> /\ Records
      BY <1>6 DEF Conditional, splices, Records
    <2> QED
      BY <1>1, <1>2, <1>3, <1>4, <2>1, <2>2
  <1>7. ASSUME NEW parent \in Frames, NEW uri \in Uris, NEW inc \in IncludeRecords,
               frames # <<>>, phase \in {"prefix", "running"},
               SpliceInclude(parent, uri, inc),
               parent.file = Top.file, parent.uri = Top.uri, parent.inc = Top.inc,
               inc.file = Top.file, inc.resolved,
               phase = "prefix" \/ ~Cyclic(uri),
               inc.path # "prefix" => /\ inc.path \in Paths /\ ~Guarded(inc.path)
                                      /\ Compatibility => CompatName[inc.path] \in symbols'
        PROVE  Descends(uri, inc)
    <2> DEFINE child == NewFrame(Len(files) + 1, uri, inc)
    <2>1. Len(files) + 1 \in Nat /\ uri \in Uris \cup {"root"}
      BY LenProperties DEF TypeOK, SplicesTypeOK
    <2>2. child \in Frames /\ child.file = Len(files) + 1 /\ child.uri = uri /\ child.inc = inc
      BY <2>1, NewFrameType DEF NewFrame
    <2>3. frames \in Seq(Frames) /\ frames' = Append(SetLast(frames, parent), child)
      BY <1>7 DEF TypeOK, FramesTypeOK, SpliceInclude
    <2> HIDE DEF child
    <2>4. /\ Len(frames') = Len(frames) + 1 /\ Len(frames) \in Nat \ {0}
          /\ frames'[Len(frames) + 1] = child /\ frames'[Len(frames)] = parent
          /\ \A i \in 1 .. Len(frames) - 1 : frames'[i] = frames[i]
      BY <1>7, <2>2, <2>3, FramesPushed
    <2>5. \A i \in 1 .. Len(frames) : SameFile(i)
      <3> SUFFICES ASSUME NEW i \in 1 .. Len(frames) PROVE SameFile(i)
        OBVIOUS
      <3>1. CASE i = Len(frames)
        BY <1>7, <2>4, <3>1 DEF SameFile, Top
      <3>2. CASE i \in 1 .. Len(frames) - 1
        BY <2>4, <3>2 DEF SameFile
      <3> QED
        BY <2>4, <3>1, <3>2
    <2> QED
      BY <1>7, <2>2, <2>4, <2>5 DEF Descends, SpliceInclude, Top
  <1>8. CASE Splices
    <2>1. phase \in {"prefix", "running"}
      BY <1>8 DEF Splices
    <2>2. PICK parent \in Frames, uri \in Uris, inc \in IncludeRecords :
              /\ SpliceInclude(parent, uri, inc)
              /\ parent.file = Top.file /\ parent.uri = Top.uri /\ parent.inc = Top.inc
              /\ inc.file = Top.file /\ inc.resolved
              /\ phase = "prefix" \/ ~Cyclic(uri)
              /\ inc.path # "prefix" => /\ inc.path \in Paths /\ ~Guarded(inc.path)
                                        /\ Compatibility => CompatName[inc.path] \in symbols'
      BY <1>8 DEF Splices
    <2> QED
      BY <1>4, <1>7, <2>1, <2>2
  <1>9. CASE FinishFrame
    <2>1. phase = "running" /\ frames # <<>> /\ frames \in Seq(Frames)
      BY <1>4, <1>9 DEF FinishFrame, FileLeft, TypeOK, FramesTypeOK
    <2>2. /\ Len(frames') = Len(frames) - 1
          /\ \A i \in 1 .. Len(frames) - 1 : frames'[i] = frames[i]
      BY <1>9, <2>1, FramesPopped DEF FinishFrame, FileLeft
    <2> QED
      BY <1>9, <2>1, <2>2 DEF FinishFrame, FileLeft, Ascends
  <1> QED
    BY <1>1, <1>5, <1>6, <1>8, <1>9, StepKinds

---------------------------------------------------------------------------
(* Files and includes form a tree. *)

Reading(k) == \E i \in DOMAIN frames : frames[i].file = k

\* The files being read are the path from the root to the current one, each
\* spliced into the one below it and registered after it.
StackInv ==
    /\ frames # <<>> => frames[1].file = 1
    /\ \A i \in DOMAIN frames :
          /\ frames[i].file \in DOMAIN files
          /\ files[frames[i].file].depth = i - 1
          /\ i > 1 => /\ frames[i].uri \in Uris /\ frames[i].inc.resolved
                      /\ frames[i].inc.file = frames[i-1].file
          /\ \A h \in DOMAIN frames : h < i => frames[h].file < frames[i].file

\* Every include belongs to a file read, its child one level below it.
EdgesInv ==
    \A p \in DOMAIN includes :
        /\ includes[p].file \in DOMAIN files
        /\ includes[p].child # 0 =>
              /\ includes[p].resolved
              /\ includes[p].child \in DOMAIN files
              /\ files[includes[p].child].depth = files[includes[p].file].depth + 1

\* A file still being read is no child yet, every other but the root is the
\* child of one include.
ParentsInv ==
    \A k \in 2 .. Len(files) :
        /\ Reading(k) \/ \E p \in DOMAIN includes : includes[p].child = k
        /\ \A p \in DOMAIN includes : includes[p].child = k =>
              /\ ~Reading(k)
              /\ \A q \in DOMAIN includes : includes[q].child = k => p = q

TreeInv == StackInv /\ EdgesInv /\ ParentsInv

\* The sequences the engine keeps, and their domains.
LEMMA Domains ==
    ASSUME TypeOK
    PROVE  /\ frames \in Seq(Frames) /\ Len(frames) \in Nat
           /\ DOMAIN frames = 1 .. Len(frames)
           /\ files \in Seq(FileRecords) /\ Len(files) \in Nat
           /\ DOMAIN files = 1 .. Len(files)
           /\ includes \in Seq(IncludeRecords) /\ Len(includes) \in Nat
           /\ DOMAIN includes = 1 .. Len(includes)
           /\ branches \in Seq(Branches) /\ Len(branches) \in Nat
           /\ DOMAIN branches = 1 .. Len(branches)
  BY LenProperties DEF TypeOK, FramesTypeOK, SplicesTypeOK, OutputTypeOK

LEMMA DomainsNext ==
    ASSUME TypeOK'
    PROVE  /\ frames' \in Seq(Frames) /\ Len(frames') \in Nat
           /\ DOMAIN frames' = 1 .. Len(frames')
           /\ files' \in Seq(FileRecords) /\ Len(files') \in Nat
           /\ DOMAIN files' = 1 .. Len(files')
           /\ includes' \in Seq(IncludeRecords) /\ Len(includes') \in Nat
           /\ DOMAIN includes' = 1 .. Len(includes')
           /\ branches' \in Seq(Branches) /\ Len(branches') \in Nat
           /\ DOMAIN branches' = 1 .. Len(branches')
  BY LenProperties DEF TypeOK, FramesTypeOK, SplicesTypeOK, OutputTypeOK

\* The files after a splice.
LEMMA DescendsFiles ==
    ASSUME TypeOK, NEW uri \in Uris, NEW inc \in IncludeRecords, Descends(uri, inc)
    PROVE  /\ Len(files') = Len(files) + 1
           /\ files'[Len(files) + 1].path = inc.path
           /\ files'[Len(files) + 1].depth = Len(frames)
           /\ \A k \in 1 .. Len(files) : files'[k] = files[k]
  <1> DEFINE x == [uri |-> uri, path |-> inc.path, depth |-> Len(frames)]
  <1>1. x \in FileRecords
    BY Domains DEF FileRecords, IncludeRecords
  <1>2. x.path = inc.path /\ x.depth = Len(frames)
    OBVIOUS
  <1>3. files' = Append(files, x)
    BY DEF Descends
  <1> HIDE DEF x
  <1> QED
    BY <1>1, <1>2, <1>3, Domains, AppendProperties

\* The includes after a file was read.
LEMMA AscendsIncludes ==
    ASSUME TypeOK, Len(frames) > 1, Ascends
    PROVE  /\ Len(includes') = Len(includes) + 1
           /\ includes'[Len(includes) + 1].child = frames[Len(frames)].file
           /\ includes'[Len(includes) + 1].file = frames[Len(frames)].inc.file
           /\ includes'[Len(includes) + 1].resolved <=> frames[Len(frames)].inc.resolved
           /\ \A k \in 1 .. Len(includes) : includes'[k] = includes[k]
  <1>1. /\ Top.inc \in IncludeRecords /\ Top.file \in Nat
        /\ Top = frames[Len(frames)]
    <2>1. Len(frames) \in DOMAIN frames
      BY Domains
    <2>2. Top \in Frames
      BY <2>1, Domains, FrameFacts DEF Top
    <2> QED
      BY <2>2 DEF Frames, Top
  <1>2. /\ Returned \in IncludeRecords /\ Returned.child = Top.file
        /\ Returned.file = Top.inc.file /\ Returned.resolved = Top.inc.resolved
    BY <1>1 DEF Returned, IncludeRecords
  <1>3. includes' = Append(includes, Returned)
    BY DEF Ascends
  <1> QED
    BY <1>1, <1>2, <1>3, Domains, AppendProperties

\* The files being read stay a path of the tree.
LEMMA StackStep ==
    ASSUME TypeOK, PrefixIsFirst, StackInv, [Next]_vars
    PROVE  StackInv'
  <1>1. TypeOK'
    BY TypeStep
  <1>2. /\ Len(frames) \in Nat /\ DOMAIN frames = 1 .. Len(frames)
        /\ Len(files) \in Nat /\ DOMAIN files = 1 .. Len(files)
        /\ Len(frames') \in Nat /\ DOMAIN frames' = 1 .. Len(frames')
        /\ Len(files') \in Nat /\ DOMAIN files' = 1 .. Len(files')
        /\ frames # <<>> => Len(frames) # 0
    BY <1>1, Domains, DomainsNext, EmptySeq
  <1>3. CASE Stays
    <2>1. frames' # <<>> => frames # <<>>
      <3>1. frames' # <<>> => Len(frames') # 0
        BY <1>1, DomainsNext, EmptySeq
      <3>2. frames = <<>> => Len(frames) = 0
        BY EmptySeq
      <3>3. Len(frames') = Len(frames)
        BY <1>3 DEF Stays
      <3> QED
        BY <3>1, <3>2, <3>3
    <2>2. frames' # <<>> => frames'[1].file = 1
      BY <1>2, <1>3, <2>1 DEF Stays, StackInv, SameFile
    <2>3. \A i \in DOMAIN frames' :
             /\ frames'[i].file \in DOMAIN files'
             /\ files'[frames'[i].file].depth = i - 1
             /\ \A h \in DOMAIN frames' : h < i => frames'[h].file < frames'[i].file
      BY <1>3 DEF Stays, StackInv, SameFile
    <2>4. ASSUME NEW i \in DOMAIN frames', i > 1
          PROVE  /\ frames'[i].uri \in Uris /\ frames'[i].inc.resolved
                 /\ frames'[i].inc.file = frames'[i-1].file
      <3>1. i \in DOMAIN frames /\ i - 1 \in DOMAIN frames
        BY <1>2, <1>3, <2>4 DEF Stays
      <3> QED
        BY <1>3, <2>4, <3>1 DEF Stays, StackInv, SameFile
    <2> QED
      BY <2>2, <2>3, <2>4 DEF StackInv
  <1>4. ASSUME frames # <<>>, NEW uri \in Uris, NEW inc \in IncludeRecords, Descends(uri, inc)
        PROVE  StackInv'
    <2> DEFINE n == Len(frames)
    <2>0. n \in Nat \ {0} /\ n + 1 # 1 /\ DOMAIN frames' = 1 .. n + 1
      BY <1>2, <1>4 DEF Descends
    <2>1. /\ Len(files') = Len(files) + 1
          /\ files'[Len(files) + 1].depth = n
          /\ \A k \in 1 .. Len(files) : files'[k] = files[k]
      BY <1>4, DescendsFiles
    <2>2. /\ \A i \in 1 .. n : SameFile(i)
          /\ frames'[n + 1].file = Len(files) + 1
          /\ frames'[n + 1].uri = uri /\ frames'[n + 1].inc = inc
          /\ inc.file = frames[n].file /\ inc.resolved
      BY <1>4 DEF Descends
    <2> HIDE DEF n
    <2>3. \A i \in 1 .. n :
             /\ frames[i].file \in 1 .. Len(files)
             /\ files[frames[i].file].depth = i - 1
             /\ \A h \in 1 .. n : h < i => frames[h].file < frames[i].file
      BY <1>2 DEF StackInv, n
    <2>4. frames'[1].file = 1
      BY <1>4, <2>0, <2>2 DEF StackInv, SameFile
    <2>5. ASSUME NEW i \in 1 .. n + 1
          PROVE  /\ frames'[i].file \in 1 .. Len(files) + 1
                 /\ files'[frames'[i].file].depth = i - 1
                 /\ \A h \in 1 .. n + 1 : h < i => frames'[h].file < frames'[i].file
      <3>0. \A h \in 1 .. n :
               /\ frames'[h].file = frames[h].file
               /\ frames'[h].file \in 1 .. Len(files)
               /\ files'[frames'[h].file] = files[frames[h].file]
        BY <2>1, <2>2, <2>3 DEF SameFile
      <3>1. CASE i \in 1 .. n
        <4>1. \A h \in 1 .. n + 1 : h < i => h \in 1 .. n
          BY <2>0, <3>1
        <4>2. frames'[i].file \in 1 .. Len(files) + 1
          BY <1>2, <3>0, <3>1
        <4> QED
          BY <2>3, <3>0, <3>1, <4>1, <4>2
      <3>2. CASE i = n + 1
        <4>1. \A h \in 1 .. n + 1 : h < i => h \in 1 .. n
          BY <2>0, <3>2
        <4>2. frames'[i].file = Len(files) + 1 /\ i - 1 = n
          BY <2>0, <2>2, <3>2
        <4>3. \A h \in 1 .. n : frames'[h].file < Len(files) + 1
          BY <1>2, <3>0
        <4> QED
          BY <1>2, <2>1, <4>1, <4>2, <4>3
      <3> QED
        BY <2>0, <3>1, <3>2
    <2>6. ASSUME NEW i \in 1 .. n + 1, i > 1
          PROVE  /\ frames'[i].uri \in Uris /\ frames'[i].inc.resolved
                 /\ frames'[i].inc.file = frames'[i-1].file
      <3>1. CASE i \in 1 .. n
        <4>1. i \in 1 .. n /\ i - 1 \in 1 .. n
          BY <2>0, <2>6, <3>1
        <4>2. /\ frames[i].uri \in Uris /\ frames[i].inc.resolved
              /\ frames[i].inc.file = frames[i-1].file
          BY <1>2, <2>6, <4>1 DEF StackInv, n
        <4> QED
          BY <2>2, <4>1, <4>2 DEF SameFile
      <3>2. CASE i = n + 1
        <4>1. i - 1 = n /\ n \in 1 .. n
          BY <2>0, <3>2
        <4> QED
          BY <2>2, <3>2, <4>1 DEF SameFile
      <3> QED
        BY <2>0, <3>1, <3>2
    <2> QED
      BY <1>2, <2>0, <2>1, <2>4, <2>5, <2>6 DEF StackInv
  <1>5. CASE frames # <<>> /\ Ascends
    <2>1. /\ Len(frames') = Len(frames) - 1 /\ UNCHANGED files
          /\ \A i \in 1 .. Len(frames) - 1 : frames'[i] = frames[i]
      BY <1>5 DEF Ascends
    <2>2. frames' # <<>> => Len(frames') # 0
      BY <1>1, DomainsNext, EmptySeq
    <2>3. frames' # <<>> => frames'[1].file = 1
      BY <1>2, <1>5, <2>1, <2>2 DEF StackInv
    <2>4. ASSUME NEW i \in 1 .. Len(frames) - 1
          PROVE  /\ i \in DOMAIN frames /\ frames'[i] = frames[i]
                 /\ i > 1 => i - 1 \in DOMAIN frames /\ frames'[i-1] = frames[i-1]
      BY <1>2, <2>1
    <2>5. ASSUME NEW i \in DOMAIN frames'
          PROVE  /\ frames'[i].file \in DOMAIN files'
                 /\ files'[frames'[i].file].depth = i - 1
                 /\ \A h \in DOMAIN frames' : h < i => frames'[h].file < frames'[i].file
      <3>1. /\ frames[i].file \in DOMAIN files /\ files[frames[i].file].depth = i - 1
            /\ \A h \in DOMAIN frames : h < i => frames[h].file < frames[i].file
        BY <1>2, <2>1, <2>4 DEF StackInv
      <3>2. \A h \in DOMAIN frames' : h \in DOMAIN frames /\ frames'[h] = frames[h]
        BY <1>2, <2>1, <2>4
      <3> QED
        BY <2>1, <3>1, <3>2
    <2>6. ASSUME NEW i \in DOMAIN frames', i > 1
          PROVE  /\ frames'[i].uri \in Uris /\ frames'[i].inc.resolved
                 /\ frames'[i].inc.file = frames'[i-1].file
      BY <1>2, <2>1, <2>4, <2>6 DEF StackInv
    <2> QED
      BY <2>3, <2>5, <2>6 DEF StackInv
  <1>6. phase = "prefix" => Top.file = 1
    <2> SUFFICES ASSUME phase = "prefix" PROVE Top.file = 1
      OBVIOUS
    <2>1. frames # <<>>
      BY TopType
    <2> QED
      BY <2>1 DEF PrefixIsFirst, StackInv, Top
  <1> QED
    BY <1>3, <1>4, <1>5, <1>6, StackSteps

\* A file once registered keeps its record.
LEMMA FilesGrow ==
    ASSUME TypeOK, PrefixIsFirst, StackInv, [Next]_vars
    PROVE  /\ Len(files) <= Len(files')
           /\ \A k \in DOMAIN files : k \in DOMAIN files' /\ files'[k] = files[k]
  <1>1. /\ Len(files) \in Nat /\ DOMAIN files = 1 .. Len(files)
        /\ Len(files') \in Nat /\ DOMAIN files' = 1 .. Len(files')
    BY TypeStep, Domains, DomainsNext
  <1>2. CASE UNCHANGED files
    BY <1>1, <1>2
  <1>3. ASSUME NEW uri \in Uris, NEW inc \in IncludeRecords, Descends(uri, inc)
        PROVE  /\ Len(files) <= Len(files')
               /\ \A k \in DOMAIN files : k \in DOMAIN files' /\ files'[k] = files[k]
    <2>1. /\ Len(files') = Len(files) + 1
          /\ \A k \in 1 .. Len(files) : files'[k] = files[k]
      BY <1>3, DescendsFiles
    <2> QED
      BY <1>1, <2>1
  <1>4. phase = "prefix" => Top.file = 1
    BY TopType DEF PrefixIsFirst, StackInv, Top
  <1>5. \/ UNCHANGED files
        \/ \E uri \in Uris, inc \in IncludeRecords : Descends(uri, inc)
    BY <1>4, StackSteps DEF Stays, Ascends
  <1> QED
    BY <1>2, <1>3, <1>5

\* The edges of the tree stay well formed.
LEMMA EdgesStep ==
    ASSUME TypeOK, PrefixIsFirst, StackInv, EdgesInv, [Next]_vars
    PROVE  EdgesInv'
  <1>1. /\ \A k \in DOMAIN files : k \in DOMAIN files' /\ files'[k] = files[k]
        /\ phase = "prefix" => Top.file = 1
    BY FilesGrow, TopType DEF PrefixIsFirst, StackInv, Top
  <1>2. /\ Len(includes) \in Nat /\ DOMAIN includes = 1 .. Len(includes)
        /\ Len(includes') \in Nat /\ DOMAIN includes' = 1 .. Len(includes')
        /\ Len(frames) \in Nat /\ DOMAIN frames = 1 .. Len(frames)
    BY TypeStep, Domains, DomainsNext
  <1>3. CASE UNCHANGED includes
    BY <1>1, <1>3 DEF EdgesInv
  <1>4. ASSUME NEW inc, Len(includes') = Len(includes) + 1,
               includes'[Len(includes) + 1] = inc,
               \A k \in 1 .. Len(includes) : includes'[k] = includes[k],
               inc.file \in DOMAIN files,
               inc.child # 0 =>
                   /\ inc.resolved
                   /\ inc.child \in DOMAIN files
                   /\ files[inc.child].depth = files[inc.file].depth + 1
        PROVE  EdgesInv'
    <2> SUFFICES ASSUME NEW p \in DOMAIN includes'
                 PROVE  /\ includes'[p].file \in DOMAIN files'
                        /\ includes'[p].child # 0 =>
                              /\ includes'[p].resolved
                              /\ includes'[p].child \in DOMAIN files'
                              /\ files'[includes'[p].child].depth
                                    = files'[includes'[p].file].depth + 1
      BY DEF EdgesInv
    <2>1. CASE p \in DOMAIN includes
      BY <1>1, <1>2, <1>4, <2>1 DEF EdgesInv
    <2>2. CASE p = Len(includes) + 1
      BY <1>1, <1>4, <2>2
    <2> QED
      BY <1>2, <1>4, <2>1, <2>2
  <1>5. ASSUME frames # <<>>
        PROVE  Len(frames) \in DOMAIN frames
    BY <1>2, <1>5, EmptySeq, Domains
  <1>6. CASE Records
    <2>1. CASE includes' = includes
      BY <1>3, <2>1
    <2>2. ASSUME NEW inc \in IncludeRecords, includes' = Append(includes, inc),
                 inc.child = 0, inc.file = Top.file, frames # <<>>
          PROVE  EdgesInv'
      <3>1. inc.file \in DOMAIN files
        BY <1>5, <2>2 DEF StackInv, Top
      <3>2. /\ Len(includes') = Len(includes) + 1
            /\ includes'[Len(includes) + 1] = inc
            /\ \A k \in 1 .. Len(includes) : includes'[k] = includes[k]
        BY <2>2, Domains, AppendProperties
      <3> QED
        BY <1>4, <2>2, <3>1, <3>2
    <2>3. CASE frames = <<>>
      <3>1. phase \notin {"prefix", "running"}
        BY <2>3 DEF TypeOK, FramesTypeOK
      <3>2. UNCHANGED includes
        BY <3>1, EndIsFinal DEF vars, splices
      <3> QED
        BY <1>3, <3>2
    <2> QED
      BY <1>6, <2>1, <2>2, <2>3 DEF Records
  <1>7. CASE frames # <<>> /\ Ascends
    <2>1. CASE Len(frames) > 1
      <3> DEFINE n == Len(frames)
                 x == includes'[Len(includes) + 1]
      <3>0. n \in DOMAIN frames /\ n - 1 \in DOMAIN frames
        BY <1>2, <2>1
      <3>1. /\ Len(includes') = Len(includes) + 1
            /\ x.child = frames[n].file /\ x.file = frames[n].inc.file
            /\ x.resolved <=> frames[n].inc.resolved
            /\ \A k \in 1 .. Len(includes) : includes'[k] = includes[k]
        BY <1>7, <2>1, AscendsIncludes
      <3>2. /\ frames[n].file \in DOMAIN files /\ files[frames[n].file].depth = n - 1
            /\ frames[n].inc.resolved /\ frames[n].inc.file = frames[n-1].file
        BY <2>1, <3>0 DEF StackInv
      <3>3. /\ frames[n-1].file \in DOMAIN files
            /\ files[frames[n-1].file].depth = (n - 1) - 1
        BY <3>0 DEF StackInv
      <3>4. (n - 1) = ((n - 1) - 1) + 1
        BY <1>2
      <3>5. /\ x.resolved /\ x.child \in DOMAIN files /\ x.file \in DOMAIN files
            /\ files[x.child].depth = files[x.file].depth + 1
        BY <3>1, <3>2, <3>3, <3>4
      <3> QED
        BY <1>4, <3>1, <3>5
    <2>2. CASE ~(Len(frames) > 1)
      BY <1>3, <1>7, <2>2 DEF Ascends
    <2> QED
      BY <2>1, <2>2
  <1> QED
    BY <1>1, <1>3, <1>6, <1>7, StackSteps DEF Stays, Descends

\* A file gets its parent when it has been read, and no second one.
LEMMA ParentsStep ==
    ASSUME TypeOK, PrefixIsFirst, TreeInv, [Next]_vars
    PROVE  ParentsInv'
  <1>1. /\ phase = "prefix" => Top.file = 1
        /\ StackInv /\ EdgesInv /\ ParentsInv
    BY TopType DEF PrefixIsFirst, TreeInv, StackInv, Top
  <1>2. /\ Len(includes) \in Nat /\ DOMAIN includes = 1 .. Len(includes)
        /\ Len(includes') \in Nat /\ DOMAIN includes' = 1 .. Len(includes')
        /\ Len(frames) \in Nat /\ DOMAIN frames = 1 .. Len(frames)
        /\ Len(frames') \in Nat /\ DOMAIN frames' = 1 .. Len(frames')
        /\ Len(files) \in Nat /\ DOMAIN files = 1 .. Len(files)
    BY TypeStep, Domains, DomainsNext
  <1>3. CASE Stays
    <2>1. UNCHANGED files /\ \A k \in Nat : Reading(k)' <=> Reading(k)
      BY <1>3 DEF Stays, SameFile, Reading
    <2>2. \A k \in 2 .. Len(files) : k \in Nat /\ k # 0
      BY <1>2
    <2>3. CASE UNCHANGED includes
      BY <1>1, <2>1, <2>2, <2>3 DEF ParentsInv
    <2>4. ASSUME NEW inc \in IncludeRecords, includes' = Append(includes, inc), inc.child = 0
          PROVE  ParentsInv'
      <3>1. /\ Len(includes') = Len(includes) + 1
            /\ includes'[Len(includes) + 1] = inc
            /\ \A k \in 1 .. Len(includes) : includes'[k] = includes[k]
        BY <2>4, Domains, AppendProperties
      <3>2. \A p \in DOMAIN includes : p \in DOMAIN includes' /\ includes'[p] = includes[p]
        BY <1>2, <3>1
      <3>3. ASSUME NEW p \in DOMAIN includes', includes'[p].child # 0
            PROVE  p \in DOMAIN includes
        BY <1>2, <2>4, <3>1, <3>3
      <3> QED
        BY <1>1, <2>1, <2>2, <3>2, <3>3 DEF ParentsInv
    <2> QED
      BY <1>3, <2>3, <2>4 DEF Stays, Records
  <1>4. ASSUME frames # <<>>, NEW uri \in Uris, NEW inc \in IncludeRecords, Descends(uri, inc)
        PROVE  ParentsInv'
    <2> DEFINE n == Len(frames)
               new == Len(files) + 1
    <2>0. n \in Nat /\ new \in Nat /\ new \notin DOMAIN files
      BY <1>2
    <2>1. /\ Len(files') = new /\ UNCHANGED includes /\ DOMAIN frames' = 1 .. n + 1
          /\ \A i \in 1 .. n : frames'[i].file = frames[i].file
          /\ frames'[n + 1].file = new
      BY <1>2, <1>4, DescendsFiles DEF Descends, SameFile
    <2> HIDE DEF n, new
    <2>2. ASSUME NEW k \in Nat
          PROVE  Reading(k)' <=> Reading(k) \/ k = new
      <3>1. Reading(k) => Reading(k)'
        BY <1>2, <2>0, <2>1 DEF Reading, n
      <3>2. k = new => Reading(k)'
        BY <2>0, <2>1 DEF Reading
      <3>3. ASSUME NEW i \in 1 .. n + 1, frames'[i].file = k
            PROVE  Reading(k) \/ k = new
        <4>1. i \in 1 .. n \/ i = n + 1
          BY <2>0
        <4> QED
          BY <1>2, <2>1, <3>3, <4>1 DEF Reading, n
      <3> QED
        BY <2>1, <3>1, <3>2, <3>3 DEF Reading
    <2>3. \A p \in DOMAIN includes : includes[p].child # new
      <3> SUFFICES ASSUME NEW p \in DOMAIN includes, includes[p].child = new PROVE FALSE
        OBVIOUS
      <3>1. new # 0
        BY <1>2 DEF new
      <3> QED
        BY <1>1, <2>0, <3>1 DEF EdgesInv
    <2>4. ASSUME NEW k \in 2 .. Len(files')
          PROVE  k \in Nat /\ (k \in 2 .. Len(files) \/ k = new)
      BY <1>2, <2>0, <2>1 DEF new
    <2>5. \A k \in 2 .. Len(files) : k # new
      BY <1>2 DEF new
    <2> QED
      BY <1>1, <2>1, <2>2, <2>3, <2>4, <2>5 DEF ParentsInv
  <1>5. CASE frames # <<>> /\ Ascends
    <2> DEFINE n == Len(frames)
    <2>0. n \in Nat \ {0} /\ n \in DOMAIN frames
      BY <1>2, <1>5, EmptySeq, Domains
    <2>9. \A i \in DOMAIN frames : frames[i].file \in Nat
      <3>1. \A i \in DOMAIN frames : frames[i].file \in DOMAIN files
        BY <1>1 DEF StackInv
      <3> QED
        BY <1>2, <3>1
    <2>10. PICK old \in Nat : old = frames[n].file
      BY <2>0, <2>9
    <2>1. /\ UNCHANGED files /\ DOMAIN frames' = 1 .. n - 1
          /\ \A i \in 1 .. n - 1 : frames'[i] = frames[i]
      BY <1>2, <1>5 DEF Ascends
    <2>2. \A i \in 1 .. n - 1 : i \in DOMAIN frames /\ i < n
      BY <1>2
    <2>3. \A i \in 1 .. n - 1 : frames[i].file # old
      <3>1. \A i \in 1 .. n - 1 : frames[i].file < old
        BY <1>1, <2>0, <2>2, <2>10 DEF StackInv
      <3> QED
        BY <2>2, <2>9, <3>1
    <2>4. ASSUME NEW k \in Nat
          PROVE  Reading(k)' <=> Reading(k) /\ k # old
      <3>1. Reading(k)' => Reading(k) /\ k # old
        BY <2>1, <2>2, <2>3 DEF Reading
      <3>2. ASSUME NEW i \in DOMAIN frames, frames[i].file = k, k # old
            PROVE  Reading(k)'
        <4>1. i \in 1 .. n - 1
          BY <1>2, <2>0, <2>10, <3>2
        <4> QED
          BY <2>1, <3>2, <4>1 DEF Reading
      <3> QED
        BY <3>1, <3>2 DEF Reading
    <2>5. Reading(old)
      BY <2>0, <2>10 DEF Reading
    <2>6. \A k \in 2 .. Len(files) : k \in Nat /\ k # 1
      BY <1>2
    <2>7. CASE ~(n > 1)
      <3>1. UNCHANGED includes
        BY <1>5, <2>7 DEF Ascends
      <3>2. old = 1
        <4> HIDE DEF n
        <4>1. n = 1
          BY <2>0, <2>7
        <4> QED
          BY <1>1, <1>5, <2>10, <4>1 DEF StackInv
      <3> HIDE DEF n
      <3>3. \A k \in 2 .. Len(files) : Reading(k)' <=> Reading(k)
        BY <2>4, <2>6, <3>2
      <3> QED
        BY <1>1, <2>1, <3>1, <3>3 DEF ParentsInv
    <2>8. CASE n > 1
      <3>1. /\ Len(includes') = Len(includes) + 1
            /\ includes'[Len(includes) + 1].child = old
            /\ \A k \in 1 .. Len(includes) : includes'[k] = includes[k]
        BY <1>5, <2>8, <2>10, AscendsIncludes
      <3>2. \A p \in DOMAIN includes : p \in DOMAIN includes' /\ includes'[p] = includes[p]
        BY <1>2, <3>1
      <3>3. Len(includes) + 1 \in DOMAIN includes'
        BY <1>2, <3>1
      <3>4. ASSUME NEW p \in DOMAIN includes'
            PROVE  p \in DOMAIN includes \/ p = Len(includes) + 1
        BY <1>2, <3>1
      <3> HIDE DEF n
      <3>5. ASSUME NEW k \in 2 .. Len(files), k # old
            PROVE  /\ Reading(k)' \/ \E p \in DOMAIN includes' : includes'[p].child = k
                   /\ \A p \in DOMAIN includes' : includes'[p].child = k =>
                         /\ ~Reading(k)'
                         /\ \A q \in DOMAIN includes' : includes'[q].child = k => p = q
        <4>1. Reading(k)' <=> Reading(k)
          BY <2>4, <2>6, <3>5
        <4>2. \A p \in DOMAIN includes' : includes'[p].child = k => p \in DOMAIN includes
          BY <3>1, <3>4, <3>5
        <4> QED
          BY <1>1, <3>2, <4>1, <4>2 DEF ParentsInv
      <3>6. ASSUME old \in 2 .. Len(files)
            PROVE  /\ \E p \in DOMAIN includes' : includes'[p].child = old
                   /\ ~Reading(old)'
                   /\ \A p, q \in DOMAIN includes' :
                         includes'[p].child = old /\ includes'[q].child = old => p = q
        <4>1. \A p \in DOMAIN includes : includes[p].child # old
          BY <1>1, <2>5, <3>6 DEF ParentsInv
        <4>2. \A p \in DOMAIN includes' : includes'[p].child = old => p = Len(includes) + 1
          BY <3>2, <3>4, <4>1
        <4>3. ~Reading(old)'
          BY <2>4, <2>6, <3>6
        <4>4. \E p \in DOMAIN includes' : includes'[p].child = old
          BY <3>1, <3>3
        <4> QED
          BY <4>2, <4>3, <4>4
      <3>7. Len(files') = Len(files)
        BY <2>1
      <3> QED
        BY <3>5, <3>6, <3>7 DEF ParentsInv
    <2> QED
      BY <2>7, <2>8
  <1> QED
    BY <1>1, <1>3, <1>4, <1>5, StackSteps

LEMMA TreeInit == Init => TreeInv
  <1> SUFFICES ASSUME Init PROVE TreeInv
    OBVIOUS
  <1>1. TypeOK
    BY InitType
  <1> DEFINE root == NewFrame(1, "root", NoInclude)
             record == [uri |-> "root", path |-> "", depth |-> 0]
  <1>2. root.file = 1 /\ record.depth = 0
    BY DEF NewFrame
  <1>3. frames = <<root>> /\ files = <<record>> /\ includes = <<>>
    BY DEF Init
  <1> HIDE DEF root, record
  <1>4. /\ Len(frames) = 1 /\ frames[1] = root /\ DOMAIN frames = {1}
        /\ Len(files) = 1 /\ files[1] = record /\ DOMAIN files = {1}
        /\ DOMAIN includes = {}
    BY <1>3
  <1>5. StackInv
    BY <1>2, <1>4 DEF StackInv
  <1>6. EdgesInv /\ ParentsInv
    BY <1>4 DEF EdgesInv, ParentsInv
  <1> QED
    BY <1>5, <1>6 DEF TreeInv

LEMMA TreeAlways == Spec => []TreeInv
  <1>1. TypeOK /\ NestInv /\ TreeInv /\ [Next]_vars => TreeInv'
    BY StackStep, EdgesStep, ParentsStep DEF TreeInv, NestInv
  <1> QED
    BY <1>1, TreeInit, TypeCorrect, NestAlways, PTL DEF Spec

\* Files and includes form one tree, for every value of the constants: a file
\* read completely is the child of exactly one include of the file one level
\* up that named it (handleInclude, spliceInclude).
THEOREM IncludesAlwaysFormTree == Spec => []IncludesFormTree
  <1>1. ASSUME TypeOK, TreeInv
        PROVE  IncludesFormTree
    <2>1. IsFiniteSet(DOMAIN includes)
      BY <1>1, Domains, FS_Interval
    <2>2. ASSUME NEW k \in 2 .. Len(files)
          PROVE  LET parents == {p \in DOMAIN includes : includes[p].child = k} IN
                 IF Reading(k) THEN parents = {} ELSE Cardinality(parents) = 1
      <3> DEFINE parents == {p \in DOMAIN includes : includes[p].child = k}
      <3>1. CASE Reading(k)
        BY <1>1, <3>1 DEF TreeInv, ParentsInv
      <3>2. CASE ~Reading(k)
        <4>1. PICK p \in DOMAIN includes : includes[p].child = k
          BY <1>1, <3>2 DEF TreeInv, ParentsInv
        <4>2. parents = {p}
          BY <1>1, <4>1 DEF TreeInv, ParentsInv
        <4> QED
          BY <3>2, <4>2, FS_Singleton
      <3> QED
        BY <3>1, <3>2
    <2>3. \A p \in DOMAIN includes :
             includes[p].child # 0 =>
                 /\ includes[p].resolved
                 /\ includes[p].child \in DOMAIN files
                 /\ files[includes[p].child].depth = files[includes[p].file].depth + 1
      BY <1>1 DEF TreeInv, EdgesInv
    <2> QED
      BY <2>2, <2>3 DEF IncludesFormTree, Reading
  <1> QED
    BY <1>1, TypeCorrect, TreeAlways, PTL

---------------------------------------------------------------------------
(* The include stack counts the splices. *)

Spliced(u) == {i \in 2 .. Len(frames) : frames[i].uri = u}

LEMMA SplicedFinite ==
    ASSUME TypeOK, NEW u
    PROVE  IsFiniteSet(Spliced(u)) /\ Cardinality(Spliced(u)) \in Nat
  <1>1. IsFiniteSet(2 .. Len(frames)) /\ Spliced(u) \in SUBSET (2 .. Len(frames))
    BY Domains, FS_Interval DEF Spliced
  <1> QED
    BY <1>1, FS_Subset, FS_CardinalityType

\* A splice is counted when it starts and taken back when it returns.
LEMMA CountStep ==
    ASSUME TypeOK, PrefixIsFirst, StackInv, IncludeStackExact, [Next]_vars
    PROVE  IncludeStackExact'
  <1>1. /\ Len(frames) \in Nat /\ DOMAIN frames = 1 .. Len(frames)
        /\ includeStack \in [Uris -> Int]
        /\ phase = "prefix" => Top.file = 1
    BY Domains, TopType DEF TypeOK, SplicesTypeOK, PrefixIsFirst, StackInv, Top
  <1>2. \A u \in Uris : includeStack[u] = Cardinality(Spliced(u)) /\ includeStack[u] <= 2
    BY DEF IncludeStackExact, Spliced
  <1> SUFFICES ASSUME NEW u \in Uris
               PROVE  includeStack'[u] = Cardinality(Spliced(u)') /\ includeStack'[u] <= 2
    BY DEF IncludeStackExact, Spliced
  <1>3. CASE Stays
    <2>1. Len(frames') = Len(frames) /\ \A i \in 2 .. Len(frames) : frames'[i].uri = frames[i].uri
      BY <1>1, <1>3 DEF Stays, SameFile
    <2>2. Spliced(u)' = Spliced(u)
      BY <2>1 DEF Spliced
    <2> QED
      BY <1>2, <1>3, <2>2 DEF Stays
  <1>4. ASSUME frames # <<>>, NEW uri \in Uris, NEW inc \in IncludeRecords, Descends(uri, inc)
        PROVE  includeStack'[u] = Cardinality(Spliced(u)') /\ includeStack'[u] <= 2
    <2> DEFINE n == Len(frames)
    <2>1. /\ Len(frames') = n + 1 /\ n \in Nat \ {0}
          /\ \A i \in 1 .. n : frames'[i].uri = frames[i].uri
          /\ frames'[n + 1].uri = uri
      BY <1>1, <1>4, Domains, EmptySeq DEF Descends, SameFile
    <2>2. includeStack'[u] = IF u = uri THEN includeStack[u] + 1 ELSE includeStack[u]
      BY <1>1, <1>4 DEF Descends
    <2> HIDE DEF n
    <2>3. \A i \in 2 .. n + 1 : i \in 2 .. n \/ i = n + 1
      BY <2>1
    <2>4. 2 .. n \subseteq 2 .. n + 1 /\ n + 1 \in 2 .. n + 1 /\ n + 1 \notin 2 .. n
      BY <2>1
    <2>5. \A i \in 2 .. n : frames'[i].uri = frames[i].uri
      BY <2>1
    <2>6. CASE u = uri
      <3>1. Spliced(u)' = Spliced(u) \cup {n + 1}
        BY <2>1, <2>3, <2>4, <2>5, <2>6 DEF Spliced, n
      <3>2. n + 1 \notin Spliced(u)
        BY <2>4 DEF Spliced, n
      <3>3. Cardinality(Spliced(u)') = Cardinality(Spliced(u)) + 1
        BY <3>1, <3>2, SplicedFinite, FS_AddElement
      <3>4. includeStack[u] < 2
        <4>1. CASE phase = "prefix"
          <5>1. Spliced(u) = {}
            <6>1. Len(frames) = 1
              BY <4>1 DEF PrefixIsFirst
            <6> QED
              BY <6>1 DEF Spliced
          <5> QED
            BY <1>2, <5>1, FS_EmptySet
        <4>2. CASE ~Cyclic(uri)
          BY <1>1, <2>6, <4>2 DEF Cyclic
        <4> QED
          BY <1>4, <4>1, <4>2 DEF Descends
      <3> QED
        BY <1>1, <1>2, <2>2, <2>6, <3>3, <3>4
    <2>7. CASE u # uri
      <3>1. Spliced(u)' = Spliced(u)
        BY <2>1, <2>3, <2>4, <2>5, <2>7 DEF Spliced, n
      <3> QED
        BY <1>2, <2>2, <2>7, <3>1
    <2> QED
      BY <2>6, <2>7
  <1>5. CASE frames # <<>> /\ Ascends
    <2> DEFINE n == Len(frames)
    <2>1. /\ Len(frames') = n - 1 /\ n \in Nat \ {0}
          /\ \A i \in 1 .. n - 1 : frames'[i] = frames[i]
      BY <1>1, <1>5, Domains, EmptySeq DEF Ascends
    <2>2. CASE n > 1
      <3>1. includeStack' = [includeStack EXCEPT ![frames[n].uri] = @ - 1]
        BY <1>5, <2>2 DEF Ascends, Leave, Top
      <3>2. includeStack'[u] = IF u = frames[n].uri THEN includeStack[u] - 1 ELSE includeStack[u]
        BY <1>1, <3>1
      <3> HIDE DEF n
      <3>3. /\ \A i \in 2 .. n : i \in 2 .. n - 1 \/ i = n
            /\ 2 .. n - 1 \subseteq 2 .. n /\ n \in 2 .. n /\ n \notin 2 .. n - 1
            /\ \A i \in 2 .. n - 1 : frames'[i] = frames[i]
        BY <2>1, <2>2
      <3>4. CASE u = frames[n].uri
        <4>1. Spliced(u)' = Spliced(u) \ {n} /\ n \in Spliced(u)
          BY <2>1, <3>3, <3>4 DEF Spliced, n
        <4>2. Cardinality(Spliced(u)') = Cardinality(Spliced(u)) - 1
          BY <4>1, SplicedFinite, FS_RemoveElement
        <4> QED
          BY <1>1, <1>2, <3>2, <3>4, <4>2
      <3>5. CASE u # frames[n].uri
        <4>1. Spliced(u)' = Spliced(u)
          BY <2>1, <3>3, <3>5 DEF Spliced, n
        <4> QED
          BY <1>2, <3>2, <3>5, <4>1
      <3> QED
        BY <3>4, <3>5
    <2>3. CASE ~(n > 1)
      <3>1. includeStack' = includeStack
        BY <1>5, <2>3 DEF Ascends
      <3> HIDE DEF n
      <3>2. Spliced(u)' = {} /\ Spliced(u) = {}
        BY <2>1, <2>3 DEF Spliced, n
      <3> QED
        BY <1>2, <3>1, <3>2
    <2> QED
      BY <2>2, <2>3
  <1> QED
    BY <1>1, <1>3, <1>4, <1>5, StackSteps

\* The include stack counts exactly the files being spliced, and none is
\* spliced more than twice at a time, whatever the files include.
THEOREM IncludeStackAlwaysExact == Spec => []IncludeStackExact
  <1>1. Init => IncludeStackExact
    <2> SUFFICES ASSUME Init, NEW u \in Uris
                 PROVE  includeStack[u] = Cardinality(Spliced(u)) /\ includeStack[u] <= 2
      BY DEF IncludeStackExact, Spliced
    <2>1. Len(frames) = 1 /\ includeStack[u] = 0
      BY DEF Init
    <2>2. Spliced(u) = {}
      BY <2>1 DEF Spliced
    <2> QED
      BY <2>1, <2>2, FS_EmptySet
  <1>2. TypeOK /\ NestInv /\ TreeInv /\ IncludeStackExact /\ [Next]_vars => IncludeStackExact'
    BY CountStep DEF TreeInv, NestInv
  <1> QED
    BY <1>1, <1>2, TypeCorrect, NestAlways, TreeAlways, PTL DEF Spec

---------------------------------------------------------------------------
(* Guard symbols. *)

\* In compatibility mode, when nothing is undefined, the guard of every file
\* spliced is set: that is what keeps its path from being spliced again.
GuardInv ==
    Compatibility /\ "undef" \notin Kinds =>
        \A i \in 2 .. Len(files) :
            files[i].path # "prefix" =>
                files[i].path \in Paths /\ CompatName[files[i].path] \in symbols

\* Only #undef takes a symbol away.
LEMMA SymbolsGrow ==
    ASSUME [Next]_vars, "undef" \notin Kinds
    PROVE  symbols \subseteq symbols'
  <1>1. CASE \/ \E c \in Conditions : HandleIf(c) \/ HandleElseif(c) \/ HandleAssert(c)
             \/ HandleElse \/ HandleEndif
             \/ \E n \in Names : ExpandLine(n)
             \/ \E names \in Declarations : EmitLine(names)
             \/ \E n \in Names, body \in Bodies : HandleDefine(n, body)
             \/ \E code \in MessageCodes : HandleMessage(code)
             \/ HandleEndinput
    BY <1>1 DEF HandleIf, HandleElseif, HandleAssert, HandleElse, HandleEndif,
       ExpandLine, EmitLine, HandleDefine, HandleMessage, HandleEndinput, tables
  <1>2. CASE ImplicitPrefix \/ PollCancellation \/ FinishFrame \/ CancelContext \/ UNCHANGED vars
    BY <1>2 DEF ImplicitPrefix, PollCancellation, FinishFrame, FileLeft, CancelContext, vars, tables
  <1>3. CASE \E path \in Paths, optional \in BOOLEAN : HandleInclude(path, optional)
    BY <1>3 DEF HandleInclude, IncludeInactive, IncludeUnresolved, IncludeResolved
  <1>4. ~ \E n \in Names : HandleUndef(n)
    BY DEF HandleUndef, ReadLine
  <1> QED
    BY <1>1, <1>2, <1>3, <1>4 DEF Next, Step

\* A file is spliced under a guard that was not set, and sets it.
LEMMA CompatStep ==
    ASSUME TypeOK, PrefixIsFirst, StackInv, GuardInv, CompatIncludesOnce, [Next]_vars
    PROVE  GuardInv' /\ CompatIncludesOnce'
  <1> SUFFICES ASSUME Compatibility, "undef" \notin Kinds
               PROVE  /\ \A i \in 2 .. Len(files') :
                            files'[i].path # "prefix" =>
                                /\ files'[i].path \in Paths
                                /\ CompatName[files'[i].path] \in symbols'
                      /\ \A i, j \in 2 .. Len(files') :
                            i # j /\ files'[i].path # "prefix" /\ files'[j].path # "prefix" =>
                                CompatName[files'[i].path] # CompatName[files'[j].path]
    BY DEF GuardInv, CompatIncludesOnce
  <1>1. /\ \A i \in 2 .. Len(files) :
              files[i].path # "prefix" =>
                  files[i].path \in Paths /\ CompatName[files[i].path] \in symbols
        /\ \A i, j \in 2 .. Len(files) :
              i # j /\ files[i].path # "prefix" /\ files[j].path # "prefix" =>
                  CompatName[files[i].path] # CompatName[files[j].path]
        /\ symbols \subseteq symbols'
        /\ Len(files) \in Nat
    BY SymbolsGrow, Domains DEF GuardInv, CompatIncludesOnce
  <1>2. CASE UNCHANGED files
    BY <1>1, <1>2
  <1>3. ASSUME NEW uri \in Uris, NEW inc \in IncludeRecords, Descends(uri, inc)
        PROVE  /\ \A i \in 2 .. Len(files') :
                     files'[i].path # "prefix" =>
                         /\ files'[i].path \in Paths
                         /\ CompatName[files'[i].path] \in symbols'
               /\ \A i, j \in 2 .. Len(files') :
                     i # j /\ files'[i].path # "prefix" /\ files'[j].path # "prefix" =>
                         CompatName[files'[i].path] # CompatName[files'[j].path]
    <2> DEFINE new == Len(files) + 1
    <2>1. /\ Len(files') = new /\ files'[new].path = inc.path
          /\ \A k \in 1 .. Len(files) : files'[k] = files[k]
      BY <1>3, DescendsFiles
    <2>2. inc.path # "prefix" =>
              /\ inc.path \in Paths /\ CompatName[inc.path] \notin symbols
              /\ CompatName[inc.path] \in symbols'
      BY <1>3 DEF Descends, Guarded
    <2>3. /\ \A i \in 2 .. new : i \in 2 .. Len(files) \/ i = new
          /\ \A i \in 2 .. Len(files) : i \in 1 .. Len(files)
      BY <1>1
    <2> HIDE DEF new
    <2>4. \A i \in 2 .. Len(files) : files'[i].path = files[i].path
      BY <2>1, <2>3
    <2> QED
      BY <1>1, <2>1, <2>2, <2>3, <2>4
  <1>4. phase = "prefix" => Top.file = 1
    BY TopType DEF PrefixIsFirst, StackInv, Top
  <1>5. \/ UNCHANGED files
        \/ \E uri \in Uris, inc \in IncludeRecords : Descends(uri, inc)
    BY <1>4, StackSteps DEF Stays, Ascends
  <1> QED
    BY <1>2, <1>3, <1>5

\* In compatibility mode, when nothing is undefined, no guard symbol is
\* spliced twice, for any files and any resolver (handleInclude).
THEOREM CompatAlwaysIncludesOnce == Spec => []CompatIncludesOnce
  <1>1. Init => GuardInv /\ CompatIncludesOnce
    <2> SUFFICES ASSUME Init PROVE 2 .. Len(files) = {}
      BY DEF GuardInv, CompatIncludesOnce
    <2>1. Len(files) = 1
      BY DEF Init
    <2> QED
      BY <2>1
  <1>2. TypeOK /\ NestInv /\ TreeInv /\ GuardInv /\ CompatIncludesOnce /\ [Next]_vars
            => (GuardInv /\ CompatIncludesOnce)'
    BY CompatStep DEF TreeInv, NestInv
  <1> QED
    BY <1>1, <1>2, TypeCorrect, NestAlways, TreeAlways, PTL DEF Spec

---------------------------------------------------------------------------
(* Sequences of branches. *)

\* SameConditional, for any sequence of branches.
SameIn(bs, i, j) ==
    /\ i < j
    /\ bs[i].file = bs[j].file
    /\ bs[i].depth = bs[j].depth
    /\ \A k \in (i + 1) .. j :
          ~ /\ bs[k].file = bs[i].file
            /\ bs[k].depth = bs[i].depth
            /\ bs[k].directive = "if"

\* The branches of bs are still there, closed or not.
Grown(bs, bs2) ==
    /\ Len(bs) <= Len(bs2)
    /\ \A k \in 1 .. Len(bs) :
          /\ bs2[k].file = bs[k].file /\ bs2[k].directive = bs[k].directive
          /\ bs2[k].depth = bs[k].depth /\ bs2[k].from = bs[k].from
          /\ bs2[k].active = bs[k].active

\* An open conditional c at depth j of a file read up to line points at the
\* last branch of that file and depth, begun before, and remembers in taken
\* whether a branch of the conditional has been selected.
OwnsBranch(file, line, c, j, bs) ==
    /\ c.open \in 1 .. Len(bs)
    /\ bs[c.open].file = file
    /\ bs[c.open].depth = j
    /\ bs[c.open].active = c.branchActive
    /\ bs[c.open].from <= line
    /\ \A k \in (c.open + 1) .. Len(bs) : bs[k].file = file => bs[k].depth > j
    /\ \A k \in 1 .. Len(bs) :
          bs[k].active /\ (k = c.open \/ SameIn(bs, k, c.open)) => c.taken

CondOwned(f, bs) ==
    \A j \in DOMAIN f.cond :
        ~f.cond[j].overflow => OwnsBranch(f.file, f.line, f.cond[j], j, bs)

\* The branches of a sequence are branches.
LEMMA BranchFacts ==
    ASSUME NEW bs \in Seq(Branches), NEW k \in 1 .. Len(bs)
    PROVE  /\ bs[k] \in Branches
           /\ bs[k].file \in Nat /\ bs[k].depth \in Nat
           /\ bs[k].from \in Nat /\ bs[k].to \in Nat /\ bs[k].active \in BOOLEAN
  <1>1. bs[k] \in Branches
    BY LenProperties
  <1> QED
    BY <1>1 DEF Branches

\* Branches that are there already stay in the same conditional.
LEMMA SameGrown ==
    ASSUME NEW bs \in Seq(Branches), NEW bs2 \in Seq(Branches), Grown(bs, bs2),
           NEW i \in 1 .. Len(bs), NEW j \in 1 .. Len(bs)
    PROVE  SameIn(bs2, i, j) <=> SameIn(bs, i, j)
  <1>1. Len(bs) \in Nat
    BY LenProperties
  <1>2. \A k \in (i + 1) .. j : k \in 1 .. Len(bs)
    BY <1>1
  <1> QED
    BY <1>2 DEF SameIn, Grown

\* A conditional keeps its branch when others are closed, or added for other
\* files or for conditionals nested deeper.
LEMMA OwnsGrown ==
    ASSUME NEW bs \in Seq(Branches), NEW bs2 \in Seq(Branches), Grown(bs, bs2),
           NEW file, NEW line \in Nat, NEW line2 \in Nat, line <= line2,
           NEW c, NEW j \in Nat, OwnsBranch(file, line, c, j, bs),
           \A k \in (Len(bs) + 1) .. Len(bs2) : bs2[k].file = file => bs2[k].depth > j
    PROVE  OwnsBranch(file, line2, c, j, bs2)
  <1>1. /\ Len(bs) \in Nat /\ Len(bs2) \in Nat /\ Len(bs) <= Len(bs2)
        /\ c.open \in 1 .. Len(bs)
    BY LenProperties DEF Grown, OwnsBranch
  <1>2. c.open \in 1 .. Len(bs2)
    BY <1>1
  <1>3. /\ bs2[c.open].file = file /\ bs2[c.open].depth = j
        /\ bs2[c.open].active = c.branchActive
        /\ bs2[c.open].from = bs[c.open].from
    BY <1>1 DEF Grown, OwnsBranch
  <1>4. bs2[c.open].from <= line2
    <2>1. bs[c.open].from \in Nat /\ bs[c.open].from <= line
      BY <1>1, BranchFacts DEF OwnsBranch
    <2> QED
      BY <1>3, <2>1
  <1>5. ASSUME NEW k \in (c.open + 1) .. Len(bs2), bs2[k].file = file
        PROVE  bs2[k].depth > j
    <2>1. \/ k \in (c.open + 1) .. Len(bs) /\ k \in 1 .. Len(bs)
          \/ k \in (Len(bs) + 1) .. Len(bs2)
      BY <1>1
    <2> QED
      BY <1>5, <2>1 DEF Grown, OwnsBranch
  <1>6. ASSUME NEW k \in 1 .. Len(bs2), bs2[k].active,
               k = c.open \/ SameIn(bs2, k, c.open)
        PROVE  c.taken
    <2>1. k \in 1 .. Len(bs)
      BY <1>1, <1>6 DEF SameIn
    <2>2. k = c.open \/ SameIn(bs, k, c.open)
      BY <1>1, <1>6, <2>1, SameGrown
    <2> QED
      BY <1>6, <2>1, <2>2 DEF Grown, OwnsBranch
  <1> QED
    BY <1>2, <1>3, <1>4, <1>5, <1>6 DEF OwnsBranch

\* All conditionals of a frame keep their branches when what is added for
\* its file belongs to conditionals nested deeper than all of them.
LEMMA CondOwnedGrown ==
    ASSUME NEW bs \in Seq(Branches), NEW bs2 \in Seq(Branches), Grown(bs, bs2),
           NEW f \in Frames, NEW g \in Frames, CondOwned(f, bs),
           g.file = f.file, g.cond = f.cond, f.line <= g.line,
           \A k \in (Len(bs) + 1) .. Len(bs2) :
              bs2[k].file = f.file => bs2[k].depth > Len(f.cond)
    PROVE  CondOwned(g, bs2)
  <1> SUFFICES ASSUME NEW j \in DOMAIN f.cond, ~f.cond[j].overflow
               PROVE  OwnsBranch(f.file, g.line, f.cond[j], j, bs2)
    BY DEF CondOwned
  <1>1. f.line \in Nat /\ g.line \in Nat /\ f.cond \in Seq(CondFrames)
    BY LimitsAssumption DEF Frames, LineIndices
  <1>2. j \in Nat /\ Len(f.cond) \in Nat /\ j <= Len(f.cond)
    BY <1>1, LenProperties
  <1>3. OwnsBranch(f.file, f.line, f.cond[j], j, bs)
    BY DEF CondOwned
  <1>4. ASSUME NEW k \in (Len(bs) + 1) .. Len(bs2), bs2[k].file = f.file
        PROVE  bs2[k].depth > j
    <2>1. k \in 1 .. Len(bs2)
      BY LenProperties
    <2>2. bs2[k].depth \in Nat /\ bs2[k].depth > Len(f.cond)
      BY <1>4, <2>1, BranchFacts
    <2> QED
      BY <1>2, <2>2
  <1> QED
    BY <1>1, <1>2, <1>3, <1>4, OwnsGrown

\* The first branch of a conditional belongs to no other one.
LEMMA FirstIsAlone ==
    ASSUME NEW bs, NEW i, NEW j \in Nat, SameIn(bs, i, j), i \in Nat
    PROVE  bs[j].directive # "if"
  <1>1. j \in (i + 1) .. j /\ bs[i].file = bs[j].file /\ bs[i].depth = bs[j].depth
    BY DEF SameIn
  <1> QED
    BY <1>1 DEF SameIn

\* A new conditional owns the branch its #if records.
LEMMA OwnsFirst ==
    ASSUME NEW bs \in Seq(Branches), NEW x \in Branches, x.directive = "if",
           NEW file, NEW line \in Nat, NEW c, NEW j \in Nat,
           x.file = file, x.depth = j, x.from <= line,
           c.open = Len(bs) + 1, c.branchActive = x.active, x.active => c.taken
    PROVE  OwnsBranch(file, line, c, j, Append(bs, x))
  <1> DEFINE bs2 == Append(bs, x)
             n == Len(bs) + 1
  <1>1. /\ bs2 \in Seq(Branches) /\ Len(bs2) = n /\ bs2[n] = x /\ n \in Nat
    BY AppendProperties, LenProperties
  <1>2. n \in 1 .. n /\ (n + 1) .. n = {}
    BY LenProperties
  <1> HIDE DEF bs2, n
  <1>3. \A k \in 1 .. n : ~SameIn(bs2, k, n)
    <2>1. \A k \in 1 .. n : k \in Nat
      BY <1>1
    <2> QED
      BY <1>1, <2>1, FirstIsAlone
  <1> QED
    BY <1>1, <1>2, <1>3 DEF OwnsBranch, n, bs2

\* What is recorded after the open branch of a conditional, for its file and
\* depth, belongs to the same conditional as the open branch.
LEMMA SameAsOpen ==
    ASSUME NEW bs \in Seq(Branches), NEW x \in Branches,
           NEW file, NEW line \in Nat, NEW c, NEW j \in Nat,
           OwnsBranch(file, line, c, j, bs), x.file = file, x.depth = j,
           NEW i \in 1 .. Len(bs), SameIn(Append(bs, x), i, Len(bs) + 1)
    PROVE  i = c.open \/ SameIn(bs, i, c.open)
  <1> DEFINE bs2 == Append(bs, x)
             n == Len(bs)
  <1>1. /\ n \in Nat /\ bs2[n + 1] = x
        /\ \A k \in 1 .. n : bs2[k] = bs[k]
    BY AppendProperties, LenProperties
  <1>2. /\ c.open \in 1 .. n /\ bs[c.open].file = file /\ bs[c.open].depth = j
        /\ \A k \in (c.open + 1) .. n : bs[k].file = file => bs[k].depth > j
    BY DEF OwnsBranch
  <1>3. SameIn(bs2, i, n + 1)
    OBVIOUS
  <1> HIDE DEF bs2, n
  <1>0. i \in 1 .. n
    BY DEF n
  <1>4. bs[i].file = file /\ bs[i].depth = j
    BY <1>0, <1>1, <1>3 DEF SameIn
  <1>5. ~(i > c.open)
    <2> SUFFICES ASSUME i > c.open PROVE FALSE
      OBVIOUS
    <2>1. i \in (c.open + 1) .. n
      BY <1>0, <1>1, <1>2
    <2>2. j > j
      BY <1>2, <1>4, <2>1
    <2> QED
      BY <2>2
  <1>6. i < c.open => SameIn(bs, i, c.open)
    <2> SUFFICES ASSUME i < c.open PROVE SameIn(bs, i, c.open)
      OBVIOUS
    <2>1. \A k \in (i + 1) .. c.open : k \in 1 .. n /\ k \in (i + 1) .. (n + 1)
      BY <1>0, <1>1, <1>2
    <2> QED
      BY <1>0, <1>1, <1>2, <1>3, <1>4, <2>1 DEF SameIn
  <1> QED
    BY <1>0, <1>1, <1>2, <1>5, <1>6

\* The next branch of a conditional is owned by it.
LEMMA OwnsNext ==
    ASSUME NEW bs \in Seq(Branches), NEW x \in Branches,
           NEW file, NEW line \in Nat, NEW line2 \in Nat, NEW c, NEW c2, NEW j \in Nat,
           OwnsBranch(file, line, c, j, bs),
           x.file = file, x.depth = j, x.from <= line2,
           c2.open = Len(bs) + 1, c2.branchActive = x.active,
           c.taken \/ x.active => c2.taken
    PROVE  OwnsBranch(file, line2, c2, j, Append(bs, x))
  <1> DEFINE bs2 == Append(bs, x)
             n == Len(bs) + 1
  <1>1. /\ bs2 \in Seq(Branches) /\ Len(bs2) = n /\ bs2[n] = x /\ n \in Nat
        /\ \A k \in 1 .. Len(bs) : bs2[k] = bs[k]
    BY AppendProperties, LenProperties
  <1>2. n \in 1 .. n /\ (n + 1) .. n = {}
    BY LenProperties
  <1>3. ASSUME NEW k \in 1 .. n, bs2[k].active, k = n \/ SameIn(bs2, k, n)
        PROVE  c2.taken
    <2>1. CASE k = n
      BY <1>1, <1>3, <2>1
    <2>2. CASE SameIn(bs2, k, n)
      <3>1. k \in 1 .. Len(bs)
        BY <1>1, <2>2, LenProperties DEF SameIn
      <3>2. k = c.open \/ SameIn(bs, k, c.open)
        BY <2>2, <3>1, SameAsOpen
      <3>3. bs[k].active
        BY <1>1, <1>3, <3>1
      <3> QED
        BY <3>1, <3>2, <3>3 DEF OwnsBranch
    <2> QED
      BY <1>3, <2>1, <2>2
  <1> HIDE DEF bs2, n
  <1> QED
    BY <1>1, <1>2, <1>3 DEF OwnsBranch, n, bs2

---------------------------------------------------------------------------
(* Open conditionals own their branches. *)

OwnInv == \A i \in DOMAIN frames : CondOwned(frames[i], branches)

\* closeBranch writes the end of one branch and nothing else.
LEMMA CloseBranchGrown ==
    ASSUME TypeOK, phase = "running"
    PROVE  /\ CloseBranch \in Seq(Branches) /\ Len(CloseBranch) = Len(branches)
           /\ Grown(branches, CloseBranch)
           /\ \A k \in 1 .. Len(branches) :
                 CloseBranch[k].to = IF k = TopCond.open THEN Top.line ELSE branches[k].to
  <1>1. /\ branches \in Seq(Branches) /\ Len(branches) \in Nat
        /\ DOMAIN branches = 1 .. Len(branches)
        /\ CloseBranch \in Seq(Branches) /\ Len(CloseBranch) = Len(branches)
    BY Domains, CloseBranchType
  <1>2. ASSUME NEW k \in 1 .. Len(branches)
        PROVE  /\ CloseBranch[k].file = branches[k].file
               /\ CloseBranch[k].directive = branches[k].directive
               /\ CloseBranch[k].depth = branches[k].depth
               /\ CloseBranch[k].from = branches[k].from
               /\ CloseBranch[k].active = branches[k].active
               /\ CloseBranch[k].to = IF k = TopCond.open THEN Top.line ELSE branches[k].to
    <2>1. branches[k] \in Branches
      BY <1>1, BranchFacts
    <2>2. CASE TopCond.open \in DOMAIN branches
      <3>1. CloseBranch[k] = IF k = TopCond.open
                             THEN [branches[k] EXCEPT !.to = Top.line] ELSE branches[k]
        BY <1>1, <2>2 DEF CloseBranch
      <3> QED
        BY <2>1, <3>1 DEF Branches
    <2>3. CASE TopCond.open \notin DOMAIN branches
      BY <1>1, <2>3 DEF CloseBranch
    <2> QED
      BY <2>2, <2>3
  <1> QED
    BY <1>1, <1>2 DEF Grown

LEMMA GrownItself ==
    ASSUME NEW bs \in Seq(Branches)
    PROVE  Grown(bs, bs)
  BY LenProperties DEF Grown

LEMMA GrownAppend ==
    ASSUME NEW bs \in Seq(Branches), NEW bs2 \in Seq(Branches), NEW x \in Branches,
           Grown(bs, bs2), Len(bs2) = Len(bs)
    PROVE  /\ Grown(bs, Append(bs2, x)) /\ Append(bs2, x) \in Seq(Branches)
           /\ Len(Append(bs2, x)) = Len(bs) + 1
           /\ Append(bs2, x)[Len(bs) + 1] = x
           /\ \A k \in (Len(bs) + 1) .. Len(Append(bs2, x)) : Append(bs2, x)[k] = x
           /\ \A k \in 1 .. Len(bs) : Append(bs2, x)[k] = bs2[k]
  <1> DEFINE bs3 == Append(bs2, x)
             n == Len(bs)
  <1>1. /\ bs3 \in Seq(Branches) /\ Len(bs3) = n + 1 /\ bs3[n + 1] = x /\ n \in Nat
        /\ \A k \in 1 .. n : bs3[k] = bs2[k]
    BY AppendProperties, LenProperties
  <1>2. \A k \in 1 .. n :
           /\ bs2[k].file = bs[k].file /\ bs2[k].directive = bs[k].directive
           /\ bs2[k].depth = bs[k].depth /\ bs2[k].from = bs[k].from
           /\ bs2[k].active = bs[k].active
    BY DEF Grown
  <1> HIDE DEF bs3
  <1>3. Grown(bs, bs3)
    BY <1>1, <1>2 DEF Grown
  <1> HIDE DEF n
  <1>4. \A k \in (n + 1) .. Len(bs3) : bs3[k] = x
    <2>1. \A k \in (n + 1) .. (n + 1) : k = n + 1
      BY <1>1
    <2> QED
      BY <1>1, <2>1
  <1> QED
    BY <1>1, <1>3, <1>4 DEF bs3, n

\* When the current frame becomes f and the branches added are those of its
\* file, the other frames keep theirs: they read other files.
LEMMA OwnRewrite ==
    ASSUME TypeOK, frames # <<>>, StackInv, OwnInv, NEW f \in Frames, Advances(f),
           branches' \in Seq(Branches), Grown(branches, branches'),
           \A k \in (Len(branches) + 1) .. Len(branches') : branches'[k].file = Top.file,
           CondOwned(f, branches')
    PROVE  OwnInv'
  <1>1. /\ frames \in Seq(Frames) /\ frames' = SetLast(frames, f)
        /\ branches \in Seq(Branches)
    BY Domains DEF Advances
  <1>2. /\ Len(frames) \in Nat \ {0}
        /\ DOMAIN frames = 1 .. Len(frames) /\ DOMAIN frames' = 1 .. Len(frames)
        /\ frames'[Len(frames)] = f
        /\ \A i \in 1 .. Len(frames) - 1 : frames'[i] = frames[i]
    BY <1>1, FramesRewritten
  <1> SUFFICES ASSUME NEW i \in 1 .. Len(frames) PROVE CondOwned(frames'[i], branches')
    BY <1>2 DEF OwnInv
  <1>3. CASE i = Len(frames)
    BY <1>2, <1>3
  <1>4. CASE i # Len(frames)
    <2>0. Len(frames) \in Nat \ {0}
      BY <1>2
    <2>1. i \in 1 .. Len(frames) - 1 /\ i < Len(frames) /\ Len(frames) \in DOMAIN frames
      <3>1. i \in 1 .. Len(frames) - 1 /\ i < Len(frames) /\ Len(frames) \in 1 .. Len(frames)
        BY <1>4, <2>0
      <3> QED
        BY <1>2, <3>1
    <2>2. frames[i] \in Frames /\ frames[i].line \in Nat /\ frames[i].file \in Nat
      <3>1. frames[i] \in Frames
        BY <1>1, <1>2, FrameFacts
      <3> QED
        BY <3>1 DEF Frames, LineIndices
    <2>3. frames[i].file # Top.file
      <3>1. frames[i].file < Top.file
        BY <1>2, <2>1 DEF StackInv, Top
      <3>2. Top.file \in Nat
        <4>1. frames[Len(frames)] \in Frames
          BY <1>1, <2>1, FrameFacts
        <4> QED
          BY <4>1 DEF Frames, Top
      <3> QED
        BY <2>2, <3>1, <3>2
    <2>4. CondOwned(frames[i], branches)
      BY <1>2 DEF OwnInv
    <2>5. \A k \in (Len(branches) + 1) .. Len(branches') :
             branches'[k].file = frames[i].file => branches'[k].depth > Len(frames[i].cond)
      BY <2>3
    <2>6. frames[i].line <= frames[i].line
      BY <2>2
    <2>7. CondOwned(frames[i], branches')
      BY <1>1, <2>2, <2>4, <2>5, <2>6, CondOwnedGrown
    <2> QED
      BY <1>2, <2>1, <2>7
  <1> QED
    BY <1>3, <1>4

\* A step that moves on with the same conditionals.
LEMMA OwnSame ==
    ASSUME TypeOK, frames # <<>>, StackInv, OwnInv, NEW f \in Frames, Advances(f),
           f.cond = Top.cond,
           branches' \in Seq(Branches), Grown(branches, branches'),
           Len(branches') = Len(branches)
    PROVE  OwnInv'
  <1>1. Len(frames) \in DOMAIN frames /\ Len(branches) \in Nat /\ branches \in Seq(Branches)
    BY Domains, EmptySeq
  <1>2. CondOwned(Top, branches) /\ Top \in Frames
    BY <1>1, Domains, FrameFacts DEF OwnInv, Top
  <1>3. (Len(branches) + 1) .. Len(branches') = {}
    BY <1>1
  <1>4. CondOwned(f, branches')
    BY <1>1, <1>2, <1>3, CondOwnedGrown DEF Advances
  <1> QED
    BY <1>3, <1>4, OwnRewrite

\* The conditionals below the current one keep their branches when a branch
\* of the current one is added.
LEMMA OuterOwned ==
    ASSUME TypeOK, phase = "running", OwnInv,
           branches' \in Seq(Branches), Grown(branches, branches'),
           NEW j \in DOMAIN Top.cond, ~Top.cond[j].overflow,
           \A k \in (Len(branches) + 1) .. Len(branches') : branches'[k].depth > j
    PROVE  OwnsBranch(Top.file, Top.line + 1, Top.cond[j], j, branches')
  <1>1. /\ frames # <<>> /\ Top \in Frames /\ Top.line \in Nat
        /\ Top.cond \in Seq(CondFrames)
    BY TopType DEF LineIndices
  <1>2. Len(frames) \in DOMAIN frames /\ branches \in Seq(Branches) /\ j \in Nat
    BY <1>1, Domains, EmptySeq, LenProperties
  <1>3. OwnsBranch(Top.file, Top.line, Top.cond[j], j, branches)
    BY <1>2 DEF OwnInv, CondOwned, Top
  <1>4. Top.line + 1 \in Nat /\ Top.line <= Top.line + 1
    BY <1>1
  <1> QED
    BY SMTT(30), <1>1, <1>2, <1>3, <1>4, OwnsGrown

\* What a conditional directive does to the branches, and to the last of the
\* open conditionals.
LEMMA NextIndexFacts ==
    ASSUME TypeOK, phase = "running"
    PROVE  /\ branches \in Seq(Branches) /\ Len(branches) \in Nat
           /\ NextIndex = Len(branches) + 1
           /\ frames # <<>> /\ Top \in Frames /\ Top.line \in Nat /\ Top.file \in Nat
           /\ Top.cond \in Seq(CondFrames) /\ Len(Top.cond) \in Nat
           /\ DOMAIN Top.cond = 1 .. Len(Top.cond)
           /\ Top.cond # <<>> => /\ TopCond \in CondFrames /\ Len(Top.cond) \in Nat \ {0}
                                 /\ TopCond = Top.cond[Len(Top.cond)]
  <1>1. /\ frames # <<>> /\ Top \in Frames /\ Top.line \in Nat /\ Top.file \in Nat
        /\ Top.cond \in Seq(CondFrames) /\ (Top.cond # <<>> => TopCond \in CondFrames)
    BY TopType DEF LineIndices
  <1> QED
    BY <1>1, Domains, LenProperties, EmptySeq DEF NextIndex, TopCond

\* #if opens a conditional that owns the branch it records.
LEMMA OpensOwned ==
    ASSUME TypeOK, phase = "running", Top.line < MaxFileLines, StackInv, OwnInv, Opens
    PROVE  OwnInv'
  <1>1. PICK parent \in BOOLEAN, active \in BOOLEAN :
           /\ branches' = Append(branches, Branch("if", Len(Top.cond) + 1, active, parent))
           /\ Consume(Append(Top.cond, CondFrame(parent, active, NextIndex)))
    BY DEF Opens
  <1> DEFINE x == Branch("if", Len(Top.cond) + 1, active, parent)
             cf == CondFrame(parent, active, NextIndex)
             cond == Append(Top.cond, cf)
             n == Len(Top.cond)
  <1>2. /\ branches \in Seq(Branches) /\ Len(branches) \in Nat
        /\ NextIndex = Len(branches) + 1 /\ frames # <<>>
        /\ Top \in Frames /\ Top.line \in Nat /\ Top.file \in Nat
        /\ Top.cond \in Seq(CondFrames) /\ n \in Nat /\ DOMAIN Top.cond = 1 .. n
    BY NextIndexFacts
  <1>3. /\ x \in Branches /\ x.directive = "if" /\ x.file = Top.file
        /\ x.depth = n + 1 /\ x.from = Top.line + 1 /\ x.active = active
    <2>1. Len(Top.cond) + 1 \in Nat
      BY <1>2
    <2> QED
      BY <2>1, BranchType DEF Branch
  <1>4. /\ cf \in CondFrames /\ cf.open = Len(branches) + 1
        /\ cf.branchActive = active /\ cf.taken = active
    BY <1>2 DEF CondFrame, CondFrames
  <1> HIDE DEF x, cf
  <1>5. /\ cond \in Seq(CondFrames) /\ Len(cond) = n + 1 /\ cond[n + 1] = cf
        /\ \A j \in 1 .. n : cond[j] = Top.cond[j]
        /\ DOMAIN cond = 1 .. n + 1
    BY <1>2, <1>4, AppendProperties, LenProperties
  <1>6. branches' = Append(branches, x) /\ Consume(cond)
    BY <1>1 DEF x, cf
  <1> HIDE DEF cond
  <1>7. PICK f \in Frames : Advances(f) /\ f.cond = cond /\ f.line = Top.line + 1
    BY <1>5, <1>6, ConsumeAdvances
  <1>8. /\ branches' \in Seq(Branches) /\ Grown(branches, branches')
        /\ \A k \in (Len(branches) + 1) .. Len(branches') : branches'[k] = x
    BY <1>2, <1>3, <1>6, GrownItself, GrownAppend
  <1> HIDE DEF n
  <1>9. CondOwned(f, branches')
    <2> SUFFICES ASSUME NEW j \in 1 .. n + 1, ~cond[j].overflow
                 PROVE  OwnsBranch(Top.file, Top.line + 1, cond[j], j, branches')
      BY <1>5, <1>7 DEF CondOwned, Advances
    <2>1. CASE j \in 1 .. n
      <3>1. n + 1 > j
        BY <1>2, <2>1
      <3> QED
        BY <1>2, <1>3, <1>5, <1>8, <2>1, <3>1, OuterOwned
    <2>2. CASE j = n + 1
      <3>1. /\ Top.line + 1 \in Nat /\ n + 1 \in Nat /\ x.from <= Top.line + 1
            /\ cf.open = Len(branches) + 1 /\ cf.branchActive = x.active
            /\ x.active => cf.taken
        BY <1>2, <1>3, <1>4
      <3>2. OwnsBranch(Top.file, Top.line + 1, cf, n + 1, Append(branches, x))
        BY <1>2, <1>3, <3>1, OwnsFirst
      <3> QED
        BY <1>5, <1>6, <2>2, <3>2
    <2> QED
      BY <1>2, <2>1, <2>2
  <1> QED
    BY <1>2, <1>3, <1>7, <1>8, <1>9, OwnRewrite

\* #if beyond the limit opens a conditional that owns nothing.
LEMMA OpensBeyondOwned ==
    ASSUME TypeOK, phase = "running", Top.line < MaxFileLines, StackInv, OwnInv, OpensBeyond
    PROVE  OwnInv'
  <1>1. PICK parent \in BOOLEAN : Consume(Append(Top.cond, OverflowFrame(parent)))
    BY DEF OpensBeyond
  <1> DEFINE cf == OverflowFrame(parent)
             cond == Append(Top.cond, cf)
             n == Len(Top.cond)
  <1>2. /\ branches \in Seq(Branches) /\ Len(branches) \in Nat /\ frames # <<>>
        /\ Top.cond \in Seq(CondFrames) /\ n \in Nat /\ DOMAIN Top.cond = 1 .. n
    BY NextIndexFacts
  <1>3. cf \in CondFrames /\ cf.overflow
    BY DEF OverflowFrame, CondFrames
  <1> HIDE DEF cf
  <1>4. /\ cond \in Seq(CondFrames) /\ cond[n + 1] = cf
        /\ \A j \in 1 .. n : cond[j] = Top.cond[j]
        /\ DOMAIN cond = 1 .. n + 1
    BY <1>2, <1>3, AppendProperties, LenProperties
  <1>5. Consume(cond)
    BY <1>1 DEF cf
  <1> HIDE DEF cond
  <1>6. PICK f \in Frames : Advances(f) /\ f.cond = cond /\ f.line = Top.line + 1
    BY <1>4, <1>5, ConsumeAdvances
  <1>7. /\ branches' = branches /\ branches' \in Seq(Branches) /\ Grown(branches, branches')
        /\ (Len(branches) + 1) .. Len(branches') = {}
    BY <1>2, GrownItself DEF OpensBeyond
  <1> HIDE DEF n
  <1>8. CondOwned(f, branches')
    <2> SUFFICES ASSUME NEW j \in 1 .. n + 1, ~cond[j].overflow
                 PROVE  OwnsBranch(Top.file, Top.line + 1, cond[j], j, branches')
      BY <1>4, <1>6 DEF CondOwned, Advances
    <2>1. j \in 1 .. n
      BY <1>2, <1>3, <1>4
    <2> QED
      BY <1>2, <1>4, <1>7, <2>1, OuterOwned
  <1> QED
    BY <1>2, <1>6, <1>7, <1>8, OwnRewrite

\* The current conditional owns its branch, also once it is closed.
LEMMA CurrentOwned ==
    ASSUME TypeOK, phase = "running", OwnInv, Top.cond # <<>>, ~TopCond.overflow
    PROVE  /\ OwnsBranch(Top.file, Top.line, TopCond, Len(Top.cond), branches)
           /\ OwnsBranch(Top.file, Top.line, TopCond, Len(Top.cond), CloseBranch)
  <1>1. /\ branches \in Seq(Branches) /\ frames # <<>> /\ Top.line \in Nat
        /\ Len(Top.cond) \in Nat \ {0} /\ DOMAIN Top.cond = 1 .. Len(Top.cond)
        /\ TopCond = Top.cond[Len(Top.cond)]
    BY NextIndexFacts
  <1>2. Len(Top.cond) \in DOMAIN Top.cond /\ Len(frames) \in DOMAIN frames
    BY <1>1, Domains, EmptySeq
  <1>3. OwnsBranch(Top.file, Top.line, TopCond, Len(Top.cond), branches)
    BY <1>1, <1>2 DEF OwnInv, CondOwned, Top
  <1>4. /\ CloseBranch \in Seq(Branches) /\ Len(CloseBranch) = Len(branches)
        /\ Grown(branches, CloseBranch)
    BY CloseBranchGrown
  <1>5. (Len(branches) + 1) .. Len(CloseBranch) = {} /\ Top.line <= Top.line
    BY <1>1, <1>4, LenProperties
  <1>6. Len(Top.cond) \in Nat
    BY <1>1
  <1>7. OwnsBranch(Top.file, Top.line, TopCond, Len(Top.cond), CloseBranch)
    BY <1>1, <1>3, <1>4, <1>5, <1>6, OwnsGrown
  <1> QED
    BY <1>3, <1>7

\* The branch #elseif and #else record.
LEMMA AlternatesBranch ==
    ASSUME TypeOK, phase = "running", Alternates
    PROVE  \E x \in Branches, cf \in CondFrames :
              /\ branches' = Append(CloseBranch, x)
              /\ x.file = Top.file /\ x.depth = Len(Top.cond)
              /\ x.from = Top.line + 1 /\ x.to = Top.line + 1
              /\ x.active => ~TopCond.taken
              /\ Consume(SetLast(Top.cond, cf))
              /\ cf.open = Len(branches) + 1 /\ cf.branchActive = x.active
              /\ TopCond.taken \/ x.active => cf.taken
  <1>1. PICK kind \in {"elseif", "else"}, active \in BOOLEAN, evaluated \in BOOLEAN :
           (active => ~TopCond.taken) /\ NextBranch(kind, active, evaluated)
    BY DEF Alternates
  <1>2. /\ NextIndex = Len(branches) + 1 /\ Len(branches) \in Nat
        /\ TopCond \in CondFrames /\ Len(Top.cond) \in Nat
    BY NextIndexFacts DEF Alternates
  <1> DEFINE x == Branch(kind, Len(Top.cond), active, evaluated)
             cf == [TopCond EXCEPT !.branchActive = active, !.taken = @ \/ active,
                                   !.open = NextIndex]
  <1>3. /\ x \in Branches /\ x.file = Top.file /\ x.depth = Len(Top.cond)
        /\ x.from = Top.line + 1 /\ x.to = Top.line + 1 /\ x.active = active
    BY <1>2, BranchType DEF Branch
  <1>4. /\ cf \in CondFrames /\ cf.open = Len(branches) + 1
        /\ cf.branchActive = active /\ (TopCond.taken \/ active => cf.taken)
    <2>1. (TopCond.taken \/ active) \in BOOLEAN /\ NextIndex \in Nat \ {0}
      BY <1>2
    <2> QED
      BY <1>2, <2>1 DEF CondFrames
  <1>5. branches' = Append(CloseBranch, x) /\ Consume(SetLast(Top.cond, cf))
    BY <1>1 DEF NextBranch
  <1> HIDE DEF x, cf
  <1> QED
    BY <1>1, <1>3, <1>4, <1>5

\* #elseif and #else give the current conditional its next branch.
LEMMA AlternatesOwned ==
    ASSUME TypeOK, phase = "running", Top.line < MaxFileLines, StackInv, OwnInv, Alternates
    PROVE  OwnInv'
  <1>1. PICK x \in Branches, cf \in CondFrames :
              /\ branches' = Append(CloseBranch, x)
              /\ x.file = Top.file /\ x.depth = Len(Top.cond)
              /\ x.from = Top.line + 1 /\ x.to = Top.line + 1
              /\ x.active => ~TopCond.taken
              /\ Consume(SetLast(Top.cond, cf))
              /\ cf.open = Len(branches) + 1 /\ cf.branchActive = x.active
              /\ TopCond.taken \/ x.active => cf.taken
    BY AlternatesBranch
  <1> DEFINE cond == SetLast(Top.cond, cf)
             n == Len(Top.cond)
  <1>2. /\ branches \in Seq(Branches) /\ Len(branches) \in Nat /\ frames # <<>>
        /\ Top.line \in Nat /\ Top.file \in Nat
        /\ Top.cond \in Seq(CondFrames) /\ Top.cond # <<>> /\ ~TopCond.overflow
        /\ n \in Nat \ {0} /\ DOMAIN Top.cond = 1 .. n
    BY NextIndexFacts DEF Alternates
  <1>3. /\ cond \in Seq(CondFrames) /\ Len(cond) = n /\ cond[n] = cf
        /\ \A j \in 1 .. n - 1 : cond[j] = Top.cond[j]
        /\ DOMAIN cond = 1 .. n
    <2>0. Top.cond \in Seq(CondFrames) /\ Top.cond # <<>> /\ cf \in CondFrames
      BY <1>2
    <2>1. ASSUME NEW c \in Seq(CondFrames), c # <<>>
          PROVE  /\ SetLast(c, cf) \in Seq(CondFrames)
                 /\ Len(SetLast(c, cf)) = Len(c) /\ SetLast(c, cf)[Len(c)] = cf
                 /\ \A j \in 1 .. Len(c) - 1 : SetLast(c, cf)[j] = c[j]
      BY <2>0, <2>1, SetLastFacts
    <2>2. /\ cond \in Seq(CondFrames) /\ Len(cond) = n /\ cond[n] = cf
          /\ \A j \in 1 .. n - 1 : cond[j] = Top.cond[j]
      BY <2>0, <2>1
    <2> HIDE DEF cond
    <2> QED
      BY <2>2, LenProperties
  <1> HIDE DEF cond
  <1>4. Consume(cond)
    BY <1>1 DEF cond
  <1>5. PICK f \in Frames : Advances(f) /\ f.cond = cond /\ f.line = Top.line + 1
    BY <1>2, <1>3, <1>4, ConsumeAdvances
  <1>6. /\ CloseBranch \in Seq(Branches) /\ Len(CloseBranch) = Len(branches)
        /\ Grown(branches, CloseBranch)
    BY CloseBranchGrown
  <1>7. /\ branches' \in Seq(Branches) /\ Grown(branches, branches')
        /\ \A k \in (Len(branches) + 1) .. Len(branches') : branches'[k] = x
    BY <1>1, <1>2, <1>6, GrownAppend
  <1>8. CondOwned(f, branches')
    <2> SUFFICES ASSUME NEW j \in 1 .. n, ~cond[j].overflow
                 PROVE  OwnsBranch(Top.file, Top.line + 1, cond[j], j, branches')
      BY <1>3, <1>5 DEF CondOwned, Advances
    <2>1. CASE j \in 1 .. n - 1
      <3>1. n > j /\ j \in DOMAIN Top.cond
        BY <1>2, <2>1
      <3>2. \A k \in (Len(branches) + 1) .. Len(branches') : branches'[k].depth > j
        BY <1>1, <1>7, <3>1
      <3> HIDE DEF n
      <3> QED
        BY <1>3, <1>7, <2>1, <3>1, <3>2, OuterOwned
    <2>2. CASE j = n
      <3>1. /\ Top.line + 1 \in Nat /\ n \in Nat /\ x.from <= Top.line + 1
            /\ cf.open = Len(CloseBranch) + 1
        BY <1>1, <1>2, <1>6
      <3>2. OwnsBranch(Top.file, Top.line, TopCond, n, CloseBranch)
        BY <1>2, CurrentOwned
      <3>3. OwnsBranch(Top.file, Top.line + 1, cf, n, Append(CloseBranch, x))
        BY <1>1, <1>2, <1>6, <3>1, <3>2, OwnsNext
      <3> QED
        BY <1>1, <1>3, <2>2, <3>3
    <2> HIDE DEF n
    <2> QED
      BY <1>2, <2>1, <2>2
  <1>9. \A k \in (Len(branches) + 1) .. Len(branches') : branches'[k].file = Top.file
    BY <1>1, <1>7
  <1> QED
    BY <1>2, <1>5, <1>7, <1>8, <1>9, OwnRewrite

\* #endif leaves the conditionals around the one it closes.
LEMMA EndsOwned ==
    ASSUME TypeOK, phase = "running", Top.line < MaxFileLines, StackInv, OwnInv, Ends
    PROVE  OwnInv'
  <1> DEFINE cond == Pop(Top.cond)
             n == Len(Top.cond)
  <1>1. /\ branches \in Seq(Branches) /\ Len(branches) \in Nat /\ frames # <<>>
        /\ Top.cond \in Seq(CondFrames) /\ Top.cond # <<>>
        /\ n \in Nat \ {0} /\ DOMAIN Top.cond = 1 .. n
    BY NextIndexFacts DEF Ends, Endif
  <1>2. /\ cond \in Seq(CondFrames) /\ DOMAIN cond = 1 .. n - 1
        /\ \A j \in 1 .. n - 1 : cond[j] = Top.cond[j]
    BY <1>1, PopFacts, LenProperties
  <1>3. Consume(cond)
    BY DEF Ends, Endif
  <1> HIDE DEF cond
  <1>4. PICK f \in Frames : Advances(f) /\ f.cond = cond /\ f.line = Top.line + 1
    BY <1>1, <1>2, <1>3, ConsumeAdvances
  <1>5. /\ branches' \in Seq(Branches) /\ Grown(branches, branches')
        /\ Len(branches') = Len(branches)
    BY <1>1, CloseBranchGrown, GrownItself DEF Ends, Endif
  <1>6. (Len(branches) + 1) .. Len(branches') = {}
    BY <1>1, <1>5
  <1>7. CondOwned(f, branches')
    <2> SUFFICES ASSUME NEW j \in 1 .. n - 1, ~cond[j].overflow
                 PROVE  OwnsBranch(Top.file, Top.line + 1, cond[j], j, branches')
      BY <1>2, <1>4 DEF CondOwned, Advances
    <2>1. j \in DOMAIN Top.cond
      BY <1>1
    <2> HIDE DEF n
    <2> QED
      BY <1>2, <1>5, <1>6, <2>1, OuterOwned
  <1> QED
    BY <1>1, <1>4, <1>5, <1>6, <1>7, OwnRewrite

\* A splice leaves the conditionals of the including file as they are.
LEMMA SplicesOwned ==
    ASSUME TypeOK, OwnInv, Splices
    PROVE  OwnInv'
  <1>1. phase \in {"prefix", "running"}
    BY DEF Splices
  <1>2. PICK parent \in Frames, uri \in Uris, inc \in IncludeRecords :
           /\ SpliceInclude(parent, uri, inc)
           /\ parent.file = Top.file /\ parent.cond = Top.cond
           /\ parent.line >= Top.line
           /\ UNCHANGED branches
    BY DEF Splices
  <1>3. /\ frames \in Seq(Frames) /\ frames # <<>> /\ Top \in Frames
        /\ branches \in Seq(Branches) /\ Len(files) + 1 \in Nat
        /\ uri \in Uris \cup {"root"}
    BY <1>1, TopType, Domains
  <1> DEFINE child == NewFrame(Len(files) + 1, uri, inc)
  <1>4. child \in Frames /\ child.cond = <<>>
    BY <1>3, NewFrameType DEF NewFrame
  <1>5. frames' = Append(SetLast(frames, parent), child)
    BY <1>2 DEF SpliceInclude
  <1> HIDE DEF child
  <1>6. /\ Len(frames) \in Nat \ {0}
        /\ DOMAIN frames = 1 .. Len(frames) /\ DOMAIN frames' = 1 .. Len(frames) + 1
        /\ frames'[Len(frames) + 1] = child /\ frames'[Len(frames)] = parent
        /\ \A i \in 1 .. Len(frames) - 1 : frames'[i] = frames[i]
    BY <1>3, <1>4, <1>5, FramesPushed
  <1> SUFFICES ASSUME NEW i \in 1 .. Len(frames) + 1 PROVE CondOwned(frames'[i], branches)
    BY <1>2, <1>6 DEF OwnInv
  <1>7. CASE i = Len(frames) + 1
    <2>1. DOMAIN child.cond = {}
      BY <1>4
    <2> QED
      BY <1>6, <1>7, <2>1 DEF CondOwned
  <1>8. CASE i = Len(frames)
    <2>1. CondOwned(Top, branches) /\ Top.line \in Nat /\ parent.line \in Nat
      <3>1. Len(frames) \in DOMAIN frames
        BY <1>6
      <3>2. CondOwned(Top, branches)
        BY <3>1 DEF OwnInv, Top
      <3>3. Top.line \in Nat /\ parent.line \in Nat
        BY <1>3 DEF Frames, LineIndices
      <3> QED
        BY <3>2, <3>3
    <2>2. Grown(branches, branches) /\ (Len(branches) + 1) .. Len(branches) = {}
      BY <1>3, GrownItself, LenProperties
    <2>3. Top.line <= parent.line
      BY <1>2, <2>1
    <2>4. CondOwned(parent, branches)
      BY <1>2, <1>3, <2>1, <2>2, <2>3, CondOwnedGrown
    <2> QED
      BY <1>6, <1>8, <2>4
  <1>9. CASE i \in 1 .. Len(frames) - 1
    <2>1. i \in DOMAIN frames
      BY <1>6, <1>9
    <2> QED
      BY <1>6, <1>9, <2>1 DEF OwnInv
  <1>10. Len(frames) \in Nat /\ i \in 1 .. Len(frames) + 1
    BY <1>6
  <1> QED
    BY <1>7, <1>8, <1>9, <1>10

LEMMA OwnInit == Init => OwnInv
  <1> SUFFICES ASSUME Init, NEW i \in DOMAIN frames PROVE CondOwned(frames[i], branches)
    BY DEF OwnInv
  <1> DEFINE root == NewFrame(1, "root", NoInclude)
  <1>1. root.cond = <<>>
    BY DEF NewFrame
  <1>2. frames = <<root>>
    BY DEF Init
  <1> HIDE DEF root
  <1>3. frames[i] = root /\ DOMAIN root.cond = {}
    BY <1>1, <1>2
  <1> QED
    BY <1>3 DEF CondOwned

LEMMA OwnStep ==
    ASSUME TypeOK, PrefixIsFirst, StackInv, OwnInv, [Next]_vars
    PROVE  OwnInv'
  <1>1. CASE phase \notin {"prefix", "running"}
    BY <1>1, EndIsFinal DEF vars, OwnInv
  <1>2. CASE phase \in {"prefix", "running"}
    <2>1. /\ frames # <<>> /\ branches \in Seq(Branches) /\ Grown(branches, branches)
          /\ phase = "prefix" => Top.file = 1
      BY <1>2, TopType, Domains, GrownItself DEF PrefixIsFirst, StackInv, Top
    <2>2. CASE Idle
      BY <2>2 DEF Idle, OwnInv
    <2>3. CASE Moves
      BY <2>1, <2>3, OwnSame DEF Moves
    <2>4. CASE Conditional
      <3>1. phase = "running" /\ Top.line < MaxFileLines
        BY <2>4 DEF Conditional
      <3>2. CASE AlternatesBeyond
        <4>1. SkipLine /\ branches' = CloseBranch
          BY <3>2 DEF AlternatesBeyond, OverflowAlternative
        <4>2. Top.cond \in Seq(CondFrames) /\ Consume(Top.cond)
          BY <3>1, <4>1, TopType DEF SkipLine
        <4>3. \E f \in Frames : Advances(f) /\ f.cond = Top.cond
          BY <3>1, <4>2, ConsumeAdvances
        <4> QED
          BY <2>1, <3>1, <4>1, <4>3, CloseBranchGrown, OwnSame
      <3> QED
        BY <2>4, <3>1, <3>2, OpensOwned, OpensBeyondOwned, AlternatesOwned, EndsOwned
           DEF Conditional
    <2>5. CASE Splices
      BY <2>5, SplicesOwned
    <2>6. CASE FinishFrame
      <3>1. frames \in Seq(Frames) /\ frames' = Pop(frames) /\ UNCHANGED branches
        BY <2>6, Domains DEF FinishFrame, FileLeft
      <3>2. /\ DOMAIN frames = 1 .. Len(frames) /\ DOMAIN frames' = 1 .. Len(frames) - 1
            /\ \A i \in 1 .. Len(frames) - 1 : frames'[i] = frames[i]
            /\ Len(frames) \in Nat \ {0}
        BY <2>1, <3>1, FramesPopped
      <3>3. \A i \in 1 .. Len(frames) - 1 : i \in DOMAIN frames
        BY <3>2
      <3> QED
        BY <3>1, <3>2, <3>3 DEF OwnInv
    <2> QED
      BY <2>1, <2>2, <2>3, <2>4, <2>5, <2>6, StepKinds
  <1> QED
    BY <1>1, <1>2

LEMMA OwnAlways == Spec => []OwnInv
  <1>1. TypeOK /\ NestInv /\ TreeInv /\ OwnInv /\ [Next]_vars => OwnInv'
    BY OwnStep DEF TreeInv, NestInv
  <1> QED
    BY <1>1, OwnInit, TypeCorrect, NestAlways, TreeAlways, PTL DEF Spec

\* closeBranch never closes the branch of another conditional, for any files
\* and limits: an open conditional within the limit points at the last branch
\* recorded for its file and depth (openBranch).
THEOREM OpenBranchIsAlwaysOwn == Spec => []OpenBranchIsOwn
  <1>1. ASSUME TypeOK, OwnInv
        PROVE  OpenBranchIsOwn
    <2>1. DOMAIN branches = 1 .. Len(branches)
      BY <1>1, Domains
    <2> QED
      BY <1>1, <2>1 DEF OwnInv, CondOwned, OwnsBranch, OpenBranchIsOwn
  <1> QED
    BY <1>1, TypeCorrect, OwnAlways, PTL

---------------------------------------------------------------------------
(* The branches of a conditional exclude each other and tile its text. *)

ExclusiveIn(bs) ==
    \A i, j \in 1 .. Len(bs) : SameIn(bs, i, j) => ~(bs[i].active /\ bs[j].active)

\* Branch j is the next one of the conditional after branch i.
NextIn(bs, i, j) ==
    SameIn(bs, i, j) /\ \A k \in (i + 1) .. (j - 1) : ~SameIn(bs, i, k)

TileIn(bs) ==
    /\ \A i \in 1 .. Len(bs) : bs[i].from <= bs[i].to
    /\ \A i, j \in 1 .. Len(bs) : NextIn(bs, i, j) => bs[i].to + 1 = bs[j].from

\* Closing a branch selects none.
LEMMA ExclusiveClosed ==
    ASSUME NEW bs \in Seq(Branches), NEW bs2 \in Seq(Branches), Grown(bs, bs2),
           Len(bs2) = Len(bs), ExclusiveIn(bs)
    PROVE  ExclusiveIn(bs2)
  <1> SUFFICES ASSUME NEW i \in 1 .. Len(bs), NEW j \in 1 .. Len(bs), SameIn(bs2, i, j)
               PROVE  ~(bs2[i].active /\ bs2[j].active)
    BY DEF ExclusiveIn
  <1>1. SameIn(bs, i, j)
    BY SameGrown
  <1>2. bs2[i].active = bs[i].active /\ bs2[j].active = bs[j].active
    BY DEF Grown
  <1> QED
    BY <1>1, <1>2 DEF ExclusiveIn

\* A branch added excludes the ones before it when it is not selected after
\* a selected one.
LEMMA ExclusiveAdded ==
    ASSUME NEW bs \in Seq(Branches), NEW x \in Branches, ExclusiveIn(bs),
           \A i \in 1 .. Len(bs) :
              SameIn(Append(bs, x), i, Len(bs) + 1) => ~(bs[i].active /\ x.active)
    PROVE  ExclusiveIn(Append(bs, x))
  <1> DEFINE bs2 == Append(bs, x)
             n == Len(bs)
  <1>1. /\ bs2 \in Seq(Branches) /\ Len(bs2) = n + 1 /\ bs2[n + 1] = x /\ n \in Nat
        /\ Grown(bs, bs2) /\ \A k \in 1 .. n : bs2[k] = bs[k]
    BY GrownItself, GrownAppend, LenProperties
  <1> HIDE DEF bs2
  <1> SUFFICES ASSUME NEW i \in 1 .. n + 1, NEW j \in 1 .. n + 1, SameIn(bs2, i, j)
               PROVE  ~(bs2[i].active /\ bs2[j].active)
    BY <1>1 DEF ExclusiveIn, bs2
  <1>2. i \in 1 .. n
    BY <1>1 DEF SameIn
  <1>3. CASE j \in 1 .. n
    <2>1. SameIn(bs, i, j)
      BY <1>1, <1>2, <1>3, SameGrown
    <2> QED
      BY <1>1, <1>2, <1>3, <2>1 DEF ExclusiveIn
  <1>4. CASE j = n + 1
    BY <1>1, <1>2, <1>4 DEF bs2
  <1> QED
    BY <1>1, <1>3, <1>4

\* Closing the last branch of a conditional where it ends keeps the tiling.
LEMMA TileClosed ==
    ASSUME NEW bs \in Seq(Branches), NEW bs2 \in Seq(Branches), Grown(bs, bs2),
           Len(bs2) = Len(bs), TileIn(bs), NEW o, NEW line \in Nat,
           \A k \in 1 .. Len(bs) : bs2[k].to = IF k = o THEN line ELSE bs[k].to,
           o \in 1 .. Len(bs) => bs[o].from <= line,
           \A j \in 1 .. Len(bs) : ~SameIn(bs, o, j)
    PROVE  TileIn(bs2)
  <1>1. ASSUME NEW i \in 1 .. Len(bs)
        PROVE  bs2[i].from <= bs2[i].to
    <2>1. bs2[i].from = bs[i].from /\ bs[i].from <= bs[i].to
      BY DEF Grown, TileIn
    <2> QED
      BY <2>1
  <1>2. ASSUME NEW i \in 1 .. Len(bs), NEW j \in 1 .. Len(bs), NextIn(bs2, i, j)
        PROVE  bs2[i].to + 1 = bs2[j].from
    <2>1. SameIn(bs, i, j)
      BY <1>2, SameGrown DEF NextIn
    <2>2. i # o
      BY <2>1
    <2>3. ASSUME NEW k \in (i + 1) .. (j - 1)
          PROVE  ~SameIn(bs, i, k)
      <3>1. k \in 1 .. Len(bs)
        BY LenProperties
      <3> QED
        BY <1>2, <3>1, SameGrown DEF NextIn
    <2>4. bs[i].to + 1 = bs[j].from
      BY <2>1, <2>3 DEF TileIn, NextIn
    <2>5. bs2[i].to = bs[i].to /\ bs2[j].from = bs[j].from
      BY <2>2 DEF Grown
    <2> QED
      BY <2>4, <2>5
  <1> QED
    BY <1>1, <1>2 DEF TileIn

\* A branch added keeps the tiling when it begins where the last one of its
\* conditional ends.
LEMMA TileAdded ==
    ASSUME NEW bs \in Seq(Branches), NEW x \in Branches, TileIn(bs), x.from <= x.to,
           \A i \in 1 .. Len(bs) :
              NextIn(Append(bs, x), i, Len(bs) + 1) => bs[i].to + 1 = x.from
    PROVE  TileIn(Append(bs, x))
  <1> DEFINE bs2 == Append(bs, x)
             n == Len(bs)
  <1>1. /\ bs2 \in Seq(Branches) /\ Len(bs2) = n + 1 /\ bs2[n + 1] = x /\ n \in Nat
        /\ Grown(bs, bs2) /\ \A k \in 1 .. n : bs2[k] = bs[k]
    BY GrownItself, GrownAppend, LenProperties
  <1> HIDE DEF bs2
  <1>2. ASSUME NEW i \in 1 .. n + 1
        PROVE  bs2[i].from <= bs2[i].to
    <2>1. i \in 1 .. n \/ i = n + 1
      BY <1>1
    <2> QED
      BY <1>1, <2>1 DEF TileIn
  <1>3. ASSUME NEW i \in 1 .. n + 1, NEW j \in 1 .. n + 1, NextIn(bs2, i, j)
        PROVE  bs2[i].to + 1 = bs2[j].from
    <2>1. i \in 1 .. n
      BY <1>1, <1>3 DEF SameIn, NextIn
    <2>2. CASE j \in 1 .. n
      <3>1. SameIn(bs, i, j)
        BY <1>1, <1>3, <2>1, <2>2, SameGrown DEF NextIn
      <3>2. ASSUME NEW k \in (i + 1) .. (j - 1)
            PROVE  ~SameIn(bs, i, k)
        <4>1. k \in 1 .. n
          BY <1>1, <2>1, <2>2
        <4> QED
          BY <1>1, <1>3, <2>1, <4>1, SameGrown DEF NextIn
      <3>3. bs[i].to + 1 = bs[j].from
        BY <2>1, <2>2, <3>1, <3>2 DEF TileIn, NextIn
      <3> QED
        BY <1>1, <2>1, <2>2, <3>3
    <2>3. CASE j = n + 1
      BY <1>1, <1>3, <2>1, <2>3 DEF bs2
    <2> QED
      BY <1>1, <2>2, <2>3
  <1> QED
    BY <1>1, <1>2, <1>3 DEF TileIn, bs2

\* Every step leaves the branches alone, or is one of the conditional
\* directives that records or closes one.
LEMMA BranchSteps ==
    ASSUME TypeOK, PrefixIsFirst, StackInv, [Next]_vars
    PROVE  \/ UNCHANGED branches
           \/ /\ phase = "running"
              /\ \/ Opens
                 \/ Alternates
                 \/ Top.cond # <<>> /\ branches' = CloseBranch
  <1>1. CASE phase \notin {"prefix", "running"}
    BY <1>1, EndIsFinal DEF vars
  <1>2. CASE phase \in {"prefix", "running"}
    <2>1. phase = "prefix" => Top.file = 1
      BY TopType DEF PrefixIsFirst, StackInv, Top
    <2>2. Conditional => /\ phase = "running"
                         /\ \/ UNCHANGED branches
                            \/ Opens
                            \/ Alternates
                            \/ Top.cond # <<>> /\ branches' = CloseBranch
      BY DEF Conditional, OpensBeyond, AlternatesBeyond, OverflowAlternative, Ends, Endif
    <2> QED
      BY <2>1, <2>2, StepKinds DEF Idle, Moves, Splices, FinishFrame, FileLeft
  <1> QED
    BY <1>1, <1>2

\* The branch #if records begins a conditional.
LEMMA OpensBranch ==
    ASSUME TypeOK, phase = "running", Opens
    PROVE  \E x \in Branches :
              /\ branches' = Append(branches, x)
              /\ x.directive = "if" /\ x.from <= x.to
              /\ \A i \in 1 .. Len(branches) :
                    ~SameIn(Append(branches, x), i, Len(branches) + 1)
  <1>1. PICK parent \in BOOLEAN, active \in BOOLEAN :
           branches' = Append(branches, Branch("if", Len(Top.cond) + 1, active, parent))
    BY DEF Opens
  <1> DEFINE x == Branch("if", Len(Top.cond) + 1, active, parent)
  <1>2. /\ branches \in Seq(Branches) /\ Len(branches) \in Nat
        /\ Top.line \in Nat /\ Len(Top.cond) + 1 \in Nat
    BY NextIndexFacts
  <1>3. x \in Branches /\ x.directive = "if" /\ x.from = x.to /\ x.from \in Nat
    BY <1>2, BranchType DEF Branch
  <1> HIDE DEF x
  <1>4. Append(branches, x)[Len(branches) + 1] = x
    BY <1>2, <1>3, AppendProperties
  <1>5. \A i \in 1 .. Len(branches) : i \in Nat /\ Len(branches) + 1 \in Nat
    BY <1>2
  <1>6. \A i \in 1 .. Len(branches) : ~SameIn(Append(branches, x), i, Len(branches) + 1)
    BY <1>3, <1>4, <1>5, FirstIsAlone
  <1>7. x.from <= x.to
    BY <1>3
  <1> QED
    BY <1>1, <1>3, <1>6, <1>7 DEF x

\* No later branch belongs to the conditional of an open branch.
LEMMA OpenIsLast ==
    ASSUME NEW bs \in Seq(Branches), NEW file, NEW line, NEW c, NEW j \in Nat,
           OwnsBranch(file, line, c, j, bs), NEW k \in 1 .. Len(bs)
    PROVE  ~SameIn(bs, c.open, k)
  <1> SUFFICES ASSUME SameIn(bs, c.open, k) PROVE FALSE
    OBVIOUS
  <1>1. /\ c.open \in Nat /\ c.open < k /\ Len(bs) \in Nat
        /\ bs[k].file = file /\ bs[k].depth = j
    BY LenProperties DEF SameIn, OwnsBranch
  <1>2. k \in (c.open + 1) .. Len(bs)
    BY <1>1
  <1>3. j > j
    BY <1>1, <1>2 DEF OwnsBranch
  <1> QED
    BY <1>3

\* No step selects a second branch of a conditional.
LEMMA ExclusiveStep ==
    ASSUME TypeOK, PrefixIsFirst, StackInv, OwnInv, ExclusiveIn(branches), [Next]_vars
    PROVE  ExclusiveIn(branches')
  <1>1. CASE UNCHANGED branches
    BY <1>1
  <1>2. CASE phase = "running" /\ Opens
    <2>1. PICK x \in Branches :
              /\ branches' = Append(branches, x)
              /\ \A i \in 1 .. Len(branches) :
                    ~SameIn(Append(branches, x), i, Len(branches) + 1)
      BY <1>2, OpensBranch
    <2>2. ExclusiveIn(Append(branches, x))
      BY <2>1, Domains, ExclusiveAdded
    <2> QED
      BY <2>1, <2>2
  <1>3. ASSUME phase = "running"
        PROVE  /\ CloseBranch \in Seq(Branches) /\ Len(CloseBranch) = Len(branches)
               /\ ExclusiveIn(CloseBranch)
    BY <1>3, Domains, CloseBranchGrown, ExclusiveClosed
  <1>4. CASE phase = "running" /\ Alternates
    <2>1. PICK x \in Branches :
              /\ branches' = Append(CloseBranch, x)
              /\ x.file = Top.file /\ x.depth = Len(Top.cond)
              /\ x.active => ~TopCond.taken
      BY <1>4, AlternatesBranch
    <2>2. OwnsBranch(Top.file, Top.line, TopCond, Len(Top.cond), CloseBranch)
      BY <1>4, CurrentOwned DEF Alternates
    <2>3. Top.line \in Nat /\ Len(Top.cond) \in Nat
      BY <1>4, NextIndexFacts
    <2>4. ASSUME NEW i \in 1 .. Len(CloseBranch), CloseBranch[i].active, x.active,
                 SameIn(Append(CloseBranch, x), i, Len(CloseBranch) + 1)
          PROVE  FALSE
      <3>1. i = TopCond.open \/ SameIn(CloseBranch, i, TopCond.open)
        BY <1>3, <1>4, <2>1, <2>2, <2>3, <2>4, SameAsOpen
      <3>2. TopCond.taken
        BY <2>2, <2>4, <3>1 DEF OwnsBranch
      <3> QED
        BY <2>1, <2>4, <3>2
    <2>5. ExclusiveIn(Append(CloseBranch, x))
      BY <1>3, <1>4, <2>4, ExclusiveAdded
    <2> QED
      BY <2>1, <2>5
  <1>5. CASE phase = "running" /\ branches' = CloseBranch
    BY <1>3, <1>5
  <1> QED
    BY <1>1, <1>2, <1>4, <1>5, BranchSteps

\* At most one branch of a conditional is selected, for any files and limits,
\* whatever is included or nested between its branches (handleElseif,
\* handleElse).
THEOREM BranchesAlwaysExclusive == Spec => []ExclusiveBranches
  <1>1. Init => ExclusiveIn(branches)
    <2> SUFFICES ASSUME Init PROVE 1 .. Len(branches) = {}
      BY DEF ExclusiveIn
    <2>1. Len(branches) = 0
      BY DEF Init
    <2> QED
      BY <2>1
  <1>2. /\ TypeOK /\ NestInv /\ TreeInv /\ OwnInv /\ ExclusiveIn(branches)
        /\ [Next]_vars
        => ExclusiveIn(branches)'
    <2>1. ExclusiveIn(branches') => ExclusiveIn(branches)'
      BY DEF ExclusiveIn, SameIn
    <2> QED
      BY <2>1, ExclusiveStep DEF TreeInv, NestInv
  <1>3. TypeOK /\ ExclusiveIn(branches) => ExclusiveBranches
    BY Domains DEF ExclusiveIn, SameIn, ExclusiveBranches, SameConditional
  <1> QED
    BY <1>1, <1>2, <1>3, TypeCorrect, NestAlways, TreeAlways, OwnAlways, PTL DEF Spec

TileInv == ~depthLimitWarned => TileIn(branches)

\* Every branch ends where the next one of its conditional begins.
LEMMA TileStep ==
    ASSUME TypeOK, PrefixIsFirst, StackInv, OwnInv, OverflowInv, TileInv, [Next]_vars
    PROVE  TileInv'
  <1>0. TileIn(branches') => TileIn(branches)'
    BY DEF TileIn, NextIn, SameIn
  <1> SUFFICES ASSUME ~depthLimitWarned' PROVE TileIn(branches')
    BY <1>0 DEF TileInv
  <1>1. ~depthLimitWarned /\ ~HasOverflow /\ TileIn(branches)
    BY FlagStays DEF TileInv, OverflowInv
  <1>2. CASE UNCHANGED branches
    BY <1>1, <1>2
  <1>3. CASE phase = "running" /\ Opens
    <2>1. PICK x \in Branches :
              /\ branches' = Append(branches, x) /\ x.from <= x.to
              /\ \A i \in 1 .. Len(branches) :
                    ~SameIn(Append(branches, x), i, Len(branches) + 1)
      BY <1>3, OpensBranch
    <2>2. TileIn(Append(branches, x))
      BY <1>1, <2>1, Domains, TileAdded DEF NextIn
    <2> QED
      BY <2>1, <2>2
  <1>4. ASSUME phase = "running", Top.cond # <<>>
        PROVE  ~TopCond.overflow
    <2>1. /\ frames # <<>> /\ Len(Top.cond) \in Nat \ {0}
          /\ DOMAIN Top.cond = 1 .. Len(Top.cond) /\ TopCond = Top.cond[Len(Top.cond)]
      BY <1>4, NextIndexFacts
    <2>2. Len(frames) \in DOMAIN frames /\ Len(Top.cond) \in DOMAIN Top.cond
      BY <2>1, Domains, EmptySeq
    <2> QED
      BY <1>1, <2>1, <2>2 DEF HasOverflow, Top
  <1>5. ASSUME phase = "running", Top.cond # <<>>
        PROVE  /\ CloseBranch \in Seq(Branches) /\ Len(CloseBranch) = Len(branches)
               /\ TileIn(CloseBranch)
               /\ TopCond.open \in 1 .. Len(branches)
               /\ CloseBranch[TopCond.open].to = Top.line
    <2>1. /\ branches \in Seq(Branches)
          /\ CloseBranch \in Seq(Branches) /\ Len(CloseBranch) = Len(branches)
          /\ Grown(branches, CloseBranch)
          /\ \A k \in 1 .. Len(branches) :
                CloseBranch[k].to = IF k = TopCond.open THEN Top.line ELSE branches[k].to
      BY <1>5, Domains, CloseBranchGrown
    <2>2. OwnsBranch(Top.file, Top.line, TopCond, Len(Top.cond), branches)
      BY <1>4, <1>5, CurrentOwned
    <2>3. Top.line \in Nat /\ Len(Top.cond) \in Nat
      BY <1>5, NextIndexFacts
    <2>4. \A j \in 1 .. Len(branches) : ~SameIn(branches, TopCond.open, j)
      BY <2>1, <2>2, <2>3, OpenIsLast
    <2>5. /\ TopCond.open \in 1 .. Len(branches)
          /\ branches[TopCond.open].from <= Top.line
      BY <2>2 DEF OwnsBranch
    <2>6. TileIn(CloseBranch)
      BY <1>1, <2>1, <2>3, <2>4, <2>5, TileClosed
    <2> QED
      BY <2>1, <2>5, <2>6
  <1>6. CASE phase = "running" /\ Alternates
    <2>1. PICK x \in Branches :
              /\ branches' = Append(CloseBranch, x)
              /\ x.file = Top.file /\ x.depth = Len(Top.cond)
              /\ x.from = Top.line + 1 /\ x.to = Top.line + 1
      BY <1>6, AlternatesBranch
    <2>2. OwnsBranch(Top.file, Top.line, TopCond, Len(Top.cond), CloseBranch)
      BY <1>6, CurrentOwned DEF Alternates
    <2>3. Top.line \in Nat /\ Len(Top.cond) \in Nat /\ Top.cond # <<>>
      BY <1>6, NextIndexFacts DEF Alternates
    <2>4. /\ CloseBranch \in Seq(Branches) /\ TileIn(CloseBranch)
          /\ CloseBranch[TopCond.open].to = Top.line
          /\ TopCond.open \in 1 .. Len(CloseBranch) /\ Len(CloseBranch) \in Nat
      BY <1>5, <1>6, <2>3, LenProperties
    <2> DEFINE bs == CloseBranch
               bs2 == Append(bs, x)
               n == Len(bs)
               o == TopCond.open
    <2>5. ASSUME NEW i \in 1 .. n, NextIn(bs2, i, n + 1)
          PROVE  i = o
      <3> SUFFICES ASSUME i # o PROVE FALSE
        OBVIOUS
      <3>1. SameIn(bs2, i, n + 1)
        BY <2>5 DEF NextIn
      <3>2. SameIn(bs, i, o)
        BY <2>1, <2>2, <2>3, <2>4, <3>1, SameAsOpen
      <3>3. bs2 \in Seq(Branches) /\ Grown(bs, bs2)
        BY <2>4, GrownItself, GrownAppend
      <3>4. SameIn(bs2, i, o)
        BY <2>4, <3>2, <3>3, SameGrown
      <3>5. i < o
        BY <3>2 DEF SameIn
      <3> HIDE DEF bs2, n, o, bs
      <3>6. o \in (i + 1) .. ((n + 1) - 1)
        BY <2>4, <3>5 DEF n, o, bs
      <3> QED
        BY <2>5, <3>4, <3>6 DEF NextIn
    <2>6. bs[o].to + 1 = x.from /\ x.from <= x.to
      BY <2>1, <2>3, <2>4
    <2>7. TileIn(Append(CloseBranch, x))
      BY <2>4, <2>5, <2>6, TileAdded
    <2> QED
      BY <2>1, <2>7
  <1>7. CASE phase = "running" /\ Top.cond # <<>> /\ branches' = CloseBranch
    BY <1>5, <1>7
  <1> QED
    BY <1>2, <1>3, <1>6, <1>7, BranchSteps

\* As long as no conditional was too deep the branches of a conditional tile
\* its text, for any files and limits (openBranch, closeBranch).
THEOREM BranchesAlwaysTile == Spec => []BranchesTile
  <1>1. Init => TileInv
    <2> SUFFICES ASSUME Init PROVE 1 .. Len(branches) = {}
      BY DEF TileInv, TileIn
    <2>1. Len(branches) = 0
      BY DEF Init
    <2> QED
      BY <2>1
  <1>2. /\ TypeOK /\ NestInv /\ TreeInv /\ OwnInv /\ OverflowInv /\ TileInv
        /\ [Next]_vars
        => TileInv'
    BY TileStep DEF TreeInv, NestInv
  <1>3. TypeOK /\ TileInv => BranchesTile
    BY Domains DEF TileInv, TileIn, NextIn, SameIn, BranchesTile, SameConditional
  <1> QED
    BY <1>1, <1>2, <1>3, TypeCorrect, NestAlways, TreeAlways, OwnAlways, OverflowAlways,
       PTL DEF Spec

============================================================================
