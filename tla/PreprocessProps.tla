------------------------- MODULE PreprocessProps -------------------------
(***************************************************************************)
(* What one pass of the engine promises: the correctness properties of     *)
(* module Preprocess.                                                      *)
(***************************************************************************)
EXTENDS Preprocess

MaxOf(a, b) == IF a > b THEN a ELSE b

FileIndices == 1 .. MaxOf(MaxFiles, 1)
LineIndices == 0 .. MaxFileLines

IncludeRecords ==
    [file : Nat, path : Paths \cup {"prefix", ""}, optional : BOOLEAN,
     resolved : BOOLEAN, child : Nat]

FileRecords ==
    [uri : Uris \cup {"root"}, path : Paths \cup {"prefix", ""}, depth : Nat]

CondFrames ==
    [parentActive : BOOLEAN, branchActive : BOOLEAN, taken : BOOLEAN,
     open : Nat \ {0}, overflow : BOOLEAN]

Frames ==
    [file : Nat, uri : Uris \cup {"root"}, line : LineIndices,
     cond : Seq(CondFrames), endinput : BOOLEAN, inc : IncludeRecords]

Branches ==
    [file : Nat, directive : {"if", "elseif", "else"}, depth : Nat,
     from : Nat, to : Nat, active : BOOLEAN, evaluated : BOOLEAN]

FramesTypeOK ==
    /\ frames \in Seq(Frames)
    /\ frames = <<>> <=> phase \in {"ok", "error"}
    /\ phase \in {"prefix", "running", "ok", "error"}

SplicesTypeOK ==
    /\ files \in Seq(FileRecords)
    /\ includeStack \in [Uris -> Int]
    /\ includes \in Seq(IncludeRecords)

TablesTypeOK ==
    /\ macros \in [Names -> Bodies \cup {NoMacro}]
    /\ symbols \subseteq Names
    /\ declared \subseteq Names

OutputTypeOK ==
    /\ branches \in Seq(Branches)
    /\ outputTokens \in Nat
    /\ <<truncated, stopped, depthLimitWarned>> \in BOOLEAN \X BOOLEAN \X BOOLEAN
    /\ <<ctxDone, cancelled, condCancelled>> \in BOOLEAN \X BOOLEAN \X BOOLEAN

\* The state of the engine is well typed; the frame stack is empty only when
\* the pass is over (engine.go, frame, condFrame, Branch, Include, FileInfo).
TypeOK == FramesTypeOK /\ SplicesTypeOK /\ TablesTypeOK /\ OutputTypeOK

---------------------------------------------------------------------------
(* Conditional compilation. *)

Nested(c) ==
    \A j \in DOMAIN c :
        /\ c[j].parentActive = (j = 1 \/ c[j-1].branchActive)
        /\ c[j].branchActive => c[j].parentActive /\ c[j].taken
        /\ c[j].overflow <=> j > MaxConditionalDepth
        /\ c[j].overflow => c[j].taken

\* Text is live only where every enclosing branch is: each open conditional
\* of a file remembers whether the text around its #if was live, a selected
\* branch has live text around it and is recorded as taken, and the
\* conditionals beyond the limit are exactly those too deep (handleIf,
\* handleElseif, handleElse).
ConditionalsNest == \A i \in DOMAIN frames : Nested(frames[i].cond)

\* A file waiting for the file it includes is live and has seen no #endinput,
\* so dead text never includes anything and reading resumes in live text
\* (handleInclude, handleEndinput, runContents).
SuspendedFilesAreLive ==
    \A i \in 1 .. Len(frames) - 1 : Active(frames[i]) /\ ~frames[i].endinput

\* Branches i and j belong to the same #if ... #endif.
SameConditional(i, j) ==
    /\ i < j
    /\ branches[i].file = branches[j].file
    /\ branches[i].depth = branches[j].depth
    /\ \A k \in (i + 1) .. j :
          ~ /\ branches[k].file = branches[i].file
            /\ branches[k].depth = branches[i].depth
            /\ branches[k].directive = "if"

\* At most one branch of a conditional is selected, whatever is included
\* or nested between its branches (handleElseif, handleElse: taken).
ExclusiveBranches ==
    \A i, j \in DOMAIN branches :
        SameConditional(i, j) => ~(branches[i].active /\ branches[j].active)

\* An open conditional within the limit points at the last branch recorded
\* for its file and depth, and agrees with it on being selected: closeBranch
\* never closes the branch of another conditional (openBranch).
OpenBranchIsOwn ==
    \A i \in DOMAIN frames : LET f == frames[i] IN
        \A j \in DOMAIN f.cond : LET c == f.cond[j] IN
            ~c.overflow =>
                /\ c.open \in DOMAIN branches
                /\ branches[c.open].file = f.file
                /\ branches[c.open].depth = j
                /\ branches[c.open].active = c.branchActive
                /\ \A k \in (c.open + 1) .. Len(branches) :
                      branches[k].file = f.file => branches[k].depth > j

\* As long as no conditional was too deep, the branches of a conditional tile
\* its text: each ends at the directive that begins the next one, and a branch
\* never ends before it begins (openBranch, closeBranch).
BranchesTile ==
    ~depthLimitWarned =>
        /\ \A i \in DOMAIN branches : branches[i].from <= branches[i].to
        /\ \A i, j \in DOMAIN branches :
              SameConditional(i, j) /\ (\A k \in (i + 1) .. (j - 1) : ~SameConditional(i, k))
                  => branches[i].to + 1 = branches[j].from

\* A file with a conditional too deep always gets the diagnostic for it,
\* although one flag serves both depth limits (handleIf, reportExpansionDepth).
OverflowIsReported ==
    (\E i \in DOMAIN frames : \E j \in DOMAIN frames[i].cond :
        frames[i].cond[j].overflow)
        => "conditional-depth-limit" \in diags

---------------------------------------------------------------------------
(* Dead text and limits. *)

Alive == \A i \in DOMAIN frames :
            \A j \in DOMAIN frames[i].cond : frames[i].cond[j].branchActive

\* A line of dead text changes nothing but the conditionals themselves, in
\* the current file and however deep in files included from live text
\* (every handler tests currentActive).
DeadTextHasNoEffect ==
    [][~Alive => UNCHANGED <<tables, files, outputTokens>>]_vars

\* Once a pass is truncated no token is emitted and no name declared any
\* more, although its directives still run (appendOut).
TruncatedOutputIsFinal ==
    [][truncated => UNCHANGED <<outputTokens, declared>> /\ truncated']_vars

\* A pass does not end in silence: a truncated result says which limit
\* truncated it, a pass that stops early is truncated or cancelled, and one
\* whose cancellation was noticed by a poll or by the tokenizer of an include,
\* and only after the caller's, gives no result (Result.Truncated, runPass).
EndIsReported ==
    /\ truncated => diags \cap {"conditional-depth-limit", "include-depth-limit",
                                "output-size-limit", "expansion-depth-limit"} # {}
    /\ stopped => truncated \/ cancelled
    /\ cancelled => ctxDone /\ phase # "ok"
    /\ outputTokens <= MaxOutputTokens + 1

---------------------------------------------------------------------------
(* Includes. *)

\* Splices nest no deeper than the limit, the root not counted, whatever
\* files include each other and however often (handleInclude).
IncludeDepthBounded == Len(frames) <= MaxIncludeDepth + 1

\* The include stack counts exactly the files being spliced, and no file is
\* spliced more than twice at a time, the implicit prefix included
\* (handleInclude, spliceInclude).
IncludeStackExact ==
    \A u \in Uris :
        /\ includeStack[u] =
              Cardinality({i \in 2 .. Len(frames) : frames[i].uri = u})
        /\ includeStack[u] <= 2

\* The includes and the files of a result form one tree: every file read
\* completely is the child of exactly one include, which belongs to the file
\* that named it, one level up; a file still being read is no child yet
\* (handleInclude appends the record only after the splice returns).
IncludesFormTree ==
    /\ \A k \in 2 .. Len(files) :
          LET parents == {i \in DOMAIN includes : includes[i].child = k} IN
          IF \E i \in DOMAIN frames : frames[i].file = k
          THEN parents = {}
          ELSE Cardinality(parents) = 1
    /\ \A i \in DOMAIN includes :
          includes[i].child # 0 =>
              /\ includes[i].resolved
              /\ includes[i].child \in DOMAIN files
              /\ files[includes[i].child].depth = files[includes[i].file].depth + 1

\* In compatibility mode, when nothing is undefined, no guard symbol is
\* spliced twice, not even by a file that includes itself (handleInclude sets
\* the guard before it splices).
CompatIncludesOnce ==
    Compatibility /\ "undef" \notin Kinds =>
        \A i, j \in 2 .. Len(files) :
            i # j /\ "prefix" \notin {files[i].path, files[j].path} =>
                CompatName[files[i].path] # CompatName[files[j].path]

---------------------------------------------------------------------------
(* The end of a pass. *)

\* What is left to do: of the flags a pass sets once, and of each file being
\* read, its lines and its end.
Left(b) == IF b THEN 1 ELSE 0

Work(level) ==
    IF level = 0 THEN Left(phase = "prefix") + Left(~stopped) + Left(~ctxDone)
    ELSE IF level \in DOMAIN frames THEN MaxFileLines - frames[level].line + 1
    ELSE 0

\* Why a pass ends, whatever the files say and include: every step leaves less
\* to do at some level and no more at those before it; what an include adds
\* lies deeper, and the limit of depth ends that (runContents, handleInclude).
StepDescends ==
    \E level \in 0 .. MaxIncludeDepth + 1 :
        /\ Work(level)' < Work(level)
        /\ \A l \in 0 .. level - 1 : Work(l)' <= Work(l)
EveryStepDescends == [][StepDescends]_vars

\* Every pass ends, whatever the files say and include (Run: "bounded by
\* Options' limits").
Terminates == <>(phase \in {"ok", "error"})

============================================================================
