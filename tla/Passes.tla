------------------------------- MODULE Passes -------------------------------
(* The passes of preprocess.Run (preprocess/engine.go:416): a discovery pass,
   a second one if a tagged function was used before its declaration, and the
   pass whose result counts, each seeded with the functions of the one before.

   A line of the file is a statement, whose tokens the declaration tracker
   observes one by one when the line is live, or #if, #else, #endif. The file
   is chosen line by line in the first pass and read again in the others. *)
EXTENDS Conditions

CONSTANTS Statements,   \* the statements a file is made of: a sequence
          Questions,    \* the conditions of its #if lines: a sequence
          MaxLines      \* bound: lines of a file

(* A statement: its tokens, and what they say by the rules of the language.
   where: "global" or "local"; opens, closes: blocks; vars, params: names it
   declares; funcs: functions it declares or calls; meanings: name |-> value;
   alias: name |-> name of the same value; extents: array |-> dimensions;
   cells: enum field |-> cells; misread: names of which the tracker keeps
   another account; once: whether a file may hold it once only. *)
ASSUME PassesAssumption ==
  /\ MaxLines \in Nat
  /\ \A i \in DOMAIN Statements :
       /\ \A k \in DOMAIN Statements[i].tokens : Statements[i].tokens[k] \in Token
       /\ Statements[i].where \in {"global", "local"}

VARIABLES file,       \* the lines chosen so far
          pos,        \* the line being read
          at,         \* how many tokens of it are observed
          conds,      \* open conditionals
          pass,       \* 1, 2: discovery; 3: the result; 4: done
          seeds,      \* the functions this pass began with
          answers,    \* line of an evaluated #if |-> whether it selected
          previous,   \* answers and seeds of the pass before
          world       \* what the live lines say: kept for the properties only

reader == <<file, pos, at, conds>>
passes == <<pass, seeds, answers, previous>>
vars == <<tracker, reader, passes, world>>

Lines == [type : {"code"}, index : DOMAIN Statements]
         \cup [type : {"if"}, index : DOMAIN Questions]
         \cup [type : {"else", "endif"}, index : {0}]

Live == conds # <<>> => Last(conds).live

(* Blocks open before a line, whether live or not: both branches of a
   conditional balance, so every pass sees the same number. *)
BlocksBefore(k) ==
  LET code == {i \in 1 .. k - 1 : file[i].type = "code"}
  IN  MapThenSumSet(LAMBDA i : Statements[file[i].index].opens - Statements[file[i].index].closes, code)

Floor == IF conds = <<>> THEN 0 ELSE Last(conds).blocks

(* The files considered: blocks and conditionals nest. *)
Fits(l) ==
  CASE l.type = "code" ->
         LET s == Statements[l.index]
         IN  /\ (s.where = "global") <=> (BlocksBefore(pos) = 0)
             /\ s.closes > s.opens => BlocksBefore(pos) > Floor
             /\ s.once => \A i \in DOMAIN file : file[i] # l
    [] l.type = "if" -> Len(conds) < 2
    [] l.type = "else" -> /\ conds # <<>>
                          /\ ~Last(conds).alternative
                          /\ BlocksBefore(pos) = Floor
    [] OTHER -> conds # <<>> /\ BlocksBefore(pos) = Floor

(* The line at pos: read again, or chosen and appended in the first pass. *)
LineIs(l) ==
  \/ /\ pos <= Len(file)
     /\ file[pos] = l
     /\ UNCHANGED file
  \/ /\ pos > Len(file)
     /\ pass = 1
     /\ Len(file) < MaxLines
     /\ l \in Lines
     /\ Fits(l)
     /\ file' = Append(file, l)

-----------------------------------------------------------------------------
(* What a statement adds to the world. *)

Merge(f, g) == [x \in DOMAIN f \cup DOMAIN g |-> IF x \in DOMAIN g THEN g[x] ELSE f[x]]

NewWorld(known) ==
  [blocks |-> <<{}>>, funcs |-> known, meanings |-> Nothing, extents |-> Nothing,
   cells |-> Nothing, unclear |-> {}]

Understood(w, s) ==
  LET clear == \A n \in DOMAIN s.alias : s.alias[n] \in DOMAIN w.meanings
      declared == [w.blocks EXCEPT ![Len(w.blocks)] = @ \cup s.vars]
      opened == IF s.opens = 0 THEN declared ELSE Append(declared, s.params)
  IN  [blocks |-> IF s.closes = 0 THEN opened ELSE Front(opened),
       funcs |-> w.funcs \cup s.funcs,
       meanings |-> IF ~clear THEN w.meanings
                    ELSE Merge(Merge(w.meanings, s.meanings),
                               [n \in DOMAIN s.alias |-> w.meanings[s.alias[n]]]),
       extents |-> Merge(w.extents, s.extents),
       cells |-> Merge(w.cells, s.cells),
       unclear |-> IF clear THEN w.unclear ELSE w.unclear \cup DOMAIN s.alias]

-----------------------------------------------------------------------------
(* A token of a live statement. *)
ObserveToken ==
  /\ pass < 4
  /\ \E l \in IF at > 0 THEN {file[pos]} ELSE Lines :
       /\ l.type = "code"
       /\ Live
       /\ LineIs(l)
       /\ LET s == Statements[l.index]
          IN  /\ observe(s.tokens[at + 1])
              /\ IF at + 1 < Len(s.tokens)
                 THEN at' = at + 1 /\ UNCHANGED <<pos, world>>
                 ELSE at' = 0 /\ pos' = pos + 1 /\ world' = Understood(world, s)
  /\ UNCHANGED <<conds, passes>>

Directive == pass < 4 /\ at = 0 /\ ~overflowed

(* A dead statement is not written, so the tracker does not see it. *)
SkipStatement ==
  /\ Directive
  /\ ~Live
  /\ \E l \in Lines : l.type = "code" /\ LineIs(l)
  /\ pos' = pos + 1
  /\ UNCHANGED <<tracker, at, conds, passes, world>>

HandleIf ==
  /\ Directive
  /\ \E l \in Lines :
       /\ l.type = "if"
       /\ LineIs(l)
       /\ \E answer \in {Live /\ evalCondition(Questions[l.index]).value # 0} :
            /\ conds' = Append(conds, [parent |-> Live, live |-> answer, taken |-> answer,
                                       blocks |-> BlocksBefore(pos), alternative |-> FALSE])
            /\ answers' = IF Live THEN Put(answers, pos, answer) ELSE answers
  /\ pos' = pos + 1
  /\ UNCHANGED <<tracker, at, pass, seeds, previous, world>>

HandleElse ==
  /\ Directive
  /\ conds # <<>>
  /\ LineIs([type |-> "else", index |-> 0])
  /\ conds' = [conds EXCEPT ![Len(conds)] =
                 [@ EXCEPT !.live = conds[Len(conds)].parent /\ ~conds[Len(conds)].taken,
                           !.taken = TRUE, !.alternative = TRUE]]
  /\ pos' = pos + 1
  /\ UNCHANGED <<tracker, at, passes, world>>

HandleEndif ==
  /\ Directive
  /\ conds # <<>>
  /\ LineIs([type |-> "endif", index |-> 0])
  /\ conds' = Front(conds)
  /\ pos' = pos + 1
  /\ UNCHANGED <<tracker, at, passes, world>>

(* A pass ends: which one is next, and what it is seeded with. *)
NextPass == CASE pass = 1 /\ needsReparse -> 2
              [] pass = 1 /\ ~needsReparse -> 3
              [] OTHER -> pass + 1

(* For a mutant: variables are inherited too. *)
SeedsOfValues == functions \cup globals

Seeds == functions

Restart(known) ==
  /\ functions' = known
  /\ declaredFuncs' = {} /\ usedBefore' = {} /\ globals' = {}
  /\ constants' = Nothing /\ arrays' = Nothing
  /\ enumSizes' = Nothing /\ enumFields' = Nothing /\ activeEnum' = NoEnum
  /\ scopes' = <<>> /\ header' = <<>> /\ parenDepth' = 0 /\ bracketDepth' = 0
  /\ pendingParams' = {} /\ pendingFunc' = FALSE
  /\ needsReparse' = FALSE /\ overflowed' = FALSE

EndPass ==
  /\ Directive
  /\ pos = Len(file) + 1
  /\ pass' = NextPass
  /\ IF pass = 3
     THEN UNCHANGED <<tracker, pos, conds, seeds, answers, previous, world>>
     ELSE /\ Restart(Seeds)
          /\ pos' = 1
          /\ conds' = <<>>
          /\ seeds' = Seeds
          /\ answers' = Nothing
          /\ previous' = [answers |-> answers, seeds |-> seeds]
          /\ world' = NewWorld(functions)
  /\ UNCHANGED <<file, at>>

Init ==
  /\ NewTracker({})
  /\ file = <<>> /\ pos = 1 /\ at = 0 /\ conds = <<>>
  /\ pass = 1 /\ seeds = {} /\ answers = Nothing
  /\ previous = [answers |-> Nothing, seeds |-> {}]
  /\ world = NewWorld({})

Next == \/ ObserveToken
        \/ SkipStatement
        \/ HandleIf
        \/ HandleElse
        \/ HandleEndif
        \/ EndPass

Spec == Init /\ [][Next]_vars

=============================================================================
