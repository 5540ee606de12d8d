------------------------ MODULE MacroExpansionProps ------------------------
(***************************************************************************)
(* What macro expansion promises: the text PawnCC's rescanning gives, and  *)
(* an end.                                                                 *)
(***************************************************************************)
EXTENDS MacroExpansion

\* A token is an identifier or a parenthesis (pasting joins identifiers only).
Spellings == (Seq(Alphanums) \ {<<>>}) \cup {<<"(">>, <<")">>}

Tokens == [text : Spellings, glued : BOOLEAN, hide : SUBSET Seq(Alphanums),
           seen : [Names -> Seq(Atoms)], depth : 0 .. MaxExpansionDepth]

\* Tokens carry a spelling, the macros they are barred from, the spellings
\* replaced on the way to them, of defined macros only, and a depth within the
\* limit (ptok), which at the top of a line is zero.
TypeOK ==
    /\ table \in [Names -> Macros \cup {NoMacro}]
    /\ line \in Lines
    /\ conditionMode \in BOOLEAN
    /\ level \in {"frame", "run"} /\ (conditionMode => level = "run")
    /\ truncated \in BOOLEAN /\ (truncated => level = "run")
    /\ toks \in Seq(Tokens)
    /\ level = "frame" => \A k \in DOMAIN toks : toks[k].depth = 0
    /\ \A k \in DOMAIN toks, n \in Names : toks[k].seen[n] # <<>> => table[n] # NoMacro
    /\ out \in Seq(Spellings)

Done == toks = <<>> \/ truncated

\* Expansion ends, however the macros refer to each other (Run: "bounded by
\* Options' limits").
Terminates == <>Done

---------------------------------------------------------------------------

\* The tokens not yet written that stand at a depth.
Weight(s, d) == Cardinality({k \in DOMAIN s : s[k].depth = d})

Lighter(s, t) ==
    \E d \in 0 .. MaxExpansionDepth :
        /\ Weight(s, d) < Weight(t, d)
        /\ \A e \in 0 .. d - 1 : Weight(s, e) <= Weight(t, e)

\* Why expansion ends: a step that does not give up takes a token away at some
\* depth and adds none at that depth or above, only below, where the limit of
\* depth ends it; a line given up is left alone (expandRun, reportExpansionDepth).
StepDescends == ~truncated /\ (truncated' \/ Lighter(toks', toks))
EveryStepDescends == [][StepDescends]_vars

---------------------------------------------------------------------------

Mentions(m) == {n \in Names : \E k \in DOMAIN Lex(m.body) : Lex(m.body)[k].text = n}

\* Macros that name no other macro, and themselves only by their own spelling.
SelfReferential ==
    \A n \in Names : table[n] # NoMacro =>
        LET m == table[n] IN
        /\ Mentions(m) \subseteq {n}
        /\ m.pattern => \/ Mentions(m) = {} /\ \A k \in DOMAIN m.body : m.body[k] \notin Words
                        \/ m.body = n \o <<"(", "%0", ")">>

\* A macro that refers to itself alone never costs the budget
\* (TestMacroSelfReferenceDoesNotRecurse, "unchanged recursive pattern
\* reached an expansion budget" is an error, pattern_test.go).
SelfReferenceStops == truncated => ~SelfReferential

============================================================================
