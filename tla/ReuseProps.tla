---------------------------- MODULE ReuseProps ----------------------------
(***************************************************************************)
(* What reuse promises: a kept result is the one Run would give.           *)
(***************************************************************************)
EXTENDS Reuse

Fresh == Results[result.source]

\* A result holds the spans of its own text: each lies in the text and is not
\* empty, and branches and tokens come in the order of the text (Result).
TypeOK ==
    LET n == Len(result.source)
        In(r) == r.from \in 0 .. n /\ r.to \in 0 .. n /\ r.from < r.to
        Ordered(spans) == \A i \in 1 .. (Len(spans) - 1) :
                              spans[i].to <= spans[i + 1].from
    IN  /\ result.source \in Documents
        /\ how \in {"run", "trivia", "compatible"}
        /\ \A i \in DOMAIN result.tokens : In(result.tokens[i])
        /\ \A i \in DOMAIN result.invocations : In(result.invocations[i])
        /\ \A d \in result.macros : In(d.def)
        /\ \A i \in DOMAIN result.branches : In(result.branches[i].span)
        /\ Ordered(result.tokens)
        /\ Ordered([i \in DOMAIN result.branches |-> result.branches[i].span])

Spans(r) == [i \in DOMAIN r.branches |-> r.branches[i].span]
Active(r) == [i \in DOMAIN r.branches |-> r.branches[i].active]

\* However many edits a result is carried over, it has the conditionals of
\* its text where its text has them ("Reuse validation must reject unsafe
\* edits conservatively", reuse.go).
BranchesFollowText == Spans(result) = Spans(Fresh)

\* A result that was exact stays exact over an edit that keeps its tokens
\* and the branches selected: no macro is missed, none invented, and every
\* definition and invocation is where it was (reuseCompatibleContext).
ExactReuse ==
    [][/\ result = Fresh
       /\ result'.tokens = Fresh'.tokens
       /\ Active(result') = Active(Fresh')
       => result' = Fresh']_vars

\* Where only blanks and the text of comments changed, nothing is lost
\* (ReuseTriviaContext: "reuses preprocessing when only trivia text changed").
TriviaReuseIsExact ==
    [][how' = "trivia" /\ result = Fresh => result' = Fresh']_vars

============================================================================
