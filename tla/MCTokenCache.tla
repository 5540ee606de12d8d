--------------------------- MODULE MCTokenCache ---------------------------
(* Values for the constants of TokenCache. *)
EXTENDS TokenCache, TLC

CONSTANTS c1, c2, c3, i1, i2, i3, i4

MCCallers == {c1, c2, c3}
MCCancellable == {c3}
MCIds == {i1, i2, i3, i4}
MCContents == {"a", "b"}

\* Identities are interchangeable, and so are the callers without a context.
MCSymmetry == Permutations(MCIds) \cup Permutations({c1, c2})

============================================================================
