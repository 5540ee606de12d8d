--------------------------- MODULE MCPreprocess ---------------------------
(* Values for the constants of Preprocess. *)
EXTENDS PreprocessProps

MCNames == {"A"}

\* The guard symbol of every path.
MCShared == [p \in Paths |-> "A"]

============================================================================
