----------------------------- MODULE MCStatusPages -----------------------------
(***************************************************************************)
(* A small instance of StatusPages: two contexts, one of them in two        *)
(* spellings, pages of two rows.                                            *)
(***************************************************************************)
EXTENDS StatusPages

MCFold == [s \in {"ci", "CI", "lint"} |-> IF s = "lint" THEN "lint" ELSE "ci"]
=============================================================================
