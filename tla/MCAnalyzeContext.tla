---------------------------- MODULE MCAnalyzeContext ----------------------------
(* The buffer alone, over texts of up to seven units.                      *)
EXTENDS AnalyzeContext

(* "A", "a" and a fullwidth "A", told apart by regularize: the third       *)
(* becomes the first, and the first the second.                            *)
MCInputs == {<<>>, <<65313>>, <<65, 65313, 97>>, <<65313, 65, 65313, 97>>,
             <<65, 65313, 97, 65313, 65, 97, 65313>>}

MCSpec == ContextSpec /\ WF_cvars(InsideNext)

(* Every call of Next returns: a lexeme, nil at the end, or the error of   *)
(* the reader (ik_segmenter.go:52-94).                                     *)
NextReturns == (pc # "idle") ~> (pc = "idle")
=============================================================================
