----------------------------- MODULE MCRunEngine -----------------------------
(***************************************************************************)
(* Instances of RunEngine for TLC.  The diamond has a gate on one branch   *)
(* and a step that fans in; the fan has two steps that read the same       *)
(* output, and no gate.                                                    *)
(***************************************************************************)
EXTENDS RunEngine, TLC

DiamondSteps == {"extract", "review", "label", "commit"}
DiamondPred ==
  [s \in DiamondSteps |-> CASE s = "extract" -> {}
                            [] s = "commit"  -> {"review", "label"}
                            [] OTHER         -> {"extract"}]
\* The commit takes its annotations from the review and only waits for the label.
DiamondRefs ==
  [s \in DiamondSteps |-> IF s = "commit" THEN {"review"} ELSE DiamondPred[s]]
DiamondRank ==
  [s \in DiamondSteps |-> CASE s = "extract" -> 0 [] s = "review" -> 1
                            [] s = "label"   -> 2 [] s = "commit" -> 3]

FanSteps == {"extract", "label", "export"}
FanPred == [s \in FanSteps |-> IF s = "extract" THEN {} ELSE {"extract"}]
FanRank ==
  [s \in FanSteps |-> CASE s = "extract" -> 0 [] s = "label" -> 1 [] s = "export" -> 2]

SessionSymmetry == Permutations(Sessions)

=============================================================================
