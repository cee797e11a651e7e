-------------------------- MODULE MCReleaseWorkflow --------------------------
(***************************************************************************)
(* Two shells on a run of two games with two reviewers, and on a run of    *)
(* one game that is assembled twice and whose plays are settled.           *)
(***************************************************************************)
EXTENDS ReleaseWorkflowProps, TLC

CONSTANTS sh1, sh2, v1, v2, e1

TwoShells == {sh1, sh2}
OneReviewer == {v1}
TwoReviewers == {v1, v2}
OneEvidence == {e1}

\* Nothing orders the shells.
ReleaseSymmetry == Permutations(TwoShells)
=============================================================================
