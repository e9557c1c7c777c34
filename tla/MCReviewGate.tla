----------------------------- MODULE MCReviewGate -----------------------------
(* Instances of ReviewGate for TLC: one sample, which was pushed as two frames. *)
EXTENDS ReviewGate

TwoFrames == <<"s1", "s1">>
OnePushed == {"s1"}

=============================================================================
