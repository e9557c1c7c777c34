--------------------------- MODULE MCUploadIngest ---------------------------
(* Instances of UploadIngest for TLC. *)
EXTENDS UploadIngest, TLC

CONSTANTS p1, s1, s2, h1, h2, c1, c2

\* The same video, uploaded twice into one project, once with a second hash.
OneProject == [s \in Sources |-> p1]
TwoHashes  == [s \in Sources |-> IF s = s1 THEN {h1, h2} ELSE {h1}]
\* The second upload sends no bytes, for the first one has.
OneMixedUp == {<<s1, h1>>, <<s1, h2>>}
OneImage   == {<<h2, h2>>}
=============================================================================
