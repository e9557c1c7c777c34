---------------------------- MODULE MCSampleStore ---------------------------
(* Instances of SampleStore for TLC. *)
EXTENDS SampleStore

CONSTANTS w1, w2, w3, h1, h2

In(c, split, labels) == [content |-> c, split |-> split, labels |-> labels]
Of(kind, items)      == [kind |-> kind, items |-> items]

\* Opposite orders, a mixed tree, a file twice under different folders.
SomeJobs ==
  { Of("images", <<In(h1, None, FALSE), In(h2, None, FALSE)>>),
    Of("annotated", <<In(h2, None, TRUE), In(h1, None, FALSE)>>),
    Of("frames", <<In(h2, None, FALSE), In(h1, None, FALSE)>>),
    Of("import", <<In(h1, "train", TRUE), In(h2, "val", TRUE)>>),
    Of("import", <<In(h1, None, TRUE), In(h2, "test", FALSE)>>),
    Of("import", <<In(h1, "train", TRUE), In(h1, "val", TRUE)>>),
    Of("autoLabel", <<In(h1, None, TRUE), In(h2, None, FALSE)>>),
    Of("annotate", <<In(h1, None, TRUE)>>) }
=============================================================================
