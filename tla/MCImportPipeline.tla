-------------------------- MODULE MCImportPipeline --------------------------
(* Instances of ImportPipeline for TLC. *)
EXTENDS ImportPipeline, TLC

CONSTANTS i1, i2, x1, x2, x3, archive, folder, loose, copies

In(x, split, labels) == [image |-> x, split |-> split, labels |-> labels]
Of(wired, review, strategy, train, val, place) ==
  [wired |-> wired, review |-> review, strategy |-> strategy, train |-> train,
   val |-> val, place |-> place]

\* The two sources fall into different splits.
SomeUnits == i1 :> 2 @@ i2 :> 6 @@ x1 :> 2 @@ x2 :> 6 @@ x3 :> 9

\* Datasets that share images: an archive; a folder of splits in which a file moves;
\* a file outside folders of splits; an image that lies twice.
SomeContents ==
  archive :> {<<In(x1, "train", TRUE), In(x2, "val", FALSE)>>}
  @@ folder :> {<<In(x2, "test", TRUE), In(x3, "train", TRUE)>>,
                <<In(x2, "train", TRUE), In(x3, "train", TRUE)>>}
  @@ loose :> {<<In(x1, Nil, TRUE), In(x2, "val", TRUE)>>}
  @@ copies :> {<<In(x2, "test", TRUE), In(x1, "val", FALSE), In(x2, "train", TRUE)>>}

SomeRequests ==
  { Of(TRUE, FALSE, "by_source_group", 8, 2, archive),
    Of(TRUE, FALSE, "by_source_group", 8, 2, folder),
    Of(TRUE, TRUE, "by_source_group", 8, 2, folder),
    Of(FALSE, FALSE, "by_source_group", 5, 3, folder),
    Of(TRUE, FALSE, "by_source_group", 8, 2, loose),
    Of(FALSE, FALSE, "by_source_group", 5, 3, copies),
    Of(FALSE, TRUE, "random_seeded", 5, 3, copies) }
=============================================================================
