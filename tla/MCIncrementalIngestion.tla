------------------------- MODULE MCIncrementalIngestion -------------------------
(* Windows that nest, so that an older run may be resumed after a newer one and  *)
(* move the checkpoint back, and the inner one first leaves a gap; pages of one  *)
(* row, and fewer rows than may appear.                                          *)
EXTENDS IncrementalIngestion, TLC

MCSigned == [r \in Rows |-> IF r = 1 THEN 2 ELSE 1]
MCRequests == {<<1, 3>>, <<2, 2>>}
MCBatches == {{1, 2}}

Interchangeable == Permutations(Runs)
=============================================================================
