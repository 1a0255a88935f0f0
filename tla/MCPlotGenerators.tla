--------------------------- MODULE MCPlotGenerators ---------------------------
(***************************************************************************)
(* Small instances of PlotGenerators.                                      *)
(***************************************************************************)
EXTENDS PlotGenerators

sized(name, cup, bucket, batch) ==
  [program |-> name, CUP_SIZE |-> cup, BUCKET_SIZE |-> bucket, BATCH_SIZE |-> batch]

\* For hashgen7: regions of whole cups, of a cup and a half, and of half a cup,
\* and batches that divide the hashes and that do not.  For the mapped plot:
\* sizes a short can count to, up to the last, and one it cannot, where as many
\* hashes fall on a bucket as bring its offset back to 0.
MCPlots ==
  {sized("hashgen3", 2, 6, 1), sized("hashgen2", 2, 4, 1), sized("hashgen", 3, 3, 1),
   sized("blake3_hashgen_2024", 2, 5, 1), sized("blake3_hashgen_2024", 3, 6, 1),
   sized("hashgen7", 2, 4, 2), sized("hashgen7", 3, 3, 4), sized("hashgen7", 2, 3, 4),
   sized("hashgen7", 4, 2, 2),
   sized("mmap-example", 1, 2, 1), sized("mmap-example", 1, 3, 1),
   sized("mmap-example", 1, 4, 1)}

MCHashgen7 == {sized("hashgen7", 3, 3, 2)}
==============================================================================
