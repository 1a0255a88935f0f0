---------------------------- MODULE MCSortAndSearch ----------------------------
(***************************************************************************)
(* A small instance of SortAndSearch: more groups and chunks than every    *)
(* plot of so many records would allow.                                    *)
(***************************************************************************)
EXTENDS SortAndSearch

\* All chunks but two hold the same records in the same order, and so do these two.
MCPlots ==
  {[o \in Offsets |->
      LET c == o \div HASHES_PER_CHUNK_SORT
      IN (IF c \in {a, b} THEN x ELSE y)[o % HASHES_PER_CHUNK_SORT]] :
     a \in Chunks, b \in Chunks, x \in [InChunk -> Records], y \in [InChunk -> Records]}

MCInit == plot \in MCPlots /\ Init

MCSpec == MCInit /\ [][Next]_vars /\ WF_vars(Next)
==============================================================================
