----------------------------- MODULE MCRmalloc -----------------------------
(* Small instances of Rmalloc for TLC.                                     *)
EXTENDS Rmalloc, TLC

CONSTANTS t1, t2, r1

OneArena == (r1 :> 0)

\* As rdma_allocator asks: one alignment (64, here 4) for every size, also for
\* smaller ones, whether they are freed into the class they are taken from (40
\* bytes, here 3) or into another one (8 bytes, here 2).  Other callers of the
\* resource choose their alignment: a smaller one in the same class.
Mixed == {<<2, 4>>, <<3, 4>>, <<4, 2>>, <<8, 4>>}

\* rdma_allocator again, with a size that is no multiple of the alignment and
\* no power of two (80 bytes, here 5), and the next larger one that is.
Odd == {<<5, 4>>, <<8, 4>>}
=============================================================================
