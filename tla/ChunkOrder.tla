----------------------------- MODULE ChunkOrder -----------------------------
(***************************************************************************)
(* The cyclic chunk order learnt from the reference file, and the index    *)
(* next_chunk_idx_ that the repair moves along it (mp4_chunk_pred.cpp).    *)
(* An order is the cycle track_order_, a sequence of [track, n] entries,   *)
(* or track_order_simple_, a sequence of tracks.  An index counts chunks   *)
(* from the start of the file and is reduced modulo the cycle when used.   *)
(***************************************************************************)
EXTENDS Integers, Sequences, FiniteSets, FiniteSetsExt

\* order[i % order.size()]: C++ indices start at 0, those of a sequence at 1.
At(order, i) == order[(i % Len(order)) + 1]

\* track_order_ with the sample counts dropped.
TracksOf(order) == [i \in DOMAIN order |-> order[i].track]

\* How far ahead of next_chunk_idx_, within one cycle, the track comes up.
Distances(order, next, t) == {k \in 0 .. Len(order) - 1 : At(order, next + k) = t}

\* A mutant: the track's chunk of the cycle before, which a start index underflows.
SkipBackToTrack(order, next, t) == next + Min(Distances(order, next, t)) - Len(order)

\* The index of the track's next chunk at or after next: what the loops of
\* correctChunkIdx and correctChunkIdxSimple leave in next_chunk_idx_.
SkipToTrack(order, next, t) == next + Min(Distances(order, next, t))

\* The loops only end well if the track occurs in the order: without it
\* correctChunkIdx never leaves its while loop and correctChunkIdxSimple
\* fails its assertion.
CanSkipTo(order, t) == \E i \in DOMAIN order : order[i] = t
=============================================================================
