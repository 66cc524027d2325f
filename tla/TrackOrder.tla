----------------------------- MODULE TrackOrder -----------------------------
(***************************************************************************)
(* The orders findOrder and findOrderSimple (track/track_order.cpp) find   *)
(* in a sequence of entries: of chunks [track, n], or of composition       *)
(* offsets.                                                                *)
(***************************************************************************)
EXTENDS Integers, Sequences, FiniteSetsExt

\* The entries up to the first that repeats, or <<>> when the others do not
\* follow them.  The last repetition may differ if it is not longer than limit.
FindOrder(data, limit) ==
    LET size == Min({i \in 1 .. Len(data) - 1 : data[i + 1] = data[1]} \cup {Len(data)})
        failed == Min({i \in 1 .. Len(data) - 1 : data[i + 1] # data[(i % size) + 1]} \cup {Len(data)})
        follows == failed = Len(data) \/ (failed = Len(data) - size /\ size <= limit)
    IN  IF size < Len(data) /\ follows THEN SubSeq(data, 1, size) ELSE <<>>

\* The tracks up to the first chunk of the first track again, or <<>> when
\* the others do not follow them; without such a chunk, all of them.
FindOrderSimple(data) ==
    LET size == Min({i \in 1 .. Len(data) - 1 : data[i + 1].track = data[1].track} \cup {Len(data)})
        follows == \A i \in 1 .. Len(data) - 1 : data[i + 1].track = data[(i % size) + 1].track
    IN  IF follows THEN [i \in 1 .. size |-> data[i].track] ELSE <<>>
=============================================================================
