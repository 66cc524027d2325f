----------------------------- MODULE MdatWrite -----------------------------
(***************************************************************************)
(* The end of saveVideo (core/mp4_output.cpp) and BufferedAtom::write      *)
(* (atom/atom.cpp): lengths are updated, chunk offsets moved by the size   *)
(* of what comes before the media data, and the media data copied through  *)
(* the buffer of the file it is read from, less the excluded sequences.    *)
(***************************************************************************)
EXTENDS FileWindow, FiniteSets, Sequences
CONSTANTS Starts,       \* contentStart() of the broken file's mdat
          Ends,         \* file_end_: the file's length, or where a premature end cut it
          OldLengths,   \* length_ as the broken file states it
          MaxExcluded,  \* bound on the number of excluded sequences
          Front,        \* the bytes of ftyp and moov, which are written before the mdat
          Limit         \* 2^32: what four bytes cannot count
VARIABLES mdat,    \* start, file_end, excluded: what the scan leaves
          length,  \* length_
          file,    \* file_read_'s window
          shift,   \* what was added to each chunk's offset in the content
          header,  \* the header written: its size, and the length it states
          offset, skip, \* the loop's offset and to_skip_it
          out,     \* the bytes written behind the header
          pc, failed

vars == <<mdat, length, file, shift, header, offset, skip, out, pc, failed>>

ASSUME WriteAssumption ==
    /\ Starts \subseteq Nat /\ Ends \subseteq 0 .. Length
    /\ \A s \in Starts, e \in Ends : s <= e
    /\ OldLengths \subseteq Nat /\ Front \in Nat /\ MaxExcluded \in Nat /\ Limit \in Nat \ {0}

Ranges(size) == {[start |-> s, length |-> l] : s \in 0 .. size, l \in 0 .. size}

\* What RepairScan leaves to write (its ExclusionsInOrder and WriteAccepts): sequences in
\* the content, apart, in strict order, none of them empty except at the content's end.
Exclusions(size) ==
    UNION {{e \in [1 .. n -> Ranges(size)] :
              /\ \A i \in 1 .. n : e[i].start + e[i].length <= size
              /\ \A i \in 1 .. n : e[i].length > 0 \/ e[i].start = size
              /\ \A i, j \in 1 .. n : i < j => e[i].start + e[i].length <= e[j].start
                                            /\ e[i].start < e[j].start}
           : n \in 0 .. MaxExcluded}

Mdats == UNION {[start : {s}, file_end : {e}, excluded : Exclusions(e - s)]
                : s \in Starts, e \in Ends}

ContentSize == mdat.file_end - mdat.start

\* The bytes that the first sequences of a list exclude, by their number.
ExcludedUpTo(e) ==
    LET size[i \in 0 .. Len(e)] == IF i = 0 THEN 0 ELSE size[i - 1] + e[i].length IN size
Total == ExcludedUpTo(mdat.excluded)[Len(mdat.excluded)]

Init ==
    /\ mdat \in Mdats
    /\ length \in OldLengths
    /\ file \in {SeekTo(Opened, p) : p \in 0 .. Length}
    /\ shift = 0 /\ header = [size |-> 0, stated |-> 0, new_length |-> 0]
    /\ offset = 0 /\ skip = 1 /\ out = <<>>
    /\ pc = "update" /\ failed = FALSE

\* root_atom_->updateLength()
UpdateLength ==
    /\ pc = "update"
    /\ length' = 8 + ContentSize
    /\ pc' = "offsets"
    /\ UNCHANGED <<mdat, file, shift, header, offset, skip, out, failed>>

Needs64bitVersion == length - Total > Limit

\* Mutant: the excluded bytes are not taken off before the comparison.
HeaderSizeOfAll == IF length > Limit THEN 16 ELSE 8

NewHeaderSize == IF Needs64bitVersion THEN 16 ELSE 8

\* Chunk offsets count from the file's begin: the first atoms and the mdat's new header
\* are before the content.
FixOffsets ==
    /\ pc = "offsets"
    /\ shift' = Front + NewHeaderSize
    /\ pc' = "header"
    /\ UNCHANGED <<mdat, length, file, header, offset, skip, out, failed>>

\* co64 or stco, chosen by the length of the broken file: a stco entry is cut to four bytes.
HasWideOffsets == Length > Limit
Stored(off) == IF HasWideOffsets THEN off ELSE off % Limit

\* Mutant: the longer header is not counted into the length.
WriteHeaderUncounted ==
    /\ pc = "header"
    /\ header' = [size |-> NewHeaderSize, new_length |-> length - Total,
                  stated |-> IF Needs64bitVersion THEN 1 ELSE (length - Total) % Limit]
    /\ pc' = "copy"
    /\ UNCHANGED <<mdat, length, file, shift, offset, skip, out, failed>>

\* A 64-bit length is announced by the length 1; a shorter one is cut to four bytes.
WriteHeader ==
    /\ pc = "header"
    /\ header' = IF Needs64bitVersion
                 THEN [size |-> 16, new_length |-> length - Total + 8, stated |-> 1]
                 ELSE [size |-> 8, new_length |-> length - Total, stated |-> (length - Total) % Limit]
    /\ pc' = "copy"
    /\ UNCHANGED <<mdat, length, file, shift, offset, skip, out, failed>>

AtEndOfExclusions(k) == k > Len(mdat.excluded)

\* Mutant: the end of the content does not cut a read.
ToReadPastEnd ==
    IF ~AtEndOfExclusions(skip) /\ offset + BufSize > mdat.excluded[skip].start
    THEN mdat.excluded[skip].start - offset ELSE BufSize

\* Mutant: only an exclusion that begins behind the read cuts it.
ToReadInclusive ==
    LET n == Least(BufSize, ContentSize - offset)
    IN  IF ~AtEndOfExclusions(skip) /\ offset + n > mdat.excluded[skip].start + 1
        THEN mdat.excluded[skip].start - offset ELSE n

\* One read is cut by the buffer's size, the content's end and the next exclusion.
ToRead ==
    LET n == Least(BufSize, ContentSize - offset)
    IN  IF ~AtEndOfExclusions(skip) /\ offset + n > mdat.excluded[skip].start
        THEN mdat.excluded[skip].start - offset ELSE n

\* Mutant: an exclusion is stepped over only when the read went past its begin.
StepOverLater(read) ==
    IF ~AtEndOfExclusions(skip) /\ read > mdat.excluded[skip].start
    THEN /\ offset' = read + mdat.excluded[skip].length
         /\ skip' = skip + 1
         /\ UNCHANGED failed
    ELSE offset' = read /\ UNCHANGED <<skip, failed>>

\* The exclusion that begins where the read ended is stepped over.
StepOver(read) ==
    IF ~AtEndOfExclusions(skip) /\ read = mdat.excluded[skip].start
    THEN LET behind == read + mdat.excluded[skip].length
         IN  /\ offset' = behind
             /\ skip' = skip + 1
             /\ failed' = ~ /\ \/ AtEndOfExclusions(skip + 1)
                               \/ mdat.excluded[skip + 1].start > mdat.excluded[skip].start
                            /\ behind <= ContentSize
    ELSE offset' = read /\ UNCHANGED <<skip, failed>>

CopyPart ==
    /\ pc = "copy" /\ ~failed
    /\ offset < ContentSize
    /\ LET n == ToRead
           f == FragmentAt(file, mdat.start + offset, n)
       IN  /\ file' = f
           /\ out' = out \o [i \in 1 .. n |-> f.cells[f.off + i - 1]]
           /\ StepOver(offset + n)
    /\ UNCHANGED <<mdat, length, shift, header, pc>>

Finish ==
    /\ pc = "copy" /\ ~failed
    /\ offset >= ContentSize
    /\ failed' = (header.size + Len(out) # header.new_length)
    /\ pc' = "done"
    /\ UNCHANGED <<mdat, length, file, shift, header, offset, skip, out>>

Next == UpdateLength \/ FixOffsets \/ WriteHeader \/ CopyPart \/ Finish

Spec == Init /\ [][Next]_vars /\ WF_vars(Next)

-----------------------------------------------------------------------------

\* The loop stays in the content, the window in its type, the list of exclusions in reach.
TypeOK ==
    /\ file \in Window
    /\ offset \in 0 .. ContentSize /\ skip \in 1 .. Len(mdat.excluded) + 1
    /\ length \in Nat /\ failed \in BOOLEAN

\* Exclusions that the scan leaves never make write abort, and what it writes is as
\* long as it said ahead.
NoAssertionFails == ~failed

IsKept(b) == b \in mdat.start .. mdat.file_end - 1
           /\ \A i \in DOMAIN mdat.excluded :
                b - mdat.start \notin mdat.excluded[i].start
                                        .. mdat.excluded[i].start + mdat.excluded[i].length - 1

KeptBytes == {c \in 0 .. Length - 1 : IsKept(c)}

\* The repaired media data are the broken file's bytes that are not excluded, each once and
\* in their order, however the buffer's end falls among exclusions.
WritesWhatIsKept ==
    pc = "done" => /\ {out[p] : p \in DOMAIN out} = KeptBytes
                   /\ \A p, q \in DOMAIN out : p < q => out[p] < out[q]

NewOffset(b) == shift + Cardinality({c \in 0 .. b - 1 : IsKept(c)})

\* Who parses the repaired file finds the end of its mdat where it is: a length of four
\* bytes is the number written, or 0, which stands for the rest of the file.
EndIsFound ==
    pc = "done" =>
        \/ header.size = 16 /\ header.stated = 1
        \/ header.stated = 0
        \/ header.stated > 1 /\ header.stated = header.size + Len(out)

\* A chunk offset, as the table holds it, leads to the byte it was computed for: the header
\* counted ahead is the one written, before a kept byte stand as many others as are not
\* excluded, and the table is wide enough when the repaired file is not longer than the
\* broken one, whose length it was chosen by.
OffsetsLeadToBytes ==
    pc = "done" =>
        /\ EndIsFound
        /\ \A b \in KeptBytes : \E p \in DOMAIN out :
              /\ out[p] = b
              /\ Front + header.size + p - 1 = NewOffset(b)
              /\ Front + header.size + Len(out) <= Length => Stored(NewOffset(b)) = NewOffset(b)

\* The mdat is written to its end.
Terminates == <>(pc = "done")
=============================================================================
