----------------------------- MODULE AtomSearch -----------------------------
(***************************************************************************)
(* Finding an atom in a file whose structure may be broken                 *)
(* (Atom::findNextAtomOff, Mp4::findAtom), and who looks for one:          *)
(* findMdat, before a repair; shorten, which cuts a file's media data; and *)
(* unite, which joins the mdat of one file and the moov of another         *)
(* (core/mp4_parse.cpp, core/mp4_tools.cpp).                               *)
(*                                                                         *)
(* A file is its size and the headers that stand in it, by their places:   *)
(* those of its atoms, and whatever else reads as one.                     *)
(***************************************************************************)
EXTENDS Integers, Sequences, FiniteSetsExt, SequencesExt
CONSTANTS Jobs,  \* what is called on which files
          Limit  \* the longest atom that a header of 8 bytes can have, 4 GiB

ASSUME LimitAssumption == Limit \in Nat

\* What stands in a file: the length is what the header states, in 64 bits if it is wide; 1 in 32
\* bits is what says that it is.
HeadSize(h) == IF h.wide THEN 16 ELSE 8
IsFile(f) ==
    /\ f.size \in Nat
    /\ DOMAIN f.heads \subseteq 0 .. f.size - 1
    /\ \A p \in DOMAIN f.heads :
          /\ f.heads[p].wide \in BOOLEAN
          /\ f.heads[p].length \in Int
          /\ ~ f.heads[p].wide => f.heads[p].length \in (0 .. Limit) \ {1}
          /\ p + HeadSize(f.heads[p]) <= f.size
IsRange(r) == r = <<>> \/ r \in Nat \X Int
IsJob(j) ==
    /\ j.op \in {"find", "shorten", "unite"}
    /\ IsFile(j.file)
    /\ j.op = "find" => IsRange(j.range) /\ j.own \in BOOLEAN /\ j.orig_mdat_start \in Nat
    /\ j.op = "find" /\ j.own => j.root_mdat \in DOMAIN j.file.heads
    /\ j.op = "shorten" => j.bytes \in Nat
    /\ j.op = "unite" => IsRange(j.range) /\ IsFile(j.index)

ASSUME JobsAssumption == \A j \in Jobs : IsJob(j)

VARIABLES job,    \* the call: never changes
          pc,     \* "begin", "mdat", "moov", "write", "done", "failed", "aborted"
          atom,   \* the atom where the search stands
          mdat,   \* the atom found for the media data, with its end
          out     \* what was written, piece by piece
vars == <<job, pc, atom, mdat, out>>

NewAtom == [start |-> -8, length |-> -1, header |-> 8, name |-> ""]
ContentStart(a) == a.start + a.header
WithEnd(a, end) == [start |-> a.start, length |-> a.length, header |-> a.header, name |-> a.name, file_end |-> end]
ContentSize(a) == a.file_end - ContentStart(a)

(***************************************************************************)
(* The search                                                              *)
(***************************************************************************)
PointsAtAtom(f, p) == p >= f.size \/ p \in DOMAIN f.heads

\* parseHeader
HeaderAt(f, p) ==
    LET h == f.heads[p]
    IN  [start |-> p, header |-> HeadSize(h), name |-> h.name,
         length |-> IF h.wide THEN IF h.length < 0 THEN 8 ELSE h.length
                    ELSE IF h.length = 0 THEN f.size - p ELSE h.length]

\* Mutant: only the media data are skipped.
SkipsMdatOnly(f, a) == a.length > 0 /\ a.name = "mdat"

\* An atom is left by its length when that stays in the file; the mdat always, and avcC never.
SkipsNested(f, a) ==
    /\ a.length > 0
    /\ \/ a.name # "avcC" /\ a.start + a.length < f.size
       \/ a.name = "mdat"

\* The file is looked through four places at a time: a name whose last letter is a capital
\* one is passed over when it is the first of its four.
IsSeen(f, from, p) == from <= p /\ ~ (f.heads[p].name = "avcC" /\ (p - from) % 4 = 0)
NextInContent(f, a) ==
    LET seen == {p \in DOMAIN f.heads : IsSeen(f, ContentStart(a), p)}
    IN  IF seen = {} THEN f.size ELSE Min(seen)

NextAtomOff(f, a) ==
    LET next == a.start + a.length
    IN  IF SkipsNested(f, a) /\ PointsAtAtom(f, next) THEN Min({next, f.size})
        ELSE NextInContent(f, a)

\* One turn of findAtom: at the end of the file the search gives up.
Turn(f, name) ==
    /\ atom.name # name
    /\ NextAtomOff(f, atom) < f.size
    /\ atom' = HeaderAt(f, NextAtomOff(f, atom))
GivesUp(f, name) == atom.name # name /\ NextAtomOff(f, atom) >= f.size
NotFound == [atom EXCEPT !.start = -8]

SearchMdat ==
    /\ pc = "mdat"
    /\ Turn(job.file, "mdat")
    /\ UNCHANGED <<job, pc, mdat, out>>

MoovFile == IF job.op = "unite" THEN job.index ELSE job.file
SearchMoov ==
    /\ pc = "moov"
    /\ Turn(MoovFile, "moov")
    /\ UNCHANGED <<job, pc, mdat, out>>

(***************************************************************************)
(* findMdat                                                                *)
(***************************************************************************)
Ranged == job.range # <<>>
\* Mutant: a range may end behind the file.
RangeEndUncut == IF job.range[2] < 0 THEN job.file.size + job.range[2] ELSE job.range[2]
RangeEnd ==
    CASE job.range[2] > job.file.size -> job.file.size
      [] job.range[2] < 0 -> job.file.size + job.range[2]
      [] OTHER -> job.range[2]
\* mdatFromRange
FromRange == WithEnd([NewAtom EXCEPT !.start = job.range[1] - 8, !.name = "mdat"], RangeEnd)

BeginInRange ==
    /\ pc = "begin" /\ job.op # "shorten" /\ Ranged
    /\ job.op = "find" => ~ job.own
    /\ mdat' = FromRange
    /\ pc' = IF ContentSize(FromRange) <= 0 THEN "failed" ELSE IF job.op = "find" THEN "done" ELSE "moov"
    /\ UNCHANGED <<job, atom, out>>

\* The reference itself is searched from the mdat its tree has, and stands where its reading ended.
Known == IF job.own THEN HeaderAt(job.file, job.root_mdat) ELSE NewAtom
Pointed == IF job.own THEN job.pointed ELSE PointsAtAtom(job.file, 0)
At(start) == [Known EXCEPT !.start = start, !.name = "mdat"]

\* Without an atom there, a file is media data from where the reference has them, or all of it;
\* or it is looked through.
BeginFind ==
    /\ pc = "begin" /\ job.op = "find" /\ (Ranged => job.own)
    /\ atom' = IF Pointed THEN Known
               ELSE IF job.rtmd THEN At(-8)
               ELSE IF job.orig_mdat_start < job.moov_start THEN At(job.orig_mdat_start)
               ELSE IF ~ job.search_mdat THEN At(-8)
               ELSE Known
    /\ pc' = "mdat"
    /\ UNCHANGED <<job, mdat, out>>

EndFind ==
    /\ pc = "mdat" /\ job.op = "find"
    /\ atom.name = "mdat" \/ GivesUp(job.file, "mdat")
    /\ mdat' = WithEnd(IF atom.name = "mdat" THEN atom ELSE NotFound, job.file.size)
    /\ pc' = "done"
    /\ UNCHANGED <<job, atom, out>>

(***************************************************************************)
(* What is written, as pieces that come from a file or are new             *)
(***************************************************************************)
Bytes(src, from, to) == [src |-> src, from |-> from, to |-> to, states |-> 0]
New(size, states) == [src |-> "new", from |-> 0, to |-> size, states |-> states]
Size(piece) == piece.to - piece.from

\* updateFileEnd and BufferedAtom::write: the header, then the content; an assert compares
\* their length with the one stated.
Updated(a, end) == [a EXCEPT !.file_end = end, !.length = 8 + end - ContentStart(a)]
HeaderSize(a, force_64) == IF a.length > Limit \/ force_64 THEN 16 ELSE 8
Pieces(src, a, force_64) ==
    <<New(HeaderSize(a, force_64), a.length - 8 + HeaderSize(a, force_64))>>
    \o (IF ContentSize(a) > 0 THEN <<Bytes(src, ContentStart(a), a.file_end)>> ELSE <<>>)
\* Where each of them begins, and where the last ends.
Places(pieces) ==
    LET place[k \in 1 .. Len(pieces) + 1] == IF k = 1 THEN 0 ELSE place[k - 1] + Size(pieces[k - 1])
    IN  place
IsAsStated(pieces) == Places(pieces)[Len(pieces) + 1] = pieces[1].states

(***************************************************************************)
(* shorten                                                                 *)
(***************************************************************************)
FirstBytes == <<Bytes("file", 0, job.bytes)>>

BeginShorten ==
    /\ pc = "begin" /\ job.op = "shorten"
    /\ CASE job.file.size <= job.bytes -> pc' = "failed" /\ UNCHANGED out
         [] job.file.size > job.bytes /\ PointsAtAtom(job.file, 0) -> pc' = "mdat" /\ UNCHANGED out
         [] OTHER -> pc' = "done" /\ out' = FirstBytes
    /\ UNCHANGED <<job, atom, mdat>>

\* Both tools assert that there is an mdat, and look for the moov from the begin of its file.
FoundMdat ==
    /\ pc = "mdat" /\ job.op # "find"
    /\ \/ /\ atom.name = "mdat"
          /\ pc' = "moov"
          /\ mdat' = WithEnd(atom, job.file.size)
          /\ atom' = NewAtom
       \/ /\ GivesUp(job.file, "mdat")
          /\ pc' = "aborted"
          /\ UNCHANGED <<atom, mdat>>
    /\ UNCHANGED <<job, out>>

MdatEnd == mdat.start + mdat.length
AfterMdat == job.file.size - MdatEnd

\* A moov that is not found or lies before the mdat is not moved up.
ShortenPlainly ==
    /\ pc = "moov" /\ job.op = "shorten"
    /\ \/ GivesUp(MoovFile, "moov")
       \/ atom.name = "moov" /\ atom.start < mdat.start
    /\ out' = FirstBytes
    /\ pc' = "done"
    /\ UNCHANGED <<job, atom, mdat>>

MoovIsBehind == pc = "moov" /\ job.op = "shorten" /\ atom.name = "moov" /\ atom.start >= mdat.start

ShortenInMoov ==
    /\ MoovIsBehind /\ job.bytes < AfterMdat
    /\ IF job.force THEN pc' = "done" /\ out' = FirstBytes ELSE pc' = "failed" /\ UNCHANGED out
    /\ UNCHANGED <<job, atom, mdat>>

\* Mutant: what follows the mdat is not taken off its length.
ShorterWithTail == Updated(mdat, job.bytes)
Shorter == Updated(mdat, job.bytes - AfterMdat)

ShortenMdat ==
    /\ MoovIsBehind /\ job.bytes >= AfterMdat
    /\ LET pieces == Pieces("file", Shorter, mdat.header > 8)
       IN  IF IsAsStated(pieces)
           THEN /\ pc' = "done"
                /\ out' = <<Bytes("file", 0, mdat.start)>> \o pieces \o <<Bytes("file", MdatEnd, job.file.size)>>
           ELSE pc' = "aborted" /\ UNCHANGED out
    /\ UNCHANGED <<job, atom, mdat>>

(***************************************************************************)
(* unite                                                                   *)
(***************************************************************************)
BeginUnite ==
    /\ pc = "begin" /\ job.op = "unite" /\ ~ Ranged
    /\ pc' = "mdat"
    /\ UNCHANGED <<job, atom, mdat, out>>

NoMoovToUnite ==
    /\ pc = "moov" /\ job.op = "unite"
    /\ GivesUp(MoovFile, "moov")
    /\ pc' = "aborted"
    /\ UNCHANGED <<job, atom, mdat, out>>

\* A range has a free atom in front of it, as long as what the range leaves out; its content
\* cannot be shorter than nothing.
United ==
    LET front == IF Ranged THEN <<New(mdat.start, mdat.start)>> ELSE <<Bytes("file", 0, mdat.start)>>
    IN  front \o Pieces("file", Updated(mdat, job.file.size), mdat.header > 8)
Index == Pieces("index", WithEnd(atom, atom.start + atom.length), FALSE)

Unite ==
    /\ pc = "moov" /\ job.op = "unite" /\ atom.name = "moov"
    /\ CASE Ranged /\ mdat.start < 8 -> pc' = "failed" /\ UNCHANGED out
         [] ~ (Ranged /\ mdat.start < 8) /\ IsAsStated(Index) -> pc' = "done" /\ out' = United \o Index
         [] OTHER -> pc' = "aborted" /\ UNCHANGED out
    /\ UNCHANGED <<job, atom, mdat>>

Init ==
    /\ job \in Jobs
    /\ pc = "begin"
    /\ atom = NewAtom
    /\ mdat = WithEnd(NewAtom, 0)
    /\ out = <<>>

Stopped == pc \in {"done", "failed", "aborted"} /\ UNCHANGED vars
Next == \/ SearchMdat \/ SearchMoov \/ BeginInRange \/ BeginFind \/ EndFind
        \/ BeginShorten \/ FoundMdat \/ ShortenPlainly \/ ShortenInMoov \/ ShortenMdat
        \/ BeginUnite \/ NoMoovToUnite \/ Unite \/ Stopped
Spec == Init /\ [][Next]_vars

-----------------------------------------------------------------------------
\* What is copied from the file with the media data lies in it; the index file's moov is copied as
\* far as it states (mp4_tools.cpp:102).
IsPiece(piece) ==
    /\ piece.from \in Nat /\ piece.to \in Nat /\ piece.from <= piece.to
    /\ piece.src = "file" => piece.to <= job.file.size

\* The search stands at a header, or before the file; a found mdat ends in it, and so does each piece
\* that a tool copies from it, whatever lengths its atoms state (mp4_tools.cpp:124-137).
TypeOK ==
    /\ pc \in {"begin", "mdat", "moov", "done", "failed", "aborted"}
    /\ \/ atom.start = -8
       \/ job.op = "find" /\ atom.start = job.orig_mdat_start
       \/ atom.start \in DOMAIN job.file.heads \cup DOMAIN MoovFile.heads
    /\ mdat.start >= -8
    /\ pc # "failed" => mdat.file_end \in 0 .. job.file.size
    /\ \A k \in DOMAIN out : IsPiece(out[k])

\* The least set of places that holds the first, if it is one, and with each the next.
Reached(places, first, next) ==
    {p \in places :
       \A S \in SUBSET places : (first \in places => first \in S) /\ (\A q \in S : next[q] \in places => next[q] \in S) => p \in S}

\* Where the lengths that the atoms state lead to from the begin of a file, past known atoms only.
RootAtoms(f) ==
    Reached(DOMAIN f.heads, 0,
            [p \in DOMAIN f.heads |-> IF f.heads[p].name = "avcC" THEN p ELSE p + HeaderAt(f, p).length])
RootMdats(f) == {p \in RootAtoms(f) : f.heads[p].name = "mdat"}

SearchedMdat ==
    \/ job.op = "find" /\ pc = "done" /\ ~ job.own /\ ~ Ranged
    \/ job.op = "shorten" /\ pc = "moov"
    \/ job.op = "unite" /\ pc = "moov" /\ ~ Ranged
\* The mdat that a repair reads and the tools cut or join is the file's first at its root, when
\* the lengths of the atoms lead there: no name in the contents of another atom is taken for it,
\* although the search looks into contents wherever a length leads nowhere (atom.cpp:107-133).
FindsRootMdat ==
    SearchedMdat /\ RootMdats(job.file) # {} /\ PointsAtAtom(job.file, 0) => mdat.start = Min(RootMdats(job.file))

Place(k) == Places(out)[k]
Total == Place(Len(out) + 1)

\* Uniting gives media data of 4 GiB a longer header, and moves them by it.
Grows == job.op = "unite" /\ mdat.header = 8 /\ Updated(mdat, job.file.size).length > Limit

\* A file that a tool wrote can be played by the moov it was given: the media data are where they
\* were, each header leads to what follows its content, a shortened file is as long as was asked
\* for and ends with all that followed the media data, a united one with the whole moov
\* (mp4_tools.cpp:98-104, 124-137).
RebuiltFilesLead ==
    pc = "done" /\ out # <<>> =>
        /\ \A k \in DOMAIN out : out[k].src = "file" /\ (k = 1 \/ out[k].from = ContentStart(mdat)) /\ ~ Grows => out[k].from = Place(k)
        /\ \A k \in DOMAIN out : out[k].src = "new" =>
              \E j \in k + 1 .. Len(out) + 1 :
                 /\ Place(k) + out[k].states = Place(j)
                 /\ \A i \in k + 1 .. j - 1 : out[i].from = ContentStart(mdat) \/ out[i].src = "index"
        /\ job.op = "shorten" =>
              /\ Total = job.bytes
              /\ Len(out) > 1 => Last(out).to = job.file.size /\ (atom.start \in RootAtoms(job.file) => Last(out).from <= atom.start)
        /\ job.op = "unite" => Last(out).src = "new" \/ Last(out) = Bytes("index", ContentStart(atom), atom.start + atom.length)
=============================================================================
