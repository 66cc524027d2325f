---------------------------- MODULE RandomAccess ----------------------------
(***************************************************************************)
(* What FileRead promises its callers: a file of Length bytes with a       *)
(* position, whatever was read before.  A byte is named by its place in    *)
(* the file; what stands for a byte beyond the file's end is left open.    *)
(***************************************************************************)
EXTENDS Integers
CONSTANTS Length,    \* the file's length
          Positions, \* the positions callers seek
          Requests   \* the numbers of bytes callers ask for
VARIABLES pos,       \* FileRead::pos()
          answer     \* how many bytes the caller got, and which

vars == <<pos, answer>>

Nothing == [got |-> 0, bytes |-> [i \in {} |-> 0]]

\* The n bytes answered are the file's from p on.
Exact(p, n) ==
    /\ answer'.got = n
    /\ \A i \in 0 .. n - 1 : p + i < Length => answer'.bytes[i] = p + i

Init == pos = 0 /\ answer = Nothing

Seek(p) == pos' = p /\ answer' = Nothing

\* A pointer to the n bytes at p; the position may be moved behind them.
Fragment(p, n) == pos' \in {p, p + n} /\ Exact(p, n)

Read(n) ==
    /\ pos + n <= Length
    /\ pos' = pos + n
    /\ Exact(pos, n)

\* Beyond the end at least what the file has is read.
ReadBeyond(n) ==
    /\ pos + n > Length
    /\ pos' >= Length
    /\ answer'.got >= Length - pos /\ answer'.got <= n
    /\ Exact(pos, answer'.got)

Next ==
    \/ \E p \in Positions : Seek(p)
    \/ \E p \in Positions \cup {pos}, n \in Requests : Fragment(p, n)
    \/ \E n \in Requests : Read(n) \/ ReadBeyond(n)

Spec == Init /\ [][Next]_vars
=============================================================================
