----------------------------- MODULE ChunkFeed -----------------------------
(***************************************************************************)
(* What DecodeWorker promises of the chunks that arrive in its directory:  *)
(* those that were there when it started are skipped, and of the later     *)
(* ones every one whose name follows those is taken up once, in the order  *)
(* of the names, and none is passed over.  DecodeWorker.tla implements     *)
(* this specification.                                                     *)
(***************************************************************************)
EXTENDS Naturals, Sequences, WatchDir

CONSTANT MaxName    \* bound: the last name there can be

Names == 1..MaxName

VARIABLES
    files,     \* the names in the directory
    on,        \* whether the worker has looked at the directory yet
    skipped,   \* what it found there then
    cursor,    \* the last name it is done with or busy with
    taken      \* the names it has taken up, oldest first

vars == <<files, on, skipped, cursor, taken>>

Init ==
    /\ files \in SUBSET Names
    /\ on = FALSE
    /\ skipped = {}
    /\ cursor = Nothing
    /\ taken = <<>>

-----------------------------------------------------------------------------

\* The names of a session increase from wherever they start: one that does not
\* follow all others still precedes something left by an earlier session.
Arrive ==
    /\ \E n \in Names :
           /\ on => (\A m \in files : m < n) \/ (\E m \in skipped : n < m)
           /\ files' = files \cup {n}
    /\ UNCHANGED <<on, skipped, cursor, taken>>

Begin ==
    /\ ~on
    /\ on' = TRUE
    /\ skipped' = files
    /\ cursor' = Seed(files)
    /\ UNCHANGED <<files, taken>>

\* n is the first file after the cursor.
IsNext(n) == n \in files /\ n > cursor /\ \A m \in files : m > cursor => n <= m

Take ==
    /\ on
    /\ \E n \in files :
           /\ IsNext(n)
           /\ cursor' = n
           /\ taken' = Append(taken, n)
    /\ UNCHANGED <<files, on, skipped>>

Next == Arrive \/ Begin \/ Take

Spec == Init /\ [][Next]_vars

-----------------------------------------------------------------------------

Taken == {taken[i] : i \in 1..Len(taken)}

\* The type of the state.
TypeOK ==
    /\ files \in SUBSET Names
    /\ on \in BOOLEAN
    /\ skipped \in SUBSET Names
    /\ cursor \in Nat
    /\ taken \in Seq(Nat)

\* Of the files that follow what was skipped, those up to the cursor have been
\* taken up, and no others.
NoneMissed ==
    on => {n \in files : n <= cursor /\ \A m \in skipped : m < n} = Taken

\* Files are taken up in the order of their names, so that none is taken twice.
TakenInOrder ==
    \A i, j \in 1..Len(taken) : i < j => taken[i] < taken[j]
=============================================================================
