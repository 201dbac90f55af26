------------------------------ MODULE WatchDir ------------------------------
(***************************************************************************)
(* The file-name arithmetic of DecodeWorker (src/src/decode_worker.py).    *)
(*                                                                         *)
(* A chunk file's name is YYMMDD_HHMMSS.wav, and the worker only ever      *)
(* compares names with > and sorted().  A name is therefore modelled by a  *)
(* positive natural number that is ordered the way the names are; 0 stands *)
(* for _last_processed = None, which every name exceeds.                   *)
(***************************************************************************)
EXTENDS Naturals

\* What _last_processed is before anything has been processed or seeded.
Nothing == 0

\* The last element of a sorted list of names; the empty list has none.
LastName(names) ==
    IF names = {} THEN Nothing
    ELSE CHOOSE n \in names : \A m \in names : m <= n

-----------------------------------------------------------------------------
(* Faults: plausible slips in the definitions below.                       *)

\* The worker as it was before the fix of 2026-09-26: nothing is skipped.
SeedNothing(names) == Nothing

\* >= instead of >: the file just processed is a candidate again.
CandidatesFromLast(names, last) == {n \in names : n >= last}

\* The order glob() happens to list the files in, without the sorted().
InAnyOrder(n, names) == n \in names

-----------------------------------------------------------------------------

\* _last_processed after the worker has looked at the directory once, before
\* its first poll: the newest file already there, so that files left behind
\* by earlier sessions are not decoded again.
Seed(names) == LastName(names)

\* The files a poll picks up: those named after _last_processed.
Candidates(names, last) == {n \in names : n > last}

\* n is the file a sweep of the sorted candidates turns to first.
ComesFirst(n, names) == n \in names /\ \A m \in names : n <= m
=============================================================================
