---------------------------- MODULE MCTaskSessions ----------------------------
(* Instances of TaskSessions for TLC. *)
EXTENDS TaskSessions, TLC

CONSTANTS r1, r2, r3, t1, t2

TwoRequests   == {r1, r2}
ThreeRequests == {r1, r2, r3}
TwoTaskIDs    == {t1, t2}

\* The handler that unlocks its mutex first, and one that does not; both may go
\* round for ever.
UploadsAndLists == {"upload", "backups"}

\* The handler that gives back more slots than it got.
Views == {"getfile"}

\* Requests and ids are interchangeable.
Interchangeable == Permutations(Requests) \cup Permutations(TaskIDs)
=============================================================================
