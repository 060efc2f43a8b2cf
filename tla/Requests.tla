------------------------------ MODULE Requests ------------------------------
(***************************************************************************)
(* A request loads rows, then commits.  A row with a version_id_col is     *)
(* updated only if its version is the one that was loaded; otherwise       *)
(* SQLAlchemy raises StaleDataError and the request is rolled back.        *)
(***************************************************************************)

Idle  == [op |-> "idle"]
Stale == [op |-> "stale"]

\* Request r has ended, and has updated the versioned rows that the requests
\* in losers were going to update.
Ended(requests, r, losers) ==
    [q \in DOMAIN requests |->
        IF q = r THEN Idle ELSE IF q \in losers THEN Stale ELSE requests[q]]
=============================================================================
