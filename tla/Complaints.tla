----------------------------- MODULE Complaints -----------------------------
(***************************************************************************)
(* Complaints from the public and the inspections opened from them         *)
(* (api/app/services/complaints.py, api/app/api/v1/complaints.py), handled *)
(* by requests that overlap.  A complaint has a version.  Its text, the    *)
(* priority, the jurisdiction and the photographs carried across are left  *)
(* out, as are roles, reasons and the client's version, which decide       *)
(* whether a handler gets past its first reads.                            *)
(***************************************************************************)
EXTENDS Naturals, FiniteSets, Requests

CONSTANTS
    Complaint,   \* complaints that may be submitted
    Inspection,  \* inspections that may be opened
    Officer,     \* requests about complaints that may be in flight together
    Absent       \* no row yet

VARIABLES
    complaint,  \* complaints
    opened,     \* the inspections: the complaint each names
    handling    \* the progress of each request

complaintVars == <<complaint, opened, handling>>

-----------------------------------------------------------------------------
ComplaintState == {"received", "triaged", "duplicate", "assigned", "inspection_created",
                   "escalated", "resolved", "rejected", "closed"}

ComplaintEdge ==
    {<<"received", "triaged">>,
     <<"received", "duplicate">>,
     <<"received", "rejected">>,
     <<"triaged", "assigned">>,
     <<"triaged", "inspection_created">>,
     <<"triaged", "duplicate">>,
     <<"triaged", "rejected">>,
     <<"assigned", "inspection_created">>,
     <<"assigned", "escalated">>,
     <<"assigned", "resolved">>,
     <<"inspection_created", "resolved">>,
     <<"inspection_created", "escalated">>,
     <<"escalated", "resolved">>,
     <<"resolved", "closed">>,
     <<"rejected", "closed">>,
     <<"duplicate", "closed">>}

Complaints == [state : ComplaintState, assigned : BOOLEAN]

\* took: opening it moved the complaint to inspection_created.
Inspections == [complaint : Complaint, took : BOOLEAN]

\* writes: the row that was loaded is going to be updated.
Work == [op : {"triage", "assign"}, c : Complaint, writes : BOOLEAN]
           \cup [op : {"move"}, c : Complaint, writes : {TRUE}, target : ComplaintState]
           \cup [op : {"convert"}, c : Complaint, writes : BOOLEAN, takes : BOOLEAN]

ASSUME ComplaintAssumption == Absent \notin Complaints \cup Inspections

ComplaintTypeOK ==
    /\ complaint \in [Complaint -> Complaints \cup {Absent}]
    /\ opened \in [Inspection -> Inspections \cup {Absent}]
    /\ handling \in [Officer -> {Idle, Stale} \cup Work]

ComplaintInit ==
    /\ complaint = [c \in Complaint |-> Absent]
    /\ opened = [i \in Inspection |-> Absent]
    /\ handling = [o \in Officer |-> Idle]

-----------------------------------------------------------------------------
Submit ==
    \E c \in Complaint :
        /\ complaint[c] = Absent
        /\ complaint' = [complaint EXCEPT ![c] = [state |-> "received", assigned |-> FALSE]]
        /\ UNCHANGED <<opened, handling>>

\* POST /inspections with a complaint_id: the complaint is not looked at.
OpenElsewhere ==
    \E i \in Inspection, c \in Complaint :
        /\ opened[i] = Absent
        /\ complaint[c] # Absent
        /\ opened' = [opened EXCEPT ![i] = [complaint |-> c, took |-> FALSE]]
        /\ UNCHANGED <<complaint, handling>>

-----------------------------------------------------------------------------
(* What handlers read                                                      *)

Take(o, work) ==
    /\ handling[o] = Idle
    /\ handling' = [handling EXCEPT ![o] = work]
    /\ UNCHANGED <<complaint, opened>>

\* In every state.  The row is updated if triage changes something of it.
BeginTriage(o, c) ==
    /\ complaint[c] # Absent
    /\ \E writes \in BOOLEAN : Take(o, [op |-> "triage", c |-> c, writes |-> writes])

\* In every state; assigned_at always changes.
BeginAssignment(o, c) ==
    /\ complaint[c] # Absent
    /\ Take(o, [op |-> "assign", c |-> c, writes |-> TRUE])

\* In every state.  A complaint that waits is taken on; any other is only
\* assigned, if nobody has it.
BeginConversion(o, c) ==
    /\ complaint[c] # Absent
    /\ LET takes == complaint[c].state \in {"received", "triaged", "assigned"} IN
       Take(o, [op |-> "convert", c |-> c, writes |-> takes \/ ~complaint[c].assigned,
                takes |-> takes])

Linked(c) == \E i \in Inspection : opened[i] # Absent /\ opened[i].complaint = c

ComplaintGuard(c, target) ==
    /\ target = "assigned" => complaint[c].assigned
    /\ target = "inspection_created" => Linked(c)

BeginMove(o, c) ==
    \E target \in ComplaintState :
        /\ complaint[c] # Absent
        /\ <<complaint[c].state, target>> \in ComplaintEdge
        /\ ComplaintGuard(c, target)
        /\ Take(o, [op |-> "move", c |-> c, writes |-> TRUE, target |-> target])

-----------------------------------------------------------------------------
(* What they commit                                                        *)

Writers(c) ==
    {o \in Officer : handling[o] \notin {Idle, Stale} /\ handling[o].c = c /\ handling[o].writes}

\* A mutant of Update: the complaint's version is not compared.
UpdateUnversioned(o, row) ==
    /\ complaint' = IF handling[o].writes THEN [complaint EXCEPT ![handling[o].c] = row]
                                          ELSE complaint
    /\ handling' = Ended(handling, o, {})

\* The row, which is as it was loaded, is written, if it is to be.
Update(o, row) ==
    /\ complaint' = IF handling[o].writes THEN [complaint EXCEPT ![handling[o].c] = row]
                                          ELSE complaint
    /\ handling' = Ended(handling, o, IF handling[o].writes THEN Writers(handling[o].c) ELSE {})

CommitTriage(o) ==
    /\ handling[o].op = "triage"
    /\ Update(o, complaint[handling[o].c])
    /\ UNCHANGED opened

CommitAssignment(o) ==
    /\ handling[o].op = "assign"
    /\ Update(o, [complaint[handling[o].c] EXCEPT !.assigned = TRUE])
    /\ UNCHANGED opened

CommitMove(o) ==
    /\ handling[o].op = "move"
    /\ Update(o, [complaint[handling[o].c] EXCEPT !.state = handling[o].target])
    /\ UNCHANGED opened

\* convert_to_inspection: the complaint goes through triaged if it has to, is
\* assigned to whoever opens the inspection if nobody has it, and goes on to
\* inspection_created.
CommitConversion(o) ==
    LET work == handling[o] IN
    /\ work.op = "convert"
    /\ \E i \in Inspection :
          /\ opened[i] = Absent
          /\ opened' = [opened EXCEPT ![i] = [complaint |-> work.c, took |-> work.takes]]
    /\ Update(o, [state |-> IF work.takes THEN "inspection_created" ELSE complaint[work.c].state,
                  assigned |-> TRUE])

AbortWork(o) ==
    /\ handling[o] # Idle
    /\ handling' = Ended(handling, o, {})
    /\ UNCHANGED <<complaint, opened>>

-----------------------------------------------------------------------------
ComplaintNext ==
    \/ Submit
    \/ OpenElsewhere
    \/ \E o \in Officer :
          \/ \E c \in Complaint :
                BeginTriage(o, c) \/ BeginAssignment(o, c) \/ BeginConversion(o, c) \/ BeginMove(o, c)
          \/ CommitTriage(o)
          \/ CommitAssignment(o)
          \/ CommitMove(o)
          \/ CommitConversion(o)
          \/ AbortWork(o)

ComplaintSpec == ComplaintInit /\ [][ComplaintNext]_complaintVars

-----------------------------------------------------------------------------
(* Properties                                                              *)

\* Requests that convert one complaint, having all found it waiting, do not
\* all open an inspection: one takes it on.
OneInspectionTakesTheComplaint ==
    \A c \in Complaint :
        Cardinality({i \in Inspection : opened[i] = [complaint |-> c, took |-> TRUE]}) <= 1
=============================================================================
