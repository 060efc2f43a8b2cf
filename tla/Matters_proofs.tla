--------------------------- MODULE Matters_proofs ---------------------------
(***************************************************************************)
(* Proofs about Matters, for any number of complaints, inspections, cases, *)
(* notices, products and requests in flight.  A request whose commit would *)
(* update a row is stopped by every other update of the row, so that what  *)
(* it read of the row's state still holds when it commits; what it read of *)
(* notices, and where merges lead, only grows.                             *)
(***************************************************************************)
EXTENDS Matters, FiniteSetTheorems, TLAPS

-----------------------------------------------------------------------------
\* What is in a set only once.
LEMMA AtMostOne ==
    ASSUME NEW S, \A x, y \in S : x = y
    PROVE  Cardinality(S) <= 1
<1>1. CASE S = {}
  BY <1>1, FS_EmptySet
<1>2. CASE S # {}
  <2>1. PICK x \in S : TRUE
    BY <1>2
  <2>2. S = {x}
    BY <2>1
  <2> QED
    BY <2>2, FS_Singleton
<1> QED
  BY <1>1, <1>2

-----------------------------------------------------------------------------
(* Complaints                                                              *)

Waiting == {"received", "triaged", "assigned"}

\* The inspection that took complaint c on.
Took(i, c) == opened[i] = [complaint |-> c, took |-> TRUE]

\* A conversion that will take a complaint on has read it waiting, and a move
\* the source of its edge.
WorkHolds ==
    \A o \in Officer :
        /\ handling[o] \notin {Idle, Stale} => complaint[handling[o].c] # Absent
        /\ handling[o].op = "convert" /\ handling[o].takes =>
              handling[o].writes /\ complaint[handling[o].c].state \in Waiting
        /\ handling[o].op = "move" =>
              <<complaint[handling[o].c].state, handling[o].target>> \in ComplaintEdge

\* A complaint that was taken on waits no more, and was taken on once.
TakenOnOnce ==
    \A c \in Complaint, i \in Inspection : Took(i, c) =>
        /\ complaint[c] # Absent /\ complaint[c].state \notin Waiting
        /\ \A k \in Inspection : Took(k, c) => k = i

ComplaintIInv == ComplaintTypeOK /\ WorkHolds /\ TakenOnOnce

\* What the operation of a piece of work says about its fields.
LEMMA WorkFields ==
    ASSUME ComplaintTypeOK, NEW o \in Officer
    PROVE  /\ handling[o].op \in {"triage", "assign", "move", "convert"} =>
                 /\ handling[o] \in Work /\ handling[o] \notin {Idle, Stale}
                 /\ handling[o].c \in Complaint /\ handling[o].writes \in BOOLEAN
           /\ handling[o].op = "move" => handling[o].target \in ComplaintState /\ handling[o].writes
           /\ handling[o].op = "convert" => handling[o].takes \in BOOLEAN
<1> DEFINE Early == [op : {"triage", "assign"}, c : Complaint, writes : BOOLEAN]
<1> DEFINE Moves == [op : {"move"}, c : Complaint, writes : {TRUE}, target : ComplaintState]
<1> DEFINE Converts == [op : {"convert"}, c : Complaint, writes : BOOLEAN, takes : BOOLEAN]
<1>0. Idle.op = "idle" /\ Stale.op = "stale"
  BY DEF Idle, Stale
<1>1. Work = Early \cup Moves \cup Converts
  BY DEF Work
<1>2. handling[o] \in {Idle, Stale} \/ handling[o] \in Early \/ handling[o] \in Moves
        \/ handling[o] \in Converts
  BY <1>1 DEF ComplaintTypeOK
<1> HIDE DEF Early, Moves, Converts
<1>3. CASE handling[o] \in {Idle, Stale}
  BY <1>0, <1>3
<1>4. CASE handling[o] \in Early
  <2>1. /\ handling[o].op \in {"triage", "assign"}
        /\ handling[o].c \in Complaint /\ handling[o].writes \in BOOLEAN
    BY <1>4 DEF Early
  <2> QED
    BY <1>0, <1>1, <1>4, <2>1
<1>5. CASE handling[o] \in Moves
  <2>1. /\ handling[o].op = "move" /\ handling[o].target \in ComplaintState
        /\ handling[o].c \in Complaint /\ handling[o].writes = TRUE
    BY <1>5 DEF Moves
  <2> QED
    BY <1>0, <1>1, <1>5, <2>1
<1>6. CASE handling[o] \in Converts
  <2>1. /\ handling[o].op = "convert" /\ handling[o].takes \in BOOLEAN
        /\ handling[o].c \in Complaint /\ handling[o].writes \in BOOLEAN
    BY <1>6 DEF Converts
  <2> QED
    BY <1>0, <1>1, <1>6, <2>1
<1> QED
  BY <1>2, <1>3, <1>4, <1>5, <1>6

LEMMA ComplaintInitIInv == ComplaintInit => ComplaintIInv
<1> SUFFICES ASSUME ComplaintInit PROVE ComplaintIInv
  OBVIOUS
<1>1. ComplaintTypeOK
  BY DEF ComplaintInit, ComplaintTypeOK
<1>2. WorkHolds
  <2>1. \A o \in Officer : handling[o] = Idle
    BY DEF ComplaintInit
  <2>2. Idle.op = "idle"
    BY DEF Idle
  <2> QED
    BY <2>1, <2>2 DEF WorkHolds
<1>3. TakenOnOnce
  <2> SUFFICES ASSUME NEW c \in Complaint, NEW i \in Inspection PROVE ~Took(i, c)
    BY DEF TakenOnOnce
  <2>1. [complaint |-> c, took |-> TRUE] \in Inspections
    BY DEF Inspections
  <2> QED
    BY <2>1, ComplaintAssumption DEF ComplaintInit, Took
<1> QED
  BY <1>1, <1>2, <1>3 DEF ComplaintIInv

\* Work that begins, from what it has read.
LEMMA TakeIInv ==
    ASSUME ComplaintIInv, NEW o \in Officer, NEW work \in Work, Take(o, work),
           complaint[work.c] # Absent,
           work.op = "convert" /\ work.takes => work.writes /\ complaint[work.c].state \in Waiting,
           work.op = "move" => <<complaint[work.c].state, work.target>> \in ComplaintEdge
    PROVE  ComplaintIInv'
<1> USE DEF ComplaintIInv, Take
<1>1. \A q \in Officer : handling'[q] = IF q = o THEN work ELSE handling[q]
  BY DEF ComplaintTypeOK
<1>2. ComplaintTypeOK'
  BY DEF ComplaintTypeOK
<1>3. WorkHolds'
  BY <1>1 DEF WorkHolds
<1>4. TakenOnOnce'
  BY DEF TakenOnOnce, Took
<1> QED
  BY <1>2, <1>3, <1>4

LEMMA BeginIInv ==
    ASSUME ComplaintIInv, NEW o \in Officer, NEW c \in Complaint,
           BeginTriage(o, c) \/ BeginAssignment(o, c) \/ BeginConversion(o, c) \/ BeginMove(o, c)
    PROVE  ComplaintIInv'
<1> USE DEF Work
<1>1. CASE BeginTriage(o, c)
  BY <1>1, TakeIInv DEF BeginTriage
<1>2. CASE BeginAssignment(o, c)
  BY <1>2, TakeIInv DEF BeginAssignment
<1>3. CASE BeginConversion(o, c)
  <2> DEFINE takes == complaint[c].state \in Waiting
  <2> DEFINE work == [op |-> "convert", c |-> c,
                      writes |-> takes \/ ~complaint[c].assigned, takes |-> takes]
  <2>1. Take(o, work) /\ complaint[c] # Absent
    BY <1>3 DEF BeginConversion, Waiting
  <2>2. takes \in BOOLEAN /\ (takes \/ ~complaint[c].assigned) \in BOOLEAN
    OBVIOUS
  <2>3. work \in Work
    BY <2>2
  <2> QED
    BY <2>1, <2>3, TakeIInv
<1>4. CASE BeginMove(o, c)
  BY <1>4, TakeIInv DEF BeginMove
<1> QED
  BY <1>1, <1>2, <1>3, <1>4
\* A request that writes stops every other that was going to: what the others
\* go by is not touched.
LEMMA UpdateHolds ==
    ASSUME ComplaintTypeOK, WorkHolds, NEW o \in Officer,
           handling[o].op \in {"triage", "assign", "move", "convert"},
           NEW row \in Complaints, Update(o, row)
    PROVE  /\ complaint' \in [Complaint -> Complaints \cup {Absent}]
           /\ handling' \in [Officer -> {Idle, Stale} \cup Work]
           /\ WorkHolds'
           /\ \A c \in Complaint : complaint'[c] = complaint[c]
                                     \/ (c = handling[o].c /\ complaint'[c] = row)
<1> DEFINE mine == handling[o].c
<1>0. mine \in Complaint /\ handling[o].writes \in BOOLEAN
  BY WorkFields
<1>1. \A c \in Complaint : complaint'[c] = IF handling[o].writes /\ c = mine THEN row
                                                                           ELSE complaint[c]
  BY DEF Update, ComplaintTypeOK
<1>2. \A q \in Officer : handling'[q] = Idle \/ handling'[q] = Stale
         \/ (handling'[q] = handling[q]
               /\ (handling[o].writes => q \notin Writers(mine)))
  BY DEF Update, Ended, ComplaintTypeOK
<1>3. complaint' \in [Complaint -> Complaints \cup {Absent}]
  BY <1>0 DEF Update, ComplaintTypeOK
<1>4. handling' \in [Officer -> {Idle, Stale} \cup Work]
  BY DEF Update, Ended, ComplaintTypeOK
<1>5. Absent # row
  BY ComplaintAssumption
<1>6. Idle.op = "idle" /\ Stale.op = "stale"
  BY DEF Idle, Stale
<1>7. ASSUME NEW q \in Officer
      PROVE  /\ handling'[q] \notin {Idle, Stale} => complaint'[handling'[q].c] # Absent
             /\ handling'[q].op = "convert" /\ handling'[q].takes =>
                   handling'[q].writes /\ complaint'[handling'[q].c].state \in Waiting
             /\ handling'[q].op = "move" =>
                   <<complaint'[handling'[q].c].state, handling'[q].target>> \in ComplaintEdge
  <2>1. CASE handling'[q] \in {Idle, Stale}
    BY <1>6, <2>1
  <2>2. CASE handling'[q] \notin {Idle, Stale}
    <3>1. handling'[q] = handling[q]
      BY <1>2, <2>2
    <3>2. handling[q] \in Work
      BY <2>2, <3>1 DEF ComplaintTypeOK
    <3>3. handling[q].c \in Complaint
      BY <3>2 DEF Work
    <3>4. CASE handling[o].writes /\ handling[q].c = mine
      <4>1. ~handling[q].writes
        BY <1>2, <2>2, <3>1, <3>4 DEF Writers
      <4>2. handling[q].op # "move"
        BY <4>1, WorkFields
      <4>3. ~(handling[q].op = "convert" /\ handling[q].takes)
        BY <4>1 DEF WorkHolds
      <4>4. complaint'[handling[q].c] # Absent
        BY <1>1, <1>5, <3>3, <3>4
      <4> QED
        BY <3>1, <4>2, <4>3, <4>4
    <3>5. CASE ~(handling[o].writes /\ handling[q].c = mine)
      <4>1. complaint'[handling[q].c] = complaint[handling[q].c]
        BY <1>1, <3>3, <3>5
      <4> QED
        BY <2>2, <3>1, <4>1 DEF WorkHolds
    <3> QED
      BY <3>4, <3>5
  <2> QED
    BY <2>1, <2>2
<1>8. WorkHolds'
  BY <1>7 DEF WorkHolds
<1> QED
  BY <1>1, <1>3, <1>4, <1>8

\* The state that a complaint is left in by a request that opens no inspection.
LEMMA UpdateIInv ==
    ASSUME ComplaintIInv, NEW o \in Officer,
           handling[o].op \in {"triage", "assign", "move", "convert"},
           NEW row \in Complaints, Update(o, row), opened' = opened,
           complaint[handling[o].c].state \notin Waiting => row.state \notin Waiting
    PROVE  ComplaintIInv'
<1>1. /\ complaint' \in [Complaint -> Complaints \cup {Absent}]
      /\ handling' \in [Officer -> {Idle, Stale} \cup Work]
      /\ WorkHolds'
      /\ \A c \in Complaint : complaint'[c] = complaint[c]
                                \/ (c = handling[o].c /\ complaint'[c] = row)
  BY UpdateHolds DEF ComplaintIInv
<1>2. ComplaintTypeOK'
  BY <1>1 DEF ComplaintIInv, ComplaintTypeOK
<1>3. row # Absent
  BY ComplaintAssumption
<1>4. TakenOnOnce'
  <2>1. \A d \in Complaint, k \in Inspection : Took(k, d)' <=> Took(k, d)
    BY DEF Took
  <2> QED
    BY <1>1, <1>3, <2>1 DEF ComplaintIInv, TakenOnOnce
<1> QED
  BY <1>1, <1>2, <1>4 DEF ComplaintIInv

LEMMA CommitIInv ==
    ASSUME ComplaintIInv, NEW o \in Officer,
           CommitTriage(o) \/ CommitAssignment(o) \/ CommitMove(o)
    PROVE  ComplaintIInv'
<1> DEFINE c == handling[o].c
<1>0. handling[o].op \in {"triage", "assign", "move"}
  BY DEF CommitTriage, CommitAssignment, CommitMove
<1>1. c \in Complaint /\ handling[o] \notin {Idle, Stale}
  BY <1>0, WorkFields DEF ComplaintIInv
<1>2. complaint[c] \in Complaints
  BY <1>1 DEF ComplaintIInv, ComplaintTypeOK, WorkHolds
<1>3. CASE CommitTriage(o)
  BY <1>2, <1>3, UpdateIInv DEF CommitTriage
<1>4. CASE CommitAssignment(o)
  <2> DEFINE row == [complaint[c] EXCEPT !.assigned = TRUE]
  <2>1. row \in Complaints /\ row.state = complaint[c].state
    BY <1>2 DEF Complaints
  <2> QED
    BY <1>4, <2>1, UpdateIInv DEF CommitAssignment
<1>5. CASE CommitMove(o)
  <2> DEFINE target == handling[o].target
  <2> DEFINE row == [complaint[c] EXCEPT !.state = target]
  <2>1. target \in ComplaintState
    BY <1>5, WorkFields DEF CommitMove, ComplaintIInv
  <2>2. row \in Complaints /\ row.state = target
    BY <1>2, <2>1 DEF Complaints
  <2>3. <<complaint[c].state, target>> \in ComplaintEdge
    BY <1>5 DEF CommitMove, ComplaintIInv, WorkHolds
  <2>4. complaint[c].state \notin Waiting => target \notin Waiting
    BY <2>3 DEF ComplaintEdge, Waiting
  <2> QED
    BY <1>0, <1>5, <2>2, <2>4, UpdateIInv DEF CommitMove
<1> QED
  BY <1>3, <1>4, <1>5

\* A conversion opens an inspection.  If it takes the complaint on, it found it
\* waiting and no inspection had taken it on yet.
LEMMA ConversionIInv ==
    ASSUME ComplaintIInv, NEW o \in Officer, CommitConversion(o)
    PROVE  ComplaintIInv'
<1> DEFINE c == handling[o].c
<1> DEFINE takes == handling[o].takes
<1> DEFINE row == [state |-> IF takes THEN "inspection_created" ELSE complaint[c].state,
                   assigned |-> TRUE]
<1>0. handling[o].op = "convert" /\ Update(o, row)
  BY DEF CommitConversion
<1>1. c \in Complaint /\ handling[o] \notin {Idle, Stale} /\ takes \in BOOLEAN
        /\ handling[o].writes \in BOOLEAN
  BY <1>0, WorkFields DEF ComplaintIInv
<1>2. complaint[c] \in Complaints
  BY <1>1 DEF ComplaintIInv, ComplaintTypeOK, WorkHolds
<1>3. row \in Complaints
  BY <1>1, <1>2 DEF Complaints, ComplaintState
<1>4. PICK i \in Inspection : opened[i] = Absent
                  /\ opened' = [opened EXCEPT ![i] = [complaint |-> c, took |-> takes]]
  BY DEF CommitConversion
<1>5. /\ complaint' \in [Complaint -> Complaints \cup {Absent}]
      /\ handling' \in [Officer -> {Idle, Stale} \cup Work]
      /\ WorkHolds'
      /\ \A d \in Complaint : complaint'[d] = complaint[d] \/ (d = c /\ complaint'[d] = row)
  BY <1>0, <1>3, UpdateHolds DEF ComplaintIInv
<1>6. ComplaintTypeOK'
  BY <1>1, <1>4, <1>5 DEF ComplaintIInv, ComplaintTypeOK, Inspections
<1>7. TakenOnOnce'
  <2> DEFINE Takes(k, d) == opened'[k] = [complaint |-> d, took |-> TRUE]
  <2> SUFFICES ASSUME NEW d \in Complaint, NEW j \in Inspection, Takes(j, d)
               PROVE  /\ complaint'[d] # Absent /\ complaint'[d].state \notin Waiting
                      /\ \A k \in Inspection : Takes(k, d) => k = j
    BY DEF TakenOnOnce, Took
  <2>1. \A k \in Inspection : opened'[k] = IF k = i THEN [complaint |-> c, took |-> takes]
                                                    ELSE opened[k]
    BY <1>4 DEF ComplaintIInv, ComplaintTypeOK
  <2>2. \A k \in Inspection : Takes(k, d) => Took(k, d) \/ (k = i /\ takes /\ d = c)
    BY <2>1 DEF Took
  <2>3. row # Absent
    BY <1>3, ComplaintAssumption
  <2>4. CASE takes /\ d = c
    <3>1. handling[o].writes /\ complaint[c].state \in Waiting
      BY <1>0, <2>4 DEF ComplaintIInv, WorkHolds
    <3>2. \A k \in Inspection : ~Took(k, c)
      BY <1>1, <3>1 DEF ComplaintIInv, TakenOnOnce
    <3>3. complaint'[c] = row
      BY <1>0, <1>1, <3>1 DEF Update, ComplaintIInv, ComplaintTypeOK
    <3>4. row.state \notin Waiting
      BY <2>4 DEF Waiting
    <3> QED
      BY <2>2, <2>3, <2>4, <3>2, <3>3, <3>4
  <2>5. CASE ~(takes /\ d = c)
    <3>1. \A k \in Inspection : Takes(k, d) => Took(k, d)
      BY <2>2, <2>5
    <3>2. /\ complaint[d] # Absent /\ complaint[d].state \notin Waiting
          /\ \A k \in Inspection : Took(k, d) => k = j
      BY <3>1 DEF ComplaintIInv, TakenOnOnce
    <3>3. d = c => row.state = complaint[d].state
      BY <2>5
    <3>4. complaint'[d] # Absent /\ complaint'[d].state \notin Waiting
      BY <1>5, <2>3, <3>2, <3>3
    <3> QED
      BY <3>1, <3>2, <3>4
  <2> QED
    BY <2>4, <2>5
<1> QED
  BY <1>5, <1>6, <1>7 DEF ComplaintIInv

LEMMA ComplaintNextIInv ==
    ASSUME ComplaintIInv, ComplaintNext
    PROVE  ComplaintIInv'
<1>1. CASE Submit
  <2>1. PICK c \in Complaint : complaint[c] = Absent
           /\ complaint' = [complaint EXCEPT ![c] = [state |-> "received", assigned |-> FALSE]]
    BY <1>1 DEF Submit
  <2>2. [state |-> "received", assigned |-> FALSE] \in Complaints
    BY DEF Complaints, ComplaintState
  <2>3. \A d \in Complaint : complaint[d] # Absent => complaint'[d] = complaint[d]
    BY <2>1 DEF ComplaintIInv, ComplaintTypeOK
  <2>4. ComplaintTypeOK'
    BY <1>1, <2>1, <2>2 DEF Submit, ComplaintIInv, ComplaintTypeOK
  <2>5. \A o \in Officer : handling[o] \notin {Idle, Stale} =>
           /\ complaint'[handling[o].c] = complaint[handling[o].c]
           /\ complaint[handling[o].c] # Absent
    <3>1. \A o \in Officer : handling[o] \notin {Idle, Stale} => handling[o].c \in Complaint
      BY DEF ComplaintIInv, ComplaintTypeOK, Work
    <3> QED
      BY <2>3, <3>1 DEF ComplaintIInv, WorkHolds
  <2>6. \A o \in Officer : handling[o] \in {Idle, Stale} => handling[o].op \in {"idle", "stale"}
    BY DEF Idle, Stale
  <2>7. WorkHolds'
    BY <1>1, <2>5, <2>6 DEF Submit, ComplaintIInv, WorkHolds
  <2>8. TakenOnOnce'
    <3>1. \A d \in Complaint, k \in Inspection : Took(k, d)' <=> Took(k, d)
      BY <1>1 DEF Submit, Took
    <3> QED
      BY <2>3, <3>1 DEF ComplaintIInv, TakenOnOnce
  <2> QED
    BY <2>4, <2>7, <2>8 DEF ComplaintIInv
<1>2. CASE OpenElsewhere
  <2>1. PICK i \in Inspection, c \in Complaint :
           opened' = [opened EXCEPT ![i] = [complaint |-> c, took |-> FALSE]]
    BY <1>2 DEF OpenElsewhere
  <2>2. \A d \in Complaint, k \in Inspection : Took(k, d)' => Took(k, d)
    BY <2>1 DEF Took, ComplaintIInv, ComplaintTypeOK
  <2>3. ComplaintTypeOK'
    BY <1>2, <2>1 DEF OpenElsewhere, ComplaintIInv, ComplaintTypeOK, Inspections
  <2>4. WorkHolds'
    BY <1>2 DEF OpenElsewhere, ComplaintIInv, WorkHolds
  <2>5. TakenOnOnce'
    BY <1>2, <2>2 DEF OpenElsewhere, ComplaintIInv, TakenOnOnce
  <2> QED
    BY <2>3, <2>4, <2>5 DEF ComplaintIInv
<1>3. ASSUME NEW o \in Officer, AbortWork(o) PROVE ComplaintIInv'
  <2>1. \A q \in Officer : handling'[q] = Idle \/ handling'[q] = handling[q]
    BY <1>3 DEF AbortWork, Ended, ComplaintIInv, ComplaintTypeOK
  <2>2. ComplaintTypeOK'
    BY <1>3 DEF AbortWork, Ended, ComplaintIInv, ComplaintTypeOK
  <2>3. Idle.op = "idle"
    BY DEF Idle
  <2>4. WorkHolds'
    BY <1>3, <2>1, <2>3 DEF AbortWork, ComplaintIInv, WorkHolds
  <2>5. TakenOnOnce'
    BY <1>3 DEF AbortWork, ComplaintIInv, TakenOnOnce, Took
  <2> QED
    BY <2>2, <2>4, <2>5 DEF ComplaintIInv
<1> QED
  BY <1>1, <1>2, <1>3, BeginIInv, CommitIInv, ConversionIInv DEF ComplaintNext

-----------------------------------------------------------------------------
(* Cases                                                                   *)

\* What a request has read of its case still holds; of its notice, that it is
\* under the case, and what it had already been through.
Held(r) ==
    /\ req[r].op = "open" /\ req[r].moves => inspection = "report_issued"
    /\ req[r].op \in {"issue", "delivery", "response", "move"} => case[req[r].case] # None
    /\ req[r].op = "issue" =>
          case[req[r].case].state = "draft" /\ req[r].notice \in Under(req[r].case)
    /\ req[r].op = "delivery" =>
          /\ case[req[r].case].state = "notice_issued" /\ req[r].notice \in Under(req[r].case)
          /\ notice[req[r].notice].issued
    /\ req[r].op = "response" =>
          case[req[r].case].state = "awaiting_response" /\ req[r].notice \in Under(req[r].case)
    /\ req[r].op = "move" =>
          /\ <<case[req[r].case].state, req[r].target>> \in CaseEdge
          /\ req[r].target = "awaiting_response" =>
                \E n \in Under(req[r].case) : notice[n].delivered

RequestsHold == \A r \in Clerk : Held(r)

\* An inspection whose report was issued and that no case has moved yet.
MovedOnce ==
    /\ inspection = "report_issued" => \A c \in Case : case[c] # None => ~case[c].moved
    /\ \A c, d \in Case : case[c] # None /\ case[d] # None /\ case[c].moved /\ case[d].moved
                             => c = d

\* The notices of a case in draft are not issued, and delivered ones are.
NoticesHold ==
    \A n \in Notice : notice[n] # None =>
        /\ case[notice[n].case] # None
        /\ notice[n].issued => case[notice[n].case].state # "draft"
        /\ notice[n].delivered => notice[n].issued

IssuedOnce ==
    \A n, m \in Notice : notice[n] # None /\ notice[m] # None /\ notice[n].case = notice[m].case
                            /\ notice[n].issued /\ notice[m].issued => n = m

CaseIInv ==
    CaseTypeOK /\ RequestsHold /\ MovedOnce /\ NoticesHold /\ IssuedOnce /\ ProceedingsRestOnService

\* What the operation of a request says about its fields.
LEMMA RequestFields ==
    ASSUME CaseTypeOK, NEW r \in Clerk
    PROVE  /\ req[r].op = "open" => req[r].moves \in BOOLEAN
           /\ req[r].op \in {"issue", "delivery", "response"} => req[r].notice \in Notice
           /\ req[r].op \in {"issue", "delivery", "response", "move"} => req[r].case \in Case
           /\ req[r].op = "move" => req[r].target \in CaseState
           /\ req[r] \notin {Idle, Stale} <=>
                 req[r].op \in {"open", "issue", "delivery", "response", "move"}
<1>0. Idle.op = "idle" /\ Stale.op = "stale"
  BY DEF Idle, Stale
<1>1. req[r] \in {Idle, Stale} \/ req[r] \in Openings \/ req[r] \in Services \/ req[r] \in Changes
  BY DEF CaseTypeOK
<1>2. CASE req[r] \in {Idle, Stale}
  BY <1>0, <1>2
<1>3. CASE req[r] \in Openings
  <2>1. req[r].op = "open" /\ req[r].moves \in BOOLEAN
    BY <1>3 DEF Openings
  <2> QED
    BY <1>0, <2>1
<1>4. CASE req[r] \in Services
  <2>1. req[r].op \in {"issue", "delivery", "response"} /\ req[r].notice \in Notice
           /\ req[r].case \in Case
    BY <1>4 DEF Services
  <2> QED
    BY <1>0, <2>1
<1>5. CASE req[r] \in Changes
  <2>1. req[r].op = "move" /\ req[r].target \in CaseState /\ req[r].case \in Case
    BY <1>5 DEF Changes
  <2> QED
    BY <1>0, <2>1
<1> QED
  BY <1>1, <1>2, <1>3, <1>4, <1>5

\* A notice stays under its case, and keeps what it has been through.
Grows ==
    \A n \in Notice : notice[n] # None =>
        /\ notice'[n] # None /\ notice'[n].case = notice[n].case
        /\ notice[n].issued => notice'[n].issued
        /\ notice[n].delivered => notice'[n].delivered

\* A request that goes on goes by what it has read, if its case and the
\* inspection are as they were.
LEMMA HeldStays ==
    ASSUME CaseTypeOK, NEW r \in Clerk, Held(r), Grows, req'[r] = req[r],
           req[r].op = "open" /\ req[r].moves => inspection' = inspection,
           req[r].op \in {"issue", "delivery", "response", "move"} =>
              case'[req[r].case] = case[req[r].case]
    PROVE  Held(r)'
<1>1. \A c \in Case : Under(c) \subseteq Under(c)'
  BY DEF Grows, Under
<1>2. \A n \in Notice, c \in Case : n \in Under(c) =>
         /\ notice[n].issued => notice'[n].issued
         /\ notice[n].delivered => notice'[n].delivered
  BY DEF Grows, Under
<1>3. CASE req[r].op \in {"issue", "delivery", "response", "move"}
  <2> DEFINE c == req[r].case
  <2>1. c \in Case /\ case'[c] = case[c] /\ case[c] # None /\ c' = c
    BY <1>3, RequestFields DEF Held
  <2>2. Under(c) \subseteq Under(c)' /\ Under(c) \subseteq Notice
    BY <1>1, <2>1 DEF Under
  <2>3. CASE req[r].op \in {"issue", "response"}
    BY <2>1, <2>2, <2>3 DEF Held
  <2>4. CASE req[r].op = "delivery"
    <3>1. req[r].notice \in Under(c) /\ notice'[req[r].notice].issued
      BY <1>2, <2>1, <2>2, <2>4 DEF Held
    <3> QED
      BY <2>1, <2>2, <2>4, <3>1 DEF Held
  <2>5. CASE req[r].op = "move"
    <3>1. <<case'[c].state, req[r].target>> \in CaseEdge
      BY <2>1, <2>5 DEF Held
    <3>2. req[r].target = "awaiting_response" => \E n \in Under(c)' : notice'[n].delivered
      BY <1>2, <2>1, <2>2, <2>5 DEF Held
    <3> QED
      BY <2>1, <2>5, <3>1, <3>2 DEF Held
  <2> QED
    BY <1>3, <2>3, <2>4, <2>5
<1>4. CASE req[r].op \notin {"issue", "delivery", "response", "move"}
  BY <1>4 DEF Held
<1> QED
  BY <1>3, <1>4

LEMMA EndedHolds ==
    ASSUME NEW r \in Clerk, req'[r] \in {Idle, Stale}
    PROVE  Held(r)'
  BY DEF Held, Idle, Stale

LEMMA CaseInitIInv == CaseInit => CaseIInv
<1> SUFFICES ASSUME CaseInit PROVE CaseIInv
  OBVIOUS
<1> USE DEF CaseInit
<1>1. CaseTypeOK
  BY DEF CaseTypeOK
<1>2. RequestsHold
  BY DEF RequestsHold, Held, Idle
<1>3. MovedOnce /\ NoticesHold /\ IssuedOnce
  BY DEF MovedOnce, NoticesHold, IssuedOnce
<1>4. ProceedingsRestOnService
  BY DEF ProceedingsRestOnService
<1> QED
  BY <1>1, <1>2, <1>3, <1>4 DEF CaseIInv

\* A request begins by what it reads.
LEMMA BeginCaseIInv ==
    ASSUME CaseIInv, NEW r \in Clerk, BeginCase(r)
    PROVE  CaseIInv'
<1> DEFINE All == {Idle, Stale} \cup Openings \cup Services \cup Changes
<1>1. /\ UNCHANGED <<inspection, reported, case, notice>>
      /\ \E request \in All : req' = [req EXCEPT ![r] = request]
      /\ Held(r)'
  <2>0. CaseTypeOK
    BY DEF CaseIInv
  <2>1. CASE BeginOpen(r)
    <3> DEFINE request == [op |-> "open", moves |-> inspection = "report_issued"]
    <3>1. request \in All
      BY DEF Openings
    <3>2. UNCHANGED <<inspection, reported, case, notice>> /\ req' = [req EXCEPT ![r] = request]
      BY <2>1 DEF BeginOpen, Start
    <3>3. req'[r] = request
      BY <2>0, <3>2 DEF CaseTypeOK
    <3>4. PICK moves \in BOOLEAN : /\ request = [op |-> "open", moves |-> moves]
                                  /\ moves = (inspection = "report_issued")
      OBVIOUS
    <3> HIDE DEF request
    <3>5. /\ req'[r] = [op |-> "open", moves |-> moves]
          /\ moves => inspection' = "report_issued"
      BY <3>2, <3>3, <3>4
    <3>6. req'[r].op = "open" /\ (req'[r].moves => inspection' = "report_issued")
      BY <3>5
    <3>7. Held(r)'
      BY <3>6 DEF Held
    <3> QED
      BY <3>1, <3>2, <3>7
  <2>2. CASE BeginIssue(r)
    <3>1. PICK c \in Case : \E n \in Under(c) :
             /\ HasEdge(c, "notice_issued")
             /\ Start(r, [op |-> "issue", case |-> c, notice |-> n])
      BY <2>2 DEF BeginIssue
    <3>2. PICK n \in Under(c) :
             /\ HasEdge(c, "notice_issued")
             /\ Start(r, [op |-> "issue", case |-> c, notice |-> n])
      BY <3>1
    <3> DEFINE request == [op |-> "issue", case |-> c, notice |-> n]
    <3>3. n \in Notice /\ request \in All
      BY DEF Under, Services
    <3>4. UNCHANGED <<inspection, reported, case, notice>> /\ req' = [req EXCEPT ![r] = request]
      BY <3>2 DEF Start
    <3>5. req'[r] = request
      BY <2>0, <3>4 DEF CaseTypeOK
    <3>6. case[c] # None /\ case[c].state = "draft"
      BY <3>2 DEF HasEdge, CaseEdge
    <3>7. Under(c)' = Under(c)
      BY <3>4 DEF Under
    <3>8. Held(r)'
      BY <3>4, <3>5, <3>6, <3>7 DEF Held
    <3> QED
      BY <3>3, <3>4, <3>8
  <2>3. CASE BeginDelivery(r)
    <3>1. PICK c \in Case : \E n \in Under(c) :
             /\ HasEdge(c, "awaiting_response") /\ notice[n].issued
             /\ Start(r, [op |-> "delivery", case |-> c, notice |-> n])
      BY <2>3 DEF BeginDelivery
    <3>2. PICK n \in Under(c) :
             /\ HasEdge(c, "awaiting_response") /\ notice[n].issued
             /\ Start(r, [op |-> "delivery", case |-> c, notice |-> n])
      BY <3>1
    <3> DEFINE request == [op |-> "delivery", case |-> c, notice |-> n]
    <3>3. n \in Notice /\ request \in All
      BY DEF Under, Services
    <3>4. UNCHANGED <<inspection, reported, case, notice>> /\ req' = [req EXCEPT ![r] = request]
      BY <3>2 DEF Start
    <3>5. req'[r] = request
      BY <2>0, <3>4 DEF CaseTypeOK
    <3>6. case[c] # None /\ case[c].state = "notice_issued"
      BY <3>2 DEF HasEdge, CaseEdge
    <3>7. Under(c)' = Under(c)
      BY <3>4 DEF Under
    <3>8. Held(r)'
      BY <3>2, <3>4, <3>5, <3>6, <3>7 DEF Held
    <3> QED
      BY <3>3, <3>4, <3>8
  <2>4. CASE BeginResponse(r)
    <3>1. PICK c \in Case : \E n \in Under(c) :
             /\ HasEdge(c, "response_received")
             /\ Start(r, [op |-> "response", case |-> c, notice |-> n])
      BY <2>4 DEF BeginResponse
    <3>2. PICK n \in Under(c) :
             /\ HasEdge(c, "response_received")
             /\ Start(r, [op |-> "response", case |-> c, notice |-> n])
      BY <3>1
    <3> DEFINE request == [op |-> "response", case |-> c, notice |-> n]
    <3>3. n \in Notice /\ request \in All
      BY DEF Under, Services
    <3>4. UNCHANGED <<inspection, reported, case, notice>> /\ req' = [req EXCEPT ![r] = request]
      BY <3>2 DEF Start
    <3>5. req'[r] = request
      BY <2>0, <3>4 DEF CaseTypeOK
    <3>6. case[c] # None /\ case[c].state = "awaiting_response"
      BY <3>2 DEF HasEdge, CaseEdge
    <3>7. Under(c)' = Under(c)
      BY <3>4 DEF Under
    <3>8. Held(r)'
      BY <3>4, <3>5, <3>6, <3>7 DEF Held
    <3> QED
      BY <3>3, <3>4, <3>8
  <2>5. CASE BeginChange(r)
    <3>1. PICK c \in Case, target \in CaseState :
             /\ HasEdge(c, target) /\ NoticeGuard(c, target)
             /\ Start(r, [op |-> "move", case |-> c, target |-> target])
      BY <2>5 DEF BeginChange
    <3> DEFINE request == [op |-> "move", case |-> c, target |-> target]
    <3>3. request \in All
      BY DEF Changes
    <3>4. UNCHANGED <<inspection, reported, case, notice>> /\ req' = [req EXCEPT ![r] = request]
      BY <3>1 DEF Start
    <3>5. req'[r] = request
      BY <2>0, <3>4 DEF CaseTypeOK
    <3>6. case[c] # None /\ <<case[c].state, target>> \in CaseEdge
      BY <3>1 DEF HasEdge
    <3>7. target = "awaiting_response" => \E n \in Under(c)' : notice'[n].delivered
      BY <3>1, <3>4 DEF NoticeGuard, Under
    <3>8. Held(r)'
      BY <3>4, <3>5, <3>6, <3>7 DEF Held
    <3> QED
      BY <3>3, <3>4, <3>8
  <2> QED
    BY <2>1, <2>2, <2>3, <2>4, <2>5 DEF BeginCase
<1>2. CaseTypeOK'
  BY <1>1 DEF CaseIInv, CaseTypeOK
<1>3. RequestsHold'
  <2> SUFFICES ASSUME NEW q \in Clerk PROVE Held(q)'
    BY DEF RequestsHold
  <2>1. CASE q = r
    BY <1>1, <2>1
  <2>2. CASE q # r
    <3>1. req'[q] = req[q]
      BY <1>1, <2>2 DEF CaseIInv, CaseTypeOK
    <3> QED
      BY <1>1, <3>1, HeldStays DEF CaseIInv, RequestsHold, Grows
  <2> QED
    BY <2>1, <2>2
<1>4. MovedOnce' /\ NoticesHold' /\ IssuedOnce'
  BY <1>1 DEF CaseIInv, MovedOnce, NoticesHold, IssuedOnce
<1>5. ProceedingsRestOnService'
  <2>1. \A c \in Case : Under(c)' = Under(c)
    BY <1>1 DEF Under
  <2> QED
    BY <1>1, <2>1 DEF CaseIInv, ProceedingsRestOnService
<1> QED
  BY <1>2, <1>3, <1>4, <1>5 DEF CaseIInv

-----------------------------------------------------------------------------
(* What happens to the case of a request that goes through                 *)

Changing == {"issue", "delivery", "response", "move"}

\* A request that updates its case stops every other about it.
LEMMA ChangeHolds ==
    ASSUME CaseTypeOK, RequestsHold, MovedOnce, NEW r \in Clerk, req[r].op \in Changing,
           NEW target \in CaseState, Change(r, target), Grows
    PROVE  /\ case' \in [Case -> Cases \cup {None}]
           /\ req' \in [Clerk -> {Idle, Stale} \cup Openings \cup Services \cup Changes]
           /\ RequestsHold' /\ MovedOnce'
           /\ case'[req[r].case] # None /\ case'[req[r].case].state = target
           /\ \A c \in Case : case[c] # None => case'[c] # None
           /\ \A c \in Case : c # req[r].case => case'[c] = case[c]
<1> DEFINE mine == req[r].case
<1>1. mine \in Case
  BY RequestFields DEF Changing
<1>2. case[mine] # None /\ case[mine] \in Cases
  BY <1>1 DEF RequestsHold, Held, Changing, CaseTypeOK
<1> DEFINE row == [case[mine] EXCEPT !.state = target]
<1>3. row \in Cases /\ row.state = target /\ row.moved = case[mine].moved
  BY <1>2 DEF Cases
<1>4. case' = [case EXCEPT ![mine] = row]
  BY DEF Change
<1>5. row # None
  BY <1>3, CaseAssumption
<1> HIDE DEF row
<1>6. case'[mine] = row /\ \A c \in Case : c # mine => case'[c] = case[c]
  BY <1>1, <1>4 DEF CaseTypeOK
<1>7. \A q \in Clerk : req'[q] \in {Idle, Stale} \/ (req'[q] = req[q] /\ q \notin About(mine))
  BY DEF Change, Ended, CaseTypeOK
<1>8. /\ case' \in [Case -> Cases \cup {None}]
      /\ req' \in [Clerk -> {Idle, Stale} \cup Openings \cup Services \cup Changes]
  BY <1>1, <1>3, <1>4 DEF Change, Ended, CaseTypeOK
<1>9. RequestsHold'
  <2> SUFFICES ASSUME NEW q \in Clerk PROVE Held(q)'
    BY DEF RequestsHold
  <2>1. CASE req'[q] \in {Idle, Stale}
    BY <2>1, EndedHolds
  <2>2. CASE req'[q] = req[q] /\ q \notin About(mine)
    <3>1. req[q].op \in Changing => req[q].case \in Case /\ req[q].case # mine
      BY <2>2, RequestFields DEF About, Changing
    <3>2. req[q].op \in Changing => case'[req[q].case] = case[req[q].case]
      BY <1>6, <3>1
    <3>3. inspection' = inspection
      BY DEF Change
    <3> QED
      BY <2>2, <3>2, <3>3, HeldStays DEF RequestsHold, Changing
  <2> QED
    BY <1>7, <2>1, <2>2
<1>10. MovedOnce'
  <2>1. \A c \in Case : case'[c] # None => case[c] # None /\ case'[c].moved = case[c].moved
    BY <1>2, <1>3, <1>6
  <2>2. inspection' = inspection
    BY DEF Change
  <2> QED
    BY <2>1, <2>2 DEF MovedOnce
<1> QED
  BY <1>3, <1>5, <1>6, <1>8, <1>9, <1>10

\* What a notice's issue, delivery or answer leaves of the notices.
LEMMA NoticeFieldHolds ==
    ASSUME CaseTypeOK, NEW n \in Notice, notice[n] # None,
           \/ notice' = [notice EXCEPT ![n].issued = TRUE]
           \/ notice' = [notice EXCEPT ![n].delivered = TRUE]
           \/ notice' = [notice EXCEPT ![n].answered = TRUE]
           \/ notice' = [notice EXCEPT ![n].withdrawn = TRUE]
    PROVE  /\ notice' \in [Notice -> Notices \cup {None}]
           /\ Grows
           /\ \A m \in Notice : m # n => notice'[m] = notice[m]
           /\ notice'[n] # None /\ notice'[n].case = notice[n].case
<1>1. notice[n] \in Notices
  BY DEF CaseTypeOK
<1>2. PICK row \in Notices : /\ notice' = [notice EXCEPT ![n] = row]
                             /\ row.case = notice[n].case
                             /\ notice[n].issued => row.issued
                             /\ notice[n].delivered => row.delivered
  <2>1. CASE notice' = [notice EXCEPT ![n].issued = TRUE]
    <3> DEFINE row == [notice[n] EXCEPT !.issued = TRUE]
    <3>1. row \in Notices /\ row.case = notice[n].case /\ row.issued
             /\ row.delivered = notice[n].delivered
      BY <1>1 DEF Notices
    <3> QED
      BY <2>1, <3>1
  <2>2. CASE notice' = [notice EXCEPT ![n].delivered = TRUE]
    <3> DEFINE row == [notice[n] EXCEPT !.delivered = TRUE]
    <3>1. row \in Notices /\ row.case = notice[n].case /\ row.delivered
             /\ row.issued = notice[n].issued
      BY <1>1 DEF Notices
    <3> QED
      BY <2>2, <3>1
  <2>3. CASE notice' = [notice EXCEPT ![n].answered = TRUE]
    <3> DEFINE row == [notice[n] EXCEPT !.answered = TRUE]
    <3>1. row \in Notices /\ row.case = notice[n].case
             /\ row.issued = notice[n].issued /\ row.delivered = notice[n].delivered
      BY <1>1 DEF Notices
    <3> QED
      BY <2>3, <3>1
  <2>4. CASE notice' = [notice EXCEPT ![n].withdrawn = TRUE]
    <3> DEFINE row == [notice[n] EXCEPT !.withdrawn = TRUE]
    <3>1. row \in Notices /\ row.case = notice[n].case
             /\ row.issued = notice[n].issued /\ row.delivered = notice[n].delivered
      BY <1>1 DEF Notices
    <3> QED
      BY <2>4, <3>1
  <2> QED
    BY <2>1, <2>2, <2>3, <2>4
<1>3. row # None
  BY CaseAssumption
<1>4. \A m \in Notice : notice'[m] = IF m = n THEN row ELSE notice[m]
  BY <1>2 DEF CaseTypeOK
<1>5. notice' \in [Notice -> Notices \cup {None}]
  BY <1>2 DEF CaseTypeOK
<1>6. Grows
  BY <1>2, <1>3, <1>4 DEF Grows
<1> QED
  BY <1>2, <1>3, <1>4, <1>5, <1>6

Later == CaseState \ {"draft", "notice_issued", "withdrawn", "closed"}

\* The notices under cases after a request about case c, given what it made of
\* the ones of c.
LEMMA ServiceHolds ==
    ASSUME CaseIInv, NEW c \in Case, NEW target \in CaseState, target # "draft", Grows,
           case' \in [Case -> Cases \cup {None}],
           notice' \in [Notice -> Notices \cup {None}],
           \A n \in Notice : notice'[n] # None => notice[n] # None /\ notice'[n].case = notice[n].case,
           \A n \in Notice : notice'[n] # None /\ notice'[n].case # c => notice'[n] = notice[n],
           case'[c] # None, case'[c].state = target,
           \A d \in Case : d # c => case'[d] = case[d],
           \A n \in Notice : notice'[n] # None /\ notice'[n].delivered => notice'[n].issued,
           \A n, m \in Notice : notice'[n] # None /\ notice'[m] # None /\ notice'[n].case = c
              /\ notice'[m].case = c /\ notice'[n].issued /\ notice'[m].issued => n = m,
           target \in Later =>
              \E n \in Notice : notice'[n] # None /\ notice'[n].case = c
                                  /\ notice'[n].issued /\ notice'[n].delivered
    PROVE  NoticesHold' /\ IssuedOnce' /\ ProceedingsRestOnService'
<1>1. NoticesHold'
  <2> SUFFICES ASSUME NEW n \in Notice, notice'[n] # None
               PROVE  /\ case'[notice'[n].case] # None
                      /\ notice'[n].issued => case'[notice'[n].case].state # "draft"
                      /\ notice'[n].delivered => notice'[n].issued
    BY DEF NoticesHold
  <2>1. notice'[n].case \in Case
    BY DEF Notices
  <2>2. CASE notice'[n].case = c
    BY <2>2
  <2>3. CASE notice'[n].case # c
    BY <2>1, <2>3 DEF CaseIInv, NoticesHold
  <2> QED
    BY <2>2, <2>3
<1>2. IssuedOnce'
  BY DEF CaseIInv, IssuedOnce
<1>3. ProceedingsRestOnService'
  <2> SUFFICES ASSUME NEW d \in Case, case'[d] # None,
                      case'[d].state \notin {"draft", "notice_issued", "withdrawn", "closed"}
               PROVE  \E n \in Notice : notice'[n] # None /\ notice'[n].case = d
                                          /\ notice'[n].issued /\ notice'[n].delivered
    BY DEF ProceedingsRestOnService, Under
  <2>1. CASE d = c
    BY <2>1 DEF Later
  <2>2. CASE d # c
    <3>1. case[d] # None /\ case[d].state \notin {"draft", "notice_issued", "withdrawn", "closed"}
      BY <2>2
    <3>2. PICK n \in Under(d) : notice[n].issued /\ notice[n].delivered
      BY <3>1 DEF CaseIInv, ProceedingsRestOnService
    <3>3. n \in Notice /\ notice[n] # None /\ notice[n].case = d
      BY DEF Under
    <3> QED
      BY <3>2, <3>3 DEF Grows
  <2> QED
    BY <2>1, <2>2
<1> QED
  BY <1>1, <1>2, <1>3

LEMMA CommitNoticeIInv ==
    ASSUME CaseIInv, NEW r \in Clerk, CommitIssue(r) \/ CommitDelivery(r) \/ CommitResponse(r)
    PROVE  CaseIInv'
<1> DEFINE c == req[r].case
<1> DEFINE n == req[r].notice
<1>0. req[r].op \in {"issue", "delivery", "response"}
  BY DEF CommitIssue, CommitDelivery, CommitResponse
<1>1. c \in Case /\ n \in Notice /\ n \in Under(c) /\ case[c] # None
  BY <1>0, RequestFields DEF CaseIInv, RequestsHold, Held
<1>2. notice[n] # None /\ notice[n].case = c /\ notice[n] \in Notices
  BY <1>1 DEF Under, CaseIInv, CaseTypeOK
<1>3. \/ notice' = [notice EXCEPT ![n].issued = TRUE]
      \/ notice' = [notice EXCEPT ![n].delivered = TRUE]
      \/ notice' = [notice EXCEPT ![n].answered = TRUE]
  BY DEF CommitIssue, CommitDelivery, CommitResponse
<1>4. /\ notice' \in [Notice -> Notices \cup {None}]
      /\ Grows
      /\ \A m \in Notice : m # n => notice'[m] = notice[m]
      /\ notice'[n] # None /\ notice'[n].case = c
  BY <1>1, <1>2, <1>3, NoticeFieldHolds DEF CaseIInv
<1>5. PICK target \in CaseState : /\ Change(r, target) /\ target # "draft"
                                  /\ target \in Later => req[r].op # "issue"
  BY DEF CommitIssue, CommitDelivery, CommitResponse, CaseState, Later
<1>6. /\ case' \in [Case -> Cases \cup {None}]
      /\ req' \in [Clerk -> {Idle, Stale} \cup Openings \cup Services \cup Changes]
      /\ RequestsHold' /\ MovedOnce'
      /\ case'[c] # None /\ case'[c].state = target
      /\ \A d \in Case : d # c => case'[d] = case[d]
  BY <1>0, <1>4, <1>5, ChangeHolds DEF Changing, CaseIInv
<1>7. CaseTypeOK'
  BY <1>4, <1>5, <1>6 DEF CaseIInv, CaseTypeOK, Change
<1>8. notice'[n].issued = (notice[n].issued \/ req[r].op = "issue")
      /\ notice'[n].delivered = (notice[n].delivered \/ req[r].op = "delivery")
  <2>1. notice[n].issued \in BOOLEAN /\ notice[n].delivered \in BOOLEAN
    BY <1>2 DEF Notices
  <2>2. CASE CommitIssue(r)
    <3>1. req[r].op = "issue" /\ notice'[n] = [notice[n] EXCEPT !.issued = TRUE]
      BY <1>1, <2>2 DEF CommitIssue, CaseIInv, CaseTypeOK
    <3>2. notice'[n].issued = TRUE /\ notice'[n].delivered = notice[n].delivered
      BY <1>2, <3>1 DEF Notices
    <3> QED
      BY <2>1, <3>1, <3>2
  <2>3. CASE CommitDelivery(r)
    <3>1. req[r].op = "delivery" /\ notice'[n] = [notice[n] EXCEPT !.delivered = TRUE]
      BY <1>1, <2>3 DEF CommitDelivery, CaseIInv, CaseTypeOK
    <3>2. notice'[n].delivered = TRUE /\ notice'[n].issued = notice[n].issued
      BY <1>2, <3>1 DEF Notices
    <3> QED
      BY <2>1, <3>1, <3>2
  <2>4. CASE CommitResponse(r)
    <3>1. req[r].op = "response" /\ notice'[n] = [notice[n] EXCEPT !.answered = TRUE]
      BY <1>1, <2>4 DEF CommitResponse, CaseIInv, CaseTypeOK
    <3>2. notice'[n].delivered = notice[n].delivered /\ notice'[n].issued = notice[n].issued
      BY <1>2, <3>1 DEF Notices
    <3> QED
      BY <2>1, <3>1, <3>2
  <2> QED
    BY <2>2, <2>3, <2>4
<1>9. req[r].op = "delivery" => notice[n].issued
  BY DEF CaseIInv, RequestsHold, Held
<1>10. \A m \in Notice : notice'[m] # None => notice[m] # None /\ notice'[m].case = notice[m].case
  BY <1>2, <1>4
<1>11. \A m \in Notice : notice'[m] # None /\ notice'[m].delivered => notice'[m].issued
  BY <1>1, <1>2, <1>4, <1>8, <1>9 DEF CaseIInv, NoticesHold
<1>12. \A m, k \in Notice : notice'[m] # None /\ notice'[k] # None /\ notice'[m].case = c
          /\ notice'[k].case = c /\ notice'[m].issued /\ notice'[k].issued => m = k
  <2>1. CASE req[r].op = "issue"
    <3>1. \A m \in Notice : notice[m] # None /\ notice[m].case = c => ~notice[m].issued
      BY <2>1 DEF CaseIInv, RequestsHold, Held, NoticesHold
    <3>2. \A m \in Notice : notice'[m] # None /\ notice'[m].case = c /\ notice'[m].issued => m = n
      BY <1>4, <3>1
    <3> QED
      BY <3>2
  <2>2. CASE req[r].op # "issue"
    <3>1. \A m \in Notice : notice'[m] # None /\ notice'[m].issued
                               => notice[m].issued /\ notice[m] # None
      BY <1>2, <1>4, <1>8, <2>2
    <3> QED
      BY <1>10, <3>1 DEF CaseIInv, IssuedOnce
  <2> QED
    BY <2>1, <2>2
<1>13. target \in Later =>
          \E m \in Notice : notice'[m] # None /\ notice'[m].case = c
                               /\ notice'[m].issued /\ notice'[m].delivered
  <2> SUFFICES ASSUME target \in Later
               PROVE  \E m \in Notice : notice'[m] # None /\ notice'[m].case = c
                                          /\ notice'[m].issued /\ notice'[m].delivered
    OBVIOUS
  <2>1. CASE req[r].op = "delivery"
    BY <1>1, <1>4, <1>8, <1>9, <2>1
  <2>2. CASE req[r].op = "response"
    <3>1. case[c].state = "awaiting_response"
      BY <2>2 DEF CaseIInv, RequestsHold, Held
    <3>2. PICK m \in Under(c) : notice[m].issued /\ notice[m].delivered
      BY <1>1, <3>1 DEF CaseIInv, ProceedingsRestOnService
    <3>3. m \in Notice /\ notice[m] # None /\ notice[m].case = c
      BY DEF Under
    <3> QED
      BY <1>4, <3>2, <3>3 DEF Grows
  <2> QED
    BY <1>0, <1>5, <2>1, <2>2
<1>14. NoticesHold' /\ IssuedOnce' /\ ProceedingsRestOnService'
  BY <1>1, <1>4, <1>5, <1>6, <1>10, <1>11, <1>12, <1>13, ServiceHolds
<1> QED
  BY <1>6, <1>7, <1>14 DEF CaseIInv

LEMMA CommitChangeIInv ==
    ASSUME CaseIInv, NEW r \in Clerk, CommitChange(r)
    PROVE  CaseIInv'
<1> DEFINE c == req[r].case
<1> DEFINE target == req[r].target
<1>0. req[r].op = "move" /\ notice' = notice /\ Change(r, target)
  BY DEF CommitChange
<1>1. c \in Case /\ target \in CaseState /\ case[c] # None
  BY <1>0, RequestFields DEF CaseIInv, RequestsHold, Held
<1>2. <<case[c].state, target>> \in CaseEdge
  BY <1>0 DEF CaseIInv, RequestsHold, Held
<1>3. Grows
  BY <1>0 DEF Grows
<1>4. /\ case' \in [Case -> Cases \cup {None}]
      /\ req' \in [Clerk -> {Idle, Stale} \cup Openings \cup Services \cup Changes]
      /\ RequestsHold' /\ MovedOnce'
      /\ case'[c] # None /\ case'[c].state = target
      /\ \A d \in Case : d # c => case'[d] = case[d]
  BY <1>0, <1>1, <1>3, ChangeHolds DEF Changing, CaseIInv
<1>5. CaseTypeOK'
  BY <1>0, <1>4 DEF CaseIInv, CaseTypeOK, Change
<1>6. target # "draft"
  BY <1>2 DEF CaseEdge
<1>7. target \in Later =>
         \E m \in Notice : notice[m] # None /\ notice[m].case = c
                             /\ notice[m].issued /\ notice[m].delivered
  <2>1. CASE target = "awaiting_response"
    <3>1. PICK m \in Under(c) : notice[m].delivered
      BY <1>0, <2>1 DEF CaseIInv, RequestsHold, Held
    <3>2. m \in Notice /\ notice[m] # None /\ notice[m].case = c
      BY DEF Under
    <3> QED
      BY <3>1, <3>2 DEF CaseIInv, NoticesHold
  <2>2. CASE target \in Later /\ target # "awaiting_response"
    <3>1. case[c].state \notin {"draft", "notice_issued", "withdrawn", "closed"}
      BY <1>2, <2>2 DEF CaseEdge, Later
    <3>2. PICK m \in Under(c) : notice[m].issued /\ notice[m].delivered
      BY <1>1, <3>1 DEF CaseIInv, ProceedingsRestOnService
    <3>3. m \in Notice /\ notice[m] # None /\ notice[m].case = c
      BY DEF Under
    <3> QED
      BY <3>2, <3>3
  <2> QED
    BY <2>1, <2>2
<1>8. /\ \A n \in Notice : notice[n] # None /\ notice[n].delivered => notice[n].issued
      /\ \A n, m \in Notice : notice[n] # None /\ notice[m] # None /\ notice[n].case = c
            /\ notice[m].case = c /\ notice[n].issued /\ notice[m].issued => n = m
      /\ notice \in [Notice -> Notices \cup {None}]
  BY DEF CaseIInv, CaseTypeOK, NoticesHold, IssuedOnce
<1>9. NoticesHold' /\ IssuedOnce' /\ ProceedingsRestOnService'
  BY <1>0, <1>1, <1>3, <1>4, <1>6, <1>7, <1>8, ServiceHolds
<1> QED
  BY <1>4, <1>5, <1>9 DEF CaseIInv

\* A case has no notice, and no request about it, when it is opened; the
\* inspection has not been moved, if this one moves it.
LEMMA CommitOpenIInv ==
    ASSUME CaseIInv, NEW r \in Clerk, CommitOpen(r)
    PROVE  CaseIInv'
<1> DEFINE moves == req[r].moves
<1>0. /\ req[r].op = "open" /\ notice' = notice /\ reported' = reported
      /\ inspection' = IF moves THEN "case_opened" ELSE inspection
      /\ req' = Ended(req, r, IF moves THEN OpensInFlight ELSE {})
  BY DEF CommitOpen
<1>1. PICK c \in Case : case[c] = None
                          /\ case' = [case EXCEPT ![c] = [state |-> "draft", moved |-> moves]]
  BY DEF CommitOpen
<1> DEFINE row == [state |-> "draft", moved |-> moves]
<1>2. moves \in BOOLEAN
  BY <1>0, RequestFields DEF CaseIInv
<1>3. row \in Cases /\ row # None /\ row.state = "draft" /\ row.moved = moves
  BY <1>2, CaseAssumption DEF Cases, CaseState
<1>4. \A d \in Case : case'[d] = IF d = c THEN row ELSE case[d]
  BY <1>1 DEF CaseIInv, CaseTypeOK
<1>5. CaseTypeOK'
  BY <1>0, <1>1, <1>2, <1>3 DEF CaseIInv, CaseTypeOK, Ended
<1> HIDE DEF row
<1>6. RequestsHold'
  <2> SUFFICES ASSUME NEW q \in Clerk PROVE Held(q)'
    BY DEF RequestsHold
  <2>1. req'[q] \in {Idle, Stale} \/ (req'[q] = req[q] /\ (moves => q \notin OpensInFlight))
    BY <1>0 DEF CaseIInv, CaseTypeOK, Ended
  <2>2. CASE req'[q] \in {Idle, Stale}
    BY <2>2, EndedHolds
  <2>3. CASE req'[q] = req[q] /\ (moves => q \notin OpensInFlight)
    <3>1. req[q].op = "open" /\ req[q].moves => inspection' = inspection
      BY <1>0, <2>3 DEF OpensInFlight
    <3>2. req[q].op \in Changing => req[q].case \in Case /\ case[req[q].case] # None
      BY RequestFields DEF CaseIInv, RequestsHold, Held, Changing
    <3>3. req[q].op \in Changing => case'[req[q].case] = case[req[q].case]
      BY <1>1, <1>4, <3>2
    <3>4. Grows
      BY <1>0 DEF Grows
    <3> QED
      BY <2>3, <3>1, <3>3, <3>4, HeldStays DEF CaseIInv, RequestsHold, Changing
  <2> QED
    BY <2>1, <2>2, <2>3
<1>7. MovedOnce'
  <2>1. CASE moves
    <3>1. inspection = "report_issued" /\ inspection' = "case_opened"
      BY <1>0, <2>1 DEF CaseIInv, RequestsHold, Held
    <3>2. \A d \in Case : case[d] # None => ~case[d].moved
      BY <3>1 DEF CaseIInv, MovedOnce
    <3> QED
      BY <1>4, <3>1, <3>2 DEF MovedOnce
  <2>2. CASE ~moves
    BY <1>0, <1>3, <1>4, <2>2 DEF CaseIInv, MovedOnce
  <2> QED
    BY <2>1, <2>2
<1>8. \A n \in Notice : notice[n] # None => notice[n].case \in Case /\ notice[n].case # c
  <2>1. \A n \in Notice : notice[n] # None => notice[n] \in Notices
    BY DEF CaseIInv, CaseTypeOK
  <2>2. \A n \in Notice : notice[n] # None => notice[n].case \in Case
    BY <2>1 DEF Notices
  <2> QED
    BY <1>1, <2>2 DEF CaseIInv, NoticesHold
<1>9. NoticesHold' /\ IssuedOnce'
  BY <1>0, <1>4, <1>8 DEF CaseIInv, NoticesHold, IssuedOnce
<1>10. ProceedingsRestOnService'
  <2>1. \A d \in Case : Under(d)' = Under(d)
    BY <1>0 DEF Under
  <2> QED
    BY <1>0, <1>3, <1>4, <2>1 DEF CaseIInv, ProceedingsRestOnService
<1> QED
  BY <1>5, <1>6, <1>7, <1>9, <1>10 DEF CaseIInv

LEMMA CaseNextIInv ==
    ASSUME CaseIInv, CaseNext
    PROVE  CaseIInv'
<1>0. CaseTypeOK
  BY DEF CaseIInv
<1>1. CASE MoveInspection
  <2>1. inspection' \in {"case_opened", "closed", "archived"}
    BY <1>1 DEF MoveInspection
  <2>2. UNCHANGED <<reported, case, notice>>
    BY <1>1 DEF MoveInspection
  <2>3. req' = [r \in Clerk |-> IF r \in OpensInFlight THEN Stale ELSE req[r]]
    BY <1>1 DEF MoveInspection
  <2>4. CaseTypeOK'
    BY <2>1, <2>2, <2>3 DEF CaseIInv, CaseTypeOK
  <2>5. RequestsHold'
    <3> SUFFICES ASSUME NEW q \in Clerk PROVE Held(q)'
      BY DEF RequestsHold
    <3>1. CASE q \in OpensInFlight
      BY <2>3, <3>1, EndedHolds
    <3>2. CASE q \notin OpensInFlight
      BY <1>0, <2>2, <2>3, <3>2, HeldStays DEF OpensInFlight, CaseIInv, RequestsHold, Grows
    <3> QED
      BY <3>1, <3>2
  <2>6. MovedOnce' /\ NoticesHold' /\ IssuedOnce'
    BY <2>1, <2>2 DEF CaseIInv, MovedOnce, NoticesHold, IssuedOnce
  <2>7. ProceedingsRestOnService'
    <3>1. \A d \in Case : Under(d)' = Under(d)
      BY <2>2 DEF Under
    <3> QED
      BY <2>2, <3>1 DEF CaseIInv, ProceedingsRestOnService
  <2> QED
    BY <2>4, <2>5, <2>6, <2>7 DEF CaseIInv
<1>2. ASSUME UNCHANGED <<inspection, case, req>>, reported' \in BOOLEAN,
             notice' \in [Notice -> Notices \cup {None}], Grows,
             NoticesHold', IssuedOnce'
      PROVE  CaseIInv'
  <2>1. CaseTypeOK'
    BY <1>0, <1>2 DEF CaseTypeOK
  <2>2. RequestsHold'
    <3> SUFFICES ASSUME NEW q \in Clerk PROVE Held(q)'
      BY DEF RequestsHold
    <3> QED
      BY <1>0, <1>2, HeldStays DEF CaseIInv, RequestsHold
  <2>3. MovedOnce'
    BY <1>2 DEF CaseIInv, MovedOnce
  <2>4. ProceedingsRestOnService'
    <3> SUFFICES ASSUME NEW d \in Case, case[d] # None,
                        case[d].state \notin {"draft", "notice_issued", "withdrawn", "closed"}
                 PROVE  \E n \in Notice : notice'[n] # None /\ notice'[n].case = d
                                            /\ notice'[n].issued /\ notice'[n].delivered
      BY <1>2 DEF ProceedingsRestOnService, Under
    <3>1. PICK n \in Under(d) : notice[n].issued /\ notice[n].delivered
      BY DEF CaseIInv, ProceedingsRestOnService
    <3>2. n \in Notice /\ notice[n] # None /\ notice[n].case = d
      BY DEF Under
    <3> QED
      BY <1>2, <3>1, <3>2 DEF Grows
  <2> QED
    BY <1>2, <2>1, <2>2, <2>3, <2>4 DEF CaseIInv
<1>3. CASE ReplaceReport
  <2>1. UNCHANGED <<inspection, case, notice, req>> /\ reported' \in BOOLEAN
    BY <1>3 DEF ReplaceReport
  <2>2. Grows
    BY <2>1 DEF Grows
  <2>3. NoticesHold' /\ IssuedOnce' /\ notice' \in [Notice -> Notices \cup {None}]
    BY <1>0, <2>1 DEF CaseIInv, CaseTypeOK, NoticesHold, IssuedOnce
  <2> QED
    BY <1>2, <2>1, <2>2, <2>3
<1>4. CASE PrepareNotice
  <2>1. PICK n \in Notice, c \in Case :
           /\ notice[n] = None /\ case[c] # None
           /\ notice' = [notice EXCEPT ![n] = [case |-> c, issued |-> FALSE, delivered |-> FALSE,
                                               answered |-> FALSE, withdrawn |-> FALSE]]
           /\ UNCHANGED <<inspection, reported, case, req>>
    BY <1>4 DEF PrepareNotice
  <2> DEFINE row == [case |-> c, issued |-> FALSE, delivered |-> FALSE,
                     answered |-> FALSE, withdrawn |-> FALSE]
  <2>2. row \in Notices /\ row.case = c /\ ~row.issued /\ ~row.delivered
    BY DEF Notices
  <2>3. row # None
    BY <2>2, CaseAssumption
  <2>4. \A m \in Notice : notice'[m] = IF m = n THEN row ELSE notice[m]
    BY <1>0, <2>1 DEF CaseTypeOK
  <2>5. notice' \in [Notice -> Notices \cup {None}]
    BY <1>0, <2>1, <2>2 DEF CaseTypeOK
  <2> HIDE DEF row
  <2>6. Grows
    BY <2>1, <2>4 DEF Grows
  <2>7. NoticesHold'
    BY <2>1, <2>2, <2>4 DEF CaseIInv, NoticesHold
  <2>8. IssuedOnce'
    BY <2>2, <2>4 DEF CaseIInv, IssuedOnce
  <2> QED
    BY <1>0, <1>2, <2>1, <2>5, <2>6, <2>7, <2>8 DEF CaseTypeOK
<1>5. CASE WithdrawNotice
  <2>1. PICK n \in Notice : /\ notice[n] # None
                            /\ notice' = [notice EXCEPT ![n].withdrawn = TRUE]
                            /\ UNCHANGED <<inspection, reported, case, req>>
    BY <1>5 DEF WithdrawNotice
  <2>2. /\ notice' \in [Notice -> Notices \cup {None}]
        /\ Grows
        /\ \A m \in Notice : m # n => notice'[m] = notice[m]
        /\ notice'[n] # None /\ notice'[n].case = notice[n].case
    BY <1>0, <2>1, NoticeFieldHolds
  <2>3. notice[n] \in Notices /\ notice'[n] = [notice[n] EXCEPT !.withdrawn = TRUE]
    BY <1>0, <2>1 DEF CaseTypeOK
  <2>4. notice'[n].issued = notice[n].issued /\ notice'[n].delivered = notice[n].delivered
    BY <2>3 DEF Notices
  <2>5. NoticesHold'
    BY <2>1, <2>2, <2>4 DEF CaseIInv, NoticesHold
  <2>6. IssuedOnce'
    BY <2>1, <2>2, <2>4 DEF CaseIInv, IssuedOnce
  <2> QED
    BY <1>0, <1>2, <2>1, <2>2, <2>5, <2>6 DEF CaseTypeOK
<1>6. ASSUME NEW r \in Clerk, AbortCase(r) PROVE CaseIInv'
  <2>1. \A q \in Clerk : req'[q] = Idle \/ req'[q] = req[q]
    BY <1>0, <1>6 DEF AbortCase, Ended, CaseTypeOK
  <2>2. CaseTypeOK'
    BY <1>0, <1>6 DEF AbortCase, Ended, CaseTypeOK
  <2>3. UNCHANGED <<inspection, reported, case, notice>>
    BY <1>6 DEF AbortCase
  <2>4. RequestsHold'
    <3> SUFFICES ASSUME NEW q \in Clerk PROVE Held(q)'
      BY DEF RequestsHold
    <3> QED
      BY <1>0, <2>1, <2>3, HeldStays, EndedHolds DEF CaseIInv, RequestsHold, Grows
  <2>5. MovedOnce' /\ NoticesHold' /\ IssuedOnce'
    BY <2>3 DEF CaseIInv, MovedOnce, NoticesHold, IssuedOnce
  <2>6. ProceedingsRestOnService'
    <3>1. \A d \in Case : Under(d)' = Under(d)
      BY <2>3 DEF Under
    <3> QED
      BY <2>3, <3>1 DEF CaseIInv, ProceedingsRestOnService
  <2> QED
    BY <2>2, <2>4, <2>5, <2>6 DEF CaseIInv
<1> QED
  BY <1>1, <1>3, <1>4, <1>5, <1>6, BeginCaseIInv, CommitNoticeIInv, CommitOpenIInv,
     CommitChangeIInv DEF CaseNext, CommitCase

-----------------------------------------------------------------------------
(* Induction and recursion on the naturals, from the fact that < is well    *)
(* founded on them: stated of sets, so that no operator is a parameter.     *)

LEMMA LeastNatural ==
    ASSUME NEW T, T \subseteq Nat, T # {}
    PROVE  \E n \in T : \A m \in T : n <= m
<1>1. PICK n \in T : \A m \in T : ~ (<<m, n>> \in OpToRel(<, Nat))
  BY NatLessThanWellFounded, WFMin
<1>2. \A m \in T : ~ (m < n)
  BY <1>1 DEF OpToRel
<1> QED
  BY <1>2

LEMMA SetInduction ==
    ASSUME NEW S, 0 \in S, \A n \in Nat : n \in S => n + 1 \in S
    PROVE  \A n \in Nat : n \in S
<1> DEFINE T == {n \in Nat : n \notin S}
<1> SUFFICES ASSUME T # {} PROVE FALSE
  OBVIOUS
<1>1. PICK n \in T : \A m \in T : n <= m
  <2>1. T \subseteq Nat
    OBVIOUS
  <2> HIDE DEF T
  <2> QED
    BY <2>1, LeastNatural
<1>2. n # 0 /\ n - 1 \in Nat /\ n - 1 \notin T
  BY <1>1
<1>3. (n - 1) + 1 \in S
  BY <1>2
<1> QED
  BY <1>2, <1>3

\* The function that begins with a and goes on by h.
Iterates(g, a, h) == g = [n \in Nat |-> IF n = 0 THEN a ELSE h[g[n - 1]]]

LEMMA IteratesExists ==
    ASSUME NEW V, NEW a \in V, NEW h \in [V -> V]
    PROVE  \E g \in [Nat -> V] : Iterates(g, a, h)
<1> DEFINE Upto(n, k) == k \in [0..n -> V] /\ k[0] = a /\ \A i \in 1..n : k[i] = h[k[i - 1]]
<1> DEFINE S == {n \in Nat : \E k \in [0..n -> V] : Upto(n, k)}
<1>1. 0 \in S
  <2>1. Upto(0, [i \in 0..0 |-> a])
    OBVIOUS
  <2> QED
    BY <2>1
<1>2. ASSUME NEW n \in Nat, n \in S PROVE n + 1 \in S
  <2>1. PICK k \in [0..n -> V] : Upto(n, k)
    BY <1>2
  <2> DEFINE l == [i \in 0..(n + 1) |-> IF i = n + 1 THEN h[k[n]] ELSE k[i]]
  <2>2. k[n] \in V
    BY <2>1
  <2>3. l \in [0..(n + 1) -> V]
    BY <2>1, <2>2
  <2>4. l[0] = a
    BY <2>1
  <2>5. ASSUME NEW i \in 1..(n + 1) PROVE l[i] = h[l[i - 1]]
    <3>1. CASE i = n + 1
      BY <3>1
    <3>2. CASE i # n + 1
      BY <2>1, <3>2
    <3> QED
      BY <3>1, <3>2
  <2> HIDE DEF l
  <2> QED
    BY <2>3, <2>4, <2>5
<1>3. \A n \in Nat : n \in S
  <2> HIDE DEF S
  <2> QED
    BY <1>1, <1>2, SetInduction
<1>4. ASSUME NEW n \in Nat, NEW m \in Nat, NEW k, NEW l, Upto(n, k), Upto(m, l)
      PROVE  \A i \in Nat : i <= n /\ i <= m => k[i] = l[i]
  <2> DEFINE A == {i \in Nat : i <= n /\ i <= m => k[i] = l[i]}
  <2>1. 0 \in A
    BY <1>4
  <2>2. ASSUME NEW i \in Nat, i \in A PROVE i + 1 \in A
    <3> SUFFICES ASSUME i + 1 <= n, i + 1 <= m PROVE k[i + 1] = l[i + 1]
      OBVIOUS
    <3>1. i + 1 \in 1..n /\ i + 1 \in 1..m /\ (i + 1) - 1 = i
      OBVIOUS
    <3>2. k[i + 1] = h[k[i]] /\ l[i + 1] = h[l[i]]
      BY <1>4, <3>1
    <3> QED
      BY <2>2, <3>2
  <2>3. \A i \in Nat : i \in A
    <3> HIDE DEF A
    <3> QED
      BY <2>1, <2>2, SetInduction
  <2> QED
    BY <2>3
<1> DEFINE K(n) == CHOOSE k \in [0..n -> V] : Upto(n, k)
<1>5. ASSUME NEW n \in Nat PROVE Upto(n, K(n))
  BY <1>3
<1> DEFINE g == [n \in Nat |-> K(n)[n]]
<1> HIDE DEF K
<1>6. g \in [Nat -> V]
  BY <1>5
<1>7. g[0] = a
  BY <1>5
<1>8. ASSUME NEW n \in Nat, n # 0 PROVE g[n] = h[g[n - 1]]
  <2>1. n - 1 \in Nat /\ n \in 1..n
    BY <1>8
  <2>2. K(n)[n] = h[K(n)[n - 1]]
    BY <1>5, <2>1
  <2>3. K(n)[n - 1] = K(n - 1)[n - 1]
    <3> HIDE DEF Upto
    <3>1. Upto(n, K(n)) /\ Upto(n - 1, K(n - 1))
      BY <1>5, <2>1
    <3>2. n - 1 <= n /\ n - 1 <= n - 1
      BY <2>1
    <3> QED
      BY <1>4, <2>1, <3>1, <3>2
  <2> QED
    BY <2>1, <2>2, <2>3
<1>9. Iterates(g, a, h)
  <2>1. g = [n \in Nat |-> g[n]]
    OBVIOUS
  <2> HIDE DEF g
  <2> QED
    BY <1>7, <1>8, <2>1 DEF Iterates
<1> QED
  BY <1>6, <1>9

-----------------------------------------------------------------------------
(* Where merges lead                                                       *)

\* What is reached from p by f in at most n steps.
Steps(f, p) ==
    CHOOSE g : g = [n \in Nat |-> IF n = 0 THEN {p} ELSE g[n - 1] \cup {f[q] : q \in g[n - 1]}]

LEMMA StepsUnfold ==
    ASSUME NEW W, NEW p \in W, NEW f, \A q \in W : f[q] \in W
    PROVE  /\ Steps(f, p) \in [Nat -> SUBSET W]
           /\ Steps(f, p)[0] = {p}
           /\ \A n \in Nat : Steps(f, p)[n + 1] =
                Steps(f, p)[n] \cup {f[q] : q \in Steps(f, p)[n]}
<1> DEFINE h == [s \in SUBSET W |-> s \cup {f[q] : q \in s}]
           Solves(g) == g = [n \in Nat |-> IF n = 0 THEN {p}
                                           ELSE g[n - 1] \cup {f[q] : q \in g[n - 1]}]
<1>1. h \in [SUBSET W -> SUBSET W] /\ {p} \in SUBSET W
  OBVIOUS
<1>2. PICK g \in [Nat -> SUBSET W] : Iterates(g, {p}, h)
  <2> HIDE DEF h
  <2> QED
    BY <1>1, IteratesExists
<1>3. Solves(g)
  <2>1. ASSUME NEW n \in Nat, n # 0
        PROVE  h[g[n - 1]] = g[n - 1] \cup {f[q] : q \in g[n - 1]}
    <3>1. g[n - 1] \in SUBSET W
      BY <2>1
    <3> QED
      BY <3>1
  <2> HIDE DEF h
  <2> QED
    BY <1>2, <2>1 DEF Iterates
<1>4. Solves(Steps(f, p))
  <2>1. Solves(CHOOSE k : Solves(k))
    <3> HIDE DEF Solves
    <3> QED
      BY <1>3
  <2> QED
    BY <2>1 DEF Steps
<1> DEFINE s == Steps(f, p)
<1>5. /\ DOMAIN s = Nat /\ s[0] = {p}
      /\ \A n \in Nat : s[n + 1] = s[n] \cup {f[q] : q \in s[n]}
      /\ s = [n \in Nat |-> s[n]]
  <2> HIDE DEF s
  <2>1. Solves(s)
    BY <1>4 DEF s
  <2> QED
    BY <2>1
<1>6. \A n \in Nat : n \in {m \in Nat : s[m] \in SUBSET W}
  <2> DEFINE A == {m \in Nat : s[m] \in SUBSET W}
  <2> HIDE DEF s
  <2>1. 0 \in A
    BY <1>5
  <2>2. ASSUME NEW n \in Nat, n \in A PROVE n + 1 \in A
    BY <1>5, <2>2
  <2> HIDE DEF A
  <2>3. \A n \in Nat : n \in A
    BY <2>1, <2>2, SetInduction
  <2> QED
    BY <2>3 DEF A
<1> QED
  BY <1>5, <1>6

\* After as many steps as there are places, nothing more is reached.
LEMMA StepsEnd ==
    ASSUME NEW W, IsFiniteSet(W), NEW p \in W, NEW f, \A q \in W : f[q] \in W,
           NEW n \in Nat, Cardinality(W) <= n
    PROVE  \A q \in Steps(f, p)[n] : f[q] \in Steps(f, p)[n]
<1> DEFINE s == Steps(f, p)
           A == {m \in Nat : s[m + 1] = s[m] \/ Cardinality(s[m]) >= m + 1}
<1>1. /\ s \in [Nat -> SUBSET W] /\ s[0] = {p}
      /\ \A m \in Nat : s[m + 1] = s[m] \cup {f[q] : q \in s[m]}
  BY StepsUnfold
<1> HIDE DEF s
<1>2. \A m \in Nat : IsFiniteSet(s[m]) /\ Cardinality(s[m]) \in Nat
  BY <1>1, FS_Subset, FS_CardinalityType
<1>3. 0 \in A
  <2>1. Cardinality(s[0]) = 1
    BY <1>1, FS_Singleton
  <2>2. 1 >= 0 + 1 /\ 0 \in Nat
    OBVIOUS
  <2> QED
    BY <2>1, <2>2
<1>4. ASSUME NEW m \in Nat, m \in A PROVE m + 1 \in A
  <2>1. CASE s[m + 1] = s[m]
    <3>1. m + 1 \in Nat /\ s[(m + 1) + 1] = s[m + 1] \cup {f[q] : q \in s[m + 1]}
      BY <1>1
    <3>2. s[m + 1] = s[m + 1] \cup {f[q] : q \in s[m + 1]}
      BY <1>1, <2>1
    <3>3. s[(m + 1) + 1] = s[m + 1]
      BY <3>1, <3>2
    <3> QED
      BY <3>1, <3>3
  <2>2. CASE s[m + 1] # s[m] /\ Cardinality(s[m]) >= m + 1
    <3>1. s[m] \in SUBSET s[m + 1] /\ m + 1 \in Nat
      BY <1>1
    <3>2. /\ IsFiniteSet(s[m + 1]) /\ Cardinality(s[m]) \in Nat
          /\ Cardinality(s[m + 1]) \in Nat
      BY <1>2, <3>1
    <3>3. /\ Cardinality(s[m]) <= Cardinality(s[m + 1])
          /\ Cardinality(s[m + 1]) = Cardinality(s[m]) => s[m + 1] = s[m]
      BY <3>1, <3>2, FS_Subset
    <3>4. Cardinality(s[m]) < Cardinality(s[m + 1])
      BY <2>2, <3>2, <3>3
    <3> QED
      BY <2>2, <3>2, <3>4
  <2> QED
    BY <1>4, <2>1, <2>2
<1>5. n \in A
  <2> HIDE DEF A
  <2> QED
    BY <1>3, <1>4, SetInduction
<1>6. Cardinality(s[n]) <= Cardinality(W) /\ Cardinality(W) \in Nat
  BY <1>1, FS_Subset, FS_CardinalityType
<1>7. s[n + 1] = s[n]
  BY <1>2, <1>5, <1>6
<1> QED
  BY <1>1, <1>7 DEF s

\* What is reached stays reached where new places are added and steps only
\* lead away from places that led nowhere.
LEMMA StepsStay ==
    ASSUME NEW W, NEW X, W \subseteq X, NEW p \in W,
           NEW f, \A q \in W : f[q] \in W, NEW g, \A q \in X : g[q] \in X,
           \A q \in W : g[q] = f[q] \/ f[q] = q, NEW n \in Nat
    PROVE  Steps(f, p)[n] \subseteq Steps(g, p)[n]
<1> DEFINE s == Steps(f, p)
           t == Steps(g, p)
           A == {m \in Nat : s[m] \subseteq t[m]}
<1>1. /\ s \in [Nat -> SUBSET W] /\ s[0] = {p}
      /\ \A m \in Nat : s[m + 1] = s[m] \cup {f[q] : q \in s[m]}
  BY StepsUnfold
<1>2. /\ t \in [Nat -> SUBSET X] /\ t[0] = {p}
      /\ \A m \in Nat : t[m + 1] = t[m] \cup {g[q] : q \in t[m]}
  BY StepsUnfold
<1> HIDE DEF s, t
<1>3. 0 \in A
  BY <1>1, <1>2
<1>4. ASSUME NEW m \in Nat, m \in A PROVE m + 1 \in A
  <2>1. ASSUME NEW q \in s[m] PROVE f[q] \in t[m + 1]
    <3>1. q \in W /\ q \in t[m]
      BY <1>1, <1>4
    <3> QED
      BY <1>2, <3>1
  <2> QED
    BY <1>1, <1>2, <1>4, <2>1
<1> HIDE DEF A
<1>5. n \in A
  BY <1>3, <1>4, SetInduction
<1> QED
  BY <1>5 DEF A, s, t

\* The same where no place is added.
LEMMA StepsStayWithin ==
    ASSUME NEW W, NEW p \in W,
           NEW f, \A q \in W : f[q] \in W, NEW g, \A q \in W : g[q] \in W,
           \A q \in W : g[q] = f[q] \/ f[q] = q, NEW n \in Nat
    PROVE  Steps(f, p)[n] \subseteq Steps(g, p)[n]
<1>1. W \subseteq W
  OBVIOUS
<1> QED
  BY <1>1, StepsStay

LEMMA StepsBegin ==
    ASSUME NEW W, NEW p \in W, NEW f, \A q \in W : f[q] \in W, NEW n \in Nat
    PROVE  p \in Steps(f, p)[n]
<1> DEFINE A == {m \in Nat : p \in Steps(f, p)[m]}
<1>1. 0 \in A
  BY StepsUnfold
<1>2. ASSUME NEW m \in Nat, m \in A PROVE m + 1 \in A
  BY <1>2, StepsUnfold
<1> HIDE DEF A
<1>3. n \in A
  BY <1>1, <1>2, SetInduction
<1> QED
  BY <1>3 DEF A

-----------------------------------------------------------------------------
(* Products                                                                *)

Place == Product \cup {Unrecorded}

ProductTypeOK ==
    /\ merges \in [Product -> Seq(Product)]
    /\ into \in [Product -> Place]
    /\ barcodes \in [Product -> SUBSET Barcode]
    /\ DOMAIN primary = Product
    /\ found \in [Package -> Place]
    /\ now \in [Package -> Place]
    /\ desk \in [Desk -> {Idle, Stale} \cup Updates \cup Recordings \cup Merges]

\* The records of merges say what the products say, and lead to products that
\* are recorded.
MergesAreRecorded ==
    /\ \A p \in Product :
          merges[p] = IF into[p] \in {p, Unrecorded} THEN << >> ELSE <<into[p]>>
    /\ \A p \in Recorded : into[p] \in Recorded

\* An inspection is of a product that is reached from where it was opened.
PackagesAreReached ==
    \A i \in Package : now[i] # Unrecorded =>
        /\ now[i] \in Recorded /\ found[i] \in Recorded
        /\ now[i] \in Steps(into, found[i])[Cardinality(Product)]

\* A merge that will commit has read its source unmerged, and the inspections
\* it has moved are still of the source for everybody else.
MergesHold ==
    \A r \in Desk : desk[r].op \in {"load", "merge"} =>
        /\ desk[r].product \in Recorded /\ desk[r].target \in Recorded
        /\ desk[r].product # desk[r].target
        /\ into[desk[r].product] = desk[r].product
        /\ desk[r].op = "merge" => \A i \in desk[r].moved : now[i] = desk[r].product

ProductIInv == ProductTypeOK /\ MergesAreRecorded /\ PackagesAreReached /\ MergesHold

\* What the operation of a request says about its fields.
LEMMA DeskFields ==
    ASSUME ProductTypeOK, NEW r \in Desk
    PROVE  /\ desk[r].op = "barcode" =>
                 desk[r].product \in Product /\ desk[r].barcode \in Barcode
           /\ desk[r].op = "update" => desk[r].product \in Product
           /\ desk[r].op \in {"load", "merge"} =>
                 /\ desk[r].product \in Product /\ desk[r].target \in Product
                 /\ desk[r].barcodes \in SUBSET Barcode /\ desk[r].moved \in SUBSET Package
                 /\ desk[r] \in Merges
<1>0. Idle.op = "idle" /\ Stale.op = "stale"
  BY DEF Idle, Stale
<1>1. CASE desk[r] \in {Idle, Stale}
  BY <1>0, <1>1
<1>2. CASE desk[r] \in Updates
  BY <1>2 DEF Updates
<1>3. CASE desk[r] \in Recordings
  BY <1>3 DEF Recordings
<1>4. CASE desk[r] \in Merges
  <2>1. /\ desk[r].op \in {"load", "merge"}
        /\ desk[r].product \in Product /\ desk[r].target \in Product
        /\ desk[r].barcodes \in SUBSET Barcode /\ desk[r].moved \in SUBSET Package
    BY <1>4 DEF Merges
  <2> QED
    BY <1>4, <2>1
<1> QED
  BY <1>1, <1>2, <1>3, <1>4 DEF ProductTypeOK

LEMMA RecordedIsFinite ==
    /\ IsFiniteSet(Recorded) /\ Recorded \subseteq Product
    /\ Cardinality(Product) \in Nat /\ Cardinality(Recorded) <= Cardinality(Product)
BY ProductAssumption, FS_Subset, FS_CardinalityType DEF Recorded

LEMMA ProductInitIInv == ProductInit => ProductIInv
<1> SUFFICES ASSUME ProductInit PROVE ProductIInv
  OBVIOUS
<1>1. Recorded = {}
  BY DEF ProductInit, Recorded
<1>2. ProductTypeOK
  BY DEF ProductInit, ProductTypeOK, Place
<1>3. MergesAreRecorded
  BY <1>1 DEF ProductInit, MergesAreRecorded
<1>4. PackagesAreReached
  BY DEF ProductInit, PackagesAreReached
<1>5. MergesHold
  <2>1. \A r \in Desk : desk[r].op = "idle"
    BY DEF ProductInit, Idle
  <2> QED
    BY <2>1 DEF MergesHold
<1> QED
  BY <1>2, <1>3, <1>4, <1>5 DEF ProductIInv

\* Requests that begin, and requests that end without a word about products:
\* what the others have read is untouched.
LEMMA DeskIInv ==
    ASSUME ProductIInv, UNCHANGED <<merges, into, found, now>>,
           barcodes' \in [Product -> SUBSET Barcode], DOMAIN primary' = Product,
           desk' \in [Desk -> {Idle, Stale} \cup Updates \cup Recordings \cup Merges],
           \A r \in Desk : \/ desk'[r] = desk[r]
                           \/ desk'[r].op \notin {"load", "merge"}
                           \/ /\ desk'[r].product \in Recorded /\ desk'[r].target \in Recorded
                              /\ desk'[r].product # desk'[r].target
                              /\ into[desk'[r].product] = desk'[r].product
                              /\ desk'[r].op = "merge" =>
                                    \A i \in desk'[r].moved : now[i] = desk'[r].product
    PROVE  ProductIInv'
<1>1. Recorded' = Recorded
  BY DEF Recorded
<1>2. ProductTypeOK'
  BY DEF ProductIInv, ProductTypeOK, Place
<1>3. MergesAreRecorded'
  BY <1>1 DEF ProductIInv, MergesAreRecorded
<1>4. PackagesAreReached'
  BY <1>1 DEF ProductIInv, PackagesAreReached
<1>5. MergesHold'
  BY <1>1 DEF ProductIInv, MergesHold
<1> QED
  BY <1>2, <1>3, <1>4, <1>5 DEF ProductIInv

\* A request that ends, and those it stops, are no merges any more.
LEMMA EndedDesk ==
    ASSUME ProductTypeOK, NEW r \in Desk, NEW losers, desk' = Ended(desk, r, losers)
    PROVE  /\ desk' \in [Desk -> {Idle, Stale} \cup Updates \cup Recordings \cup Merges]
           /\ \A q \in Desk : \/ desk'[q] = desk[q] /\ q # r /\ q \notin losers
                              \/ desk'[q].op \notin {"load", "merge"}
<1>1. desk' = [q \in Desk |-> IF q = r THEN Idle ELSE IF q \in losers THEN Stale ELSE desk[q]]
  BY DEF ProductTypeOK, Ended
<1>2. Idle.op = "idle" /\ Stale.op = "stale"
  BY DEF Idle, Stale
<1> QED
  BY <1>1, <1>2 DEF ProductTypeOK

LEMMA TakeUpIInv ==
    ASSUME ProductIInv, NEW r \in Desk, NEW request \in Updates \cup Recordings \cup Merges,
           TakeUp(r, request),
           \/ request.op \notin {"load", "merge"}
           \/ /\ request.op = "load"
              /\ request.product \in Recorded /\ request.target \in Recorded
              /\ request.product # request.target
              /\ into[request.product] = request.product
    PROVE  ProductIInv'
<1>1. /\ UNCHANGED <<merges, into, barcodes, primary, found, now>>
      /\ \A q \in Desk : desk'[q] = IF q = r THEN request ELSE desk[q]
      /\ desk' \in [Desk -> {Idle, Stale} \cup Updates \cup Recordings \cup Merges]
  BY DEF TakeUp, ProductIInv, ProductTypeOK
<1>2. barcodes' \in [Product -> SUBSET Barcode] /\ DOMAIN primary' = Product
  BY <1>1 DEF ProductIInv, ProductTypeOK
<1> QED
  BY <1>1, <1>2, DeskIInv

\* A new product leads nowhere.
LEMMA RecordIInv == ProductIInv /\ RecordProduct => ProductIInv'
<1> SUFFICES ASSUME ProductIInv, RecordProduct PROVE ProductIInv'
  OBVIOUS
<1>0. ProductTypeOK /\ MergesAreRecorded
  BY DEF ProductIInv
<1>1. PICK p \in Product \ Recorded, given \in SUBSET Barcode :
          /\ into' = [into EXCEPT ![p] = p]
          /\ barcodes' = [barcodes EXCEPT ![p] = given]
          /\ \E first \in SUBSET given : primary' = [primary EXCEPT ![p] = first]
          /\ UNCHANGED <<merges, found, now, desk>>
  BY DEF RecordProduct
<1>2. \A q \in Product : into'[q] = IF q = p THEN p ELSE into[q]
  BY <1>0, <1>1 DEF ProductTypeOK
<1>3. Recorded' = Recorded \cup {p}
  BY <1>2, ProductAssumption DEF Recorded
<1>4. ProductTypeOK'
  BY <1>0, <1>1 DEF ProductTypeOK, Place
<1>5. into[p] = Unrecorded
  BY DEF Recorded
<1>6. MergesAreRecorded'
  <2>1. merges' = merges /\ merges[p] = << >>
    BY <1>0, <1>1, <1>5 DEF MergesAreRecorded
  <2>2. ASSUME NEW q \in Product
        PROVE  merges'[q] = IF into'[q] \in {q, Unrecorded} THEN << >> ELSE <<into'[q]>>
    <3>1. CASE q = p
      BY <1>2, <2>1, <3>1
    <3>2. CASE q # p
      BY <1>0, <1>2, <2>1, <3>2 DEF MergesAreRecorded
    <3> QED
      BY <3>1, <3>2
  <2>3. \A q \in Recorded' : into'[q] \in Recorded'
    BY <1>0, <1>2, <1>3 DEF MergesAreRecorded, Recorded
  <2> QED
    BY <2>2, <2>3 DEF MergesAreRecorded
<1>7. PackagesAreReached'
  <2> SUFFICES ASSUME NEW i \in Package, now[i] # Unrecorded
               PROVE  /\ now[i] \in Recorded' /\ found[i] \in Recorded'
                      /\ now[i] \in Steps(into', found[i])[Cardinality(Product)]
    BY <1>1 DEF PackagesAreReached
  <2>1. /\ now[i] \in Recorded /\ found[i] \in Recorded
        /\ now[i] \in Steps(into, found[i])[Cardinality(Product)]
    BY DEF ProductIInv, PackagesAreReached
  <2>2. \A q \in Recorded : into[q] \in Recorded
    BY <1>0 DEF MergesAreRecorded
  <2>3. \A q \in Recorded' : into'[q] \in Recorded'
    BY <1>2, <1>3, <2>2 DEF Recorded
  <2>4. \A q \in Recorded : into'[q] = into[q]
    BY <1>2 DEF Recorded
  <2>5. Steps(into, found[i])[Cardinality(Product)]
          \subseteq Steps(into', found[i])[Cardinality(Product)]
    BY <1>3, <2>1, <2>2, <2>3, <2>4, RecordedIsFinite, StepsStay
  <2> QED
    BY <1>3, <2>1, <2>5
<1>8. MergesHold'
  <2> SUFFICES ASSUME NEW r \in Desk, desk[r].op \in {"load", "merge"}
               PROVE  /\ desk[r].product \in Recorded' /\ desk[r].target \in Recorded'
                      /\ desk[r].product # desk[r].target
                      /\ into'[desk[r].product] = desk[r].product
                      /\ desk[r].op = "merge" =>
                            \A i \in desk[r].moved : now[i] = desk[r].product
    BY <1>1 DEF MergesHold
  <2>1. /\ desk[r].product \in Recorded /\ desk[r].target \in Recorded
        /\ desk[r].product # desk[r].target
        /\ into[desk[r].product] = desk[r].product
        /\ desk[r].op = "merge" => \A i \in desk[r].moved : now[i] = desk[r].product
    BY DEF ProductIInv, MergesHold
  <2> QED
    BY <1>2, <1>3, <2>1 DEF Recorded
<1> QED
  BY <1>4, <1>6, <1>7, <1>8 DEF ProductIInv

LEMMA InspectIInv == ProductIInv /\ Inspect => ProductIInv'
<1> SUFFICES ASSUME ProductIInv, Inspect PROVE ProductIInv'
  OBVIOUS
<1>0. ProductTypeOK /\ MergesAreRecorded
  BY DEF ProductIInv
<1>1. PICK i \in Package, p \in Recorded :
          /\ now[i] = Unrecorded
          /\ found' = [found EXCEPT ![i] = p]
          /\ now' = [now EXCEPT ![i] = p]
          /\ UNCHANGED <<merges, into, barcodes, primary, desk>>
  BY DEF Inspect
<1>2. \A k \in Package : /\ found'[k] = IF k = i THEN p ELSE found[k]
                         /\ now'[k] = IF k = i THEN p ELSE now[k]
  BY <1>0, <1>1 DEF ProductTypeOK
<1>3. Recorded' = Recorded /\ p \in Product /\ p # Unrecorded
  BY <1>1, ProductAssumption DEF Recorded
<1>4. ProductTypeOK'
  BY <1>0, <1>1, <1>3 DEF ProductTypeOK, Place
<1>5. MergesAreRecorded'
  BY <1>0, <1>1, <1>3 DEF MergesAreRecorded
<1>6. PackagesAreReached'
  <2> SUFFICES ASSUME NEW k \in Package, now'[k] # Unrecorded
               PROVE  /\ now'[k] \in Recorded /\ found'[k] \in Recorded
                      /\ now'[k] \in Steps(into, found'[k])[Cardinality(Product)]
    BY <1>1, <1>3 DEF PackagesAreReached
  <2>1. CASE k = i
    <3>1. p \in Steps(into, p)[Cardinality(Product)]
      BY <1>0, RecordedIsFinite, StepsBegin DEF MergesAreRecorded
    <3> QED
      BY <1>2, <2>1, <3>1
  <2>2. CASE k # i
    BY <1>2, <2>2 DEF ProductIInv, PackagesAreReached
  <2> QED
    BY <2>1, <2>2
<1>7. MergesHold'
  <2> SUFFICES ASSUME NEW r \in Desk, desk[r].op \in {"load", "merge"}
               PROVE  /\ desk[r].product \in Recorded /\ desk[r].target \in Recorded
                      /\ desk[r].product # desk[r].target
                      /\ into[desk[r].product] = desk[r].product
                      /\ desk[r].op = "merge" =>
                            \A k \in desk[r].moved : now'[k] = desk[r].product
    BY <1>1, <1>3 DEF MergesHold
  <2>1. /\ desk[r].product \in Recorded /\ desk[r].target \in Recorded
        /\ desk[r].product # desk[r].target
        /\ into[desk[r].product] = desk[r].product
        /\ desk[r].op = "merge" => \A k \in desk[r].moved : now[k] = desk[r].product
    BY DEF ProductIInv, MergesHold
  <2>2. desk[r].product # Unrecorded /\ desk[r].moved \subseteq Package
    BY <1>0, <2>1, DeskFields, ProductAssumption
  <2> QED
    BY <1>1, <1>2, <2>1, <2>2
<1> QED
  BY <1>4, <1>5, <1>6, <1>7 DEF ProductIInv

LEMMA MoveIInv ==
    ASSUME ProductIInv, NEW r \in Desk, MoveInspections(r)
    PROVE  ProductIInv'
<1> DEFINE moved == {i \in Package : now[i] = desk[r].product}
<1>0. ProductTypeOK
  BY DEF ProductIInv
<1>1. /\ desk[r].op = "load" /\ UNCHANGED <<merges, into, barcodes, primary, found, now>>
      /\ desk' = [desk EXCEPT ![r].op = "merge", ![r].moved = moved]
  BY DEF MoveInspections
<1>2. /\ desk[r] \in Merges /\ moved \in SUBSET Package
      /\ desk[r].product \in Recorded /\ desk[r].target \in Recorded
      /\ desk[r].product # desk[r].target
      /\ into[desk[r].product] = desk[r].product
  BY <1>0, <1>1, DeskFields DEF ProductIInv, MergesHold
<1> DEFINE new == [desk[r] EXCEPT !.op = "merge", !.moved = moved]
<1>3. /\ new \in Merges /\ new.op = "merge" /\ new.moved = moved
      /\ new.product = desk[r].product /\ new.target = desk[r].target
  <2> HIDE DEF moved
  <2> QED
    BY <1>2 DEF Merges
<1>4. desk' = [desk EXCEPT ![r] = new]
  BY <1>0, <1>1, <1>2 DEF ProductTypeOK, Merges
<1>5. /\ \A q \in Desk : desk'[q] = IF q = r THEN new ELSE desk[q]
      /\ desk' \in [Desk -> {Idle, Stale} \cup Updates \cup Recordings \cup Merges]
  <2> HIDE DEF new
  <2> QED
    BY <1>0, <1>3, <1>4 DEF ProductTypeOK
<1>6. barcodes' \in [Product -> SUBSET Barcode] /\ DOMAIN primary' = Product
  BY <1>0, <1>1 DEF ProductTypeOK
<1>7. desk'[r].op = "merge" => \A i \in desk'[r].moved : now[i] = desk'[r].product
  <2> HIDE DEF new
  <2> QED
    BY <1>3, <1>5
<1> HIDE DEF new, moved
<1> QED
  BY <1>1, <1>2, <1>3, <1>5, <1>6, <1>7, DeskIInv

\* A merge sends the inspections it has moved to its target, a step further
\* than the source, and stops whoever has read the source.
LEMMA MergeIInv ==
    ASSUME ProductIInv, NEW r \in Desk, CommitMerge(r)
    PROVE  ProductIInv'
<1> DEFINE source == desk[r].product
           target == desk[r].target
           codes  == desk[r].barcodes
           n == Cardinality(Product)
<1>0. ProductTypeOK /\ MergesAreRecorded
  BY DEF ProductIInv
<1>1. /\ desk[r].op = "merge"
      /\ now' = [i \in Package |-> IF i \in desk[r].moved THEN target ELSE now[i]]
      /\ barcodes' = [barcodes EXCEPT ![source] = @ \ codes, ![target] = @ \cup codes]
      /\ primary' = [primary EXCEPT ![source] = @ \ codes]
      /\ into' = [into EXCEPT ![source] = target]
      /\ merges' = [merges EXCEPT ![source] = Append(@, target)]
      /\ desk' = Ended(desk, r, Holding(source))
      /\ found' = found
  BY DEF CommitMerge, Outdated
<1>2. /\ source \in Recorded /\ target \in Recorded /\ source # target
      /\ into[source] = source /\ \A i \in desk[r].moved : now[i] = source
      /\ codes \in SUBSET Barcode
  BY <1>0, <1>1, DeskFields DEF ProductIInv, MergesHold
<1>3. /\ source \in Product /\ target \in Product
      /\ source # Unrecorded /\ target # Unrecorded
  BY <1>2, ProductAssumption DEF Recorded
<1> HIDE DEF source, target, codes
<1>4. /\ \A q \in Product : into'[q] = IF q = source THEN target ELSE into[q]
      /\ into' \in [Product -> Place]
  BY <1>0, <1>1, <1>3 DEF ProductTypeOK, Place
<1>5. Recorded' = Recorded
  BY <1>2, <1>3, <1>4 DEF Recorded
<1>6. merges[source] = << >>
  BY <1>0, <1>2, <1>3 DEF MergesAreRecorded
<1>7. /\ \A q \in Product : merges'[q] = IF q = source THEN <<target>> ELSE merges[q]
      /\ merges' \in [Product -> Seq(Product)]
  <2>1. Append(merges[source], target) = <<target>> /\ <<target>> \in Seq(Product)
    BY <1>3, <1>6
  <2> QED
    BY <1>0, <1>1, <1>3, <2>1 DEF ProductTypeOK
<1>8. desk' \in [Desk -> {Idle, Stale} \cup Updates \cup Recordings \cup Merges]
  BY <1>0, <1>1, EndedDesk
<1>9. /\ barcodes' \in [Product -> SUBSET Barcode] /\ DOMAIN primary' = Product
      /\ now' \in [Package -> Place] /\ found' \in [Package -> Place]
  BY <1>0, <1>1, <1>2, <1>3 DEF ProductTypeOK, Place
<1>10. ProductTypeOK'
  BY <1>4, <1>7, <1>8, <1>9 DEF ProductTypeOK
<1>11. MergesAreRecorded'
  <2>1. ASSUME NEW q \in Product
        PROVE  merges'[q] = IF into'[q] \in {q, Unrecorded} THEN << >> ELSE <<into'[q]>>
    <3>1. CASE q = source
      BY <1>2, <1>3, <1>4, <1>7, <3>1
    <3>2. CASE q # source
      BY <1>0, <1>4, <1>7, <3>2 DEF MergesAreRecorded
    <3> QED
      BY <3>1, <3>2
  <2>2. \A q \in Recorded : into'[q] \in Recorded
    BY <1>0, <1>2, <1>4 DEF MergesAreRecorded, Recorded
  <2> QED
    BY <1>5, <2>1, <2>2 DEF MergesAreRecorded
<1>12. PackagesAreReached'
  <2> SUFFICES ASSUME NEW i \in Package, now'[i] # Unrecorded
               PROVE  /\ now'[i] \in Recorded /\ found[i] \in Recorded
                      /\ now'[i] \in Steps(into', found[i])[n]
    BY <1>1, <1>5 DEF PackagesAreReached
  <2>1. now[i] # Unrecorded
    BY <1>1, <1>2, <1>3
  <2>2. now[i] \in Recorded /\ found[i] \in Recorded /\ now[i] \in Steps(into, found[i])[n]
    BY <2>1 DEF ProductIInv, PackagesAreReached
  <2>3. /\ \A q \in Recorded : into[q] \in Recorded
        /\ \A q \in Recorded : into'[q] \in Recorded
    BY <1>0, <1>5, <1>11 DEF MergesAreRecorded
  <2>4. \A q \in Recorded : into'[q] = into[q] \/ into[q] = q
    BY <1>2, <1>4 DEF Recorded
  <2>5. Steps(into, found[i])[n] \subseteq Steps(into', found[i])[n]
    <3>1. n \in Nat /\ found[i] \in Recorded
      BY <2>2, RecordedIsFinite
    <3> QED
      BY <2>3, <2>4, <3>1, StepsStayWithin
  <2>6. CASE i \in desk[r].moved
    <3>1. now[i] = source /\ now'[i] = target /\ into'[source] = target
      BY <1>1, <1>2, <1>3, <1>4, <2>6
    <3>2. source \in Steps(into', found[i])[n]
      BY <2>2, <2>5, <3>1
    <3>3. target \in Steps(into', found[i])[n]
      BY <2>2, <2>3, <3>1, <3>2, RecordedIsFinite, StepsEnd
    <3> QED
      BY <1>2, <2>2, <3>1, <3>3
  <2>7. CASE i \notin desk[r].moved
    BY <1>1, <2>2, <2>5, <2>7
  <2> QED
    BY <2>6, <2>7
<1>13. MergesHold'
  <2> SUFFICES ASSUME NEW q \in Desk, desk'[q].op \in {"load", "merge"}
               PROVE  /\ desk'[q].product \in Recorded /\ desk'[q].target \in Recorded
                      /\ desk'[q].product # desk'[q].target
                      /\ into'[desk'[q].product] = desk'[q].product
                      /\ desk'[q].op = "merge" =>
                            \A i \in desk'[q].moved : now'[i] = desk'[q].product
    BY <1>5 DEF MergesHold
  <2>1. desk'[q] = desk[q] /\ q # r /\ q \notin Holding(source)
    BY <1>0, <1>1, EndedDesk
  <2>2. /\ desk[q].product \in Recorded /\ desk[q].target \in Recorded
        /\ desk[q].product # desk[q].target
        /\ into[desk[q].product] = desk[q].product
        /\ desk[q].op = "merge" => \A i \in desk[q].moved : now[i] = desk[q].product
    BY <2>1 DEF ProductIInv, MergesHold
  <2>3. desk[q].product # source
    BY <2>1 DEF Holding
  <2>4. into'[desk[q].product] = desk[q].product
    BY <1>4, <2>2, <2>3 DEF Recorded
  <2>5. ASSUME desk[q].op = "merge", NEW i \in desk[q].moved PROVE now'[i] = desk[q].product
    <3>1. now[i] = desk[q].product /\ i \in Package
      BY <1>0, <2>2, <2>5, DeskFields
    <3>2. i \notin desk[r].moved
      BY <1>2, <2>3, <3>1
    <3> QED
      BY <1>1, <3>1, <3>2
  <2> QED
    BY <2>1, <2>2, <2>4, <2>5
<1> QED
  BY <1>10, <1>11, <1>12, <1>13 DEF ProductIInv

LEMMA ProductNextIInv == ProductIInv /\ ProductNext => ProductIInv'
<1> SUFFICES ASSUME ProductIInv, ProductNext PROVE ProductIInv'
  OBVIOUS
<1>0. ProductTypeOK
  BY DEF ProductIInv
<1>1. ASSUME NEW r \in Desk, BeginUpdate(r) PROVE ProductIInv'
  <2>1. PICK p \in Recorded : TakeUp(r, [op |-> "update", product |-> p])
    BY <1>1 DEF BeginUpdate
  <2>2. [op |-> "update", product |-> p] \in Updates
    BY DEF Updates, Recorded
  <2> QED
    BY <2>1, <2>2, TakeUpIInv
<1>2. ASSUME NEW r \in Desk, BeginBarcode(r) PROVE ProductIInv'
  <2>1. PICK p \in Recorded, code \in Barcode :
            TakeUp(r, [op |-> "barcode", product |-> p, barcode |-> code,
                       primary |-> primary[p] = {}])
    BY <1>2 DEF BeginBarcode
  <2>2. [op |-> "barcode", product |-> p, barcode |-> code, primary |-> primary[p] = {}]
          \in Recordings
    BY DEF Recordings, Recorded
  <2> QED
    BY <2>1, <2>2, TakeUpIInv
<1>3. ASSUME NEW r \in Desk, BeginMerge(r) PROVE ProductIInv'
  <2>1. PICK source \in Recorded, target \in Recorded :
            /\ source # target /\ into[source] = source
            /\ TakeUp(r, [op |-> "load", product |-> source, target |-> target,
                          barcodes |-> barcodes[source], moved |-> {}])
    BY <1>3 DEF BeginMerge
  <2>2. [op |-> "load", product |-> source, target |-> target,
         barcodes |-> barcodes[source], moved |-> {}] \in Merges
    BY <1>0 DEF Merges, Recorded, ProductTypeOK
  <2> QED
    BY <2>1, <2>2, TakeUpIInv
<1>4. ASSUME NEW r \in Desk,
             \/ CommitUpdate(r) \/ AbortProduct(r)
             \/ CommitBarcode(r)
      PROVE  ProductIInv'
  <2>1. /\ UNCHANGED <<merges, into, found, now>>
        /\ \E losers : desk' = Ended(desk, r, losers)
    BY <1>4 DEF CommitUpdate, AbortProduct, CommitBarcode
  <2>2. barcodes' \in [Product -> SUBSET Barcode] /\ DOMAIN primary' = Product
    <3>1. CASE CommitUpdate(r) \/ AbortProduct(r)
      BY <1>0, <3>1 DEF CommitUpdate, AbortProduct, ProductTypeOK
    <3>2. CASE CommitBarcode(r)
      BY <1>0, <3>2, DeskFields DEF CommitBarcode, ProductTypeOK
    <3> QED
      BY <1>4, <3>1, <3>2
  <2> QED
    BY <1>0, <2>1, <2>2, EndedDesk, DeskIInv
<1>5. ASSUME NEW r \in Desk, MoveInspections(r) \/ CommitMerge(r) PROVE ProductIInv'
  BY <1>5, MoveIInv, MergeIInv
<1> QED
  BY <1>1, <1>2, <1>3, <1>4, <1>5, RecordIInv, InspectIInv DEF ProductNext

LEMMA ReachedInSteps == \A p : Reached(p) = Steps(into, p)[Cardinality(Product)]
BY DEF Reached, Steps

LEMMA ProductIInvImplies == ProductIInv => InspectionsFollowTheMerges
BY ReachedInSteps DEF ProductIInv, MergesAreRecorded, PackagesAreReached,
                      InspectionsFollowTheMerges, Recorded

-----------------------------------------------------------------------------
(* The matter                                                              *)

LEMMA MatterIInv == Spec => [](ComplaintIInv /\ CaseIInv /\ ProductIInv)
<1> DEFINE IInv == ComplaintIInv /\ CaseIInv /\ ProductIInv
<1>1. Init => IInv
  BY ComplaintInitIInv, CaseInitIInv, ProductInitIInv DEF Init
<1>2. ASSUME ComplaintIInv, UNCHANGED complaintVars PROVE ComplaintIInv'
  BY <1>2 DEF complaintVars, ComplaintIInv, ComplaintTypeOK, WorkHolds, TakenOnOnce, Took
<1>3. ASSUME CaseIInv, UNCHANGED caseVars PROVE CaseIInv'
  <2>1. UNCHANGED <<inspection, reported, case, notice, req>>
    BY <1>3 DEF caseVars
  <2>2. CaseTypeOK' /\ MovedOnce' /\ NoticesHold' /\ IssuedOnce'
    BY <1>3, <2>1 DEF CaseIInv, CaseTypeOK, MovedOnce, NoticesHold, IssuedOnce
  <2>3. RequestsHold'
    BY <1>3, <2>1, HeldStays DEF CaseIInv, RequestsHold, Grows
  <2>4. ProceedingsRestOnService'
    <3>1. \A d \in Case : Under(d)' = Under(d)
      BY <2>1 DEF Under
    <3> QED
      BY <1>3, <2>1, <3>1 DEF CaseIInv, ProceedingsRestOnService
  <2> QED
    BY <2>2, <2>3, <2>4 DEF CaseIInv
<1>4. ASSUME ProductIInv, UNCHANGED productVars PROVE ProductIInv'
  <2>1. UNCHANGED <<merges, into, barcodes, primary, found, now, desk>>
    BY <1>4 DEF productVars
  <2>2. Recorded' = Recorded
    BY <2>1 DEF Recorded
  <2>3. ProductTypeOK' /\ MergesAreRecorded' /\ PackagesAreReached' /\ MergesHold'
    BY <1>4, <2>1, <2>2
    DEF ProductIInv, ProductTypeOK, Place, MergesAreRecorded, PackagesAreReached, MergesHold
  <2> QED
    BY <2>3 DEF ProductIInv
<1>5. IInv /\ [Next]_<<complaintVars, caseVars, productVars>> => IInv'
  <2> SUFFICES ASSUME IInv, [Next]_<<complaintVars, caseVars, productVars>> PROVE IInv'
    OBVIOUS
  <2>1. ComplaintNext \/ UNCHANGED complaintVars
    BY DEF Next
  <2>2. CaseNext \/ UNCHANGED caseVars
    BY DEF Next
  <2>3. ProductNext \/ UNCHANGED productVars
    BY DEF Next
  <2> QED
    BY <1>2, <1>3, <1>4, <2>1, <2>2, <2>3, ComplaintNextIInv, CaseNextIInv, ProductNextIInv
<1> QED
  BY <1>1, <1>5, PTL DEF Spec

\* However many requests convert a complaint together, one inspection takes it
\* on (complaints.py convert_to_inspection, the complaint's version).
THEOREM ConvertedOnce == Spec => []OneInspectionTakesTheComplaint
<1>1. ComplaintIInv => OneInspectionTakesTheComplaint
  <2> SUFFICES ASSUME ComplaintIInv, NEW c \in Complaint
               PROVE  Cardinality({i \in Inspection : Took(i, c)}) <= 1
    BY DEF OneInspectionTakesTheComplaint, Took
  <2>1. \A i, k \in {j \in Inspection : Took(j, c)} : i = k
    BY DEF ComplaintIInv, TakenOnOnce
  <2> QED
    BY <2>1, AtMostOne
<1> QED
  BY <1>1, MatterIInv, PTL

\* A case is served with one notice (cases.py issue_notice, the case's version).
THEOREM ServedOnce == Spec => []OneNoticeIsServed
<1>1. CaseIInv => OneNoticeIsServed
  <2> SUFFICES ASSUME CaseIInv, NEW c \in Case
               PROVE  Cardinality({n \in Under(c) : notice[n].issued}) <= 1
    BY DEF OneNoticeIsServed
  <2>1. \A n, m \in {k \in Under(c) : notice[k].issued} : n = m
    BY DEF CaseIInv, IssuedOnce, Under
  <2> QED
    BY <2>1, AtMostOne
<1> QED
  BY <1>1, MatterIInv, PTL

\* No case awaits or weighs a response without a notice issued and delivered
\* (cases.py, the guards of the edges and the notices' endpoints together).
THEOREM ServiceComesFirst == Spec => []ProceedingsRestOnService
<1>1. CaseIInv => ProceedingsRestOnService
  BY DEF CaseIInv
<1> QED
  BY <1>1, MatterIInv, PTL

\* One case moves the inspection to case_opened (cases.py open_case, the
\* inspection's version).
THEOREM OpenedOnce == Spec => []OneCaseOpensTheMatter
<1>1. CaseIInv => OneCaseOpensTheMatter
  <2> SUFFICES ASSUME CaseIInv
               PROVE  Cardinality({c \in Case : case[c] # None /\ case[c].moved}) <= 1
    BY DEF OneCaseOpensTheMatter
  <2>1. \A c, d \in {k \in Case : case[k] # None /\ case[k].moved} : c = d
    BY DEF CaseIInv, MovedOnce
  <2> QED
    BY <2>1, AtMostOne
<1> QED
  BY <1>1, MatterIInv, PTL

\* Every inspection is of the product it was opened on or of one that product
\* was merged into, directly or through others, however merges, updates, new
\* products and new inspections overlap (products.py merge_products).
THEOREM InspectionsAreFollowed == Spec => []InspectionsFollowTheMerges
BY MatterIInv, ProductIInvImplies, PTL

=============================================================================
