------------------------- MODULE MCEvidenceAnalysis -------------------------
(***************************************************************************)
(* A small instance of EvidenceAnalysis for TLC: at most two files, two    *)
(* jobs (of two files, or a first and a second analysis of one file), two  *)
(* tasks at once, and two places on a file where the same type is found.   *)
(***************************************************************************)
EXTENDS EvidenceAnalysis, TLC

OneType == [m \in Match |-> "net_quantity"]

Symmetric == Permutations(Job) \cup Permutations(Request) \cup Permutations(Slot)
             \cup Permutations(Evidence) \cup Permutations(Match)

\* A history variable: no officer has moved the inspection and no task has
\* failed or been cut off.
VARIABLE undisturbed

ObservedInit == AnalysisInit /\ undisturbed = TRUE

\* The steps that leave an undisturbed inspection undisturbed, and the others.
ObservedNext ==
    \/ \E r \in Request : RequestAction(r) /\ UNCHANGED undisturbed
    \/ \E w \in Slot : FindRunning(w) /\ UNCHANGED undisturbed
    \/ \E w \in Slot : BeginAnalysis(w) /\ UNCHANGED undisturbed
    \/ \E w \in Slot : ReadEvidence(w) /\ UNCHANGED undisturbed
    \/ \E w \in Slot, found \in SUBSET Match, ok \in BOOLEAN :
          StoreResults(w, found, ok) /\ UNCHANGED undisturbed
    \/ \E w \in Slot : CountOutstanding(w) /\ UNCHANGED undisturbed
    \/ \E w \in Slot : AdvanceInspection(w) /\ UNCHANGED undisturbed
    \/ \E w \in Slot : FindFailed(w) /\ undisturbed' = FALSE
    \/ \E w \in Slot : FailAnalysis(w) /\ undisturbed' = FALSE
    \/ \E w \in Slot : CutAnalysis(w) /\ undisturbed' = FALSE
    \/ WorkerIsKilled /\ undisturbed' = FALSE
    \/ \E e \in Evidence, m \in Match : Review(e, m) /\ UNCHANGED undisturbed
    \/ \E target \in M!InspectionState : OfficerMove(target) /\ undisturbed' = FALSE
    \/ QueueOnly /\ UNCHANGED undisturbed

ObservedSpec == ObservedInit /\ [][ObservedNext]_<<allVars, undisturbed>>

\* The last task to finish moves the inspection on: when every file has been
\* analysed and the inspection is still processing, some task has yet to look.
\* Each task counts the files of the others after its own commit, so two that
\* finish together may both count nothing left, but never both count each other.
LastTaskAdvances ==
    undisturbed /\ state = "processing" /\ NothingOutstanding =>
        \E w \in Slot : slot[w].stage = "stored"
=============================================================================
