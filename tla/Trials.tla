------------------------------- MODULE Trials -------------------------------
(***************************************************************************)
(* More trials: which records an account covers, the rule set a new        *)
(* workspace is seeded with, what deleting rows takes along, and what is   *)
(* read next to a label.  They share the variable of RuleTrial.            *)
(***************************************************************************)
EXTENDS RuleTrial, Jurisdictions, StarterRules, Schema

INSTANCE Extraction

\* What is printed of a declaration.
Value(type, amount) == [kind |-> KindOf(type), amount |-> amount]

CONSTANTS
    Territory,   \* codes as clients and administrators write them
    Confidence,  \* what OCR gives the lines with values, in percent
    Unfilled,    \* labels with nothing to read that a page may end with, in order
    Emptied,     \* tables that may have no row when the deleting begins
    MaxDeletes   \* rows deleted one after the other

ASSUME TrialsAssumption ==
    /\ \A code \in Territory : code \in Seq(STRING)
    /\ Emptied \subseteq Table
    /\ MaxDeletes \in Nat
    /\ Confidence \subseteq 0..100
    /\ \A labels \in Unfilled : labels \in Seq(UNION {Labels[d] : d \in Type})

\* "None" is no value that is printed and nothing that was read.
ASSUME PageAssumption ==
    \A type \in Type, amount \in {1, 2} :
        None # Value(type, amount) /\ None # [words |-> << >>, value |-> Value(type, amount)]

-----------------------------------------------------------------------------
\* An account, and the code of a record.
ScopeTrial == [about : {"scope"}, role : Role, account : Territory, record : Territory]

TryScope == trial = Nothing /\ trial' \in ScopeTrial

\* A rule of the starter set.
TryStarter ==
    /\ trial = Nothing
    /\ trial' \in [about : {"starter"}, shipped : SeedRules]

\* A database with a row in every table but some, before any row is deleted.
TryDatabase ==
    /\ trial = Nothing
    /\ \E without \in SUBSET Emptied :
          trial' = [about |-> "database", rows |-> Populated(without),
                    lost |-> {}, deleted |-> {}]

\* DELETE of one row.
TryDelete ==
    /\ trial.about = "database"
    /\ Cardinality(trial.deleted) < MaxDeletes
    /\ \E table \in trial.rows :
          trial' = [trial EXCEPT !.rows = AfterDelete(trial.rows, table),
                                 !.lost = @ \cup (trial.rows \ AfterDelete(trial.rows, table)),
                                 !.deleted = @ \cup {table}]

\* A page that bears a declaration, beside its label or on the line below, once
\* or twice, and perhaps more labels of the type with nothing to read.
PageTrial ==
    {t \in [about : {"page"}, type : Type \ {"veg_nonveg_mark"},
            label : UNION {Labels[d] : d \in Type}, below : BOOLEAN,
            twice : BOOLEAN, bare : Unfilled, confidence : Confidence] :
        /\ t.label \in Labels[t.type]
        /\ \A n \in DOMAIN t.bare : t.bare[n] \in Labels[t.type] /\ KindOf(t.type) # "text"}

TryPage == trial = Nothing /\ trial' \in PageTrial

TrialsNext == TrialNext \/ TryScope \/ TryStarter \/ TryDatabase \/ TryDelete \/ TryPage

TrialsSpec == TrialInit /\ [][TrialsNext]_trial

-----------------------------------------------------------------------------
(* Pages                                                                   *)

Line(words, value, confidence) ==
    [words |-> words, value |-> value, confidence |-> confidence]

Printing(t, amount) ==
    LET value == Value(t.type, amount)
    IN  IF t.below
        THEN <<Line(t.label, None, t.confidence), Line(<< >>, value, t.confidence)>>
        ELSE <<Line(t.label, value, t.confidence)>>

Printings(t) == IF t.twice THEN {1, 2} ELSE {1}

Page(t) ==
    Printing(t, 1) \o (IF t.twice THEN Printing(t, 2) ELSE << >>)
        \o [n \in DOMAIN t.bare |-> Line(t.bare[n], None, 100)]

ReadAs(type, t, amount) ==
    \E m \in Kept(type, Page(t)) :
        m.read = [words |-> << >>, value |-> Value(t.type, amount)]

-----------------------------------------------------------------------------
(* Properties                                                              *)

\* A record that can be opened is in the register of the same account and the
\* reverse, whichever way the administrator wrote the account's code: the test
\* on the loaded row and the one inside the query agree, so that a neighbour
\* whose code begins with the same letters is in neither.  This is of records
\* whose code is stored in its normal form.
RegistersShowWhatIsCovered ==
    trial.about = "scope" /\ NormaliseJurisdiction(trial.record) = trial.record =>
        LET scope == Scope(trial.role, trial.account)
        IN  Covers(scope, trial.record) <=> Listed(scope, trial.record, TRUE)

\* Every rule of the starter set can be approved as it is shipped: its
\* scenarios pass, they are of every kind that approval asks for, and on an
\* inspection the engine finds what the scenario promised, although it looks
\* at missing inputs and the simulator does not.
StarterRulesAreReady ==
    trial.about = "starter" =>
        LET rule == trial.shipped.rule
        IN  /\ StarterKinds(rule) \subseteq {s.kind : s \in ShippedTrials(trial.shipped)}
            /\ \A s \in ShippedTrials(trial.shipped) :
                  /\ Passed(rule, s)
                  /\ AppliesWhateverStatus(rule, s.context)
                        => FindingOutcome(rule, s.payload) = s.expected

\* Records of enforcement do not go along with something else: whichever rows
\* are deleted, one after the other, an inspection, a report, a case, a
\* complaint, a product, an account and a rule version are lost only by
\* deleting them; what an inspection with a report or a case holds goes only by
\* deleting it; the audit trail stays whole.
RecordsAreNotTakenAlong ==
    trial.about = "database" =>
        /\ trial.lost \cap {"inspections", "reports", "cases", "complaints", "products",
                            "users", "rule_versions"} \subseteq trial.deleted
        /\ {"reports", "cases"} \cap trial.rows # {} =>
              trial.lost \cap {"evidence", "declaration_candidates", "findings",
                              "inspection_faces"} \subseteq trial.deleted
        /\ "audit_events" \notin trial.lost
        /\ "findings" \in trial.rows => "rule_versions" \in trial.rows

\* What is printed with a label of its declaration is shown to the officer as
\* that declaration and as no other, whole, both times it is printed, however
\* many more labels there are with nothing to read: no label of one type lies
\* inside a line of another, and what was read ranks before what was not.  The
\* two values have the same unit, and the marks for vegetarian food, whose
\* label is the value itself, are left out.
PrintedValuesAreShown ==
    trial.about = "page" =>
        \A amount \in Printings(trial), type \in Type :
            ReadAs(type, trial, amount) <=> type = trial.type
=============================================================================
