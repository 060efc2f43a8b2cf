------------------------------- MODULE Schema -------------------------------
(***************************************************************************)
(* What the database does when a row is deleted: the references between    *)
(* the tables (api/migrations/versions/0001_initial_schema.py) and the     *)
(* triggers that refuse an update or a delete (0002_audit_and_sequences).  *)
(* The application itself deletes one kind of row only, readings that are  *)
(* replaced; what else is deleted is deleted by hand.  The columns of a    *)
(* table that refer to no other table are left out, and so are those that  *)
(* refer to another row of the same table.                                 *)
(***************************************************************************)
EXTENDS Naturals, FiniteSets

\* What happens to a row when the row it refers to is deleted.
Cascade(table)   == [to |-> table, deleting |-> "cascade"]
SetNull(table)   == [to |-> table, deleting |-> "set null"]
Restricts(table) == [to |-> table, deleting |-> "restrict"]

NoReferences == [column \in {} |-> "none"]
ByUser       == SetNull("users")

-----------------------------------------------------------------------------
(* The references of every table                                           *)

Users == NoReferences

AuditEvents == [actor_id |-> ByUser]

LoginAttempts == [user_id |-> ByUser]

NoticeTemplates == [created_by_id |-> ByUser]

PasswordResetTokens == [issued_by_id |-> ByUser, user_id |-> Cascade("users")]

Products == [created_by_id |-> ByUser]

RuleVersions == [author_id |-> ByUser, reviewer_id |-> ByUser, approver_id |-> ByUser]

StateTransitions == [actor_id |-> ByUser]

UserSessions == [user_id |-> Cascade("users")]

Complaints == [assigned_officer_id |-> ByUser, matched_product_id |-> SetNull("products")]

ProductIdentifiers == [product_id |-> Cascade("products"), recorded_by_id |-> ByUser]

ProductMergeRecords == [merged_by_id |-> ByUser, target_product_id |-> Cascade("products")]

RuleReviews == [actor_id |-> ByUser, rule_version_id |-> Cascade("rule_versions")]

RuleTestRuns == [rule_version_id |-> Cascade("rule_versions"), run_by_id |-> ByUser]

\* A mutant of Inspections: deleting a product takes its inspections along.
InspectionsOfProduct ==
    [product_id |-> Cascade("products"), created_by_id |-> Restricts("users"),
     complaint_id |-> SetNull("complaints"), assigned_officer_id |-> ByUser,
     reviewer_id |-> ByUser, decided_by_id |-> ByUser]

Inspections ==
    [product_id |-> Restricts("products"), created_by_id |-> Restricts("users"),
     complaint_id |-> SetNull("complaints"), assigned_officer_id |-> ByUser,
     reviewer_id |-> ByUser, decided_by_id |-> ByUser]

Evidence ==
    [inspection_id |-> Cascade("inspections"), complaint_id |-> SetNull("complaints"),
     uploaded_by_id |-> ByUser, quality_accepted_by_id |-> ByUser]

InspectionFaces == [inspection_id |-> Cascade("inspections"), updated_by_id |-> ByUser]

Reports ==
    [inspection_id |-> Restricts("inspections"), issued_by_id |-> ByUser,
     withdrawn_by_id |-> ByUser]

AnalysisJobs ==
    [inspection_id |-> Cascade("inspections"), evidence_id |-> Cascade("evidence"),
     requested_by_id |-> ByUser]

Cases ==
    [inspection_id |-> Restricts("inspections"),
     follow_up_inspection_id |-> SetNull("inspections"), report_id |-> SetNull("reports"),
     assigned_officer_id |-> ByUser, opened_by_id |-> ByUser]

ComplaintAttachments ==
    [complaint_id |-> Cascade("complaints"), promoted_evidence_id |-> SetNull("evidence")]

EvidenceDerivatives == [evidence_id |-> Cascade("evidence")]

OcrResults == [evidence_id |-> Cascade("evidence")]

ReportDocuments == [report_id |-> Cascade("reports")]

ResponsibleParties ==
    [product_id |-> Cascade("products"), source_evidence_id |-> SetNull("evidence"),
     recorded_by_id |-> ByUser]

CaseEvents == [case_id |-> Cascade("cases"), actor_id |-> ByUser]

DeclarationCandidates ==
    [inspection_id |-> Cascade("inspections"), evidence_id |-> SetNull("evidence"),
     ocr_result_id |-> SetNull("ocr_results"), reviewed_by_id |-> ByUser]

Notices == [case_id |-> Cascade("cases"), issued_by_id |-> ByUser]

CandidateRevisions ==
    [candidate_id |-> Cascade("declaration_candidates"), actor_id |-> ByUser]

Findings ==
    [inspection_id |-> Cascade("inspections"), rule_version_id |-> Restricts("rule_versions"),
     candidate_id |-> SetNull("declaration_candidates"), officer_id |-> ByUser]

References ==
    [users |-> Users, audit_events |-> AuditEvents, login_attempts |-> LoginAttempts,
     notice_templates |-> NoticeTemplates, password_reset_tokens |-> PasswordResetTokens,
     products |-> Products, rule_versions |-> RuleVersions,
     state_transitions |-> StateTransitions, user_sessions |-> UserSessions,
     complaints |-> Complaints, product_identifiers |-> ProductIdentifiers,
     product_merge_records |-> ProductMergeRecords, rule_reviews |-> RuleReviews,
     rule_test_runs |-> RuleTestRuns, inspections |-> Inspections, evidence |-> Evidence,
     inspection_faces |-> InspectionFaces, reports |-> Reports,
     analysis_jobs |-> AnalysisJobs, cases |-> Cases,
     complaint_attachments |-> ComplaintAttachments,
     evidence_derivatives |-> EvidenceDerivatives, ocr_results |-> OcrResults,
     report_documents |-> ReportDocuments, responsible_parties |-> ResponsibleParties,
     case_events |-> CaseEvents, declaration_candidates |-> DeclarationCandidates,
     notices |-> Notices, candidate_revisions |-> CandidateRevisions, findings |-> Findings]

Table == DOMAIN References

\* The columns the triggers protect that are references: all of an audit event,
\* and which inspection a file is of.  The other columns protected, of reports
\* and of notices, hold what was issued.
Protected ==
    [t \in Table |-> IF t = "audit_events" THEN DOMAIN References[t]
                     ELSE IF t = "evidence" THEN {"inspection_id"} ELSE {}]

\* Tables whose rows may not be deleted.
AppendOnly == {"audit_events"}

-----------------------------------------------------------------------------
(* A database with at most one row in a table.  Every reference of a row   *)
(* that is there is set, until the row it refers to is deleted.            *)

\* The references of the rows that are set, and what becomes of them.
RefersTo(rows, table, deleting) ==
    {r \in rows : \E column \in DOMAIN References[r] :
        References[r][column] = [to |-> table, deleting |-> deleting]}

\* With these rows go those that refer to them.
WithTheirs(rows, tables) ==
    tables \cup UNION {RefersTo(rows, t, "cascade") : t \in tables}

\* The rows that go with a row; the longest chain is of two references, from a
\* revision through a reading to its inspection.
Gone(rows, table) == WithTheirs(rows, WithTheirs(rows, {table}))

\* The database refuses: a row restricts it, or a trigger protects a row that
\* would go or a column that would be cleared.
Refused(rows, table) ==
    \E t \in Gone(rows, table) :
        \/ RefersTo(rows, t, "restrict") # {}
        \/ t \in AppendOnly
        \/ \E r \in RefersTo(rows, t, "set null") \ Gone(rows, table) :
              \E column \in Protected[r] : References[r][column].to = t

\* The rows after DELETE of the row of a table.
AfterDelete(rows, table) ==
    IF Refused(rows, table) THEN rows ELSE rows \ Gone(rows, table)

\* The rows left without those that refer to an absent row for good.
Standing(rows) ==
    {r \in rows : \A column \in DOMAIN References[r] :
        \/ References[r][column].deleting = "set null"
        \/ References[r][column].to \in rows}

\* The rows that can be there when some tables have none; the longest chain is
\* of three references, from what was read of a photograph to the product.
Populated(without) == Standing(Standing(Standing(Table \ without)))
=============================================================================
