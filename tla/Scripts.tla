------------------------------- MODULE Scripts -------------------------------
(****************************************************************************)
(* What the scripts that set an installation up are made of: steps, each    *)
(* one call that stands or falls by itself, and the things they act on (a   *)
(* table, or an object of Keycloak or n8n) with what refers to what.        *)
(*   wipe    deleteMany of a table                                          *)
(*   clear   a deletion whose failure the script ignores                    *)
(*   fill    a creation with ids of its own; it fails when they exist       *)
(*   upsert  a creation that is content with what exists                    *)
(*   try     an upsert whose failure is only a warning                      *)
(*   skip    an upsert whose failure is recorded; the script goes on, and   *)
(*           fails at its end                                               *)
(*   ignore  an upsert whose failure nobody notices                         *)
(****************************************************************************)
EXTENDS Sequences, TLC

Each(op, things) == [i \in DOMAIN things |-> [op |-> op, on |-> things[i]]]
Fill(tables) == Each("fill", tables)
Wipe(tables) == Each("wipe", tables)

\* Required references without onDelete: a row that is referred to stays.
RestrictedBy ==
  ("Applicant" :> {"Application"})
  @@ ("Assessment" :> {
      "AssessmentAttempt", "AssessmentComponent", "Submission"})
  @@ ("AssessmentComponent" :> {"MarkEntry"})
  @@ ("Department" :> {"Module", "Programme"})
  @@ ("Enrolment" :> {"AwardRecord", "ProgressionRecord"})
  @@ ("Faculty" :> {"School"})
  @@ ("HESAModule" :> {"HESAStudentModule"})
  @@ ("HESAStudent" :> {"HESAStudentModule"})
  @@ ("Invoice" :> {"CreditNote"})
  @@ ("Module" :> {
      "Assessment", "HESAModule", "ModuleDelivery", "ModuleRegistration",
      "ModuleResult", "ProgrammeModule", "TeachingEvent", "TeachingGroup"})
  @@ ("ModuleRegistration" :> {
      "AssessmentAttempt", "AttendanceRecord", "MarkEntry", "ModuleResult",
      "Submission"})
  @@ ("ApplicantPersons" :> {"Applicant"})
  @@ ("StaffPersons" :> {"Staff"})
  @@ ("StudentPersons" :> {"Student"})
  @@ ("Programme" :> {
      "Application", "AwardRecord", "Enrolment", "ExamBoard",
      "StudentProgrammeRoute"})
  @@ ("School" :> {"Department"})
  @@ ("Staff" :> {
      "CommitteeMember", "ExamBoardMember", "ExternalExaminer",
      "ModuleDelivery"})
  @@ ("Student" :> {
      "AccommodationBooking", "Appeal", "AttendanceAlert", "AttendanceRecord",
      "AwardRecord", "ECClaim", "EngagementIntervention", "EngagementScore",
      "Enrolment", "ExamBoardDecision", "HESAEntryQualification",
      "HESAStudent", "StudentAccount", "StudentGroupMember",
      "StudentProgrammeRoute", "SupportTicket", "TeachingGroupMember",
      "Transcript", "UKVIRecord"})
  @@ ("StudentAccount" :> {"Invoice", "Payment"})
  @@ ("UKVIRecord" :> {"UKVIReport"})

\* References with onDelete: Cascade.
SchemaCascades ==
  ("AcademicYear" :> {"TeachingWeek", "TermDate"})
  @@ ("Application" :> {
      "ApplicationQualification", "ApplicationReference", "ClearanceCheck",
      "Interview", "OfferCondition"})
  @@ ("Assessment" :> {"AssessmentCriteria"})
  @@ ("Enrolment" :> {
      "EnrolmentStatusHistory", "EnrolmentTask", "ModuleRegistration"})
  @@ ("ExamBoard" :> {"ExamBoardDecision", "ExamBoardMember"})
  @@ ("Module" :> {
      "AssessmentPattern", "LearningOutcome", "ModuleSpecification"})
  @@ ("StudentPersons" :> {
      "PersonAddress", "PersonContact", "PersonDemographic",
      "PersonIdentifier", "PersonNationality"})
  @@ ("Programme" :> {
      "ProgrammeApproval", "ProgrammeModule", "ProgrammePathway",
      "ProgrammeSpecification", "QualificationAim"})
  @@ ("ProgrammeSpecification" :> {"LearningOutcome"})
  @@ ("Staff" :> {"StaffContract"})
  @@ ("StudentAccount" :> {"ChargeLine"})
  @@ ("SupportTicket" :> {"SupportInteraction"})
  @@ ("TeachingEvent" :> {"TimetableSlot"})
  @@ ("TeachingGroup" :> {"TeachingGroupMember"})
  @@ ("UKVIRecord" :> {"UKVIContactPoint"})

\* A realm owns all that is in it; an active workflow is first a workflow.
RealmCascades ==
  ("realm" :> {"required actions", "roles", "client", "users"})
  @@ ("roles" :> {"composites", "role mappings"})
  @@ ("client" :> {"mapper"})
  @@ ("users" :> {"role mappings"})
WorkflowCascades ==
  ("workflow 1" :> {"active workflow 1"})
  @@ ("workflow 2" :> {"active workflow 2"})

CascadesTo == SchemaCascades @@ RealmCascades @@ WorkflowCascades

\* One table that three functions of a seed fill, each with ids of its own.
Parts == "Person" :> {"ApplicantPersons", "StaffPersons", "StudentPersons"}

Of(graph, thing) == IF thing \in DOMAIN graph THEN graph[thing] ELSE {}

\* What goes with a thing that is deleted (cascades are two deep), what keeps
\* it from being deleted, and what has to be there before it is created.
Doomed(thing) ==
  LET rows == {thing} \cup Of(Parts, thing)
      next == UNION {Of(CascadesTo, t) : t \in rows}
  IN rows \cup next \cup UNION {Of(CascadesTo, t) : t \in next}
Blockers(thing) == UNION {Of(RestrictedBy, t) : t \in Doomed(thing)}
Needs(thing) ==
  {t \in DOMAIN CascadesTo \cup DOMAIN RestrictedBy :
     thing \in Of(CascadesTo, t) \cup Of(RestrictedBy, t)}
==============================================================================
