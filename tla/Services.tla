------------------------------- MODULE Services -------------------------------
(****************************************************************************)
(* What tells one record service of the server from another.  The services  *)
(* under src/server/src/api share one shape, which Records models: create,  *)
(* read-then-update, read-then-remove, each audited and announced.  Here is *)
(* one descriptor per table (repository, Prisma model) and per service:     *)
(*   column  - values of the column whose change the service announces, or  *)
(*             that a graph, a default or a removal is about                *)
(*   initial - its value in a row created without one                       *)
(*   post    - the values that a validated POST body may carry              *)
(*   http    - the values that a validated PATCH body may carry             *)
(*   fill    - what validation puts into a PATCH body that carries none     *)
(*   graph   - the moves that update() lets pass; a value may stay          *)
(*   tells   - the moves that have a change event of their own              *)
(*   carries - which of the events of a creation and of an update carry the *)
(*             value that the column has then                               *)
(*   finds   - whether getById hides removed rows                           *)
(*   removal - what remove() does to the row                                *)
(****************************************************************************)
EXTENDS TLC

Unset == "UNSET"

\* Tables: deletedAt is stamped and hides the row.
SoftDeleted == [finds |-> "live", removal |-> "stamp"]
PersonTable == SoftDeleted
DemographicTable == SoftDeleted
IdentifierTable == SoftDeleted
FacultyTable == SoftDeleted
SchoolTable == SoftDeleted
DepartmentTable == SoftDeleted
ProgrammeTable == SoftDeleted
ProgrammeModuleTable == SoftDeleted
ProgrammeRouteTable == SoftDeleted
ProgrammeApprovalTable == SoftDeleted
ModuleTable == SoftDeleted
QualificationTable == SoftDeleted
ReferenceTable == SoftDeleted
InterviewTable == SoftDeleted
AdmissionsEventTable == SoftDeleted
ClearanceCheckTable == SoftDeleted
AssessmentTable == SoftDeleted
SubmissionTable == SoftDeleted
ExamBoardTable == SoftDeleted
ProgressionTable == SoftDeleted
AwardTable == SoftDeleted
TranscriptTable == SoftDeleted
DocumentTable == SoftDeleted
SupportTable == SoftDeleted
AccountTable == SoftDeleted
AppealTable == SoftDeleted
ECClaimTable == SoftDeleted
HESATable == SoftDeleted
TemplateTable == SoftDeleted

\* deletedAt is stamped, but getById finds the row all the same.
UKVITable == [finds |-> "all", removal |-> "stamp"]

\* The row is erased.
SettingTable == [finds |-> "live", removal |-> "erase"]

\* Removal is a value of the column; only blocks and committees hide it.
SubscriptionTable == [finds |-> "all", removal |-> "inactive"]
BlockTable == [finds |-> "live", removal |-> "inactive"]
RoomTable == [finds |-> "all", removal |-> "MAINTENANCE"]
BookingTable == [finds |-> "all", removal |-> "CANCELLED"]
CommitteeTable == [finds |-> "live", removal |-> "inactive"]
MemberTable == [finds |-> "all", removal |-> "ended"]

\* These rows are never removed.
MeetingTable == [finds |-> "live", removal |-> "never"]
NotificationTable == [finds |-> "live", removal |-> "never"]

------------------------------------------------------------------------------
Free(values) == [v \in values |-> values]

\* A service whose update() compares nothing.
Plain(table) ==
  [column |-> {"-"}, initial |-> "-", post |-> {}, http |-> {}, fill |-> Unset,
   graph |-> Free({"-"}), tells |-> {}, carries |-> {},
   finds |-> table.finds, removal |-> table.removal]

Moves(values) == {m \in values \X values : m[1] # m[2]}

\* A column that HTTP bodies may set, with a default in the schema that POST
\* and, being .partial() of the same, PATCH are validated with.
Defaulted(table, values, default) ==
  [column |-> values, initial |-> default, post |-> values,
   http |-> values, fill |-> default,
   graph |-> Free(values), tells |-> {}, carries |-> {"create", "update"},
   finds |-> table.finds, removal |-> table.removal]

\* A column the schema does not know: validation strips it from every body.
Stripped(table, values, initial) ==
  [Defaulted(table, values, initial) EXCEPT !.post = {}, !.http = {},
                                            !.fill = Unset]

\* The data of the events of these services leaves the column out.
CarriesOnly(service, ops) == [service EXCEPT !.carries = ops]
TellsMoves(service) == [service EXCEPT !.tells = Moves(service.column)]

Persons == Plain(PersonTable)
Demographics == Plain(DemographicTable)
Identifiers == Plain(IdentifierTable)
Faculties == Plain(FacultyTable)
Schools == Plain(SchoolTable)
Departments == Plain(DepartmentTable)
ProgrammeModules == Plain(ProgrammeModuleTable)
ProgrammeRoutes == Plain(ProgrammeRouteTable)
Qualifications == Plain(QualificationTable)
References == Plain(ReferenceTable)
Interviews == Plain(InterviewTable)
AdmissionsEvents == Plain(AdmissionsEventTable)
Assessments == Plain(AssessmentTable)
Transcripts == Plain(TranscriptTable)
Settings == Plain(SettingTable)

\* update() compares a status that the model Submission does not have.
Submissions == Plain(SubmissionTable)

Programmes ==
  TellsMoves(Defaulted(ProgrammeTable,
    {"DRAFT", "APPROVED", "SUSPENDED", "WITHDRAWN", "CLOSED"}, "DRAFT"))
ProgrammeApprovals ==
  TellsMoves(Defaulted(ProgrammeApprovalTable,
    {"PENDING", "APPROVED", "REJECTED", "RETURNED"}, "PENDING"))
Modules ==
  Defaulted(ModuleTable,
    {"DRAFT", "APPROVED", "RUNNING", "SUSPENDED", "WITHDRAWN"}, "DRAFT")
ClearanceChecks ==
  TellsMoves(Defaulted(ClearanceCheckTable,
    {"PENDING", "IN_PROGRESS", "CLEARED", "FAILED", "EXPIRED"}, "PENDING"))
ExamBoards ==
  TellsMoves(Defaulted(ExamBoardTable,
    {"SCHEDULED", "IN_PROGRESS", "COMPLETED", "CANCELLED"}, "SCHEDULED"))
Awards ==
  CarriesOnly(Defaulted(AwardTable,
    {"RECOMMENDED", "APPROVED", "CONFERRED", "REVOKED"}, "RECOMMENDED"), {})
UKVIRecords ==
  TellsMoves(Defaulted(UKVITable,
    {"COMPLIANT", "AT_RISK", "NON_COMPLIANT", "REPORTED"}, "COMPLIANT"))
Templates == Defaulted(TemplateTable, {"active", "inactive"}, "active")
Subscriptions ==
  Defaulted(SubscriptionTable, {"active", "inactive"}, "active")

\* The decision is mandatory in POST and has no default.
Progressions ==
  TellsMoves([Defaulted(ProgressionTable,
    {"PROGRESS", "REPEAT_YEAR", "REPEAT_MODULES", "WITHDRAW", "TRANSFER",
     "AWARD"}, "PROGRESS") EXCEPT !.fill = Unset])

\* PATCH has a schema of its own, without defaults.
HESANotifications ==
  [Defaulted(HESATable,
    {"PENDING", "SUBMITTED", "ACKNOWLEDGED", "REJECTED"}, "PENDING")
   EXCEPT !.post = {}, !.fill = Unset]
Notifications ==
  [Defaulted(NotificationTable, {"read", "unread"}, "unread")
   EXCEPT !.post = {}, !.fill = Unset, !.carries = {}]

\* document.uploaded and document.updated say nothing of the verification.
Documents ==
  CarriesOnly(TellsMoves(
    Stripped(DocumentTable, {"PENDING", "VERIFIED", "REJECTED"}, "PENDING")), {})
Accounts ==
  CarriesOnly(TellsMoves(
    Stripped(AccountTable, {"active", "closed"}, "active")), {"create"})

\* Only the resolution of a ticket has an event.
TicketStatus == {"OPEN", "IN_PROGRESS", "AWAITING_RESPONSE", "RESOLVED",
                 "CLOSED", "ESCALATED"}
Tickets ==
  [Stripped(SupportTable, TicketStatus, "OPEN")
   EXCEPT !.tells = {m \in Moves(TicketStatus) : m[2] = "RESOLVED"},
          !.carries = {}]

AppealTransitions ==
  ("SUBMITTED" :> {"UNDER_REVIEW", "CLOSED"})
  @@ ("UNDER_REVIEW" :> {"HEARING_SCHEDULED", "DECIDED", "CLOSED"})
  @@ ("HEARING_SCHEDULED" :> {"HEARD", "CLOSED"})
  @@ ("HEARD" :> {"DECIDED", "CLOSED"})
  @@ ("DECIDED" :> {"CLOSED"})
  @@ ("CLOSED" :> {})
Appeals ==
  TellsMoves([Stripped(AppealTable, DOMAIN AppealTransitions, "SUBMITTED")
              EXCEPT !.graph = AppealTransitions])

ECTransitions ==
  ("SUBMITTED" :> {"EVIDENCE_RECEIVED", "CLOSED"})
  @@ ("EVIDENCE_RECEIVED" :> {"PRE_PANEL", "CLOSED"})
  @@ ("PRE_PANEL" :> {"PANEL", "CLOSED"})
  @@ ("PANEL" :> {"DECIDED", "CLOSED"})
  @@ ("DECIDED" :> {"CLOSED"})
  @@ ("CLOSED" :> {})
ECClaims ==
  TellsMoves([Stripped(ECClaimTable, DOMAIN ECTransitions, "SUBMITTED")
              EXCEPT !.graph = ECTransitions])

Blocks == Defaulted(BlockTable, {"active", "inactive"}, "active")
Rooms ==
  CarriesOnly(
    Defaulted(RoomTable, {"AVAILABLE", "OCCUPIED", "MAINTENANCE", "RESERVED"},
              "AVAILABLE"), {"update"})
Bookings ==
  Defaulted(BookingTable,
    {"APPLIED", "OFFERED", "ACCEPTED", "OCCUPIED", "VACATED", "CANCELLED"},
    "APPLIED")
Committees ==
  CarriesOnly(Defaulted(CommitteeTable, {"active", "inactive"}, "active"), {})
Meetings ==
  Defaulted(MeetingTable,
    {"SCHEDULED", "IN_PROGRESS", "COMPLETED", "CANCELLED"}, "SCHEDULED")

\* A member is added and its endDate is set; there is no PATCH.
Members ==
  [Stripped(MemberTable, {"serving", "ended"}, "serving")
   EXCEPT !.graph = ("serving" :> {}) @@ ("ended" :> {}), !.carries = {}]

PlainServices ==
  {Persons, Demographics, Identifiers, Faculties, Schools, Departments,
   ProgrammeModules, ProgrammeRoutes, Qualifications, References, Interviews,
   AdmissionsEvents, Assessments, Transcripts, Settings, Submissions}
ColumnServices ==
  {Programmes, ProgrammeApprovals, Modules, ClearanceChecks, ExamBoards,
   Awards, UKVIRecords, Templates, Subscriptions, Progressions,
   HESANotifications, Notifications, Documents, Accounts, Tickets, Appeals,
   ECClaims, Blocks, Rooms, Bookings, Committees, Meetings, Members}
Service == PlainServices \cup ColumnServices
==============================================================================
