-------------------------------- MODULE Routes --------------------------------
(****************************************************************************)
(* The routes below /api/v1: one set per router of server/src/api, and in   *)
(* it one record per guard.  roles is what requireRole asks for, then what  *)
(* comes between it and the controller:                                     *)
(*   serve   nothing                                                        *)
(*   module  requireModuleIdForTeaching                                     *)
(*   scope   scopeToUser, or injectOwnerOnCreate: the caller's own record   *)
(*   own     requireOwnership: the record that is asked for is the caller's *)
(* Method, path and validation do not matter here and are left out.         *)
(****************************************************************************)
EXTENDS Roles

Guard(roles, then) == [roles |-> roles, then |-> then]
Open(roles) == Guard(roles, "serve")
Removal == Open(SUPER_ADMIN)

\* GET /, GET /:id, POST and PATCH; DELETE is the superuser's.
Crud(list, get, write) == {Open(list), Open(get), Open(write), Removal}
Closed(roles) == Crud(roles, roles, roles)
Readable(roles) == Crud(roles, ALL_AUTHENTICATED, roles)
Public(write) == Crud(ALL_AUTHENTICATED, ALL_AUTHENTICATED, write)

AdmissionsEventsRouter == Readable(ADMISSIONS)
AppealsRouter == Readable(REGISTRY)
AssessmentsRouter == Readable(TEACHING)
AwardsRouter == Readable(REGISTRY)
ModuleResultsRouter == Readable(TEACHING)
ProgrammeApprovalsRouter == Readable(QUALITY)
ProgrammeModulesRouter == Readable(ACADEMIC_LEADERSHIP)
ProgrammeRoutesRouter == Readable(REGISTRY)
ProgressionsRouter == Readable(REGISTRY)
TranscriptsRouter == Readable(REGISTRY)

ClearanceChecksRouter == Closed(ADMISSIONS)
ConfigRouter == Closed(SUPER_ADMIN)
DemographicsRouter == Closed(REGISTRY)
ExamBoardsRouter == Closed(EXAM_BOARD)
HesaRouter == Closed(ADMIN_STAFF)
InterviewsRouter == Closed(ADMISSIONS)
OffersRouter == Closed(ADMISSIONS)
QualificationsRouter == Closed(ADMISSIONS)
ReferencesRouter == Closed(ADMISSIONS)
UkviRouter == Closed(COMPLIANCE)
WebhooksRouter == Closed(SUPER_ADMIN)
IdentifiersRouter == Crud(ADMIN_STAFF, ADMIN_STAFF, REGISTRY)
PersonsRouter == Crud(ADMIN_STAFF, ADMIN_STAFF, REGISTRY)

DepartmentsRouter == Public(ACADEMIC_LEADERSHIP)
FacultiesRouter == Public(SUPER_ADMIN)
ModulesRouter == Public(ACADEMIC_LEADERSHIP)
ProgrammesRouter == Public(ACADEMIC_LEADERSHIP)
SchoolsRouter == Public(SUPER_ADMIN)
SubmissionsRouter ==
  Crud(TEACHING, ALL_AUTHENTICATED, ALL_AUTHENTICATED)

\* Blocks, rooms and bookings; committees, meetings and members.
AccommodationRouter == {Open(ADMIN_STAFF), Removal}
GovernanceRouter == {Open(ADMIN_STAFF), Removal}
AuditRouter == {Open(ADMIN_STAFF)}
CommunicationsRouter == {Open(ALL_AUTHENTICATED), Open(ADMIN_STAFF), Removal}
ReportsRouter ==
  {Open(ADMIN_STAFF), Open(ACADEMIC_STAFF), Open(ALL_AUTHENTICATED),
   Open(TEACHING)}

\* The routes that students and applicants use for their own records.
ApplicationsRouter ==
  {Guard(ALL_AUTHENTICATED, "scope"), Open(ADMISSIONS), Open(REGISTRY),
   Removal}
AttendanceRouter ==
  {Open(ALL_AUTHENTICATED), Guard(ALL_AUTHENTICATED, "scope"),
   Guard(ALL_AUTHENTICATED, "own"), Open(ADMIN_STAFF), Open(TEACHING), Removal}
DocumentsRouter ==
  {Guard(ADMIN_STAFF \cup STUDENTS, "scope"),
   Guard(ALL_AUTHENTICATED, "own"), Open(ADMIN_STAFF), Removal}
EcClaimsRouter ==
  LET readers == ADMIN_STAFF \cup TEACHING \cup SUPPORT \cup STUDENTS
  IN {Guard(readers, "scope"), Guard(readers, "own"), Open(REGISTRY), Removal}
EnrolmentsRouter ==
  {Guard(ALL_AUTHENTICATED, "scope"), Guard(ALL_AUTHENTICATED, "own"),
   Open(REGISTRY), Removal}
ModuleRegistrationsRouter ==
  {Guard(ALL_AUTHENTICATED, "scope"), Guard(ALL_AUTHENTICATED, "own"),
   Open(REGISTRY), Removal}
FinanceRouter ==
  {Guard(ALL_AUTHENTICATED, "scope"), Guard(ALL_AUTHENTICATED, "own"),
   Open(FINANCE), Removal}
MarksRouter ==
  {Guard(ADMIN_STAFF \cup TEACHING \cup STUDENTS, "scope"), Open(TEACHING),
   Removal}
SupportRouter ==
  {Guard(SUPPORT \cup STUDENTS, "scope"), Guard(SUPPORT \cup STUDENTS, "own"),
   Open(SUPPORT), Removal}
StudentsRouter ==
  {Guard(ADMIN_STAFF \cup TEACHING, "module"), Open(ALL_AUTHENTICATED),
   Open(REGISTRY), Removal}

\* apiV1Router; the mounts by domain repeat the same routers.
Route ==
  UNION {StudentsRouter, PersonsRouter, DemographicsRouter, IdentifiersRouter,
    FacultiesRouter, SchoolsRouter, DepartmentsRouter, ProgrammesRouter,
    ModulesRouter, ProgrammeModulesRouter, ProgrammeApprovalsRouter,
    ApplicationsRouter, QualificationsRouter, ReferencesRouter, OffersRouter,
    InterviewsRouter, ClearanceChecksRouter, AdmissionsEventsRouter,
    EnrolmentsRouter, ModuleRegistrationsRouter, ProgrammeRoutesRouter,
    AssessmentsRouter, MarksRouter, SubmissionsRouter, ModuleResultsRouter,
    ExamBoardsRouter, ProgressionsRouter, AwardsRouter, TranscriptsRouter,
    FinanceRouter, AttendanceRouter, SupportRouter, UkviRouter,
    EcClaimsRouter, AppealsRouter, DocumentsRouter, CommunicationsRouter,
    AuditRouter, ReportsRouter, WebhooksRouter, ConfigRouter, HesaRouter,
    AccommodationRouter, GovernanceRouter}

------------------------------------------------------------------------------
(* What a caller with these roles gets to hear on a route: "served",        *)
(* "forbidden", "invalid" or "unknown" at once; or an answer that takes his *)
(* "identity" or the "owner" of the record.                                 *)

\* requireRole: the superuser passes everywhere.
MayPass(roles, guard) ==
  "super_admin" \in roles \/ roles \cap guard.roles # {}

\* isAdminStaff, isTeachingStaff, isSupportStaff of data-scope.ts.
MutantNoSupport(roles) == roles \cap (ADMIN_STAFF \cup TEACHING) # {}
SeesAll(roles) == roles \cap (ADMIN_STAFF \cup TEACHING \cup SUPPORT) # {}

\* scopeToUser and injectOwnerOnCreate.
Scoped(roles) ==
  IF SeesAll(roles) THEN {"served"}
  ELSE IF roles \cap {"student", "applicant"} # {} THEN {"identity"}
  ELSE {"unknown"}

\* requireOwnership
Owned(roles) == IF SeesAll(roles) THEN {"served"} ELSE {"owner"}

\* With or without a moduleId in the query.
ModuleFiltered(roles) ==
  {"served"} \cup IF roles \cap ADMIN_STAFF # {} THEN {} ELSE {"invalid"}

Hears(roles, guard) ==
  IF ~MayPass(roles, guard) THEN {"forbidden"}
  ELSE CASE guard.then = "scope"  -> Scoped(roles)
         [] guard.then = "own"    -> Owned(roles)
         [] guard.then = "module" -> ModuleFiltered(roles)
         [] OTHER                 -> {"served"}

Outcomes(roles) == UNION {Hears(roles, guard) : guard \in Route}
==============================================================================
