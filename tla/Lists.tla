-------------------------------- MODULE Lists ---------------------------------
(****************************************************************************)
(* The lists of the server: the fields each may be sorted by, and for every *)
(* list function of the repositories which of those allow-lists it passes   *)
(* to safeOrderBy, the field it falls back to, and how a row leaves it:     *)
(*   deletedAt   the row is marked as deleted                               *)
(*   status      the list shows active rows unless asked otherwise          *)
(*   expiresAt   the list shows rows that have not expired                  *)
(*   delete      the row is erased                                          *)
(*   never       nothing in the code takes a row out                        *)
(* The filters a page may set are left out.                                 *)
(****************************************************************************)

Fixed == {"id", "createdAt"}
Dated == Fixed \cup {"updatedAt"}

ACADEMIC_CALENDAR_SORT == Dated \cup
  {"academicYear", "eventType", "title", "startDate", "endDate"}
ACCOMMODATION_BLOCK_SORT == Dated \cup {"blockName", "status", "totalRooms"}
ACCOMMODATION_ROOM_SORT == Dated \cup
  {"roomNumber", "roomType", "weeklyRent", "status"}
ACCOMMODATION_BOOKING_SORT == Dated \cup
  {"academicYear", "startDate", "endDate", "weeklyRent", "totalCost",
   "status"}
ADMISSIONS_EVENT_SORT == Dated \cup
  {"title", "eventType", "date", "venue", "registeredCount"}
APPLICATION_SORT == Dated \cup
  {"academicYear", "status", "decisionDate", "ucasApplicationCode"}
APPEAL_SORT == Dated \cup
  {"submittedDate", "hearingDate", "decisionDate", "status", "appealType"}
APPLICATION_QUALIFICATION_SORT == Dated \cup
  {"qualificationType", "subject", "dateAwarded"}
APPLICATION_REFERENCE_SORT == Dated \cup
  {"refereeName", "refereeEmail", "receivedDate"}
ASSESSMENT_SORT == Dated \cup
  {"academicYear", "title", "assessmentType", "weighting", "dueDate",
   "maxMark"}
ASSESSMENT_ATTEMPT_SORT == Dated \cup
  {"attemptNumber", "submittedDate", "markedDate", "status", "grade"}
ATTENDANCE_RECORD_SORT == Dated \cup {"date", "status", "markedDate"}
ATTENDANCE_ALERT_SORT == Dated \cup
  {"triggerDate", "status", "currentValue", "resolvedDate"}
AUDIT_LOG_SORT == Fixed \cup {"timestamp", "entityType", "action", "userId"}
AWARD_RECORD_SORT == Dated \cup {"totalCredits", "awardDate", "status"}
CLEARANCE_CHECK_SORT == Dated \cup
  {"status", "checkType", "completedDate", "expiryDate"}
COMMITTEE_SORT == Dated \cup {"committeeName", "committeeType", "status"}
COMMITTEE_MEETING_SORT == Dated \cup {"meetingDate", "venue", "status"}
COMMUNICATION_LOG_SORT == Dated \cup
  {"sentDate", "deliveryStatus", "readDate"}
COMMUNICATION_TEMPLATE_SORT == Dated \cup
  {"templateCode", "title", "category", "channel", "isActive"}
DEPARTMENT_SORT == Dated \cup {"code", "title"}
DOCUMENT_SORT == Dated \cup
  {"title", "documentType", "fileSize", "verificationStatus",
   "retentionDate", "status"}
EC_CLAIM_SORT == Dated \cup
  {"submittedDate", "panelDate", "status", "decision"}
ENROLMENT_SORT == Dated \cup
  {"academicYear", "yearOfStudy", "status", "startDate",
   "expectedEndDate", "feeStatus"}
EXAM_BOARD_SORT == Dated \cup
  {"title", "academicYear", "boardType", "scheduledDate", "status"}
FACULTY_SORT == Dated \cup {"code", "title"}
FINANCIAL_TRANSACTION_SORT == Dated \cup
  {"transactionRef", "postedDate", "effectiveDate", "debitAmount",
   "creditAmount", "runningBalance", "status"}
HESA_NOTIFICATION_SORT == Dated \cup
  {"entityType", "changeType", "status", "submittedAt", "acknowledgedAt"}
INTERVIEW_SORT == Dated \cup {"interviewDate", "outcome", "format"}
MODULE_SORT == Dated \cup
  {"moduleCode", "title", "credits", "level", "semester", "status"}
MODULE_REGISTRATION_SORT == Dated \cup {"academicYear", "attempt", "status"}
MODULE_RESULT_SORT == Dated \cup
  {"academicYear", "aggregateMark", "grade", "status"}
NOTIFICATION_SORT == Dated \cup
  {"title", "category", "priority", "isRead", "readAt"}
OFFER_CONDITION_SORT == Dated \cup {"status", "targetGrade"}
PERSON_SORT == Dated \cup {"firstName", "lastName", "dateOfBirth"}
PERSON_DEMOGRAPHIC_SORT == Dated
PERSON_IDENTIFIER_SORT == Dated \cup
  {"identifierType", "value", "issueDate", "expiryDate"}
PROGRAMME_SORT == Dated \cup
  {"programmeCode", "ucasCode", "title", "level", "status", "validFrom",
   "validTo"}
PROGRAMME_MODULE_SORT == Dated \cup {"moduleType", "yearOfStudy", "semester"}
PROGRAMME_APPROVAL_SORT == Dated \cup
  {"stage", "status", "version", "approvedDate"}
PROGRESSION_RECORD_SORT == Dated \cup
  {"academicYear", "yearOfStudy", "totalCreditsAttempted",
   "totalCreditsPassed", "averageMark", "decisionDate"}
SCHOOL_SORT == Dated \cup {"code", "title"}
STATUTORY_RETURN_SORT == Dated \cup
  {"academicYear", "returnType", "status", "dueDate", "submissionDate"}
STUDENT_SORT == Dated \cup
  {"studentNumber", "feeStatus", "entryRoute", "originalEntryDate"}
STUDENT_ACCOUNT_SORT == Dated \cup
  {"academicYear", "balance", "status", "lastTransactionDate"}
STUDENT_PROGRAMME_ROUTE_SORT == Dated \cup
  {"routeCode", "pathwayCode", "entryDate"}
SUBMISSION_SORT == Dated \cup {"submittedDate", "isLate", "turnitinScore"}
SUPPORT_TICKET_SORT == Dated \cup
  {"category", "subject", "priority", "status", "resolvedDate"}
SYSTEM_SETTING_SORT == Dated \cup {"settingKey", "category"}
TEACHING_EVENT_SORT == Dated \cup
  {"academicYear", "dayOfWeek", "startTime", "endTime", "eventType",
   "status"}
TRANSCRIPT_SORT == Dated \cup {"transcriptType", "generatedDate"}
UKVI_CONTACT_POINT_SORT == Dated \cup {"contactDate", "contactType", "status"}
UKVI_RECORD_SORT == Dated \cup
  {"complianceStatus", "casAssignedDate", "casExpiryDate", "visaExpiry",
   "tier4Status"}
WEBHOOK_SUBSCRIPTION_SORT == Dated \cup
  {"isActive", "lastTriggeredAt", "failureCount", "url"}

\* safeOrderBy's last resort, which every allow-list has.
NoFallback == "createdAt"

List(sorts, fallback, leave) ==
  [sorts |-> sorts, fallback |-> fallback, leave |-> leave]
MarkedBy(sorts, fallback) == List(sorts, fallback, "deletedAt")
Marked(sorts) == MarkedBy(sorts, NoFallback)

AcademicCalendarList == List(ACADEMIC_CALENDAR_SORT, "startDate", "never")
AccommodationBlocks == List(ACCOMMODATION_BLOCK_SORT, "blockName", "status")
AccommodationRooms == List(ACCOMMODATION_ROOM_SORT, "roomNumber", "never")
AccommodationBookings == List(ACCOMMODATION_BOOKING_SORT, NoFallback, "never")
AdmissionsList == Marked(APPLICATION_SORT)
AdmissionsEventList == MarkedBy(ADMISSIONS_EVENT_SORT, "date")
AppealList == MarkedBy(APPEAL_SORT, "submittedDate")
ApplicationQualificationList == Marked(APPLICATION_QUALIFICATION_SORT)
ApplicationReferenceList == Marked(APPLICATION_REFERENCE_SORT)
AssessmentList == MarkedBy(ASSESSMENT_SORT, "dueDate")
AssessmentAttemptList == Marked(ASSESSMENT_ATTEMPT_SORT)
AttendanceList == MarkedBy(ATTENDANCE_RECORD_SORT, "date")
AttendanceAlerts == List(ATTENDANCE_ALERT_SORT, "triggerDate", "never")
AuditLogList == List(AUDIT_LOG_SORT, "timestamp", "never")
AwardRecordList == Marked(AWARD_RECORD_SORT)
ClearanceCheckList == Marked(CLEARANCE_CHECK_SORT)
CommunicationLogList == List(COMMUNICATION_LOG_SORT, NoFallback, "never")
CommunicationTemplateList == Marked(COMMUNICATION_TEMPLATE_SORT)
ComplianceList == Marked(UKVI_RECORD_SORT)
ContactPoints == List(UKVI_CONTACT_POINT_SORT, NoFallback, "never")
NonCompliantStudents == MarkedBy(UKVI_RECORD_SORT, "complianceStatus")
DepartmentList == Marked(DEPARTMENT_SORT)
DocumentList == Marked(DOCUMENT_SORT)
EcClaimList == Marked(EC_CLAIM_SORT)
EnrolmentList == Marked(ENROLMENT_SORT)
ExamBoardList == Marked(EXAM_BOARD_SORT)
FacultyList == Marked(FACULTY_SORT)
FinanceList == Marked(STUDENT_ACCOUNT_SORT)
FinanceTransactions == List(FINANCIAL_TRANSACTION_SORT, "postedDate", "never")
GovernanceCommittees == List(COMMITTEE_SORT, "committeeName", "status")
GovernanceMeetings == List(COMMITTEE_MEETING_SORT, "meetingDate", "never")
HesaNotificationList == Marked(HESA_NOTIFICATION_SORT)
InterviewList == Marked(INTERVIEW_SORT)
ModuleList == Marked(MODULE_SORT)
ModuleRegistrationList == Marked(MODULE_REGISTRATION_SORT)
ModuleResultList == Marked(MODULE_RESULT_SORT)
NotificationList == List(NOTIFICATION_SORT, NoFallback, "expiresAt")
OfferConditionList == Marked(OFFER_CONDITION_SORT)
PersonList == Marked(PERSON_SORT)
PersonDemographicList == Marked(PERSON_DEMOGRAPHIC_SORT)
PersonIdentifierList == Marked(PERSON_IDENTIFIER_SORT)
ProgrammeList == Marked(PROGRAMME_SORT)
ProgrammeApprovalList == Marked(PROGRAMME_APPROVAL_SORT)
ProgrammeModuleList == Marked(PROGRAMME_MODULE_SORT)
ProgrammeRouteList == Marked(STUDENT_PROGRAMME_ROUTE_SORT)
ProgressionRecordList == Marked(PROGRESSION_RECORD_SORT)
SchoolList == Marked(SCHOOL_SORT)
StatutoryReturnList == List(STATUTORY_RETURN_SORT, NoFallback, "never")
StudentList == Marked(STUDENT_SORT)
SubmissionList == Marked(SUBMISSION_SORT)
SupportList == Marked(SUPPORT_TICKET_SORT)
SystemSettingList == List(SYSTEM_SETTING_SORT, NoFallback, "delete")
TeachingSessions == List(TEACHING_EVENT_SORT, NoFallback, "never")
TranscriptList == Marked(TRANSCRIPT_SORT)
WebhookSubscriptionList == List(WEBHOOK_SUBSCRIPTION_SORT, NoFallback, "never")

Lists ==
  {AcademicCalendarList, AccommodationBlocks, AccommodationRooms,
   AccommodationBookings, AdmissionsList, AdmissionsEventList, AppealList,
   ApplicationQualificationList, ApplicationReferenceList, AssessmentList,
   AssessmentAttemptList, AttendanceList, AttendanceAlerts, AuditLogList,
   AwardRecordList, ClearanceCheckList, CommunicationLogList,
   CommunicationTemplateList, ComplianceList, ContactPoints,
   NonCompliantStudents, DepartmentList, DocumentList, EcClaimList,
   EnrolmentList, ExamBoardList, FacultyList, FinanceList,
   FinanceTransactions, GovernanceCommittees, GovernanceMeetings,
   HesaNotificationList, InterviewList, ModuleList, ModuleRegistrationList,
   ModuleResultList, NotificationList, OfferConditionList, PersonList,
   PersonDemographicList, PersonIdentifierList, ProgrammeList,
   ProgrammeApprovalList, ProgrammeModuleList, ProgrammeRouteList,
   ProgressionRecordList, SchoolList, StatutoryReturnList, StudentList,
   SubmissionList, SupportList, SystemSettingList, TeachingSessions,
   TranscriptList, WebhookSubscriptionList}
===============================================================================
