------------------------------- MODULE ServerSeed ----------------------------
(****************************************************************************)
(* src/server/prisma/seed.ts: the older copy of the seed beside the server, *)
(* without module deliveries and system settings.                           *)
(****************************************************************************)
EXTENDS Scripts

cleanup ==
  Wipe(<<"MarkEntry", "AssessmentComponent", "HESAStudentModule",
         "HESAEntryQualification", "HESAStudent", "HESAModule",
         "AttendanceRecord", "EngagementIntervention", "EngagementScore",
         "AttendanceAlert", "SupportInteraction", "SupportTicket",
         "UKVIContactPoint", "UKVIReport", "UKVIRecord", "AssessmentAttempt",
         "Submission", "ModuleResult", "AssessmentCriteria", "Assessment",
         "TeachingEvent", "Payment", "ChargeLine", "CreditNote", "Invoice",
         "StudentAccount", "ModuleRegistration", "EnrolmentStatusHistory",
         "EnrolmentTask", "Enrolment", "OfferCondition",
         "ApplicationQualification", "ApplicationReference", "Application",
         "ProgrammeModule", "StudentGroupMember", "TeachingGroupMember",
         "TeachingGroup", "Student", "Applicant", "ExternalExaminer",
         "ExamBoardMember", "ExamBoardDecision", "ExamBoard", "StaffContract",
         "ModuleDelivery", "Staff", "PersonContact", "PersonAddress",
         "PersonIdentifier", "PersonDemographic", "PersonNationality",
         "Person", "LearningOutcome", "AssessmentPattern",
         "ModuleSpecification", "Module", "ProgrammeApproval",
         "ProgrammeSpecification", "ProgrammePathway", "QualificationAim",
         "Programme", "Department", "School", "Faculty", "Room",
         "TimetableSlot", "TeachingWeek", "TermDate", "AcademicYear">>)

seedAcademicYears == Fill(<<"AcademicYear">>)
seedStructure == Fill(<<"Faculty", "School", "Department">>)
seedProgrammes == Fill(<<"Programme">>)
seedModules == Fill(<<"Module", "ProgrammeModule">>)
seedRooms == Fill(<<"Room">>)
seedStaff == Fill(<<"StaffPersons", "Staff", "StaffContract">>)
seedStudents ==
  Fill(<<"StudentPersons", "Student", "PersonContact", "PersonAddress",
         "PersonIdentifier", "PersonDemographic">>)
seedApplicants == Fill(<<"ApplicantPersons", "Applicant", "Application">>)
seedEnrolments == Fill(<<"Enrolment", "EnrolmentStatusHistory">>)
seedModuleRegistrations == Fill(<<"ModuleRegistration">>)
seedAssessments == Fill(<<"Assessment">>)
seedAssessmentAttempts == Fill(<<"AssessmentAttempt">>)
seedFinance == Fill(<<"StudentAccount", "Invoice", "ChargeLine", "Payment">>)
seedUKVIRecords == Fill(<<"UKVIRecord">>)
seedSupportTickets == Fill(<<"SupportTicket">>)
seedAttendance == Fill(<<"AttendanceRecord">>)
seedAssessmentComponents == Fill(<<"AssessmentComponent", "MarkEntry">>)
seedHESAEntities ==
  Fill(<<"HESAStudent", "HESAModule", "HESAStudentModule",
         "HESAEntryQualification">>)

main ==
  cleanup
  \o seedAcademicYears \o seedStructure \o seedProgrammes \o seedModules
  \o seedRooms \o seedStaff \o seedStudents \o seedApplicants
  \o seedEnrolments \o seedModuleRegistrations \o seedAssessments
  \o seedAssessmentAttempts \o seedFinance \o seedUKVIRecords
  \o seedSupportTickets \o seedAttendance \o seedAssessmentComponents
  \o seedHESAEntities
==============================================================================
