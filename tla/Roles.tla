-------------------------------- MODULE Roles --------------------------------
(****************************************************************************)
(* Who is who: the groups of roles that the routes name                     *)
(* (server/src/constants/roles.ts), what a Keycloak role brings with it     *)
(* (scripts/keycloak-setup.ts), the roles of the personas that stand in for *)
(* Keycloak on a developer's machine, and who may open which portal of the  *)
(* client.                                                                  *)
(****************************************************************************)
EXTENDS TLC

SUPER_ADMIN == {"super_admin"}
REGISTRY == {"registrar", "senior_registry_officer", "registry_officer"}
ADMISSIONS == {"admissions_manager", "admissions_officer", "admissions_tutor"}
FINANCE == {"finance_director", "finance_manager", "finance_officer"}
QUALITY == {"quality_director", "quality_officer", "compliance_officer"}
COMPLIANCE == {"compliance_officer", "international_officer", "registrar"}
STUDENTS == {"student"}

\* The tutors of admissions are not among the administrative staff.
ADMIN_STAFF ==
  SUPER_ADMIN \cup {"system_admin"} \cup REGISTRY
  \cup (ADMISSIONS \ {"admissions_tutor"})
  \cup {"assessment_officer", "progression_officer", "graduation_officer"}
  \cup FINANCE \cup QUALITY
  \cup {"student_support_manager", "student_support_officer",
        "international_officer", "accommodation_officer"}

ACADEMIC_LEADERSHIP ==
  {"dean", "associate_dean", "head_of_department", "programme_leader"}
TEACHING ==
  ACADEMIC_LEADERSHIP
  \cup {"module_leader", "academic_staff", "lecturer", "senior_lecturer",
        "professor"}
ACADEMIC_STAFF == TEACHING
EXAM_BOARD == {"dean", "associate_dean", "programme_leader", "module_leader",
               "senior_lecturer", "professor"}
SUPPORT == {"student_support_manager", "student_support_officer",
            "personal_tutor", "disability_advisor", "wellbeing_officer"}

ALL_AUTHENTICATED ==
  ADMIN_STAFF \cup ADMISSIONS \cup TEACHING \cup SUPPORT \cup STUDENTS
  \cup {"applicant"}

------------------------------------------------------------------------------
(* Keycloak: a composite role brings its children into the token.           *)

COMPOSITES ==
  ("super_admin" :> {"system_admin", "registrar", "finance_director",
      "quality_director", "dean", "student_support_manager",
      "international_officer", "accommodation_officer"})
  @@ ("registrar" :> {"senior_registry_officer", "registry_officer",
      "admissions_manager", "assessment_officer", "progression_officer",
      "graduation_officer"})
  @@ ("admissions_manager" :> {"admissions_officer", "admissions_tutor"})
  @@ ("finance_director" :> {"finance_manager"})
  @@ ("finance_manager" :> {"finance_officer"})
  @@ ("quality_director" :> {"quality_officer", "compliance_officer"})
  @@ ("dean" :> {"associate_dean"})
  @@ ("associate_dean" :> {"head_of_department"})
  @@ ("head_of_department" :> {"programme_leader", "module_leader",
      "academic_staff"})
  @@ ("academic_staff" :> {"lecturer", "senior_lecturer", "professor"})
  @@ ("student_support_manager" :> {"student_support_officer",
      "personal_tutor", "disability_advisor", "wellbeing_officer"})

WithChildren(roles) ==
  roles \cup UNION {COMPOSITES[r] : r \in roles \cap DOMAIN COMPOSITES}

\* The longest chain has five links, from super_admin to lecturer.
InToken(role) ==
  WithChildren(WithChildren(WithChildren(WithChildren(WithChildren({role})))))

------------------------------------------------------------------------------
(* The personas of AUTH_BYPASS (server) and VITE_AUTH_MODE=dev (client).    *)

ADMIN_PERSONA_ROLES ==
  (ADMIN_STAFF \cup ADMISSIONS)
ACADEMIC_PERSONA_ROLES == TEACHING
DevPersonas ==
  ("admin" :> ADMIN_PERSONA_ROLES) @@ ("academic" :> ACADEMIC_PERSONA_ROLES)
  @@ ("student" :> STUDENTS) @@ ("applicant" :> {"applicant"})

\* resolveDevPersona: a header that names no persona means the admin.
DevPersona(header) == IF header \in DOMAIN DevPersonas THEN header ELSE "admin"

------------------------------------------------------------------------------
(* The portals of the client.                                               *)

ACADEMIC_STAFF_ROLES == TEACHING \cup {"personal_tutor"}
PortalRoles ==
  [admin   |-> ADMIN_STAFF, academic  |-> ACADEMIC_STAFF_ROLES,
   student |-> STUDENTS,    applicant |-> {"applicant"}]
==============================================================================
