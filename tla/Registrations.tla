---------------------------- MODULE Registrations ----------------------------
(****************************************************************************)
(* Module registrations and the enrolments they belong to:                  *)
(* module-registrations.service.ts with its prerequisite and credit rules,  *)
(* and the cascade of enrolments.service.ts, which withdraws or defers the  *)
(* registrations of an enrolment that stops being active.  Both await       *)
(* between what they read and what they write.                              *)
(*                                                                          *)
(* One mode of study, hence one credit limit.  Deleting an enrolment        *)
(* changes nothing the rules or the cascade read and is left out.           *)
(****************************************************************************)
EXTENDS Naturals, FiniteSets, FiniteSetsExt

CONSTANTS
  Registration, Enrolment, Module, Year,
  Credits,          \* [Module -> Nat]
  Prerequisites,    \* [Module -> SUBSET Module], the mandatory ones
  MaxCredits,       \* getMaxCreditsForMode
  Registrar,        \* requests on /module-registrations in progress at once
  EnrolmentRequest, \* updates of enrolments in progress at once
  Body,             \* bodies of PATCH /module-registrations
  EnrolmentTo,      \* what the body of an update of an enrolment may say
  Unset             \* a field that is absent from a body

EnrolmentStatus ==
  {"ENROLLED", "INTERRUPTED", "SUSPENDED", "WITHDRAWN", "COMPLETED",
   "TRANSFERRED"}

\* How a body names its module: "scalar" is moduleId, the form the HTTP schema
\* lets through; "connect" is the relation form of the service's interface.
Bodies == [enrolment : Enrolment \cup {Unset}, module : Module \cup {Unset},
           form : {"scalar", "connect"}, year : Year \cup {Unset}]

ASSUME CatalogueAssumption ==
  /\ Credits \in [Module -> Nat]
  /\ Prerequisites \in [Module -> SUBSET Module]
  /\ MaxCredits \in Nat
  /\ IsFiniteSet(Registration)
  /\ Unset \notin Enrolment \cup Module \cup Year

ASSUME BodiesAssumption ==
  /\ Body \subseteq Bodies
  /\ EnrolmentTo \subseteq EnrolmentStatus \cup {Unset}

VARIABLES
  enrolment,  \* [Enrolment -> status]
  reg,        \* [Registration -> row]
  passed,     \* <<enrolment, module>>: its student has a passing result
  everPassed, \* history: the results there ever were
  req,        \* [Registrar -> where the request is and what it holds]
  upd,        \* [EnrolmentRequest -> the same for updates of enrolments]
  excused,    \* history: why a registration may escape the cascade
  unqualified, \* history: registrations written past the prerequisites
  uncounted,  \* history: registrations written past the credits
  crossed,    \* history: requests whose row was written since they read it
  outsummed   \* history: requests whose sum is out of date

results == <<passed, everPassed>>
judgement == <<unqualified, uncounted, crossed, outsummed>>
vars == <<enrolment, reg, results, req, upd, excused, judgement>>

RegStatus == {"REGISTERED", "WITHDRAWN", "DEFERRED"}

Row ==
  UNION { [state : {"MISSING", "DELETED"}],
          [state : {"LIVE"}, enrolment : Enrolment, module : Module,
           year : Year, status : RegStatus] }

Place == [enrolment : Enrolment, module : Module, year : Year]

Idle == [pc |-> "Idle"]

\* check: the place whose credits are checked; to: what will be written.
RegistrarState ==
  UNION { [pc : {"Idle"}],
          [pc : {"CheckCredits"}, reg : Registration, check : Place, to : Bodies],
          [pc : {"Write"}, reg : Registration, to : Bodies] }

UpdateState ==
  UNION { [pc : {"Idle"}],
          [pc : {"Write"}, enrolment : Enrolment, prev : EnrolmentStatus,
           new : EnrolmentStatus \cup {Unset}],
          [pc : {"FindActive"}, enrolment : Enrolment, status : EnrolmentStatus],
          [pc : {"Cascade"}, status : {"WITHDRAWN", "DEFERRED"},
           todo : SUBSET Registration] }

TypeOK ==
  /\ enrolment \in [Enrolment -> EnrolmentStatus]
  /\ reg \in [Registration -> Row]
  /\ passed \subseteq Enrolment \X Module
  /\ everPassed \subseteq Enrolment \X Module
  /\ req \in [Registrar -> RegistrarState]
  /\ upd \in [EnrolmentRequest -> UpdateState]
  /\ excused \subseteq Registration
  /\ unqualified \subseteq Registration /\ uncounted \subseteq Registration
  /\ crossed \subseteq Registrar /\ outsummed \subseteq Registrar

Init ==
  /\ enrolment = [e \in Enrolment |-> "ENROLLED"]
  /\ reg = [g \in Registration |-> [state |-> "MISSING"]]
  /\ passed = {}
  /\ everPassed = {}
  /\ req = [r \in Registrar |-> Idle]
  /\ upd = [u \in EnrolmentRequest |-> Idle]
  /\ excused = {}
  /\ unqualified = {} /\ uncounted = {}
  /\ crossed = {} /\ outsummed = {}

------------------------------------------------------------------------------
(* The rules                                                                *)

Live(g) == reg[g].state = "LIVE"

\* validatePrerequisites: every mandatory prerequisite has a passing result.
MeetsPrerequisites(e, m) == \A p \in Prerequisites[m] : <<e, p>> \in passed

\* findActiveCreditRegistrations; nothing writes COMPLETED to a registration.
Counted(e, y) ==
  {g \in Registration : /\ Live(g)
                        /\ reg[g].enrolment = e /\ reg[g].year = y
                        /\ reg[g].status = "REGISTERED"}

CreditsOf(G) == MapThenSumSet(LAMBDA g : Credits[reg[g].module], G)

\* validateCreditLimit
MutantForgetsTarget(p) ==
  CreditsOf(Counted(p.enrolment, p.year)) < MaxCredits
WithinLimit(p) ==
  CreditsOf(Counted(p.enrolment, p.year)) + Credits[p.module] <= MaxCredits

------------------------------------------------------------------------------
(* POST, PATCH and DELETE on /module-registrations                          *)

\* create(): the prerequisites, then the credits, then the insert.
Register(r, g, p) ==
  /\ req[r] = Idle
  /\ reg[g].state = "MISSING"
  /\ \A o \in Registrar : req[o] # Idle => req[o].reg # g
  /\ MeetsPrerequisites(p.enrolment, p.module)
  /\ req' = [req EXCEPT ![r] =
               [pc |-> "CheckCredits", reg |-> g, check |-> p,
                to |-> [enrolment |-> p.enrolment, module |-> p.module,
                        form |-> "scalar", year |-> p.year]]]
  /\ UNCHANGED <<enrolment, reg, results, upd, excused, judgement>>

Or(field, otherwise) == IF field = Unset THEN otherwise ELSE field

\* The module update() sees in the body: it looks for a relation only.
MutantIgnoresModule(b) == Unset
NewModule(b) == IF b.form = "connect" THEN b.module ELSE Unset

\* update(): what has changed is checked again, for the enrolment it was read
\* with.
PatchRegistration(r, g, b) ==
  /\ req[r] = Idle
  /\ Live(g)
  /\ LET module == Or(NewModule(b), reg[g].module)
         year == Or(b.year, reg[g].year)
         moved == module # reg[g].module
     IN /\ moved => MeetsPrerequisites(reg[g].enrolment, module)
        /\ req' = [req EXCEPT ![r] =
                     IF moved \/ year # reg[g].year
                     THEN [pc |-> "CheckCredits", reg |-> g, to |-> b,
                           check |-> [enrolment |-> reg[g].enrolment,
                                      module |-> module, year |-> year]]
                     ELSE [pc |-> "Write", reg |-> g, to |-> b]]
  /\ UNCHANGED <<enrolment, reg, results, upd, excused, judgement>>

\* The credits; a request that would exceed the limit ends.
CheckCredits(r) ==
  /\ req[r].pc = "CheckCredits"
  /\ WithinLimit(req[r].check)
  /\ req' = [req EXCEPT ![r] = [pc |-> "Write", reg |-> req[r].reg,
                                to |-> req[r].to]]
  /\ UNCHANGED <<enrolment, reg, results, upd, excused, judgement>>

RefuseCredits(r) ==
  /\ req[r].pc = "CheckCredits"
  /\ ~ WithinLimit(req[r].check)
  /\ req' = [req EXCEPT ![r] = Idle]
  /\ crossed' = crossed \ {r}
  /\ UNCHANGED <<enrolment, reg, results, upd, excused, unqualified, uncounted,
                 outsummed>>

NonActiveStatuses == {"INTERRUPTED", "SUSPENDED", "WITHDRAWN"}

\* What the insert, or the update by id, leaves of a row that is not deleted.
Written(r) ==
  LET g == req[r].reg
      to == req[r].to
  IN IF Live(g)
     THEN [reg[g] EXCEPT !.enrolment = Or(to.enrolment, @),
                         !.module = Or(to.module, @),
                         !.year = Or(to.year, @)]
     ELSE [state |-> "LIVE", enrolment |-> to.enrolment, module |-> to.module,
           year |-> to.year, status |-> "REGISTERED"]

\* What update() passes to the database without having looked at it: a module
\* in scalar form, another enrolment.
Unseen(to, row) ==
  \/ to.form = "scalar" /\ to.module \notin {Unset, row.module}
  \/ to.enrolment \notin {Unset, row.enrolment}

\* History: whether a write gives its row another student or module, or
\* another place in the sums; and whether request r judged that.
Requalifies(r) ==
  LET old == reg[req[r].reg]
  IN Live(req[r].reg) => \/ Written(r).module # old.module
                         \/ Written(r).enrolment # old.enrolment
Recounts(r) ==
  Requalifies(r) \/ Written(r).year # reg[req[r].reg].year

Blind(r) ==
  Live(req[r].reg) /\ (r \in crossed \/ Unseen(req[r].to, reg[req[r].reg]))

Marked(S, g, blind) == IF blind THEN S \cup {g} ELSE S \ {g}

\* The other requests on the same row, and those that have summed the credits
\* of the enrolment the row goes to.
Crosses(r) == {q \in Registrar : req[q] # Idle /\ req[q].reg = req[r].reg}
Outsums(r) ==
  {q \in Registrar : /\ req[q].pc = "Write"
                     /\ Written(q).enrolment = Written(r).enrolment}

WriteRegistration(r) ==
  /\ req[r].pc = "Write"
  /\ LET g == req[r].reg
     IN /\ reg[g].state # "DELETED"
        /\ reg' = [reg EXCEPT ![g] = Written(r)]
        /\ excused' = IF enrolment[Written(r).enrolment] \in NonActiveStatuses
                      THEN excused \cup {g} ELSE excused
        /\ unqualified' = IF Requalifies(r)
                          THEN Marked(unqualified, g, Blind(r)) ELSE unqualified
        /\ uncounted' = IF Recounts(r)
                        THEN Marked(uncounted, g, Blind(r) \/ r \in outsummed)
                        ELSE uncounted
  /\ crossed' = (IF Recounts(r) THEN crossed \cup Crosses(r) ELSE crossed) \ {r}
  /\ outsummed' =
       (IF Recounts(r) THEN outsummed \cup Outsums(r) ELSE outsummed) \ {r}
  /\ req' = [req EXCEPT ![r] = Idle]
  /\ UNCHANGED <<enrolment, results, upd>>

\* A row deleted since it was read is written all the same and stays deleted.
WriteDeleted(r) ==
  /\ req[r].pc = "Write"
  /\ reg[req[r].reg].state = "DELETED"
  /\ req' = [req EXCEPT ![r] = Idle]
  /\ crossed' = crossed \ {r} /\ outsummed' = outsummed \ {r}
  /\ UNCHANGED <<enrolment, reg, results, upd, excused, unqualified, uncounted>>

\* Nothing reads a deleted row again.
RemoveRegistration(g) ==
  /\ Live(g)
  /\ reg' = [reg EXCEPT ![g] = [state |-> "DELETED"]]
  /\ excused' = excused \ {g}
  /\ unqualified' = unqualified \ {g} /\ uncounted' = uncounted \ {g}
  /\ UNCHANGED <<enrolment, results, req, upd, crossed, outsummed>>

------------------------------------------------------------------------------
(* Updates of enrolments and their cascade                                  *)

PatchEnrolment(u, e, new) ==
  /\ upd[u] = Idle
  /\ upd' = [upd EXCEPT ![u] = [pc |-> "Write", enrolment |-> e,
                                prev |-> enrolment[e], new |-> new]]
  /\ UNCHANGED <<enrolment, reg, results, req, excused, judgement>>

MutantOnlyWithdrawn(prev, status) == prev # status /\ status = "WITHDRAWN"
Cascades(prev, status) == prev # status /\ status \in NonActiveStatuses

WriteEnrolment(u) ==
  /\ upd[u].pc = "Write"
  /\ LET e == upd[u].enrolment
         status == Or(upd[u].new, enrolment[e])
     IN /\ enrolment' = [enrolment EXCEPT ![e] = status]
        /\ upd' = [upd EXCEPT ![u] =
                     IF Cascades(upd[u].prev, status)
                     THEN [pc |-> "FindActive", enrolment |-> e,
                           status |-> status]
                     ELSE Idle]
  /\ UNCHANGED <<reg, results, req, excused, judgement>>

\* findActiveByEnrolment
Active(e) == {g \in Registration : /\ Live(g) /\ reg[g].enrolment = e
                                   /\ reg[g].status = "REGISTERED"}

MutantKeepsStatus(status) == "REGISTERED"
RegStatusFor(status) == IF status = "WITHDRAWN" THEN "WITHDRAWN" ELSE "DEFERRED"

FindActive(u) ==
  /\ upd[u].pc = "FindActive"
  /\ upd' = [upd EXCEPT ![u] = [pc |-> "Cascade",
                                status |-> RegStatusFor(upd[u].status),
                                todo |-> Active(upd[u].enrolment)]]
  /\ UNCHANGED <<enrolment, reg, results, req, excused, judgement>>

MutantDoesNotAdvance(u, g) ==
  /\ upd[u].pc = "Cascade"
  /\ g \in upd[u].todo
  /\ reg' = IF Live(g) THEN [reg EXCEPT ![g].status = upd[u].status] ELSE reg
  /\ UNCHANGED <<enrolment, results, req, upd, excused, judgement>>

\* One turn of the loop; the query gives no order.
CascadeOne(u, g) ==
  /\ upd[u].pc = "Cascade"
  /\ g \in upd[u].todo
  /\ reg' = IF Live(g) THEN [reg EXCEPT ![g].status = upd[u].status] ELSE reg
  /\ upd' = [upd EXCEPT ![u].todo = @ \ {g}]
  /\ UNCHANGED <<enrolment, results, req, excused, judgement>>

CascadeDone(u) ==
  /\ upd[u].pc = "Cascade"
  /\ upd[u].todo = {}
  /\ upd' = [upd EXCEPT ![u] = Idle]
  /\ UNCHANGED <<enrolment, reg, results, req, excused, judgement>>

\* The registrations update u still has to withdraw or defer.
OwedBy(u) ==
  {g \in Registration :
    \/ upd[u].pc = "FindActive" /\ g \in Active(upd[u].enrolment)
    \/ upd[u].pc = "Cascade" /\ g \in upd[u].todo}

\* An awaited call throws or the process stops: the loop never resumes.
AbortUpdate(u) ==
  /\ upd[u] # Idle
  /\ upd' = [upd EXCEPT ![u] = Idle]
  /\ excused' = excused \cup OwedBy(u)
  /\ UNCHANGED <<enrolment, reg, results, req, judgement>>

AbortRegistrar(r) ==
  /\ req[r] # Idle
  /\ req' = [req EXCEPT ![r] = Idle]
  /\ crossed' = crossed \ {r} /\ outsummed' = outsummed \ {r}
  /\ UNCHANGED <<enrolment, reg, results, upd, excused, unqualified, uncounted>>

------------------------------------------------------------------------------
\* Module results are recorded, and changed again; those of modules that are
\* nobody's prerequisite matter to nothing here.
Required == UNION {Prerequisites[m] : m \in Module}

RecordPass(e, m) ==
  /\ passed' = passed \cup {<<e, m>>}
  /\ everPassed' = everPassed \cup {<<e, m>>}
  /\ UNCHANGED <<enrolment, reg, req, upd, excused, judgement>>

RevokePass(e, m) ==
  /\ passed' = passed \ {<<e, m>>}
  /\ UNCHANGED <<enrolment, reg, everPassed, req, upd, excused, judgement>>

ContinueUpdate(u) ==
  \/ WriteEnrolment(u) \/ FindActive(u) \/ CascadeDone(u)
  \/ \E g \in Registration : CascadeOne(u, g)

Next ==
  \/ \E r \in Registrar :
       \/ \E g \in Registration, p \in Place : Register(r, g, p)
       \/ \E g \in Registration, b \in Body : PatchRegistration(r, g, b)
       \/ CheckCredits(r) \/ RefuseCredits(r)
       \/ WriteRegistration(r) \/ WriteDeleted(r) \/ AbortRegistrar(r)
  \/ \E g \in Registration : RemoveRegistration(g)
  \/ \E u \in EnrolmentRequest :
       \/ \E e \in Enrolment, s \in EnrolmentTo :
            PatchEnrolment(u, e, s)
       \/ ContinueUpdate(u) \/ AbortUpdate(u)
  \/ \E e \in Enrolment, m \in Required : RecordPass(e, m) \/ RevokePass(e, m)

Spec == Init /\ [][Next]_vars

\* Node runs the continuation of every settled promise.
FairSpec == Spec /\ \A u \in EnrolmentRequest : WF_vars(ContinueUpdate(u))

------------------------------------------------------------------------------
(* Properties                                                               *)

\* "Registration would exceed credit limit": the registrations an enrolment
\* has in a year stay within the credits of its mode of study, except for those
\* that got there by what update() does not look at, or while another request
\* wrote the same row or, after the sum was read, one of the same enrolment.
CreditCap ==
  \A e \in Enrolment, y \in Year :
    CreditsOf(Counted(e, y) \ uncounted) <= MaxCredits

\* "Student has not completed mandatory prerequisites": a registration for a
\* module whose prerequisites its student never passed got there by what
\* update() does not look at, or while another request wrote the same row.
PrerequisitesPassed ==
  \A g \in Registration \ unqualified :
    Live(g) => \A p \in Prerequisites[reg[g].module] :
                 <<reg[g].enrolment, p>> \in everPassed

\* The cascade misses nothing it could see: a registration still REGISTERED on
\* an enrolment that is not active is owed by a running update, unless it was
\* written to that enrolment too late or the update was cut off.
NoMissedCascade ==
  \A g \in Registration :
    /\ Live(g)
    /\ reg[g].status = "REGISTERED"
    /\ enrolment[reg[g].enrolment] \in NonActiveStatuses
    /\ g \notin excused
    => \E u \in EnrolmentRequest : g \in OwedBy(u)

\* What is owed is done.
CascadeHappens ==
  \A u \in EnrolmentRequest : OwedBy(u) # {} ~> OwedBy(u) = {}
==============================================================================
