------------------------ MODULE RegistrationsProofs --------------------------
(****************************************************************************)
(* Proofs about Registrations for any number of registrations, enrolments,  *)
(* modules and concurrent requests.                                         *)
(****************************************************************************)
EXTENDS Registrations, FiniteSetTheorems, TLAPS

Holds(r) == req[r].pc \in {"CheckCredits", "Write"}

\* A request on a row that does not exist yet is a creation: it names every
\* field.
WritesAreWhole ==
  \A r \in Registrar :
    Holds(r) /\ reg[req[r].reg].state = "MISSING"
      => /\ req[r].to.enrolment \in Enrolment
         /\ req[r].to.module \in Module
         /\ req[r].to.year \in Year

LEMMA RequestShape ==
  ASSUME TypeOK, NEW r \in Registrar
  PROVE  /\ req[r].pc \in {"Idle", "CheckCredits", "Write"}
         /\ req[r] = Idle => req[r].pc = "Idle"
         /\ Holds(r) => req[r].reg \in Registration /\ req[r].to \in Bodies
         /\ req[r].pc = "CheckCredits" => req[r].check \in Place
BY DEF TypeOK, RegistrarState, Holds, Idle

LEMMA UpdateShape ==
  ASSUME TypeOK, NEW u \in EnrolmentRequest
  PROVE  /\ upd[u].pc \in {"Idle", "Write", "FindActive", "Cascade"}
         /\ upd[u] = Idle => upd[u].pc = "Idle"
         /\ upd[u].pc \in {"Write", "FindActive"}
              => upd[u].enrolment \in Enrolment
         /\ upd[u].pc = "Write" =>
              /\ upd[u].prev \in EnrolmentStatus
              /\ upd[u].new \in EnrolmentStatus \cup {Unset}
         /\ upd[u].pc = "FindActive" => upd[u].status \in EnrolmentStatus
         /\ upd[u].pc = "Cascade" =>
              /\ upd[u].status \in {"WITHDRAWN", "DEFERRED"}
              /\ upd[u].todo \subseteq Registration
BY DEF TypeOK, UpdateState, Idle

LEMMA RowShape ==
  ASSUME TypeOK, NEW g \in Registration
  PROVE  /\ reg[g].state \in {"MISSING", "LIVE", "DELETED"}
         /\ Live(g) =>
              /\ reg[g].enrolment \in Enrolment
              /\ reg[g].module \in Module
              /\ reg[g].year \in Year
              /\ reg[g].status \in RegStatus
              /\ reg[g] = [state |-> "LIVE", enrolment |-> reg[g].enrolment,
                           module |-> reg[g].module, year |-> reg[g].year,
                           status |-> reg[g].status]
BY DEF TypeOK, Row, Live

\* The row a registrar's write leaves is whole and live.
LEMMA WrittenIs ==
  ASSUME TypeOK, NEW r \in Registrar, Holds(r), Live(req[r].reg)
  PROVE  Written(r) = [state |-> "LIVE",
                       enrolment |-> Or(req[r].to.enrolment,
                                        reg[req[r].reg].enrolment),
                       module |-> Or(req[r].to.module, reg[req[r].reg].module),
                       year |-> Or(req[r].to.year, reg[req[r].reg].year),
                       status |-> reg[req[r].reg].status]
<1>1. req[r].reg \in Registration
  BY RequestShape
<1>2. reg[req[r].reg] \in [state : {"LIVE"}, enrolment : Enrolment,
                           module : Module, year : Year, status : RegStatus]
  BY <1>1 DEF TypeOK, Row, Live
<1> QED
  BY <1>2 DEF Written

\* The same of the next state.
LEMMA NextWrittenIs ==
  ASSUME TypeOK', NEW r \in Registrar, Holds(r)', Live(req[r].reg)'
  PROVE  Written(r)' = [state |-> "LIVE",
                        enrolment |-> Or(req'[r].to.enrolment,
                                         reg'[req'[r].reg].enrolment),
                        module |-> Or(req'[r].to.module,
                                      reg'[req'[r].reg].module),
                        year |-> Or(req'[r].to.year, reg'[req'[r].reg].year),
                        status |-> reg'[req'[r].reg].status]
<1>1. req'[r].reg \in Registration
  BY DEF TypeOK, Holds, RegistrarState, Idle
<1>2. reg'[req'[r].reg] \in [state : {"LIVE"}, enrolment : Enrolment,
                             module : Module, year : Year, status : RegStatus]
  BY <1>1 DEF TypeOK, Row, Live
<1> QED
  BY <1>2 DEF Written, Live, Or

\* A write leaves a whole row, live and in its place.
LEMMA WrittenShape ==
  ASSUME TypeOK, WritesAreWhole, NEW r \in Registrar, Holds(r),
         reg[req[r].reg].state # "DELETED"
  PROVE  /\ Written(r) \in Row
         /\ Written(r).state = "LIVE"
         /\ Written(r).enrolment \in Enrolment
         /\ Written(r).module \in Module
<1> DEFINE g == req[r].reg
           to == req[r].to
<1>1. g \in Registration /\ to \in Bodies
  BY RequestShape
<1>3. CASE reg[g].state = "MISSING"
  <2>1. to.enrolment \in Enrolment /\ to.module \in Module /\ to.year \in Year
    BY <1>3 DEF WritesAreWhole
  <2> QED
    BY <1>3, <2>1 DEF Written, Row, RegStatus, Live
<1>4. CASE Live(g)
  <2>1. /\ Or(to.enrolment, reg[g].enrolment) \in Enrolment
        /\ Or(to.module, reg[g].module) \in Module
        /\ Or(to.year, reg[g].year) \in Year
        /\ reg[g].status \in RegStatus
    BY <1>1, <1>4, RowShape DEF Bodies, Or
  <2> QED
    BY <1>4, <2>1, WrittenIs DEF Row
<1> QED
  BY <1>1, <1>3, <1>4, RowShape DEF Live

LEMMA InitTypeOK == Init => TypeOK /\ WritesAreWhole
BY BodiesAssumption
   DEF Init, TypeOK, WritesAreWhole, Holds, Idle, EnrolmentStatus, Row,
       RegistrarState, UpdateState

LEMMA NextTypeOK == TypeOK /\ WritesAreWhole /\ [Next]_vars => TypeOK'
<1> SUFFICES ASSUME TypeOK, WritesAreWhole, [Next]_vars PROVE TypeOK'
  OBVIOUS
<1>1. ASSUME NEW r \in Registrar, NEW g \in Registration, NEW p \in Place,
             Register(r, g, p)
      PROVE  TypeOK'
  <2>1. [pc |-> "CheckCredits", reg |-> g, check |-> p,
         to |-> [enrolment |-> p.enrolment, module |-> p.module,
                 form |-> "scalar", year |-> p.year]] \in RegistrarState
    BY DEF RegistrarState, Place, Bodies
  <2> QED
    BY <1>1, <2>1 DEF Register, TypeOK, results, judgement
<1>2. ASSUME NEW r \in Registrar, NEW g \in Registration, NEW b \in Body,
             PatchRegistration(r, g, b)
      PROVE  TypeOK'
  <2> DEFINE module == Or(NewModule(b), reg[g].module)
             year == Or(b.year, reg[g].year)
             place == [enrolment |-> reg[g].enrolment, module |-> module,
                       year |-> year]
  <2>1. b \in Bodies
    BY BodiesAssumption
  <2>2. place \in Place
    BY <1>2, <2>1, RowShape
    DEF PatchRegistration, Live, Bodies, NewModule, Or, Place
  <2>3. /\ [pc |-> "CheckCredits", reg |-> g, to |-> b, check |-> place]
             \in RegistrarState
        /\ [pc |-> "Write", reg |-> g, to |-> b] \in RegistrarState
    BY <2>1, <2>2 DEF RegistrarState
  <2>4. \/ req' = [req EXCEPT ![r] = [pc |-> "CheckCredits", reg |-> g,
                                      to |-> b, check |-> place]]
        \/ req' = [req EXCEPT ![r] = [pc |-> "Write", reg |-> g, to |-> b]]
    BY <1>2 DEF PatchRegistration
  <2> QED
    BY <1>2, <2>3, <2>4 DEF PatchRegistration, TypeOK, results, judgement
<1>3. ASSUME NEW r \in Registrar, CheckCredits(r) PROVE TypeOK'
  <2>1. req[r].reg \in Registration /\ req[r].to \in Bodies
    BY <1>3, RequestShape DEF CheckCredits, Holds
  <2>2. [pc |-> "Write", reg |-> req[r].reg, to |-> req[r].to]
          \in RegistrarState
    BY <2>1 DEF RegistrarState
  <2> QED
    BY <1>3, <2>2 DEF CheckCredits, TypeOK, results, judgement
<1>4. ASSUME NEW r \in Registrar, WriteRegistration(r) PROVE TypeOK'
  <2>1. /\ Holds(r) /\ req[r].reg \in Registration
        /\ reg' = [reg EXCEPT ![req[r].reg] = Written(r)]
        /\ reg[req[r].reg].state # "DELETED"
        /\ req' = [req EXCEPT ![r] = Idle]
        /\ UNCHANGED <<enrolment, results, upd>>
    BY <1>4, RequestShape DEF WriteRegistration, Holds
  <2>2. Written(r) \in Row
    BY <2>1, WrittenShape
  <2>3. reg' \in [Registration -> Row] /\ req' \in [Registrar -> RegistrarState]
    BY <2>1, <2>2 DEF TypeOK, RegistrarState, Idle
  <2>4. /\ excused' \subseteq Registration
        /\ unqualified' \subseteq Registration /\ uncounted' \subseteq Registration
    BY <1>4, <2>1 DEF WriteRegistration, Marked, TypeOK
  <2>5. crossed' \subseteq Registrar /\ outsummed' \subseteq Registrar
    BY <1>4 DEF WriteRegistration, Crosses, Outsums, TypeOK
  <2> QED
    BY <2>1, <2>3, <2>4, <2>5 DEF TypeOK, results
<1>5. ASSUME NEW r \in Registrar,
             RefuseCredits(r) \/ WriteDeleted(r) \/ AbortRegistrar(r)
      PROVE  TypeOK'
  BY <1>5
  DEF RefuseCredits, WriteDeleted, AbortRegistrar, TypeOK, results,
      RegistrarState, Idle
<1>6. ASSUME NEW g \in Registration, RemoveRegistration(g) PROVE TypeOK'
  <2>1. [state |-> "DELETED"] \in Row
    BY DEF Row
  <2> QED
    BY <1>6, <2>1 DEF RemoveRegistration, TypeOK, results
<1>7. ASSUME NEW u \in EnrolmentRequest, NEW e \in Enrolment,
             NEW s \in EnrolmentTo, PatchEnrolment(u, e, s)
      PROVE  TypeOK'
  <2>1. [pc |-> "Write", enrolment |-> e, prev |-> enrolment[e], new |-> s]
          \in UpdateState
    BY BodiesAssumption DEF TypeOK, UpdateState
  <2> QED
    BY <1>7, <2>1 DEF PatchEnrolment, TypeOK, results, judgement
<1>8. ASSUME NEW u \in EnrolmentRequest, WriteEnrolment(u) PROVE TypeOK'
  <2> DEFINE e == upd[u].enrolment
             status == Or(upd[u].new, enrolment[e])
  <2>1. e \in Enrolment /\ status \in EnrolmentStatus
    BY <1>8, UpdateShape DEF WriteEnrolment, Or, TypeOK
  <2>2. /\ [pc |-> "FindActive", enrolment |-> e, status |-> status]
             \in UpdateState
        /\ Idle \in UpdateState
    BY <2>1 DEF UpdateState, Idle
  <2>3. /\ enrolment' = [enrolment EXCEPT ![e] = status]
        /\ \/ upd' = [upd EXCEPT ![u] = [pc |-> "FindActive", enrolment |-> e,
                                         status |-> status]]
           \/ upd' = [upd EXCEPT ![u] = Idle]
    BY <1>8 DEF WriteEnrolment
  <2> QED
    BY <1>8, <2>1, <2>2, <2>3 DEF WriteEnrolment, TypeOK, results, judgement
<1>9. ASSUME NEW u \in EnrolmentRequest, FindActive(u) PROVE TypeOK'
  <2>1. [pc |-> "Cascade", status |-> RegStatusFor(upd[u].status),
         todo |-> Active(upd[u].enrolment)] \in UpdateState
    BY DEF UpdateState, RegStatusFor, Active
  <2> QED
    BY <1>9, <2>1 DEF FindActive, TypeOK, results, judgement
<1>10. ASSUME NEW u \in EnrolmentRequest, NEW g \in Registration,
              CascadeOne(u, g)
       PROVE  TypeOK'
  <2>1. /\ upd[u].pc = "Cascade" /\ g \in upd[u].todo
        /\ upd[u].status \in RegStatus
    BY <1>10, UpdateShape DEF CascadeOne, RegStatus
  <2>2. reg' \in [Registration -> Row]
    <3>1. CASE Live(g)
      <4>1. reg[g] \in [state : {"LIVE"}, enrolment : Enrolment,
                        module : Module, year : Year, status : RegStatus]
        BY <3>1 DEF TypeOK, Row, Live
      <4>2. [reg[g] EXCEPT !.status = upd[u].status] \in Row
        BY <2>1, <4>1 DEF Row
      <4> QED
        BY <1>10, <3>1, <4>2 DEF CascadeOne, TypeOK
    <3>2. CASE ~ Live(g)
      BY <1>10, <3>2 DEF CascadeOne, TypeOK
    <3> QED
      BY <3>1, <3>2
  <2>4. [upd[u] EXCEPT !.todo = @ \ {g}] \in UpdateState
    BY <2>1 DEF TypeOK, UpdateState
  <2> QED
    BY <1>10, <2>2, <2>4 DEF CascadeOne, TypeOK, results, judgement
<1>11. ASSUME NEW u \in EnrolmentRequest, CascadeDone(u) PROVE TypeOK'
  BY <1>11 DEF CascadeDone, TypeOK, results, judgement, UpdateState, Idle
<1>12. ASSUME NEW u \in EnrolmentRequest, AbortUpdate(u) PROVE TypeOK'
  <2>1. OwedBy(u) \subseteq Registration
    BY UpdateShape DEF OwedBy, Active
  <2> QED
    BY <1>12, <2>1 DEF AbortUpdate, TypeOK, results, judgement, UpdateState, Idle
<1>13. ASSUME NEW e \in Enrolment, NEW m \in Required,
              RecordPass(e, m) \/ RevokePass(e, m)
       PROVE  TypeOK'
  <2>1. m \in Module
    BY CatalogueAssumption DEF Required
  <2> QED
    BY <1>13, <2>1 DEF RecordPass, RevokePass, TypeOK, judgement
<1>14. CASE UNCHANGED vars
  BY <1>14 DEF vars, results, judgement, TypeOK
<1> QED
  BY <1>1, <1>2, <1>3, <1>4, <1>5, <1>6, <1>7, <1>8, <1>9, <1>10, <1>11,
     <1>12, <1>13, <1>14 DEF Next, ContinueUpdate

\* Steps that are not a registrar's on a row, a deletion or a cascade leave the
\* table alone.
LEMMA TableStays ==
  ASSUME [Next]_vars,
         \A r \in Registrar : ~ WriteRegistration(r),
         \A g \in Registration : ~ RemoveRegistration(g),
         \A u \in EnrolmentRequest, g \in Registration : ~ CascadeOne(u, g)
  PROVE  reg' = reg
BY DEF Next, ContinueUpdate, vars, Register, PatchRegistration, CheckCredits,
       RefuseCredits, WriteDeleted, AbortRegistrar, PatchEnrolment,
       WriteEnrolment, FindActive, CascadeDone, AbortUpdate, RecordPass,
       RevokePass

\* How a row changes: the write of a request that holds it, a deletion, or a
\* cascade, which sets its status.
SamePlace(row, next) ==
  /\ next.enrolment = row.enrolment
  /\ next.module = row.module
  /\ next.year = row.year

Removed(g) == Live(g) /\ reg'[g].state = "DELETED"

Cascaded(g) ==
  /\ Live(g) /\ reg'[g].state = "LIVE"
  /\ reg'[g].status \in {"WITHDRAWN", "DEFERRED"}
  /\ SamePlace(reg[g], reg'[g])

Rewrites(r, g) ==
  /\ WriteRegistration(r) /\ Holds(r)
  /\ req[r].reg = g /\ reg[g].state # "DELETED"
  /\ reg'[g] = Written(r)

LEMMA RowStep ==
  ASSUME TypeOK, [Next]_vars, NEW g \in Registration
  PROVE  \/ reg'[g] = reg[g]
         \/ \E r \in Registrar : Rewrites(r, g)
         \/ Removed(g)
         \/ Cascaded(g)
<1>1. ASSUME NEW r \in Registrar, WriteRegistration(r)
      PROVE  reg'[g] = reg[g] \/ Rewrites(r, g)
  BY <1>1 DEF WriteRegistration, TypeOK, Holds, Rewrites
<1>2. ASSUME NEW h \in Registration, RemoveRegistration(h)
      PROVE  reg'[g] = reg[g] \/ Removed(g)
  BY <1>2 DEF RemoveRegistration, TypeOK, Removed
<1>3. ASSUME NEW u \in EnrolmentRequest, NEW h \in Registration,
             CascadeOne(u, h)
      PROVE  reg'[g] = reg[g] \/ Cascaded(g)
  <2>1. upd[u].status \in {"WITHDRAWN", "DEFERRED"}
    BY <1>3, UpdateShape DEF CascadeOne
  <2>2. CASE Live(h) /\ g = h
    <3>1. reg[g] \in [state : {"LIVE"}, enrolment : Enrolment,
                      module : Module, year : Year, status : RegStatus]
      BY <2>2 DEF TypeOK, Row, Live
    <3>2. reg'[g] = [reg[g] EXCEPT !.status = upd[u].status]
      BY <1>3, <2>2 DEF CascadeOne, TypeOK
    <3> QED
      BY <2>1, <2>2, <3>1, <3>2 DEF Cascaded, SamePlace, Live
  <2>3. CASE ~ (Live(h) /\ g = h)
    BY <1>3, <2>3 DEF CascadeOne, TypeOK
  <2> QED
    BY <2>2, <2>3
<1> QED
  BY <1>1, <1>2, <1>3, TableStays

\* A row that exists stays in the table.
LEMMA RowsStay ==
  ASSUME TypeOK, WritesAreWhole, [Next]_vars, NEW g \in Registration,
         reg[g].state # "MISSING"
  PROVE  reg'[g].state # "MISSING"
BY RowStep, WrittenShape DEF Rewrites, Removed, Cascaded

\* What a registrar holds after a step: what it held, or what it has just
\* read, or nothing.
RegistrarStep(r) ==
  \/ req'[r].pc = "Idle"
  \/ req'[r] = req[r]
  \/ \E g \in Registration, p \in Place : Register(r, g, p)
  \/ \E g \in Registration, b \in Body : PatchRegistration(r, g, b)
  \/ CheckCredits(r)

LEMMA RegistrarSteps ==
  ASSUME TypeOK, [Next]_vars, NEW r \in Registrar
  PROVE  RegistrarStep(r)
<1>1. ASSUME NEW q \in Registrar, NEW g \in Registration,
             \/ \E p \in Place : Register(q, g, p)
             \/ \E b \in Body : PatchRegistration(q, g, b)
             \/ CheckCredits(q)
      PROVE  RegistrarStep(r)
  <2>1. CASE q = r
    BY <1>1, <2>1 DEF RegistrarStep
  <2>2. CASE q # r
    BY <1>1, <2>2
    DEF RegistrarStep, TypeOK, Register, PatchRegistration, CheckCredits
  <2> QED
    BY <2>1, <2>2
<1>2. ASSUME NEW q \in Registrar,
             \/ RefuseCredits(q) \/ WriteRegistration(q) \/ WriteDeleted(q)
             \/ AbortRegistrar(q)
      PROVE  RegistrarStep(r)
  BY <1>2
  DEF RegistrarStep, TypeOK, RefuseCredits, WriteRegistration, WriteDeleted,
      AbortRegistrar, Idle
<1>3. ASSUME NEW q \in Registrar, CheckCredits(q) PROVE RegistrarStep(r)
  BY <1>3 DEF RegistrarStep, TypeOK, CheckCredits
<1>4. ASSUME NEW g \in Registration, RemoveRegistration(g)
      PROVE  RegistrarStep(r)
  BY <1>4 DEF RegistrarStep, RemoveRegistration
<1>5. ASSUME NEW u \in EnrolmentRequest,
             \/ \E e \in Enrolment, s \in EnrolmentTo :
                  PatchEnrolment(u, e, s)
             \/ ContinueUpdate(u) \/ AbortUpdate(u)
      PROVE  RegistrarStep(r)
  BY <1>5
  DEF RegistrarStep, PatchEnrolment, ContinueUpdate, WriteEnrolment,
      FindActive, CascadeOne, CascadeDone, AbortUpdate
<1>6. ASSUME NEW e \in Enrolment, NEW m \in Required,
             RecordPass(e, m) \/ RevokePass(e, m)
      PROVE  RegistrarStep(r)
  BY <1>6 DEF RegistrarStep, RecordPass, RevokePass
<1>7. CASE UNCHANGED vars
  BY <1>7 DEF RegistrarStep, vars
<1> QED
  BY <1>1, <1>2, <1>3, <1>4, <1>5, <1>6, <1>7 DEF Next

\* The same for the updates of enrolments.
UpdateStep(u) ==
  \/ upd'[u].pc = "Idle"
  \/ upd'[u] = upd[u]
  \/ \E e \in Enrolment, s \in EnrolmentTo :
       PatchEnrolment(u, e, s)
  \/ WriteEnrolment(u)
  \/ FindActive(u)
  \/ \E g \in Registration : CascadeOne(u, g)

LEMMA UpdateSteps ==
  ASSUME TypeOK, [Next]_vars, NEW u \in EnrolmentRequest
  PROVE  UpdateStep(u)
<1>1. ASSUME NEW v \in EnrolmentRequest, NEW e \in Enrolment,
             NEW s \in EnrolmentTo, PatchEnrolment(v, e, s)
      PROVE  UpdateStep(u)
  BY <1>1 DEF UpdateStep, TypeOK, PatchEnrolment
<1>2. ASSUME NEW v \in EnrolmentRequest, WriteEnrolment(v) PROVE UpdateStep(u)
  BY <1>2 DEF UpdateStep, TypeOK, WriteEnrolment
<1>3. ASSUME NEW v \in EnrolmentRequest, FindActive(v) PROVE UpdateStep(u)
  BY <1>3 DEF UpdateStep, TypeOK, FindActive
<1>4. ASSUME NEW v \in EnrolmentRequest, NEW g \in Registration,
             CascadeOne(v, g)
      PROVE  UpdateStep(u)
  BY <1>4 DEF UpdateStep, TypeOK, CascadeOne
<1>5. ASSUME NEW v \in EnrolmentRequest, CascadeDone(v) \/ AbortUpdate(v)
      PROVE  UpdateStep(u)
  BY <1>5 DEF UpdateStep, TypeOK, CascadeDone, AbortUpdate, Idle
<1>6. ASSUME NEW r \in Registrar,
             \/ \E g \in Registration, p \in Place : Register(r, g, p)
             \/ \E g \in Registration, b \in Body : PatchRegistration(r, g, b)
             \/ CheckCredits(r) \/ RefuseCredits(r) \/ WriteRegistration(r)
             \/ WriteDeleted(r) \/ AbortRegistrar(r)
      PROVE  UpdateStep(u)
  BY <1>6
  DEF UpdateStep, Register, PatchRegistration, CheckCredits, RefuseCredits,
      WriteRegistration, WriteDeleted, AbortRegistrar
<1>7. ASSUME NEW g \in Registration, RemoveRegistration(g) PROVE UpdateStep(u)
  BY <1>7 DEF UpdateStep, RemoveRegistration
<1>8. ASSUME NEW e \in Enrolment, NEW m \in Required,
             RecordPass(e, m) \/ RevokePass(e, m)
      PROVE  UpdateStep(u)
  BY <1>8 DEF UpdateStep, RecordPass, RevokePass
<1>9. CASE UNCHANGED vars
  BY <1>9 DEF UpdateStep, vars
<1> QED
  BY <1>1, <1>2, <1>3, <1>4, <1>5, <1>6, <1>7, <1>8, <1>9
  DEF Next, ContinueUpdate

LEMMA NextWritesAreWhole ==
  TypeOK /\ WritesAreWhole /\ [Next]_vars => WritesAreWhole'
<1> SUFFICES ASSUME TypeOK, WritesAreWhole, [Next]_vars PROVE WritesAreWhole'
  OBVIOUS
<1>1. ASSUME NEW r \in Registrar, req'[r].pc \in {"CheckCredits", "Write"},
             reg'[req'[r].reg].state = "MISSING"
      PROVE  /\ req'[r].to.enrolment \in Enrolment
             /\ req'[r].to.module \in Module
             /\ req'[r].to.year \in Year
  <2>1. CASE req'[r] = req[r]
    <3>1. Holds(r) /\ req[r].reg \in Registration
      BY <1>1, <2>1, RequestShape DEF Holds
    <3>2. reg[req[r].reg].state = "MISSING"
      BY <1>1, <2>1, <3>1, RowsStay
    <3> QED
      BY <2>1, <3>1, <3>2 DEF WritesAreWhole
  <2>2. ASSUME NEW g \in Registration, NEW p \in Place, Register(r, g, p)
        PROVE  /\ req'[r].to.enrolment \in Enrolment
               /\ req'[r].to.module \in Module
               /\ req'[r].to.year \in Year
    BY <2>2 DEF Register, TypeOK, Place
  <2>3. ASSUME NEW g \in Registration, NEW b \in Body,
               PatchRegistration(r, g, b)
        PROVE  FALSE
    <3>1. req'[r].reg = g /\ reg[g].state # "MISSING"
      BY <2>3 DEF PatchRegistration, TypeOK, Live
    <3> QED
      BY <1>1, <3>1, RowsStay
  <2>4. CASE CheckCredits(r)
    <3>1. Holds(r) /\ req[r].reg \in Registration
      BY <2>4, RequestShape DEF CheckCredits, Holds
    <3>2. req'[r].reg = req[r].reg /\ req'[r].to = req[r].to
      BY <1>1, <2>4 DEF CheckCredits, TypeOK
    <3>3. reg[req[r].reg].state = "MISSING"
      BY <1>1, <3>1, <3>2, RowsStay
    <3> QED
      BY <3>1, <3>2, <3>3 DEF WritesAreWhole
  <2> QED
    BY <1>1, <2>1, <2>2, <2>3, <2>4, RegistrarSteps DEF RegistrarStep
<1> QED
  BY <1>1 DEF WritesAreWhole, Holds

\* Registrations, requests on them, updates of enrolments and their cascades
\* keep their types: a write of a registrar never leaves half a row.
THEOREM TypeCorrect == Spec => []TypeOK
<1>1. TypeOK /\ WritesAreWhole /\ [Next]_vars => (TypeOK /\ WritesAreWhole)'
  BY NextTypeOK, NextWritesAreWhole
<1> QED
  BY InitTypeOK, <1>1, PTL DEF Spec

------------------------------------------------------------------------------
(* The cascade, when no enrolment is updated under an update                *)

\* Between the read of an update and its write no other update of the same
\* enrolment is there too.  Cascades may overlap with anything.
UpdatesApart ==
  \A u, v \in EnrolmentRequest :
    /\ upd[u].pc = "Write" /\ upd[v].pc = "Write"
    /\ upd[u].enrolment = upd[v].enrolment
    => u = v

\* The status an update compares with is the one it overwrites.
FreshRead ==
  \A u \in EnrolmentRequest :
    upd[u].pc = "Write" => upd[u].prev = enrolment[upd[u].enrolment]

\* A registration the cascade has to reach.
Exposed(g) ==
  /\ Live(g)
  /\ reg[g].status = "REGISTERED"
  /\ enrolment[reg[g].enrolment] \in NonActiveStatuses
  /\ g \notin excused

LEMMA NextFreshRead ==
  TypeOK /\ UpdatesApart /\ FreshRead /\ [Next]_vars => FreshRead'
<1> SUFFICES ASSUME TypeOK, UpdatesApart, FreshRead, [Next]_vars,
                    NEW u \in EnrolmentRequest, upd'[u].pc = "Write"
             PROVE  upd'[u].prev = enrolment'[upd'[u].enrolment]
  BY DEF FreshRead
<1>1. ASSUME NEW e \in Enrolment, NEW s \in EnrolmentTo,
             PatchEnrolment(u, e, s)
      PROVE  upd'[u].prev = enrolment'[upd'[u].enrolment]
  BY <1>1 DEF PatchEnrolment, TypeOK
<1>2. /\ ~ WriteEnrolment(u) /\ ~ FindActive(u)
      /\ \A g \in Registration : ~ CascadeOne(u, g)
  <2>1. ~ WriteEnrolment(u)
    BY DEF WriteEnrolment, TypeOK, Idle
  <2>2. ~ FindActive(u)
    BY DEF FindActive, TypeOK
  <2>3. ASSUME NEW g \in Registration, CascadeOne(u, g)
        PROVE  FALSE
    BY <2>3 DEF CascadeOne, TypeOK, UpdateState
  <2> QED
    BY <2>1, <2>2, <2>3
<1>3. CASE upd'[u] = upd[u]
  <2>1. upd[u].pc = "Write" /\ upd[u].enrolment \in Enrolment
    BY <1>3, UpdateShape
  <2>2. ASSUME NEW v \in EnrolmentRequest, WriteEnrolment(v)
        PROVE  enrolment'[upd[u].enrolment] = enrolment[upd[u].enrolment]
    <3>1. v # u /\ upd[v].pc = "Write"
      BY <1>2, <2>2 DEF WriteEnrolment
    <3>2. upd[v].enrolment # upd[u].enrolment
      BY <2>1, <3>1 DEF UpdatesApart
    <3>3. enrolment' = [enrolment EXCEPT ![upd[v].enrolment] =
                          Or(upd[v].new, enrolment[upd[v].enrolment])]
      BY <2>2 DEF WriteEnrolment
    <3> QED
      BY <2>1, <3>2, <3>3 DEF TypeOK
  <2>3. \/ enrolment' = enrolment
        \/ \E v \in EnrolmentRequest : WriteEnrolment(v)
    BY DEF Next, ContinueUpdate, vars, Register, PatchRegistration,
           CheckCredits, RefuseCredits, WriteRegistration, WriteDeleted,
           AbortRegistrar, RemoveRegistration, PatchEnrolment, FindActive, CascadeOne, CascadeDone, AbortUpdate,
           RecordPass, RevokePass
  <2> QED
    BY <1>3, <2>1, <2>2, <2>3 DEF FreshRead
<1> QED
  BY <1>1, <1>2, <1>3, UpdateSteps DEF UpdateStep

LEMMA NextNoMissedCascade ==
  ASSUME TypeOK, WritesAreWhole, FreshRead, NoMissedCascade, [Next]_vars
  PROVE  NoMissedCascade'
<1> SUFFICES ASSUME NEW g \in Registration, Exposed(g)'
             PROVE  \E u \in EnrolmentRequest : g \in OwedBy(u)'
  BY DEF NoMissedCascade, Exposed
<1>0. Exposed(g) => \E u \in EnrolmentRequest : g \in OwedBy(u)
  BY DEF NoMissedCascade, Exposed
<1>1. ASSUME NEW r \in Registrar, NEW h \in Registration,
             \/ \E p \in Place : Register(r, h, p)
             \/ \E b \in Body : PatchRegistration(r, h, b)
             \/ CheckCredits(r) \/ RefuseCredits(r) \/ WriteDeleted(r)
             \/ AbortRegistrar(r)
      PROVE  \E u \in EnrolmentRequest : g \in OwedBy(u)'
  BY <1>0, <1>1
  DEF Register, PatchRegistration, CheckCredits, RefuseCredits, WriteDeleted,
      AbortRegistrar, Exposed, OwedBy, Active, Live
<1>2. ASSUME NEW r \in Registrar, WriteRegistration(r)
      PROVE  \E u \in EnrolmentRequest : g \in OwedBy(u)'
  <2>1. /\ reg' = [reg EXCEPT ![req[r].reg] = Written(r)]
        /\ excused' = IF enrolment[Written(r).enrolment] \in NonActiveStatuses
                      THEN excused \cup {req[r].reg} ELSE excused
        /\ enrolment' = enrolment /\ upd' = upd
        /\ req[r].reg \in Registration
    BY <1>2, RequestShape DEF WriteRegistration, Holds
  <2>2. g # req[r].reg
    BY <2>1 DEF Exposed, TypeOK
  <2>3. reg'[g] = reg[g] /\ (g \in excused => g \in excused')
    BY <2>1, <2>2 DEF TypeOK
  <2>4. Exposed(g)
    BY <2>1, <2>3 DEF Exposed, Live
  <2> QED
    BY <1>0, <2>1, <2>3, <2>4 DEF OwedBy, Active, Live
<1>3. ASSUME NEW h \in Registration, RemoveRegistration(h)
      PROVE  \E u \in EnrolmentRequest : g \in OwedBy(u)'
  <2>1. g # h
    BY <1>3 DEF RemoveRegistration, Exposed, Live, TypeOK
  <2>2. /\ reg'[g] = reg[g] /\ UNCHANGED <<enrolment, upd>>
        /\ g \in excused => g \in excused'
    BY <1>3, <2>1 DEF RemoveRegistration, TypeOK
  <2> QED
    BY <1>0, <2>2 DEF Exposed, OwedBy, Active, Live
<1>4. ASSUME NEW u \in EnrolmentRequest, NEW e \in Enrolment,
             NEW s \in EnrolmentTo, PatchEnrolment(u, e, s)
      PROVE  \E v \in EnrolmentRequest : g \in OwedBy(v)'
  <2>1. OwedBy(u) = {} /\ Exposed(g)
    BY <1>4 DEF PatchEnrolment, Idle, OwedBy, Exposed, Live
  <2>2. PICK v \in EnrolmentRequest : g \in OwedBy(v)
    BY <1>0, <2>1
  <2>3. v # u /\ upd'[v] = upd[v] /\ reg' = reg
    BY <1>4, <2>1, <2>2 DEF PatchEnrolment, TypeOK
  <2> QED
    BY <2>2, <2>3 DEF OwedBy, Active, Live
<1>5. ASSUME NEW u \in EnrolmentRequest, WriteEnrolment(u)
      PROVE  \E v \in EnrolmentRequest : g \in OwedBy(v)'
  <2> DEFINE e == upd[u].enrolment
             status == Or(upd[u].new, enrolment[e])
  <2>1. /\ e \in Enrolment
        /\ enrolment' = [enrolment EXCEPT ![e] = status]
        /\ reg' = reg /\ excused' = excused
        /\ upd[u].prev = enrolment[e] /\ OwedBy(u) = {}
    BY <1>5, UpdateShape DEF WriteEnrolment, FreshRead, OwedBy
  <2>2. CASE Exposed(g)
    <3>1. PICK v \in EnrolmentRequest : g \in OwedBy(v)
      BY <1>0, <2>2
    <3>2. upd'[v] = upd[v]
      BY <1>5, <2>1, <3>1 DEF WriteEnrolment, TypeOK
    <3> QED
      BY <2>1, <3>1, <3>2 DEF OwedBy, Active, Live
  <2>3. CASE ~ Exposed(g)
    <3>1. reg[g].enrolment = e
      BY <2>1, <2>3 DEF Exposed, Live, TypeOK
    <3>2. status \in NonActiveStatuses /\ enrolment[e] \notin NonActiveStatuses
      BY <2>1, <2>3, <3>1 DEF Exposed, Live, TypeOK
    <3>3. Cascades(upd[u].prev, status)
      BY <2>1, <3>2 DEF Cascades
    <3>4. upd'[u] = [pc |-> "FindActive", enrolment |-> e, status |-> status]
      BY <1>5, <3>3 DEF WriteEnrolment, TypeOK
    <3>5. g \in OwedBy(u)'
      BY <2>1, <3>1, <3>4 DEF OwedBy, Active, Exposed, Live
    <3> QED
      BY <3>5
  <2> QED
    BY <2>2, <2>3
<1>6. ASSUME NEW u \in EnrolmentRequest, FindActive(u)
      PROVE  \E v \in EnrolmentRequest : g \in OwedBy(v)'
  <2>1. Exposed(g)
    BY <1>6 DEF FindActive, Exposed, Live
  <2>2. PICK v \in EnrolmentRequest : g \in OwedBy(v)
    BY <1>0, <2>1
  <2>3. CASE v = u
    <3>1. g \in Active(upd[u].enrolment)
      BY <1>6, <2>2, <2>3 DEF FindActive, OwedBy
    <3>2. g \in OwedBy(u)'
      BY <1>6, <3>1 DEF FindActive, OwedBy, TypeOK
    <3> QED
      BY <3>2
  <2>4. CASE v # u
    <3>1. upd'[v] = upd[v] /\ reg' = reg
      BY <1>6, <2>4 DEF FindActive, TypeOK
    <3> QED
      BY <2>2, <3>1 DEF OwedBy, Active, Live
  <2> QED
    BY <2>3, <2>4
<1>7. ASSUME NEW u \in EnrolmentRequest, NEW h \in Registration,
             CascadeOne(u, h)
      PROVE  \E v \in EnrolmentRequest : g \in OwedBy(v)'
  <2>1. /\ upd[u].pc = "Cascade"
        /\ upd[u].status \in {"WITHDRAWN", "DEFERRED"}
        /\ upd[u].todo \subseteq Registration /\ h \in upd[u].todo
    BY <1>7, UpdateShape DEF CascadeOne
  <2>2. ASSUME g = h PROVE FALSE
    <3>1. CASE Live(h)
      <4>1. reg[h] \in [state : {"LIVE"}, enrolment : Enrolment,
                        module : Module, year : Year, status : RegStatus]
        BY <3>1 DEF TypeOK, Row, Live
      <4>2. reg'[h].status = upd[u].status
        BY <1>7, <3>1, <4>1 DEF CascadeOne, TypeOK
      <4> QED
        BY <2>1, <2>2, <4>2 DEF Exposed
    <3>2. CASE ~ Live(h)
      BY <1>7, <2>2, <3>2 DEF CascadeOne, Exposed, Live
    <3> QED
      BY <3>1, <3>2
  <2>3. g # h
    BY <2>2
  <2>4. reg'[g] = reg[g] /\ enrolment' = enrolment /\ excused' = excused
    BY <1>7, <2>3 DEF CascadeOne, TypeOK
  <2>5. PICK v \in EnrolmentRequest : g \in OwedBy(v)
    BY <1>0, <2>4 DEF Exposed, Live
  <2>6. CASE v = u
    <3>1. upd'[u].pc = "Cascade" /\ upd'[u].todo = upd[u].todo \ {h}
      BY <1>7, <2>1 DEF CascadeOne, TypeOK, UpdateState
    <3>2. g \in OwedBy(u)'
      BY <2>1, <2>3, <2>5, <2>6, <3>1 DEF OwedBy
    <3> QED
      BY <3>2
  <2>7. CASE v # u
    <3>1. upd'[v] = upd[v]
      BY <1>7, <2>7 DEF CascadeOne, TypeOK
    <3> QED
      BY <2>4, <2>5, <3>1 DEF OwedBy, Active, Live
  <2> QED
    BY <2>6, <2>7
<1>8. ASSUME NEW u \in EnrolmentRequest, CascadeDone(u) \/ AbortUpdate(u)
      PROVE  \E v \in EnrolmentRequest : g \in OwedBy(v)'
  <2>1. reg' = reg /\ enrolment' = enrolment
    BY <1>8 DEF CascadeDone, AbortUpdate
  <2>2. g \notin OwedBy(u) /\ (g \in excused => g \in excused')
    BY <1>8 DEF CascadeDone, AbortUpdate, Exposed, OwedBy
  <2>3. Exposed(g)
    BY <2>1, <2>2 DEF Exposed, Live
  <2>4. PICK v \in EnrolmentRequest : g \in OwedBy(v)
    BY <1>0, <2>3
  <2>5. v # u /\ upd'[v] = upd[v]
    BY <1>8, <2>2, <2>4 DEF CascadeDone, AbortUpdate, TypeOK
  <2> QED
    BY <2>1, <2>4, <2>5 DEF OwedBy, Active, Live
<1>9. ASSUME NEW e \in Enrolment, NEW m \in Required,
             RecordPass(e, m) \/ RevokePass(e, m)
      PROVE  \E u \in EnrolmentRequest : g \in OwedBy(u)'
  BY <1>0, <1>9 DEF RecordPass, RevokePass, Exposed, OwedBy, Active, Live
<1>10. CASE UNCHANGED vars
  BY <1>0, <1>10 DEF vars, Exposed, OwedBy, Active, Live
<1> QED
  BY <1>1, <1>2, <1>3, <1>4, <1>5, <1>6, <1>7, <1>8, <1>9, <1>10
  DEF Next, ContinueUpdate

\* No enrolment that stops being active leaves a registration behind: whatever
\* the registrars and other cascades write meanwhile, one that is still
\* REGISTERED is owed by a running cascade or had an excuse.  All it takes is
\* that no update overwrites the status another has read and not yet written.
THEOREM CascadeMissesNothing == Spec /\ []UpdatesApart => []NoMissedCascade
<1> DEFINE Inv == TypeOK /\ WritesAreWhole /\ FreshRead /\ NoMissedCascade
<1>1. Init => Inv
  BY InitTypeOK
  DEF Init, FreshRead, NoMissedCascade, Live, Idle
<1>2. Inv /\ UpdatesApart /\ [Next]_vars => Inv'
  BY NextTypeOK, NextWritesAreWhole, NextFreshRead, NextNoMissedCascade
<1>3. Inv => NoMissedCascade
  OBVIOUS
<1> QED
  BY <1>1, <1>2, <1>3, PTL DEF Spec

------------------------------------------------------------------------------
(* What a request has judged, and how long that holds                       *)

HasPassed(e, m) == \A p \in Prerequisites[m] : <<e, p>> \in everPassed

\* A row about to be created is held by the request that creates it alone.
HeldAlone ==
  \A r, q \in Registrar :
    /\ r # q /\ Holds(r) /\ Holds(q)
    /\ reg[req[r].reg].state = "MISSING"
    => req[q].reg # req[r].reg

\* Request r still knows its row, and has looked at all it is going to write.
Sees(r) ==
  reg[req[r].reg].state # "DELETED" /\ ~ Blind(r)

LEMMA HeldStep ==
  ASSUME TypeOK, [Next]_vars, NEW r \in Registrar, Holds(r)'
  PROVE  \/ /\ Holds(r)
            /\ req'[r].reg = req[r].reg /\ req'[r].to = req[r].to
         \/ \E g \in Registration, p \in Place : Register(r, g, p)
         \/ \E g \in Registration, b \in Body : PatchRegistration(r, g, b)
<1>1. CASE req'[r] = req[r]
  BY <1>1 DEF Holds
<1>2. CASE CheckCredits(r)
  BY <1>2 DEF CheckCredits, Holds, TypeOK
<1> QED
  BY <1>1, <1>2, RegistrarSteps DEF RegistrarStep, Holds

LEMMA NextHeldAlone ==
  TypeOK /\ WritesAreWhole /\ HeldAlone /\ [Next]_vars => HeldAlone'
<1> SUFFICES ASSUME TypeOK, WritesAreWhole, HeldAlone, [Next]_vars,
                    NEW r \in Registrar, NEW q \in Registrar,
                    r # q, Holds(r)', Holds(q)',
                    reg'[req'[r].reg].state = "MISSING",
                    req'[q].reg = req'[r].reg
             PROVE  FALSE
  BY DEF HeldAlone
<1>1. ASSUME NEW s \in {r, q}, NEW g \in Registration, NEW b \in Body,
             PatchRegistration(s, g, b)
      PROVE  FALSE
  <2>1. req'[s].reg = g /\ reg[g].state # "MISSING"
    BY <1>1 DEF PatchRegistration, Live, TypeOK
  <2> QED
    BY <2>1, RowsStay
<1>2. ASSUME NEW s \in {r, q}, NEW o \in {r, q}, s # o,
             NEW g \in Registration, NEW p \in Place, Register(s, g, p)
      PROVE  FALSE
  <2>1. req'[s].reg = g /\ req'[o] = req[o]
    BY <1>2 DEF Register, TypeOK
  <2>2. req[o] # Idle
    BY <2>1 DEF Holds, Idle
  <2>3. req[o].reg # g
    BY <1>2, <2>2 DEF Register
  <2> QED
    BY <1>2, <2>1, <2>3
<1>3. /\ Holds(r) /\ req'[r].reg = req[r].reg
      /\ Holds(q) /\ req'[q].reg = req[q].reg
  BY <1>1, <1>2, HeldStep
<1>4. reg[req[r].reg].state = "MISSING"
  BY <1>3, RequestShape, RowsStay
<1> QED
  BY <1>3, <1>4 DEF HeldAlone

\* Who has been overtaken stays so until it ends.
LEMMA LatenessStays ==
  ASSUME TypeOK, [Next]_vars, NEW r \in Registrar, Holds(r), Holds(r)'
  PROVE  /\ r \in crossed => r \in crossed'
         /\ r \in outsummed => r \in outsummed'
<1>1. ASSUME NEW q \in Registrar,
             \/ RefuseCredits(q) \/ WriteRegistration(q) \/ WriteDeleted(q)
             \/ AbortRegistrar(q)
      PROVE  /\ r \in crossed => r \in crossed'
             /\ r \in outsummed => r \in outsummed'
  <2>1. q # r
    BY <1>1
    DEF RefuseCredits, WriteRegistration, WriteDeleted, AbortRegistrar, Idle,
        Holds, TypeOK
  <2> QED
    BY <1>1, <2>1
    DEF RefuseCredits, WriteRegistration, WriteDeleted, AbortRegistrar
<1>2. ASSUME NEW g \in Registration, RemoveRegistration(g)
      PROVE  UNCHANGED <<crossed, outsummed>>
  BY <1>2 DEF RemoveRegistration
<1>3. CASE UNCHANGED judgement
  BY <1>3 DEF judgement
<1> QED
  BY <1>1, <1>2, <1>3
  DEF Next, ContinueUpdate, vars, Register, PatchRegistration, CheckCredits,
      PatchEnrolment, WriteEnrolment, FindActive, CascadeOne, CascadeDone,
      AbortUpdate, RecordPass, RevokePass

LEMMA OneWriteAtATime ==
  ASSUME TypeOK, NEW r \in Registrar, NEW q \in Registrar,
         WriteRegistration(r), WriteRegistration(q)
  PROVE  r = q
<1> SUFFICES ASSUME r # q PROVE FALSE
  OBVIOUS
<1>1. req'[q] = req[q] /\ req'[q] = Idle
  BY DEF WriteRegistration, TypeOK
<1> QED
  BY <1>1 DEF WriteRegistration, Idle

\* A write that does not recount leaves its row as it was.
LEMMA NothingWritten ==
  ASSUME TypeOK, NEW r \in Registrar, Holds(r), ~ Recounts(r)
  PROVE  Live(req[r].reg) /\ Written(r) = reg[req[r].reg]
<1>1. Live(req[r].reg) /\ SamePlace(reg[req[r].reg], Written(r))
  BY DEF Recounts, Requalifies, SamePlace
<1>2. req[r].reg \in Registration
  BY RequestShape
<1>3. /\ reg[req[r].reg] =
           [state |-> "LIVE", enrolment |-> reg[req[r].reg].enrolment,
            module |-> reg[req[r].reg].module, year |-> reg[req[r].reg].year,
            status |-> reg[req[r].reg].status]
      /\ Written(r) =
           [state |-> "LIVE", enrolment |-> Written(r).enrolment,
            module |-> Written(r).module, year |-> Written(r).year,
            status |-> reg[req[r].reg].status]
  BY <1>1, <1>2, RowShape, WrittenIs
<1> QED
  BY <1>1, <1>3 DEF SamePlace

\* The row a request goes on holding is what it was, or has been deleted or
\* cascaded; otherwise the request has been crossed.
LEMMA HeldRowStays ==
  ASSUME TypeOK, WritesAreWhole, HeldAlone, [Next]_vars,
         NEW r \in Registrar, Holds(r), Holds(r)', req'[r].reg = req[r].reg
  PROVE  \/ reg'[req[r].reg] = reg[req[r].reg]
         \/ Removed(req[r].reg) \/ Cascaded(req[r].reg)
         \/ r \in crossed' /\ Live(req[r].reg)'
<1> DEFINE g == req[r].reg
<1>1. g \in Registration
  BY RequestShape
<1>2. ASSUME NEW q \in Registrar, Rewrites(q, g)
      PROVE  reg'[g] = reg[g] \/ (r \in crossed' /\ Live(g)')
  <2>1. q # r
    BY <1>2 DEF Rewrites, WriteRegistration, TypeOK, Holds, Idle
  <2>2. reg[g].state # "MISSING"
    BY <1>2, <2>1 DEF HeldAlone, Rewrites
  <2>3. CASE ~ Recounts(q)
    BY <1>2, <2>3, NothingWritten DEF Rewrites
  <2>4. CASE Recounts(q)
    <3>1. r \in Crosses(q)
      BY <1>2 DEF Crosses, Rewrites, Holds, Idle
    <3>2. r \in crossed'
      BY <1>2, <2>1, <2>4, <3>1 DEF Rewrites, WriteRegistration
    <3>3. reg'[g].state = "LIVE"
      BY <1>2, WrittenShape DEF Rewrites
    <3> QED
      BY <3>2, <3>3 DEF Live
  <2> QED
    BY <2>3, <2>4
<1> QED
  BY <1>1, <1>2, RowStep

\* So whoever sees its row after a step saw it before, at the same place.
LEMMA SeesStays ==
  ASSUME TypeOK, WritesAreWhole, HeldAlone, [Next]_vars,
         NEW r \in Registrar, Holds(r), Holds(r)',
         req'[r].reg = req[r].reg, req'[r].to = req[r].to, Sees(r)'
  PROVE  /\ Sees(r)
         /\ reg'[req[r].reg] = reg[req[r].reg] \/ Cascaded(req[r].reg)
<1> DEFINE g == req[r].reg
<1>1. r \in crossed' => ~ Live(g)'
  BY DEF Sees, Blind
<1>2. reg'[g] = reg[g] \/ Cascaded(g)
  BY <1>1, HeldRowStays DEF Sees, Removed
<1>3. r \in crossed => r \in crossed'
  BY LatenessStays
<1>4. Unseen(req[r].to, reg[g]) /\ Live(g) => Unseen(req[r].to, reg'[g])
  BY <1>2 DEF Unseen, Cascaded, SamePlace
<1>5. /\ Live(g) => Live(g)' /\ ~ (r \in crossed' \/ Unseen(req[r].to, reg'[g]))
      /\ reg[g].state # "DELETED"
  BY <1>2 DEF Cascaded, Live, Sees, Blind
<1> QED
  BY <1>2, <1>3, <1>4, <1>5 DEF Sees, Blind

------------------------------------------------------------------------------
(* The prerequisites                                                        *)

\* A request that sees its row has judged the module it is going to give it.
Qualified(r) ==
  IF Live(req[r].reg)
  THEN Or(req[r].to.module, reg[req[r].reg].module) # reg[req[r].reg].module
         => HasPassed(reg[req[r].reg].enrolment, req[r].to.module)
  ELSE HasPassed(req[r].to.enrolment, req[r].to.module)

WritesAreQualified ==
  /\ passed \subseteq everPassed
  /\ \A r \in Registrar : Holds(r) /\ Sees(r) => Qualified(r)

\* Results are recorded for ever.
LEMMA PassesStay ==
  ASSUME [Next]_vars, passed \subseteq everPassed
  PROVE  everPassed \subseteq everPassed' /\ passed' \subseteq everPassed'
<1>1. CASE UNCHANGED results
  BY <1>1 DEF results
<1>2. ASSUME NEW e \in Enrolment, NEW m \in Required,
             RecordPass(e, m) \/ RevokePass(e, m)
      PROVE  everPassed \subseteq everPassed' /\ passed' \subseteq everPassed'
  BY <1>2 DEF RecordPass, RevokePass
<1> QED
  BY <1>1, <1>2
  DEF Next, ContinueUpdate, vars, Register, PatchRegistration, CheckCredits,
      RefuseCredits, WriteRegistration, WriteDeleted, AbortRegistrar,
      RemoveRegistration, PatchEnrolment, WriteEnrolment, FindActive,
      CascadeOne, CascadeDone, AbortUpdate, RecordPass, RevokePass

LEMMA NextWritesAreQualified ==
  ASSUME TypeOK, WritesAreWhole, HeldAlone, WritesAreQualified, [Next]_vars
  PROVE  WritesAreQualified'
<1>0. everPassed \subseteq everPassed' /\ passed' \subseteq everPassed'
  BY PassesStay DEF WritesAreQualified
<1>1. ASSUME NEW e, NEW m, HasPassed(e, m) PROVE HasPassed(e, m)'
  BY <1>0, <1>1 DEF HasPassed
<1>2. ASSUME NEW r \in Registrar, Holds(r)', Sees(r)' PROVE Qualified(r)'
  <2>1. ASSUME NEW g \in Registration, NEW p \in Place, Register(r, g, p)
        PROVE  Qualified(r)'
    <3>1. /\ req'[r].reg = g /\ reg'[g].state = "MISSING"
          /\ req'[r].to.enrolment = p.enrolment
          /\ req'[r].to.module = p.module
      BY <2>1 DEF Register, TypeOK
    <3>2. HasPassed(p.enrolment, p.module)
      BY <2>1 DEF Register, MeetsPrerequisites, HasPassed, WritesAreQualified
    <3> QED
      BY <1>1, <3>1, <3>2 DEF Qualified, Live
  <2>2. ASSUME NEW g \in Registration, NEW b \in Body,
               PatchRegistration(r, g, b)
        PROVE  Qualified(r)'
    <3>1. /\ req'[r].reg = g /\ req'[r].to = b
          /\ reg' = reg /\ Live(g) /\ Live(g)'
      BY <2>2 DEF PatchRegistration, TypeOK, Live
    <3>2. ~ Unseen(b, reg[g]) /\ b \in Bodies
      BY <1>2, <3>1, BodiesAssumption DEF Sees, Blind
    <3>3. ASSUME Or(b.module, reg[g].module) # reg[g].module
          PROVE  HasPassed(reg[g].enrolment, b.module)
      <4>1. b.module \notin {Unset, reg[g].module}
        BY <3>3 DEF Or
      <4>2. NewModule(b) = b.module
        BY <3>2, <4>1 DEF NewModule, Unseen, Bodies
      <4> QED
        BY <2>2, <4>1, <4>2
        DEF PatchRegistration, Or, MeetsPrerequisites, HasPassed,
            WritesAreQualified
    <3> QED
      BY <1>1, <3>1, <3>3 DEF Qualified
  <2>3. CASE /\ Holds(r)
             /\ req'[r].reg = req[r].reg /\ req'[r].to = req[r].to
    <3> DEFINE g == req[r].reg
    <3>1. Sees(r) /\ (reg'[g] = reg[g] \/ Cascaded(g))
      BY <1>2, <2>3, SeesStays
    <3>2. Qualified(r)
      BY <2>3, <3>1 DEF WritesAreQualified
    <3>3. Live(g)' <=> Live(g)
      BY <2>3, <3>1 DEF Cascaded, Live
    <3>4. Live(g) => /\ reg'[g].enrolment = reg[g].enrolment
                     /\ reg'[g].module = reg[g].module
      BY <3>1 DEF Cascaded, SamePlace
    <3> QED
      BY <1>1, <2>3, <3>2, <3>3, <3>4 DEF Qualified
  <2> QED
    BY <1>2, <2>1, <2>2, <2>3, HeldStep
<1> QED
  BY <1>0, <1>2 DEF WritesAreQualified

\* A mark goes only with a judged write or with the registration.
LEMMA MarksStay ==
  ASSUME TypeOK, [Next]_vars, NEW g \in Registration, reg'[g].state = "LIVE",
         \A r \in Registrar : ~ (Rewrites(r, g) /\ Recounts(r))
  PROVE  /\ g \in unqualified => g \in unqualified'
         /\ g \in uncounted => g \in uncounted'
<1>1. ASSUME NEW r \in Registrar, WriteRegistration(r)
      PROVE  /\ g \in unqualified => g \in unqualified'
             /\ g \in uncounted => g \in uncounted'
  <2>1. CASE req[r].reg = g
    <3>1. Rewrites(r, g)
      BY <1>1, <2>1 DEF Rewrites, WriteRegistration, Holds, TypeOK
    <3> QED
      BY <1>1, <3>1 DEF WriteRegistration, Recounts
  <2>2. CASE req[r].reg # g
    BY <1>1, <2>2 DEF WriteRegistration, Marked
  <2> QED
    BY <2>1, <2>2
<1>2. ASSUME NEW h \in Registration, RemoveRegistration(h)
      PROVE  /\ g \in unqualified => g \in unqualified'
             /\ g \in uncounted => g \in uncounted'
  <2>1. g # h
    BY <1>2 DEF RemoveRegistration, TypeOK
  <2> QED
    BY <1>2, <2>1 DEF RemoveRegistration
<1>3. CASE UNCHANGED <<unqualified, uncounted>>
  BY <1>3
<1> QED
  BY <1>1, <1>2, <1>3
  DEF Next, ContinueUpdate, vars, Register, PatchRegistration, CheckCredits,
      RefuseCredits, WriteDeleted, AbortRegistrar, PatchEnrolment,
      WriteEnrolment, FindActive, CascadeOne, CascadeDone, AbortUpdate,
      RecordPass, RevokePass, judgement

LEMMA NextPrerequisitesPassed ==
  TypeOK /\ WritesAreWhole /\ WritesAreQualified /\ PrerequisitesPassed
    /\ [Next]_vars => PrerequisitesPassed'
<1> SUFFICES ASSUME TypeOK, WritesAreWhole, WritesAreQualified,
                    PrerequisitesPassed, [Next]_vars,
                    NEW g \in Registration, reg'[g].state = "LIVE",
                    g \notin unqualified'
             PROVE  HasPassed(reg[g].enrolment, reg[g].module)'
  BY DEF PrerequisitesPassed, HasPassed, Live
<1>0. everPassed \subseteq everPassed'
  BY PassesStay DEF WritesAreQualified
<1>1. HasPassed(reg'[g].enrolment, reg'[g].module)
        => HasPassed(reg[g].enrolment, reg[g].module)'
  BY <1>0 DEF HasPassed
<1>2. Live(g) /\ g \notin unqualified
        => HasPassed(reg[g].enrolment, reg[g].module)
  BY DEF PrerequisitesPassed, HasPassed
<1>3. ASSUME NEW r \in Registrar, Rewrites(r, g), Requalifies(r)
      PROVE  HasPassed(reg'[g].enrolment, reg'[g].module)
  <2>1. ~ Blind(r)
    BY <1>3 DEF Rewrites, WriteRegistration, Marked
  <2>2. Qualified(r) /\ reg'[g] = Written(r) /\ req[r].reg = g /\ Holds(r)
    BY <1>3, <2>1 DEF Rewrites, Sees, WritesAreQualified
  <2>3. CASE Live(g)
    <3>1. /\ Written(r).enrolment = Or(req[r].to.enrolment, reg[g].enrolment)
          /\ Written(r).module = Or(req[r].to.module, reg[g].module)
      BY <2>2, <2>3, WrittenIs
    <3>2. Written(r).enrolment = reg[g].enrolment
      BY <2>1, <2>2, <2>3, <3>1 DEF Blind, Unseen, Or
    <3>3. Written(r).module # reg[g].module
      BY <1>3, <2>2, <2>3, <3>2 DEF Requalifies
    <3>4. Written(r).module = req[r].to.module
      BY <3>1, <3>3 DEF Or
    <3> QED
      BY <2>2, <2>3, <3>1, <3>2, <3>3, <3>4 DEF Qualified
  <2>4. CASE ~ Live(g)
    BY <2>2, <2>4 DEF Qualified, Written
  <2> QED
    BY <2>3, <2>4
<1>4. ASSUME NEW r \in Registrar, Rewrites(r, g), ~ Requalifies(r)
      PROVE  HasPassed(reg'[g].enrolment, reg'[g].module)
  <2>1. /\ Live(g) /\ reg'[g] = Written(r)
        /\ Written(r).module = reg[g].module
        /\ Written(r).enrolment = reg[g].enrolment
        /\ unqualified' = unqualified
    BY <1>4 DEF Rewrites, Requalifies, WriteRegistration
  <2> QED
    BY <1>2, <2>1
<1>5. CASE ~ \E r \in Registrar : Rewrites(r, g)
  <2>1. g \notin unqualified
    BY <1>5, MarksStay
  <2>2. /\ Live(g) /\ reg'[g].enrolment = reg[g].enrolment
        /\ reg'[g].module = reg[g].module
    BY <1>5, RowStep DEF Removed, Cascaded, SamePlace, Live
  <2> QED
    BY <1>1, <1>2, <2>1, <2>2
<1> QED
  BY <1>1, <1>3, <1>4, <1>5

\* However requests interleave and whatever form their bodies have, a live
\* registration for a module whose prerequisites its student never passed was
\* given it by what update() does not look at (a scalar moduleId, another
\* enrolmentId), or by a request whose row another one had written
\* (PrerequisitesPassed).
THEOREM PrerequisitesHold == Spec => []PrerequisitesPassed
<1> DEFINE Inv == /\ TypeOK /\ WritesAreWhole /\ HeldAlone
                  /\ WritesAreQualified /\ PrerequisitesPassed
<1>1. Init => Inv
  BY InitTypeOK
  DEF Init, HeldAlone, WritesAreQualified, PrerequisitesPassed, Live, Holds,
      Idle
<1>2. Inv /\ [Next]_vars => Inv'
  BY NextTypeOK, NextWritesAreWhole, NextHeldAlone, NextWritesAreQualified,
     NextPrerequisitesPassed
<1>3. Inv => PrerequisitesPassed
  OBVIOUS
<1> QED
  BY <1>1, <1>2, <1>3, PTL DEF Spec

------------------------------------------------------------------------------
(* The credits of an enrolment                                              *)

\* The credits of registrations G of table row.
CreditsIn(row, G) == MapThenSumSet(LAMBDA g : Credits[row[g].module], G)

\* One pair for every credit.
Points(row, G) == UNION {{g} \X (1 .. Credits[row[g].module]) : g \in G}

LEMMA PointsOfOne ==
  ASSUME NEW row, NEW g, Credits[row[g].module] \in Nat
  PROVE  /\ IsFiniteSet({g} \X (1 .. Credits[row[g].module]))
         /\ Cardinality({g} \X (1 .. Credits[row[g].module]))
              = Credits[row[g].module]
<1> DEFINE n == Credits[row[g].module]
<1>1. IsFiniteSet(1 .. n) /\ Cardinality(1 .. n) = n
  <2>1. 1 \in Int /\ n \in Int
    OBVIOUS
  <2> HIDE DEF n
  <2>2. IsFiniteSet(1 .. n) /\ Cardinality(1 .. n) = IF 1 > n THEN 0 ELSE n - 1 + 1
    BY <2>1, FS_Interval
  <2>3. n \in Nat
    BY DEF n
  <2> QED
    BY <2>2, <2>3
<1>2. IsFiniteSet({g}) /\ Cardinality({g}) = 1
  BY FS_Singleton
<1> HIDE DEF n
<1>3. /\ IsFiniteSet({g} \X (1 .. n))
      /\ Cardinality({g} \X (1 .. n)) = 1 * n
  BY <1>1, <1>2, FS_Product
<1> QED
  BY <1>3 DEF n

LEMMA PointsFinite ==
  ASSUME NEW row, NEW G, IsFiniteSet(G),
         \A g \in G : Credits[row[g].module] \in Nat
  PROVE  IsFiniteSet(Points(row, G)) /\ Cardinality(Points(row, G)) \in Nat
<1> DEFINE of(g) == {g} \X (1 .. Credits[row[g].module])
           S == {of(g) : g \in G}
<1>1. IsFiniteSet(S)
  <2>1. [g \in G |-> of(g)] \in Surjection(G, S)
    BY DEF Surjection
  <2> QED
    BY <2>1, FS_Surjection
<1>2. \A T \in S : IsFiniteSet(T)
  BY PointsOfOne
<1>3. IsFiniteSet(UNION S)
  BY <1>1, <1>2, FS_UNION
<1> QED
  BY <1>3, FS_CardinalityType DEF Points

LEMMA PointsAdd ==
  ASSUME NEW row, NEW G, IsFiniteSet(G), NEW g \in G,
         \A h \in G : Credits[row[h].module] \in Nat
  PROVE  Cardinality(Points(row, G))
           = Credits[row[g].module] + Cardinality(Points(row, G \ {g}))
<1> DEFINE A == {g} \X (1 .. Credits[row[g].module])
           B == Points(row, G \ {g})
<1>1. Points(row, G) = A \cup B
  BY DEF Points
<1>2. A \cap B = {}
  BY DEF Points
<1>3. IsFiniteSet(G \ {g})
  BY FS_RemoveElement
<1>4. IsFiniteSet(B) /\ Cardinality(B) \in Nat
  BY <1>3, PointsFinite
<1>5. IsFiniteSet(A) /\ Cardinality(A) = Credits[row[g].module]
  BY PointsOfOne
<1>6. Cardinality(A \cup B) = Cardinality(A) + Cardinality(B) - Cardinality({})
  <2> HIDE DEF A, B
  <2> QED
    BY <1>2, <1>4, <1>5, FS_Union
<1>7. Cardinality({}) = 0
  BY FS_EmptySet
<1> QED
  BY <1>1, <1>4, <1>5, <1>6, <1>7

\* The sum the code adds up row by row is the number of points: a counterexample
\* with the fewest registrations would have one registration fewer.
LEMMA SumIsCount ==
  ASSUME NEW row, NEW G, IsFiniteSet(G),
         \A g \in G : Credits[row[g].module] \in Nat
  PROVE  CreditsIn(row, G) = Cardinality(Points(row, G))
<1> DEFINE c(s) == CHOOSE x \in s : TRUE
           Def(f) == f = [s \in SUBSET G |->
                            IF s = {} THEN 0
                            ELSE Credits[row[c(s)].module] + f[s \ {c(s)}]]
           count == [s \in SUBSET G |-> Cardinality(Points(row, s))]
           sum == CHOOSE f : Def(f)
<1>1. ASSUME NEW s \in SUBSET G
      PROVE  Cardinality(Points(row, s)) =
               IF s = {} THEN 0
               ELSE Credits[row[c(s)].module]
                      + Cardinality(Points(row, s \ {c(s)}))
  <2>1. IsFiniteSet(s)
    BY FS_Subset
  <2>2. CASE s = {}
    <3>1. Points(row, s) = {}
      BY <2>2 DEF Points
    <3> QED
      BY <2>2, <3>1, FS_EmptySet
  <2>3. CASE s # {}
    <3>1. c(s) \in s
      BY <2>3
    <3> HIDE DEF c
    <3> QED
      BY <2>1, <2>3, <3>1, PointsAdd
  <2> QED
    BY <2>2, <2>3
<1>2. Def(count)
  <2> HIDE DEF c
  <2>1. \A s \in SUBSET G : s \ {c(s)} \in SUBSET G
    OBVIOUS
  <2> QED
    BY <1>1, <2>1
<1>3. Def(sum)
  <2> HIDE DEF Def, count
  <2> QED
    BY <1>2
<1>4. CreditsIn(row, G) = sum[G]
  BY DEF CreditsIn, MapThenSumSet, MapThenFoldSet
<1>5. \A s \in SUBSET G : sum[s] = count[s]
  <2> DEFINE Bad == {s \in SUBSET G : sum[s] # count[s]}
  <2> SUFFICES ASSUME Bad # {} PROVE FALSE
    OBVIOUS
  <2>1. IsWellFoundedOn(StrictSubsetOrdering(G), SUBSET G)
    BY FS_StrictSubsetOrderingWellFounded, FS_FiniteSubsetsOfFinite
  <2>2. PICK s \in Bad : \A t \in Bad : <<t, s>> \notin StrictSubsetOrdering(G)
    <3> HIDE DEF Bad
    <3>1. Bad \subseteq SUBSET G
      BY DEF Bad
    <3> QED
      BY <2>1, <3>1, WFMin
  <2>3. s \in SUBSET G /\ sum[s] # count[s]
    OBVIOUS
  <2>4. /\ sum[s] = IF s = {} THEN 0
                    ELSE Credits[row[c(s)].module] + sum[s \ {c(s)}]
        /\ count[s] = IF s = {} THEN 0
                      ELSE Credits[row[c(s)].module] + count[s \ {c(s)}]
    <3> HIDE DEF sum, count, c
    <3> QED
      BY <1>2, <1>3, <2>3
  <2>5. s # {}
    BY <2>3, <2>4
  <2>6. c(s) \in s
    BY <2>5
  <2> HIDE DEF sum, count, c
  <2>7. s \ {c(s)} \in SUBSET G /\ sum[s \ {c(s)}] # count[s \ {c(s)}]
    BY <2>3, <2>4, <2>5
  <2>8. <<s \ {c(s)}, s>> \in StrictSubsetOrdering(G)
    BY <2>3, <2>6, <2>7 DEF StrictSubsetOrdering
  <2> QED
    BY <2>2, <2>7, <2>8
<1>6. sum[G] = count[G]
  <2> HIDE DEF sum, count
  <2> QED
    BY <1>5
<1> QED
  BY <1>4, <1>6

LEMMA CreditsType ==
  ASSUME NEW row, NEW G, IsFiniteSet(G),
         \A g \in G : Credits[row[g].module] \in Nat
  PROVE  CreditsIn(row, G) \in Nat
BY SumIsCount, PointsFinite

LEMMA CreditsAdd ==
  ASSUME NEW row, NEW G, IsFiniteSet(G), NEW g \in G,
         \A h \in G : Credits[row[h].module] \in Nat
  PROVE  CreditsIn(row, G)
           = CreditsIn(row, G \ {g}) + Credits[row[g].module]
<1>1. IsFiniteSet(G \ {g})
  BY FS_RemoveElement
<1>2. /\ CreditsIn(row, G) = Cardinality(Points(row, G))
      /\ CreditsIn(row, G \ {g}) = Cardinality(Points(row, G \ {g}))
  BY <1>1, SumIsCount
<1>3. Cardinality(Points(row, G \ {g})) \in Nat /\ Credits[row[g].module] \in Nat
  BY <1>1, PointsFinite
<1>4. Cardinality(Points(row, G))
        = Credits[row[g].module] + Cardinality(Points(row, G \ {g}))
  BY PointsAdd
<1> QED
  BY <1>2, <1>3, <1>4

\* Fewer registrations, of the same modules, carry no more credits.
LEMMA CreditsMonotone ==
  ASSUME NEW row, NEW next, NEW H, NEW G \in SUBSET H, IsFiniteSet(H),
         \A h \in H : Credits[row[h].module] \in Nat,
         \A g \in G : next[g].module = row[g].module
  PROVE  CreditsIn(next, G) <= CreditsIn(row, H)
<1>1. IsFiniteSet(G)
  BY FS_Subset
<1>2. /\ CreditsIn(next, G) = Cardinality(Points(next, G))
      /\ CreditsIn(row, H) = Cardinality(Points(row, H))
  BY <1>1, SumIsCount
<1>3. Points(next, G) \subseteq Points(row, H)
  BY DEF Points
<1>4. IsFiniteSet(Points(row, H))
  BY PointsFinite
<1>5. Cardinality(Points(next, G)) <= Cardinality(Points(row, H))
  BY <1>3, <1>4, FS_Subset
<1> QED
  BY <1>2, <1>5

\* Counted, for any table.
CountedIn(row, e, y) ==
  {g \in Registration : /\ row[g].state = "LIVE"
                        /\ row[g].enrolment = e /\ row[g].year = y
                        /\ row[g].status = "REGISTERED"}

\* The credits enrolment e carries in year y beside registrations X.
Beside(row, e, y, X) == CreditsIn(row, CountedIn(row, e, y) \ X)

LEMMA CountedIsFinite ==
  ASSUME NEW row \in [Registration -> Row], NEW e, NEW y, NEW X
  PROVE  /\ IsFiniteSet(CountedIn(row, e, y) \ X)
         /\ \A g \in CountedIn(row, e, y) : Credits[row[g].module] \in Nat
<1>1. CountedIn(row, e, y) \ X \subseteq Registration
  BY DEF CountedIn
<1>2. IsFiniteSet(CountedIn(row, e, y) \ X)
  BY <1>1, FS_Subset, CatalogueAssumption
<1>3. ASSUME NEW g \in CountedIn(row, e, y)
      PROVE  Credits[row[g].module] \in Nat
  <2>1. row[g] \in Row /\ row[g].state = "LIVE"
    BY DEF CountedIn
  <2>2. row[g].module \in Module
    BY <2>1 DEF Row
  <2> QED
    BY <2>2, CatalogueAssumption
<1> QED
  BY <1>2, <1>3

LEMMA BesideType ==
  ASSUME NEW row \in [Registration -> Row], NEW e, NEW y, NEW X
  PROVE  Beside(row, e, y, X) \in Nat
<1> DEFINE G == CountedIn(row, e, y) \ X
<1>1. IsFiniteSet(G) /\ \A g \in G : Credits[row[g].module] \in Nat
  BY CountedIsFinite
<1> HIDE DEF G
<1>2. CreditsIn(row, G) \in Nat
  BY <1>1, CreditsType
<1> QED
  BY <1>2 DEF Beside, G

LEMMA BesideFewer ==
  ASSUME NEW row \in [Registration -> Row], NEW e, NEW y, NEW g
  PROVE  Beside(row, e, y, {g}) <= Beside(row, e, y, {})
<1> DEFINE G == CountedIn(row, e, y) \ {g}
           H == CountedIn(row, e, y) \ {}
<1>1. G \in SUBSET H
  OBVIOUS
<1>2. IsFiniteSet(H) /\ \A h \in H : Credits[row[h].module] \in Nat
  BY CountedIsFinite
<1> HIDE DEF G, H
<1>3. CreditsIn(row, G) <= CreditsIn(row, H)
  BY <1>1, <1>2, CreditsMonotone
<1> QED
  BY <1>3 DEF Beside, G, H

LEMMA CountIs ==
  ASSUME NEW e, NEW y
  PROVE  CreditsOf(Counted(e, y)) = Beside(reg, e, y, {})
<1>1. Counted(e, y) = CountedIn(reg, e, y) \ {}
  BY DEF Counted, CountedIn, Live
<1>2. CreditsOf(Counted(e, y)) = CreditsIn(reg, Counted(e, y))
  BY DEF CreditsOf, CreditsIn, MapThenSumSet, MapThenFoldSet
<1> QED
  BY <1>1, <1>2 DEF Beside

LEMMA CapIs ==
  /\ CreditCap <=> \A e \in Enrolment, y \in Year :
                     Beside(reg, e, y, uncounted) <= MaxCredits
  /\ CreditCap' <=> \A e \in Enrolment, y \in Year :
                      Beside(reg', e, y, uncounted') <= MaxCredits
<1>1. ASSUME NEW e, NEW y
      PROVE  CreditsOf(Counted(e, y) \ uncounted) = Beside(reg, e, y, uncounted)
  BY DEF CreditsOf, CreditsIn, MapThenSumSet, MapThenFoldSet, Beside, Counted,
         CountedIn, Live
<1>2. ASSUME NEW e, NEW y
      PROVE  CreditsOf(Counted(e, y) \ uncounted)'
               = Beside(reg', e, y, uncounted')
  BY DEF CreditsOf, CreditsIn, MapThenSumSet, MapThenFoldSet, Beside, Counted,
         CountedIn, Live
<1> QED
  BY <1>1, <1>2 DEF CreditCap

\* The table has room for row in place of what it holds of registration g.
Fits(table, g, row) ==
  row.status = "REGISTERED"
    => Beside(table, row.enrolment, row.year, {g}) + Credits[row.module]
         <= MaxCredits

\* For a request that sees its row, the credits are checked for the place the
\* write will leave it at; once they have been, there is room for it, until
\* another request writes to that enrolment.
WritesFit ==
  \A r \in Registrar :
    Sees(r) =>
      /\ req[r].pc = "CheckCredits" => SamePlace(Written(r), req[r].check)
      /\ req[r].pc = "Write" /\ r \notin outsummed /\ Recounts(r)
           => Fits(reg, req[r].reg, Written(r))

\* Only a write that recounts makes an enrolment carry more: a deletion and a
\* cascade take registrations out of the count.
LEMMA BesideStep ==
  ASSUME TypeOK, [Next]_vars, NEW e, NEW y, NEW X, NEW Y,
         \A g \in Registration : g \notin Y /\ reg'[g].state = "LIVE" => g \notin X,
         \A q \in Registrar : \A g \in Registration \ Y :
           Rewrites(q, g) /\ Recounts(q) => Written(q).enrolment # e
  PROVE  Beside(reg', e, y, Y) <= Beside(reg, e, y, X)
<1> DEFINE G == CountedIn(reg', e, y) \ Y
           H == CountedIn(reg, e, y) \ X
<1>1. ASSUME NEW g \in G PROVE g \in H /\ reg'[g].module = reg[g].module
  <2>1. /\ g \in Registration /\ g \notin Y /\ g \notin X
        /\ reg'[g].state = "LIVE" /\ reg'[g].status = "REGISTERED"
        /\ reg'[g].enrolment = e /\ reg'[g].year = y
    BY DEF CountedIn
  <2>2. reg'[g] = reg[g]
    <3>1. ASSUME NEW q \in Registrar, Rewrites(q, g) PROVE reg'[g] = reg[g]
      BY <2>1, <3>1, NothingWritten DEF Rewrites
    <3> QED
      BY <2>1, <3>1, RowStep DEF Removed, Cascaded
  <2> QED
    BY <2>1, <2>2 DEF CountedIn
<1>2. IsFiniteSet(H) /\ \A h \in H : Credits[reg[h].module] \in Nat
  BY CountedIsFinite DEF TypeOK
<1> HIDE DEF G, H
<1>3. CreditsIn(reg', G) <= CreditsIn(reg, H)
  BY <1>1, <1>2, CreditsMonotone
<1> QED
  BY <1>3 DEF Beside, G, H

LEMMA NextCreditCap ==
  TypeOK /\ TypeOK' /\ WritesAreWhole /\ WritesFit /\ CreditCap /\ [Next]_vars
    => CreditCap'
<1> SUFFICES ASSUME TypeOK, TypeOK', WritesAreWhole, WritesFit, CreditCap,
                    [Next]_vars, NEW e \in Enrolment, NEW y \in Year
             PROVE  Beside(reg', e, y, uncounted') <= MaxCredits
  BY CapIs
<1>0. /\ reg \in [Registration -> Row] /\ reg' \in [Registration -> Row]
      /\ MaxCredits \in Nat
  BY CatalogueAssumption DEF TypeOK
<1>1. Beside(reg, e, y, uncounted) <= MaxCredits
  BY CapIs
<1>2. /\ Beside(reg, e, y, uncounted) \in Nat
      /\ Beside(reg', e, y, uncounted') \in Nat
  BY <1>0, BesideType
<1>3. CASE \E q \in Registrar : \E g \in Registration :
             /\ Rewrites(q, g) /\ Recounts(q)
             /\ g \in CountedIn(reg', e, y) \ uncounted'
  <2>1. PICK q \in Registrar : \E g \in Registration :
             /\ Rewrites(q, g) /\ Recounts(q)
             /\ g \in CountedIn(reg', e, y) \ uncounted'
    BY <1>3
  <2>2. PICK g \in Registration :
             /\ Rewrites(q, g) /\ Recounts(q)
             /\ g \in CountedIn(reg', e, y) \ uncounted'
    BY <2>1
  <2>3. WriteRegistration(q) /\ req[q].reg = g /\ reg'[g] = Written(q)
    BY <2>2 DEF Rewrites
  <2>4. ~ Blind(q) /\ q \notin outsummed
    BY <2>2, <2>3 DEF WriteRegistration, Marked
  <2>5. Fits(reg, g, Written(q))
    BY <2>2, <2>3, <2>4 DEF WritesFit, Sees, Rewrites, WriteRegistration
  <2>6. /\ Written(q).status = "REGISTERED" /\ Written(q).enrolment = e
        /\ Written(q).year = y /\ reg'[g].module = Written(q).module
    BY <2>2, <2>3 DEF CountedIn
  <2>7. Beside(reg, e, y, {g}) + Credits[reg'[g].module] <= MaxCredits
    BY <2>5, <2>6 DEF Fits
  <2> DEFINE Z == uncounted' \cup {g}
  <2>8. Beside(reg', e, y, Z) <= Beside(reg, e, y, {g})
    <3>1. \A o \in Registrar : \A h \in Registration \ Z :
            Rewrites(o, h) /\ Recounts(o) => Written(o).enrolment # e
      BY <2>3, OneWriteAtATime DEF Rewrites
    <3>2. \A h \in Registration :
            h \notin Z /\ reg'[h].state = "LIVE" => h \notin {g}
      OBVIOUS
    <3> HIDE DEF Z
    <3> QED
      BY <3>1, <3>2, BesideStep
  <2>9. Beside(reg', e, y, uncounted')
          = Beside(reg', e, y, Z) + Credits[reg'[g].module]
    <3> DEFINE G == CountedIn(reg', e, y) \ uncounted'
    <3>1. IsFiniteSet(G) /\ \A h \in G : Credits[reg'[h].module] \in Nat
      BY <1>0, CountedIsFinite
    <3>2. g \in G /\ G \ {g} = CountedIn(reg', e, y) \ Z
      BY <2>2
    <3> HIDE DEF G
    <3>3. CreditsIn(reg', G)
            = CreditsIn(reg', G \ {g}) + Credits[reg'[g].module]
      BY <3>1, <3>2, CreditsAdd
    <3> QED
      BY <3>2, <3>3 DEF Beside, G
  <2>10. /\ Beside(reg', e, y, Z) \in Nat /\ Beside(reg, e, y, {g}) \in Nat
         /\ Credits[reg'[g].module] \in Nat
    <3>1. Credits[reg'[g].module] \in Nat
      BY <1>0, <2>2, CountedIsFinite
    <3> QED
      BY <1>0, <3>1, BesideType
  <2> QED
    BY <1>0, <2>7, <2>8, <2>9, <2>10
<1>4. CASE ~ \E q \in Registrar : \E g \in Registration :
               /\ Rewrites(q, g) /\ Recounts(q)
               /\ g \in CountedIn(reg', e, y) \ uncounted'
  <2> DEFINE Uncounted(g) == g \notin CountedIn(reg', e, y) \ uncounted'
             Z == {g \in Registration : Uncounted(g)}
  <2>1. Beside(reg', e, y, uncounted') = Beside(reg', e, y, Z)
    <3>1. CountedIn(reg', e, y) \ uncounted' = CountedIn(reg', e, y) \ Z
      BY DEF CountedIn
    <3> HIDE DEF Z
    <3> QED
      BY <3>1 DEF Beside
  <2>2. \A h \in Registration :
          h \notin Z /\ reg'[h].state = "LIVE" => h \notin uncounted
    <3> SUFFICES ASSUME NEW h \in Registration, h \notin Z, reg'[h].state = "LIVE"
                 PROVE  h \notin uncounted
      OBVIOUS
    <3>1. h \in CountedIn(reg', e, y) \ uncounted'
      OBVIOUS
    <3>2. \A q \in Registrar : ~ (Rewrites(q, h) /\ Recounts(q))
      BY <1>4, <3>1
    <3> QED
      BY <3>1, <3>2, MarksStay
  <2>3. \A o \in Registrar : \A h \in Registration \ Z :
          Rewrites(o, h) /\ Recounts(o) => Written(o).enrolment # e
    BY <1>4
  <2>4. Beside(reg', e, y, Z) <= Beside(reg, e, y, uncounted)
    <3> HIDE DEF Z
    <3> QED
      BY <2>2, <2>3, BesideStep
  <2> QED
    BY <1>0, <1>1, <1>2, <2>1, <2>4
<1> QED
  BY <1>3, <1>4

\* While a request waits to write, the room it was promised stays: whoever
\* takes of it outsums the request.
LEMMA RoomStays ==
  ASSUME TypeOK, TypeOK', WritesAreWhole, HeldAlone, WritesFit, [Next]_vars,
         NEW r \in Registrar, req[r].pc = "Write", req'[r] = req[r],
         Sees(r)', Recounts(r)', r \notin outsummed'
  PROVE  Fits(reg', req[r].reg, Written(r)')
<1> DEFINE g == req[r].reg
<1>0. Holds(r) /\ Holds(r)' /\ g \in Registration
  BY RequestShape DEF Holds
<1>1. Sees(r) /\ (reg'[g] = reg[g] \/ Cascaded(g))
  BY <1>0, SeesStays
<1>2. r \notin outsummed
  BY <1>0, LatenessStays
<1>3. CASE reg'[g] = reg[g]
  <2>1. Written(r)' = Written(r) /\ Recounts(r)
    BY <1>3 DEF Written, Recounts, Requalifies, Live
  <2>2. PICK row \in Row : row = Written(r) /\ row.module \in Module
    BY <1>0, <1>1, WrittenShape DEF Sees
  <2> SUFFICES ASSUME row.status = "REGISTERED"
               PROVE  Beside(reg', row.enrolment, row.year, {g})
                        + Credits[row.module] <= MaxCredits
    BY <2>1, <2>2 DEF Fits
  <2>3. Beside(reg, row.enrolment, row.year, {g}) + Credits[row.module]
          <= MaxCredits
    BY <1>1, <1>2, <2>1, <2>2 DEF WritesFit, Fits
  <2>4. ASSUME NEW q \in Registrar, NEW h \in Registration \ {g},
               Rewrites(q, h), Recounts(q), Written(q).enrolment = row.enrolment
        PROVE  FALSE
    <3>1. q # r /\ WriteRegistration(q)
      BY <2>4 DEF Rewrites
    <3>2. r \in Outsums(q)
      BY <2>2, <2>4 DEF Outsums
    <3> QED
      BY <2>4, <3>1, <3>2 DEF WriteRegistration
  <2>5. Beside(reg', row.enrolment, row.year, {g})
          <= Beside(reg, row.enrolment, row.year, {g})
    <3>1. \A h \in Registration : h \notin {g} /\ reg'[h].state = "LIVE"
                                    => h \notin {g}
      OBVIOUS
    <3> QED
      BY <2>4, <3>1, BesideStep
  <2>6. /\ Beside(reg', row.enrolment, row.year, {g}) \in Nat
        /\ Beside(reg, row.enrolment, row.year, {g}) \in Nat
        /\ Credits[row.module] \in Nat /\ MaxCredits \in Nat
    BY <2>2, BesideType, CatalogueAssumption DEF TypeOK
  <2> QED
    BY <2>3, <2>5, <2>6
<1>4. CASE Cascaded(g)
  <2>1. Live(g)' /\ req'[r].reg = g
    BY <1>4 DEF Cascaded, Live
  <2>2. Written(r)'.status = reg'[g].status
    BY <1>0, <2>1, NextWrittenIs
  <2> QED
    BY <1>4, <2>2 DEF Cascaded, Fits
<1> QED
  BY <1>1, <1>3, <1>4

LEMMA NextWritesFit ==
  ASSUME TypeOK, TypeOK', WritesAreWhole, HeldAlone, WritesFit, [Next]_vars
  PROVE  WritesFit'
<1> SUFFICES ASSUME NEW r \in Registrar, Sees(r)', Holds(r)'
             PROVE  /\ req'[r].pc = "CheckCredits"
                         => SamePlace(Written(r)', req'[r].check)
                    /\ (/\ req'[r].pc = "Write" /\ r \notin outsummed'
                        /\ Recounts(r)')
                         => Fits(reg', req'[r].reg, Written(r)')
  BY DEF WritesFit, Holds
<1>0. /\ reg \in [Registration -> Row] /\ MaxCredits \in Nat
  BY CatalogueAssumption DEF TypeOK
<1>1. ASSUME NEW g \in Registration, NEW p \in Place, Register(r, g, p)
      PROVE  req'[r].pc = "CheckCredits" /\ SamePlace(Written(r)', req'[r].check)
  BY <1>1 DEF Register, TypeOK, Written, SamePlace, Live
<1>2. ASSUME NEW g \in Registration, NEW b \in Body, PatchRegistration(r, g, b)
      PROVE  /\ req'[r].pc = "CheckCredits"
                  => SamePlace(Written(r)', req'[r].check)
             /\ req'[r].pc = "Write" => ~ Recounts(r)'
  <2> DEFINE row == reg[g]
             module == Or(NewModule(b), row.module)
             year == Or(b.year, row.year)
  <2>1. /\ req'[r].reg = g /\ req'[r].to = b /\ reg' = reg
        /\ Live(g) /\ Live(g)' /\ b \in Bodies
    BY <1>2, BodiesAssumption DEF PatchRegistration, TypeOK, Live
  <2>2. ~ Unseen(b, row)
    BY <2>1 DEF Sees, Blind
  <2>3. Or(b.enrolment, row.enrolment) = row.enrolment
    BY <2>2 DEF Unseen, Or
  <2>4. Or(b.module, row.module) = module
    BY <2>1, <2>2 DEF Unseen, NewModule, Or, Bodies
  <2>5. /\ Written(r)'.enrolment = row.enrolment
        /\ Written(r)'.module = module /\ Written(r)'.year = year
    BY <2>1, <2>3, <2>4, NextWrittenIs
  <2>6. CASE module # row.module \/ year # row.year
    <3>1. /\ req'[r].pc = "CheckCredits"
          /\ req'[r].check = [enrolment |-> row.enrolment,
                              module |-> module, year |-> year]
      BY <1>2, <2>6 DEF PatchRegistration, TypeOK
    <3> QED
      BY <2>5, <3>1 DEF SamePlace
  <2>7. CASE module = row.module /\ year = row.year
    <3>1. req'[r].pc = "Write"
      BY <1>2, <2>7 DEF PatchRegistration, TypeOK
    <3> QED
      BY <2>1, <2>5, <2>7, <3>1 DEF Recounts, Requalifies
  <2> QED
    BY <2>6, <2>7
<1>3. CASE CheckCredits(r)
  <2> DEFINE g == req[r].reg
             p == req[r].check
  <2>1. /\ WithinLimit(p) /\ req'[r].pc = "Write" /\ req'[r].reg = g
        /\ req'[r].to = req[r].to /\ reg' = reg /\ req[r].pc = "CheckCredits"
        /\ Holds(r)
    BY <1>3 DEF CheckCredits, Holds, TypeOK
  <2>2. Sees(r) /\ p \in Place
    BY <2>1, SeesStays, RequestShape
  <2>3. Written(r)' = Written(r) /\ SamePlace(Written(r), p)
    BY <2>1, <2>2 DEF Written, WritesFit, Live
  <2>4. PICK e \in Enrolment, m \in Module, y \in Year :
          e = p.enrolment /\ m = p.module /\ y = p.year
    BY <2>2 DEF Place
  <2>5. Beside(reg, e, y, {}) + Credits[m] <= MaxCredits
    <3>1. CreditsOf(Counted(e, y)) + Credits[m] <= MaxCredits
      BY <2>1, <2>4 DEF WithinLimit
    <3> QED
      BY <3>1, CountIs
  <2>6. Beside(reg, e, y, {g}) <= Beside(reg, e, y, {})
    BY <1>0, BesideFewer
  <2>7. /\ Beside(reg, e, y, {g}) \in Nat /\ Beside(reg, e, y, {}) \in Nat
        /\ Credits[m] \in Nat
    BY <1>0, BesideType, CatalogueAssumption
  <2>8. Beside(reg, e, y, {g}) + Credits[m] <= MaxCredits
    BY <1>0, <2>5, <2>6, <2>7
  <2>9. Fits(reg', req'[r].reg, Written(r)')
    BY <2>1, <2>3, <2>4, <2>8 DEF Fits, SamePlace
  <2>10. req'[r].pc # "CheckCredits"
    BY <2>1
  <2> QED
    BY <2>9, <2>10, Zenon
<1>4. CASE req'[r] = req[r]
  <2> DEFINE g == req[r].reg
  <2>1. Holds(r) /\ g \in Registration
    BY <1>4, RequestShape DEF Holds
  <2>2. req'[r].pc = "Write" /\ r \notin outsummed' /\ Recounts(r)'
          => Fits(reg', req'[r].reg, Written(r)')
    BY <1>4, RoomStays
  <2>3. ASSUME req'[r].pc = "CheckCredits"
        PROVE  SamePlace(Written(r)', req'[r].check)
    <3>1. Sees(r) /\ (reg'[g] = reg[g] \/ Cascaded(g))
      BY <1>4, <2>1, SeesStays
    <3>2. SamePlace(Written(r), req[r].check)
      BY <1>4, <2>3, <3>1 DEF WritesFit
    <3>3. CASE reg'[g] = reg[g]
      BY <1>4, <3>2, <3>3 DEF Written, Live
    <3>4. CASE Cascaded(g)
      <4>1. Live(g) /\ Live(g)' /\ SamePlace(reg[g], reg'[g])
        BY <1>4, <3>4 DEF Cascaded, Live
      <4>2. /\ Written(r).enrolment = Or(req[r].to.enrolment, reg[g].enrolment)
            /\ Written(r).module = Or(req[r].to.module, reg[g].module)
            /\ Written(r).year = Or(req[r].to.year, reg[g].year)
        BY <2>1, <4>1, WrittenIs
      <4>3. /\ Written(r)'.enrolment = Or(req[r].to.enrolment, reg'[g].enrolment)
            /\ Written(r)'.module = Or(req[r].to.module, reg'[g].module)
            /\ Written(r)'.year = Or(req[r].to.year, reg'[g].year)
        BY <1>4, <4>1, NextWrittenIs
      <4> QED
        BY <1>4, <3>2, <4>1, <4>2, <4>3 DEF SamePlace
    <3> QED
      BY <3>1, <3>3, <3>4
  <2> QED
    BY <2>2, <2>3, Zenon
<1>5. req'[r].pc # "Idle"
  BY DEF Holds
<1>6. RegistrarStep(r)
  BY RegistrarSteps
<1> QED
  BY <1>1, <1>2, <1>3, <1>4, <1>5, <1>6, Zenon DEF RegistrarStep

\* However requests interleave and whatever form their bodies have, the
\* registrations of an enrolment in a year stay within the limit of its mode of
\* study, but for those that were written by what update() does not look at, by
\* a request whose row another one had written, or after another one had written
\* to the enrolment since the sum was read (CreditCap).
THEOREM CreditCapHolds == Spec => []CreditCap
<1> DEFINE Inv == /\ TypeOK /\ WritesAreWhole /\ HeldAlone
                  /\ WritesFit /\ CreditCap
<1>1. Init => Inv
  <2>1. Init => CreditCap
    <3> SUFFICES ASSUME Init, NEW e \in Enrolment, NEW y \in Year
                 PROVE  Beside(reg, e, y, uncounted) <= MaxCredits
      BY CapIs
    <3>1. CountedIn(reg, e, y) \ uncounted = {}
      BY DEF Init, CountedIn
    <3>2. Points(reg, {}) = {}
      BY DEF Points
    <3>3. IsFiniteSet({}) /\ Cardinality({}) = 0
      BY FS_EmptySet
    <3>4. CreditsIn(reg, {}) = Cardinality(Points(reg, {}))
      BY <3>3, SumIsCount
    <3> QED
      BY <3>1, <3>2, <3>3, <3>4, CatalogueAssumption DEF Beside
  <2> QED
    BY <2>1, InitTypeOK DEF Init, HeldAlone, WritesFit, Holds, Idle
<1>2. Inv /\ [Next]_vars => Inv'
  <2> SUFFICES ASSUME Inv, [Next]_vars PROVE Inv'
    OBVIOUS
  <2>1. TypeOK' /\ WritesAreWhole' /\ HeldAlone'
    BY NextTypeOK, NextWritesAreWhole, NextHeldAlone
  <2>2. WritesFit' /\ CreditCap'
    BY <2>1, NextWritesFit, NextCreditCap
  <2> QED
    BY <2>1, <2>2
<1>3. Inv => CreditCap
  OBVIOUS
<1> QED
  BY <1>1, <1>2, <1>3, PTL DEF Spec
==============================================================================
