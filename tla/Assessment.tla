------------------------------ MODULE Assessment ------------------------------
(****************************************************************************)
(* The assessment attempts of module registrations (marks.service.ts) and   *)
(* the results of those modules (module-results.service.ts), which may be   *)
(* confirmed only when every attempt of the registration is.  A request     *)
(* reads a row, decides, writes by id in a later step and announces in one  *)
(* later still; between them anybody may write, and the request may end.    *)
(****************************************************************************)
EXTENDS Naturals, FiniteSets

CONSTANTS
  Registration,  \* rows of module_registrations
  Attempt,       \* rows of assessment_attempts
  Result,        \* rows of module_results
  Request,       \* how many HTTP requests may be in progress at once
  AttemptBodies, \* bodies on /marks, parsed
  ResultBodies   \* statuses that bodies on /module-results carry

AttemptStatus == {"PENDING", "SUBMITTED", "MARKED", "MODERATED", "CONFIRMED",
                  "REFERRED", "DEFERRED"}
ResultStatus == {"PROVISIONAL", "CONFIRMED", "REFERRED", "DEFERRED"}
Missing == "MISSING"
Kept == "KEPT"   \* what a body that does not carry a column says of it

\* A body on /marks: its status, whether it brings a finalMark and a grade,
\* and the registration it names.
AttemptBody == [status : AttemptStatus, mark : BOOLEAN, grade : BOOLEAN,
                to : Registration \cup {Kept}]

ASSUME BodiesAssumption == /\ AttemptBodies \subseteq AttemptBody
                           /\ ResultBodies \subseteq ResultStatus
ASSUME RowsAssumption == Attempt \cap Result = {}

AttemptTransitions ==
  [s \in AttemptStatus |->
     CASE s = "PENDING"   -> {"SUBMITTED", "DEFERRED"}
       [] s = "SUBMITTED" -> {"MARKED", "DEFERRED"}
       [] s = "MARKED"    -> {"MODERATED", "DEFERRED"}
       [] s = "MODERATED" -> {"CONFIRMED", "REFERRED", "DEFERRED"}
       [] s = "CONFIRMED" -> {}
       [] OTHER           -> {"SUBMITTED"}]
ResultTransitions ==
  [s \in ResultStatus |->
     CASE s = "PROVISIONAL" -> {"CONFIRMED", "REFERRED", "DEFERRED"}
       [] s = "CONFIRMED"   -> {}
       [] OTHER             -> {"PROVISIONAL"}]

VARIABLES
  attempt,  \* [Attempt -> the row]
  result,   \* [Result -> the row]
  home,     \* [row -> its moduleRegistrationId, which its POST gives]
  req,      \* [Request -> where the request is and what it holds]
  released, \* [Attempt -> marks.released events, up to 2]
  ratified, \* [Result -> module_results.ratified events, up to 2]
  stale,    \* history: rows overwritten by a request that had read an
            \* older version of them
  bornComplete, \* history: attempts created with finalMark and grade
  lost,     \* history: attempts whose release ended with its request
  late      \* history: [Request -> attempts that became open at the
            \* registration it counted since it counted them]

events == <<released, ratified>>
history == <<stale, bornComplete, lost>>
vars == <<attempt, result, home, req, events, history, late>>

Idle == [pc |-> "Idle"]

\* An attempt's columns are its status and whether finalMark and grade are set.
Columns == [status : AttemptStatus, mark : BOOLEAN, grade : BOOLEAN]
AttemptRow ==
  UNION { [state : {Missing}],
          [state : {"LIVE", "DELETED"}, is : Columns] }
ResultRow ==
  UNION { [state : {Missing}],
          [state : {"LIVE", "DELETED"}, is : ResultStatus] }
RequestState ==
  UNION { [pc : {"Idle"}],
          [pc : {"WriteAttempt"}, row : Attempt, prev : Columns,
           body : Columns, to : Registration \cup {Kept}],
          [pc : {"Release"}, row : Attempt],
          [pc : {"CountOpen", "WriteResult"}, row : Result,
           prev : ResultStatus, new : ResultStatus,
           to : Registration \cup {Kept}, at : Registration],
          [pc : {"Ratify"}, row : Result] }

TypeOK ==
  /\ attempt \in [Attempt -> AttemptRow]
  /\ result \in [Result -> ResultRow]
  /\ home \in [Attempt \cup Result -> Registration]
  /\ req \in [Request -> RequestState]
  /\ released \in [Attempt -> 0..2]
  /\ ratified \in [Result -> 0..2]
  /\ stale \subseteq Attempt \cup Result
  /\ bornComplete \subseteq Attempt
  /\ lost \subseteq Attempt
  /\ late \in [Request -> SUBSET Attempt]

Init ==
  /\ attempt = [a \in Attempt |-> [state |-> Missing]]
  /\ result = [m \in Result |-> [state |-> Missing]]
  /\ home \in [Attempt \cup Result -> Registration]
  /\ req = [r \in Request |-> Idle]
  /\ released = [a \in Attempt |-> 0]
  /\ ratified = [m \in Result |-> 0]
  /\ stale = {}
  /\ bornComplete = {}
  /\ lost = {}
  /\ late = [r \in Request |-> {}]

OneMore(n) == IF n = 2 THEN 2 ELSE n + 1

\* The registration of a row after a body that says `to` of it is written.
Lands(to, old) == IF to = Kept THEN old ELSE to

\* countNonConfirmedByModuleRegistration
Open(rows, of, at) ==
  {a \in Attempt : /\ rows[a].state = "LIVE" /\ of[a] = at
                   /\ rows[a].is.status # "CONFIRMED"}
MutantIgnoresReferred(rows, of, at) ==
  {a \in Open(rows, of, at) : rows[a].is.status # "REFERRED"}
Counted(rows, of, at) == Open(rows, of, at)

NotesLate ==
  late' = [r \in Request |->
             {a \in Attempt :
                /\ req[r].pc = "WriteResult"
                /\ \/ a \in late[r]
                   \/ a \in Open(attempt', home', req[r].at)
                             \ Open(attempt, home, req[r].at)}]

------------------------------------------------------------------------------
(* /marks                                                                    *)

\* A mark without a grade is graded when a boundary of the assessment fits.
GradeFor(mark, grade) == IF mark /\ ~grade THEN BOOLEAN ELSE {grade}

\* What a body writes: a column it does not carry keeps its value.
Merge(old, body) ==
  [status |-> body.status,
   mark |-> old.mark \/ body.mark,
   grade |-> old.grade \/ body.grade]
Complete(columns) == columns.mark /\ columns.grade

\* The columns that the request writes for a body.
Filled(body) ==
  {[status |-> body.status, mark |-> body.mark, grade |-> g] :
     g \in GradeFor(body.mark, body.grade)}

CreateAttempt(a, body) ==
  /\ attempt[a].state = Missing
  /\ \E c \in Filled(body) :
       /\ attempt' = [attempt EXCEPT ![a] = [state |-> "LIVE", is |-> c]]
       /\ bornComplete' = bornComplete \cup {b \in {a} : Complete(c)}
  /\ UNCHANGED <<result, home, req, events, stale, lost>>
  /\ NotesLate

MutantNothingTerminal(from, to) ==
  from = to \/ AttemptTransitions[from] = {} \/ to \in AttemptTransitions[from]
ValidAttemptMove(from, to) == from = to \/ to \in AttemptTransitions[from]

\* update() up to its write.  A body without a status carries PENDING, the
\* default of the schema it is parsed with; it may name another registration.
PatchAttempt(r, a, body) ==
  /\ req[r].pc = "Idle"
  /\ attempt[a].state = "LIVE"
  /\ ValidAttemptMove(attempt[a].is.status, body.status)
  /\ \E c \in Filled(body) :
       req' = [req EXCEPT ![r] =
                 [pc |-> "WriteAttempt", row |-> a, prev |-> attempt[a].is,
                  to |-> body.to, body |-> c]]
  /\ UNCHANGED <<attempt, result, home, events, history, late>>

\* Whether this write is the one that releases the mark.
MutantAlwaysReleases(prev, new) == Complete(new)
MutantFirstMarkReleases(prev, new) == new.mark /\ ~prev.mark
Releases(prev, new) == Complete(new) /\ ~Complete(prev)

WriteAttempt(r) ==
  LET w == req[r]
      new == Merge(attempt[w.row].is, w.body)
  IN  /\ w.pc = "WriteAttempt"
      /\ attempt' = [attempt EXCEPT ![w.row].is = new]
      /\ home' = [home EXCEPT ![w.row] = Lands(w.to, @)]
      /\ stale' = stale \cup {a \in {w.row} : attempt[a].is # w.prev}
      /\ req' = [req EXCEPT ![r] = IF Releases(w.prev, new)
                                     THEN [pc |-> "Release", row |-> w.row]
                                     ELSE Idle]
      /\ NotesLate
      /\ UNCHANGED <<result, events, bornComplete, lost>>

Release(r) ==
  /\ req[r].pc = "Release"
  /\ released' = [released EXCEPT ![req[r].row] = OneMore(@)]
  /\ req' = [req EXCEPT ![r] = Idle]
  /\ UNCHANGED <<attempt, result, home, ratified, history, late>>

RemoveAttempt(a) ==
  /\ attempt[a].state = "LIVE"
  /\ attempt' = [attempt EXCEPT ![a].state = "DELETED"]
  /\ UNCHANGED <<result, home, req, events, history, late>>

------------------------------------------------------------------------------
(* /module-results                                                           *)

CreateResult(m, status) ==
  /\ result[m].state = Missing
  /\ result' = [result EXCEPT ![m] = [state |-> "LIVE", is |-> status]]
  /\ UNCHANGED <<attempt, home, req, events, history, late>>

ValidResultMove(from, to) == from = to \/ to \in ResultTransitions[from]

GuardedMove(prev, new) == prev # new /\ new = "CONFIRMED"

\* The check counts at the registration that was read, whatever the body says.
PatchResult(r, m, status, to) ==
  /\ req[r].pc = "Idle"
  /\ result[m].state = "LIVE"
  /\ ValidResultMove(result[m].is, status)
  /\ req' = [req EXCEPT ![r] =
               [pc |-> IF GuardedMove(result[m].is, status) THEN "CountOpen"
                       ELSE "WriteResult",
                row |-> m, prev |-> result[m].is, new |-> status,
                to |-> to, at |-> home[m]]]
  /\ UNCHANGED <<attempt, result, home, events, history, late>>

\* assertAllAttemptsConfirmed: the count is taken before the write.
CountOpen(r) ==
  /\ req[r].pc = "CountOpen"
  /\ req' = [req EXCEPT ![r] = IF Counted(attempt, home, req[r].at) = {}
                                 THEN [@ EXCEPT !.pc = "WriteResult"]
                                 ELSE Idle]
  /\ late' = [late EXCEPT ![r] = {}]
  /\ UNCHANGED <<attempt, result, home, events, history>>

Ratifies(prev, new) == prev = "PROVISIONAL" /\ new = "CONFIRMED"

WriteResult(r) ==
  LET w == req[r] IN
  /\ w.pc = "WriteResult"
  /\ result' = [result EXCEPT ![w.row].is = w.new]
  /\ home' = [home EXCEPT ![w.row] = Lands(w.to, @)]
  /\ stale' = stale \cup {m \in {w.row} : result[m].is # w.prev}
  /\ req' = [req EXCEPT ![r] = IF Ratifies(w.prev, w.new)
                                 THEN [pc |-> "Ratify", row |-> w.row]
                                 ELSE Idle]
  /\ late' = [late EXCEPT ![r] = {}]
  /\ UNCHANGED <<attempt, events, bornComplete, lost>>

Ratify(r) ==
  /\ req[r].pc = "Ratify"
  /\ ratified' = [ratified EXCEPT ![req[r].row] = OneMore(@)]
  /\ req' = [req EXCEPT ![r] = Idle]
  /\ UNCHANGED <<attempt, result, home, released, history, late>>

RemoveResult(m) ==
  /\ result[m].state = "LIVE"
  /\ result' = [result EXCEPT ![m].state = "DELETED"]
  /\ UNCHANGED <<attempt, home, req, events, history, late>>

------------------------------------------------------------------------------
\* A query rejects and the handler is left, or the process ends: nothing that
\* was to come after the await is done.
AbortRequest(r) ==
  /\ req[r].pc # "Idle"
  /\ lost' = lost \cup {a \in Attempt :
                         req[r] = [pc |-> "Release", row |-> a]}
  /\ req' = [req EXCEPT ![r] = Idle]
  /\ late' = [late EXCEPT ![r] = {}]
  /\ UNCHANGED <<attempt, result, home, events, stale, bornComplete>>

------------------------------------------------------------------------------
Marking ==
  \/ \E a \in Attempt, b \in AttemptBodies : CreateAttempt(a, b)
  \/ \E r \in Request, a \in Attempt, b \in AttemptBodies :
       PatchAttempt(r, a, b)
  \/ \E r \in Request : WriteAttempt(r) \/ Release(r)
  \/ \E a \in Attempt : RemoveAttempt(a)
Ratification ==
  \/ \E m \in Result, s \in ResultBodies : CreateResult(m, s)
  \/ \E r \in Request, m \in Result, s \in ResultBodies,
        to \in Registration \cup {Kept} : PatchResult(r, m, s, to)
  \/ \E r \in Request : CountOpen(r) \/ WriteResult(r) \/ Ratify(r)
  \/ \E m \in Result : RemoveResult(m)
Next == Marking \/ Ratification \/ \E r \in Request : AbortRequest(r)

Spec == Init /\ [][Next]_vars

------------------------------------------------------------------------------
(* Properties                                                                *)

\* An attempt and a result move only along their graphs, and CONFIRMED ones
\* not at all, unless the row is overwritten by a request that read it before
\* somebody else changed it (marks.service.ts:145-177).
MovesFollowGraph ==
  [][/\ \A a \in Attempt \ stale' :
          attempt[a].state # Missing =>
            attempt'[a].is.status \in {attempt[a].is.status}
              \cup AttemptTransitions[attempt[a].is.status]
     /\ \A m \in Result \ stale' :
          result[m].state # Missing =>
            result'[m].is \in {result[m].is} \cup ResultTransitions[result[m].is]]_vars

\* A result that a PATCH is about to confirm, and that will belong to the
\* registration whose attempts were counted, has no open attempt but those
\* opened or moved there since the count (module-results.service.ts:127-134).
\* A result that its own body or another request moves to another registration
\* is confirmed whatever is open there.
RatifiedHadNoOpenAttempt ==
  \A r \in Request :
    LET w == req[r] IN
    (/\ w.pc = "WriteResult"
     /\ w.new = "CONFIRMED" /\ w.prev # "CONFIRMED"
     /\ Lands(w.to, home[w.row]) = w.at)
    => Open(attempt, home, Lands(w.to, home[w.row])) \subseteq late[r]

\* marks.released and module_results.ratified are sent once for a row that
\* no stale write touched, however many requests race (marks.service.ts:220).
AnnouncedOnce ==
  /\ \A a \in Attempt \ stale : released[a] <= 1
  /\ \A m \in Result \ stale : ratified[m] <= 1

\* A mark completed by PATCHes is released, unless the request that has
\* written it ends before it says so (between marks.service.ts:178 and :227):
\* whichever of two requests brings the second of finalMark and grade
\* announces it, because it compares what it read with what it wrote.  A mark
\* that is created complete is released by nothing.
CompletedIsReleased ==
  \A a \in Attempt \ (bornComplete \cup lost) :
    attempt[a].state # Missing /\ Complete(attempt[a].is) =>
      \/ released[a] > 0
      \/ \E r \in Request : req[r] = [pc |-> "Release", row |-> a]
==============================================================================
